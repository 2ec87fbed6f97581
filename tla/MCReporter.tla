----------------------------- MODULE MCReporter -------------------------------
(***************************************************************************)
(* Bounds for Reporter: a clock that stops at MaxTime, few samples at one  *)
(* instant, few changes of what is reported, few restarts and reports in   *)
(* flight; configurations and hosts of every kind the providers tell apart.*)
(***************************************************************************)
EXTENDS Reporter

CONSTANTS MaxTime, MaxRestarts, MaxStreak, MaxGeneration, MaxTimeouts

VARIABLES restarts, timeouts

counters == <<restarts, timeouts>>

MCDefaults ==
    [activityMode |-> "game", enabled |-> {"logind"}, wellFormed |-> Providers,
     sampleInterval |-> 1, heartbeatInterval |-> 2, staleAfter |-> 2,
     samples |-> [game |-> 1, interactive |-> 2, idle |-> 2],
     failClosed |-> TRUE, reporterMode |-> "kubernetes"]

(* The process provider alone; the three together; and two files that Load refuses. *)
MCConfigs ==
    LET served == [MCDefaults EXCEPT !.wellFormed = Providers \cup {"kubernetes"}]
    IN  {MCDefaults, served,
         [served EXCEPT !.activityMode = "session", !.enabled = Providers],
         [served EXCEPT !.activityMode = "session", !.enabled = {}]}

process == [commRead |-> TRUE, cmdlineRead |-> TRUE, comm |-> "shell", words |-> {},
            executable |-> "shell"]

MCProcesses ==
    { {}, {process}, {[process EXCEPT !.commRead = FALSE, !.cmdlineRead = FALSE]},
      {process, [process EXCEPT !.commRead = FALSE, !.cmdlineRead = FALSE, !.comm = "wine"]},
      {process, [process EXCEPT !.commRead = FALSE, !.words = {"configured literal"}]},
      {[process EXCEPT !.cmdlineRead = FALSE, !.comm = "configured name"]},
      {[process EXCEPT !.comm = "reaper", !.words = {"appid="}]},
      {[process EXCEPT !.words = {"/proton", "run"}]},
      {process, [process EXCEPT !.executable = "wine"]} }

session == [safeID |-> TRUE, inspected |-> TRUE, active |-> TRUE, graphical |-> TRUE,
            idleHint |-> FALSE, lockedHint |-> FALSE]

MCSessions ==
    LET locked == [session EXCEPT !.lockedHint = TRUE]
        lost   == [session EXCEPT !.inspected = FALSE]
    IN  { << >>, <<locked, session>>, <<locked>>, <<session, lost>>, <<lost, session>>, <<lost>>,
          <<[session EXCEPT !.idleHint = TRUE], [session EXCEPT !.graphical = FALSE]>>,
          <<[session EXCEPT !.safeID = FALSE]>> }

MCHosts ==
    [procRead : BOOLEAN, processes : MCProcesses,
     sessionsListed : BOOLEAN, sessions : MCSessions,
     utilizationQueried : BOOLEAN, appsQueried : {TRUE},
     utilization : {{"percent"}, {"blank"}, {"unavailable", "invalid"}},
     apps : {{}, {"app"}, {"app", "invalid"}}]

MCInit == Init /\ restarts = 0 /\ timeouts = 0

MCNext ==
    \/ /\ \E sample \in Samples : Sample(sample)
       /\ streak' <= MaxStreak /\ evaluator'.generation + restarts <= MaxGeneration
       /\ UNCHANGED counters
    \/ (Reported \/ ReportFails) /\ UNCHANGED counters
    \/ timeouts < MaxTimeouts /\ ReportTimesOut /\ timeouts' = timeouts + 1 /\ UNCHANGED restarts
    \/ (\E r \in late : LateApplied(r)) /\ UNCHANGED counters
    \/ restarts < MaxRestarts /\ Restart /\ restarts' = restarts + 1 /\ UNCHANGED timeouts
    \/ now < MaxTime /\ Tick /\ UNCHANGED counters

MCSpec == MCInit /\ [][MCNext]_<<vars, counters>>
=============================================================================
