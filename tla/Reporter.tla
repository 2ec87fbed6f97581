------------------------------ MODULE Reporter --------------------------------
(***************************************************************************)
(* The host reporter: engine.Evaluator.Next on what the providers make of  *)
(* the host and the reportLoop of cmd/node-activity-reporter, against a    *)
(* status endpoint whose calls may fail, or time out at the reporter and   *)
(* take effect later or never. A generation tells reports apart, a         *)
(* debounce keeps the established activity until enough consecutive        *)
(* samples agree on another one.                                           *)
(***************************************************************************)
EXTENDS Signals

CONSTANTS Configs,   \* configuration files, valid or not
          Hosts      \* what a sample may find on the host

ASSUME ReporterAssumption == Configs \subseteq ConfigType /\ Hosts \subseteq HostType

States == {"active", "idle", "unknown", "stale"}

VARIABLES
    config,     \* the configuration loaded at start
    now,        \* the host's clock
    evaluator,  \* the fields of engine.Evaluator
    loop,       \* lastReport and lastGeneration of reportLoop
    sending,    \* the report being sent, or NoReport
    late,       \* reports whose call timed out and that may still take effect
    status,     \* the reporter's fields of the NodeActivity status
    candidate,  \* history: what the last sample aggregated to
    streak,     \* history: how many samples in a row aggregated to that
    goodAt,     \* history: when the last good sample was taken, if none yet the first, or 0
    host,       \* history: what went on at the last sample, and was it all seen
    overtakenAt \* history: when a late report replaced a newer one, or 0

history == <<candidate, streak, goodAt, host>>

vars == <<config, now, evaluator, loop, sending, late, status, history, overtakenAt>>

Report == [state : States, activity : Activities, heartbeatAt : Nat, generation : Nat]

NoReport == [state |-> "unknown", activity |-> Unknown, heartbeatAt |-> 0, generation |-> 0]

(***************************************************************************)
(* A zero time is 0.                                                       *)
(***************************************************************************)
NewEvaluator ==
    [current |-> Unknown, pending |-> Unknown, pendingCount |-> 0,
     lastGood |-> 0, firstSeen |-> 0,
     lastState |-> "unknown", lastActivity |-> Unknown, generation |-> 0]

NewLoop == [lastReport |-> 0, lastGeneration |-> 0]

NothingSeen == [goesOn |-> {}, unanswered |-> FALSE]

(***************************************************************************)
(* What a sample can yield: what the providers' observations of some host  *)
(* aggregate to, with what really went on there for the history.           *)
(***************************************************************************)
Samples ==
    {[config |-> c, seen |-> Aggregate(Collect(buildProviders(c), h)),
      host |-> [goesOn |-> GoesOn(c, h), unanswered |-> Unanswered(c, h)]] :
        c \in {x \in Configs : Validate(x)}, h \in Hosts}

(***************************************************************************)
(* Load refuses a configuration that is not valid, and run stops.          *)
(***************************************************************************)
Init ==
    /\ config \in {c \in Configs : Validate(c)}
    /\ now = 1
    /\ evaluator = NewEvaluator /\ loop = NewLoop
    /\ sending = NoReport /\ late = {} /\ status = NoReport
    /\ candidate = Unknown /\ streak = 0 /\ goodAt = 0 /\ host = NothingSeen
    /\ overtakenAt = 0

----------------------------------------------------------------------------
StateIsActivity(activity) == activity

stateFor(activity) ==
    CASE activity \in {"game", "interactive"} -> "active"
      [] activity = "idle" -> "idle"
      [] OTHER -> "unknown"

PendingSurvivesUnknown(ev, seen) ==
    IF seen \in {Unknown, ev.current} THEN ev
    ELSE LET count == IF seen = ev.pending THEN ev.pendingCount + 1 ELSE 1
         IN  IF count >= config.samples[seen]
             THEN [ev EXCEPT !.current = seen, !.pending = Unknown, !.pendingCount = 0]
             ELSE [ev EXCEPT !.pending = seen, !.pendingCount = count]

(***************************************************************************)
(* Next on the debounce: unknown and a confirmation of the established     *)
(* activity clear it, another activity is counted until it is established. *)
(***************************************************************************)
debounced(ev, seen) ==
    IF seen \in {Unknown, ev.current}
    THEN [ev EXCEPT !.pending = Unknown, !.pendingCount = 0]
    ELSE LET count == IF seen = ev.pending THEN ev.pendingCount + 1 ELSE 1
         IN  IF count >= config.samples[seen]
             THEN [ev EXCEPT !.current = seen, !.pending = Unknown, !.pendingCount = 0]
             ELSE [ev EXCEPT !.pending = seen, !.pendingCount = count]

(***************************************************************************)
(* Next on what is reported: uncertainty is unknown, and stale once the    *)
(* last good sample (or the start) is StaleAfter old; otherwise the        *)
(* established activity, which is unknown until one is established.        *)
(***************************************************************************)
reportedState(ev, seen, t) ==
    IF seen # Unknown THEN stateFor(ev.current)
    ELSE IF t - (IF ev.lastGood # 0 THEN ev.lastGood ELSE ev.firstSeen) >= config.staleAfter
    THEN "stale" ELSE "unknown"

reportedActivity(ev, seen) == IF seen = Unknown THEN Unknown ELSE ev.current

GenerationOfActivity(ev, seen, t) ==
    LET first == [ev EXCEPT !.firstSeen = IF @ = 0 THEN t ELSE @,
                            !.lastGood = IF seen = Unknown THEN @ ELSE t]
        next  == debounced(first, seen)
        state == reportedState(next, seen, t)
        activity == reportedActivity(next, seen)
    IN  [next EXCEPT !.lastState = state, !.lastActivity = activity,
                     !.generation = IF @ = 0 \/ activity # next.lastActivity
                                    THEN @ + 1 ELSE @]

EverySampleGood(ev, seen, t) ==
    LET first == [ev EXCEPT !.firstSeen = IF @ = 0 THEN t ELSE @, !.lastGood = t]
        next  == debounced(first, seen)
        state == reportedState(next, seen, t)
        activity == reportedActivity(next, seen)
    IN  [next EXCEPT !.lastState = state, !.lastActivity = activity,
                     !.generation = IF \/ @ = 0 \/ state # next.lastState
                                       \/ activity # next.lastActivity
                                    THEN @ + 1 ELSE @]

(***************************************************************************)
(* Evaluator.Next: the evaluator after a sample, whose lastState,          *)
(* lastActivity and generation are those of the status it returns.         *)
(***************************************************************************)
evaluated(ev, seen, t) ==
    LET first == [ev EXCEPT !.firstSeen = IF @ = 0 THEN t ELSE @,
                            !.lastGood = IF seen = Unknown THEN @ ELSE t]
        next  == debounced(first, seen)
        state == reportedState(next, seen, t)
        activity == reportedActivity(next, seen)
    IN  [next EXCEPT !.lastState = state, !.lastActivity = activity,
                     !.generation = IF \/ @ = 0 \/ state # next.lastState
                                       \/ activity # next.lastActivity
                                    THEN @ + 1 ELSE @]

ReportsOnChangeOnly(l, generation, t) == l.lastReport = 0 \/ generation # l.lastGeneration

(***************************************************************************)
(* Report at first, on a new generation and when a heartbeat is due.       *)
(***************************************************************************)
reportDue(l, generation, t) ==
    \/ l.lastReport = 0
    \/ generation # l.lastGeneration
    \/ t - l.lastReport >= config.heartbeatInterval

(***************************************************************************)
(* One iteration of reportLoop up to the call of Report. The loop does not *)
(* sample again before the call returned.                                  *)
(***************************************************************************)
Sample(sample) ==
    LET seen == sample.seen
        ev   == evaluated(evaluator, seen, now)
    IN  /\ sending = NoReport
        /\ sample.config = config
        /\ evaluator' = ev
        /\ candidate' = seen /\ host' = sample.host
        /\ streak' = IF seen = candidate THEN streak + 1 ELSE 1
        /\ goodAt' = IF seen # Unknown \/ goodAt = 0 THEN now ELSE goodAt
        /\ sending' = IF reportDue(loop, ev.generation, now)
                      THEN [state |-> ev.lastState, activity |-> ev.lastActivity,
                            heartbeatAt |-> now, generation |-> ev.generation]
                      ELSE NoReport
        /\ UNCHANGED <<config, now, loop, late, status, overtakenAt>>

(***************************************************************************)
(* The call took effect and the answer arrived: the loop remembers when    *)
(* the reported sample was taken.                                          *)
(***************************************************************************)
Reported ==
    /\ sending # NoReport
    /\ status' = sending
    /\ loop' = [lastReport |-> sending.heartbeatAt, lastGeneration |-> sending.generation]
    /\ sending' = NoReport
    /\ late' = {[r EXCEPT !.overtaken = TRUE] : r \in late}
    /\ overtakenAt' = 0
    /\ UNCHANGED <<config, now, evaluator, history>>

(***************************************************************************)
(* The call failed: the error is logged and the loop goes on as if it had  *)
(* not reported.                                                           *)
(***************************************************************************)
ReportFails ==
    /\ sending # NoReport
    /\ sending' = NoReport
    /\ UNCHANGED <<config, now, evaluator, loop, late, status, history, overtakenAt>>

(***************************************************************************)
(* The call timed out, or its answer was lost: to the loop it failed.      *)
(***************************************************************************)
ReportTimesOut ==
    /\ sending # NoReport
    /\ late' = late \cup {[report |-> sending, overtaken |-> FALSE]}
    /\ sending' = NoReport
    /\ UNCHANGED <<config, now, evaluator, loop, status, history, overtakenAt>>

(***************************************************************************)
(* The server applies a patch it received; a merge patch carries no        *)
(* precondition, so an old one replaces a newer one's fields.              *)
(***************************************************************************)
LateApplied(r) ==
    /\ r \in late
    /\ late' = late \ {r}
    /\ status' = r.report
    /\ overtakenAt' = IF r.overtaken THEN now ELSE 0
    /\ UNCHANGED <<config, now, evaluator, loop, sending, history>>

Restart ==
    /\ evaluator' = NewEvaluator /\ loop' = NewLoop /\ sending' = NoReport
    /\ candidate' = Unknown /\ streak' = 0 /\ goodAt' = 0 /\ host' = NothingSeen
    /\ UNCHANGED <<config, now, late, status, overtakenAt>>

Tick ==
    /\ now' = now + 1
    /\ UNCHANGED <<config, evaluator, loop, sending, late, status, history, overtakenAt>>

Next ==
    \/ \E sample \in Samples : Sample(sample)
    \/ Reported \/ ReportFails \/ ReportTimesOut
    \/ \E r \in late : LateApplied(r)
    \/ Restart \/ Tick

Spec == Init /\ [][Next]_vars

----------------------------------------------------------------------------
TypeOK ==
    /\ config \in Configs /\ Validate(config)
    /\ now \in Nat
    /\ evaluator \in [current : Activities, pending : Activities, pendingCount : Nat,
                      lastGood : Nat, firstSeen : Nat, lastState : States,
                      lastActivity : Activities, generation : Nat]
    /\ loop \in [lastReport : Nat, lastGeneration : Nat]
    /\ sending \in Report /\ status \in Report
    /\ \A r \in late : r \in [report : Report, overtaken : BOOLEAN]
    /\ candidate \in Activities /\ streak \in Nat /\ goodAt \in Nat /\ overtakenAt \in Nat
    /\ host \in [goesOn : SUBSET {"game", "interactive"}, unanswered : BOOLEAN]

(***************************************************************************)
(* "Transitions require consecutive samples" (docs/host-reporter.md):      *)
(* the established activity changes only to one that as many samples in a  *)
(* row have agreed on as the configuration asks for, and it never lags     *)
(* behind such a row.                                                      *)
(***************************************************************************)
DebounceExact ==
    [][LET a == evaluator'.current
       IN  /\ (a # evaluator.current /\ a # Unknown)
                 => (candidate' = a /\ streak' >= config.samples[a])
           /\ (candidate' # Unknown /\ streak' >= config.samples[candidate'])
                 => (a = candidate')]_vars

(***************************************************************************)
(* Idle is never an absence of evidence. With every query answered, what   *)
(* the reporter makes of a sample is what goes on at the host; with one    *)
(* unanswered it may still report activity that another signal shows, but  *)
(* never idle. So a host is reported idle only while everything is         *)
(* answered and quiet, or while activity that was idle before is seen and  *)
(* has not lasted for its debounce yet.                                    *)
(***************************************************************************)
IdleIsEvidence ==
    /\ (streak # 0 /\ ~host.unanswered) =>
           candidate = CASE "game" \in host.goesOn -> "game"
                         [] host.goesOn = {"interactive"} -> "interactive"
                         [] OTHER -> "idle"
    /\ (streak # 0 /\ host.unanswered) => candidate \in host.goesOn \cup {Unknown}
    /\ (evaluator.lastState = "idle" /\ (host.unanswered \/ host.goesOn # {})) =>
           candidate \in host.goesOn /\ streak < config.samples[candidate]

(***************************************************************************)
(* Once a sample's report is through, or none was due, the NodeActivity    *)
(* says what the evaluator says, however many earlier reports failed, took *)
(* effect without an answer or were skipped as nothing new, and whatever   *)
(* state came and went in between; and its heartbeat is recent. Only a     *)
(* report that timed out and comes in after a newer one breaks this.       *)
(***************************************************************************)
StatusFollows ==
    (/\ sending = NoReport /\ overtakenAt = 0
     /\ loop.lastReport # 0 /\ loop.lastGeneration = evaluator.generation)
    => /\ status.state = evaluator.lastState /\ status.activity = evaluator.lastActivity
       /\ status.heartbeatAt >= loop.lastReport

(***************************************************************************)
(* "Any uncertainty therefore becomes unknown, then stale after            *)
(* agent.stale_after without a good observation" (docs/host-reporter.md):  *)
(* the report of a sample in which a provider fails and none is active     *)
(* never claims idle or activity. It says unknown while the last good      *)
(* sample this process took, or its first one if none was good, is younger *)
(* than stale_after, and stale from then on: samples that are not good     *)
(* never put that off, however many there are, and neither do reports that *)
(* fail; a good one starts the time again, and so does a restart.          *)
(***************************************************************************)
UncertaintyReported ==
    (sending # NoReport /\ candidate = Unknown) =>
        /\ sending.activity = Unknown
        /\ sending.state = IF sending.heartbeatAt - goodAt >= config.staleAfter
                           THEN "stale" ELSE "unknown"

(***************************************************************************)
(* A reporter whose calls go through keeps its heartbeat within the        *)
(* interval: after a sample that sends nothing the last heartbeat is less  *)
(* than heartbeat_interval older than the sample. A late report may move   *)
(* the heartbeat back without any bound; then the sample that sends        *)
(* nothing comes less than heartbeat_interval after it did, so that a      *)
(* working reporter has repaired the status by then.                       *)
(***************************************************************************)
HeartbeatKept ==
    [][(/\ <<evaluator, history>>' # <<evaluator, history>>
        /\ streak' # 0 /\ sending' = NoReport)
       => now - (IF overtakenAt = 0 THEN status.heartbeatAt ELSE overtakenAt)
            < config.heartbeatInterval]_vars
=============================================================================
