------------------------------- MODULE Signals --------------------------------
(***************************************************************************)
(* What the signal providers of internal/signals make of a host, and the   *)
(* configuration that chooses them (internal/config and buildProviders).   *)
(* A host is what the commands and /proc would answer: a query that fails, *)
(* times out or overflows its buffer fails as a whole, a line of output is *)
(* known by its kind, a command line by the literals found in it.          *)
(***************************************************************************)
EXTENDS Integers, Sequences

Unknown == "unknown"
Known == {"game", "interactive", "idle"}
Activities == Known \cup {Unknown}

Providers == {"logind", "game-process", "nvidia"}

(***************************************************************************)
(* Durations and counts are numbers of one unit each. The literals in a    *)
(* command line and the names are strings; a line of output is a number in *)
(* percent or an application, marked as not available, malformed, or blank.*)
(***************************************************************************)
ConfigType ==
    [activityMode : STRING, reporterMode : STRING,
     enabled : SUBSET Providers, wellFormed : SUBSET (Providers \cup {"kubernetes"}),
     sampleInterval : Int, heartbeatInterval : Int, staleAfter : Int,
     samples : [Known -> Int], failClosed : BOOLEAN]

SessionType ==
    [safeID : BOOLEAN, inspected : BOOLEAN, active : BOOLEAN, graphical : BOOLEAN,
     idleHint : BOOLEAN, lockedHint : BOOLEAN]

ProcessType ==
    [commRead : BOOLEAN, cmdlineRead : BOOLEAN, comm : STRING, executable : STRING,
     words : SUBSET STRING]

HostType ==
    [procRead : BOOLEAN, processes : SUBSET ProcessType,
     sessionsListed : BOOLEAN, sessions : Seq(SessionType),
     utilizationQueried : BOOLEAN, utilization : SUBSET {"percent", "unavailable", "invalid", "blank"},
     appsQueried : BOOLEAN, apps : SUBSET {"app", "invalid", "blank"}]

----------------------------------------------------------------------------
(***************************************************************************)
(* Config.Validate on the settings the reporter's behaviour depends on.    *)
(* wellFormed names the sections whose commands and paths are absolute,    *)
(* whose lists are not empty and whose timeouts and floors are in range.   *)
(***************************************************************************)
SectionsUsed(c) ==
    c.enabled \cup (IF c.activityMode = "game" THEN {"game-process"} ELSE {})
              \cup (IF c.reporterMode = "kubernetes" THEN {"kubernetes"} ELSE {})

Validate(c) ==
    /\ c.activityMode \in {"game", "session"}
    /\ c.sampleInterval > 0
    /\ c.heartbeatInterval >= c.sampleInterval /\ c.staleAfter >= c.sampleInterval
    /\ \A a \in Known : c.samples[a] >= 1
    /\ c.failClosed
    /\ c.activityMode = "session" => c.enabled # {}
    /\ SectionsUsed(c) \subseteq c.wellFormed
    /\ c.reporterMode \in {"stdout", "kubernetes"}

(***************************************************************************)
(* In the game mode the process provider runs alone, enabled or not.       *)
(***************************************************************************)
buildProviders(c) == IF c.activityMode = "game" THEN {"game-process"} ELSE c.enabled

----------------------------------------------------------------------------
(***************************************************************************)
(* LogindProvider: an inspection that fails ends the scan, so a session    *)
(* counts only if all before it could be inspected. A session whose ID is  *)
(* not safe to pass on is not looked at.                                   *)
(***************************************************************************)
interactive(session) ==
    session.active /\ session.graphical /\ ~session.idleHint /\ ~session.lockedHint

parseSessionIDs(sessions) == {i \in DOMAIN sessions : sessions[i].safeID}

SkipsUninspected(h) ==
    IF ~h.sessionsListed THEN Unknown
    ELSE IF \E i \in parseSessionIDs(h.sessions) :
                h.sessions[i].inspected /\ interactive(h.sessions[i])
    THEN "interactive"
    ELSE "idle"

observeLogind(h) ==
    LET listed == parseSessionIDs(h.sessions)
    IN  IF ~h.sessionsListed THEN Unknown
        ELSE IF \E i \in listed : /\ interactive(h.sessions[i])
                                  /\ \A j \in listed : j <= i => h.sessions[j].inspected
        THEN "interactive"
        ELSE IF \A i \in listed : h.sessions[i].inspected THEN "idle" ELSE Unknown

(***************************************************************************)
(* ProcessProvider: the first process that matches ends the scan.          *)
(***************************************************************************)
builtInGameMatch(name, words, executable) ==
    \/ name = "gamescope" \/ "gamescope --" \in words
    \/ name = "reaper" /\ "appid=" \in words
    \/ "steamlaunch" \in words /\ (name = "reaper" \/ "reaper" \in words)
    \/ name = "wine" \/ executable = "wine"
    \/ {"/proton", "run"} \subseteq words

readable(process) == process.commRead \/ process.cmdlineRead

gameProcess(process) ==
    LET name  == IF process.commRead THEN process.comm ELSE ""
        words == IF process.cmdlineRead THEN process.words ELSE {}
    IN  /\ readable(process)
        /\ \/ name = "configured name"
           \/ builtInGameMatch(name, words, process.executable)
           \/ "configured literal" \in words

observeProcesses(h) ==
    IF ~h.procRead THEN Unknown
    ELSE IF \E p \in h.processes : gameProcess(p) THEN "game"
    ELSE IF \E p \in h.processes : readable(p) THEN "idle"
    ELSE Unknown

(***************************************************************************)
(* NVIDIAProvider: both queries must succeed and parse; then a compute     *)
(* application is a game at any utilization.                               *)
(***************************************************************************)
parseUtilization(lines) == lines \cap {"percent", "unavailable"} # {} /\ "invalid" \notin lines

parseComputeApps(lines) == "invalid" \notin lines

observeNVIDIA(h) ==
    IF /\ h.utilizationQueried /\ parseUtilization(h.utilization)
       /\ h.appsQueried /\ parseComputeApps(h.apps)
    THEN IF "app" \in h.apps THEN "game" ELSE "idle"
    ELSE Unknown

Observe(p, h) ==
    CASE p = "logind" -> observeLogind(h)
      [] p = "game-process" -> observeProcesses(h)
      [] p = "nvidia" -> observeNVIDIA(h)

(***************************************************************************)
(* Collect asks every provider, whatever the others answer.                *)
(***************************************************************************)
Collect(providers, h) == [p \in providers |-> Observe(p, h)]

(***************************************************************************)
(* Positive signals win in this order; idle needs every provider.          *)
(***************************************************************************)
Aggregate(observed) ==
    IF \E p \in DOMAIN observed : observed[p] = "game" THEN "game"
    ELSE IF \E p \in DOMAIN observed : observed[p] = "interactive" THEN "interactive"
    ELSE IF DOMAIN observed # {} /\ \A p \in DOMAIN observed : observed[p] = "idle" THEN "idle"
    ELSE Unknown

----------------------------------------------------------------------------
(***************************************************************************)
(* The host as its user knows it, to hold the reporter against: what goes  *)
(* on that an enabled signal is there to notice, and whether anything the  *)
(* reporter asked of the host went unanswered or was not understood.       *)
(***************************************************************************)
Listed(h) == {h.sessions[i] : i \in parseSessionIDs(h.sessions)}

runs(c, p) == IF c.activityMode = "game" THEN p = "game-process" ELSE p \in c.enabled

GoesOn(c, h) ==
    {a \in {"game", "interactive"} :
        \/ /\ a = "game" /\ runs(c, "game-process")
           /\ \E p \in h.processes : gameProcess(p)
        \/ a = "game" /\ runs(c, "nvidia") /\ "app" \in h.apps
        \/ /\ a = "interactive" /\ runs(c, "logind")
           /\ \E s \in Listed(h) : interactive(s)}

Unanswered(c, h) ==
    \/ /\ runs(c, "logind")
       /\ ~h.sessionsListed \/ \E s \in Listed(h) : ~s.inspected
    \/ /\ runs(c, "game-process")
       /\ ~h.procRead \/ \A p \in h.processes : ~readable(p)
    \/ /\ runs(c, "nvidia")
       /\ \/ ~h.utilizationQueried \/ ~h.appsQueried
          \/ "invalid" \in h.utilization \cup h.apps
          \/ h.utilization \subseteq {"blank"}
=============================================================================
