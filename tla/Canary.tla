-------------------------------- MODULE Canary --------------------------------
(***************************************************************************)
(* One scenario of the desktop-recovery canary of                          *)
(* internal/controller/desktop_recovery_kind_test.go: the harness drives a *)
(* host, polls the Node, the condition and the Pods, and records what it   *)
(* saw in a report that Evaluate (module Recovery) judges. What it         *)
(* observes is the controller of the other modules (desiredFields,         *)
(* evictionClass) with the cluster around it: API server, ReplicaSets,     *)
(* scheduler and kubelet, which act when they like. Workloads have at most *)
(* MaxPods Pods one after the other; the Pod's index is its UID. The clock *)
(* and the enrollment's schedule are those of module WindowClock.          *)
(***************************************************************************)
EXTENDS EvictionClass, WindowClock, CanaryReport

CONSTANTS MaxPods,     \* Pods a workload has in a run
          MaxMishaps,  \* Pods that die without being evicted
          Later        \* a cron start beyond the run

(***************************************************************************)
(* A window of three minutes outlasts the longest wait, and its next start *)
(* is further away than the run and any lead are long.                     *)
(***************************************************************************)
ASSUME CanaryAssumption ==
    /\ {MaxPods, MaxMishaps, Later} \subseteq Nat /\ MaxPods > 0
    /\ DefaultBudget.endToEnd <= 3 * Minute
    /\ Later > MaxTime + 3 * Minute
    /\ maxWindowOccurrences > 0

VARIABLES scenario,   \* the scenario that is run
          stage,      \* where the harness is in it
          host,       \* status fields of the NodeActivity: state, activity, heartbeatAt
          reporting,  \* the synthetic reporter sends heartbeats
          leader,     \* a controller holds the lease
          node,       \* the owned fields of the Node
          condition,  \* what TaintApplied says, by the reason of the decision
          pods,       \* pods[w][u]: the phase of Pod u of workload w
          pdb,        \* the disruption budget that blocks the pdb workload
          before,     \* snapshotWorkloads: the UID that ran, 0 when none did
          accepted,   \* acceptanceRecorder, for the UIDs in before
          gone,       \* when those Pods really left the Node
          clock,      \* what the harness has timed
          blocked,    \* the observation of the pdb workload while it is blocked
          mishaps

harness == <<stage, before, clock, blocked>>
cluster == <<host, reporting, leader, node, condition, pods, pdb, accepted, gone, mishaps>>
canaryVars == <<scenario, spec, now, harness, cluster>>

Pods == 1..MaxPods
Over == {"done", "failed"}

enrollment ==
    [state |-> host.state, activity |-> host.activity, heartbeatAt |-> host.heartbeatAt,
     hold |-> 0, holdStart |-> 0, spec |-> spec]

runningPods(w) == {u \in Pods : pods[w][u] = "running"}
runningPod(w) == IF runningPods(w) = {} THEN 0 ELSE Least(runningPods(w))
holds(w) == \E u \in Pods : pods[w][u] \in {"running", "terminating"}
podExists(w, u) == u # 0 /\ pods[w][u] # "gone"

----------------------------------------------------------------------------
(***************************************************************************)
(* The cluster. A pass of the controller writes the Node and the condition *)
(* and evicts: budgets, backoff and API errors may spare any of the Pods,  *)
(* a disruption budget spares the one it covers.                           *)
(***************************************************************************)
Evictable(class) ==
    {w \in Workloads : /\ runningPod(w) # 0
                       /\ Catalog[w].optedIn /\ ~Catalog[w].pinned
                       /\ class = "game" \/ (class = "lossyOnly" /\ Catalog[w].lossy)
                       /\ ~(pdb /\ w = "pdb")}

Evict(targets) ==
    /\ pods' = [w \in Workloads |-> [u \in Pods |->
                  IF w \in targets /\ u = runningPod(w) THEN "terminating" ELSE pods[w][u]]]
    /\ accepted' = [w \in Workloads |->
                  IF w \in targets /\ runningPod(w) = before[w] THEN now ELSE accepted[w]]

Reconcile ==
    /\ stage \notin Over /\ leader
    /\ node' = desiredFields(<<enrollment>>, now)
    /\ condition' = admissionReason(enrollment, now)
    /\ \E targets \in SUBSET Evictable(evictionClass(enrollment, node', node'.taint, now)) :
          Evict(targets)
    /\ UNCHANGED <<scenario, spec, now, harness, host, reporting, leader, pdb, gone, mishaps>>

PodStep(w, u, from, to) ==
    /\ stage \notin Over
    /\ pods[w][u] = from
    /\ pods' = [pods EXCEPT ![w][u] = to]
    /\ gone' = IF to = "gone" /\ u = before[w] THEN [gone EXCEPT ![w] = now] ELSE gone
    /\ UNCHANGED <<scenario, spec, now, harness, host, reporting, leader, node, condition,
                   pdb, accepted>>

(***************************************************************************)
(* The kubelet removes a terminating Pod; a Pod may also just die.         *)
(***************************************************************************)
Terminate(w, u) == PodStep(w, u, "terminating", "gone") /\ UNCHANGED mishaps

Die(w, u) ==
    /\ mishaps < MaxMishaps
    /\ PodStep(w, u, "running", "gone")
    /\ mishaps' = mishaps + 1

(***************************************************************************)
(* The ReplicaSet replaces a Pod as soon as it terminates; the scheduler   *)
(* binds the replacement when the Node's taints and label admit it. Until  *)
(* then nobody looks at it.                                                *)
(***************************************************************************)
admits(w) ==
    /\ node.taint \notin NoSchedule /\ ~node.burst
    /\ Catalog[w].selector => node.label

Replace(w, u) ==
    /\ u > 1 /\ pods[w][u - 1] \in {"terminating", "gone"}
    /\ admits(w)
    /\ PodStep(w, u, "none", "running")
    /\ UNCHANGED mishaps

(***************************************************************************)
(* The other controller replica takes the lease.                           *)
(***************************************************************************)
Elect ==
    /\ stage = "electing" /\ ~leader
    /\ leader' = TRUE
    /\ UNCHANGED <<scenario, spec, now, harness, host, reporting, node, condition, pods, pdb,
                   accepted, gone, mishaps>>

----------------------------------------------------------------------------
(***************************************************************************)
(* What the harness waits to see on the Node and in the condition.         *)
(***************************************************************************)
gate(name) ==
    CASE name \in {"idle-to-interactive", "pdb-blocked-eviction"} ->
           [message |-> {"active-interactive"}, taint |-> "interactive"]
      [] name \in ToGame -> [message |-> {"active-game"}, taint |-> "active"]
      [] name = "scheduled-lead-time" -> [message |-> {"scheduled-game"}, taint |-> "active"]
      [] name = "reporter-failure" ->
           [message |-> {"missing-heartbeat", "stale-heartbeat"}, taint |-> "failclosed"]
      [] OTHER -> [message |-> {"fresh-idle"}, taint |-> NoTaint]

conditionMatches(g) == condition \in g.message

nodeMatches(g) ==
    node = [taint |-> g.taint, label |-> g.taint = NoTaint, burst |-> g.taint # NoTaint]

IdleGate == gate("return-to-idle")

first(time, seen) == IF time = Never /\ seen THEN now ELSE time

released(w) == before[w] # 0 /\ ~holds(w) /\ ~podExists(w, before[w])

view(w) == [before |-> before[w], after |-> runningPod(w), holds |-> holds(w)]

(***************************************************************************)
(* The poll loop of the stage. The harness polls many times in a unit of   *)
(* time; what it sees at the last poll of an instant (CanaryTick), or at   *)
(* the one that ends the wait, carries the time of that instant. A probe   *)
(* created once the Node matches is Pending at once, so admission is timed *)
(* when the Node matches; it is reopened when a probe would be bound.      *)
(***************************************************************************)
polled ==
    CASE stage = "collect" ->
           [clock EXCEPT !.detection = first(@, conditionMatches(gate(scenario))),
                         !.admission = first(@, nodeMatches(gate(scenario))),
                         !.released  = [w \in Workloads |->
                            first(@[w], w \in evict(scenario) /\ released(w))]]
      [] stage = "reopen" ->
           LET open == conditionMatches(IdleGate) /\ nodeMatches(IdleGate)
               seen == first(clock.detection, open)
           IN  [clock EXCEPT !.detection = seen,
                             !.admission = first(@, seen # Never /\ admits("probe"))]
      [] stage = "drifted" ->
           [clock EXCEPT !.restored = first(@, conditionMatches(IdleGate) /\ nodeMatches(IdleGate))]
      [] stage = "clearing" ->
           [clock EXCEPT !.released["pdb"] = first(@, released("pdb"))]
      [] OTHER -> clock

gap(c, w) == c.released[w] - accepted[w]

collected(c) ==
    /\ c.detection # Never /\ c.admission # Never
    /\ \A w \in evict(scenario) : accepted[w] # Never /\ c.released[w] # Never

cleared(c) == accepted["pdb"] # Never /\ c.released["pdb"] # Never

reopened(c) ==
    /\ c.admission # Never
    /\ runningPod("lossy") # 0 /\ runningPod("standard") # 0

waitOver(c) ==
    CASE stage = "electing" -> leader
      [] stage = "drifted" -> c.restored # Never
      [] stage = "collect" -> collected(c)
      [] stage = "reopen" -> reopened(c)
      [] stage = "clearing" -> cleared(c)
      [] stage \in {"armed", "snapshot"} -> now = c.boundary
      [] OTHER -> TRUE

gapsSeen(c) ==
    CASE stage = "collect" -> \A w \in evict(scenario) : gap(c, w) >= minAcceptanceGap
      [] stage = "clearing" -> gap(c, "pdb") >= minAcceptanceGap
      [] OTHER -> TRUE

----------------------------------------------------------------------------
(***************************************************************************)
(* The steps of the harness between its waits. The scenarios share the     *)
(* snapshot and the trigger; the leader change first makes the new leader  *)
(* repair a drifted Node, the lead time first arms a window.               *)
(***************************************************************************)
goTo(next) == stage' = next

Cancel ==
    /\ scenario = "leader-change" /\ stage = "begin"
    /\ goTo("electing")
    /\ leader' = FALSE
    /\ clock' = [clock EXCEPT !.stopped = now]
    /\ UNCHANGED <<scenario, spec, now, before, blocked, host, reporting, node, condition,
                   pods, pdb, accepted, gone, mishaps>>

(***************************************************************************)
(* disturbIdleNode: a taint under the owned key that no policy asked for.  *)
(* Its NoSchedule effect, which the value interactive never has otherwise, *)
(* is left out.                                                            *)
(***************************************************************************)
Drift ==
    /\ stage = "electing" /\ leader
    /\ goTo("drifted")
    /\ node' = [node EXCEPT !.taint = "interactive", !.label = FALSE]
    /\ clock' = [clock EXCEPT !.elected = now, !.drift = now]
    /\ UNCHANGED <<scenario, spec, now, before, blocked, host, reporting, leader, condition,
                   pods, pdb, accepted, gone, mishaps>>

Arm ==
    /\ scenario = "scheduled-lead-time" /\ stage = "begin"
    /\ goTo("armed")
    /\ LET w == NextLeadWindow(now)
       IN  /\ clock' = [clock EXCEPT !.boundary = w.boundary, !.start = w.start, !.lead = w.lead]
           /\ spec' = [lead |-> w.lead,
                       windows |-> {[parses |-> TRUE, schedule |-> {w.start, Later},
                                     duration |-> 3 * Minute, state |-> "game"]}]
    /\ UNCHANGED <<scenario, now, before, blocked, cluster>>

(***************************************************************************)
(* snapshotWorkloads: for the lead time a moment before the boundary.      *)
(***************************************************************************)
ready(c) ==
    CASE scenario = "leader-change" -> stage = "drifted" /\ c.restored # Never
      [] scenario = "scheduled-lead-time" -> stage = "armed" /\ now = c.boundary - 1
      [] OTHER -> stage = "begin"

Snapshot ==
    /\ ready(polled)
    /\ goTo("snapshot")
    /\ clock' = polled
    /\ before' = [w \in Workloads |-> runningPod(w)]
    /\ UNCHANGED <<scenario, spec, now, blocked, cluster>>

reportedBy(name) ==
    CASE name = "return-to-idle" -> [state |-> "idle", activity |-> "idle"]
      [] name \in ToGame -> [state |-> "active", activity |-> "game"]
      [] name \in {"idle-to-interactive", "pdb-blocked-eviction"} ->
           [state |-> "active", activity |-> "interactive"]
      [] OTHER -> [state |-> host.state, activity |-> host.activity]

(***************************************************************************)
(* The event the phases are timed from: an accepted status, the reporter's *)
(* last sign of life, or the lead boundary.                                *)
(***************************************************************************)
Trigger ==
    /\ stage = "snapshot"
    /\ scenario = "scheduled-lead-time" => now = clock.boundary
    /\ goTo(IF scenario = "return-to-idle" THEN "reopen" ELSE "collect")
    /\ clock' = [clock EXCEPT !.trigger = now]
    /\ host' = [state |-> reportedBy(scenario).state, activity |-> reportedBy(scenario).activity,
                heartbeatAt |-> now]
    /\ reporting' = (scenario # "reporter-failure")
    /\ UNCHANGED <<scenario, spec, now, before, blocked, leader, node, condition, pods, pdb,
                   accepted, gone, mishaps>>

(***************************************************************************)
(* assertStable at the end: the protected workloads run under their UIDs.  *)
(***************************************************************************)
stable == \A w \in {"protected", "pinned"} : runningPod(w) = 1

Finish ==
    /\ stage \in {"collect", "reopen", "clearing"}
    /\ stage = "collect" => scenario # "pdb-blocked-eviction"
    /\ waitOver(polled) /\ gapsSeen(polled)
    /\ goTo(IF stable THEN "done" ELSE "failed")
    /\ clock' = polled
    /\ UNCHANGED <<scenario, spec, now, before, blocked, cluster>>

(***************************************************************************)
(* assertStillBlocked, then the disruption budget is deleted.              *)
(***************************************************************************)
stillBlocked == before["pdb"] # 0 /\ runningPod("pdb") = before["pdb"]

Unblock ==
    /\ scenario = "pdb-blocked-eviction" /\ stage = "collect"
    /\ waitOver(polled) /\ gapsSeen(polled) /\ stillBlocked
    /\ goTo("clearing")
    /\ blocked' = view("pdb")
    /\ clock' = [polled EXCEPT !.removed = now]
    /\ pdb' = FALSE
    /\ UNCHANGED <<scenario, spec, now, before, host, reporting, leader, node, condition, pods,
                   accepted, gone, mishaps>>

deadline(c) ==
    CASE stage = "electing" -> c.stopped + DefaultBudget.leaderRestore
      [] stage = "drifted" -> c.drift + DefaultBudget.leaderRestore
      [] stage = "collect" -> c.trigger + DefaultBudget.endToEnd
      [] stage = "reopen" -> IF c.detection = Never THEN c.trigger + DefaultBudget.detection
                             ELSE IF c.admission = Never THEN c.detection + DefaultBudget.admission
                             ELSE c.admission + 2 * DefaultBudget.endToEnd
      [] stage = "clearing" -> c.removed + DefaultBudget.resourceRelease
      [] OTHER -> c.boundary

(***************************************************************************)
(* failf: a wait timed out, a workload to wait for was not running, a gap  *)
(* was too short, the blocked Pod was disturbed, or the schedule applied   *)
(* before its lead boundary. The run ends without a report to accept.      *)
(***************************************************************************)
Fail ==
    /\ \/ /\ stage \in {"electing", "drifted", "collect", "reopen", "clearing"}
          /\ now = deadline(polled) /\ ~waitOver(polled)
       \/ /\ stage \in {"collect", "clearing"}
          /\ waitOver(polled) /\ ~gapsSeen(polled)
       \/ /\ stage = "collect"
          /\ \E w \in evict(scenario) : before[w] = 0
       \/ /\ scenario = "pdb-blocked-eviction" /\ stage = "collect"
          /\ waitOver(polled) /\ ~stillBlocked
       \/ /\ stage = "armed"
          /\ ~(conditionMatches(IdleGate) /\ nodeMatches(IdleGate))
    /\ goTo("failed")
    /\ UNCHANGED <<scenario, spec, now, before, clock, blocked, cluster>>

CanaryTick ==
    /\ now < MaxTime
    /\ stage \notin Over \cup {"begin"}
    /\ ~waitOver(polled) /\ now < deadline(polled) /\ ~ready(polled)
    /\ now' = now + 1
    /\ clock' = polled
    /\ host' = [host EXCEPT !.heartbeatAt = IF reporting THEN now + 1 ELSE @]
    /\ UNCHANGED <<scenario, spec, stage, before, blocked, reporting, leader, node, condition,
                   pods, pdb, accepted, gone, mishaps>>

----------------------------------------------------------------------------
(***************************************************************************)
(* Every scenario starts on an idle, open Node with its workloads running, *)
(* except the return to idle, which follows idle-to-interactive.           *)
(***************************************************************************)
NotTimed ==
    [trigger |-> Never, detection |-> Never, admission |-> Never,
     released |-> [w \in Workloads |-> Never], stopped |-> Never, elected |-> Never,
     drift |-> Never, restored |-> Never, removed |-> Never, boundary |-> Never,
     start |-> Never, lead |-> Never]

podsAtStart(w) ==
    [u \in Pods |->
        CASE w = "pdb" /\ scenario # "pdb-blocked-eviction" -> "none"
          [] w = "lossy" /\ scenario = "return-to-idle" ->
               IF u = 1 THEN "gone" ELSE "none"
          [] OTHER -> IF u = 1 THEN "running" ELSE "none"]

CanaryInit ==
    /\ scenario \in Range(RequiredScenarios)
    /\ now \in IF scenario = "scheduled-lead-time" THEN 1..Minute ELSE {1}
    /\ spec = NoWindows
    /\ stage = "begin"
    /\ host = [state |-> IF scenario = "return-to-idle" THEN "active" ELSE "idle",
               activity |-> IF scenario = "return-to-idle" THEN "interactive" ELSE "idle",
               heartbeatAt |-> now]
    /\ reporting = TRUE /\ leader = TRUE
    /\ node = desiredFields(<<enrollment>>, now)
    /\ condition = admissionReason(enrollment, now)
    /\ pods = [w \in Workloads |-> podsAtStart(w)]
    /\ pdb = (scenario = "pdb-blocked-eviction")
    /\ before = [w \in Workloads |-> 0]
    /\ accepted = [w \in Workloads |-> Never]
    /\ gone = [w \in Workloads |-> Never]
    /\ clock = NotTimed
    /\ blocked = view("pdb")
    /\ mishaps = 0

CanaryNext ==
    \/ Reconcile \/ Elect
    \/ \E w \in Workloads, u \in Pods :
          Terminate(w, u) \/ Die(w, u) \/ Replace(w, u)
    \/ Cancel \/ Drift \/ Arm \/ Snapshot \/ Trigger \/ Finish \/ Unblock \/ Fail
    \/ CanaryTick

CanarySpec == CanaryInit /\ [][CanaryNext]_canaryVars

----------------------------------------------------------------------------
Latest(T) == CHOOSE t \in T : \A s \in T : s <= t

measured ==
    LET W == evict(scenario)
    IN  [trigger |-> clock.trigger, detection |-> clock.detection, admission |-> clock.admission,
         acceptance |-> IF W = {} THEN Never ELSE Latest({accepted[w] : w \in W}),
         release |-> IF W = {} THEN Never ELSE Latest({clock.released[w] : w \in W}),
         gap |-> IF W = {} THEN Never ELSE Least({gap(clock, w) : w \in W}),
         stopped |-> clock.stopped, elected |-> clock.elected, drift |-> clock.drift,
         restored |-> clock.restored, removed |-> clock.removed,
         clearedAccept |-> accepted["pdb"], clearedRelease |-> clock.released["pdb"],
         lead |-> clock.lead, start |-> clock.start]

(***************************************************************************)
(* The result the harness of this run appends to the report.               *)
(***************************************************************************)
recorded(claims) ==
    scenarioResult(budgetOf(claims.environment), scenario, measured,
                   [w \in Workloads |-> view(w)], blocked, claims.proven)

Accepted(claims) == Evaluate(reportOf(claims, scenario, recorded(claims)))

(***************************************************************************)
(* The workload table of docs/desktop-recovery-canary.md: an opted-in Pod  *)
(* that is not pinned goes for a game; a lossy one for every activity.     *)
(***************************************************************************)
Goes(w) ==
    /\ scenario # "return-to-idle"
    /\ Catalog[w].optedIn /\ ~Catalog[w].pinned
    /\ Catalog[w].lossy \/ scenario \in ToGame

Since(w) == IF w = "pdb" THEN clock.removed ELSE clock.trigger

(***************************************************************************)
(* A report is accepted, whatever the person who ran the canary declares   *)
(* in it, only when it is true of the run: each Pod that had to go had its *)
(* eviction accepted after the trigger, left the Node later than that and  *)
(* inside the end-to-end budget; each Pod that had to stay is the one that *)
(* ran at the trigger, however Pods died and were replaced meanwhile; and  *)
(* performance is claimed only for a live run in which the Node was clear  *)
(* before the window began.                                                *)
(***************************************************************************)
VerdictSound ==
    stage = "done" =>
        \A claims \in Claims : Accepted(claims) =>
            /\ \A w \in Workloads : before[w] # 0 =>
                  IF Goes(w)
                  THEN /\ accepted[w] >= Since(w)
                       /\ gone[w] >= accepted[w] + minAcceptanceGap
                       /\ gone[w] <= Since(w) + DefaultBudget.endToEnd
                  ELSE runningPod(w) = before[w]
            /\ claims.performanceClaimed =>
                  /\ claims.environment = "live" /\ claims.gpuMeasured
                  /\ scenario = "scheduled-lead-time" =>
                        \A w \in Workloads : before[w] # 0 /\ Goes(w) => gone[w] < clock.start

(***************************************************************************)
(* The contract asks for nothing the controller does not do: a run the     *)
(* harness completes, in which no Pod died by itself, is rejected only     *)
(* because a phase took longer than AllowedBudget. What the policy closes, *)
(* what evictionClass evicts and what expectedEviction wants agree in      *)
(* every scenario and every order of controller, kubelet, ReplicaSet,      *)
(* scheduler and harness.                                                  *)
(***************************************************************************)
VerdictComplete ==
    stage = "done" /\ mishaps = 0 =>
        LET late == \E s \in Range(recorded(KindClaims).samples) : ~s.withinBudget
        IN  Accepted(KindClaims) = ~late
=============================================================================
