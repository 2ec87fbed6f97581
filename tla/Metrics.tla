------------------------------ MODULE Metrics --------------------------------
(***************************************************************************)
(* The per-Node gauges of internal/controller/metrics.go and the places    *)
(* where Reconcile and finalize write them. They are process state beside  *)
(* the API objects: no write of a gauge fails, none is retried, and they   *)
(* are right only if the pass that makes them so happens.                  *)
(*                                                                         *)
(* A gauge is the set of label values it is exported with for the Node (a  *)
(* gauge with no label but the Node: the set of its value). For the gauges *)
(* whose series differ by label the code remembers the last one written,   *)
(* and can delete no other.                                                *)
(***************************************************************************)
EXTENDS Controller

VARIABLE series  \* per Node: the gauges, and what the last* maps hold

Labelled   == {"activity", "taint", "admission", "evictionOutcome"}
Unlabelled == {"schedulable", "windowActive", "heartbeatAge", "heartbeatValid",
               "burstTaint", "nextTransition", "configInvalid"}

NoSeries == [gauge |-> [g \in Labelled \cup Unlabelled |-> {}], last |-> [g \in Labelled |-> {}]]

MetricsInit == Init /\ series = [n \in Nodes |-> NoSeries]

(***************************************************************************)
(* Set or delete the series of plain gauges; replace or delete, by the     *)
(* remembered label, those of labelled ones.                               *)
(***************************************************************************)
RelabelForgetsOld(s, values) ==
    [gauge |-> [g \in DOMAIN s.gauge |->
                   IF g \in DOMAIN values THEN s.gauge[g] \cup values[g] ELSE s.gauge[g]],
     last  |-> [g \in Labelled |-> IF g \in DOMAIN values THEN values[g] ELSE s.last[g]]]

relabel(s, values) ==
    [gauge |-> [g \in DOMAIN s.gauge |->
                   IF g \in DOMAIN values THEN (s.gauge[g] \ s.last[g]) \cup values[g]
                   ELSE s.gauge[g]],
     last  |-> [g \in Labelled |-> IF g \in DOMAIN values THEN values[g] ELSE s.last[g]]]

set(s, values) ==
    [s EXCEPT !.gauge = [g \in DOMAIN @ |-> IF g \in DOMAIN values THEN values[g] ELSE @[g]]]

unless(absent, value) == IF absent THEN {} ELSE {value}

(***************************************************************************)
(* A missing state is exported as unknown.                                 *)
(***************************************************************************)
observeActivityAndTaint(s, a, taint, t) ==
    set(relabel(s, [activity |-> {<<IF a.state = "unsupported" THEN "unknown" ELSE a.state,
                                    a.activity>>},
                    taint    |-> unless(taint = NoTaint, taint)]),
        [schedulable |-> {controllerAdmitted(a, t, taint)}])

observeAdmission(s, p, burst, t) ==
    set(relabel(s, [admission |-> {p.reason}]),
        [heartbeatValid |-> {Fresh(p.src.heartbeatAt, t)},
         heartbeatAge   |-> unless(heartbeatFreshness(p.src.heartbeatAt, t) = "Missing", "age"),
         burstTaint     |-> unless(~BurstConfigured, burst),
         nextTransition |-> unless(p.nextTransition = 0, p.nextTransition)])

observeWindowMetrics(s, active) == set(s, [windowActive |-> {active}])

observeConfigInvalid(s, invalid) == set(s, [configInvalid |-> unless(~invalid, "schedule")])

observeEvictionStatus(s, outcome) == relabel(s, [evictionOutcome |-> {outcome}])

ClearKeepsConfig(s) ==
    set(relabel(s, [g \in Labelled |-> {}]), [g \in Unlabelled \ {"configInvalid"} |-> {}])

clearNodeMetrics(s) ==
    set(relabel(s, [g \in Labelled |-> {}]), [g \in Unlabelled |-> {}])

observeNodeSignals(s, p, burst, invalid, t) ==
    IF p.source = NoSource THEN clearNodeMetrics(s)
    ELSE observeConfigInvalid(
           observeAdmission(
             observeActivityAndTaint(observeWindowMetrics(s, p.scheduled), p.src, p.taint, t),
             p, burst, t),
           invalid)

observe(n, new(_)) == series' = [series EXCEPT ![n] = new(@)]

----------------------------------------------------------------------------
(***************************************************************************)
(* finalize: at once when the Node is gone or needs no Update, otherwise   *)
(* after the Update succeeded.                                             *)
(***************************************************************************)
released(s, p, burst) ==
    IF p.source = NoSource THEN clearNodeMetrics(s)
    ELSE observeEvictionStatus(observeNodeSignals(s, p, burst, FALSE, now), "Disabled")

StartObserved(e) ==
    LET obj == cact[e]
        n   == obj.nodeName
    IN  IF obj.phase = "deleting" /\ obj.finalizer /\ n # NoNode /\ rec'.pc = "removeFinalizer"
        THEN observe(n, LAMBDA s : IF ~cnode[n].exists THEN clearNodeMetrics(s)
                                   ELSE released(s, rec'.protection, rec'.owned.burst))
        ELSE UNCHANGED series

UpdateObserved ==
    IF rec.pc = "release" /\ rec.nodeFresh
    THEN observe(rec.obj.nodeName, LAMBDA s : released(s, rec.protection, rec.owned.burst))
    ELSE UNCHANGED series

(***************************************************************************)
(* Reconcile: cleared as soon as the Node is missed; written between       *)
(* setAdmission and setEvictionCondition, and after the latter, if these   *)
(* succeed.                                                                *)
(***************************************************************************)
DecideObserved ==
    IF rec'.mode = "missing" THEN observe(rec.obj.nodeName, clearNodeMetrics)
    ELSE UNCHANGED series

StatusObserved ==
    LET succeeds == wantedStatus(rec.pc, rec.obj.st) = rec.obj.st \/ act[rec.e].phase # "absent"
        n == rec.obj.nodeName
    IN  CASE rec.mode = "normal" /\ rec.pc = "status4" /\ succeeds ->
               observe(n, LAMBDA s : observeNodeSignals(s, rec.protection, rec.owned.burst,
                                                        rec.badSchedule, now))
          [] rec.mode = "normal" /\ rec.pc = "status5" /\ succeeds ->
               observe(n, LAMBDA s : observeEvictionStatus(s, "Disabled"))
          [] OTHER -> UNCHANGED series

(***************************************************************************)
(* The passes of Controller with what they export.                         *)
(***************************************************************************)
ObservedWork ==
    \/ \E e \in Enrollments : Start(e) /\ StartObserved(e)
    \/ Decide /\ DecideObserved
    \/ UpdateNode /\ UpdateObserved
    \/ SetStatus /\ StatusObserved
    \/ (AddFinalizer \/ reconcileHold \/ RemoveFinalizer) /\ UNCHANGED series

(***************************************************************************)
(* A new process exports nothing until its first passes.                   *)
(***************************************************************************)
ObservedRestart == Restart /\ series' = [n \in Nodes |-> NoSeries]

(***************************************************************************)
(* The controller with its gauges: whatever else happens exports nothing.  *)
(***************************************************************************)
SeriesNext ==
    \/ ObservedWork
    \/ (Deliver \/ Environment \/ CallFails \/ Tick) /\ UNCHANGED series
    \/ ObservedRestart

SeriesSpec == MetricsInit /\ [][SeriesNext]_<<vars, series>>

----------------------------------------------------------------------------
(***************************************************************************)
(* One series of each gauge: the taints and the label that are on the Node *)
(* and the state, reason and deadline of the enrollment that decides.      *)
(***************************************************************************)
Tells(gauge, owned, p) ==
    /\ gauge["taint"] = {owned.taint} \ {NoTaint}
    /\ gauge["schedulable"] = {owned.label}
    /\ gauge["burstTaint"] = unless(~BurstConfigured, owned.burst)
    /\ gauge["activity"] = {<<IF p.src.state = "unsupported" THEN "unknown" ELSE p.src.state,
                              p.src.activity>>}
    /\ gauge["windowActive"] = {p.reason \in Scheduled}
    /\ gauge["nextTransition"] = {p.nextTransition} \ {0}
    /\ gauge["heartbeatAge"] = {} <=> p.src.heartbeatAt = 0
    /\ \/ /\ gauge["admission"] = {p.reason}
          /\ gauge["heartbeatValid"] = {p.reason \notin Unfresh}
       \/ /\ gauge["admission"] \in {{r} : r \in Refused}
          /\ p.reason = "stale-heartbeat"
    /\ gauge["evictionOutcome"] = {"Disabled"}
    /\ p.count = 1 => gauge["configInvalid"] = unless(~scheduleInvalid(p.src.spec), "schedule")

(***************************************************************************)
(* docs/controller.md: "Deleting the enrollment or losing the Node clears  *)
(* these per-node series." At rest a Node that is missing or has no        *)
(* enrollment exports nothing, and any other what its own fields and the   *)
(* enrollments on the API server say, with no label of an earlier pass     *)
(* beside it. (config_invalid is of the enrollment whose pass came last,   *)
(* so it is asked about with one enrollment only; for the heartbeat of a   *)
(* refused report see StatusTruthful.)                                     *)
(***************************************************************************)
SeriesTruthful ==
    Quiet => \A n \in Nodes :
        IF node[n].exists /\ DOMAIN itemsOf(act, n) # {}
        THEN Tells(series[n].gauge, node[n].owned, protectionForNode(itemsOf(act, n), now))
        ELSE series[n].gauge = NoSeries.gauge
=============================================================================
