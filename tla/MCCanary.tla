------------------------------- MODULE MCCanary -------------------------------
(***************************************************************************)
(* Every scenario of the canary, and beside them the schedules of module   *)
(* WindowClock evaluated by themselves: windows whose starts are rare,     *)
(* close together, closer than the lead time or more than may be scanned.  *)
(***************************************************************************)
EXTENDS Canary

MCBudget ==
    [detection |-> 2, admission |-> 2, evictionAcceptance |-> 3, resourceRelease |-> 4,
     endToEnd |-> 4, gpuRelease |-> 4, failClosedSlack |-> 2, leadApplySlack |-> 2,
     leaderRestore |-> 1, harnessStaleAfter |-> 2, productionStaleAfter |-> 3,
     recommendedLeadTime |-> 9]

MCWindowSet ==
    [parses : {TRUE}, schedule : {{2, Later}, {1, 4, Later}, {2, 3, 4, Later}, {6, Later}},
     duration : 1..3, state : WindowStates]

MCSpecs ==
    [lead : 0..3, windows : {{v, w} : v, w \in MCWindowSet}]

(***************************************************************************)
(* No scenario is run: the harness and the cluster stand still.            *)
(***************************************************************************)
NoScenario ==
    /\ scenario = "none" /\ stage = "idle"
    /\ host = [state |-> "idle", activity |-> "idle", heartbeatAt |-> 0]
    /\ reporting = FALSE /\ leader = FALSE /\ pdb = FALSE
    /\ node = Unprotected /\ condition = "missing-heartbeat"
    /\ pods = [w \in Workloads |-> [u \in Pods |-> "none"]]
    /\ before = [w \in Workloads |-> 0]
    /\ accepted = [w \in Workloads |-> Never]
    /\ gone = [w \in Workloads |-> Never]
    /\ clock = NotTimed
    /\ blocked = view("pdb")
    /\ mishaps = 0

MCInit == CanaryInit \/ (NoScenario /\ Init)

MCNext ==
    \/ CanaryNext
    \/ scenario = "none" /\ Tick /\ UNCHANGED <<scenario, harness, cluster>>

MCSpec == MCInit /\ [][MCNext]_canaryVars
=============================================================================
