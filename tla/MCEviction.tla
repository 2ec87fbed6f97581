----------------------------- MODULE MCEviction ------------------------------
(***************************************************************************)
(* Bounds for Eviction: a few Pods with few gates, a clock that stops at   *)
(* MaxTime, and a number of steps of everybody else, failures and restarts *)
(* included. Standard and lossy Pods have different budgets.               *)
(***************************************************************************)
EXTENDS Eviction, TLC

CONSTANTS MaxTime,    \* the clock stops here
          MaxEvents   \* steps of others, failed writes and restarts in all

VARIABLE events

Happens == events < MaxEvents /\ events' = events + 1

MCJitter(k) == k.uid % 2

MCBudget == [l \in BOOLEAN |-> [count |-> 1, capacity |-> IF l THEN 1 ELSE 2, interval |-> 2]]

(***************************************************************************)
(* A shared claim is no gate for a standard Pod and one for a lossy Pod;   *)
(* an emptyDir is the other way round. A change sets or removes the        *)
(* annotation that makes a Pod lossy.                                      *)
(***************************************************************************)
Kinds == {<<FALSE, {"pvc-not-allowed"}>>, <<TRUE, {"local-emptydir"}>>}

Symmetric == Permutations(Nodes) \cup Permutations(Names)

Running(x) ==
    {[NoPod(x) EXCEPT !.uid = 1, !.exists = TRUE, !.node = n, !.lossy = k[1], !.gates = k[2]] :
        n \in Nodes, k \in Kinds}

MCInit ==
    /\ \E p \in [Names -> UNION {Running(x) \cup {NoPod(x)} : x \in Names}] :
          (\A x \in Names : p[x].name = x) /\ InitWith(p)
    /\ class = [n \in Nodes |-> "game"] /\ mode = "enforce" /\ events = 0

MCNext ==
    \/ (Work \/ SyncPods) /\ UNCHANGED events
    \/ \E x \in Names, n \in Nodes, k \in Kinds : Create(x, n, k[1], k[2]) /\ Happens
    \/ \E x \in Names : Change(x, ~pods[x].lossy, pods[x].gates) /\ Happens
    \/ \E x \in Names : Remove(x) /\ Happens
    \/ \E n \in Nodes, c \in Classes : Notify(n, c) /\ Happens
    \/ (FinishFails \/ Restart) /\ Happens
    \/ now < MaxTime /\ Tick /\ UNCHANGED events

MCSpec == MCInit /\ [][MCNext]_<<vars, events>>
=============================================================================
