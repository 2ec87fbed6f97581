-------------------------- MODULE MCEvictionBudget ----------------------------
(***************************************************************************)
(* Two Nodes whose buckets refill at a rate that does not divide the clock *)
(* evenly, and a process-wide bucket that is the tighter one for both.     *)
(***************************************************************************)
EXTENDS EvictionBudget, TLC

CONSTANT MaxTime  \* the clock stops here

MCPerNode == [count |-> 2, capacity |-> 2, interval |-> 5]
MCGlobal  == [count |-> 3, capacity |-> 3, interval |-> 5]

NodeSymmetry == Permutations(Nodes)

MCNext == (\E n \in Nodes : Take(n)) \/ (now < MaxTime /\ Tick) \/ Restart \/ Observe

MCSpec == Init /\ [][MCNext]_vars
=============================================================================
