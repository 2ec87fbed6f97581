---------------------------- MODULE RateLimiter -------------------------------
(***************************************************************************)
(* What the eviction budget promises, without buckets: each Node holds a   *)
(* credit of time, and so does the process as a whole. Waiting earns at    *)
(* most the time waited, up to the most that may be held, and a grant is   *)
(* paid for in full out of the credit of its Node and out of that of the   *)
(* process, or not made. Credit may be lost, never made up.                *)
(***************************************************************************)
EXTENDS Integers

CONSTANTS Nodes,
          nodeCost, processCost,   \* what a grant costs
          nodeMost, processMost    \* what may be held

VARIABLES clock,
          credit, processCredit,   \* what each Node, and the process, holds
          given, processGiven      \* the grants since an observer began to count

vars == <<clock, credit, processCredit, given, processGiven>>

NothingGiven == given = [n \in Nodes |-> 0] /\ processGiven = 0

WithinBurst == (\A n \in Nodes : credit[n] <= nodeMost) /\ processCredit <= processMost

Init == clock = 1 /\ WithinBurst /\ NothingGiven

Grant(n) ==
    /\ credit[n] >= nodeCost /\ processCredit >= processCost
    /\ credit' = [credit EXCEPT ![n] = @ - nodeCost]
    /\ processCredit' = processCredit - processCost
    /\ given' = [given EXCEPT ![n] = @ + 1] /\ processGiven' = processGiven + 1
    /\ UNCHANGED clock

Wait ==
    /\ clock' > clock
    /\ \A n \in Nodes : credit'[n] <= credit[n] + clock' - clock
    /\ processCredit' <= processCredit + clock' - clock
    /\ WithinBurst'
    /\ UNCHANGED <<given, processGiven>>

(***************************************************************************)
(* A new process starts with what may be held, and counts its own grants.  *)
(***************************************************************************)
Reset == WithinBurst' /\ NothingGiven' /\ UNCHANGED clock

Observe == NothingGiven' /\ UNCHANGED <<clock, credit, processCredit>>

Next == (\E n \in Nodes : Grant(n)) \/ Wait \/ Reset \/ Observe

Spec == Init /\ [][Next]_vars
=============================================================================
