---------------------------- MODULE MCController -----------------------------
(***************************************************************************)
(* Bounds for Controller: a clock that stops at MaxTime, a number of steps *)
(* of everybody but the controller, and which of those steps a run takes.  *)
(* The clock starts with the first of them.                                *)
(***************************************************************************)
EXTENDS Controller

CONSTANTS MaxTime,    \* the clock stops here
          MaxEvents,  \* environment steps, failed calls and restarts in all
          Kinds       \* the kinds of them that happen in this run

VARIABLE events

Happens(kind) == kind \in Kinds /\ events < MaxEvents /\ events' = events + 1

Far == 50  \* an activation beyond every run: a cron schedule never runs out

BadLead == [lead |-> -1, windows |-> {}]
Game    == [lead |-> 0, windows |-> {[parses |-> TRUE, schedule |-> {2, Far},
                                      duration |-> 1, state |-> "game"]}]

Plain     == {NoWindows}
Windowed  == {NoWindows, BadLead, Game}

Idle      == [state |-> "idle", activity |-> "idle", offset |-> 0]
Gaming    == [state |-> "active", activity |-> "game", offset |-> 0]
Ahead     == [state |-> "idle", activity |-> "idle", offset |-> 3]

NoReports   == {}
JustIdle    == {Idle}
IdleOrGame  == {Idle, Gaming}
SomeReports == {Idle, Ahead}

InvalidHold == {-1}  \* neither absent nor a positive duration

NoDrifts    == {}
SomeDrifts  == {Unprotected, [taint |-> "active", label |-> TRUE, burst |-> FALSE]}

MCInit == Init /\ events = 0

(***************************************************************************)
(* What users, hosts, the cluster and the network do, by kind.             *)
(***************************************************************************)
Event(kind) ==
    \/ kind = "create" /\ \E e \in Enrollments, n \in Nodes : Create(e, n, NoWindows)
    \/ kind = "blank" /\ \E e \in Enrollments : Create(e, NoNode, NoWindows)
    \/ kind = "delete" /\ \E e \in Enrollments : Delete(e)
    \/ kind = "report" /\ \E e \in Enrollments, r \in Reports : Report(e, r)
    \/ kind = "hold" /\ \E e \in Enrollments, h \in Holds : Annotate(e, h)
    \/ kind = "schedule" /\ \E e \in Enrollments, s \in Schedules : EditSchedule(e, s)
    \/ kind = "drift" /\ \E n \in Nodes, f \in Drifts : DriftNode(n, f)
    \/ kind = "kubelet" /\ \E n \in Nodes : KubeletWrite(n)
    \/ kind = "node" /\ \E n \in Nodes : RemoveNode(n) \/ AddNode(n)
    \/ kind = "fail" /\ CallFails

Others ==
    \/ \E kind \in Kinds : Happens(kind) /\ Event(kind)
    \/ 0 < events /\ now < MaxTime /\ Tick /\ UNCHANGED events

MCNext ==
    \/ (Work \/ Deliver) /\ UNCHANGED events
    \/ Others
    \/ Restart /\ Happens("restart")

MCSpec == MCInit /\ [][MCNext]_<<vars, events>>

MCFairSpec == MCSpec /\ Fairness
=============================================================================
