------------------------------ MODULE MCWakeup -------------------------------
(***************************************************************************)
(* Bounds for Wakeup: reports, holds and schedules from small sets, a      *)
(* bounded number of changes and a clock that stops at MaxTime.            *)
(***************************************************************************)
EXTENDS Wakeup

CONSTANTS MaxTime,     \* the clock stops here
          MaxChanges   \* changes, withdrawals and restarts of one behaviour

VARIABLE changes

Window(schedule, duration, state) ==
    [parses |-> TRUE, schedule |-> schedule, duration |-> duration, state |-> state]

Far == 50  \* an activation beyond every run: a cron schedule never runs out

BadLead     == [lead |-> -1, windows |-> {}]
IdleAllowed == [lead |-> 0, windows |-> {Window({2, Far}, 2, "idle-allowed")}]
Overlapping == [lead |-> 1, windows |-> {Window({4, Far}, 1, "game"),
                                         Window({3, Far}, 3, "interactive")}]

MCSchedules == {NoWindows, BadLead, IdleAllowed, Overlapping}

(***************************************************************************)
(* Reported states with heartbeats that are missing, current or in the     *)
(* future, and new holds and schedules.                                    *)
(***************************************************************************)
MCRecords(t) ==
    { [state |-> r[1], activity |-> r[2], heartbeatAt |-> r[3],
       hold |-> c[1], holdStart |-> 0, spec |-> c[2]] :
        r \in {<<"idle", "idle", 0>>, <<"idle", "idle", t>>, <<"idle", "idle", t + 3>>,
               <<"active", "interactive", t>>, <<"active", "game", t>>, <<"unknown", "idle", t>>},
        c \in {0} \X MCSchedules \cup {2} \X {NoWindows, Overlapping} }
    \cup
    { [state |-> r[1], activity |-> r[2], heartbeatAt |-> r[3],
       hold |-> 0, holdStart |-> 0, spec |-> NoWindows] :
        r \in {<<"stale", "idle", t>>, <<"stale", "idle", t + 3>>, <<"active", "unknown", t>>} }

Bounded(n) == changes < MaxChanges /\ changes' = changes + n

MCInit == Init /\ changes = 0

MCNext ==
    \/ \E e \in Enrollments : Reconcile(e) /\ UNCHANGED changes
    \/ \E e \in Enrollments : Withdraw(e) /\ Bounded(1)
    \/ \E e \in Enrollments : \E a \in MCRecords(now) : Change(e, a) /\ Bounded(1)
    \/ Restart /\ Bounded(1)
    \/ now < MaxTime /\ Tick /\ UNCHANGED changes

MCSpec == MCInit /\ [][MCNext]_<<vars, changes>>
=============================================================================
