------------------------------- MODULE Wakeup --------------------------------
(***************************************************************************)
(* One Node and its enrollments seen by a controller whose caches are      *)
(* current: what is left is time. The policy changes as heartbeats expire, *)
(* future heartbeats become plausible, windows open and close and holds    *)
(* run out, with no event to announce it; the only thing that makes        *)
(* Reconcile run again is the RequeueAfter of its previous pass. The       *)
(* module asks whether that is always soon enough. Stale caches, conflicts *)
(* and restarts are in module Controller.                                  *)
(***************************************************************************)
EXTENDS EvictionClass

CONSTANTS Enrollments,  \* positive integers, in namespace/name order
          Schedules     \* the schedules enrollments may carry

ASSUME EnrollmentsAssumption == Enrollments \subseteq Nat \ {0}
ASSUME SchedulesAssumption == Schedules \subseteq ScheduleType

VARIABLES now,    \* the controller's clock
          items,  \* live enrollments: a function on a subset of Enrollments
          node,   \* the fields of the Node the controller owns
          due     \* due[e]: when Reconcile runs for e again

vars == <<now, items, node, due>>

Record == [state : States, activity : Activities, heartbeatAt : Nat,
           hold : Nat, holdStart : Int, spec : Schedules]

TypeOK ==
    /\ now \in Nat
    /\ DOMAIN items \subseteq Enrollments
    /\ items \in [DOMAIN items -> Record]
    /\ node \in OwnedFields
    /\ due \in [Enrollments -> Nat]

Init ==
    /\ now = 1
    /\ items = << >>
    /\ node = Unprotected
    /\ due = [e \in Enrollments |-> 0]

(***************************************************************************)
(* An event on one enrollment reaches every enrollment of the Node         *)
(* (requestsForNode), so all of them become due.                           *)
(***************************************************************************)
Notified == [e \in Enrollments |-> now]

requeue(e) == [due EXCEPT ![e] = now + protectionRequeue(items, now)]

(***************************************************************************)
(* Reconcile of one due enrollment. Its own annotation patch is an event;  *)
(* the list the protection is computed from may not show that patch yet.   *)
(***************************************************************************)
Reconcile(e) ==
    /\ e \in DOMAIN items
    /\ due[e] <= now
    /\ items' = [items EXCEPT ![e] = reconciledHold(@, now)]
    /\ \E seen \in {items, items'} : node' = desiredFields(seen, now)
    /\ due' = IF items' = items THEN requeue(e) ELSE Notified
    /\ UNCHANGED now

(***************************************************************************)
(* A new or edited NodeActivity: created, reported on, held, rescheduled.  *)
(***************************************************************************)
Change(e, a) ==
    /\ items' = [f \in DOMAIN items \cup {e} |-> IF f = e THEN a ELSE items[f]]
    /\ due' = Notified
    /\ UNCHANGED <<now, node>>

(***************************************************************************)
(* Deletion, with the finalize pass that releases the Node.                *)
(***************************************************************************)
Withdraw(e) ==
    /\ e \in DOMAIN items
    /\ items' = [f \in DOMAIN items \ {e} |-> items[f]]
    /\ node' = releasedFields(protectionForNode(items', now), now)
    /\ due' = Notified
    /\ UNCHANGED now

(***************************************************************************)
(* A restart loses the delayed queue; the initial list notifies everyone.  *)
(***************************************************************************)
Restart == due' = Notified /\ UNCHANGED <<now, items, node>>

(***************************************************************************)
(* Reconcile is prompt here: time passes only when nothing is due.         *)
(***************************************************************************)
Tick ==
    /\ \A e \in DOMAIN items : due[e] > now
    /\ now' = now + 1
    /\ UNCHANGED <<items, node, due>>

Next ==
    \/ \E e \in Enrollments : Reconcile(e) \/ Withdraw(e)
    \/ \E e \in Enrollments, a \in Record : Change(e, a)
    \/ Restart
    \/ Tick

Spec == Init /\ [][Next]_vars

(***************************************************************************)
(* Whenever no pass is due, the Node carries exactly what the policy asks  *)
(* for at this very moment: RequeueAfter never skips a heartbeat deadline, *)
(* a plausibility time, a hold expiry or a window boundary of any          *)
(* enrollment, and the source of the protection is never outdated.         *)
(***************************************************************************)
ProtectionCurrent ==
    (\E e \in DOMAIN items : due[e] > now) => node = desiredFields(items, now)

(***************************************************************************)
(* Duplicates never weaken each other (docs/controller.md: "fresh          *)
(* active-game NoSchedule wins, followed by fail-closed NoSchedule,        *)
(* interactive PreferNoSchedule, and idle/no taint"): while no pass is due *)
(* the Node refuses whatever one of its enrollments refuses at this        *)
(* moment, and is labelled schedulable only if none of them wants a taint. *)
(***************************************************************************)
StrongestProtection ==
    (\E e \in DOMAIN items : due[e] > now) =>
        \A e \in DOMAIN items :
            LET reason == admissionReason(items[e], now)
                taint  == taintFor(reason)
            IN  /\ reason = "active-game" => node.taint = "active"
                /\ taint \in NoSchedule => node.taint \in NoSchedule
                /\ taint # NoTaint => node.taint # NoTaint /\ ~node.label

(***************************************************************************)
(* Until an enrollment is due the Node will not need another pass: the     *)
(* inductive strengthening of ProtectionCurrent, over the whole remaining  *)
(* delay instead of this moment.                                           *)
(***************************************************************************)
SteadyUntilDue ==
    \A e \in DOMAIN items : \A t \in now..(due[e] - 1) :
        node = desiredFields(items, t)

(***************************************************************************)
(* status.admission.nextTransition is never too late: until the announced  *)
(* time the enrollment keeps its taint and its admission.                  *)
(***************************************************************************)
AnnouncedInTime ==
    \A e \in DOMAIN items :
        LET d == decidePolicy(items[e], now)
        IN  \A t \in now..(d.nextTransition - 1) :
              /\ decidePolicy(items[e], t).taint = d.taint
              /\ controllerAdmitted(items[e], t, d.taint)
                   = controllerAdmitted(items[e], now, d.taint)

(***************************************************************************)
(* The rows of the eviction matrix (docs/controller.md, "Eviction          *)
(* matrix") by what an enrollment asks of its Node: the row says nothing   *)
(* of the Node, whose taints are what the matrix calls desired and         *)
(* applied. Where two rows of the document meet, this is the one the code  *)
(* takes: a lead beyond the tolerance comes before a state that is stale   *)
(* (the document keeps that report on the stale row, and the code's        *)
(* comment does not: "The timestamp does not authorize eviction, even      *)
(* when the reporter state is stale"), and a window that admits new Pods   *)
(* before an activity that is not a game ("Evicting while admitting only   *)
(* causes churn"). A refused schedule and an unsupported state have no row.*)
(***************************************************************************)
Undocumented == {"invalid-schedule", "unsupported-state"}

matrixRow(a, t) ==
    LET reason == admissionReason(a, t)
    IN  CASE reason = "active-game" -> "game"
          [] reason \in {"active-interactive", "unsupported-activity", "availability-hold",
                        "scheduled-interactive", "missing-heartbeat", "stale-heartbeat",
                        "stale-state"} -> "lossyOnly"
          [] reason = "scheduled-game" ->
               IF BurstConfigured \/ a.state = "active" \/ a.activity = "interactive"
               THEN "lossyOnly" ELSE "none"
          [] OTHER -> "none"

(***************************************************************************)
(* Eviction follows the report, not the pass: what the only enrollment of  *)
(* a Node may evict is its row of the matrix at every moment until its     *)
(* next pass is due, when heartbeats expire, windows open or close and a   *)
(* hold runs out between the pass that wrote the taints and the call that  *)
(* reads them. A requeue that comes too late, or a taint that outlives its *)
(* reason, leaves a Node that evicts what it should not or keeps what it   *)
(* should let go.                                                          *)
(***************************************************************************)
EvictionFollows ==
    \A e \in DOMAIN items : DOMAIN items = {e} =>
        \A t \in now..(due[e] - 1) :
            admissionReason(items[e], t) \notin Undocumented =>
                evictionClass(items[e], node, node.taint, t) = matrixRow(items[e], t)
=============================================================================
