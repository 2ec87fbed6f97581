----------------------------- MODULE Controller ------------------------------
(***************************************************************************)
(* The NodeActivity controller against a Kubernetes API server, from       *)
(* internal/controller/nodeactivity_controller.go. Reconcile runs on one   *)
(* worker as a sequence of API calls; everything it reads comes from       *)
(* informer caches that trail the server, everything it writes goes to the *)
(* server, and what makes it run is a work queue fed by watch events,      *)
(* delayed requeues and errors. Eviction is configured off here.           *)
(***************************************************************************)
EXTENDS Enrollment

CONSTANTS Enrollments,  \* positive integers, in namespace/name order
          Nodes,
          NoNode,       \* a blank spec.nodeName
          Schedules, Reports, Holds, Drifts,  \* what others may write
          SlowPass,     \* may the clock advance during a pass?
          NodeCacheLag  \* may a pass start before the Node cache has caught up?

ASSUME ControllerAssumption ==
    /\ Enrollments \subseteq Nat \ {0} /\ IsFiniteSet(Enrollments) /\ NoNode \notin Nodes
    /\ Schedules \subseteq ScheduleType
    /\ Reports \subseteq [state : States, activity : Activities, offset : Int]
    /\ Holds \subseteq Int /\ Drifts \subseteq OwnedFields
    /\ SlowPass \in BOOLEAN /\ NodeCacheLag \in BOOLEAN

VARIABLES
    now,         \* the clock
    act, node,   \* NodeActivity and Node objects on the API server
    cact, cnode, \* the informer caches of both kinds
    actLag,      \* enrollments with watch events the cache has not seen
    nodeLag,     \* Nodes whose cached resourceVersion is outdated
    nodeEvents,  \* those of them with an event nodeOwnedFieldsChanged accepts
    queue,       \* the work queue
    timer,       \* delayed requeues: timer[e] is a time, 0 for none
    rec          \* the pass in progress

api == <<act, node>>
caches == <<cact, cnode>>
vars == <<now, act, node, cact, cnode, actLag, nodeLag, nodeEvents, queue, timer, rec>>

----------------------------------------------------------------------------
(***************************************************************************)
(* Objects. A NodeActivity is what the policy reads (a, as in Policy) and  *)
(* what the controller writes to its status (st). The conditions are one   *)
(* JSON list, so a patch replaces them together.                           *)
(***************************************************************************)
NoConditions ==
    [applied |-> "none", message |-> "none", schedule |-> "none",
     heartbeat |-> "none", eviction |-> "none"]

Conditions ==
    [applied : {"none", "InvalidEnrollment", "NodeNotFound", "TaintReconciled",
                "ScheduledWindow", "DuplicateEnrollment"},
     message : Reasons \cup {"none", "duplicates"},
     schedule : {"none", "True", "False"}, heartbeat : {"none", "True", "False"},
     eviction : {"none", "Disabled"}]

Status ==
    [conditions : Conditions, managedTaint : Taints,
     admitted : BOOLEAN,
     reason : Reasons \cup {"none", "node-not-found", "invalid-enrollment"},
     heartbeatValid : BOOLEAN, heartbeatAge : Int,
     burstDesired : BOOLEAN, burstApplied : BOOLEAN, nextTransition : Int]

EmptyStatus ==
    [conditions |-> NoConditions, managedTaint |-> NoTaint,
     admitted |-> FALSE, reason |-> "none",
     heartbeatValid |-> FALSE, heartbeatAge |-> NoAge,
     burstDesired |-> FALSE, burstApplied |-> FALSE, nextTransition |-> 0]

Absent ==
    [phase |-> "absent", finalizer |-> FALSE, nodeName |-> NoNode,
     a |-> Unreported(NoWindows), st |-> EmptyStatus]

Object ==
    [phase : {"absent", "live", "deleting"}, finalizer : BOOLEAN,
     nodeName : Nodes \cup {NoNode}, a : EnrollmentType, st : Status]

NodeObject == [exists : BOOLEAN, owned : OwnedFields]

NoNodeObject == [exists |-> FALSE, owned |-> Unprotected]

(***************************************************************************)
(* The live enrollments of a Node in a store of NodeActivity objects.      *)
(***************************************************************************)
itemsOf(store, n) ==
    [e \in {f \in Enrollments : store[f].phase = "live" /\ store[f].nodeName = n}
       |-> store[e].a]

(***************************************************************************)
(* A pass: which object it is for, the local copy of it, whether that copy *)
(* still has the server's resourceVersion, the time it decides for, the    *)
(* protection, the Node fields it wants, and how far it got.               *)
(***************************************************************************)
Steps == {"idle", "addFinalizer", "hold", "decide", "update", "release",
          "removeFinalizer", "status1", "status2", "status3", "status4", "status5"}

NoPass ==
    [pc |-> "idle", e |-> 0, obj |-> Absent, fresh |-> FALSE, at |-> 0,
     badSchedule |-> FALSE, mode |-> "normal", nodeFresh |-> FALSE,
     owned |-> Unprotected, protection |-> NoProtection, requeue |-> 0]

Init ==
    /\ now = 1
    /\ act = [e \in Enrollments |-> Absent] /\ cact = act
    /\ node = [n \in Nodes |-> [NoNodeObject EXCEPT !.exists = TRUE]] /\ cnode = node
    /\ actLag = {} /\ nodeLag = {} /\ nodeEvents = {}
    /\ queue = {} /\ timer = [e \in Enrollments |-> 0]
    /\ rec = NoPass

----------------------------------------------------------------------------
(***************************************************************************)
(* Writes on the API server (external). A write that changes nothing makes *)
(* no event and no new resourceVersion.                                    *)
(***************************************************************************)
writeActivity(e, obj) ==
    /\ act' = [act EXCEPT ![e] = obj]
    /\ actLag' = IF obj = act[e] THEN actLag ELSE actLag \cup {e}

TaintsOnlyChanged(old, new) ==
    old.exists # new.exists \/ old.owned.taint # new.owned.taint \/ old.owned.burst # new.owned.burst

(***************************************************************************)
(* nodeOwnedFieldsChanged accepts creations, deletions and updates of an   *)
(* owned field; a kubelet write only outdates the cached resourceVersion.  *)
(***************************************************************************)
nodeOwnedFieldsChanged(old, new) == old.exists # new.exists \/ old.owned # new.owned

writeNode(n, obj) ==
    /\ node' = [node EXCEPT ![n] = obj]
    /\ IF obj = node[n] THEN UNCHANGED <<nodeLag, nodeEvents>>
       ELSE /\ nodeLag' = nodeLag \cup {n}
            /\ nodeEvents' = IF nodeOwnedFieldsChanged(node[n], obj)
                             THEN nodeEvents \cup {n} ELSE nodeEvents

UnchangedActivity == UNCHANGED <<act, actLag>>
UnchangedNode == UNCHANGED <<node, nodeLag, nodeEvents>>

(***************************************************************************)
(* A merge patch carries the fields in which after differs from before and *)
(* leaves the server's value of every other field.                         *)
(***************************************************************************)
merged(server, before, after) ==
    [f \in DOMAIN server |-> IF after[f] # before[f] THEN after[f] ELSE server[f]]

----------------------------------------------------------------------------
RequeuedAtOnce(requeueAfterResult) ==
    rec' = NoPass /\ queue' = queue \cup {rec.e} /\ UNCHANGED timer

NeverRequeued(requeueAfterResult) == rec' = NoPass /\ UNCHANGED <<queue, timer>>

(***************************************************************************)
(* Ends of a pass: Result{RequeueAfter} is an AddAfter, which keeps an     *)
(* earlier delayed entry; an error puts the request back on the queue (its *)
(* backoff is not timed here).                                             *)
(***************************************************************************)
Finished(requeueAfterResult) ==
    /\ rec' = NoPass
    /\ timer' = IF requeueAfterResult <= 0 THEN timer
                ELSE [timer EXCEPT ![rec.e] =
                        IF @ = 0 THEN now + requeueAfterResult
                        ELSE Least({@, now + requeueAfterResult})]
    /\ UNCHANGED queue

ErrorSwallowed == rec' = NoPass /\ UNCHANGED <<queue, timer>>

Failed ==
    /\ rec' = NoPass
    /\ queue' = queue \cup {rec.e}
    /\ UNCHANGED timer

Continue(pass) == rec' = pass /\ UNCHANGED <<queue, timer>>

(***************************************************************************)
(* Does reconcileOwnedTaint or reconcileSchedulableLabel report a change?  *)
(* With both taints on the Node re-appending one of them reorders the      *)
(* list, so they always do.                                                *)
(***************************************************************************)
nodeChanged(current, wanted) ==
    \/ current # wanted
    \/ BurstConfigured /\ current.taint # NoTaint /\ current.burst

(***************************************************************************)
(* Reconcile up to its first API call: Get from the cache, then the branch *)
(* for deletion (finalize reads the Node and the enrollments from the      *)
(* caches), for a blank nodeName, or for a live enrollment.                *)
(***************************************************************************)
Start(e) ==
    LET obj  == cact[e]
        pass == [NoPass EXCEPT !.e = e, !.obj = obj, !.fresh = e \notin actLag,
                               !.badSchedule = scheduleInvalid(obj.a.spec)]
        n    == obj.nodeName
        remaining == protectionForNode(itemsOf(cact, n), now)
        released == releasedFields(remaining, now)
    IN  /\ rec.pc = "idle" /\ e \in queue
        /\ NodeCacheLag \/ nodeLag = {}
        /\ queue' = queue \ {e}
        /\ rec' =
             CASE obj.phase = "absent" -> NoPass
               [] obj.phase = "deleting" ->
                    IF ~obj.finalizer THEN NoPass
                    ELSE IF n = NoNode \/ ~cnode[n].exists
                    THEN [pass EXCEPT !.pc = "removeFinalizer"]
                    ELSE [pass EXCEPT !.pc = IF nodeChanged(cnode[n].owned, released)
                                             THEN "release" ELSE "removeFinalizer",
                                      !.nodeFresh = n \notin nodeLag,
                                      !.protection = remaining,
                                      !.owned = released]
               [] obj.phase = "live" ->
                    IF n = NoNode THEN [pass EXCEPT !.pc = "status1", !.mode = "blank"]
                    ELSE [pass EXCEPT !.pc = IF obj.finalizer THEN "hold" ELSE "addFinalizer"]
        /\ UNCHANGED <<now, timer, caches>> /\ UnchangedActivity /\ UnchangedNode

(***************************************************************************)
(* patchFinalizers sends the resourceVersion it read: on a newer object it *)
(* fails with a conflict.                                                  *)
(***************************************************************************)
AddFinalizer ==
    LET finalized == [act[rec.e] EXCEPT !.finalizer = TRUE]
    IN  /\ rec.pc = "addFinalizer"
        /\ \/ /\ rec.fresh
              /\ writeActivity(rec.e, finalized)
              /\ Continue([rec EXCEPT !.pc = "hold", !.obj = finalized])
           \/ ~rec.fresh /\ Failed /\ UnchangedActivity
        /\ UNCHANGED <<now, caches>> /\ UnchangedNode

RemoveFinalizer ==
    /\ rec.pc = "removeFinalizer"
    /\ \/ rec.fresh /\ writeActivity(rec.e, Absent) /\ Finished(0)
       \/ ~rec.fresh /\ Failed /\ UnchangedActivity
    /\ UNCHANGED <<now, caches>> /\ UnchangedNode

(***************************************************************************)
(* The clock is read, then reconcileHold: an invalid duration is an error  *)
(* of the whole pass; a change is a merge patch of the two annotations     *)
(* with no precondition.                                                   *)
(***************************************************************************)
reconcileHold ==
    LET a     == rec.obj.a
        after == reconciledHold(a, now)
        patched == [act[rec.e] EXCEPT !.a = merged(@, a, after)]
        pass  == [rec EXCEPT !.pc = "decide", !.at = now]
    IN  /\ rec.pc = "hold"
        /\ \/ a.hold < 0 /\ Failed /\ UnchangedActivity
           \/ a.hold >= 0 /\ after = a /\ Continue(pass) /\ UnchangedActivity
           \/ /\ a.hold >= 0 /\ after # a /\ act[rec.e].phase # "absent"
              /\ writeActivity(rec.e, patched)
              /\ Continue([pass EXCEPT !.obj = patched])
           \/ /\ a.hold >= 0 /\ after # a /\ act[rec.e].phase = "absent"
              /\ Failed /\ UnchangedActivity
        /\ UNCHANGED <<now, caches>> /\ UnchangedNode

(***************************************************************************)
(* protectionForNode, policyAdmitted and the Node, all from the caches.    *)
(***************************************************************************)
Decide ==
    LET n == rec.obj.nodeName
        found == cnode[n].exists
        p == protectionForNode(itemsOf(cact, n), rec.at)
        owned == IF found THEN ownedFields(p.taint, policyAdmitted(p, rec.at)) ELSE rec.owned
    IN  /\ rec.pc = "decide"
        /\ Continue([rec EXCEPT !.pc = IF found /\ nodeChanged(cnode[n].owned, owned)
                                       THEN "update" ELSE "status1",
                                !.mode = IF found THEN "normal" ELSE "missing",
                                !.nodeFresh = found /\ n \notin nodeLag,
                                !.protection = p, !.owned = owned,
                                !.requeue = protectionRequeue(itemsOf(cact, n), rec.at)])
        /\ UNCHANGED <<now, caches>> /\ UnchangedActivity /\ UnchangedNode

(***************************************************************************)
(* Update of the Node in Reconcile and in finalize: it carries the cached  *)
(* resourceVersion, so it fails on a Node that changed or went since.      *)
(***************************************************************************)
UpdateNode ==
    LET n == rec.obj.nodeName
    IN  /\ rec.pc \in {"update", "release"}
        /\ \/ /\ rec.nodeFresh
              /\ writeNode(n, [node[n] EXCEPT !.owned = rec.owned])
              /\ Continue([rec EXCEPT !.pc = IF rec.pc = "update" THEN "status1"
                                             ELSE "removeFinalizer"])
           \/ ~rec.nodeFresh /\ Failed /\ UnchangedNode
        /\ UNCHANGED <<now, caches>> /\ UnchangedActivity

----------------------------------------------------------------------------
(***************************************************************************)
(* The status setters, each a function from the local status to the one it *)
(* wants. They read the local copy of the object as the last patch         *)
(* returned it, and the clock again.                                       *)
(***************************************************************************)
DuplicatesFromThree(st) ==
    LET p == rec.protection
    IN  [st EXCEPT !.conditions = [@ EXCEPT !.applied = IF p.count > 2 THEN "DuplicateEnrollment"
                                                        ELSE "TaintReconciled",
                                            !.message = p.reason],
                   !.managedTaint = p.taint]

setCondition(st) ==
    LET p == rec.protection
        applied == CASE rec.mode = "blank" -> "InvalidEnrollment"
                     [] rec.mode = "missing" -> "NodeNotFound"
                     [] rec.mode = "normal" ->
                          IF p.count > 1 THEN "DuplicateEnrollment"
                          ELSE IF p.scheduled THEN "ScheduledWindow" ELSE "TaintReconciled"
        message == IF rec.mode # "normal" \/ p.count = 0 THEN "none"
                   ELSE IF p.count > 1 THEN "duplicates" ELSE p.reason
    IN  [st EXCEPT !.conditions = [@ EXCEPT !.applied = applied, !.message = message],
                   !.managedTaint = IF rec.mode = "blank" THEN NoTaint ELSE p.taint]

setScheduleCondition(st) ==
    IF rec.badSchedule THEN [st EXCEPT !.conditions.schedule = "True"]
    ELSE IF st.conditions.schedule = "True" THEN [st EXCEPT !.conditions.schedule = "False"]
    ELSE st

HeartbeatConditionSticks(st) ==
    IF heartbeatFreshness(rec.obj.a.heartbeatAt, now) = "Future"
    THEN [st EXCEPT !.conditions.heartbeat = "True"]
    ELSE st

setHeartbeatCondition(st) ==
    IF heartbeatFreshness(rec.obj.a.heartbeatAt, now) = "Future"
    THEN [st EXCEPT !.conditions.heartbeat = "True"]
    ELSE IF st.conditions.heartbeat = "True" THEN [st EXCEPT !.conditions.heartbeat = "False"]
    ELSE st

AdmittedWithoutNode(st) ==
    LET p == rec.protection
    IN  [st EXCEPT
           !.admitted       = rec.mode # "blank" /\ policyAdmitted(p, now),
           !.reason         = CASE rec.mode = "blank" -> "invalid-enrollment"
                                [] rec.mode = "missing" -> "node-not-found"
                                [] rec.mode = "normal" -> p.reason,
           !.nextTransition = IF rec.mode = "blank" THEN 0 ELSE p.nextTransition]

setAdmission(st) ==
    LET p  == rec.protection
        hb == CASE rec.mode = "blank" -> rec.obj.a.heartbeatAt
                [] OTHER -> IF p.source = NoSource THEN 0 ELSE p.src.heartbeatAt
    IN  [st EXCEPT
           !.admitted       = rec.mode = "normal" /\ rec.owned.label,
           !.reason         = CASE rec.mode = "blank" -> "invalid-enrollment"
                                [] rec.mode = "missing" -> "node-not-found"
                                [] rec.mode = "normal" -> p.reason,
           !.heartbeatValid = Fresh(hb, now),
           !.heartbeatAge   = heartbeatAge(hb, now),
           !.burstDesired   = rec.mode # "blank" /\ BurstConfigured /\ ~policyAdmitted(p, now),
           !.burstApplied   = rec.mode = "normal" /\ BurstConfigured /\ rec.owned.burst,
           !.nextTransition = IF rec.mode = "blank" THEN 0 ELSE p.nextTransition]

setEvictionCondition(st) ==
    IF rec.mode = "blank" THEN st ELSE [st EXCEPT !.conditions.eviction = "Disabled"]

wantedStatus(pc, st) ==
    CASE pc = "status1" -> setCondition(st)
      [] pc = "status2" -> setScheduleCondition(st)
      [] pc = "status3" -> setHeartbeatCondition(st)
      [] pc = "status4" -> setAdmission(st)
      [] pc = "status5" -> setEvictionCondition(st)

nextStep == [status1 |-> "status2", status2 |-> "status3",
             status3 |-> "status4", status4 |-> "status5", status5 |-> "done"]

(***************************************************************************)
(* One setter: nothing when the local status already says so, otherwise a  *)
(* merge patch, whose response replaces the local copy. After the last one *)
(* the pass ends with its RequeueAfter.                                    *)
(***************************************************************************)
SetStatus ==
    LET before == rec.obj.st
        after  == wantedStatus(rec.pc, before)
        patched == [act[rec.e] EXCEPT !.st = merged(@, before, after)]
        Advance(obj) ==
            IF nextStep[rec.pc] = "done" THEN Finished(rec.requeue)
            ELSE Continue([rec EXCEPT !.pc = nextStep[rec.pc], !.obj = obj])
    IN  /\ rec.pc \in DOMAIN nextStep
        /\ \/ after = before /\ UnchangedActivity /\ Advance(rec.obj)
           \/ /\ after # before /\ act[rec.e].phase # "absent"
              /\ writeActivity(rec.e, patched)
              /\ Advance(patched)
           \/ /\ after # before /\ act[rec.e].phase = "absent"
              /\ Failed /\ UnchangedActivity
        /\ UNCHANGED <<now, caches>> /\ UnchangedNode

(***************************************************************************)
(* Any API call of a pass may fail without an effect.                      *)
(***************************************************************************)
CallFails ==
    /\ rec.pc \notin {"idle", "decide"}
    /\ Failed
    /\ UNCHANGED <<now, caches>> /\ UnchangedActivity /\ UnchangedNode

----------------------------------------------------------------------------
(***************************************************************************)
(* The informers deliver the outstanding events of one kind. A             *)
(* NodeActivity event enqueues the object itself and, through              *)
(* requestsForNode, all enrollments of its old and its new Node; a Node    *)
(* event all enrollments of that Node (requestsForEnrolledNode).           *)
(***************************************************************************)
NotIndexed(store, ns) == {}

enrolledOn(store, ns) ==
    {e \in Enrollments : store[e].phase # "absent" /\ store[e].nodeName \in ns \ {NoNode}}

SyncActivities ==
    /\ actLag # {}
    /\ cact' = act
    /\ actLag' = {}
    /\ queue' = queue \cup actLag
         \cup enrolledOn(act, {cact[e].nodeName : e \in actLag} \cup {act[e].nodeName : e \in actLag})
    /\ UNCHANGED <<now, act, node, cnode, nodeLag, nodeEvents, timer, rec>>

SyncNodes ==
    /\ nodeLag # {}
    /\ cnode' = node
    /\ nodeLag' = {} /\ nodeEvents' = {}
    /\ queue' = queue \cup enrolledOn(cact, nodeEvents)
    /\ UNCHANGED <<now, act, node, cact, actLag, timer, rec>>

FireTimer(e) ==
    /\ timer[e] # 0 /\ timer[e] <= now
    /\ timer' = [timer EXCEPT ![e] = 0]
    /\ queue' = queue \cup {e}
    /\ UNCHANGED <<now, api, caches, actLag, nodeLag, nodeEvents, rec>>

(***************************************************************************)
(* A crash or a leader change: the pass, the queue and the delayed         *)
(* requeues are lost; the new process lists everything and reconciles it.  *)
(***************************************************************************)
Restart ==
    /\ rec' = NoPass
    /\ timer' = [e \in Enrollments |-> 0]
    /\ cact' = act /\ cnode' = node
    /\ actLag' = {} /\ nodeLag' = {} /\ nodeEvents' = {}
    /\ queue' = {e \in Enrollments : act[e].phase # "absent"}
    /\ UNCHANGED <<now, api>>

Tick ==
    /\ SlowPass \/ rec.pc = "idle"
    /\ now' = now + 1
    /\ UNCHANGED <<api, caches, actLag, nodeLag, nodeEvents, queue, timer, rec>>

----------------------------------------------------------------------------
(***************************************************************************)
(* Users, reporters, kubelets and node lifecycle (external). A write to an *)
(* object a pass has read outdates the pass's copy.                        *)
(***************************************************************************)
UserWrite(e, obj) ==
    /\ writeActivity(e, obj)
    /\ rec' = [rec EXCEPT !.fresh = @ /\ (rec.e # e \/ obj = act[e])]
    /\ UNCHANGED <<now, caches, queue, timer>> /\ UnchangedNode

NodeWrite(n, obj) ==
    /\ writeNode(n, obj)
    /\ rec' = [rec EXCEPT !.nodeFresh = @ /\ (rec.obj.nodeName # n \/ obj = node[n])]
    /\ UNCHANGED <<now, caches, queue, timer>> /\ UnchangedActivity

Create(e, n, spec) ==
    /\ act[e].phase = "absent"
    /\ UserWrite(e, [Absent EXCEPT !.phase = "live", !.nodeName = n, !.a = Unreported(spec)])

Delete(e) ==
    /\ act[e].phase = "live"
    /\ UserWrite(e, IF act[e].finalizer THEN [act[e] EXCEPT !.phase = "deleting"] ELSE Absent)

Report(e, r) ==
    /\ act[e].phase # "absent" /\ now + r.offset > 0
    /\ UserWrite(e, [act[e] EXCEPT !.a.state = r.state, !.a.activity = r.activity,
                                   !.a.heartbeatAt = now + r.offset])

Annotate(e, hold) ==
    /\ act[e].phase # "absent"
    /\ UserWrite(e, [act[e] EXCEPT !.a.hold = hold])

EditSchedule(e, spec) ==
    /\ act[e].phase # "absent"
    /\ UserWrite(e, [act[e] EXCEPT !.a.spec = spec])

DriftNode(n, owned) ==
    /\ node[n].exists
    /\ NodeWrite(n, [node[n] EXCEPT !.owned = owned])

KubeletWrite(n) ==
    /\ node[n].exists
    /\ nodeLag' = nodeLag \cup {n}
    /\ rec' = [rec EXCEPT !.nodeFresh = @ /\ rec.obj.nodeName # n]
    /\ UNCHANGED <<now, api, caches, actLag, nodeEvents, queue, timer>>

RemoveNode(n) == node[n].exists /\ NodeWrite(n, NoNodeObject)

AddNode(n) == ~node[n].exists /\ NodeWrite(n, [NoNodeObject EXCEPT !.exists = TRUE])

----------------------------------------------------------------------------
Work ==
    \/ \E e \in Enrollments : Start(e)
    \/ AddFinalizer \/ reconcileHold \/ Decide \/ UpdateNode \/ SetStatus \/ RemoveFinalizer

Deliver == SyncActivities \/ SyncNodes \/ \E e \in Enrollments : FireTimer(e)

Environment ==
    \/ \E e \in Enrollments :
          \/ \E n \in Nodes \cup {NoNode}, s \in Schedules : Create(e, n, s)
          \/ Delete(e)
          \/ \E r \in Reports : Report(e, r)
          \/ \E h \in Holds : Annotate(e, h)
          \/ \E s \in Schedules : EditSchedule(e, s)
    \/ \E n \in Nodes :
          \/ \E f \in Drifts : DriftNode(n, f)
          \/ KubeletWrite(n) \/ RemoveNode(n) \/ AddNode(n)

Next == Work \/ Deliver \/ Environment \/ CallFails \/ Restart \/ Tick

Spec == Init /\ [][Next]_vars

(***************************************************************************)
(* A pass can start for e; the worker has something to do.                 *)
(***************************************************************************)
CanStart(e) == rec.pc = "idle" /\ e \in queue /\ (NodeCacheLag \/ nodeLag = {})

CanWork == rec.pc # "idle" \/ \E e \in Enrollments : CanStart(e)

(***************************************************************************)
(* A pass goes on (weak fairness of Work) and, the work queue being first  *)
(* in, first out, no request is passed over forever (strong fairness of    *)
(* Start); informers deliver and delayed requeues fire. CanWork and        *)
(* CanStart stand for ENABLED, which TLC is slow to evaluate here.         *)
(***************************************************************************)
Fairness ==
    /\ []<>~CanWork \/ []<><<Work>>_vars
    /\ \A e \in Enrollments : <>[]~CanStart(e) \/ []<><<Start(e)>>_vars
    /\ WF_vars(SyncActivities) /\ WF_vars(SyncNodes)
    /\ \A e \in Enrollments : WF_vars(FireTimer(e))

----------------------------------------------------------------------------
Pass ==
    [pc : Steps, e : Enrollments \cup {0}, obj : Object, fresh : BOOLEAN, at : Nat,
     badSchedule : BOOLEAN, mode : {"normal", "missing", "blank"}, nodeFresh : BOOLEAN,
     owned : OwnedFields,
     protection : [source : Enrollments \cup {NoSource}, src : EnrollmentType,
                   taint : Taints, reason : Reasons, scheduled : BOOLEAN,
                   count : Nat, nextTransition : Int],
     requeue : Int]

TypeOK ==
    /\ now \in Nat
    /\ act \in [Enrollments -> Object] /\ cact \in [Enrollments -> Object]
    /\ node \in [Nodes -> NodeObject] /\ cnode \in [Nodes -> NodeObject]
    /\ actLag \subseteq Enrollments /\ queue \subseteq Enrollments
    /\ nodeEvents \subseteq nodeLag /\ nodeLag \subseteq Nodes
    /\ timer \in [Enrollments -> Nat]
    /\ rec \in Pass

(***************************************************************************)
(* Nothing is left to do until the clock or somebody else moves.           *)
(***************************************************************************)
Quiet ==
    /\ rec.pc = "idle" /\ queue = {} /\ actLag = {} /\ nodeEvents = {}
    /\ \A e \in Enrollments : timer[e] = 0 \/ timer[e] > now

(***************************************************************************)
(* When the controller has come to rest, every Node with live enrollments  *)
(* carries the protection of the enrollments on the API server at this     *)
(* moment, whatever caches were stale, Updates lost to conflicts, calls    *)
(* failed, restarts and edits of the Node happened on the way.             *)
(***************************************************************************)
ProtectionConverged ==
    Quiet => \A n \in Nodes :
        node[n].exists /\ DOMAIN itemsOf(act, n) # {}
            => node[n].owned = desiredFields(itemsOf(act, n), now)

(***************************************************************************)
(* At rest the status of an enrollment tells the truth about its Node: the *)
(* five patches of possibly different passes, each against a possibly      *)
(* stale copy, leave one consistent report. (An enrollment without a Node  *)
(* name is not requeued, so its heartbeat condition may be outdated; one   *)
(* that fails closed on a fresh heartbeat is requeued after StaleAfter, so *)
(* for a while its reason may be that of the refused report.)              *)
(***************************************************************************)
StatusTruthful ==
    Quiet => \A e \in Enrollments : act[e].phase = "live" =>
        LET n  == act[e].nodeName
            st == act[e].st
            p  == protectionForNode(itemsOf(act, n), now)
            schedule  == (st.conditions.schedule = "True") = scheduleInvalid(act[e].a.spec)
            heartbeat == (st.conditions.heartbeat = "True")
                           = (heartbeatFreshness(act[e].a.heartbeatAt, now) = "Future")
        IN  CASE n = NoNode ->
                   st.reason = "invalid-enrollment" /\ ~st.admitted /\ schedule
              [] n # NoNode /\ ~node[n].exists ->
                   /\ st.reason = "node-not-found" /\ ~st.admitted /\ ~st.burstApplied
                   /\ st.conditions.applied = "NodeNotFound"
                   /\ schedule /\ heartbeat
              [] OTHER ->
                   /\ st.managedTaint = node[n].owned.taint
                   /\ st.admitted = node[n].owned.label
                   /\ st.burstApplied = node[n].owned.burst
                   /\ st.burstDesired = st.burstApplied
                   /\ \/ st.reason = p.reason /\ st.nextTransition = p.nextTransition
                      \/ st.reason \in Refused /\ p.reason = "stale-heartbeat"
                   /\ (st.conditions.applied = "DuplicateEnrollment") = (p.count > 1)
                   /\ schedule /\ heartbeat

(***************************************************************************)
(* Nothing of the controller is on the Node, or an enrollment will take it *)
(* away before its finalizer goes.                                         *)
(***************************************************************************)
Guarded(n) ==
    node[n].owned = Unprotected \/ \E e \in Enrollments : act[e].finalizer /\ act[e].nodeName = n

(***************************************************************************)
(* A Node that carries a taint or label of the controller still has an     *)
(* enrollment whose finalizer will take it away: no deletion, crash or     *)
(* failed call leaves the fields behind with nobody responsible for them.  *)
(***************************************************************************)
FinalizerGuards == \A n \in Nodes : Guarded(n)

(***************************************************************************)
(* A pass that gives up the finalizer although the Node may have been      *)
(* written since the copy it judged, or it had no copy of the Node.        *)
(***************************************************************************)
ReleasesUnseen(n) == RemoveFinalizer /\ rec.obj.nodeName = n /\ ~rec.nodeFresh

(***************************************************************************)
(* A pass of an object being deleted that leaves the Node to an enrollment *)
(* it saw in the cache, or puts the fields there which that one asks for   *)
(* (docs/controller.md: "if no live enrollment remains").                  *)
(***************************************************************************)
LeavesToSibling(n) ==
    /\ rec.pc \in {"release", "removeFinalizer"} /\ rec.obj.nodeName = n
    /\ rec.protection.source # NoSource
    /\ UpdateNode \/ RemoveFinalizer

(***************************************************************************)
(* How a Node may come to carry the controller's fields with nobody left   *)
(* to take them away, the caches being as outdated as they like: a pass    *)
(* released it unseen or left it to a sibling that has no finalizer, or    *)
(* somebody else put them there. Every other order of creations and        *)
(* deletions, of Updates and their conflicts, of failed calls and restarts *)
(* in the middle of a pass keeps a finalizer until the Node is clear.      *)
(***************************************************************************)
OrphansExplained ==
    [][\A n \in Nodes : Guarded(n) /\ ~Guarded(n)' =>
          \/ ReleasesUnseen(n) \/ LeavesToSibling(n)
          \/ \E f \in Drifts : DriftNode(n, f)]_vars

(***************************************************************************)
(* At rest no deletion is wedged: no object waits for its finalizer.       *)
(***************************************************************************)
DeletionCompletes == Quiet => \A e \in Enrollments : act[e].phase # "deleting"

(***************************************************************************)
(* The controller comes to rest once others leave it alone: neither its    *)
(* own status patches and Node Updates nor its retries keep waking it.     *)
(***************************************************************************)
Settles == <>[]Quiet

(***************************************************************************)
(* A live enrollment whose heartbeat has expired does not stay without its *)
(* fail-closed taint: its Node is tainted, or the premise ends.            *)
(***************************************************************************)
StaleFailsClosed ==
    \A e \in Enrollments :
        (/\ act[e].phase = "live" /\ act[e].nodeName # NoNode
         /\ heartbeatFreshness(act[e].a.heartbeatAt, now) = "Expired")
        ~> (\/ act[e].phase # "live" \/ heartbeatFreshness(act[e].a.heartbeatAt, now) # "Expired"
            \/ node[act[e].nodeName].owned.taint \in NoSchedule
            \/ ~node[act[e].nodeName].exists)

(***************************************************************************)
(* The controller removes a hold when it has expired, and no other hold.   *)
(***************************************************************************)
OnlyExpiredHoldsRemoved ==
    [][\A e \in Enrollments :
         act[e].a.hold > 0 /\ act'[e].a.hold = 0 /\ act'[e].phase # "absent"
         => holdExpiry(act[e].a) <= now]_vars
=============================================================================
