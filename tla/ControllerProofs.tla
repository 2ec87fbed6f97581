---------------------------- MODULE ControllerProofs --------------------------
(***************************************************************************)
(* Proofs about Controller, for every number of enrollments and Nodes and  *)
(* whatever others write: an inductive invariant of caches, events and the *)
(* pass in progress, from which deletions complete; under a policy that    *)
(* fails closed, that every Node with enrollments is right until a requeue *)
(* or has a pass to come, from which the Node converges, and the same of   *)
(* the status of every enrollment and of the gauges of every Node, which   *)
(* at rest are truthful; and, for one enrollment, that no Node and no      *)
(* gauge is left behind.                                                   *)
(***************************************************************************)
EXTENDS Metrics, PolicyProofs

(***************************************************************************)
(* The types of a pass's protection and of a status, by name.              *)
(***************************************************************************)
ProtectionType ==
    [source : Enrollments \cup {NoSource}, src : EnrollmentType, taint : Taints,
     reason : Reasons, scheduled : BOOLEAN, count : Nat, nextTransition : Int]

Setters == {"status1", "status2", "status3", "status4", "status5"}

----------------------------------------------------------------------------
(***************************************************************************)
(* Setting one field of a record keeps its type.                           *)
(***************************************************************************)
LEMMA PassSet ==
    ASSUME NEW r \in Pass
    PROVE  /\ \A v \in Steps : [r EXCEPT !.pc = v] \in Pass
           /\ \A v \in Enrollments \cup {0} : [r EXCEPT !.e = v] \in Pass
           /\ \A v \in Object : [r EXCEPT !.obj = v] \in Pass
           /\ \A v \in BOOLEAN : [r EXCEPT !.fresh = v] \in Pass
           /\ \A v \in Nat : [r EXCEPT !.at = v] \in Pass
           /\ \A v \in BOOLEAN : [r EXCEPT !.badSchedule = v] \in Pass
           /\ \A v \in {"normal", "missing", "blank"} : [r EXCEPT !.mode = v] \in Pass
           /\ \A v \in BOOLEAN : [r EXCEPT !.nodeFresh = v] \in Pass
           /\ \A v \in OwnedFields : [r EXCEPT !.owned = v] \in Pass
           /\ \A v \in ProtectionType : [r EXCEPT !.protection = v] \in Pass
           /\ \A v \in Int : [r EXCEPT !.requeue = v] \in Pass
<1> DEFINE T == [pc : Steps, e : Enrollments \cup {0}, obj : Object, fresh : BOOLEAN, at : Nat,
                 badSchedule : BOOLEAN, mode : {"normal", "missing", "blank"},
                 nodeFresh : BOOLEAN, owned : OwnedFields, protection : ProtectionType,
                 requeue : Int]
<1>1. Pass = T
  BY DEF Pass, ProtectionType
<1>2. /\ \A v \in Steps : [r EXCEPT !.pc = v] \in T
      /\ \A v \in Enrollments \cup {0} : [r EXCEPT !.e = v] \in T
      /\ \A v \in Object : [r EXCEPT !.obj = v] \in T
      /\ \A v \in BOOLEAN : [r EXCEPT !.fresh = v] \in T
  BY <1>1
<1>3. /\ \A v \in Nat : [r EXCEPT !.at = v] \in T
      /\ \A v \in BOOLEAN : [r EXCEPT !.badSchedule = v] \in T
      /\ \A v \in {"normal", "missing", "blank"} : [r EXCEPT !.mode = v] \in T
      /\ \A v \in BOOLEAN : [r EXCEPT !.nodeFresh = v] \in T
  BY <1>1
<1>4. /\ \A v \in OwnedFields : [r EXCEPT !.owned = v] \in T
      /\ \A v \in ProtectionType : [r EXCEPT !.protection = v] \in T
      /\ \A v \in Int : [r EXCEPT !.requeue = v] \in T
  BY <1>1
<1> QED
  BY <1>1, <1>2, <1>3, <1>4

(***************************************************************************)
(* The fields of a pass.                                                   *)
(***************************************************************************)
LEMMA PassFields ==
    ASSUME NEW r \in Pass
    PROVE  /\ r.pc \in Steps /\ r.e \in Enrollments \cup {0} /\ r.obj \in Object
           /\ r.fresh \in BOOLEAN /\ r.at \in Nat /\ r.badSchedule \in BOOLEAN
           /\ r.mode \in {"normal", "missing", "blank"} /\ r.nodeFresh \in BOOLEAN
           /\ r.owned \in OwnedFields /\ r.protection \in ProtectionType /\ r.requeue \in Int
  BY DEF Pass, ProtectionType

(***************************************************************************)
(* The fields of an object.                                                *)
(***************************************************************************)
LEMMA ObjectFields ==
    ASSUME NEW o \in Object
    PROVE  /\ o.phase \in {"absent", "live", "deleting"} /\ o.finalizer \in BOOLEAN
           /\ o.nodeName \in Nodes \cup {NoNode} /\ o.a \in EnrollmentType /\ o.st \in Status
  BY DEF Object

(***************************************************************************)
(* Setting one field of an object keeps its type.                          *)
(***************************************************************************)
LEMMA ObjectSet ==
    ASSUME NEW o \in Object
    PROVE  /\ \A v \in {"absent", "live", "deleting"} : [o EXCEPT !.phase = v] \in Object
           /\ \A v \in BOOLEAN : [o EXCEPT !.finalizer = v] \in Object
           /\ \A v \in Nodes \cup {NoNode} : [o EXCEPT !.nodeName = v] \in Object
           /\ \A v \in EnrollmentType : [o EXCEPT !.a = v] \in Object
           /\ \A v \in Status : [o EXCEPT !.st = v] \in Object
  BY DEF Object

(***************************************************************************)
(* Setting one field of what the policy reads keeps its type.              *)
(***************************************************************************)
LEMMA EnrollmentSet ==
    ASSUME NEW a \in EnrollmentType
    PROVE  /\ \A v \in States : [a EXCEPT !.state = v] \in EnrollmentType
           /\ \A v \in Activities : [a EXCEPT !.activity = v] \in EnrollmentType
           /\ \A v \in Nat : [a EXCEPT !.heartbeatAt = v] \in EnrollmentType
           /\ \A v \in Int : [a EXCEPT !.hold = v] \in EnrollmentType
           /\ \A v \in Int : [a EXCEPT !.holdStart = v] \in EnrollmentType
           /\ \A v \in ScheduleType : [a EXCEPT !.spec = v] \in EnrollmentType
  BY DEF EnrollmentType

(***************************************************************************)
(* Setting one field of a status keeps its type.                           *)
(***************************************************************************)
LEMMA StatusSet ==
    ASSUME NEW s \in Status
    PROVE  /\ \A v \in Conditions : [s EXCEPT !.conditions = v] \in Status
           /\ \A v \in Taints : [s EXCEPT !.managedTaint = v] \in Status
           /\ \A v \in BOOLEAN : [s EXCEPT !.admitted = v] \in Status
           /\ \A v \in Reasons \cup {"none", "node-not-found", "invalid-enrollment"} :
                 [s EXCEPT !.reason = v] \in Status
           /\ \A v \in BOOLEAN : [s EXCEPT !.heartbeatValid = v] \in Status
           /\ \A v \in Int : [s EXCEPT !.heartbeatAge = v] \in Status
           /\ \A v \in BOOLEAN : [s EXCEPT !.burstDesired = v] \in Status
           /\ \A v \in BOOLEAN : [s EXCEPT !.burstApplied = v] \in Status
           /\ \A v \in Int : [s EXCEPT !.nextTransition = v] \in Status
  BY DEF Status

(***************************************************************************)
(* Setting one condition keeps the type of the list.                       *)
(***************************************************************************)
LEMMA ConditionsSet ==
    ASSUME NEW c \in Conditions
    PROVE  /\ \A v \in {"none", "InvalidEnrollment", "NodeNotFound", "TaintReconciled",
                        "ScheduledWindow", "DuplicateEnrollment"} :
                 [c EXCEPT !.applied = v] \in Conditions
           /\ \A v \in Reasons \cup {"none", "duplicates"} : [c EXCEPT !.message = v] \in Conditions
           /\ \A v \in {"none", "True", "False"} : [c EXCEPT !.schedule = v] \in Conditions
           /\ \A v \in {"none", "True", "False"} : [c EXCEPT !.heartbeat = v] \in Conditions
           /\ \A v \in {"none", "Disabled"} : [c EXCEPT !.eviction = v] \in Conditions
  BY DEF Conditions

(***************************************************************************)
(* A merge patch between objects of one type yields one of that type.      *)
(***************************************************************************)
LEMMA MergedEnrollment ==
    ASSUME NEW s \in EnrollmentType, NEW b \in EnrollmentType, NEW a \in EnrollmentType
    PROVE  merged(s, b, a) \in EnrollmentType
  BY SMT DEF merged, EnrollmentType

(***************************************************************************)
(* The same of two statuses: a status patch, whatever copy it was computed *)
(* from.                                                                   *)
(***************************************************************************)
LEMMA MergedStatus ==
    ASSUME NEW s \in Status, NEW b \in Status, NEW a \in Status
    PROVE  merged(s, b, a) \in Status
  BY SMT DEF merged, Status

(***************************************************************************)
(* An object that is not there is well typed.                              *)
(***************************************************************************)
LEMMA AbsentType == Absent \in Object
<1>1. NoWindows \in ScheduleType
  BY DEF NoWindows, ScheduleType
<1>2. Unreported(NoWindows) \in EnrollmentType
  BY <1>1 DEF Unreported, EnrollmentType, States, Activities
<1>3. NoConditions \in Conditions
  BY DEF NoConditions, Conditions
<1>4. EmptyStatus \in Status
  BY <1>3 DEF EmptyStatus, Status, Taints, NoAge
<1> QED
  BY <1>2, <1>4 DEF Absent, Object

(***************************************************************************)
(* So is the state between two passes.                                     *)
(***************************************************************************)
LEMMA NoPassType == NoPass \in Pass
<1>1. Unprotected \in OwnedFields
  BY DEF Unprotected, OwnedFields, Taints
<1>2. Unreported(NoWindows) \in EnrollmentType
  BY AbsentType DEF Absent, Object
<1>3. NoProtection \in ProtectionType
  BY <1>2 DEF NoProtection, ProtectionType, Taints, Reasons, Refused
<1> QED
  BY <1>1, <1>3, AbsentType DEF NoPass, Pass, ProtectionType, Steps
----------------------------------------------------------------------------
(***************************************************************************)
(* What the operators a pass is made of return.                            *)
(***************************************************************************)
LEMMA TaintType == \A r : taintFor(r) \in Taints
  BY DEF taintFor, failClosed, Taints, NoTaint, NoSchedule, PreferNoSchedule

(***************************************************************************)
(* The announced transition is a time.                                     *)
(***************************************************************************)
LEMMA TransitionType ==
    ASSUME NEW a \in EnrollmentType, NEW t \in Nat
    PROVE  nextTransition(a, t) \in Nat
<1> DEFINE wait == windowWait(a.spec, t)
           deadline == a.heartbeatAt + StaleAfter
           boundary == IF wait > 0 THEN {t + wait} ELSE {}
           plausible == a.heartbeatAt - effectiveHeartbeatSkew
<1>1. deadline \in Int /\ wait \in Int /\ plausible \in Int /\ holdExpiry(a) \in Int
  BY EnrollmentFields, WaitType, PolicyValid DEF effectiveHeartbeatSkew
<1>2. boundary \subseteq Int
  BY <1>1
<1> HIDE DEF wait, deadline, boundary, plausible
<1>3. /\ earliestTransition(t, {plausible}) \in Nat
      /\ earliestTransition(t, {deadline, holdExpiry(a)}) \in Nat
      /\ earliestTransition(t, {deadline}) \in Nat
      /\ earliestTransition(t, {deadline} \cup boundary) \in Nat
  <2>1. /\ {plausible} \in SUBSET Int /\ {deadline, holdExpiry(a)} \in SUBSET Int
        /\ {deadline} \in SUBSET Int /\ {deadline} \cup boundary \in SUBSET Int
    BY <1>1, <1>2
  <2> QED
    BY <2>1, EarliestIsFirst
<1> QED
  BY <1>3 DEF nextTransition, wait, deadline, boundary, plausible

(***************************************************************************)
(* The enrollments of a Node are those live in the store that name it.     *)
(***************************************************************************)
LEMMA ItemsType ==
    ASSUME NEW store \in [Enrollments -> Object], NEW n
    PROVE  /\ DOMAIN itemsOf(store, n) \in SUBSET (Nat \ {0})
           /\ DOMAIN itemsOf(store, n) \subseteq Enrollments
           /\ itemsOf(store, n) \in [DOMAIN itemsOf(store, n) -> EnrollmentType]
           /\ \A e \in DOMAIN itemsOf(store, n) : itemsOf(store, n)[e] = store[e].a
           /\ \A e \in Enrollments :
                 e \in DOMAIN itemsOf(store, n) <=> store[e].phase = "live" /\ store[e].nodeName = n
  BY ControllerAssumption, ObjectFields DEF itemsOf

(***************************************************************************)
(* The enrollment that decides is one of them.                             *)
(***************************************************************************)
LEMMA SourceType ==
    ASSUME NEW D \in SUBSET (Nat \ {0}), D # {}, NEW items \in [D -> EnrollmentType], NEW t \in Nat
    PROVE  protectionSource(items, t) \in D
<1>1. \A e \in D : enrollmentRank(items[e], t) \in 0..3
  BY TaintType DEF enrollmentRank, Taints, NoTaint, NoSchedule, PreferNoSchedule
<1>2. enrollmentRanks(items, t) \in [D -> 0..3]
  BY <1>1 DEF enrollmentRanks
<1>3. DOMAIN items = D
  OBVIOUS
<1> QED
  BY <1>2, <1>3, FirstStrongest DEF protectionSource

(***************************************************************************)
(* The protection of a Node is well typed.                                 *)
(***************************************************************************)
LEMMA ProtectionTyped ==
    ASSUME NEW D \in SUBSET Enrollments, NEW items \in [D -> EnrollmentType], NEW t \in Nat
    PROVE  protectionForNode(items, t) \in ProtectionType
<1>1. D \in SUBSET (Nat \ {0}) /\ IsFiniteSet(D) /\ DOMAIN items = D
  BY ControllerAssumption, FS_Subset
<1>2. CASE D = {}
  BY <1>1, <1>2, NoPassType, PassFields DEF protectionForNode, NoPass
<1>3. CASE D # {}
  <2> DEFINE e == protectionSource(items, t)
  <2>1. e \in D
    BY <1>1, <1>3, SourceType
  <2> HIDE DEF e
  <2>2. /\ items[e] \in EnrollmentType /\ admissionReason(items[e], t) \in Reasons
        /\ nextTransition(items[e], t) \in Int
    BY <2>1, ReasonType, TransitionType
  <2>3. Cardinality(D) \in Nat
    BY <1>1, FS_CardinalityType
  <2>4. (admissionReason(items[e], t) \in Scheduled) \in BOOLEAN
    OBVIOUS
  <2>5. protectionForNode(items, t) =
           [source |-> e, src |-> items[e], taint |-> taintFor(admissionReason(items[e], t)),
            reason |-> admissionReason(items[e], t),
            scheduled |-> admissionReason(items[e], t) \in Scheduled,
            count |-> Cardinality(D), nextTransition |-> nextTransition(items[e], t)]
    BY <1>1, <1>3 DEF protectionForNode, decidePolicy, e
  <2> QED
    BY <2>1, <2>2, <2>3, <2>4, <2>5, TaintType DEF ProtectionType
<1> QED
  BY <1>2, <1>3

(***************************************************************************)
(* What Reconcile and finalize want on a Node is well typed.               *)
(***************************************************************************)
LEMMA OwnedType ==
    ASSUME NEW p, NEW t, p.taint \in Taints
    PROVE  /\ ownedFields(p.taint, policyAdmitted(p, t)) \in OwnedFields
           /\ releasedFields(p, t) \in OwnedFields
<1>1. policyAdmitted(p, t) \in BOOLEAN
  BY DEF policyAdmitted
<1>2. (BurstConfigured /\ ~policyAdmitted(p, t)) \in BOOLEAN
  OBVIOUS
<1>3. (BurstConfigured /\ p.source # NoSource /\ ~policyAdmitted(p, t)) \in BOOLEAN
  OBVIOUS
<1> QED
  BY <1>1, <1>2, <1>3 DEF ownedFields, releasedFields, OwnedFields

(***************************************************************************)
(* reconcileHold returns well-typed annotations.                           *)
(***************************************************************************)
LEMMA HoldTyped ==
    ASSUME NEW a \in EnrollmentType, NEW t \in Nat
    PROVE  reconciledHold(a, t) \in EnrollmentType
<1>1. /\ [a EXCEPT !.holdStart = 0] \in EnrollmentType
      /\ [a EXCEPT !.holdStart = t] \in EnrollmentType
      /\ [a EXCEPT !.hold = 0] \in EnrollmentType
  BY EnrollmentSet, 0 \in Int, t \in Int
<1>2. [[a EXCEPT !.hold = 0] EXCEPT !.holdStart = 0] \in EnrollmentType
  BY <1>1, EnrollmentSet, 0 \in Int
<1>3. [a EXCEPT !.hold = 0, !.holdStart = 0] = [[a EXCEPT !.hold = 0] EXCEPT !.holdStart = 0]
  BY Zenon
<1> QED
  BY <1>1, <1>2, <1>3 DEF reconciledHold

(***************************************************************************)
(* Each setter keeps a status well formed.                                 *)
(***************************************************************************)
LEMMA WantedType ==
    ASSUME rec \in Pass, now \in Nat, NEW st \in Status, NEW pc \in Setters
    PROVE  wantedStatus(pc, st) \in Status
<1> DEFINE p == rec.protection
<1>1. /\ p.reason \in Reasons /\ p.taint \in Taints /\ p.nextTransition \in Int
      /\ rec.owned.label \in BOOLEAN /\ rec.owned.burst \in BOOLEAN
      /\ rec.mode \in {"normal", "missing", "blank"}
  BY PassFields DEF ProtectionType, OwnedFields
<1>2. st.conditions \in Conditions
  BY DEF Status
<1>3. CASE pc = "status1"
  <2> DEFINE applied == CASE rec.mode = "blank" -> "InvalidEnrollment"
                          [] rec.mode = "missing" -> "NodeNotFound"
                          [] rec.mode = "normal" ->
                               IF p.count > 1 THEN "DuplicateEnrollment"
                               ELSE IF p.scheduled THEN "ScheduledWindow" ELSE "TaintReconciled"
             message == IF rec.mode # "normal" \/ p.count = 0 THEN "none"
                        ELSE IF p.count > 1 THEN "duplicates" ELSE p.reason
             taint == IF rec.mode = "blank" THEN NoTaint ELSE p.taint
             conditions == [[st.conditions EXCEPT !.applied = applied] EXCEPT !.message = message]
             new == [[st EXCEPT !.conditions = conditions] EXCEPT !.managedTaint = taint]
  <2>1. wantedStatus(pc, st) = new
    BY <1>3, Zenon DEF wantedStatus, setCondition
  <2>2. applied \in {"none", "InvalidEnrollment", "NodeNotFound", "TaintReconciled",
                     "ScheduledWindow", "DuplicateEnrollment"}
    BY <1>1
  <2>3. message \in Reasons \cup {"none", "duplicates"} /\ taint \in Taints
    BY <1>1 DEF Taints
  <2> HIDE DEF applied, message, taint
  <2>4. conditions \in Conditions
    BY <1>2, <2>2, <2>3, ConditionsSet
  <2> HIDE DEF conditions
  <2>5. new \in Status
    BY <2>3, <2>4, StatusSet
  <2> QED
    BY <2>1, <2>5
<1>4. CASE pc = "status2"
  BY <1>2, <1>4, ConditionsSet, StatusSet DEF wantedStatus, setScheduleCondition
<1>5. CASE pc = "status3"
  BY <1>2, <1>5, ConditionsSet, StatusSet DEF wantedStatus, setHeartbeatCondition
<1>6. CASE pc = "status4"
  <2> DEFINE hb == CASE rec.mode = "blank" -> rec.obj.a.heartbeatAt
                     [] OTHER -> IF p.source = NoSource THEN 0 ELSE p.src.heartbeatAt
             admitted == rec.mode = "normal" /\ rec.owned.label
             reason == CASE rec.mode = "blank" -> "invalid-enrollment"
                         [] rec.mode = "missing" -> "node-not-found"
                         [] rec.mode = "normal" -> p.reason
             desired == rec.mode # "blank" /\ BurstConfigured /\ ~policyAdmitted(p, now)
             burst == rec.mode = "normal" /\ BurstConfigured /\ rec.owned.burst
             transition == IF rec.mode = "blank" THEN 0 ELSE p.nextTransition
             s1 == [st EXCEPT !.admitted = admitted]
             s2 == [s1 EXCEPT !.reason = reason]
             s3 == [s2 EXCEPT !.heartbeatValid = Fresh(hb, now)]
             s4 == [s3 EXCEPT !.heartbeatAge = heartbeatAge(hb, now)]
             s5 == [s4 EXCEPT !.burstDesired = desired]
             s6 == [s5 EXCEPT !.burstApplied = burst]
             s7 == [s6 EXCEPT !.nextTransition = transition]
  <2>1. wantedStatus(pc, st) = s7
    BY <1>6, Zenon DEF wantedStatus, setAdmission
  <2>2. rec.obj.a \in EnrollmentType /\ p.src \in EnrollmentType
    BY PassFields, ObjectFields DEF ProtectionType
  <2>3. hb \in Nat
    BY <2>2, EnrollmentFields
  <2>4. /\ admitted \in BOOLEAN /\ desired \in BOOLEAN /\ burst \in BOOLEAN
        /\ transition \in Int
    BY <1>1
  <2>5. reason \in Reasons \cup {"none", "node-not-found", "invalid-enrollment"}
    BY <1>1
  <2> HIDE DEF hb, admitted, reason, desired, burst, transition
  <2>6. Fresh(hb, now) \in BOOLEAN /\ heartbeatAge(hb, now) \in Int
    BY <2>3 DEF Fresh, heartbeatAge, NoAge
  <2>7. s1 \in Status
    BY <2>4, StatusSet
  <2> HIDE DEF s1
  <2>8. s2 \in Status
    BY <2>5, <2>7, StatusSet
  <2> HIDE DEF s2
  <2>9. s3 \in Status
    BY <2>6, <2>8, StatusSet
  <2> HIDE DEF s3
  <2>10. s4 \in Status
    BY <2>6, <2>9, StatusSet
  <2> HIDE DEF s4
  <2>11. s5 \in Status
    BY <2>4, <2>10, StatusSet
  <2> HIDE DEF s5
  <2>12. s6 \in Status
    BY <2>4, <2>11, StatusSet
  <2> HIDE DEF s6
  <2>13. s7 \in Status
    BY <2>4, <2>12, StatusSet
  <2> HIDE DEF s7
  <2> QED
    BY <2>1, <2>13
<1>7. CASE pc = "status5"
  <2>1. CASE rec.mode = "blank"
    BY <1>7, <2>1 DEF wantedStatus, setEvictionCondition
  <2>2. CASE rec.mode # "blank"
    BY <1>2, <1>7, <2>2, ConditionsSet, StatusSet DEF wantedStatus, setEvictionCondition
  <2> QED
    BY <2>1, <2>2
<1> QED
  BY <1>3, <1>4, <1>5, <1>6, <1>7 DEF Setters
----------------------------------------------------------------------------
(***************************************************************************)
(* What holds of every object: a finalizer is only put on an object that   *)
(* names a Node, and only an object with a finalizer waits for deletion.   *)
(***************************************************************************)
WellFormed(store) ==
    \A e \in Enrollments :
        /\ store[e].finalizer => store[e].phase # "absent" /\ store[e].nodeName \in Nodes
        /\ store[e].phase = "deleting" => store[e].finalizer

(***************************************************************************)
(* What an outdated cache may differ in: an object it shows as live with a *)
(* finalizer is still there, on the same Node, since only a pass that saw  *)
(* it deleted takes the finalizer away.                                    *)
(***************************************************************************)
Held(e, obj) == act[e].finalizer /\ act[e].nodeName = obj.nodeName

ActCurrent == \A e \in Enrollments : e \notin actLag => cact[e] = act[e]

NodeCurrent == \A n \in Nodes : n \notin nodeEvents => cnode[n] = node[n]

CacheHeld ==
    \A e \in Enrollments : cact[e].phase = "live" /\ cact[e].finalizer => Held(e, cact[e])

(***************************************************************************)
(* What a pass knows of its object.                                        *)
(***************************************************************************)
Enrolls ==
    \/ rec.pc \in {"hold", "decide", "update"}
    \/ rec.pc \in Setters /\ rec.mode # "blank"

Finalizes == rec.pc \in {"release", "removeFinalizer"}

PassKnows ==
    /\ rec.pc # "idle" => rec.e \in Enrollments
    /\ rec.pc = "addFinalizer" =>
           /\ rec.obj.phase = "live" /\ rec.obj.nodeName \in Nodes
           /\ rec.fresh => act[rec.e] = rec.obj
    /\ Finalizes =>
           /\ rec.obj.phase = "deleting" /\ rec.obj.nodeName \in Nodes
           /\ rec.fresh => act[rec.e] = rec.obj /\ cact[rec.e].phase = "deleting"
    /\ Enrolls => rec.obj.nodeName \in Nodes /\ Held(rec.e, rec.obj)

(***************************************************************************)
(* An object waits for its finalizer only while a pass will come for it.   *)
(***************************************************************************)
Undeleted ==
    \A e \in Enrollments : act[e].phase = "deleting" =>
        e \in actLag \/ e \in queue \/ (Finalizes /\ rec.e = e)

IInv ==
    /\ TypeOK /\ WellFormed(act) /\ WellFormed(cact)
    /\ ActCurrent /\ NodeCurrent /\ CacheHeld /\ PassKnows /\ Undeleted

(***************************************************************************)
(* The setting in which the Node converges: a fail-closed policy,          *)
(* schedules whose errors do not cure themselves, and a pass that takes no *)
(* time.                                                                   *)
(***************************************************************************)
Calm == ~SlowPass /\ FailClosed /\ \A s \in Schedules : ErrorPersists(s)

Persistent(store) == \A e \in Enrollments : ErrorPersists(store[e].a.spec)

Decides ==
    \/ rec.pc \in {"decide", "update"}
    \/ rec.pc \in Setters /\ rec.mode # "blank"

Punctual == Decides => rec.at = now

(***************************************************************************)
(* A set of owned fields that the enrollments the cache shows for a Node   *)
(* ask for until a time.                                                   *)
(***************************************************************************)
RightUntil(n, owned, until) ==
    \A t \in Nat : now <= t /\ t < until => owned = desiredFields(itemsOf(cact, n), t)

(***************************************************************************)
(* The pass in progress is one for a live enrollment of the Node; it has   *)
(* still to decide, or it knows what is right until it will be requeued.   *)
(***************************************************************************)
PassFor(n) == rec.e \in DOMAIN itemsOf(cact, n) /\ rec.obj.nodeName = n

Deciding(n) == PassFor(n) /\ rec.pc \in {"addFinalizer", "hold", "decide"}

Finishing(n) ==
    /\ PassFor(n) /\ rec.pc \in {"update"} \cup Setters /\ rec.mode # "blank"
    /\ rec.requeue > 0
    /\ RightUntil(n, IF rec.pc = "update" THEN rec.owned ELSE node[n].owned, now + rec.requeue)

Woken(n) ==
    \/ n \in nodeEvents
    \/ \E e \in DOMAIN itemsOf(cact, n) : e \in queue

Steady(n) ==
    \E e \in DOMAIN itemsOf(cact, n) :
        timer[e] # 0 /\ RightUntil(n, node[n].owned, timer[e])

(***************************************************************************)
(* Every Node with enrollments is right until a requeue, or a pass that    *)
(* will set it right is in progress or due. All of it is about the cached  *)
(* enrollments: those the cache does not show make the work queue fill as  *)
(* it catches up.                                                          *)
(***************************************************************************)
Cover(n) == Woken(n) \/ Deciding(n) \/ Finishing(n) \/ Steady(n)

Covered == \A n \in Nodes : node[n].exists /\ DOMAIN itemsOf(cact, n) # {} => Cover(n)

CInv == IInv /\ Persistent(act) /\ Persistent(cact) /\ Punctual /\ Covered
----------------------------------------------------------------------------
(***************************************************************************)
(* The invariant holds initially: nothing exists but the Nodes.            *)
(***************************************************************************)
LEMMA InitIInv == Init => IInv
<1> SUFFICES ASSUME Init PROVE IInv
  OBVIOUS
<1> USE DEF Init
<1>1. Absent.phase = "absent" /\ Absent.finalizer = FALSE
  BY DEF Absent
<1>2. NoPass.pc = "idle"
  BY DEF NoPass
<1>3. [NoNodeObject EXCEPT !.exists = TRUE] \in NodeObject
  BY DEF NoNodeObject, NodeObject, Unprotected, OwnedFields, Taints
<1>4. TypeOK
  BY <1>3, AbsentType, NoPassType DEF TypeOK
<1>5. WellFormed(act) /\ WellFormed(cact)
  BY <1>1 DEF WellFormed
<1>6. ActCurrent /\ NodeCurrent /\ CacheHeld /\ Undeleted
  BY <1>1 DEF ActCurrent, NodeCurrent, CacheHeld, Undeleted
<1>7. PassKnows
  BY <1>2 DEF PassKnows, Finalizes, Enrolls, Setters
<1> QED
  BY <1>4, <1>5, <1>6, <1>7 DEF IInv

(***************************************************************************)
(* How a pass ends, and how it goes on.                                    *)
(***************************************************************************)
LEMMA FinishedEffect ==
    ASSUME TypeOK, NEW r \in Int, Finished(r)
    PROVE  /\ rec' = NoPass /\ queue' = queue /\ timer' \in [Enrollments -> Nat]
           /\ \A e \in Enrollments : e # rec.e => timer'[e] = timer[e]
           /\ \A e \in Enrollments : timer[e] # 0 => timer'[e] # 0 /\ timer'[e] <= timer[e]
           /\ r > 0 /\ rec.e \in Enrollments => timer'[rec.e] # 0 /\ timer'[rec.e] <= now + r
<1>1. /\ rec' = NoPass /\ queue' = queue
      /\ timer' = IF r <= 0 THEN timer
                  ELSE [timer EXCEPT ![rec.e] = IF timer[rec.e] = 0 THEN now + r
                                                ELSE Least({timer[rec.e], now + r})]
  BY DEF Finished
<1>2. now \in Nat /\ timer \in [Enrollments -> Nat]
  BY DEF TypeOK
<1>3. CASE r <= 0
  BY <1>1, <1>2, <1>3
<1>4. CASE r > 0
  <2> DEFINE later == IF timer[rec.e] = 0 THEN now + r ELSE Least({timer[rec.e], now + r})
  <2>1. timer' = [timer EXCEPT ![rec.e] = later]
    BY <1>1, <1>4
  <2>2. ASSUME rec.e \in Enrollments
        PROVE  /\ later \in Nat /\ later # 0 /\ later <= now + r
               /\ timer[rec.e] # 0 => later <= timer[rec.e]
    <3>1. timer[rec.e] \in Nat /\ now + r \in Nat /\ now + r > 0
      BY <1>2, <1>4, <2>2
    <3>2. {timer[rec.e], now + r} \in SUBSET Nat /\ {timer[rec.e], now + r} # {}
      BY <3>1
    <3>3. /\ Least({timer[rec.e], now + r}) \in {timer[rec.e], now + r}
          /\ \A y \in {timer[rec.e], now + r} : Least({timer[rec.e], now + r}) <= y
      BY <3>2, LeastIsLeast
    <3> HIDE DEF later
    <3>4. CASE timer[rec.e] = 0
      BY <3>1, <3>4 DEF later
    <3>5. CASE timer[rec.e] # 0
      <4>1. later = Least({timer[rec.e], now + r})
        BY <3>5 DEF later
      <4> QED
        BY <3>1, <3>3, <3>5, <4>1
    <3> QED
      BY <3>4, <3>5
  <2> HIDE DEF later
  <2>3. CASE rec.e \in Enrollments
    <3>1. /\ timer' \in [Enrollments -> Nat] /\ timer'[rec.e] = later
          /\ \A e \in Enrollments : e # rec.e => timer'[e] = timer[e]
      BY <1>2, <2>1, <2>2, <2>3
    <3>2. \A e \in Enrollments : timer[e] \in Nat
      BY <1>2
    <3>3. /\ later # 0 /\ later <= now + r
          /\ timer[rec.e] # 0 => later <= timer[rec.e]
      BY <2>2, <2>3
    <3>4. ASSUME NEW e \in Enrollments, timer[e] # 0
          PROVE  timer'[e] # 0 /\ timer'[e] <= timer[e]
      <4>1. CASE e = rec.e
        BY <3>1, <3>3, <3>4, <4>1
      <4>2. CASE e # rec.e
        BY <3>1, <3>2, <3>4, <4>2
      <4> QED
        BY <4>1, <4>2
    <3>5. timer'[rec.e] # 0 /\ timer'[rec.e] <= now + r
      BY <3>1, <3>3
    <3>6. \A e \in Enrollments : timer[e] # 0 => timer'[e] # 0 /\ timer'[e] <= timer[e]
      BY <3>4
    <3>7. rec' = NoPass /\ queue' = queue
      BY <1>1
    <3>8. /\ timer' \in [Enrollments -> Nat]
          /\ \A e \in Enrollments : e # rec.e => timer'[e] = timer[e]
      BY <3>1
    <3> QED
      BY <3>5, <3>6, <3>7, <3>8
  <2>4. CASE rec.e \notin Enrollments
    <3>1. timer' = timer
      BY <1>2, <2>1, <2>4
    <3>2. \A e \in Enrollments : timer[e] \in Nat
      BY <1>2
    <3>3. rec' = NoPass /\ queue' = queue
      BY <1>1
    <3>4. \A e \in Enrollments : timer[e] # 0 => timer'[e] # 0 /\ timer'[e] <= timer[e]
      BY <3>1, <3>2
    <3>5. \A e \in Enrollments : e # rec.e => timer'[e] = timer[e]
      BY <3>1
    <3>6. timer' \in [Enrollments -> Nat]
      BY <1>2, <3>1
    <3>7. r > 0 /\ rec.e \in Enrollments => timer'[rec.e] # 0 /\ timer'[rec.e] <= now + r
      BY <2>4
    <3> QED
      BY <3>3, <3>4, <3>5, <3>6, <3>7
  <2> QED
    BY <2>3, <2>4
<1> QED
  BY <1>2, <1>3, <1>4

(***************************************************************************)
(* Between passes nothing is known of any object.                          *)
(***************************************************************************)
LEMMA NoPassKnows ==
    ASSUME rec' = NoPass
    PROVE  PassKnows' /\ ~Finalizes' /\ rec' \in Pass
  BY NoPassType DEF NoPass, PassKnows, Finalizes, Enrolls, Setters

(***************************************************************************)
(* No object is forgotten that waits for its finalizer.                    *)
(***************************************************************************)
LEMMA UndeletedKept ==
    ASSUME Undeleted, actLag \subseteq actLag', queue \subseteq queue',
           \A e \in Enrollments :
               act'[e].phase = "deleting" => act[e].phase = "deleting" \/ e \in actLag',
           Finalizes => (Finalizes' /\ rec'.e = rec.e) \/ rec.e \in queue'
    PROVE  Undeleted'
  BY DEF Undeleted

(***************************************************************************)
(* A write to an object keeps what holds of the objects and their cache,   *)
(* if it neither takes away a finalizer the cache shows on a live object   *)
(* nor moves such an object.                                               *)
(***************************************************************************)
Allowed(e, obj) ==
    /\ obj \in Object
    /\ obj.finalizer => obj.phase # "absent" /\ obj.nodeName \in Nodes
    /\ obj.phase = "deleting" => obj.finalizer
    /\ cact[e].phase = "live" /\ cact[e].finalizer =>
           obj.finalizer /\ obj.nodeName = act[e].nodeName

Stores == WellFormed(act) /\ WellFormed(cact) /\ ActCurrent /\ CacheHeld

(***************************************************************************)
(* What a write to an object changes; one that changes nothing makes no    *)
(* event.                                                                  *)
(***************************************************************************)
LEMMA WriteEffect ==
    ASSUME TypeOK, NEW e \in Enrollments, NEW obj \in Object, writeActivity(e, obj)
    PROVE  /\ act' \in [Enrollments -> Object] /\ actLag' \subseteq Enrollments
           /\ actLag \subseteq actLag' /\ (obj = act[e] \/ e \in actLag')
           /\ act'[e] = obj /\ \A f \in Enrollments : f # e => act'[f] = act[f]
           /\ \A f \in Enrollments :
                  act'[f].phase = "deleting" => act[f].phase = "deleting" \/ f \in actLag'
  BY DEF TypeOK, writeActivity

(***************************************************************************)
(* Such a write keeps what holds of the objects and their cache.           *)
(***************************************************************************)
LEMMA WriteKeeps ==
    ASSUME IInv, NEW e \in Enrollments, NEW obj, Allowed(e, obj), writeActivity(e, obj),
           cact' = cact
    PROVE  Stores'
<1>1. obj \in Object
  BY DEF Allowed
<1>2. /\ actLag \subseteq actLag' /\ (obj = act[e] \/ e \in actLag')
      /\ act'[e] = obj /\ \A f \in Enrollments : f # e => act'[f] = act[f]
  BY <1>1, WriteEffect DEF IInv
<1>3. WellFormed(act)' /\ WellFormed(cact)'
  BY <1>2 DEF IInv, WellFormed, Allowed
<1>4. ActCurrent'
  BY <1>2 DEF IInv, ActCurrent
<1>5. CacheHeld'
  BY <1>2 DEF IInv, CacheHeld, Held, Allowed
<1> QED
  BY <1>3, <1>4, <1>5 DEF Stores

(***************************************************************************)
(* A write to a Node that changes it makes an event.                       *)
(***************************************************************************)
LEMMA WriteNodeKeeps ==
    ASSUME TypeOK, NodeCurrent, NEW n \in Nodes, NEW obj \in NodeObject, writeNode(n, obj),
           cnode' = cnode
    PROVE  /\ node' \in [Nodes -> NodeObject] /\ NodeCurrent'
           /\ nodeEvents' \subseteq nodeLag' /\ nodeLag' \subseteq Nodes
           /\ nodeEvents \subseteq nodeEvents' /\ (obj = node[n] \/ n \in nodeEvents')
           /\ node'[n] = obj /\ \A m \in Nodes : m # n => node'[m] = node[m]
<1>1. /\ node \in [Nodes -> NodeObject] /\ nodeEvents \subseteq nodeLag /\ nodeLag \subseteq Nodes
  BY DEF TypeOK
<1>2. /\ node' = [node EXCEPT ![n] = obj]
      /\ obj = node[n] => nodeLag' = nodeLag /\ nodeEvents' = nodeEvents
      /\ obj # node[n] => /\ nodeLag' = nodeLag \cup {n}
                          /\ nodeEvents' = IF nodeOwnedFieldsChanged(node[n], obj)
                                           THEN nodeEvents \cup {n} ELSE nodeEvents
  BY DEF writeNode
<1>3. obj # node[n] => nodeOwnedFieldsChanged(node[n], obj)
  BY <1>1 DEF nodeOwnedFieldsChanged, NodeObject
<1>4. /\ nodeEvents' \subseteq nodeLag' /\ nodeLag' \subseteq Nodes
      /\ nodeEvents \subseteq nodeEvents' /\ (obj = node[n] \/ n \in nodeEvents')
  BY <1>1, <1>2, <1>3
<1>5. /\ node' \in [Nodes -> NodeObject]
      /\ node'[n] = obj /\ \A m \in Nodes : m # n => node'[m] = node[m]
  BY <1>1, <1>2
<1>6. NodeCurrent'
  BY <1>4, <1>5 DEF NodeCurrent
<1> QED
  BY <1>4, <1>5, <1>6
----------------------------------------------------------------------------
(***************************************************************************)
(* The parts of the invariant that a step leaves alone.                    *)
(***************************************************************************)
LEMMA SameStores ==
    ASSUME IInv, UNCHANGED <<act, cact, actLag>>
    PROVE  /\ Stores' /\ act' \in [Enrollments -> Object] /\ cact' \in [Enrollments -> Object]
           /\ actLag' \subseteq Enrollments
  BY DEF IInv, TypeOK, Stores, WellFormed, ActCurrent, CacheHeld, Held

(***************************************************************************)
(* The same of the Nodes.                                                  *)
(***************************************************************************)
LEMMA SameNodes ==
    ASSUME IInv, UNCHANGED <<node, cnode, nodeLag, nodeEvents>>
    PROVE  /\ NodeCurrent' /\ node' \in [Nodes -> NodeObject] /\ cnode' \in [Nodes -> NodeObject]
           /\ nodeEvents' \subseteq nodeLag' /\ nodeLag' \subseteq Nodes
  BY DEF IInv, TypeOK, NodeCurrent

(***************************************************************************)
(* Where Start leads: what the new pass knows.                             *)
(***************************************************************************)
LEMMA StartEffect ==
    ASSUME IInv, NEW e \in Enrollments, Start(e)
    PROVE  LET obj == cact[e]
               n == obj.nodeName
               leftover == releasedFields(protectionForNode(itemsOf(cact, n), now), now)
           IN  /\ rec.pc = "idle" /\ e \in queue /\ queue' = queue \ {e}
               /\ rec' \in Pass
               /\ \/ rec' = NoPass
                  \/ rec'.e = e /\ rec'.obj = obj /\ (rec'.fresh <=> e \notin actLag)
               /\ rec'.pc \in {"idle", "status1"} \/ rec'.mode = "normal"
               /\ obj.phase = "absent" => rec' = NoPass
               /\ obj.phase = "deleting" /\ obj.finalizer =>
                      /\ rec'.e = e
                      /\ \/ /\ rec'.pc = "removeFinalizer"
                            /\ n \in Nodes /\ cnode[n].exists => cnode[n].owned = leftover
                            /\ rec'.nodeFresh => n \in Nodes /\ cnode[n].exists /\ n \notin nodeLag
                         \/ /\ n \in Nodes /\ rec'.pc = "release" /\ rec'.owned = leftover
                            /\ cnode[n].exists /\ (rec'.nodeFresh => n \notin nodeLag)
                      /\ n \in Nodes /\ cnode[n].exists =>
                             rec'.protection = protectionForNode(itemsOf(cact, n), now)
               /\ obj.phase = "live" =>
                      /\ rec'.e = e /\ rec'.badSchedule = scheduleInvalid(obj.a.spec)
                      /\ \/ n = NoNode /\ rec'.pc = "status1" /\ rec'.mode = "blank"
                         \/ n \in Nodes /\ ~obj.finalizer /\ rec'.pc = "addFinalizer"
                         \/ n \in Nodes /\ obj.finalizer /\ rec'.pc = "hold"
<1> DEFINE obj == cact[e]
           n == obj.nodeName
           bad == scheduleInvalid(obj.a.spec)
           fresh == e \notin actLag
           pass == [[[[NoPass EXCEPT !.e = e] EXCEPT !.obj = obj] EXCEPT !.fresh = fresh]
                        EXCEPT !.badSchedule = bad]
           remaining == protectionForNode(itemsOf(cact, n), now)
           leftover == releasedFields(remaining, now)
           pc == IF nodeChanged(cnode[n].owned, leftover) THEN "release" ELSE "removeFinalizer"
           known == n \notin nodeLag
           releasing == [[[[pass EXCEPT !.pc = pc] EXCEPT !.nodeFresh = known]
                              EXCEPT !.protection = remaining] EXCEPT !.owned = leftover]
           removing == [pass EXCEPT !.pc = "removeFinalizer"]
           blank == [[pass EXCEPT !.pc = "status1"] EXCEPT !.mode = "blank"]
           enrolling == [pass EXCEPT !.pc = IF obj.finalizer THEN "hold" ELSE "addFinalizer"]
<1>1. /\ rec.pc = "idle" /\ e \in queue /\ queue' = queue \ {e}
      /\ rec' = CASE obj.phase = "absent" -> NoPass
                  [] obj.phase = "deleting" ->
                       IF ~obj.finalizer THEN NoPass
                       ELSE IF n = NoNode \/ ~cnode[n].exists THEN removing
                       ELSE releasing
                  [] obj.phase = "live" -> IF n = NoNode THEN blank ELSE enrolling
  BY Zenon DEF Start
<1>2. /\ obj \in Object /\ now \in Nat /\ cact \in [Enrollments -> Object]
      /\ cnode \in [Nodes -> NodeObject]
  BY DEF IInv, TypeOK
<1>3. /\ obj.phase \in {"absent", "live", "deleting"} /\ n \in Nodes \cup {NoNode}
      /\ obj.finalizer \in BOOLEAN
  BY <1>2, ObjectFields
<1>4. /\ DOMAIN itemsOf(cact, n) \in SUBSET Enrollments
      /\ itemsOf(cact, n) \in [DOMAIN itemsOf(cact, n) -> EnrollmentType]
  BY <1>2, ItemsType
<1>5. remaining \in ProtectionType
  BY <1>2, <1>4, ProtectionTyped
<1>6. leftover \in OwnedFields
  <2>1. remaining.taint \in Taints
    BY <1>5 DEF ProtectionType
  <2> HIDE DEF remaining
  <2> QED
    BY <2>1, OwnedType
<1>7. bad \in BOOLEAN /\ fresh \in BOOLEAN /\ known \in BOOLEAN
  BY DEF scheduleInvalid
<1>8. pc \in {"release", "removeFinalizer"}
  OBVIOUS
<1>9. cnode[n].exists /\ n \in Nodes /\ pc = "removeFinalizer" => cnode[n].owned = leftover
  BY DEF nodeChanged
<1> HIDE DEF bad, fresh, remaining, leftover, known, pc
<1>10. /\ pass \in Pass /\ pass.e = e /\ pass.obj = obj /\ pass.fresh = fresh
       /\ pass.mode = "normal" /\ pass.badSchedule = bad /\ pass.nodeFresh = FALSE
  <2>1. [NoPass EXCEPT !.e = e] \in Pass
    BY NoPassType, PassSet
  <2>2. [[NoPass EXCEPT !.e = e] EXCEPT !.obj = obj] \in Pass
    BY <1>2, <2>1, PassSet
  <2>3. [[[NoPass EXCEPT !.e = e] EXCEPT !.obj = obj] EXCEPT !.fresh = fresh] \in Pass
    BY <1>7, <2>2, PassSet
  <2>4. pass \in Pass
    BY <1>7, <2>3, PassSet
  <2> QED
    BY <2>4 DEF NoPass
<1> HIDE DEF pass
<1>11. /\ removing \in Pass /\ removing.e = e /\ removing.obj = obj /\ removing.fresh = fresh
       /\ removing.mode = "normal" /\ removing.pc = "removeFinalizer" /\ removing.nodeFresh = FALSE
  <2>1. removing \in Pass
    BY <1>10, PassSet DEF Steps
  <2> QED
    BY <1>10, <2>1 DEF Pass
<1>12. /\ blank \in Pass /\ blank.e = e /\ blank.obj = obj /\ blank.fresh = fresh
       /\ blank.mode = "blank" /\ blank.pc = "status1" /\ blank.badSchedule = bad
  <2>1. [pass EXCEPT !.pc = "status1"] \in Pass
    BY <1>10, PassSet DEF Steps
  <2>2. blank \in Pass
    BY <2>1, PassSet
  <2> QED
    BY <1>10, <2>2 DEF Pass
<1>13. /\ enrolling \in Pass /\ enrolling.e = e /\ enrolling.obj = obj /\ enrolling.fresh = fresh
       /\ enrolling.mode = "normal" /\ enrolling.badSchedule = bad
       /\ enrolling.pc = IF obj.finalizer THEN "hold" ELSE "addFinalizer"
  <2>1. enrolling \in Pass
    BY <1>10, PassSet DEF Steps
  <2> QED
    BY <1>10, <2>1 DEF Pass
<1>14. /\ releasing \in Pass /\ releasing.e = e /\ releasing.obj = obj /\ releasing.fresh = fresh
       /\ releasing.mode = "normal" /\ releasing.pc = pc /\ releasing.owned = leftover
       /\ releasing.nodeFresh = known /\ releasing.protection = remaining
  <2>1. [pass EXCEPT !.pc = pc] \in Pass
    BY <1>8, <1>10, PassSet DEF Steps
  <2>2. [[pass EXCEPT !.pc = pc] EXCEPT !.nodeFresh = known] \in Pass
    BY <1>7, <2>1, PassSet
  <2>3. [[[pass EXCEPT !.pc = pc] EXCEPT !.nodeFresh = known]
            EXCEPT !.protection = remaining] \in Pass
    BY <1>5, <2>2, PassSet
  <2>4. releasing \in Pass
    BY <1>6, <2>3, PassSet
  <2> QED
    BY <1>10, <2>4 DEF Pass
<1> HIDE DEF removing, blank, enrolling, releasing
<1>15. NoPass.pc = "idle" /\ NoPass \in Pass
  BY NoPassType DEF NoPass
<1>16. CASE obj.phase = "absent"
  BY <1>1, <1>15, <1>16
<1>17. CASE obj.phase = "deleting"
  <2>1. CASE ~obj.finalizer
    BY <1>1, <1>15, <1>17, <2>1
  <2>2. CASE obj.finalizer /\ (n = NoNode \/ ~cnode[n].exists)
    <3>1. rec' = removing
      BY <1>1, <1>17, <2>2
    <3>2. n \in Nodes => ~cnode[n].exists
      BY <2>2, ControllerAssumption
    <3> QED
      BY <1>1, <1>11, <1>17, <3>1, <3>2 DEF fresh
  <2>3. CASE obj.finalizer /\ n # NoNode /\ cnode[n].exists
    <3>1. rec' = releasing
      BY <1>1, <1>17, <2>3
    <3> QED
      BY <1>1, <1>3, <1>8, <1>9, <1>14, <1>17, <2>3, <3>1 DEF fresh, remaining, leftover, known
  <2> QED
    BY <1>3, <2>1, <2>2, <2>3
<1>18. CASE obj.phase = "live"
  <2>1. CASE n = NoNode
    <3>1. rec' = blank
      BY <1>1, <1>18, <2>1
    <3> QED
      BY <1>1, <1>12, <1>18, <2>1, <3>1 DEF fresh, bad
  <2>2. CASE n # NoNode
    <3>1. rec' = enrolling
      BY <1>1, <1>18, <2>2
    <3> QED
      BY <1>1, <1>3, <1>13, <1>18, <2>2, <3>1 DEF fresh, bad
  <2> QED
    BY <2>1, <2>2
<1> QED
  BY <1>3, <1>16, <1>17, <1>18

(***************************************************************************)
(* The beginning of a pass preserves the invariant.                        *)
(***************************************************************************)
LEMMA StartKeeps ==
    ASSUME IInv, NEW e \in Enrollments, Start(e)
    PROVE  IInv'
<1>1. /\ UNCHANGED <<act, cact, actLag>> /\ UNCHANGED <<node, cnode, nodeLag, nodeEvents>>
      /\ now' = now /\ timer' = timer
  BY DEF Start, caches, UnchangedActivity, UnchangedNode
<1>2. Stores' /\ NodeCurrent'
  BY <1>1, SameStores, SameNodes
<1> DEFINE obj == cact[e]
<1>3. /\ rec.pc = "idle" /\ queue' = queue \ {e} /\ rec' \in Pass
      /\ rec' = NoPass \/ (rec'.e = e /\ rec'.obj = obj /\ (rec'.fresh <=> e \notin actLag))
      /\ rec'.pc \in {"idle", "status1"} \/ rec'.mode = "normal"
      /\ obj.phase = "absent" => rec' = NoPass
      /\ obj.phase = "deleting" /\ obj.finalizer =>
             rec'.e = e /\ rec'.pc \in {"removeFinalizer", "release"}
      /\ obj.phase = "live" =>
             /\ rec'.e = e
             /\ \/ obj.nodeName = NoNode /\ rec'.pc = "status1" /\ rec'.mode = "blank"
                \/ obj.nodeName \in Nodes /\ ~obj.finalizer /\ rec'.pc = "addFinalizer"
                \/ obj.nodeName \in Nodes /\ obj.finalizer /\ rec'.pc = "hold"
  BY StartEffect
<1>4. TypeOK'
  BY <1>1, <1>3 DEF IInv, TypeOK
<1>5. /\ obj \in Object /\ obj.phase \in {"absent", "live", "deleting"}
      /\ obj.phase = "deleting" => obj.finalizer
      /\ obj.finalizer => obj.nodeName \in Nodes
      /\ e \notin actLag => act[e] = obj
      /\ obj.phase = "live" /\ obj.finalizer => Held(e, obj)
  BY ObjectFields DEF IInv, TypeOK, WellFormed, ActCurrent, CacheHeld
<1>6. PassKnows'
  <2>1. CASE rec' = NoPass
    BY <2>1, NoPassKnows
  <2>2. CASE rec' # NoPass /\ obj.phase = "deleting"
    <3>1. rec'.pc \in {"removeFinalizer", "release"} /\ rec'.e = e /\ rec'.obj = obj
      BY <1>3, <1>5, <2>2
    <3> QED
      BY <1>1, <1>3, <1>5, <2>2, <3>1 DEF PassKnows, Finalizes, Enrolls, Setters
  <2>3. CASE rec' # NoPass /\ obj.phase = "live"
    BY <1>1, <1>3, <1>5, <2>3 DEF PassKnows, Finalizes, Enrolls, Setters, Held
  <2> QED
    BY <1>3, <1>5, <2>1, <2>2, <2>3
<1>7. Undeleted'
  <2> SUFFICES ASSUME NEW f \in Enrollments, act[f].phase = "deleting", f \notin actLag
               PROVE  f \in queue' \/ (Finalizes' /\ rec'.e = f)
    BY <1>1 DEF Undeleted
  <2>1. f \in queue
    BY <1>3 DEF IInv, Undeleted, Finalizes
  <2>2. CASE f = e
    BY <1>3, <1>5, <2>2 DEF Finalizes
  <2> QED
    BY <1>3, <2>1, <2>2
<1> QED
  BY <1>2, <1>4, <1>6, <1>7 DEF IInv, Stores

(***************************************************************************)
(* A pass that fails is forgotten, and its object is queued again.         *)
(***************************************************************************)
LEMMA FailedKeeps ==
    ASSUME IInv, Failed, UNCHANGED <<now, caches>>, UnchangedActivity, UnchangedNode,
           rec.pc # "idle"
    PROVE  IInv'
<1>1. /\ UNCHANGED <<act, cact, actLag>> /\ UNCHANGED <<node, cnode, nodeLag, nodeEvents>>
      /\ now' = now /\ timer' = timer /\ rec' = NoPass /\ queue' = queue \cup {rec.e}
  BY DEF Failed, caches, UnchangedActivity, UnchangedNode
<1>2. Stores' /\ NodeCurrent'
  BY <1>1, SameStores, SameNodes
<1>3. rec.e \in Enrollments
  BY DEF IInv, PassKnows
<1>4. PassKnows' /\ rec' \in Pass
  BY <1>1, NoPassKnows
<1>5. TypeOK'
  BY <1>1, <1>3, <1>4 DEF IInv, TypeOK
<1>6. Undeleted'
  BY <1>1, UndeletedKept DEF IInv
<1> QED
  BY <1>2, <1>4, <1>5, <1>6 DEF IInv, Stores

(***************************************************************************)
(* AddFinalizer writes only to the object the pass has read.               *)
(***************************************************************************)

(***************************************************************************)
(* AddFinalizer writes only to the object the pass has read.               *)
(***************************************************************************)
LEMMA AddFinalizerEffect ==
    ASSUME IInv, AddFinalizer, ~(Failed /\ UnchangedActivity)
    PROVE  LET finalized == [act[rec.e] EXCEPT !.finalizer = TRUE]
           IN  /\ rec.e \in Enrollments /\ rec.fresh /\ act[rec.e] = rec.obj
               /\ writeActivity(rec.e, finalized) /\ Allowed(rec.e, finalized)
               /\ finalized.phase = "live" /\ finalized.finalizer
               /\ finalized.nodeName = rec.obj.nodeName
               /\ UNCHANGED <<now, cact, cnode, node, nodeLag, nodeEvents, queue, timer>>
               /\ rec' \in Pass /\ rec'.pc = "hold" /\ rec'.obj = finalized /\ rec'.e = rec.e
               /\ rec'.mode = rec.mode /\ rec'.badSchedule = rec.badSchedule
<1> DEFINE e == rec.e
           finalized == [act[e] EXCEPT !.finalizer = TRUE]
           pass == [[rec EXCEPT !.pc = "hold"] EXCEPT !.obj = finalized]
<1>1. /\ rec.pc = "addFinalizer" /\ UNCHANGED <<now, caches>> /\ UnchangedNode
      /\ \/ /\ rec.fresh /\ writeActivity(e, finalized)
            /\ rec' = pass /\ queue' = queue /\ timer' = timer
         \/ Failed /\ UnchangedActivity
  BY Zenon DEF AddFinalizer, Continue
<1>2. /\ rec.fresh /\ writeActivity(e, finalized)
      /\ rec' = pass /\ queue' = queue /\ timer' = timer
  BY <1>1
<1>3. /\ e \in Enrollments /\ act[e] = rec.obj /\ rec.obj.phase = "live"
      /\ rec.obj.nodeName \in Nodes /\ rec.obj \in Object /\ rec \in Pass
  BY <1>1, <1>2, PassFields DEF IInv, PassKnows, TypeOK
<1>4. /\ finalized \in Object /\ finalized.phase = "live" /\ finalized.finalizer
      /\ finalized.nodeName = rec.obj.nodeName
  <2>1. finalized \in Object
    BY <1>3, ObjectSet
  <2> QED
    BY <1>3, <2>1 DEF Object
<1>5. Allowed(e, finalized)
  BY <1>3, <1>4 DEF Allowed
<1> HIDE DEF finalized
<1>6. /\ pass \in Pass /\ pass.pc = "hold" /\ pass.obj = finalized /\ pass.e = e
      /\ pass.mode = rec.mode /\ pass.badSchedule = rec.badSchedule
  <2>1. [rec EXCEPT !.pc = "hold"] \in Pass
    BY <1>3, PassSet DEF Steps
  <2>2. pass \in Pass
    BY <1>4, <2>1, PassSet
  <2> QED
    BY <1>3, <2>2 DEF Pass
<1> QED
  BY <1>1, <1>2, <1>3, <1>4, <1>5, <1>6 DEF caches, UnchangedNode, finalized

(***************************************************************************)
(* The finalizer patch preserves the invariant.                            *)
(***************************************************************************)
LEMMA AddFinalizerKeeps == IInv /\ AddFinalizer => IInv'
<1> SUFFICES ASSUME IInv, AddFinalizer PROVE IInv'
  OBVIOUS
<1> DEFINE finalized == [act[rec.e] EXCEPT !.finalizer = TRUE]
<1>1. CASE Failed /\ UnchangedActivity
  BY <1>1, FailedKeeps DEF AddFinalizer
<1>2. CASE ~(Failed /\ UnchangedActivity)
  <2>1. /\ rec.e \in Enrollments
        /\ writeActivity(rec.e, finalized) /\ Allowed(rec.e, finalized)
        /\ finalized.finalizer /\ finalized.nodeName = rec.obj.nodeName
        /\ UNCHANGED <<now, cact, cnode, node, nodeLag, nodeEvents, queue, timer>>
        /\ rec' \in Pass /\ rec'.pc = "hold" /\ rec'.obj = finalized /\ rec'.e = rec.e
    BY <1>2, AddFinalizerEffect
  <2>2. rec.pc = "addFinalizer" /\ rec.obj.nodeName \in Nodes
    BY DEF AddFinalizer, IInv, PassKnows
  <2> HIDE DEF finalized
  <2>3. Stores' /\ NodeCurrent'
    BY <2>1, WriteKeeps, SameNodes
  <2>4. /\ act' \in [Enrollments -> Object] /\ actLag' \subseteq Enrollments
        /\ actLag \subseteq actLag' /\ act'[rec.e] = finalized
        /\ \A f \in Enrollments :
               act'[f].phase = "deleting" => act[f].phase = "deleting" \/ f \in actLag'
    BY <2>1, WriteEffect DEF IInv, Allowed
  <2>5. TypeOK'
    BY <2>1, <2>4 DEF IInv, TypeOK
  <2>6. PassKnows'
    BY <2>1, <2>2, <2>4 DEF PassKnows, Finalizes, Enrolls, Setters, Held
  <2>7. Undeleted'
    BY <2>1, <2>2, <2>4, UndeletedKept DEF IInv, Finalizes
  <2> QED
    BY <2>3, <2>5, <2>6, <2>7 DEF IInv, Stores
<1> QED
  BY <1>1, <1>2

(***************************************************************************)
(* RemoveFinalizer takes away only what the cache shows as deleted.        *)
(***************************************************************************)
LEMMA RemoveFinalizerKeeps == IInv /\ RemoveFinalizer => IInv'
<1> SUFFICES ASSUME IInv, RemoveFinalizer PROVE IInv'
  OBVIOUS
<1>1. /\ rec.pc = "removeFinalizer" /\ UNCHANGED <<now, caches>> /\ UnchangedNode
      /\ \/ rec.fresh /\ writeActivity(rec.e, Absent) /\ Finished(0)
         \/ Failed /\ UnchangedActivity
  BY DEF RemoveFinalizer
<1>2. CASE Failed /\ UnchangedActivity
  BY <1>1, <1>2, FailedKeeps
<1>3. CASE rec.fresh /\ writeActivity(rec.e, Absent) /\ Finished(0)
  <2>1. /\ rec.e \in Enrollments /\ cact[rec.e].phase = "deleting"
    BY <1>1, <1>3 DEF IInv, PassKnows, Finalizes
  <2>2. Absent.phase = "absent" /\ Absent.finalizer = FALSE
    BY DEF Absent
  <2>3. Allowed(rec.e, Absent)
    BY <2>1, <2>2, AbsentType DEF Allowed
  <2>4. /\ rec' = NoPass /\ queue' = queue /\ timer' \in [Enrollments -> Nat]
    BY <1>3, FinishedEffect DEF IInv
  <2>5. /\ UNCHANGED <<now, cact, cnode>> /\ UNCHANGED <<node, cnode, nodeLag, nodeEvents>>
    BY <1>1 DEF caches, UnchangedNode
  <2>6. Stores' /\ NodeCurrent'
    BY <1>3, <2>1, <2>3, <2>5, WriteKeeps, SameNodes
  <2>7. /\ act' \in [Enrollments -> Object] /\ actLag' \subseteq Enrollments
        /\ actLag \subseteq actLag' /\ act'[rec.e] = Absent
        /\ \A f \in Enrollments : f # rec.e => act'[f] = act[f]
    BY <1>3, <2>1, <2>3, WriteEffect DEF IInv, Allowed
  <2>8. PassKnows' /\ rec' \in Pass
    BY <2>4, NoPassKnows
  <2>9. TypeOK'
    BY <2>4, <2>5, <2>7, <2>8 DEF IInv, TypeOK
  <2>10. Undeleted'
    BY <2>2, <2>4, <2>7 DEF IInv, Undeleted
  <2> QED
    BY <2>6, <2>8, <2>9, <2>10 DEF IInv, Stores
<1> QED
  BY <1>1, <1>2, <1>3

(***************************************************************************)
(* The merge patch of reconcileHold changes the two annotations and        *)
(* nothing else of the object, whatever the server's copy is.              *)
(***************************************************************************)
LEMMA HoldEffect ==
    ASSUME IInv, reconcileHold, ~(Failed /\ UnchangedActivity)
    PROVE  /\ rec.pc = "hold" /\ rec.e \in Enrollments
           /\ UNCHANGED <<now, cact, cnode, node, nodeLag, nodeEvents, queue, timer>>
           /\ rec' \in Pass /\ rec'.pc = "decide" /\ rec'.e = rec.e /\ rec'.at = now
           /\ rec'.mode = rec.mode /\ rec'.badSchedule = rec.badSchedule
           /\ \/ UNCHANGED <<act, actLag>> /\ rec'.obj = rec.obj
              \/ \E obj \in Object :
                    /\ writeActivity(rec.e, obj) /\ rec'.obj = obj
                    /\ obj.phase = act[rec.e].phase /\ obj.finalizer = act[rec.e].finalizer
                    /\ obj.nodeName = act[rec.e].nodeName /\ obj.a.spec = act[rec.e].a.spec
<1> DEFINE e == rec.e
           a == rec.obj.a
           after == reconciledHold(a, now)
           new == merged(act[e].a, a, after)
           patched == [act[e] EXCEPT !.a = new]
           pass == [[rec EXCEPT !.pc = "decide"] EXCEPT !.at = now]
<1>1. /\ rec.pc = "hold" /\ UNCHANGED <<now, caches>> /\ UnchangedNode
      /\ \/ rec' = pass /\ UNCHANGED <<queue, timer>> /\ UnchangedActivity
         \/ /\ writeActivity(e, patched) /\ UNCHANGED <<queue, timer>>
            /\ rec' = [pass EXCEPT !.obj = patched]
         \/ Failed /\ UnchangedActivity
  BY Zenon DEF reconcileHold, Continue
<1>2. /\ e \in Enrollments /\ rec \in Pass /\ rec.obj \in Object /\ a \in EnrollmentType
      /\ now \in Nat /\ act[e] \in Object
  BY <1>1, PassFields, ObjectFields DEF IInv, PassKnows, TypeOK
<1>3. /\ pass \in Pass /\ pass.pc = "decide" /\ pass.e = e /\ pass.at = now
      /\ pass.mode = rec.mode /\ pass.obj = rec.obj /\ pass.badSchedule = rec.badSchedule
  <2>1. [rec EXCEPT !.pc = "decide"] \in Pass
    BY <1>2, PassSet DEF Steps
  <2>2. pass \in Pass
    BY <1>2, <2>1, PassSet
  <2> QED
    BY <1>2, <2>2 DEF Pass
<1> HIDE DEF pass
<1>4. after \in EnrollmentType /\ after.spec = a.spec
  BY <1>2, HoldTyped DEF reconciledHold, EnrollmentType
<1> HIDE DEF after
<1>5. act[e].a \in EnrollmentType
  BY <1>2, ObjectFields
<1>6. new \in EnrollmentType /\ new.spec = act[e].a.spec
  <2>1. new \in EnrollmentType
    BY <1>2, <1>4, <1>5, MergedEnrollment
  <2>2. "spec" \in DOMAIN act[e].a
    BY <1>5 DEF EnrollmentType
  <2>3. new.spec = act[e].a.spec
    BY <1>4, <2>2 DEF merged
  <2> QED
    BY <2>1, <2>3
<1> HIDE DEF new
<1>7. /\ patched \in Object /\ patched.phase = act[e].phase
      /\ patched.finalizer = act[e].finalizer /\ patched.nodeName = act[e].nodeName
      /\ patched.a = new
  <2>1. patched \in Object
    BY <1>2, <1>6, ObjectSet
  <2> QED
    BY <1>2, <2>1 DEF Object
<1> HIDE DEF patched
<1>8. /\ [pass EXCEPT !.obj = patched] \in Pass
      /\ [pass EXCEPT !.obj = patched].pc = "decide"
      /\ [pass EXCEPT !.obj = patched].e = e /\ [pass EXCEPT !.obj = patched].at = now
      /\ [pass EXCEPT !.obj = patched].mode = rec.mode
      /\ [pass EXCEPT !.obj = patched].obj = patched
      /\ [pass EXCEPT !.obj = patched].badSchedule = rec.badSchedule
  <2>1. [pass EXCEPT !.obj = patched] \in Pass
    BY <1>3, <1>7, PassSet
  <2> QED
    BY <1>3, <2>1 DEF Pass
<1>9. /\ UNCHANGED <<now, cact, cnode, node, nodeLag, nodeEvents>>
  BY <1>1 DEF caches, UnchangedNode
<1>10. CASE rec' = pass /\ UNCHANGED <<queue, timer>> /\ UnchangedActivity
  BY <1>1, <1>2, <1>3, <1>9, <1>10 DEF UnchangedActivity
<1>11. CASE /\ writeActivity(e, patched) /\ UNCHANGED <<queue, timer>>
            /\ rec' = [pass EXCEPT !.obj = patched]
  BY <1>1, <1>2, <1>6, <1>7, <1>8, <1>9, <1>11
<1> QED
  BY <1>1, <1>10, <1>11

(***************************************************************************)
(* The hold patch preserves the invariant.                                 *)
(***************************************************************************)
LEMMA HoldKeeps == IInv /\ reconcileHold => IInv'
<1> SUFFICES ASSUME IInv, reconcileHold PROVE IInv'
  OBVIOUS
<1>1. CASE Failed /\ UnchangedActivity
  BY <1>1, FailedKeeps DEF reconcileHold
<1>2. CASE ~(Failed /\ UnchangedActivity)
  <2>1. /\ rec.pc = "hold" /\ rec.e \in Enrollments
        /\ UNCHANGED <<now, cact, cnode, node, nodeLag, nodeEvents, queue, timer>>
        /\ rec' \in Pass /\ rec'.pc = "decide" /\ rec'.e = rec.e /\ rec'.mode = rec.mode
        /\ \/ UNCHANGED <<act, actLag>> /\ rec'.obj = rec.obj
           \/ \E obj \in Object :
                 /\ writeActivity(rec.e, obj) /\ rec'.obj = obj
                 /\ obj.phase = act[rec.e].phase /\ obj.finalizer = act[rec.e].finalizer
                 /\ obj.nodeName = act[rec.e].nodeName
    BY <1>2, HoldEffect
  <2>2. NodeCurrent'
    BY <2>1, SameNodes
  <2>3. Enrolls => rec.obj.nodeName \in Nodes /\ Held(rec.e, rec.obj)
    BY DEF IInv, PassKnows
  <2>4. CASE UNCHANGED <<act, actLag>> /\ rec'.obj = rec.obj
    <3>1. Stores'
      BY <2>1, <2>4, SameStores
    <3>2. TypeOK'
      BY <2>1, <2>4 DEF IInv, TypeOK
    <3>3. PassKnows'
      BY <2>1, <2>3, <2>4 DEF PassKnows, Finalizes, Enrolls, Held
    <3>4. Undeleted'
      BY <2>1, <2>4, UndeletedKept DEF IInv, Finalizes
    <3> QED
      BY <2>2, <3>1, <3>2, <3>3, <3>4 DEF IInv, Stores
  <2>5. ASSUME NEW obj \in Object, writeActivity(rec.e, obj), rec'.obj = obj,
               obj.phase = act[rec.e].phase, obj.finalizer = act[rec.e].finalizer,
               obj.nodeName = act[rec.e].nodeName
        PROVE  IInv'
    <3>1. Allowed(rec.e, obj)
      BY <2>1, <2>5 DEF Allowed, IInv, WellFormed, CacheHeld, Held
    <3>2. Stores'
      BY <2>1, <2>5, <3>1, WriteKeeps
    <3>3. /\ act' \in [Enrollments -> Object] /\ actLag' \subseteq Enrollments
          /\ actLag \subseteq actLag' /\ act'[rec.e] = obj
          /\ \A f \in Enrollments :
                 act'[f].phase = "deleting" => act[f].phase = "deleting" \/ f \in actLag'
      BY <2>1, <2>5, WriteEffect DEF IInv
    <3>4. TypeOK'
      BY <2>1, <3>3 DEF IInv, TypeOK
    <3>5. PassKnows'
      BY <2>1, <2>3, <2>5, <3>3 DEF PassKnows, Finalizes, Enrolls, Held
    <3>6. Undeleted'
      BY <2>1, <3>3, UndeletedKept DEF IInv, Finalizes
    <3> QED
      BY <2>2, <3>2, <3>4, <3>5, <3>6 DEF IInv, Stores
  <2> QED
    BY <2>1, <2>4, <2>5
<1> QED
  BY <1>1, <1>2
----------------------------------------------------------------------------
(***************************************************************************)
(* Decide changes the pass alone. It wants what the cached enrollments ask *)
(* for at the time the pass decides for, and skips the Update when the     *)
(* cached Node has it.                                                     *)
(***************************************************************************)
LEMMA DecideEffect ==
    ASSUME IInv, Decide
    PROVE  LET n == rec.obj.nodeName
               items == itemsOf(cact, n)
           IN  /\ rec.pc = "decide" /\ rec.e \in Enrollments /\ n \in Nodes
               /\ UNCHANGED <<now, act, cact, actLag, queue, timer>>
               /\ UNCHANGED <<node, cnode, nodeLag, nodeEvents>>
               /\ rec' \in Pass /\ rec'.e = rec.e /\ rec'.obj = rec.obj /\ rec'.at = rec.at
               /\ rec'.pc \in {"update", "status1"} /\ rec'.mode \in {"normal", "missing"}
               /\ rec'.mode = "normal" <=> cnode[n].exists
               /\ rec'.pc = "update" => cnode[n].exists
               /\ rec'.badSchedule = rec.badSchedule
               /\ rec'.protection = protectionForNode(items, rec.at)
               /\ rec'.requeue = protectionRequeue(items, rec.at)
               /\ rec'.nodeFresh => cnode[n].exists /\ n \notin nodeLag
               /\ cnode[n].exists =>
                      /\ rec'.owned = desiredFields(items, rec.at)
                      /\ rec'.pc = "status1" => cnode[n].owned = rec'.owned
<1> DEFINE n == rec.obj.nodeName
           items == itemsOf(cact, n)
           found == cnode[n].exists
           p == protectionForNode(items, rec.at)
           owned == IF found THEN ownedFields(p.taint, policyAdmitted(p, rec.at)) ELSE rec.owned
           pc == IF found /\ nodeChanged(cnode[n].owned, owned) THEN "update" ELSE "status1"
           mode == IF found THEN "normal" ELSE "missing"
           known == found /\ n \notin nodeLag
           requeue == protectionRequeue(items, rec.at)
           r1 == [rec EXCEPT !.pc = pc]
           r2 == [r1 EXCEPT !.mode = mode]
           r3 == [r2 EXCEPT !.nodeFresh = known]
           r4 == [r3 EXCEPT !.protection = p]
           r5 == [r4 EXCEPT !.owned = owned]
           r6 == [r5 EXCEPT !.requeue = requeue]
<1>1. /\ rec.pc = "decide" /\ UNCHANGED <<now, caches>> /\ UnchangedActivity /\ UnchangedNode
      /\ rec' = r6 /\ UNCHANGED <<queue, timer>>
  BY Zenon DEF Decide, Continue
<1>2. /\ rec.e \in Enrollments /\ n \in Nodes
  BY <1>1 DEF IInv, PassKnows, Enrolls
<1>3. rec \in Pass /\ rec.at \in Nat /\ rec.owned \in OwnedFields
  BY PassFields DEF IInv, TypeOK
<1>4. /\ DOMAIN items \in SUBSET Enrollments /\ DOMAIN items \in SUBSET (Nat \ {0})
      /\ items \in [DOMAIN items -> EnrollmentType]
  BY ItemsType DEF IInv, TypeOK
<1>5. p \in ProtectionType /\ requeue \in Nat
  BY <1>3, <1>4, ProtectionTyped, RequeueType
<1>6. p.taint \in Taints
  BY <1>5 DEF ProtectionType
<1>7. found => owned = desiredFields(items, rec.at)
  BY DEF desiredFields
<1>8. found /\ pc = "status1" => cnode[n].owned = owned
  BY DEF nodeChanged
<1>9. /\ pc \in {"update", "status1"} /\ mode \in {"normal", "missing"}
      /\ mode = "normal" <=> found
      /\ pc = "update" => found
  OBVIOUS
<1>10. found \in BOOLEAN
  BY <1>2 DEF IInv, TypeOK, NodeObject
<1> HIDE DEF p
<1>11. owned \in OwnedFields
  BY <1>3, <1>6, OwnedType
<1>12. known \in BOOLEAN
  BY <1>10
<1> HIDE DEF items, found, owned, pc, mode, known, requeue
<1>13. /\ r6 \in Pass /\ r6.e = rec.e /\ r6.obj = rec.obj /\ r6.at = rec.at /\ r6.pc = pc
       /\ r6.mode = mode /\ r6.owned = owned /\ r6.requeue = requeue /\ r6.nodeFresh = known
       /\ r6.protection = p /\ r6.badSchedule = rec.badSchedule
  <2>1. r1 \in Pass
    BY <1>3, <1>9, PassSet DEF Steps
  <2>2. r2 \in Pass
    BY <1>9, <2>1, PassSet
  <2>3. r3 \in Pass
    BY <1>12, <2>2, PassSet
  <2>4. r4 \in Pass
    BY <1>5, <2>3, PassSet
  <2>5. r5 \in Pass
    BY <1>11, <2>4, PassSet
  <2>6. requeue \in Int
    BY <1>5
  <2>7. r6 \in Pass
    BY <2>5, <2>6, PassSet
  <2> QED
    BY <1>3, <2>7 DEF Pass
<1> HIDE DEF r6
<1> QED
  BY <1>1, <1>2, <1>7, <1>8, <1>9, <1>13
     DEF caches, UnchangedActivity, UnchangedNode, items, found, requeue, known, p

(***************************************************************************)
(* The decision preserves the invariant.                                   *)
(***************************************************************************)
LEMMA DecideKeeps == IInv /\ Decide => IInv'
<1> SUFFICES ASSUME IInv, Decide PROVE IInv'
  OBVIOUS
<1>1. /\ rec.pc = "decide" /\ rec.e \in Enrollments
      /\ UNCHANGED <<now, act, cact, actLag, queue, timer>>
      /\ UNCHANGED <<node, cnode, nodeLag, nodeEvents>>
      /\ rec' \in Pass /\ rec'.e = rec.e /\ rec'.obj = rec.obj
      /\ rec'.pc \in {"update", "status1"}
  BY DecideEffect
<1>2. Stores' /\ NodeCurrent'
  BY <1>1, SameStores, SameNodes
<1>3. TypeOK'
  BY <1>1 DEF IInv, TypeOK
<1>4. PassKnows'
  <2>1. rec.obj.nodeName \in Nodes /\ Held(rec.e, rec.obj)
    BY <1>1 DEF IInv, PassKnows, Enrolls
  <2> QED
    BY <1>1, <2>1 DEF PassKnows, Finalizes, Held
<1>5. Undeleted'
  BY <1>1, UndeletedKept DEF IInv, Finalizes
<1> QED
  BY <1>2, <1>3, <1>4, <1>5 DEF IInv, Stores

(***************************************************************************)
(* An Update that reaches the server replaces the owned fields.            *)
(***************************************************************************)
LEMMA UpdateEffect ==
    ASSUME IInv, UpdateNode, ~(Failed /\ UnchangedNode)
    PROVE  LET n == rec.obj.nodeName
               obj == [node[n] EXCEPT !.owned = rec.owned]
           IN  /\ rec.pc \in {"update", "release"} /\ rec.e \in Enrollments /\ n \in Nodes
               /\ rec.nodeFresh
               /\ UNCHANGED <<now, act, cact, actLag, cnode, queue, timer>>
               /\ obj \in NodeObject /\ obj.owned = rec.owned /\ obj.exists = node[n].exists
               /\ writeNode(n, obj)
               /\ rec' \in Pass /\ rec'.e = rec.e /\ rec'.obj = rec.obj /\ rec'.at = rec.at
               /\ rec'.mode = rec.mode /\ rec'.requeue = rec.requeue /\ rec'.fresh = rec.fresh
               /\ rec'.badSchedule = rec.badSchedule /\ rec'.protection = rec.protection
               /\ rec'.owned = rec.owned
               /\ rec'.pc = IF rec.pc = "update" THEN "status1" ELSE "removeFinalizer"
<1> DEFINE n == rec.obj.nodeName
           obj == [node[n] EXCEPT !.owned = rec.owned]
           pc == IF rec.pc = "update" THEN "status1" ELSE "removeFinalizer"
           pass == [rec EXCEPT !.pc = pc]
<1>1. /\ rec.pc \in {"update", "release"} /\ UNCHANGED <<now, caches>> /\ UnchangedActivity
      /\ rec.nodeFresh /\ writeNode(n, obj) /\ rec' = pass /\ UNCHANGED <<queue, timer>>
  BY Zenon DEF UpdateNode, Continue
<1>2. rec.e \in Enrollments /\ n \in Nodes
  BY <1>1 DEF IInv, PassKnows, Enrolls, Finalizes
<1>3. rec \in Pass /\ rec.owned \in OwnedFields /\ node[n] \in NodeObject
  BY <1>2, PassFields DEF IInv, TypeOK
<1>4. obj \in NodeObject /\ obj.owned = rec.owned /\ obj.exists = node[n].exists
  BY <1>3 DEF NodeObject
<1>5. pass \in Pass
  BY <1>3, PassSet DEF Steps
<1>6. /\ pass.e = rec.e /\ pass.obj = rec.obj /\ pass.at = rec.at /\ pass.mode = rec.mode
      /\ pass.requeue = rec.requeue /\ pass.fresh = rec.fresh /\ pass.pc = pc
      /\ pass.badSchedule = rec.badSchedule /\ pass.protection = rec.protection
      /\ pass.owned = rec.owned
  BY <1>3 DEF Pass
<1> HIDE DEF pass, obj
<1> QED
  BY <1>1, <1>2, <1>4, <1>5, <1>6 DEF caches, UnchangedActivity, obj

(***************************************************************************)
(* The Update of the Node preserves the invariant.                         *)
(***************************************************************************)
LEMMA UpdateKeeps == IInv /\ UpdateNode => IInv'
<1> SUFFICES ASSUME IInv, UpdateNode PROVE IInv'
  OBVIOUS
<1>1. CASE Failed /\ UnchangedNode
  BY <1>1, FailedKeeps DEF UpdateNode
<1>2. CASE ~(Failed /\ UnchangedNode)
  <2> DEFINE n == rec.obj.nodeName
             obj == [node[n] EXCEPT !.owned = rec.owned]
  <2>1. /\ rec.pc \in {"update", "release"} /\ rec.e \in Enrollments /\ n \in Nodes
        /\ UNCHANGED <<now, act, cact, actLag, cnode, queue, timer>>
        /\ obj \in NodeObject /\ writeNode(n, obj)
        /\ rec' \in Pass /\ rec'.e = rec.e /\ rec'.obj = rec.obj /\ rec'.mode = rec.mode
        /\ rec'.fresh = rec.fresh
        /\ rec'.pc = IF rec.pc = "update" THEN "status1" ELSE "removeFinalizer"
    BY <1>2, UpdateEffect
  <2> HIDE DEF n, obj
  <2>2. Stores'
    BY <2>1, SameStores
  <2>3. /\ NodeCurrent' /\ node' \in [Nodes -> NodeObject]
        /\ nodeEvents' \subseteq nodeLag' /\ nodeLag' \subseteq Nodes
    BY <2>1, WriteNodeKeeps DEF IInv
  <2>4. TypeOK'
    BY <2>1, <2>3 DEF IInv, TypeOK
  <2>5. PassKnows'
    <3>1. CASE rec.pc = "update"
      <4>1. rec.obj.nodeName \in Nodes /\ Held(rec.e, rec.obj)
        BY <3>1 DEF IInv, PassKnows, Enrolls
      <4> QED
        BY <2>1, <3>1, <4>1 DEF PassKnows, Finalizes, Held
    <3>2. CASE rec.pc = "release"
      <4>1. /\ rec.obj.phase = "deleting" /\ rec.obj.nodeName \in Nodes
            /\ rec.fresh => act[rec.e] = rec.obj /\ cact[rec.e].phase = "deleting"
        BY <3>2 DEF IInv, PassKnows, Finalizes
      <4> QED
        BY <2>1, <3>2, <4>1 DEF PassKnows, Enrolls, Setters
    <3> QED
      BY <2>1, <3>1, <3>2
  <2>6. Undeleted'
    BY <2>1, UndeletedKept DEF IInv, Finalizes
  <2> QED
    BY <2>2, <2>3, <2>4, <2>5, <2>6 DEF IInv, Stores
<1> QED
  BY <1>1, <1>2
----------------------------------------------------------------------------
(***************************************************************************)
(* A setter patches the status of the object and nothing else of it; the   *)
(* last one ends the pass with its requeue.                                *)
(***************************************************************************)
LEMMA SetStatusEffect ==
    ASSUME IInv, SetStatus, ~(Failed /\ UnchangedActivity)
    PROVE  /\ rec.pc \in Setters /\ rec.e \in Enrollments /\ rec.requeue \in Int
           /\ UNCHANGED <<now, cact, cnode>> /\ UNCHANGED <<node, cnode, nodeLag, nodeEvents>>
           /\ \E obj \in Object :
                 /\ \/ /\ UNCHANGED <<act, actLag>> /\ obj = rec.obj
                       /\ wantedStatus(rec.pc, obj.st) = obj.st
                    \/ /\ writeActivity(rec.e, obj) /\ obj.phase = act[rec.e].phase
                       /\ obj.finalizer = act[rec.e].finalizer
                       /\ obj.nodeName = act[rec.e].nodeName /\ obj.a = act[rec.e].a
                       /\ act[rec.e] = rec.obj => obj # act[rec.e]
                 /\ \/ rec.pc = "status5" /\ Finished(rec.requeue)
                    \/ /\ UNCHANGED <<queue, timer>> /\ rec' \in Pass /\ rec'.pc \in Setters
                       /\ rec.pc # "status5" /\ rec'.pc = nextStep[rec.pc]
                       /\ rec'.obj = obj /\ rec'.e = rec.e /\ rec'.mode = rec.mode
                       /\ rec'.at = rec.at /\ rec'.requeue = rec.requeue
                       /\ rec'.owned = rec.owned /\ rec'.protection = rec.protection
                       /\ rec'.badSchedule = rec.badSchedule
<1> DEFINE e == rec.e
           before == rec.obj.st
           after == wantedStatus(rec.pc, before)
           new == merged(act[e].st, before, after)
           patched == [act[e] EXCEPT !.st = new]
           Advance(obj) == IF nextStep[rec.pc] = "done" THEN Finished(rec.requeue)
                           ELSE Continue([rec EXCEPT !.pc = nextStep[rec.pc], !.obj = obj])
<1>1. /\ rec.pc \in DOMAIN nextStep /\ UNCHANGED <<now, caches>> /\ UnchangedNode
      /\ \/ after = before /\ UnchangedActivity /\ Advance(rec.obj)
         \/ after # before /\ writeActivity(e, patched) /\ Advance(patched)
         \/ Failed /\ UnchangedActivity
  BY Zenon DEF SetStatus
<1>2. rec.pc \in Setters
  BY <1>1 DEF nextStep, Setters
<1>3. rec.e \in Enrollments /\ rec \in Pass /\ rec.requeue \in Int /\ rec.obj \in Object
  BY <1>2, PassFields DEF IInv, PassKnows, TypeOK, Setters
<1>4. act[e] \in Object /\ act[e].st \in Status /\ before \in Status
  BY <1>3, ObjectFields DEF IInv, TypeOK
<1>5. after \in Status
  BY <1>2, <1>4, WantedType DEF IInv, TypeOK
<1> HIDE DEF after
<1>6. new \in Status /\ (act[e] = rec.obj => new = after)
  <2>1. \A f \in DOMAIN before : after[f] # before[f] \/ after[f] = before[f]
    OBVIOUS
  <2>2. DOMAIN after = DOMAIN before
    BY <1>4, <1>5 DEF Status
  <2>3. act[e] = rec.obj => new = after
    BY <1>4, <1>5, <2>2 DEF merged, Status
  <2> QED
    BY <1>4, <1>5, <2>3, MergedStatus
<1> HIDE DEF new
<1>7. /\ patched \in Object /\ patched.phase = act[e].phase
      /\ patched.finalizer = act[e].finalizer /\ patched.nodeName = act[e].nodeName
      /\ patched.a = act[e].a /\ patched.st = new
  <2>1. patched \in Object
    BY <1>4, <1>6, ObjectSet
  <2> QED
    BY <1>4, <2>1 DEF Object
<1> HIDE DEF patched
<1>8. ASSUME NEW obj \in Object, Advance(obj)
      PROVE  \/ rec.pc = "status5" /\ Finished(rec.requeue)
             \/ /\ UNCHANGED <<queue, timer>> /\ rec' \in Pass /\ rec'.pc \in Setters
                /\ rec.pc # "status5" /\ rec'.pc = nextStep[rec.pc]
                /\ rec'.obj = obj /\ rec'.e = rec.e /\ rec'.mode = rec.mode
                /\ rec'.at = rec.at /\ rec'.requeue = rec.requeue
                /\ rec'.owned = rec.owned /\ rec'.protection = rec.protection
                /\ rec'.badSchedule = rec.badSchedule
  <2>1. CASE nextStep[rec.pc] = "done"
    BY <1>2, <1>8, <2>1 DEF nextStep, Setters
  <2>2. CASE nextStep[rec.pc] # "done"
    <3> DEFINE pc == nextStep[rec.pc]
               pass == [[rec EXCEPT !.pc = pc] EXCEPT !.obj = obj]
    <3>1. rec' = pass /\ UNCHANGED <<queue, timer>>
      BY <1>8, <2>2, Zenon DEF Continue
    <3>2. pc \in Setters /\ rec.pc # "status5"
      BY <1>2, <2>2 DEF nextStep, Setters
    <3> HIDE DEF pc
    <3>3. [rec EXCEPT !.pc = pc] \in Pass
      BY <1>3, <3>2, PassSet DEF Steps, Setters
    <3>4. pass \in Pass
      BY <1>8, <3>3, PassSet
    <3>5. /\ pass.pc = pc /\ pass.obj = obj /\ pass.e = rec.e /\ pass.mode = rec.mode
          /\ pass.at = rec.at /\ pass.requeue = rec.requeue /\ pass.owned = rec.owned
          /\ pass.protection = rec.protection /\ pass.badSchedule = rec.badSchedule
      BY <1>3, <3>4 DEF Pass
    <3> HIDE DEF pass
    <3> QED
      BY <3>1, <3>2, <3>4, <3>5 DEF pc
  <2> QED
    BY <2>1, <2>2
<1>9. UNCHANGED <<now, cact, cnode>> /\ UNCHANGED <<node, cnode, nodeLag, nodeEvents>>
  BY <1>1 DEF caches, UnchangedNode
<1> HIDE DEF Advance
<1>10. CASE after = before /\ UnchangedActivity /\ Advance(rec.obj)
  BY <1>2, <1>3, <1>8, <1>9, <1>10 DEF UnchangedActivity, after
<1>11. CASE after # before /\ writeActivity(e, patched) /\ Advance(patched)
  BY <1>2, <1>3, <1>6, <1>7, <1>8, <1>9, <1>11
<1> QED
  BY <1>1, <1>10, <1>11

(***************************************************************************)
(* The status setters preserve the invariant.                              *)
(***************************************************************************)
LEMMA SetStatusKeeps == IInv /\ SetStatus => IInv'
<1> SUFFICES ASSUME IInv, SetStatus PROVE IInv'
  OBVIOUS
<1>1. CASE Failed /\ UnchangedActivity
  BY <1>1, FailedKeeps DEF SetStatus, nextStep
<1>2. CASE ~(Failed /\ UnchangedActivity)
  <2>1. /\ rec.pc \in Setters /\ rec.e \in Enrollments /\ rec.requeue \in Int
        /\ UNCHANGED <<now, cact, cnode>> /\ UNCHANGED <<node, cnode, nodeLag, nodeEvents>>
        /\ \E obj \in Object :
              /\ \/ UNCHANGED <<act, actLag>> /\ obj = rec.obj
                 \/ /\ writeActivity(rec.e, obj) /\ obj.phase = act[rec.e].phase
                    /\ obj.finalizer = act[rec.e].finalizer
                    /\ obj.nodeName = act[rec.e].nodeName
              /\ \/ Finished(rec.requeue)
                 \/ /\ UNCHANGED <<queue, timer>> /\ rec' \in Pass /\ rec'.pc \in Setters
                    /\ rec'.obj = obj /\ rec'.e = rec.e /\ rec'.mode = rec.mode
    BY <1>2, SetStatusEffect
  <2>2. PICK obj \in Object :
              /\ \/ UNCHANGED <<act, actLag>> /\ obj = rec.obj
                 \/ /\ writeActivity(rec.e, obj) /\ obj.phase = act[rec.e].phase
                    /\ obj.finalizer = act[rec.e].finalizer
                    /\ obj.nodeName = act[rec.e].nodeName
              /\ \/ Finished(rec.requeue)
                 \/ /\ UNCHANGED <<queue, timer>> /\ rec' \in Pass /\ rec'.pc \in Setters
                    /\ rec'.obj = obj /\ rec'.e = rec.e /\ rec'.mode = rec.mode
    BY <2>1
  <2>3. /\ queue' = queue /\ timer' \in [Enrollments -> Nat] /\ rec' \in Pass
        /\ rec' = NoPass \/ (/\ rec'.pc \in Setters /\ rec'.obj = obj /\ rec'.e = rec.e
                             /\ rec'.mode = rec.mode)
    <3>1. CASE Finished(rec.requeue)
      BY <2>1, <3>1, FinishedEffect, NoPassType DEF IInv
    <3>2. CASE ~Finished(rec.requeue)
      BY <2>2, <3>2 DEF IInv, TypeOK
    <3> QED
      BY <3>1, <3>2
  <2>4. NodeCurrent'
    BY <2>1, SameNodes
  <2>5. /\ Stores' /\ act' \in [Enrollments -> Object] /\ actLag' \subseteq Enrollments
        /\ actLag \subseteq actLag' /\ (act'[rec.e] = obj \/ (obj = rec.obj /\ act' = act))
        /\ act'[rec.e].finalizer = act[rec.e].finalizer
        /\ act'[rec.e].nodeName = act[rec.e].nodeName
        /\ \A f \in Enrollments :
               act'[f].phase = "deleting" => act[f].phase = "deleting" \/ f \in actLag'
    <3>1. CASE UNCHANGED <<act, actLag>> /\ obj = rec.obj
      BY <2>1, <3>1, SameStores DEF IInv
    <3>2. CASE /\ writeActivity(rec.e, obj) /\ obj.phase = act[rec.e].phase
               /\ obj.finalizer = act[rec.e].finalizer
               /\ obj.nodeName = act[rec.e].nodeName
      <4>1. Allowed(rec.e, obj)
        BY <2>1, <3>2 DEF Allowed, IInv, WellFormed, CacheHeld, Held
      <4>2. Stores'
        BY <2>1, <3>2, <4>1, WriteKeeps
      <4>3. /\ act' \in [Enrollments -> Object] /\ actLag' \subseteq Enrollments
            /\ actLag \subseteq actLag' /\ act'[rec.e] = obj
            /\ \A f \in Enrollments :
                   act'[f].phase = "deleting" => act[f].phase = "deleting" \/ f \in actLag'
        BY <2>1, <3>2, WriteEffect DEF IInv
      <4>4. /\ act'[rec.e].finalizer = act[rec.e].finalizer
            /\ act'[rec.e].nodeName = act[rec.e].nodeName
        BY <3>2, <4>3
      <4> QED
        BY <4>2, <4>3, <4>4
    <3> QED
      BY <2>2, <3>1, <3>2
  <2>6. TypeOK'
    BY <2>1, <2>3, <2>5 DEF IInv, TypeOK
  <2>7. PassKnows'
    <3>1. CASE rec' = NoPass
      BY <3>1, NoPassKnows
    <3>2. CASE rec' # NoPass
      <4>1. rec'.pc \in Setters /\ rec'.obj = obj /\ rec'.e = rec.e /\ rec'.mode = rec.mode
        BY <2>3, <3>2
      <4>2. rec.mode # "blank" => rec.obj.nodeName \in Nodes /\ Held(rec.e, rec.obj)
        BY <2>1 DEF IInv, PassKnows, Enrolls
      <4>3. rec.mode # "blank" => obj.nodeName = rec.obj.nodeName
        BY <2>2, <4>2 DEF Held
      <4> QED
        BY <2>1, <2>5, <4>1, <4>2, <4>3 DEF PassKnows, Finalizes, Enrolls, Held, Setters
    <3> QED
      BY <3>1, <3>2
  <2>8. Undeleted'
    BY <2>1, <2>3, <2>5, UndeletedKept DEF IInv, Finalizes, Setters
  <2> QED
    BY <2>4, <2>5, <2>6, <2>7, <2>8 DEF IInv, Stores
<1> QED
  BY <1>1, <1>2

(***************************************************************************)
(* A failed call preserves the invariant.                                  *)
(***************************************************************************)
LEMMA CallFailsKeeps == IInv /\ CallFails => IInv'
  BY FailedKeeps DEF CallFails
----------------------------------------------------------------------------
(***************************************************************************)
(* The deliveries of the informers and the work queue.                     *)
(***************************************************************************)
LEMMA SyncActivitiesKeeps == IInv /\ SyncActivities => IInv'
<1> SUFFICES ASSUME IInv, SyncActivities PROVE IInv'
  OBVIOUS
<1>1. /\ cact' = act /\ actLag' = {} /\ act' = act /\ rec' = rec /\ now' = now
      /\ timer' = timer /\ UNCHANGED <<node, cnode, nodeLag, nodeEvents>>
      /\ queue \subseteq queue' /\ actLag \subseteq queue'
  BY DEF SyncActivities
<1>2. queue' \subseteq Enrollments
  BY DEF SyncActivities, enrolledOn, IInv, TypeOK
<1>3. NodeCurrent'
  BY <1>1, SameNodes
<1>4. Stores'
  BY <1>1 DEF IInv, Stores, WellFormed, ActCurrent, CacheHeld, Held
<1>5. TypeOK'
  BY <1>1, <1>2 DEF IInv, TypeOK
<1>6. PassKnows'
  BY <1>1 DEF IInv, PassKnows, Finalizes, Enrolls, Held
<1>7. Undeleted'
  BY <1>1 DEF IInv, Undeleted, Finalizes
<1> QED
  BY <1>3, <1>4, <1>5, <1>6, <1>7 DEF IInv, Stores

(***************************************************************************)
(* What a step keeps that leaves the NodeActivities, their cache and the   *)
(* pass alone and loses no request.                                        *)
(***************************************************************************)
LEMMA OthersKeep ==
    ASSUME IInv, UNCHANGED <<act, cact, actLag>>, rec' = rec, queue \subseteq queue',
           NodeCurrent', TypeOK'
    PROVE  IInv'
<1>1. Stores'
  BY SameStores
<1>2. PassKnows' /\ Undeleted'
  BY UndeletedKept DEF IInv, PassKnows, Finalizes, Enrolls, Held
<1> QED
  BY <1>1, <1>2 DEF IInv, Stores

(***************************************************************************)
(* The delivery of Node events preserves the invariant.                    *)
(***************************************************************************)
LEMMA SyncNodesKeeps == IInv /\ SyncNodes => IInv'
<1> SUFFICES ASSUME IInv, SyncNodes PROVE IInv'
  OBVIOUS
<1>1. /\ UNCHANGED <<act, cact, actLag>> /\ rec' = rec /\ now' = now /\ timer' = timer
      /\ cnode' = node /\ node' = node /\ nodeLag' = {} /\ nodeEvents' = {}
      /\ queue \subseteq queue'
  BY DEF SyncNodes
<1>2. queue' \subseteq Enrollments
  BY DEF SyncNodes, enrolledOn, IInv, TypeOK
<1>3. TypeOK'
  BY <1>1, <1>2 DEF IInv, TypeOK
<1>4. NodeCurrent'
  BY <1>1 DEF NodeCurrent
<1> QED
  BY <1>1, <1>3, <1>4, OthersKeep

(***************************************************************************)
(* A delayed requeue that falls due preserves the invariant.               *)
(***************************************************************************)
LEMMA FireTimerKeeps ==
    ASSUME IInv, NEW e \in Enrollments, FireTimer(e)
    PROVE  IInv'
<1>1. /\ UNCHANGED <<act, cact, actLag>> /\ rec' = rec /\ now' = now
      /\ UNCHANGED <<node, cnode, nodeLag, nodeEvents>> /\ queue' = queue \cup {e}
      /\ timer' = [timer EXCEPT ![e] = 0]
  BY DEF FireTimer, api, caches
<1>2. TypeOK'
  BY <1>1 DEF IInv, TypeOK
<1> QED
  BY <1>1, <1>2, OthersKeep, SameNodes

(***************************************************************************)
(* So does the clock.                                                      *)
(***************************************************************************)
LEMMA TickKeeps == IInv /\ Tick => IInv'
<1> SUFFICES ASSUME IInv, Tick PROVE IInv'
  OBVIOUS
<1>1. /\ UNCHANGED <<act, cact, actLag>> /\ rec' = rec /\ now' = now + 1
      /\ UNCHANGED <<node, cnode, nodeLag, nodeEvents>> /\ queue' = queue /\ timer' = timer
  BY DEF Tick, api, caches
<1>2. TypeOK'
  BY <1>1 DEF IInv, TypeOK
<1> QED
  BY <1>1, <1>2, OthersKeep, SameNodes

(***************************************************************************)
(* A new process reads everything afresh.                                  *)
(***************************************************************************)
LEMMA RestartKeeps == IInv /\ Restart => IInv'
<1> SUFFICES ASSUME IInv, Restart PROVE IInv'
  OBVIOUS
<1>1. /\ rec' = NoPass /\ timer' = [e \in Enrollments |-> 0] /\ cact' = act /\ cnode' = node
      /\ actLag' = {} /\ nodeLag' = {} /\ nodeEvents' = {} /\ now' = now
      /\ queue' = {e \in Enrollments : act[e].phase # "absent"} /\ act' = act /\ node' = node
  BY DEF Restart, api
<1>2. PassKnows' /\ rec' \in Pass
  BY <1>1, NoPassKnows
<1>3. TypeOK'
  BY <1>1, <1>2 DEF IInv, TypeOK
<1>4. Stores' /\ NodeCurrent'
  BY <1>1 DEF IInv, Stores, WellFormed, ActCurrent, CacheHeld, Held, NodeCurrent
<1>5. Undeleted'
  BY <1>1 DEF Undeleted
<1> QED
  BY <1>2, <1>3, <1>4, <1>5 DEF IInv, Stores

----------------------------------------------------------------------------
(***************************************************************************)
(* What others write. Nobody but the controller touches a finalizer, and   *)
(* spec.nodeName of an object is immutable.                                *)
(***************************************************************************)
LEMMA UserWriteKeeps ==
    ASSUME IInv, NEW e \in Enrollments, NEW obj \in Object, UserWrite(e, obj),
           obj.finalizer = act[e].finalizer,
           obj.finalizer => obj.phase # "absent" /\ obj.nodeName = act[e].nodeName,
           obj.phase = "deleting" => obj.finalizer
    PROVE  IInv'
<1>1. /\ writeActivity(e, obj) /\ UNCHANGED <<now, cact, cnode, queue, timer>>
      /\ UNCHANGED <<node, cnode, nodeLag, nodeEvents>>
      /\ rec' = [rec EXCEPT !.fresh = rec.fresh /\ (rec.e # e \/ obj = act[e])]
  BY DEF UserWrite, caches, UnchangedNode
<1>2. /\ rec' \in Pass /\ rec'.pc = rec.pc /\ rec'.e = rec.e /\ rec'.obj = rec.obj
      /\ rec'.mode = rec.mode /\ (rec'.fresh => rec.fresh /\ (rec.e # e \/ obj = act[e]))
  <2> DEFINE fresh == rec.fresh /\ (rec.e # e \/ obj = act[e])
  <2>1. fresh \in BOOLEAN /\ (fresh => rec.fresh /\ (rec.e # e \/ obj = act[e]))
    OBVIOUS
  <2>2. rec' = [rec EXCEPT !.fresh = fresh]
    BY <1>1
  <2> HIDE DEF fresh
  <2>3. rec \in Pass
    BY DEF IInv, TypeOK
  <2>4. rec' \in Pass
    BY <2>1, <2>2, <2>3, PassSet
  <2> QED
    BY <2>1, <2>2, <2>3, <2>4 DEF Pass
<1>3. Allowed(e, obj)
  BY DEF Allowed, IInv, WellFormed, CacheHeld, Held
<1>4. Stores' /\ NodeCurrent'
  BY <1>1, <1>3, WriteKeeps, SameNodes
<1>5. /\ act' \in [Enrollments -> Object] /\ actLag' \subseteq Enrollments
      /\ actLag \subseteq actLag' /\ act'[e] = obj
      /\ \A f \in Enrollments : f # e => act'[f] = act[f]
      /\ \A f \in Enrollments :
             act'[f].phase = "deleting" => act[f].phase = "deleting" \/ f \in actLag'
  BY <1>1, WriteEffect DEF IInv
<1>6. TypeOK'
  BY <1>1, <1>2, <1>5 DEF IInv, TypeOK
<1>7. ASSUME rec.e \in Enrollments
      PROVE  /\ rec'.fresh => rec.fresh /\ act'[rec.e] = act[rec.e]
             /\ Held(rec.e, rec.obj) =>
                    act'[rec.e].finalizer /\ act'[rec.e].nodeName = rec.obj.nodeName
  <2>1. CASE rec.e = e
    BY <1>2, <1>5, <2>1 DEF Held
  <2>2. CASE rec.e # e
    BY <1>2, <1>5, <1>7, <2>2 DEF Held
  <2> QED
    BY <2>1, <2>2
<1>8. PassKnows'
  BY <1>1, <1>2, <1>7 DEF IInv, PassKnows, Finalizes, Enrolls, Setters, Held
<1>9. Undeleted'
  BY <1>1, <1>2, <1>5, UndeletedKept DEF IInv, Finalizes
<1> QED
  BY <1>4, <1>6, <1>8, <1>9 DEF IInv, Stores

(***************************************************************************)
(* A new object has no finalizer yet.                                      *)
(***************************************************************************)
LEMMA CreateKeeps ==
    ASSUME IInv, NEW e \in Enrollments, NEW n \in Nodes \cup {NoNode}, NEW s \in Schedules,
           Create(e, n, s)
    PROVE  IInv'
<1> DEFINE o1 == [Absent EXCEPT !.phase = "live"]
           o2 == [o1 EXCEPT !.nodeName = n]
           o3 == [o2 EXCEPT !.a = Unreported(s)]
<1>1. act[e].phase = "absent" /\ UserWrite(e, o3)
  BY Zenon DEF Create
<1>2. Unreported(s) \in EnrollmentType
  <2>1. s \in ScheduleType
    BY ControllerAssumption
  <2> QED
    BY <2>1 DEF Unreported, EnrollmentType, States, Activities
<1>3. o3 \in Object
  <2>1. o1 \in Object
    BY AbsentType, ObjectSet
  <2>2. o2 \in Object
    BY <2>1, ObjectSet
  <2> QED
    BY <1>2, <2>2, ObjectSet
<1>4. o3.phase = "live" /\ o3.finalizer = FALSE
  BY DEF Absent
<1>5. act[e].finalizer = FALSE
  BY <1>1, ObjectFields DEF IInv, WellFormed, TypeOK
<1> HIDE DEF o3
<1> QED
  BY <1>1, <1>3, <1>4, <1>5, UserWriteKeeps

(***************************************************************************)
(* A deletion keeps the finalizer or ends an object that has none.         *)
(***************************************************************************)
LEMMA DeleteKeeps ==
    ASSUME IInv, NEW e \in Enrollments, Delete(e)
    PROVE  IInv'
<1> DEFINE obj == [act[e] EXCEPT !.phase = "deleting"]
<1>1. act[e] \in Object /\ act[e].phase = "live" /\ act[e].finalizer \in BOOLEAN
  BY ObjectFields DEF Delete, IInv, TypeOK
<1>2. CASE act[e].finalizer
  <2>1. UserWrite(e, obj)
    BY <1>2 DEF Delete
  <2>2. /\ obj \in Object /\ obj.phase = "deleting" /\ obj.finalizer = act[e].finalizer
        /\ obj.nodeName = act[e].nodeName
    <3>1. obj \in Object
      BY <1>1, ObjectSet
    <3> QED
      BY <1>1, <3>1 DEF Object
  <2> HIDE DEF obj
  <2> QED
    BY <1>2, <2>1, <2>2, UserWriteKeeps
<1>3. CASE ~act[e].finalizer
  <2>1. UserWrite(e, Absent)
    BY <1>3 DEF Delete
  <2>2. Absent.phase = "absent" /\ Absent.finalizer = FALSE
    BY DEF Absent
  <2> QED
    BY <1>1, <1>3, <2>1, <2>2, AbsentType, UserWriteKeeps
<1> QED
  BY <1>2, <1>3

(***************************************************************************)
(* A write to what the policy reads.                                       *)
(***************************************************************************)
LEMMA EditKeeps ==
    ASSUME IInv, NEW e \in Enrollments, NEW a \in EnrollmentType, act[e].phase # "absent",
           UserWrite(e, [act[e] EXCEPT !.a = a])
    PROVE  IInv'
<1> DEFINE obj == [act[e] EXCEPT !.a = a]
<1>1. act[e] \in Object
  BY DEF IInv, TypeOK
<1>2. /\ obj \in Object /\ obj.phase = act[e].phase /\ obj.finalizer = act[e].finalizer
      /\ obj.nodeName = act[e].nodeName
  <2>1. obj \in Object
    BY <1>1, ObjectSet
  <2> QED
    BY <1>1, <2>1 DEF Object
<1>3. act[e].phase = "deleting" => act[e].finalizer
  BY DEF IInv, WellFormed
<1>4. UserWrite(e, obj)
  OBVIOUS
<1> HIDE DEF obj
<1> QED
  BY <1>2, <1>3, <1>4, UserWriteKeeps

(***************************************************************************)
(* A report changes what the policy reads, but not the schedule.           *)
(***************************************************************************)
LEMMA ReportEffect ==
    ASSUME TypeOK, NEW e \in Enrollments, NEW r \in Reports, Report(e, r)
    PROVE  \E a \in EnrollmentType :
              /\ act[e].phase # "absent" /\ UserWrite(e, [act[e] EXCEPT !.a = a])
              /\ a.spec = act[e].a.spec
<1> DEFINE a1 == [act[e].a EXCEPT !.state = r.state]
           a2 == [a1 EXCEPT !.activity = r.activity]
           a3 == [a2 EXCEPT !.heartbeatAt = now + r.offset]
           o1 == [act[e] EXCEPT !.a.state = r.state]
           o2 == [o1 EXCEPT !.a.activity = r.activity]
           o3 == [o2 EXCEPT !.a.heartbeatAt = now + r.offset]
<1>1. act[e].phase # "absent" /\ now + r.offset > 0 /\ UserWrite(e, o3)
  BY Zenon DEF Report
<1>2. /\ r.state \in States /\ r.activity \in Activities /\ now + r.offset \in Nat
  BY <1>1, ControllerAssumption DEF TypeOK
<1>3. act[e] \in Object /\ act[e].a \in EnrollmentType
  BY ObjectFields DEF TypeOK
<1>4. a3 \in EnrollmentType
  <2>1. a1 \in EnrollmentType
    BY <1>2, <1>3, EnrollmentSet
  <2>2. a2 \in EnrollmentType
    BY <1>2, <2>1, EnrollmentSet
  <2> QED
    BY <1>2, <2>2, EnrollmentSet
<1>5. a3.spec = act[e].a.spec
  BY <1>3 DEF EnrollmentType
<1>6. o3 = [act[e] EXCEPT !.a = a3]
  BY <1>3 DEF Object
<1> HIDE DEF a3, o3
<1> QED
  BY <1>1, <1>4, <1>5, <1>6

(***************************************************************************)
(* So does an edit of the hold.                                            *)
(***************************************************************************)
LEMMA AnnotateEffect ==
    ASSUME TypeOK, NEW e \in Enrollments, NEW h \in Holds, Annotate(e, h)
    PROVE  \E a \in EnrollmentType :
              /\ act[e].phase # "absent" /\ UserWrite(e, [act[e] EXCEPT !.a = a])
              /\ a.spec = act[e].a.spec
<1> DEFINE a == [act[e].a EXCEPT !.hold = h]
<1>1. act[e].phase # "absent" /\ UserWrite(e, [act[e] EXCEPT !.a.hold = h])
  BY DEF Annotate
<1>2. act[e] \in Object /\ act[e].a \in EnrollmentType /\ h \in Int
  BY ObjectFields, ControllerAssumption DEF TypeOK
<1>3. a \in EnrollmentType
  BY <1>2, EnrollmentSet
<1>4. a.spec = act[e].a.spec
  BY <1>2 DEF EnrollmentType
<1>5. [act[e] EXCEPT !.a.hold = h] = [act[e] EXCEPT !.a = a]
  BY <1>2 DEF Object
<1> HIDE DEF a
<1> QED
  BY <1>1, <1>3, <1>4, <1>5

(***************************************************************************)
(* An edit of the schedule writes one of the users' schedules.             *)
(***************************************************************************)
LEMMA EditScheduleEffect ==
    ASSUME TypeOK, NEW e \in Enrollments, NEW s \in Schedules, EditSchedule(e, s)
    PROVE  \E a \in EnrollmentType :
              /\ act[e].phase # "absent" /\ UserWrite(e, [act[e] EXCEPT !.a = a])
              /\ a.spec = s
<1> DEFINE a == [act[e].a EXCEPT !.spec = s]
<1>1. act[e].phase # "absent" /\ UserWrite(e, [act[e] EXCEPT !.a.spec = s])
  BY DEF EditSchedule
<1>2. act[e] \in Object /\ act[e].a \in EnrollmentType /\ s \in ScheduleType
  BY ObjectFields, ControllerAssumption DEF TypeOK
<1>3. a \in EnrollmentType
  BY <1>2, EnrollmentSet
<1>4. a.spec = s
  BY <1>2 DEF EnrollmentType
<1>5. [act[e] EXCEPT !.a.spec = s] = [act[e] EXCEPT !.a = a]
  BY <1>2 DEF Object
<1> HIDE DEF a
<1> QED
  BY <1>1, <1>3, <1>4, <1>5

(***************************************************************************)
(* A write to a Node outdates at most what a pass knows of that Node.      *)
(***************************************************************************)
LEMMA NodeFreshPass ==
    ASSUME TypeOK, NEW known \in BOOLEAN, rec' = [rec EXCEPT !.nodeFresh = known]
    PROVE  /\ rec' \in Pass /\ rec'.pc = rec.pc /\ rec'.e = rec.e /\ rec'.obj = rec.obj
           /\ rec'.mode = rec.mode /\ rec'.fresh = rec.fresh /\ rec'.at = rec.at
           /\ rec'.owned = rec.owned /\ rec'.requeue = rec.requeue
<1>1. rec \in Pass
  BY DEF TypeOK
<1>2. rec' \in Pass
  BY <1>1, PassSet
<1> QED
  BY <1>1, <1>2 DEF Pass

(***************************************************************************)
(* What a step keeps that leaves the NodeActivities, their cache and what  *)
(* the pass knows of its object alone.                                     *)
(***************************************************************************)
LEMMA NodeStepKeeps ==
    ASSUME IInv, UNCHANGED <<act, cact, actLag, queue>>,
           rec'.pc = rec.pc, rec'.e = rec.e, rec'.obj = rec.obj, rec'.mode = rec.mode,
           rec'.fresh = rec.fresh, NodeCurrent', TypeOK'
    PROVE  IInv'
<1>1. Stores'
  BY SameStores
<1>2. PassKnows' /\ Undeleted'
  BY UndeletedKept DEF IInv, PassKnows, Finalizes, Enrolls, Held
<1> QED
  BY <1>1, <1>2 DEF IInv, Stores

(***************************************************************************)
(* A write to a Node preserves the invariant.                              *)
(***************************************************************************)
LEMMA NodeWriteKeeps ==
    ASSUME IInv, NEW n \in Nodes, NEW obj \in NodeObject, NodeWrite(n, obj)
    PROVE  IInv'
<1> DEFINE known == rec.nodeFresh /\ (rec.obj.nodeName # n \/ obj = node[n])
<1>1. /\ writeNode(n, obj) /\ UNCHANGED <<act, cact, actLag, queue>> /\ cnode' = cnode
      /\ now' = now /\ timer' = timer /\ rec' = [rec EXCEPT !.nodeFresh = known]
  BY DEF NodeWrite, caches, UnchangedActivity
<1>2. known \in BOOLEAN
  OBVIOUS
<1> HIDE DEF known
<1>3. /\ rec' \in Pass /\ rec'.pc = rec.pc /\ rec'.e = rec.e /\ rec'.obj = rec.obj
      /\ rec'.mode = rec.mode /\ rec'.fresh = rec.fresh
  BY <1>1, <1>2, NodeFreshPass DEF IInv
<1>4. /\ NodeCurrent' /\ node' \in [Nodes -> NodeObject]
      /\ nodeEvents' \subseteq nodeLag' /\ nodeLag' \subseteq Nodes
  BY <1>1, WriteNodeKeeps DEF IInv
<1>5. TypeOK'
  BY <1>1, <1>3, <1>4 DEF IInv, TypeOK
<1> QED
  BY <1>1, <1>3, <1>4, <1>5, NodeStepKeeps

(***************************************************************************)
(* An edit of the owned fields preserves the invariant.                    *)
(***************************************************************************)
LEMMA DriftNodeKeeps ==
    ASSUME IInv, NEW n \in Nodes, NEW f \in Drifts, DriftNode(n, f)
    PROVE  IInv'
<1>1. NodeWrite(n, [node[n] EXCEPT !.owned = f])
  BY DEF DriftNode
<1>2. [node[n] EXCEPT !.owned = f] \in NodeObject
  BY ControllerAssumption DEF IInv, TypeOK, NodeObject
<1> QED
  BY <1>1, <1>2, NodeWriteKeeps

(***************************************************************************)
(* The removal of a Node preserves the invariant.                          *)
(***************************************************************************)
LEMMA RemoveNodeKeeps ==
    ASSUME IInv, NEW n \in Nodes, RemoveNode(n)
    PROVE  IInv'
<1>1. NoNodeObject \in NodeObject
  BY DEF NoNodeObject, NodeObject, Unprotected, OwnedFields, Taints
<1> QED
  BY <1>1, NodeWriteKeeps DEF RemoveNode

(***************************************************************************)
(* The return of a Node preserves the invariant.                           *)
(***************************************************************************)
LEMMA AddNodeKeeps ==
    ASSUME IInv, NEW n \in Nodes, AddNode(n)
    PROVE  IInv'
<1>1. [NoNodeObject EXCEPT !.exists = TRUE] \in NodeObject
  BY DEF NoNodeObject, NodeObject, Unprotected, OwnedFields, Taints
<1> QED
  BY <1>1, NodeWriteKeeps DEF AddNode

(***************************************************************************)
(* A kubelet write makes no event nodeOwnedFieldsChanged accepts, and      *)
(* changes no owned field.                                                 *)
(***************************************************************************)
LEMMA KubeletWriteKeeps ==
    ASSUME IInv, NEW n \in Nodes, KubeletWrite(n)
    PROVE  IInv'
<1> DEFINE known == rec.nodeFresh /\ rec.obj.nodeName # n
<1>1. /\ UNCHANGED <<act, cact, actLag, queue>> /\ cnode' = cnode /\ node' = node
      /\ nodeLag' = nodeLag \cup {n} /\ nodeEvents' = nodeEvents
      /\ now' = now /\ timer' = timer /\ rec' = [rec EXCEPT !.nodeFresh = known]
  BY DEF KubeletWrite, api, caches
<1>2. known \in BOOLEAN
  OBVIOUS
<1> HIDE DEF known
<1>3. /\ rec' \in Pass /\ rec'.pc = rec.pc /\ rec'.e = rec.e /\ rec'.obj = rec.obj
      /\ rec'.mode = rec.mode /\ rec'.fresh = rec.fresh
  BY <1>1, <1>2, NodeFreshPass DEF IInv
<1>4. TypeOK' /\ NodeCurrent'
  BY <1>1, <1>3 DEF IInv, TypeOK, NodeCurrent
<1> QED
  BY <1>1, <1>3, <1>4, NodeStepKeeps

(***************************************************************************)
(* Every step of users, reporters, kubelets and the Nodes' lifecycle       *)
(* preserves the invariant.                                                *)
(***************************************************************************)
LEMMA EnvironmentKeeps == IInv /\ Environment => IInv'
<1> SUFFICES ASSUME IInv, Environment PROVE IInv'
  OBVIOUS
<1>1. CASE \E e \in Enrollments, n \in Nodes \cup {NoNode}, s \in Schedules : Create(e, n, s)
  BY <1>1, CreateKeeps
<1>2. CASE \E e \in Enrollments : Delete(e)
  BY <1>2, DeleteKeeps
<1>3. CASE \E e \in Enrollments, r \in Reports : Report(e, r)
  BY <1>3, ReportEffect, EditKeeps DEF IInv
<1>4. CASE \E e \in Enrollments, h \in Holds : Annotate(e, h)
  BY <1>4, AnnotateEffect, EditKeeps DEF IInv
<1>5. CASE \E e \in Enrollments, s \in Schedules : EditSchedule(e, s)
  BY <1>5, EditScheduleEffect, EditKeeps DEF IInv
<1>6. CASE \E n \in Nodes, f \in Drifts : DriftNode(n, f)
  BY <1>6, DriftNodeKeeps
<1>7. CASE \E n \in Nodes : KubeletWrite(n)
  BY <1>7, KubeletWriteKeeps
<1>8. CASE \E n \in Nodes : RemoveNode(n)
  BY <1>8, RemoveNodeKeeps
<1>9. CASE \E n \in Nodes : AddNode(n)
  BY <1>9, AddNodeKeeps
<1> QED
  BY <1>1, <1>2, <1>3, <1>4, <1>5, <1>6, <1>7, <1>8, <1>9 DEF Environment

(***************************************************************************)
(* The invariant is inductive.                                             *)
(***************************************************************************)
LEMMA NextKeeps == IInv /\ [Next]_vars => IInv'
<1> SUFFICES ASSUME IInv, [Next]_vars PROVE IInv'
  OBVIOUS
<1>1. CASE Work
  BY <1>1, StartKeeps, AddFinalizerKeeps, HoldKeeps, DecideKeeps, UpdateKeeps, SetStatusKeeps,
     RemoveFinalizerKeeps DEF Work
<1>2. CASE Deliver
  BY <1>2, SyncActivitiesKeeps, SyncNodesKeeps, FireTimerKeeps DEF Deliver
<1>3. CASE Environment \/ CallFails \/ Restart \/ Tick
  BY <1>3, EnvironmentKeeps, CallFailsKeeps, RestartKeeps, TickKeeps
<1>4. CASE UNCHANGED vars
  BY <1>4 DEF vars, IInv, TypeOK, WellFormed, ActCurrent, NodeCurrent, CacheHeld, Held,
     PassKnows, Finalizes, Enrolls, Undeleted
<1> QED
  BY <1>1, <1>2, <1>3, <1>4 DEF Next

----------------------------------------------------------------------------
(***************************************************************************)
(* The inductive invariant of the reconciler, for every number of          *)
(* enrollments and Nodes, every schedule, report, hold and edit, and with  *)
(* stale caches, failed calls and restarts.                                *)
(***************************************************************************)
THEOREM ControllerInvariant == Spec => []IInv
  BY InitIInv, NextKeeps, PTL DEF Spec

(***************************************************************************)
(* Everything the reconciler reads and writes is well typed: no pass is at *)
(* work for an object that is not an enrollment, and no status, Node or    *)
(* cache leaves its type.                                                  *)
(***************************************************************************)
THEOREM ControllerType == Spec => []TypeOK
<1>1. IInv => TypeOK
  BY DEF IInv
<1> QED
  BY <1>1, ControllerInvariant, PTL

(***************************************************************************)
(* At rest no object waits for its finalizer: whatever failed, crashed or  *)
(* was read from a stale cache, a deleted object is in the queue, or has   *)
(* an event outstanding, or a pass is at work on it, until it is gone.     *)
(***************************************************************************)
THEOREM ControllerDeletes == Spec => []DeletionCompletes
<1>1. IInv => DeletionCompletes
  BY DEF IInv, Undeleted, DeletionCompletes, Quiet, Finalizes
<1> QED
  BY <1>1, ControllerInvariant, PTL
----------------------------------------------------------------------------
(***************************************************************************)
(* Every schedule ever stored is one a user wrote or the empty one.        *)
(***************************************************************************)
LEMMA AbsentPersists == ErrorPersists(Absent.a.spec)
<1>1. Absent.a.spec = NoWindows
  BY DEF Absent, Unreported
<1>2. \A t \in Nat : ~windowErr(NoWindows, t)
  BY DEF NoWindows, windowErr, scheduleInvalid
<1> QED
  BY <1>1, <1>2 DEF ErrorPersists

(***************************************************************************)
(* A write of such a schedule keeps it so.                                 *)
(***************************************************************************)
LEMMA PersistentWrite ==
    ASSUME TypeOK, Persistent(act), NEW e \in Enrollments, NEW obj \in Object,
           writeActivity(e, obj), ErrorPersists(obj.a.spec)
    PROVE  Persistent(act')
  BY WriteEffect DEF Persistent

(***************************************************************************)
(* No step stores another schedule, on the server or in the cache.         *)
(***************************************************************************)
LEMMA PersistentNext ==
    ASSUME Calm PROVE IInv /\ Persistent(act) /\ Persistent(cact) /\ [Next]_vars
                      => Persistent(act') /\ Persistent(cact')
<1> SUFFICES ASSUME IInv, Persistent(act), Persistent(cact), [Next]_vars
             PROVE  Persistent(act') /\ Persistent(cact')
  OBVIOUS
<1>1. cact' = act \/ cact' = cact
  BY DEF Next, Work, Deliver, Environment, Start, AddFinalizer, reconcileHold, Decide, UpdateNode,
     SetStatus, RemoveFinalizer, SyncActivities, SyncNodes, FireTimer, Create, Delete, Report,
     Annotate, EditSchedule, DriftNode, KubeletWrite, RemoveNode, AddNode, UserWrite, NodeWrite,
     CallFails, Restart, Tick, vars, caches
<1>2. Persistent(cact')
  BY <1>1
<1>3. CASE act' = act
  BY <1>2, <1>3
<1>4. CASE AddFinalizer /\ ~(Failed /\ UnchangedActivity)
  <2> DEFINE finalized == [act[rec.e] EXCEPT !.finalizer = TRUE]
  <2>1. rec.e \in Enrollments /\ writeActivity(rec.e, finalized) /\ Allowed(rec.e, finalized)
    BY <1>4, AddFinalizerEffect
  <2>2. act[rec.e] \in Object /\ finalized.a = act[rec.e].a /\ finalized \in Object
    BY <2>1 DEF IInv, TypeOK, Object, Allowed
  <2>3. ErrorPersists(finalized.a.spec)
    BY <2>1, <2>2 DEF Persistent
  <2> HIDE DEF finalized
  <2> QED
    BY <1>2, <2>1, <2>2, <2>3, PersistentWrite DEF IInv
<1>5. CASE reconcileHold /\ ~(Failed /\ UnchangedActivity)
  <2>1. \/ act' = act
        \/ \E obj \in Object :
              /\ rec.e \in Enrollments /\ writeActivity(rec.e, obj)
              /\ obj.a.spec = act[rec.e].a.spec
    BY <1>5, HoldEffect
  <2> QED
    BY <1>2, <2>1, PersistentWrite DEF IInv, Persistent
<1>6. CASE SetStatus /\ ~(Failed /\ UnchangedActivity)
  <2>1. \/ act' = act
        \/ \E obj \in Object :
              rec.e \in Enrollments /\ writeActivity(rec.e, obj) /\ obj.a = act[rec.e].a
    BY <1>6, SetStatusEffect
  <2> QED
    BY <1>2, <2>1, PersistentWrite DEF IInv, Persistent
<1>7. CASE RemoveFinalizer
  <2>1. act' = act \/ (rec.e \in Enrollments /\ writeActivity(rec.e, Absent))
    BY <1>7 DEF RemoveFinalizer, UnchangedActivity, IInv, PassKnows
  <2> QED
    BY <1>2, <2>1, PersistentWrite, AbsentPersists, AbsentType DEF IInv
<1>8. ASSUME NEW e \in Enrollments, NEW n \in Nodes \cup {NoNode}, NEW s \in Schedules,
             Create(e, n, s)
      PROVE  Persistent(act')
  <2> DEFINE o1 == [Absent EXCEPT !.phase = "live"]
             o2 == [o1 EXCEPT !.nodeName = n]
             o3 == [o2 EXCEPT !.a = Unreported(s)]
  <2>1. UserWrite(e, o3)
    BY <1>8, Zenon DEF Create
  <2>2. o3.a.spec = s
    BY DEF Absent, Unreported
  <2>3. ErrorPersists(s)
    BY DEF Calm
  <2> HIDE DEF o3
  <2>4. act'[e].a.spec = s /\ \A f \in Enrollments : f # e => act'[f] = act[f]
    BY <2>1, <2>2 DEF UserWrite, writeActivity, IInv, TypeOK
  <2> QED
    BY <2>3, <2>4 DEF Persistent
<1>9. ASSUME NEW e \in Enrollments, Delete(e) PROVE Persistent(act')
  <2> DEFINE obj == IF act[e].finalizer THEN [act[e] EXCEPT !.phase = "deleting"] ELSE Absent
  <2>1. writeActivity(e, obj)
    BY <1>9 DEF Delete, UserWrite
  <2>2. act[e] \in Object /\ ErrorPersists(act[e].a.spec)
    BY DEF IInv, TypeOK, Persistent
  <2>3. obj.a.spec \in {act[e].a.spec, Absent.a.spec}
    BY <2>2 DEF Object
  <2>4. ErrorPersists(obj.a.spec)
    BY <2>2, <2>3, AbsentPersists
  <2> HIDE DEF obj
  <2>5. act'[e] = obj /\ \A f \in Enrollments : f # e => act'[f] = act[f]
    BY <2>1 DEF writeActivity, IInv, TypeOK
  <2> QED
    BY <2>4, <2>5 DEF Persistent
<1>10. ASSUME NEW e \in Enrollments, NEW a \in EnrollmentType, ErrorPersists(a.spec),
              UserWrite(e, [act[e] EXCEPT !.a = a])
       PROVE  Persistent(act')
  <2>1. act[e] \in Object /\ [act[e] EXCEPT !.a = a].a = a
    BY DEF IInv, TypeOK, Object
  <2>2. [act[e] EXCEPT !.a = a] \in Object
    BY <2>1, ObjectSet
  <2> QED
    BY <1>10, <2>1, <2>2, PersistentWrite DEF UserWrite, IInv
<1>11. CASE Environment /\ act' # act
  <2>1. \/ \E e \in Enrollments, n \in Nodes \cup {NoNode}, s \in Schedules : Create(e, n, s)
        \/ \E e \in Enrollments : Delete(e)
        \/ \E e \in Enrollments, r \in Reports : Report(e, r)
        \/ \E e \in Enrollments, h \in Holds : Annotate(e, h)
        \/ \E e \in Enrollments, s \in Schedules : EditSchedule(e, s)
    BY <1>11 DEF Environment, DriftNode, KubeletWrite, RemoveNode, AddNode, NodeWrite,
       UnchangedActivity, api
  <2>2. ASSUME NEW e \in Enrollments, NEW r \in Reports, Report(e, r) PROVE Persistent(act')
    BY <1>10, <2>2, ReportEffect DEF IInv, Persistent
  <2>3. ASSUME NEW e \in Enrollments, NEW h \in Holds, Annotate(e, h) PROVE Persistent(act')
    BY <1>10, <2>3, AnnotateEffect DEF IInv, Persistent
  <2>4. ASSUME NEW e \in Enrollments, NEW s \in Schedules, EditSchedule(e, s)
        PROVE  Persistent(act')
    <3>1. PICK a \in EnrollmentType : UserWrite(e, [act[e] EXCEPT !.a = a]) /\ a.spec = s
      BY <2>4, EditScheduleEffect DEF IInv
    <3>2. ErrorPersists(a.spec)
      BY <3>1 DEF Calm
    <3> QED
      BY <1>10, <3>1, <3>2
  <2> QED
    BY <1>2, <1>8, <1>9, <2>1, <2>2, <2>3, <2>4
<1>12. act' # act =>
          \/ AddFinalizer /\ ~(Failed /\ UnchangedActivity)
          \/ reconcileHold /\ ~(Failed /\ UnchangedActivity)
          \/ SetStatus /\ ~(Failed /\ UnchangedActivity)
          \/ RemoveFinalizer \/ Environment
  BY DEF Next, Work, Deliver, Start, Decide, UpdateNode, SyncActivities, SyncNodes, FireTimer,
     CallFails, Restart, Tick, vars, api, UnchangedActivity
<1> QED
  BY <1>3, <1>4, <1>5, <1>6, <1>7, <1>11, <1>12

(***************************************************************************)
(* The pass decides for the present: the clock stands still while it runs. *)
(***************************************************************************)
LEMMA PunctualNext ==
    ASSUME Calm PROVE IInv /\ Punctual /\ [Next]_vars => Punctual'
<1> SUFFICES ASSUME IInv, Punctual, [Next]_vars PROVE Punctual'
  OBVIOUS
<1>1. rec' = NoPass => Punctual'
  BY DEF NoPass, Punctual, Decides, Setters
<1>2. now' = now /\ rec'.pc = rec.pc /\ rec'.mode = rec.mode /\ rec'.at = rec.at => Punctual'
  BY DEF Punctual, Decides
<1>3. ASSUME NEW e \in Enrollments, Start(e) PROVE Punctual'
  <2>1. \/ rec' = NoPass
        \/ rec'.pc \in {"addFinalizer", "hold", "release", "removeFinalizer"}
        \/ rec'.mode = "blank" /\ rec'.pc = "status1"
    <3>1. /\ cact[e].phase \in {"absent", "live", "deleting"}
          /\ cact[e].phase = "deleting" => cact[e].finalizer
      BY ObjectFields DEF IInv, TypeOK, WellFormed
    <3>2. /\ cact[e].phase = "absent" => rec' = NoPass
          /\ cact[e].phase = "deleting" /\ cact[e].finalizer =>
                 rec'.pc \in {"removeFinalizer", "release"}
          /\ cact[e].phase = "live" =>
                 \/ rec'.pc = "status1" /\ rec'.mode = "blank"
                 \/ rec'.pc \in {"addFinalizer", "hold"}
      BY <1>3, StartEffect
    <3> QED
      BY <3>1, <3>2
  <2> QED
    BY <1>1, <2>1 DEF Punctual, Decides, Setters
<1>4. CASE AddFinalizer
  <2>1. rec' = NoPass \/ rec'.pc = "hold"
    BY <1>4, AddFinalizerEffect DEF Failed
  <2> QED
    BY <1>1, <2>1 DEF Punctual, Decides, Setters
<1>5. CASE reconcileHold
  <2>1. rec' = NoPass \/ (rec'.at = now /\ now' = now)
    BY <1>5, HoldEffect DEF Failed
  <2> QED
    BY <1>1, <2>1 DEF Punctual
<1>6. CASE Decide
  <2>1. rec.pc = "decide" /\ rec'.at = rec.at /\ now' = now
    BY <1>6, DecideEffect
  <2> QED
    BY <2>1 DEF Punctual, Decides
<1>7. CASE UpdateNode
  <2>1. \/ rec' = NoPass
        \/ rec.pc = "update" /\ rec'.at = rec.at /\ now' = now
        \/ rec'.pc = "removeFinalizer"
    BY <1>7, UpdateEffect DEF Failed
  <2> QED
    BY <1>1, <2>1 DEF Punctual, Decides, Setters
<1>8. CASE SetStatus
  <2>1. \/ rec' = NoPass
        \/ /\ rec.pc \in Setters /\ rec'.pc \in Setters /\ rec'.mode = rec.mode
           /\ rec'.at = rec.at /\ now' = now
    <3>1. CASE Failed /\ UnchangedActivity
      BY <3>1 DEF Failed
    <3>2. CASE ~(Failed /\ UnchangedActivity)
      <4>1. /\ rec.pc \in Setters /\ now' = now
            /\ \/ Finished(rec.requeue)
               \/ rec'.pc \in Setters /\ rec'.mode = rec.mode /\ rec'.at = rec.at
        BY <1>8, <3>2, SetStatusEffect
      <4> QED
        BY <4>1 DEF Finished
    <3> QED
      BY <3>1, <3>2
  <2> QED
    BY <1>1, <2>1 DEF Punctual, Decides, Setters
<1>9. CASE RemoveFinalizer \/ CallFails \/ Restart
  BY <1>1, <1>9 DEF RemoveFinalizer, CallFails, Restart, Failed, Finished
<1>10. CASE Deliver \/ UNCHANGED vars
  BY <1>2, <1>10 DEF Deliver, SyncActivities, SyncNodes, FireTimer, vars
<1>11. CASE Tick
  <2>1. rec.pc = "idle" /\ rec' = rec
    BY <1>11 DEF Tick, Calm
  <2> QED
    BY <2>1 DEF Punctual, Decides, Setters
<1>12. CASE Environment
  <2>1. /\ now' = now
        /\ \E b \in BOOLEAN : \/ rec' = [rec EXCEPT !.fresh = b]
                             \/ rec' = [rec EXCEPT !.nodeFresh = b]
    BY <1>12 DEF Environment, Create, Delete, Report, Annotate, EditSchedule, DriftNode,
       KubeletWrite, RemoveNode, AddNode, UserWrite, NodeWrite
  <2>2. rec \in Pass
    BY DEF IInv, TypeOK
  <2>3. rec'.pc = rec.pc /\ rec'.mode = rec.mode /\ rec'.at = rec.at
    BY <2>1, <2>2 DEF Pass
  <2> QED
    BY <1>2, <2>1, <2>3
<1> QED
  BY <1>3, <1>4, <1>5, <1>6, <1>7, <1>8, <1>9, <1>10, <1>11, <1>12 DEF Next, Work
----------------------------------------------------------------------------
(***************************************************************************)
(* What keeps a Node covered. A requeue that is due no later, over the     *)
(* same enrollments and the same Node, keeps it steady.                    *)
(***************************************************************************)
LEMMA SteadyCovers ==
    ASSUME TypeOK, now' \in Nat, now <= now', timer' \in [Enrollments -> Nat],
           NEW n \in Nodes, itemsOf(cact', n) = itemsOf(cact, n), Steady(n),
           node'[n].owned = node[n].owned \/ n \in nodeEvents',
           \A e \in Enrollments : timer[e] # 0 =>
               e \in queue' \/ (timer'[e] # 0 /\ timer'[e] <= timer[e])
    PROVE  Cover(n)'
<1>1. PICK e \in DOMAIN itemsOf(cact, n) :
          /\ timer[e] # 0
          /\ \A t \in Nat : now <= t /\ t < timer[e]
               => node[n].owned = desiredFields(itemsOf(cact, n), t)
  BY DEF Steady, RightUntil
<1>2. e \in Enrollments /\ timer[e] \in Nat /\ timer'[e] \in Nat /\ now \in Nat
  BY ItemsType DEF TypeOK
<1>3. CASE n \in nodeEvents' \/ e \in queue'
  BY <1>1, <1>3 DEF Cover, Woken
<1>4. CASE n \notin nodeEvents' /\ e \notin queue'
  <2>1. timer'[e] # 0 /\ timer'[e] <= timer[e] /\ node'[n].owned = node[n].owned
    BY <1>1, <1>2, <1>4
  <2>2. \A t \in Nat : now' <= t /\ t < timer'[e] => now <= t /\ t < timer[e]
    BY <1>2, <2>1
  <2>3. \A t \in Nat : now' <= t /\ t < timer'[e]
           => node'[n].owned = desiredFields(itemsOf(cact', n), t)
    BY <1>1, <2>1, <2>2
  <2> QED
    BY <1>1, <2>1, <2>3 DEF Cover, Steady, RightUntil
<1> QED
  BY <1>3, <1>4

(***************************************************************************)
(* A pass that fails leaves its object in the queue.                       *)
(***************************************************************************)
LEMMA FailedCovers ==
    ASSUME TypeOK, Failed, now' = now, cact' = cact, NEW n \in Nodes,
           UNCHANGED <<node, nodeLag, nodeEvents>>, Cover(n)
    PROVE  Cover(n)'
<1>1. queue' = queue \cup {rec.e} /\ timer' = timer
  BY DEF Failed
<1>2. CASE Woken(n) \/ Deciding(n) \/ Finishing(n)
  BY <1>1, <1>2 DEF Woken, Deciding, Finishing, PassFor, Cover
<1>3. CASE Steady(n)
  <2>1. /\ now \in Nat /\ now <= now /\ timer \in [Enrollments -> Nat]
        /\ \A e \in Enrollments : timer'[e] <= timer[e]
    BY <1>1 DEF TypeOK
  <2> QED
    BY <1>1, <1>3, <2>1, SteadyCovers
<1> QED
  BY <1>2, <1>3 DEF Cover

(***************************************************************************)
(* A step of somebody else leaves the pass in progress alone.              *)
(***************************************************************************)
LEMMA OthersCover ==
    ASSUME TypeOK, now' = now, NEW n \in Nodes, itemsOf(cact', n) = itemsOf(cact, n), Cover(n),
           node'[n].owned = node[n].owned \/ n \in nodeEvents',
           queue \subseteq queue', timer' \in [Enrollments -> Nat],
           n \in nodeEvents => n \in nodeEvents' \/ \E e \in DOMAIN itemsOf(cact, n) : e \in queue',
           \A e \in Enrollments : timer[e] # 0 => e \in queue' \/ timer'[e] = timer[e],
           rec'.pc = rec.pc, rec'.e = rec.e, rec'.obj = rec.obj, rec'.mode = rec.mode,
           rec'.requeue = rec.requeue, rec'.owned = rec.owned
    PROVE  Cover(n)'
<1>1. CASE Woken(n)
  BY <1>1 DEF Woken, Cover
<1>2. CASE Deciding(n)
  BY <1>2 DEF Deciding, PassFor, Cover
<1>3. CASE Finishing(n) /\ node'[n].owned = node[n].owned
  BY <1>3 DEF Finishing, PassFor, RightUntil, Cover
<1>4. CASE n \in nodeEvents'
  BY <1>4 DEF Woken, Cover
<1>5. CASE Steady(n)
  <2>1. /\ now \in Nat /\ now <= now' /\ now' \in Nat
        /\ \A e \in Enrollments : timer[e] \in Nat
    BY DEF TypeOK
  <2>2. \A e \in Enrollments : timer[e] # 0 =>
           e \in queue' \/ (timer'[e] # 0 /\ timer'[e] <= timer[e])
    BY <2>1
  <2> QED
    BY <1>5, <2>1, <2>2, SteadyCovers
<1> QED
  BY <1>1, <1>2, <1>3, <1>4, <1>5 DEF Cover

(***************************************************************************)
(* A step of the pass: the rest is as it was.                              *)
(***************************************************************************)
LEMMA PassCovers ==
    ASSUME TypeOK, now' = now, cact' = cact, NEW n \in Nodes, Cover(n),
           nodeEvents \subseteq nodeEvents', queue' = queue, timer' \in [Enrollments -> Nat],
           node'[n].owned = node[n].owned \/ n \in nodeEvents',
           \A e \in Enrollments : timer[e] # 0 => timer'[e] # 0 /\ timer'[e] <= timer[e],
           Deciding(n) \/ Finishing(n) => Cover(n)'
    PROVE  Cover(n)'
<1>1. CASE Woken(n)
  BY <1>1 DEF Woken, Cover
<1>2. CASE Steady(n)
  <2>1. now \in Nat /\ now <= now' /\ now' \in Nat
    BY DEF TypeOK
  <2> QED
    BY <1>2, <2>1, SteadyCovers
<1> QED
  BY <1>1, <1>2 DEF Cover

(***************************************************************************)
(* A request that is taken from the queue becomes a pass.                  *)
(***************************************************************************)
LEMMA StartCovers ==
    ASSUME IInv, NEW n \in Nodes, Cover(n), NEW e \in Enrollments, Start(e)
    PROVE  Cover(n)'
<1>1. /\ cact' = cact /\ UNCHANGED <<node, nodeEvents>> /\ now' = now /\ timer' = timer
      /\ rec.pc = "idle" /\ queue' = queue \ {e}
  BY DEF Start, caches, UnchangedNode
<1>2. CASE e \in DOMAIN itemsOf(cact, n)
  <2>1. cact[e].phase = "live" /\ cact[e].nodeName = n /\ n # NoNode
    BY <1>2, ItemsType, ControllerAssumption DEF IInv, TypeOK
  <2>2. rec'.e = e /\ rec'.pc \in {"addFinalizer", "hold"}
    BY <2>1, StartEffect
  <2>3. rec'.obj = cact[e]
    <3>1. rec' # NoPass
      BY <2>2 DEF NoPass
    <3> QED
      BY <3>1, StartEffect
  <2> QED
    BY <1>1, <1>2, <2>1, <2>2, <2>3 DEF Cover, Deciding, PassFor
<1>3. CASE e \notin DOMAIN itemsOf(cact, n)
  <2>1. CASE Woken(n)
    BY <1>1, <1>3, <2>1 DEF Woken, Cover
  <2>2. CASE Deciding(n) \/ Finishing(n)
    BY <1>1, <2>2 DEF Deciding, Finishing, Setters
  <2>3. CASE Steady(n)
    <3>1. /\ now \in Nat /\ now <= now' /\ now' \in Nat /\ timer' \in [Enrollments -> Nat]
          /\ \A f \in Enrollments : timer[f] # 0 => timer'[f] # 0 /\ timer'[f] <= timer[f]
      BY <1>1 DEF IInv, TypeOK
    <3> QED
      BY <1>1, <2>3, <3>1, SteadyCovers DEF IInv
  <2> QED
    BY <2>1, <2>2, <2>3 DEF Cover
<1> QED
  BY <1>2, <1>3

(***************************************************************************)
(* The finalizer patch goes on to decide, or leaves a request behind.      *)
(***************************************************************************)
LEMMA AddFinalizerCovers ==
    ASSUME IInv, NEW n \in Nodes, Cover(n), AddFinalizer
    PROVE  Cover(n)'
<1>1. CASE Failed /\ UnchangedActivity
  BY <1>1, FailedCovers DEF AddFinalizer, caches, UnchangedNode, IInv
<1>2. CASE ~(Failed /\ UnchangedActivity)
  <2>1. /\ UNCHANGED <<now, cact, cnode, node, nodeLag, nodeEvents, queue, timer>>
        /\ rec'.pc = "hold" /\ rec'.obj.nodeName = rec.obj.nodeName /\ rec'.e = rec.e
    BY <1>2, AddFinalizerEffect
  <2>2. rec.pc = "addFinalizer"
    BY DEF AddFinalizer
  <2>3. Deciding(n) \/ Finishing(n) => Cover(n)'
    BY <2>1, <2>2 DEF Deciding, Finishing, PassFor, Setters, Cover
  <2>4. /\ timer' \in [Enrollments -> Nat]
        /\ \A e \in Enrollments : timer[e] # 0 => timer'[e] # 0 /\ timer'[e] <= timer[e]
    BY <2>1 DEF IInv, TypeOK
  <2> QED
    BY <2>1, <2>3, <2>4, PassCovers DEF IInv
<1> QED
  BY <1>1, <1>2

(***************************************************************************)
(* So does the hold patch.                                                 *)
(***************************************************************************)
LEMMA HoldCovers ==
    ASSUME IInv, NEW n \in Nodes, Cover(n), reconcileHold
    PROVE  Cover(n)'
<1>1. CASE Failed /\ UnchangedActivity
  BY <1>1, FailedCovers DEF reconcileHold, caches, UnchangedNode, IInv
<1>2. CASE ~(Failed /\ UnchangedActivity)
  <2>1. /\ UNCHANGED <<now, cact, cnode, node, nodeLag, nodeEvents, queue, timer>>
        /\ rec.pc = "hold" /\ rec'.pc = "decide" /\ rec'.e = rec.e
        /\ rec'.obj = rec.obj \/ rec'.obj.nodeName = act[rec.e].nodeName
    BY <1>2, HoldEffect
  <2>2. rec'.obj.nodeName = rec.obj.nodeName
    BY <2>1 DEF IInv, PassKnows, Enrolls, Held
  <2>3. Deciding(n) \/ Finishing(n) => Cover(n)'
    BY <2>1, <2>2 DEF Deciding, Finishing, PassFor, Setters, Cover
  <2>4. /\ timer' \in [Enrollments -> Nat]
        /\ \A e \in Enrollments : timer[e] # 0 => timer'[e] # 0 /\ timer'[e] <= timer[e]
    BY <2>1 DEF IInv, TypeOK
  <2> QED
    BY <2>1, <2>3, <2>4, PassCovers DEF IInv
<1> QED
  BY <1>1, <1>2

(***************************************************************************)
(* The decision is right until the requeue it asks for; a Node whose event *)
(* is outstanding is decided again.                                        *)
(***************************************************************************)
LEMMA DecideCovers ==
    ASSUME Calm, IInv, Persistent(cact), Punctual,
           NEW n \in Nodes, node[n].exists, Cover(n), Decide
    PROVE  Cover(n)'
<1>1. /\ UNCHANGED <<now, act, cact, actLag, queue, timer>>
      /\ UNCHANGED <<node, cnode, nodeLag, nodeEvents>>
      /\ rec.pc = "decide" /\ rec'.e = rec.e /\ rec'.obj = rec.obj
      /\ rec'.pc \in {"update", "status1"} /\ rec'.mode \in {"normal", "missing"}
      /\ rec'.requeue = protectionRequeue(itemsOf(cact, rec.obj.nodeName), rec.at)
      /\ cnode[rec.obj.nodeName].exists =>
             /\ rec'.owned = desiredFields(itemsOf(cact, rec.obj.nodeName), rec.at)
             /\ rec'.pc = "status1" => cnode[rec.obj.nodeName].owned = rec'.owned
  BY DecideEffect
<1>2. /\ timer' \in [Enrollments -> Nat]
      /\ \A e \in Enrollments : timer[e] # 0 => timer'[e] # 0 /\ timer'[e] <= timer[e]
  BY <1>1 DEF IInv, TypeOK
<1>3. Deciding(n) \/ Finishing(n) => Cover(n)'
  <2> SUFFICES ASSUME Deciding(n) PROVE Cover(n)'
    BY <1>1 DEF Finishing, Setters
  <2>1. CASE n \in nodeEvents
    BY <1>1, <2>1 DEF Cover, Woken
  <2>2. CASE n \notin nodeEvents
    <3> DEFINE items == itemsOf(cact, n)
               D == DOMAIN items
               requeue == protectionRequeue(items, now)
    <3>1. rec.obj.nodeName = n /\ rec.e \in D /\ cnode[n] = node[n] /\ rec.at = now
      BY <1>1, <2>2 DEF Deciding, PassFor, IInv, NodeCurrent, Punctual, Decides
    <3>2. D \in SUBSET (Nat \ {0}) /\ items \in [D -> EnrollmentType] /\ D # {}
      BY <3>1, ItemsType DEF IInv, TypeOK
    <3>3. \A e \in D : ErrorPersists(items[e].spec)
      BY ItemsType DEF IInv, TypeOK, Persistent
    <3>4. now \in Nat /\ FailClosed
      BY DEF IInv, TypeOK, Calm
    <3> HIDE DEF items, D
    <3>5. /\ requeue > 0
          /\ \A u \in Nat : now <= u /\ u < now + requeue
               => desiredFields(items, u) = desiredFields(items, now)
      BY <3>2, <3>3, <3>4, ProtectionStable
    <3>6. /\ rec'.requeue = requeue /\ rec'.owned = desiredFields(items, now)
          /\ rec'.pc = "status1" => node[n].owned = rec'.owned
      BY <1>1, <3>1 DEF items
    <3> HIDE DEF requeue
    <3>7. RightUntil(n, IF rec.pc = "update" THEN rec.owned ELSE node[n].owned,
                     now + rec.requeue)'
      BY <1>1, <3>5, <3>6 DEF RightUntil, items
    <3>8. PassFor(n)'
      BY <1>1, <3>1 DEF PassFor, D, items
    <3>9. Finishing(n)'
      BY <1>1, <3>5, <3>6, <3>7, <3>8 DEF Finishing, Setters
    <3> QED
      BY <3>9 DEF Cover
  <2> QED
    BY <2>1, <2>2
<1> QED
  BY <1>1, <1>2, <1>3, PassCovers DEF IInv

(***************************************************************************)
(* The Update writes what the pass decided, or leaves a request behind.    *)
(***************************************************************************)
LEMMA UpdateCovers ==
    ASSUME IInv, NEW n \in Nodes, Cover(n), UpdateNode
    PROVE  Cover(n)'
<1>1. CASE Failed /\ UnchangedNode
  BY <1>1, FailedCovers DEF UpdateNode, caches, UnchangedNode, IInv
<1>2. CASE ~(Failed /\ UnchangedNode)
  <2> DEFINE m == rec.obj.nodeName
             obj == [node[m] EXCEPT !.owned = rec.owned]
  <2>1. /\ rec.pc \in {"update", "release"} /\ m \in Nodes
        /\ UNCHANGED <<now, act, cact, actLag, cnode, queue, timer>>
        /\ obj \in NodeObject /\ obj.owned = rec.owned /\ writeNode(m, obj)
        /\ rec'.e = rec.e /\ rec'.obj = rec.obj /\ rec'.mode = rec.mode
        /\ rec'.requeue = rec.requeue
        /\ rec'.pc = IF rec.pc = "update" THEN "status1" ELSE "removeFinalizer"
    BY <1>2, UpdateEffect
  <2> HIDE DEF obj
  <2>2. /\ nodeEvents \subseteq nodeEvents' /\ (obj = node[m] \/ m \in nodeEvents')
        /\ node'[m] = obj /\ \A k \in Nodes : k # m => node'[k] = node[k]
    BY <2>1, WriteNodeKeeps DEF IInv
  <2>3. node'[n].owned = node[n].owned \/ n \in nodeEvents'
    BY <2>2
  <2>4. Deciding(n) \/ Finishing(n) => Cover(n)'
    <3>1. ~Deciding(n)
      BY <2>1 DEF Deciding
    <3>2. ASSUME Finishing(n) PROVE Cover(n)'
      <4>1. rec.pc = "update" /\ m = n
        BY <2>1, <3>2 DEF Finishing, PassFor, Setters
      <4>2. node'[n].owned = rec.owned
        BY <2>1, <2>2, <4>1
      <4>3. Finishing(n)'
        BY <2>1, <3>2, <4>1, <4>2 DEF Finishing, PassFor, RightUntil, Setters
      <4> QED
        BY <4>3 DEF Cover
    <3> QED
      BY <3>1, <3>2
  <2>5. /\ timer' \in [Enrollments -> Nat]
        /\ \A e \in Enrollments : timer[e] # 0 => timer'[e] # 0 /\ timer'[e] <= timer[e]
    BY <2>1 DEF IInv, TypeOK
  <2> QED
    BY <2>1, <2>2, <2>3, <2>4, <2>5, PassCovers DEF IInv
<1> QED
  BY <1>1, <1>2

(***************************************************************************)
(* The end of a pass leaves a requeue behind, due no later than the time   *)
(* its decision is right until.                                            *)
(***************************************************************************)
LEMMA SetStatusCovers ==
    ASSUME IInv, NEW n \in Nodes, Cover(n), SetStatus
    PROVE  Cover(n)'
<1>1. CASE Failed /\ UnchangedActivity
  BY <1>1, FailedCovers DEF SetStatus, caches, UnchangedNode, IInv
<1>2. CASE ~(Failed /\ UnchangedActivity)
  <2>1. /\ rec.pc \in Setters /\ rec.e \in Enrollments /\ rec.requeue \in Int
        /\ UNCHANGED <<now, cact, cnode>> /\ UNCHANGED <<node, cnode, nodeLag, nodeEvents>>
        /\ \E obj \in Object :
              /\ obj = rec.obj \/ obj.nodeName = act[rec.e].nodeName
              /\ \/ Finished(rec.requeue)
                 \/ /\ UNCHANGED <<queue, timer>> /\ rec'.pc \in Setters
                    /\ rec'.obj = obj /\ rec'.e = rec.e /\ rec'.mode = rec.mode
                    /\ rec'.requeue = rec.requeue
    BY <1>2, SetStatusEffect
  <2>2. rec.mode # "blank" => Held(rec.e, rec.obj)
    BY <2>1 DEF IInv, PassKnows, Enrolls
  <2>3. ~Deciding(n)
    BY <2>1 DEF Deciding, Setters
  <2>4. CASE Finished(rec.requeue)
    <3>1. /\ queue' = queue /\ timer' \in [Enrollments -> Nat]
          /\ \A e \in Enrollments : timer[e] # 0 => timer'[e] # 0 /\ timer'[e] <= timer[e]
          /\ rec.requeue > 0 => timer'[rec.e] # 0 /\ timer'[rec.e] <= now + rec.requeue
      BY <2>1, <2>4, FinishedEffect DEF IInv
    <3>2. ASSUME Finishing(n) PROVE Cover(n)'
      <4>1. /\ rec.e \in DOMAIN itemsOf(cact, n) /\ rec.requeue > 0
            /\ RightUntil(n, node[n].owned, now + rec.requeue)
        BY <2>1, <3>2 DEF Finishing, PassFor, Setters
      <4>2. timer'[rec.e] # 0 /\ timer'[rec.e] <= now + rec.requeue /\ timer'[rec.e] \in Nat
        BY <2>1, <3>1, <4>1
      <4>3. now \in Nat /\ now + rec.requeue \in Int
        BY <2>1 DEF IInv, TypeOK
      <4>4. \A t \in Nat : now <= t /\ t < timer'[rec.e] => t < now + rec.requeue
        BY <4>2, <4>3
      <4>5. \A t \in Nat : now' <= t /\ t < timer'[rec.e]
               => node'[n].owned = desiredFields(itemsOf(cact', n), t)
        BY <2>1, <4>1, <4>4 DEF RightUntil
      <4>6. Steady(n)'
        BY <2>1, <4>1, <4>2, <4>5 DEF Steady, RightUntil
      <4> QED
        BY <4>6 DEF Cover
    <3> QED
      BY <2>1, <2>3, <3>1, <3>2, PassCovers DEF IInv
  <2>5. CASE ~Finished(rec.requeue)
    <3>1. PICK obj \in Object :
              /\ obj = rec.obj \/ obj.nodeName = act[rec.e].nodeName
              /\ UNCHANGED <<queue, timer>> /\ rec'.pc \in Setters
              /\ rec'.obj = obj /\ rec'.e = rec.e /\ rec'.mode = rec.mode
              /\ rec'.requeue = rec.requeue
      BY <2>1, <2>5
    <3>2. ASSUME Finishing(n) PROVE Cover(n)'
      <4>1. rec'.obj.nodeName = rec.obj.nodeName
        BY <2>2, <3>1, <3>2 DEF Finishing, Held
      <4>2. rec.pc # "update" /\ rec'.pc # "update"
        BY <2>1, <3>1 DEF Setters
      <4>3. Finishing(n)'
        BY <2>1, <3>1, <3>2, <4>1, <4>2 DEF Finishing, PassFor, RightUntil
      <4> QED
        BY <4>3 DEF Cover
    <3>3. /\ timer' \in [Enrollments -> Nat]
          /\ \A e \in Enrollments : timer[e] # 0 => timer'[e] # 0 /\ timer'[e] <= timer[e]
      BY <3>1 DEF IInv, TypeOK
    <3> QED
      BY <2>1, <2>3, <3>1, <3>2, <3>3, PassCovers DEF IInv
  <2> QED
    BY <2>4, <2>5
<1> QED
  BY <1>1, <1>2

(***************************************************************************)
(* A pass that removes a finalizer is for no live enrollment: the rest is  *)
(* as it was.                                                              *)
(***************************************************************************)
LEMMA RemoveFinalizerCovers ==
    ASSUME IInv, NEW n \in Nodes, Cover(n), RemoveFinalizer
    PROVE  Cover(n)'
<1>1. /\ rec.pc = "removeFinalizer" /\ now' = now /\ cact' = cact
      /\ UNCHANGED <<node, nodeLag, nodeEvents>> /\ (Failed \/ Finished(0))
  BY DEF RemoveFinalizer, caches, UnchangedNode
<1>2. CASE Failed
  BY <1>1, <1>2, FailedCovers DEF IInv
<1>3. CASE Finished(0)
  <2>1. /\ queue' = queue /\ timer' \in [Enrollments -> Nat]
        /\ \A e \in Enrollments : timer[e] # 0 => timer'[e] # 0 /\ timer'[e] <= timer[e]
    BY <1>3, FinishedEffect DEF IInv
  <2>2. ~(Deciding(n) \/ Finishing(n))
    BY <1>1 DEF Deciding, Finishing, Setters
  <2> QED
    BY <1>1, <2>1, <2>2, PassCovers DEF IInv
<1> QED
  BY <1>1, <1>2, <1>3
(***************************************************************************)
(* When the cache catches up, a Node either has all of its enrollments in  *)
(* the queue or is shown as before.                                        *)
(***************************************************************************)
LEMMA SyncActivitiesCovers ==
    ASSUME IInv, Covered, NEW n \in Nodes, SyncActivities,
           node'[n].exists, DOMAIN itemsOf(cact', n) # {}
    PROVE  Cover(n)'
<1> DEFINE ns == {cact[e].nodeName : e \in actLag} \cup {act[e].nodeName : e \in actLag}
<1>1. /\ cact' = act /\ act' = act /\ rec' = rec /\ now' = now /\ timer' = timer
      /\ UNCHANGED <<node, cnode, nodeLag, nodeEvents>>
      /\ queue' = queue \cup actLag \cup enrolledOn(act, ns)
  BY DEF SyncActivities
<1>2. act \in [Enrollments -> Object] /\ cact \in [Enrollments -> Object]
  BY DEF IInv, TypeOK
<1>3. n # NoNode
  BY ControllerAssumption
<1>4. CASE n \in ns
  <2>1. PICK e \in DOMAIN itemsOf(act, n) : TRUE
    BY <1>1
  <2>2. e \in Enrollments /\ act[e].phase = "live" /\ act[e].nodeName = n
    BY <1>2, <2>1, ItemsType
  <2>3. e \in queue'
    BY <1>1, <1>3, <1>4, <2>2 DEF enrolledOn
  <2> QED
    BY <1>1, <2>1, <2>3 DEF Cover, Woken
<1>5. CASE n \notin ns
  <2>1. \A e \in Enrollments :
           /\ cact[e].nodeName = n \/ act[e].nodeName = n => cact[e] = act[e]
    BY <1>5 DEF IInv, ActCurrent
  <2>2. {f \in Enrollments : act[f].phase = "live" /\ act[f].nodeName = n}
          = {f \in Enrollments : cact[f].phase = "live" /\ cact[f].nodeName = n}
    BY <2>1
  <2>3. itemsOf(act, n) = itemsOf(cact, n)
    BY <2>1, <2>2 DEF itemsOf
  <2>4. itemsOf(cact', n) = itemsOf(cact, n)
    BY <1>1, <2>3
  <2>5. Cover(n)
    BY <1>1, <2>4 DEF Covered
  <2>6. timer' \in [Enrollments -> Nat]
    BY <1>1 DEF IInv, TypeOK
  <2> HIDE DEF ns
  <2> QED
    BY <1>1, <2>4, <2>5, <2>6, OthersCover DEF IInv
<1> QED
  BY <1>4, <1>5

(***************************************************************************)
(* A Node event puts all enrollments of the Node in the queue.             *)
(***************************************************************************)
LEMMA SyncNodesCovers ==
    ASSUME IInv, NEW n \in Nodes, Cover(n), SyncNodes, DOMAIN itemsOf(cact, n) # {}
    PROVE  Cover(n)'
<1>1. /\ cact' = cact /\ rec' = rec /\ now' = now /\ timer' = timer /\ node' = node
      /\ queue' = queue \cup enrolledOn(cact, nodeEvents)
  BY DEF SyncNodes
<1>2. n \in nodeEvents => \E e \in DOMAIN itemsOf(cact, n) : e \in queue'
  <2> SUFFICES ASSUME n \in nodeEvents PROVE \E e \in DOMAIN itemsOf(cact, n) : e \in queue'
    OBVIOUS
  <2>1. PICK e \in DOMAIN itemsOf(cact, n) : TRUE
    OBVIOUS
  <2>2. e \in Enrollments /\ cact[e].phase = "live" /\ cact[e].nodeName = n
    BY <2>1, ItemsType DEF IInv, TypeOK
  <2>3. e \in queue'
    BY <1>1, <2>2, ControllerAssumption DEF enrolledOn
  <2> QED
    BY <2>3
<1>3. timer' \in [Enrollments -> Nat]
  BY <1>1 DEF IInv, TypeOK
<1> QED
  BY <1>1, <1>2, <1>3, OthersCover DEF IInv

(***************************************************************************)
(* A delayed requeue that falls due is in the queue.                       *)
(***************************************************************************)
LEMMA FireTimerCovers ==
    ASSUME IInv, NEW n \in Nodes, Cover(n), NEW e \in Enrollments, FireTimer(e)
    PROVE  Cover(n)'
<1>1. /\ cact' = cact /\ rec' = rec /\ now' = now /\ UNCHANGED <<node, nodeEvents>>
      /\ timer' = [timer EXCEPT ![e] = 0] /\ queue' = queue \cup {e}
  BY DEF FireTimer, api, caches
<1>2. /\ timer' \in [Enrollments -> Nat]
      /\ \A f \in Enrollments : f \in queue' \/ timer'[f] = timer[f]
  BY <1>1 DEF IInv, TypeOK
<1> QED
  BY <1>1, <1>2, OthersCover DEF IInv

(***************************************************************************)
(* A new process has every enrollment in its queue.                        *)
(***************************************************************************)
LEMMA RestartCovers ==
    ASSUME IInv, NEW n \in Nodes, Restart, DOMAIN itemsOf(cact', n) # {}
    PROVE  Cover(n)'
<1>1. cact' = act /\ queue' = {e \in Enrollments : act[e].phase # "absent"}
  BY DEF Restart
<1>2. PICK e \in DOMAIN itemsOf(act, n) : TRUE
  BY <1>1
<1>3. e \in Enrollments /\ act[e].phase = "live"
  BY <1>2, ItemsType DEF IInv, TypeOK
<1> QED
  BY <1>1, <1>2, <1>3 DEF Cover, Woken

(***************************************************************************)
(* Time passes between passes only, and what was right until a requeue     *)
(* stays so.                                                               *)
(***************************************************************************)
LEMMA TickCovers ==
    ASSUME Calm, IInv, NEW n \in Nodes, Cover(n), Tick
    PROVE  Cover(n)'
<1>1. /\ cact' = cact /\ now' = now + 1 /\ UNCHANGED <<node, nodeEvents>>
      /\ timer' = timer /\ queue' = queue /\ rec.pc = "idle"
  BY DEF Tick, api, caches, Calm
<1>2. CASE Woken(n)
  BY <1>1, <1>2 DEF Cover, Woken
<1>3. CASE Deciding(n) \/ Finishing(n)
  BY <1>1, <1>3 DEF Deciding, Finishing, Setters
<1>4. CASE Steady(n)
  <2>1. /\ now' \in Nat /\ now <= now' /\ timer' \in [Enrollments -> Nat]
        /\ \A e \in Enrollments : timer[e] # 0 => timer'[e] # 0 /\ timer'[e] <= timer[e]
    BY <1>1 DEF IInv, TypeOK
  <2> QED
    BY <1>1, <1>4, <2>1, SteadyCovers DEF IInv
<1> QED
  BY <1>2, <1>3, <1>4 DEF Cover

(***************************************************************************)
(* What others write to a NodeActivity the cache does not show yet, and    *)
(* what they write to a Node makes an event.                               *)
(***************************************************************************)
LEMMA UserWriteCovers ==
    ASSUME IInv, NEW n \in Nodes, Cover(n), NEW e \in Enrollments, NEW obj, UserWrite(e, obj)
    PROVE  Cover(n)'
<1> DEFINE fresh == rec.fresh /\ (rec.e # e \/ obj = act[e])
<1>1. /\ cact' = cact /\ now' = now /\ UNCHANGED <<node, nodeEvents>>
      /\ timer' = timer /\ queue' = queue /\ rec' = [rec EXCEPT !.fresh = fresh]
  BY DEF UserWrite, caches, UnchangedNode
<1> HIDE DEF fresh
<1>2. /\ rec'.pc = rec.pc /\ rec'.e = rec.e /\ rec'.obj = rec.obj /\ rec'.mode = rec.mode
      /\ rec'.requeue = rec.requeue /\ rec'.owned = rec.owned
  <2>1. rec \in Pass
    BY DEF IInv, TypeOK
  <2> QED
    BY <1>1, <2>1 DEF Pass
<1>3. timer' \in [Enrollments -> Nat]
  BY <1>1 DEF IInv, TypeOK
<1> QED
  BY <1>1, <1>2, <1>3, OthersCover DEF IInv

(***************************************************************************)
(* A write to a Node makes an event, or changes nothing.                   *)
(***************************************************************************)
LEMMA NodeWriteCovers ==
    ASSUME IInv, Covered, NEW n \in Nodes, NEW m \in Nodes, NEW obj \in NodeObject,
           NodeWrite(m, obj), node'[n].exists, DOMAIN itemsOf(cact', n) # {}
    PROVE  Cover(n)'
<1> DEFINE known == rec.nodeFresh /\ (rec.obj.nodeName # m \/ obj = node[m])
<1>1. /\ writeNode(m, obj) /\ cact' = cact /\ cnode' = cnode /\ now' = now
      /\ timer' = timer /\ queue' = queue /\ rec' = [rec EXCEPT !.nodeFresh = known]
  BY DEF NodeWrite, caches
<1>2. known \in BOOLEAN
  OBVIOUS
<1> HIDE DEF known
<1>3. /\ rec'.pc = rec.pc /\ rec'.e = rec.e /\ rec'.obj = rec.obj /\ rec'.mode = rec.mode
      /\ rec'.requeue = rec.requeue /\ rec'.owned = rec.owned
  BY <1>1, <1>2, NodeFreshPass DEF IInv
<1>4. /\ nodeEvents \subseteq nodeEvents' /\ (obj = node[m] \/ m \in nodeEvents')
      /\ node'[m] = obj /\ \A k \in Nodes : k # m => node'[k] = node[k]
  BY <1>1, WriteNodeKeeps DEF IInv
<1>5. timer' \in [Enrollments -> Nat]
  BY <1>1 DEF IInv, TypeOK
<1>6. CASE n \in nodeEvents'
  BY <1>6 DEF Cover, Woken
<1>7. CASE n \notin nodeEvents'
  <2>1. node'[n] = node[n]
    BY <1>4, <1>7
  <2>2. Cover(n)
    BY <1>1, <2>1 DEF Covered
  <2> QED
    BY <1>1, <1>3, <1>4, <1>5, <2>1, <2>2, OthersCover DEF IInv
<1> QED
  BY <1>6, <1>7

(***************************************************************************)
(* A kubelet write leaves the owned fields alone.                          *)
(***************************************************************************)
LEMMA KubeletWriteCovers ==
    ASSUME IInv, NEW n \in Nodes, Cover(n), NEW m \in Nodes, KubeletWrite(m)
    PROVE  Cover(n)'
<1> DEFINE known == rec.nodeFresh /\ rec.obj.nodeName # m
<1>1. /\ cact' = cact /\ now' = now /\ UNCHANGED <<node, nodeEvents>>
      /\ timer' = timer /\ queue' = queue /\ rec' = [rec EXCEPT !.nodeFresh = known]
  BY DEF KubeletWrite, api, caches
<1>2. known \in BOOLEAN
  OBVIOUS
<1> HIDE DEF known
<1>3. /\ rec'.pc = rec.pc /\ rec'.e = rec.e /\ rec'.obj = rec.obj /\ rec'.mode = rec.mode
      /\ rec'.requeue = rec.requeue /\ rec'.owned = rec.owned
  BY <1>1, <1>2, NodeFreshPass DEF IInv
<1>4. timer' \in [Enrollments -> Nat]
  BY <1>1 DEF IInv, TypeOK
<1> QED
  BY <1>1, <1>3, <1>4, OthersCover DEF IInv

(***************************************************************************)
(* Every step of others keeps a Node covered.                              *)
(***************************************************************************)
LEMMA EnvironmentCovers ==
    ASSUME IInv, Covered, NEW n \in Nodes, Environment,
           node'[n].exists, DOMAIN itemsOf(cact', n) # {}
    PROVE  Cover(n)'
<1>1. ASSUME NEW e \in Enrollments, NEW obj, UserWrite(e, obj) PROVE Cover(n)'
  <2>1. node' = node /\ cact' = cact
    BY <1>1 DEF UserWrite, caches, UnchangedNode
  <2>2. Cover(n)
    BY <2>1 DEF Covered
  <2> QED
    BY <1>1, <2>2, UserWriteCovers
<1>2. CASE \E e \in Enrollments :
              \/ \E m \in Nodes \cup {NoNode}, s \in Schedules : Create(e, m, s)
              \/ Delete(e)
              \/ \E r \in Reports : Report(e, r)
              \/ \E h \in Holds : Annotate(e, h)
              \/ \E s \in Schedules : EditSchedule(e, s)
  BY <1>1, <1>2 DEF Create, Delete, Report, Annotate, EditSchedule
<1>3. ASSUME NEW m \in Nodes, NEW f \in Drifts, DriftNode(m, f) PROVE Cover(n)'
  <2>1. NodeWrite(m, [node[m] EXCEPT !.owned = f])
    BY <1>3 DEF DriftNode
  <2>2. [node[m] EXCEPT !.owned = f] \in NodeObject
    BY ControllerAssumption DEF IInv, TypeOK, NodeObject
  <2> QED
    BY <2>1, <2>2, NodeWriteCovers
<1>4. ASSUME NEW m \in Nodes, KubeletWrite(m) PROVE Cover(n)'
  <2>1. node' = node /\ cact' = cact
    BY <1>4 DEF KubeletWrite, api, caches
  <2>2. Cover(n)
    BY <2>1 DEF Covered
  <2> QED
    BY <1>4, <2>2, KubeletWriteCovers
<1>5. ASSUME NEW m \in Nodes, RemoveNode(m) \/ AddNode(m) PROVE Cover(n)'
  <2>1. NoNodeObject \in NodeObject /\ [NoNodeObject EXCEPT !.exists = TRUE] \in NodeObject
    BY DEF NoNodeObject, NodeObject, Unprotected, OwnedFields, Taints
  <2> QED
    BY <1>5, <2>1, NodeWriteCovers DEF RemoveNode, AddNode
<1> QED
  BY <1>2, <1>3, <1>4, <1>5 DEF Environment

(***************************************************************************)
(* Every step keeps every Node with enrollments covered.                   *)
(***************************************************************************)
LEMMA CoveredNext ==
    ASSUME Calm PROVE CInv /\ [Next]_vars => Covered'
<1> SUFFICES ASSUME CInv, [Next]_vars,
                    NEW n \in Nodes, node'[n].exists, DOMAIN itemsOf(cact', n) # {}
             PROVE  Cover(n)'
  BY DEF Covered
<1>1. /\ IInv /\ Covered /\ Persistent(cact) /\ Punctual
  BY DEF CInv
<1>2. cact' = cact /\ node' = node => Cover(n)
  BY <1>1 DEF Covered
<1>3. ASSUME NEW e \in Enrollments, Start(e) PROVE Cover(n)'
  BY <1>1, <1>2, <1>3, StartCovers DEF Start, caches, UnchangedNode
<1>4. CASE AddFinalizer
  BY <1>1, <1>2, <1>4, AddFinalizerCovers DEF AddFinalizer, caches, UnchangedNode
<1>5. CASE reconcileHold
  BY <1>1, <1>2, <1>5, HoldCovers DEF reconcileHold, caches, UnchangedNode
<1>6. CASE Decide
  <2>1. cact' = cact /\ node' = node
    BY <1>6 DEF Decide, caches, UnchangedNode
  <2> QED
    BY <1>1, <1>2, <1>6, <2>1, DecideCovers
<1>7. CASE UpdateNode
  <2>1. cact' = cact
    BY <1>7 DEF UpdateNode, caches
  <2>2. \/ node' = node
        \/ node' = [node EXCEPT ![rec.obj.nodeName] =
                               [node[rec.obj.nodeName] EXCEPT !.owned = rec.owned]]
    BY <1>7, Zenon DEF UpdateNode, writeNode, UnchangedNode
  <2>3. node \in [Nodes -> NodeObject]
    BY <1>1 DEF IInv, TypeOK
  <2>4. node'[n].exists = node[n].exists
    <3>1. CASE n = rec.obj.nodeName /\ node' # node
      <4>1. node'[n] = [node[n] EXCEPT !.owned = rec.owned]
        BY <2>2, <2>3, <3>1
      <4>2. node[n] \in NodeObject
        BY <2>3
      <4> QED
        BY <4>1, <4>2 DEF NodeObject
    <3>2. CASE n # rec.obj.nodeName \/ node' = node
      BY <2>2, <2>3, <3>2
    <3> QED
      BY <3>1, <3>2
  <2>5. Cover(n)
    BY <1>1, <2>1, <2>4 DEF Covered
  <2> QED
    BY <1>1, <1>7, <2>5, UpdateCovers
<1>8. CASE SetStatus
  BY <1>1, <1>2, <1>8, SetStatusCovers DEF SetStatus, caches, UnchangedNode
<1>9. CASE RemoveFinalizer
  BY <1>1, <1>2, <1>9, RemoveFinalizerCovers DEF RemoveFinalizer, caches, UnchangedNode
<1>10. CASE SyncActivities
  BY <1>1, <1>10, SyncActivitiesCovers
<1>11. CASE SyncNodes
  <2>1. cact' = cact /\ node' = node
    BY <1>11 DEF SyncNodes
  <2> QED
    BY <1>1, <1>2, <1>11, <2>1, SyncNodesCovers
<1>12. ASSUME NEW e \in Enrollments, FireTimer(e) PROVE Cover(n)'
  BY <1>1, <1>2, <1>12, FireTimerCovers DEF FireTimer, api, caches
<1>13. CASE CallFails
  <2>1. /\ Failed /\ UNCHANGED <<now, cact, node, nodeLag, nodeEvents>>
    BY <1>13 DEF CallFails, caches, UnchangedNode
  <2> QED
    BY <1>1, <1>2, <2>1, FailedCovers DEF IInv
<1>14. CASE Restart
  BY <1>1, <1>14, RestartCovers
<1>15. CASE Tick
  BY <1>1, <1>2, <1>15, TickCovers DEF Tick, api, caches
<1>16. CASE Environment
  BY <1>1, <1>16, EnvironmentCovers
<1>17. CASE UNCHANGED vars
  <2>1. /\ rec' = rec /\ now' = now /\ timer' = timer /\ queue' = queue
        /\ cact' = cact /\ UNCHANGED <<node, nodeEvents>>
    BY <1>17 DEF vars
  <2>2. timer' \in [Enrollments -> Nat]
    BY <1>1, <2>1 DEF IInv, TypeOK
  <2> QED
    BY <1>1, <1>2, <2>1, <2>2, OthersCover DEF IInv
<1> QED
  BY <1>3, <1>4, <1>5, <1>6, <1>7, <1>8, <1>9, <1>10, <1>11, <1>12, <1>13, <1>14, <1>15,
     <1>16, <1>17 DEF Next, Work, Deliver

(***************************************************************************)
(* Initially no Node has enrollments.                                      *)
(***************************************************************************)
LEMMA CoveredInit ==
    ASSUME Calm PROVE Init => CInv
<1> SUFFICES ASSUME Init PROVE CInv
  OBVIOUS
<1>1. IInv
  BY InitIInv
<1>2. Persistent(act) /\ Persistent(cact)
  BY AbsentPersists DEF Init, Persistent
<1>3. Punctual
  BY DEF Init, NoPass, Punctual, Decides, Setters
<1>4. \A n \in Nodes : DOMAIN itemsOf(cact, n) = {}
  BY DEF Init, itemsOf, Absent
<1> QED
  BY <1>1, <1>2, <1>3, <1>4 DEF CInv, Covered

(***************************************************************************)
(* At rest every Node that is right until a requeue is right now.          *)
(***************************************************************************)
LEMMA ConvergedAtRest == CInv => ProtectionConverged
<1> SUFFICES ASSUME CInv, Quiet, NEW n \in Nodes, node[n].exists, DOMAIN itemsOf(act, n) # {}
             PROVE  node[n].owned = desiredFields(itemsOf(act, n), now)
  BY DEF ProtectionConverged
<1>1. act = cact
  BY DEF CInv, IInv, TypeOK, ActCurrent, Quiet
<1>2. Cover(n)
  BY <1>1 DEF CInv, Covered
<1>3. Steady(n)
  BY <1>2 DEF Cover, Woken, Deciding, Finishing, Quiet, Setters
<1>4. PICK e \in DOMAIN itemsOf(cact, n) :
          timer[e] # 0 /\ RightUntil(n, node[n].owned, timer[e])
  BY <1>3 DEF Steady
<1>5. e \in Enrollments /\ now \in Nat
  BY <1>4, ItemsType DEF CInv, IInv, TypeOK
<1>6. timer[e] > now
  BY <1>4, <1>5 DEF Quiet
<1> QED
  BY <1>1, <1>4, <1>5, <1>6 DEF RightUntil

(***************************************************************************)
(* At rest every Node with live enrollments carries the protection that    *)
(* the enrollments on the API server ask for at this moment: whatever was  *)
(* stale, lost to a conflict, failed or crashed on the way left a request, *)
(* an event or a requeue behind. This is for a policy that fails closed,   *)
(* schedules whose errors do not cure themselves, and passes that take no  *)
(* time: the requeue counts from the end of a pass, the decision from its  *)
(* beginning.                                                              *)
(***************************************************************************)
THEOREM ControllerConverges ==
    ASSUME Calm PROVE Spec => []ProtectionConverged
<1>1. Init => CInv
  BY CoveredInit
<1>2. CInv /\ [Next]_vars => CInv'
  BY NextKeeps, PersistentNext, PunctualNext, CoveredNext DEF CInv, Persistent
<1> QED
  BY <1>1, <1>2, ConvergedAtRest, PTL DEF Spec
----------------------------------------------------------------------------
(***************************************************************************)
(* What the status of an enrollment reports truthfully at a time: apart    *)
(* from its own schedule, what the enrollments the cache shows for its     *)
(* Node ask for, and whether the Node is there.                            *)
(***************************************************************************)
SaysSchedule(o) == o.st.conditions.schedule = "True" <=> scheduleInvalid(o.a.spec)

SaysHeartbeat(o, t) ==
    o.st.conditions.heartbeat = "True" <=> heartbeatFreshness(o.a.heartbeatAt, t) = "Future"

SaysMissing(o) ==
    /\ o.st.reason = "node-not-found" /\ ~o.st.admitted /\ ~o.st.burstApplied
    /\ o.st.conditions.applied = "NodeNotFound"

SaysProtection(o, items, t) ==
    LET p == protectionForNode(items, t)
        wanted == desiredFields(items, t)
    IN  /\ o.st.managedTaint = wanted.taint
        /\ o.st.admitted <=> wanted.label
        /\ o.st.burstApplied <=> wanted.burst
        /\ o.st.burstDesired <=> o.st.burstApplied
        /\ \/ o.st.reason = p.reason /\ o.st.nextTransition = p.nextTransition
           \/ o.st.reason \in Refused /\ p.reason = "stale-heartbeat"
        /\ o.st.conditions.applied = "DuplicateEnrollment" <=> p.count > 1

Truthful(o, t) ==
    /\ SaysSchedule(o) /\ SaysHeartbeat(o, t)
    /\ ~node[o.nodeName].exists => SaysMissing(o)
    /\ node[o.nodeName].exists => SaysProtection(o, itemsOf(cact, o.nodeName), t)

Told(e) ==
    IF cact[e].nodeName = NoNode
    THEN cact[e].st.reason = "invalid-enrollment" /\ ~cact[e].st.admitted /\ SaysSchedule(cact[e])
    ELSE timer[e] # 0 /\ \A t \in Nat : now <= t /\ t < timer[e] => Truthful(cact[e], t)

(***************************************************************************)
(* The pass in progress for an enrollment: once it has decided it knows    *)
(* what the enrollments of the Node ask for, and every setter behind it    *)
(* finds the status as it wants it.                                        *)
(***************************************************************************)
Behind == [status1 |-> {}, status2 |-> {"status1"}, status3 |-> {"status1", "status2"},
           status4 |-> {"status1", "status2", "status3"},
           status5 |-> {"status1", "status2", "status3", "status4"}]

KnowsNode(n) ==
    LET items == itemsOf(cact, n)
    IN  /\ n \in Nodes
        /\ rec.protection = protectionForNode(items, now)
        /\ rec.requeue = protectionRequeue(items, now)
        /\ \/ rec.mode = "missing" /\ ~node[n].exists
           \/ rec.mode = "normal" /\ node[n].exists /\ rec.owned = desiredFields(items, now)

Telling(e) ==
    /\ rec.e = e /\ rec.obj = cact[e]
    /\ rec.badSchedule = scheduleInvalid(rec.obj.a.spec)
    /\ \/ rec.pc \in {"addFinalizer", "hold", "decide"}
       \/ rec.pc = "update" /\ KnowsNode(rec.obj.nodeName)
       \/ /\ rec.pc \in Setters
          /\ \/ rec.mode = "blank" /\ rec.obj.nodeName = NoNode
             \/ KnowsNode(rec.obj.nodeName)
          /\ \A pc \in Behind[rec.pc] : wantedStatus(pc, rec.obj.st) = rec.obj.st

(***************************************************************************)
(* An event or a request that will make a pass for the enrollment.         *)
(***************************************************************************)
Asked(e) == e \in queue \cup actLag \/ cact[e].nodeName \in nodeEvents

Reported(e) == Asked(e) \/ Telling(e) \/ Told(e)

StatusCovered == \A e \in Enrollments : cact[e].phase = "live" => Reported(e)

----------------------------------------------------------------------------
(***************************************************************************)
(* A setter that finds nothing to change: the field already says it.       *)
(***************************************************************************)
LEMMA SaysAlready ==
    ASSUME NEW st \in Status
    PROVE  /\ \A v : [st EXCEPT !.conditions = v] = st => st.conditions = v
           /\ \A v : [st.conditions EXCEPT !.schedule = v] = st.conditions
                => st.conditions.schedule = v
           /\ \A v : [st.conditions EXCEPT !.heartbeat = v] = st.conditions
                => st.conditions.heartbeat = v
  BY DEF Status, Conditions

(***************************************************************************)
(* What the first setter leaves alone is reported already.                 *)
(***************************************************************************)
LEMMA ConditionSays ==
    ASSUME rec \in Pass, NEW st \in Status, setCondition(st) = st
    PROVE  /\ rec.mode = "missing" => st.conditions.applied = "NodeNotFound"
           /\ rec.mode = "normal" =>
                /\ st.managedTaint = rec.protection.taint
                /\ st.conditions.applied = "DuplicateEnrollment" <=> rec.protection.count > 1
<1> DEFINE p == rec.protection
           applied == CASE rec.mode = "blank" -> "InvalidEnrollment"
                        [] rec.mode = "missing" -> "NodeNotFound"
                        [] rec.mode = "normal" ->
                             IF p.count > 1 THEN "DuplicateEnrollment"
                             ELSE IF p.scheduled THEN "ScheduledWindow" ELSE "TaintReconciled"
           message == IF rec.mode # "normal" \/ p.count = 0 THEN "none"
                      ELSE IF p.count > 1 THEN "duplicates" ELSE p.reason
           taint == IF rec.mode = "blank" THEN NoTaint ELSE p.taint
           c1 == [st.conditions EXCEPT !.applied = applied]
           c2 == [c1 EXCEPT !.message = message]
           s1 == [st EXCEPT !.conditions = c2]
           s2 == [s1 EXCEPT !.managedTaint = taint]
<1>1. setCondition(st) = s2
  BY Zenon DEF setCondition
<1>2. /\ DOMAIN st = {"conditions", "managedTaint", "admitted", "reason", "heartbeatValid",
                      "heartbeatAge", "burstDesired", "burstApplied", "nextTransition"}
      /\ DOMAIN st.conditions = {"applied", "message", "schedule", "heartbeat", "eviction"}
  BY DEF Status, Conditions
<1> HIDE DEF applied, message, taint
<1>3. c2.applied = applied
  BY <1>2
<1> HIDE DEF c1, c2
<1>4. s2.conditions = c2 /\ s2.managedTaint = taint
  BY <1>2
<1>5. st.conditions.applied = applied /\ st.managedTaint = taint
  BY <1>1, <1>3, <1>4
<1> QED
  BY <1>5 DEF applied, taint

(***************************************************************************)
(* The same of the setter of the admission block.                          *)
(***************************************************************************)
LEMMA AdmissionSays ==
    ASSUME rec \in Pass, NEW st \in Status, setAdmission(st) = st
    PROVE  /\ st.admitted <=> rec.mode = "normal" /\ rec.owned.label
           /\ st.burstApplied <=> rec.mode = "normal" /\ BurstConfigured /\ rec.owned.burst
           /\ st.burstDesired
                <=> rec.mode # "blank" /\ BurstConfigured /\ ~policyAdmitted(rec.protection, now)
           /\ rec.mode = "blank" => st.reason = "invalid-enrollment"
           /\ rec.mode = "missing" => st.reason = "node-not-found"
           /\ rec.mode = "normal" => /\ st.reason = rec.protection.reason
                                     /\ st.nextTransition = rec.protection.nextTransition
<1> DEFINE p == rec.protection
           hb == CASE rec.mode = "blank" -> rec.obj.a.heartbeatAt
                   [] OTHER -> IF p.source = NoSource THEN 0 ELSE p.src.heartbeatAt
           admitted == rec.mode = "normal" /\ rec.owned.label
           reason == CASE rec.mode = "blank" -> "invalid-enrollment"
                       [] rec.mode = "missing" -> "node-not-found"
                       [] rec.mode = "normal" -> p.reason
           desired == rec.mode # "blank" /\ BurstConfigured /\ ~policyAdmitted(p, now)
           burst == rec.mode = "normal" /\ BurstConfigured /\ rec.owned.burst
           transition == IF rec.mode = "blank" THEN 0 ELSE p.nextTransition
           s1 == [st EXCEPT !.admitted = admitted]
           s2 == [s1 EXCEPT !.reason = reason]
           s3 == [s2 EXCEPT !.heartbeatValid = Fresh(hb, now)]
           s4 == [s3 EXCEPT !.heartbeatAge = heartbeatAge(hb, now)]
           s5 == [s4 EXCEPT !.burstDesired = desired]
           s6 == [s5 EXCEPT !.burstApplied = burst]
           s7 == [s6 EXCEPT !.nextTransition = transition]
<1>1. setAdmission(st) = s7
  BY Zenon DEF setAdmission
<1>2. DOMAIN st = {"conditions", "managedTaint", "admitted", "reason", "heartbeatValid",
                   "heartbeatAge", "burstDesired", "burstApplied", "nextTransition"}
  BY DEF Status
<1> HIDE DEF hb, admitted, reason, desired, burst, transition
<1>3. s3.admitted = admitted /\ s3.reason = reason /\ DOMAIN s3 = DOMAIN st
  BY <1>2
<1> HIDE DEF s1, s2, s3
<1>4. s5.admitted = admitted /\ s5.reason = reason /\ s5.burstDesired = desired
      /\ DOMAIN s5 = DOMAIN st
  BY <1>2, <1>3
<1> HIDE DEF s4, s5
<1>5. /\ s7.admitted = admitted /\ s7.reason = reason /\ s7.burstDesired = desired
      /\ s7.burstApplied = burst /\ s7.nextTransition = transition
  BY <1>2, <1>4
<1> HIDE DEF s6, s7
<1>6. /\ st.admitted = admitted /\ st.burstDesired = desired /\ st.burstApplied = burst
  BY <1>1, <1>5
<1>7. /\ st.reason = reason /\ st.nextTransition = transition
  BY <1>1, <1>5
<1>8. rec.mode \in {"normal", "missing", "blank"}
  BY PassFields
<1>9. /\ rec.mode = "blank" => st.reason = "invalid-enrollment"
      /\ rec.mode = "missing" => st.reason = "node-not-found"
      /\ rec.mode = "normal" => /\ st.reason = rec.protection.reason
                                /\ st.nextTransition = rec.protection.nextTransition
  BY <1>7, <1>8 DEF reason, transition
<1> QED
  BY <1>6, <1>9, Zenon DEF admitted, desired, burst

(***************************************************************************)
(* And of the setter of the schedule condition.                            *)
(***************************************************************************)
LEMMA ScheduleSays ==
    ASSUME rec \in Pass, NEW st \in Status, setScheduleCondition(st) = st
    PROVE  st.conditions.schedule = "True" <=> rec.badSchedule
<1>1. CASE rec.badSchedule
  BY <1>1, SaysAlready DEF setScheduleCondition
<1>2. CASE ~rec.badSchedule /\ st.conditions.schedule = "True"
  <2>1. [st EXCEPT !.conditions.schedule = "False"] = st
    BY <1>2 DEF setScheduleCondition
  <2>2. st.conditions.schedule = "False"
    BY <2>1, SaysAlready
  <2> QED
    BY <1>2, <2>2
<1> QED
  BY <1>1, <1>2

(***************************************************************************)
(* The heartbeat condition, which is about this moment.                    *)
(***************************************************************************)
LEMMA HeartbeatSays ==
    ASSUME rec \in Pass, NEW st \in Status, setHeartbeatCondition(st) = st
    PROVE  st.conditions.heartbeat = "True"
             <=> heartbeatFreshness(rec.obj.a.heartbeatAt, now) = "Future"
<1> DEFINE future == heartbeatFreshness(rec.obj.a.heartbeatAt, now) = "Future"
<1>1. CASE future
  BY <1>1, SaysAlready DEF setHeartbeatCondition
<1>2. CASE ~future /\ st.conditions.heartbeat = "True"
  <2>1. [st EXCEPT !.conditions.heartbeat = "False"] = st
    BY <1>2 DEF setHeartbeatCondition
  <2>2. st.conditions.heartbeat = "False"
    BY <2>1, SaysAlready
  <2> QED
    BY <1>2, <2>2
<1> QED
  BY <1>1, <1>2

(***************************************************************************)
(* A truthful status stays so until the requeue its Node asks for: what    *)
(* the enrollments want does not change before, and neither does the       *)
(* verdict on a heartbeat from the future, whose own enrollment is one of  *)
(* them.                                                                   *)
(***************************************************************************)
LEMMA TruthLasts ==
    ASSUME Calm, TypeOK, Persistent(cact), NEW e \in Enrollments, cact[e].phase = "live",
           cact[e].nodeName \in Nodes, Truthful(cact[e], now)
    PROVE  LET q == protectionRequeue(itemsOf(cact, cact[e].nodeName), now)
           IN  /\ q \in Nat /\ q > 0
               /\ \A t \in Nat : now <= t /\ t < now + q => Truthful(cact[e], t)
<1> DEFINE o == cact[e]
           n == o.nodeName
           items == itemsOf(cact, n)
           D == DOMAIN items
           q == protectionRequeue(items, now)
<1>1. /\ cact \in [Enrollments -> Object] /\ now \in Nat /\ FailClosed
      /\ o.a \in EnrollmentType
  BY ObjectFields DEF TypeOK, Calm
<1>2. /\ D \in SUBSET (Nat \ {0}) /\ items \in [D -> EnrollmentType] /\ e \in D /\ D # {}
      /\ items[e] = o.a
  BY <1>1, ItemsType
<1>3. \A f \in D : ErrorPersists(items[f].spec)
  BY <1>1, ItemsType DEF Persistent
<1> HIDE DEF items, D
<1>4. /\ q \in Nat /\ q > 0
      /\ \A u \in Nat : now <= u /\ u < now + q
           => /\ desiredFields(items, u) = desiredFields(items, now)
              /\ ReportHolds(protectionForNode(items, now), protectionForNode(items, u))
  BY <1>1, <1>2, <1>3, ProtectionStable
<1>5. q <= requeueAfter(o.a, now)
  <2> DEFINE Q == {requeueAfter(items[f], now) : f \in D}
  <2>1. \A f \in D : requeueAfter(items[f], now) \in Nat
    BY <1>1, <1>2, RequeueBounds
  <2>2. Q \in SUBSET Nat /\ Q # {} /\ requeueAfter(o.a, now) \in Q
    BY <1>2, <2>1
  <2>3. q = Least(Q)
    BY <1>2 DEF protectionRequeue
  <2> HIDE DEF Q, q
  <2> QED
    BY <2>2, <2>3, LeastIsLeast
<1> HIDE DEF q
<1>6. ASSUME NEW t \in Nat, now <= t, t < now + q PROVE Truthful(o, t)
  <2>1. SaysSchedule(o)
    BY DEF Truthful
  <2>2. SaysHeartbeat(o, t)
    <3>1. heartbeatFreshness(o.a.heartbeatAt, now) = "Future"
            => heartbeatFreshness(o.a.heartbeatAt, t) = "Future"
      <4> SUFFICES ASSUME heartbeatFreshness(o.a.heartbeatAt, now) = "Future"
                   PROVE  heartbeatFreshness(o.a.heartbeatAt, t) = "Future"
        OBVIOUS
      <4>1. admissionReason(o.a, now) = "invalid-heartbeat" /\ o.a.heartbeatAt \in Nat
        BY <1>1, ReasonType, EnrollmentFields
      <4>2. /\ now + requeueAfter(o.a, now) <= o.a.heartbeatAt - effectiveHeartbeatSkew
            /\ requeueAfter(o.a, now) \in Nat
        BY <1>1, <4>1, RequeueBounds
      <4>3. effectiveHeartbeatSkew \in Int
        BY PolicyValid DEF effectiveHeartbeatSkew
      <4>4. t < o.a.heartbeatAt - effectiveHeartbeatSkew
        BY <1>1, <1>4, <1>5, <1>6, <4>1, <4>2, <4>3
      <4> QED
        BY <1>1, <1>6, <4>1, <4>4, VerdictStable
    <3>2. heartbeatFreshness(o.a.heartbeatAt, t) = "Future"
            => heartbeatFreshness(o.a.heartbeatAt, now) = "Future"
      BY <1>1, <1>6, VerdictStable, EnrollmentFields DEF Verdicts
    <3>3. SaysHeartbeat(o, now)
      BY DEF Truthful
    <3> QED
      BY <3>1, <3>2, <3>3 DEF SaysHeartbeat
  <2>3. ASSUME node[n].exists PROVE SaysProtection(o, items, t)
    <3>1. SaysProtection(o, items, now)
      BY <2>3 DEF Truthful, items
    <3>2. /\ desiredFields(items, t) = desiredFields(items, now)
          /\ ReportHolds(protectionForNode(items, now), protectionForNode(items, t))
      BY <1>4, <1>6
    <3> QED
      BY <3>1, <3>2 DEF SaysProtection, ReportHolds, Refused
  <2> QED
    BY <2>1, <2>2, <2>3 DEF Truthful, items
<1> QED
  BY <1>4, <1>6 DEF q, items

(***************************************************************************)
(* When every setter of a pass has found the status as it wants it, the    *)
(* status is truthful.                                                     *)
(***************************************************************************)
LEMMA SettersTell ==
    ASSUME TypeOK, rec.pc \in Setters, rec.e \in Enrollments,
           rec.obj = cact[rec.e], cact[rec.e].phase = "live",
           rec.badSchedule = scheduleInvalid(rec.obj.a.spec),
           \A pc \in Setters : wantedStatus(pc, rec.obj.st) = rec.obj.st
    PROVE  /\ SaysSchedule(rec.obj) /\ SaysHeartbeat(rec.obj, now)
           /\ rec.mode = "blank" =>
                  rec.obj.st.reason = "invalid-enrollment" /\ ~rec.obj.st.admitted
           /\ rec.mode # "blank" /\ KnowsNode(rec.obj.nodeName) => Truthful(rec.obj, now)
<1> DEFINE st == rec.obj.st
           p == rec.protection
           items == itemsOf(cact, rec.obj.nodeName)
<1>1. rec \in Pass /\ st \in Status
  BY PassFields, ObjectFields DEF TypeOK
<1>2. /\ setCondition(st) = st /\ setScheduleCondition(st) = st
      /\ setHeartbeatCondition(st) = st /\ setAdmission(st) = st
  BY DEF Setters, wantedStatus
<1>3. SaysSchedule(rec.obj)
  BY <1>1, <1>2, ScheduleSays DEF SaysSchedule
<1>4. SaysHeartbeat(rec.obj, now)
  BY <1>1, <1>2, HeartbeatSays DEF SaysHeartbeat
<1>5. rec.mode = "blank" => st.reason = "invalid-enrollment" /\ ~st.admitted
  BY <1>1, <1>2, AdmissionSays
<1>6. ASSUME KnowsNode(rec.obj.nodeName), rec.mode = "missing" PROVE Truthful(rec.obj, now)
  <2>1. ~node[rec.obj.nodeName].exists
    BY <1>6 DEF KnowsNode
  <2>2. SaysMissing(rec.obj)
    BY <1>1, <1>2, <1>6, AdmissionSays, ConditionSays DEF SaysMissing
  <2> QED
    BY <1>3, <1>4, <2>1, <2>2 DEF Truthful
<1>7. ASSUME KnowsNode(rec.obj.nodeName), rec.mode = "normal" PROVE Truthful(rec.obj, now)
  <2>1. /\ node[rec.obj.nodeName].exists /\ rec.owned = desiredFields(items, now)
        /\ p = protectionForNode(items, now)
    BY <1>7 DEF KnowsNode
  <2>2. rec.owned = ownedFields(p.taint, policyAdmitted(p, now))
    BY <2>1 DEF desiredFields
  <2>3. /\ rec.owned.taint = p.taint
        /\ rec.owned.label = policyAdmitted(p, now)
        /\ rec.owned.burst = (BurstConfigured /\ ~policyAdmitted(p, now))
    <3> DEFINE admitted == policyAdmitted(p, now)
               burst == BurstConfigured /\ ~admitted
    <3>1. rec.owned = [taint |-> p.taint, label |-> admitted, burst |-> burst]
      BY <2>2, Zenon DEF ownedFields
    <3> HIDE DEF admitted, burst
    <3>2. rec.owned.taint = p.taint /\ rec.owned.label = admitted /\ rec.owned.burst = burst
      BY <3>1
    <3> QED
      BY <3>2, Zenon DEF admitted, burst
  <2>4. /\ st.managedTaint = p.taint
        /\ st.conditions.applied = "DuplicateEnrollment" <=> p.count > 1
    BY <1>1, <1>2, <1>7, ConditionSays
  <2>5. /\ st.admitted <=> rec.owned.label
        /\ st.burstApplied <=> BurstConfigured /\ rec.owned.burst
        /\ st.burstDesired <=> BurstConfigured /\ ~policyAdmitted(p, now)
        /\ st.reason = p.reason /\ st.nextTransition = p.nextTransition
    BY <1>1, <1>2, <1>7, AdmissionSays
  <2>6. SaysProtection(rec.obj, items, now)
    BY <2>1, <2>3, <2>4, <2>5, Zenon DEF SaysProtection
  <2> QED
    BY <1>3, <1>4, <2>1, <2>6 DEF Truthful
<1>8. rec.mode \in {"normal", "missing", "blank"}
  BY <1>1, PassFields
<1> QED
  BY <1>3, <1>4, <1>5, <1>6, <1>7, <1>8

(***************************************************************************)
(* A pass that ends with nothing left to write leaves a requeue behind,    *)
(* due no later than the time its status is truthful until.                *)
(***************************************************************************)
LEMMA EndTells ==
    ASSUME Calm, TypeOK, Persistent(cact), NEW e \in Enrollments, cact[e].phase = "live",
           Telling(e), rec.pc = "status5", wantedStatus(rec.pc, rec.obj.st) = rec.obj.st,
           Finished(rec.requeue), cact' = cact, node' = node, now' = now
    PROVE  Told(e)'
<1> DEFINE o == cact[e]
<1>1. /\ rec.e = e /\ rec.obj = o /\ rec.badSchedule = scheduleInvalid(rec.obj.a.spec)
      /\ (rec.mode = "blank" /\ o.nodeName = NoNode) \/ KnowsNode(o.nodeName)
      /\ \A pc \in Setters : wantedStatus(pc, rec.obj.st) = rec.obj.st
  BY DEF Telling, Setters, Behind
<1>2. /\ SaysSchedule(o)
      /\ rec.mode = "blank" => o.st.reason = "invalid-enrollment" /\ ~o.st.admitted
      /\ rec.mode # "blank" /\ KnowsNode(o.nodeName) => Truthful(o, now)
  BY <1>1, SettersTell DEF Setters
<1>3. CASE o.nodeName = NoNode
  <2>1. rec.mode = "blank"
    BY <1>1, <1>3, ControllerAssumption DEF KnowsNode
  <2> QED
    BY <1>2, <1>3, <2>1 DEF Told, SaysSchedule
<1>4. CASE o.nodeName # NoNode
  <2>1. KnowsNode(o.nodeName) /\ o.nodeName \in Nodes /\ rec.mode # "blank"
    BY <1>1, <1>4 DEF KnowsNode
  <2>2. /\ rec.requeue = protectionRequeue(itemsOf(cact, o.nodeName), now)
        /\ Truthful(o, now)
    BY <1>2, <2>1 DEF KnowsNode
  <2>3. /\ rec.requeue \in Nat /\ rec.requeue > 0
        /\ \A t \in Nat : now <= t /\ t < now + rec.requeue => Truthful(o, t)
    BY <2>1, <2>2, TruthLasts
  <2>4. timer'[e] # 0 /\ timer'[e] <= now + rec.requeue /\ timer' \in [Enrollments -> Nat]
    BY <1>1, <2>3, FinishedEffect
  <2>5. ASSUME NEW t \in Nat, now' <= t, t < timer'[e] PROVE Truthful(o, t)'
    <3>1. now <= t /\ t < now + rec.requeue
      BY <2>3, <2>4, <2>5 DEF TypeOK
    <3>2. Truthful(o, t)
      BY <2>3, <3>1
    <3> QED
      BY <3>2 DEF Truthful, SaysSchedule, SaysHeartbeat, SaysMissing, SaysProtection
  <2> QED
    BY <1>4, <2>4, <2>5 DEF Told
<1> QED
  BY <1>3, <1>4
----------------------------------------------------------------------------
(***************************************************************************)
(* The setters depend on nothing but what a pass knows and the clock.      *)
(***************************************************************************)
LEMMA WantedSame ==
    ASSUME rec'.badSchedule = rec.badSchedule, rec'.obj = rec.obj, rec'.mode = rec.mode,
           rec'.protection = rec.protection, rec'.owned = rec.owned, now' = now,
           NEW pc, NEW st
    PROVE  wantedStatus(pc, st)' = wantedStatus(pc, st)
  BY Zenon DEF wantedStatus, setCondition, setScheduleCondition, setHeartbeatCondition,
               setAdmission, setEvictionCondition

(***************************************************************************)
(* What an enrollment was told stays told while its cached copy, the       *)
(* enrollments of its Node and the Node's presence stay, and its requeue   *)
(* is not moved back.                                                      *)
(***************************************************************************)
LEMMA ToldStays ==
    ASSUME TypeOK, now' \in Nat, now <= now', NEW e \in Enrollments, Told(e),
           cact'[e] = cact[e], timer' \in [Enrollments -> Nat],
           cact[e].nodeName # NoNode =>
               /\ itemsOf(cact', cact[e].nodeName) = itemsOf(cact, cact[e].nodeName)
               /\ node'[cact[e].nodeName].exists = node[cact[e].nodeName].exists,
           timer[e] # 0 => timer'[e] # 0 /\ timer'[e] <= timer[e]
    PROVE  Told(e)'
<1> DEFINE o == cact[e]
           n == o.nodeName
<1>1. CASE n = NoNode
  BY <1>1 DEF Told, SaysSchedule
<1>2. CASE n # NoNode
  <2>1. timer[e] # 0 /\ \A t \in Nat : now <= t /\ t < timer[e] => Truthful(o, t)
    BY <1>2 DEF Told
  <2>2. /\ timer'[e] # 0 /\ timer'[e] <= timer[e] /\ timer[e] \in Nat /\ timer'[e] \in Nat
        /\ now \in Nat
    BY <2>1 DEF TypeOK
  <2>3. ASSUME NEW t \in Nat, now' <= t, t < timer'[e] PROVE Truthful(o, t)'
    <3>1. Truthful(o, t)
      BY <2>1, <2>2, <2>3
    <3>2. /\ o' = o /\ n' = n /\ itemsOf(cact, n)' = itemsOf(cact, n)
          /\ node'[n].exists = node[n].exists
      BY <1>2
    <3> QED
      BY <3>1, <3>2 DEF Truthful, SaysSchedule, SaysHeartbeat, SaysMissing, SaysProtection
  <2> QED
    BY <1>2, <2>2, <2>3 DEF Told
<1> QED
  BY <1>1, <1>2

(***************************************************************************)
(* A pass that goes on knows what it knew.                                 *)
(***************************************************************************)
LEMMA TellingStays ==
    ASSUME now' = now, NEW e \in Enrollments, Telling(e), cact'[e] = cact[e],
           cact[e].nodeName \in Nodes =>
               /\ itemsOf(cact', cact[e].nodeName) = itemsOf(cact, cact[e].nodeName)
               /\ node'[cact[e].nodeName].exists = node[cact[e].nodeName].exists,
           rec'.pc = rec.pc, rec'.e = rec.e, rec'.obj = rec.obj, rec'.mode = rec.mode,
           rec'.badSchedule = rec.badSchedule, rec'.protection = rec.protection,
           rec'.requeue = rec.requeue, rec'.owned = rec.owned
    PROVE  Telling(e)'
<1>1. \A pc, st : wantedStatus(pc, st)' = wantedStatus(pc, st)
  BY WantedSame
<1>2. rec.e = e /\ rec.obj = cact[e]
  BY DEF Telling
<1>3. KnowsNode(cact[e].nodeName) => KnowsNode(cact[e].nodeName)'
  BY DEF KnowsNode
<1>4. /\ rec'.e = e /\ rec'.obj = cact'[e]
      /\ rec'.badSchedule = scheduleInvalid(rec'.obj.a.spec)
  BY <1>2 DEF Telling
<1>5. CASE rec.pc \in {"addFinalizer", "hold", "decide"}
  BY <1>4, <1>5 DEF Telling
<1>6. CASE rec.pc = "update"
  BY <1>2, <1>3, <1>4, <1>6 DEF Telling, Setters
<1>7. CASE rec.pc \in Setters
  <2>1. \A pc \in Behind[rec.pc] : wantedStatus(pc, rec.obj.st) = rec.obj.st
    BY <1>7 DEF Telling, Setters
  <2>2. \A pc \in Behind[rec'.pc] : wantedStatus(pc, rec.obj.st)' = rec'.obj.st
    BY <1>1, <2>1
  <2>3. (rec.mode = "blank" /\ cact[e].nodeName = NoNode) \/ KnowsNode(cact[e].nodeName)
    BY <1>2, <1>7 DEF Telling, Setters
  <2> QED
    BY <1>2, <1>3, <1>4, <1>7, <2>2, <2>3 DEF Telling
<1> QED
  BY <1>5, <1>6, <1>7 DEF Telling

(***************************************************************************)
(* A step of somebody else: it leaves the pass in progress, the requeues   *)
(* and the cached copies that matter alone, or an event behind.            *)
(***************************************************************************)
LEMMA OthersReport ==
    ASSUME TypeOK, now' = now, NEW e \in Enrollments, Reported(e), cact'[e] = cact[e],
           cact[e].nodeName \in Nodes =>
               /\ itemsOf(cact', cact[e].nodeName) = itemsOf(cact, cact[e].nodeName)
               /\ node'[cact[e].nodeName].exists # node[cact[e].nodeName].exists
                    => cact[e].nodeName \in nodeEvents',
           queue \subseteq queue', e \in actLag => e \in actLag' \cup queue',
           cact[e].nodeName \in nodeEvents => cact[e].nodeName \in nodeEvents' \/ e \in queue',
           timer' \in [Enrollments -> Nat], timer[e] # 0 => e \in queue' \/ timer'[e] = timer[e],
           rec'.pc = rec.pc, rec'.e = rec.e, rec'.obj = rec.obj, rec'.mode = rec.mode,
           rec'.badSchedule = rec.badSchedule, rec'.protection = rec.protection,
           rec'.requeue = rec.requeue, rec'.owned = rec.owned
    PROVE  Reported(e)'
<1> SUFFICES ASSUME ~Asked(e)' PROVE Telling(e)' \/ Told(e)'
  BY DEF Reported
<1>1. ~Asked(e) /\ e \notin queue' /\ cact[e].nodeName \notin nodeEvents'
  BY DEF Asked
<1>2. cact[e].nodeName \in Nodes =>
          /\ itemsOf(cact', cact[e].nodeName) = itemsOf(cact, cact[e].nodeName)
          /\ node'[cact[e].nodeName].exists = node[cact[e].nodeName].exists
  BY <1>1
<1>3. cact[e].nodeName \in Nodes \cup {NoNode} /\ now \in Nat
  BY ObjectFields DEF TypeOK
<1>4. CASE Telling(e)
  BY <1>2, <1>4, TellingStays
<1>5. CASE Told(e)
  <2>1. timer[e] # 0 => timer'[e] # 0 /\ timer'[e] <= timer[e]
    BY <1>1 DEF TypeOK
  <2>2. now' \in Nat /\ now <= now'
    BY <1>3
  <2> QED
    BY <1>2, <1>3, <1>5, <2>1, <2>2, ToldStays
<1> QED
  BY <1>1, <1>4, <1>5 DEF Reported

(***************************************************************************)
(* A step of the pass: the rest is as it was.                              *)
(***************************************************************************)
LEMMA PassReports ==
    ASSUME TypeOK, now' = now, cact' = cact, NEW e \in Enrollments, Reported(e),
           queue \subseteq queue', actLag \subseteq actLag', nodeEvents \subseteq nodeEvents',
           cact[e].nodeName \in Nodes =>
               node'[cact[e].nodeName].exists = node[cact[e].nodeName].exists,
           timer' \in [Enrollments -> Nat],
           timer[e] # 0 => timer'[e] # 0 /\ timer'[e] <= timer[e],
           Telling(e) => Reported(e)'
    PROVE  Reported(e)'
<1>1. CASE Asked(e)
  BY <1>1 DEF Asked, Reported
<1>2. CASE Told(e)
  <2>1. cact[e].nodeName \in Nodes \cup {NoNode} /\ now \in Nat /\ now <= now' /\ now' \in Nat
    BY ObjectFields DEF TypeOK
  <2>2. Told(e)'
    BY <1>2, <2>1, ToldStays
  <2> QED
    BY <2>2 DEF Reported
<1> QED
  BY <1>1, <1>2 DEF Reported

(***************************************************************************)
(* A pass that fails leaves its object in the queue.                       *)
(***************************************************************************)
LEMMA FailedReports ==
    ASSUME TypeOK, Failed, now' = now, cact' = cact, NEW e \in Enrollments, Reported(e),
           UNCHANGED <<node, actLag, nodeEvents>>
    PROVE  Reported(e)'
<1>1. queue' = queue \cup {rec.e} /\ timer' = timer
  BY DEF Failed
<1>2. Telling(e) => Reported(e)'
  BY <1>1 DEF Telling, Reported, Asked
<1>3. /\ timer' \in [Enrollments -> Nat]
      /\ timer[e] # 0 => timer'[e] # 0 /\ timer'[e] <= timer[e]
  BY <1>1 DEF TypeOK
<1> QED
  BY <1>1, <1>2, <1>3, PassReports

(***************************************************************************)
(* A request that is taken from the queue becomes a pass.                  *)
(***************************************************************************)
LEMMA StartReports ==
    ASSUME IInv, NEW e \in Enrollments, cact[e].phase = "live", Reported(e),
           NEW f \in Enrollments, Start(f)
    PROVE  Reported(e)'
<1>1. /\ cact' = cact /\ UNCHANGED <<node, actLag, nodeEvents>> /\ now' = now /\ timer' = timer
      /\ rec.pc = "idle" /\ queue' = queue \ {f}
  BY DEF Start, caches, UnchangedNode, UnchangedActivity
<1>2. CASE e = f
  <2>1. /\ rec'.e = e /\ rec'.badSchedule = scheduleInvalid(cact[e].a.spec)
        /\ \/ cact[e].nodeName = NoNode /\ rec'.pc = "status1" /\ rec'.mode = "blank"
           \/ rec'.pc \in {"addFinalizer", "hold"}
    BY <1>2, StartEffect
  <2>2. rec'.obj = cact[e]
    <3>1. rec' # NoPass
      BY <2>1, ControllerAssumption DEF NoPass
    <3> QED
      BY <1>2, <3>1, StartEffect
  <2>3. Telling(e)'
    BY <1>1, <2>1, <2>2 DEF Telling, Setters, Behind
  <2> QED
    BY <2>3 DEF Reported
<1>3. CASE e # f
  <2>1. ~Telling(e)
    BY <1>1 DEF Telling, Setters
  <2>2. CASE Asked(e)
    BY <1>1, <1>3, <2>2 DEF Asked, Reported
  <2>3. CASE Told(e)
    <3>1. /\ now \in Nat /\ now <= now' /\ now' \in Nat /\ timer' \in [Enrollments -> Nat]
          /\ timer[e] # 0 => timer'[e] # 0 /\ timer'[e] <= timer[e]
      BY <1>1 DEF IInv, TypeOK
    <3>2. Told(e)'
      BY <1>1, <2>3, <3>1, ToldStays DEF IInv
    <3> QED
      BY <3>2 DEF Reported
  <2> QED
    BY <2>1, <2>2, <2>3 DEF Reported
<1> QED
  BY <1>2, <1>3

(***************************************************************************)
(* The finalizer patch changes the object, which makes an event, or is     *)
(* for a copy that has the finalizer.                                      *)
(***************************************************************************)
LEMMA AddFinalizerReports ==
    ASSUME IInv, NEW e \in Enrollments, cact[e].phase = "live", Reported(e), AddFinalizer
    PROVE  Reported(e)'
<1>1. CASE Failed /\ UnchangedActivity
  BY <1>1, FailedReports DEF AddFinalizer, caches, UnchangedNode, UnchangedActivity, IInv
<1>2. CASE ~(Failed /\ UnchangedActivity)
  <2>1. /\ UNCHANGED <<now, cact, node, nodeEvents, queue, timer>> /\ rec.e \in Enrollments
        /\ rec'.pc = "hold" /\ rec'.e = rec.e /\ rec'.badSchedule = rec.badSchedule
        /\ act[rec.e] = rec.obj /\ rec'.obj \in Object /\ writeActivity(rec.e, rec'.obj)
    BY <1>2, AddFinalizerEffect DEF Allowed
  <2>2. actLag \subseteq actLag' /\ (rec'.obj = act[rec.e] \/ rec.e \in actLag')
    BY <2>1, WriteEffect DEF IInv
  <2>3. ASSUME Telling(e) PROVE Reported(e)'
    <3>1. rec.e = e /\ rec.obj = cact[e] /\ rec.badSchedule = scheduleInvalid(rec.obj.a.spec)
      BY <2>3 DEF Telling
    <3>2. CASE e \in actLag'
      BY <3>2 DEF Reported, Asked
    <3>3. CASE rec'.obj = rec.obj
      BY <2>1, <3>1, <3>3 DEF Reported, Telling
    <3> QED
      BY <2>1, <2>2, <3>1, <3>2, <3>3
  <2>4. /\ timer' \in [Enrollments -> Nat]
        /\ timer[e] # 0 => timer'[e] # 0 /\ timer'[e] <= timer[e]
    BY <2>1 DEF IInv, TypeOK
  <2> QED
    BY <2>1, <2>2, <2>3, <2>4, PassReports DEF IInv
<1> QED
  BY <1>1, <1>2

(***************************************************************************)
(* So does the hold patch.                                                 *)
(***************************************************************************)
LEMMA HoldReports ==
    ASSUME IInv, NEW e \in Enrollments, cact[e].phase = "live", Reported(e), reconcileHold
    PROVE  Reported(e)'
<1>1. CASE Failed /\ UnchangedActivity
  BY <1>1, FailedReports DEF reconcileHold, caches, UnchangedNode, UnchangedActivity, IInv
<1>2. CASE ~(Failed /\ UnchangedActivity)
  <2>1. /\ UNCHANGED <<now, cact, node, nodeEvents, queue, timer>> /\ rec.e \in Enrollments
        /\ rec'.pc = "decide" /\ rec'.e = rec.e /\ rec'.badSchedule = rec.badSchedule
        /\ \/ UNCHANGED <<act, actLag>> /\ rec'.obj = rec.obj
           \/ rec'.obj \in Object /\ writeActivity(rec.e, rec'.obj)
    BY <1>2, HoldEffect
  <2>2. /\ actLag \subseteq actLag'
        /\ rec'.obj = rec.obj \/ rec'.obj = act[rec.e] \/ rec.e \in actLag'
    BY <2>1, WriteEffect DEF IInv
  <2>3. ASSUME Telling(e) PROVE Reported(e)'
    <3>1. rec.e = e /\ rec.obj = cact[e] /\ rec.badSchedule = scheduleInvalid(rec.obj.a.spec)
      BY <2>3 DEF Telling
    <3>2. CASE e \in actLag'
      BY <3>2 DEF Reported, Asked
    <3>3. CASE e \notin actLag'
      <4>1. act[e] = cact[e]
        BY <2>2, <3>3 DEF IInv, ActCurrent
      <4>2. rec'.obj = rec.obj
        BY <2>2, <3>1, <3>3, <4>1
      <4> QED
        BY <2>1, <3>1, <4>2 DEF Reported, Telling
    <3> QED
      BY <3>2, <3>3
  <2>4. /\ timer' \in [Enrollments -> Nat]
        /\ timer[e] # 0 => timer'[e] # 0 /\ timer'[e] <= timer[e]
    BY <2>1 DEF IInv, TypeOK
  <2> QED
    BY <2>1, <2>2, <2>3, <2>4, PassReports DEF IInv
<1> QED
  BY <1>1, <1>2

(***************************************************************************)
(* The decision is about the enrollments the cache shows, at this moment,  *)
(* and about a Node the cache shows as it is, or an event is outstanding.  *)
(***************************************************************************)
LEMMA DecideReports ==
    ASSUME IInv, Punctual, NEW e \in Enrollments, cact[e].phase = "live", Reported(e), Decide
    PROVE  Reported(e)'
<1> DEFINE n == rec.obj.nodeName
           items == itemsOf(cact, n)
<1>1. /\ rec.pc = "decide" /\ n \in Nodes
      /\ UNCHANGED <<now, cact, actLag, queue, timer, node, nodeEvents>>
      /\ rec'.e = rec.e /\ rec'.obj = rec.obj
      /\ rec'.pc \in {"update", "status1"} /\ rec'.mode \in {"normal", "missing"}
      /\ rec'.mode = "normal" <=> cnode[n].exists
      /\ rec'.badSchedule = rec.badSchedule
      /\ rec'.protection = protectionForNode(items, rec.at)
      /\ rec'.requeue = protectionRequeue(items, rec.at)
      /\ cnode[n].exists => rec'.owned = desiredFields(items, rec.at)
  BY DecideEffect
<1>2. ASSUME Telling(e) PROVE Reported(e)'
  <2>1. rec.e = e /\ rec.obj = cact[e] /\ rec.badSchedule = scheduleInvalid(rec.obj.a.spec)
    BY <1>2 DEF Telling
  <2>2. CASE n \in nodeEvents
    BY <1>1, <2>1, <2>2 DEF Reported, Asked
  <2>3. CASE n \notin nodeEvents
    <3>1. cnode[n] = node[n] /\ rec.at = now
      BY <1>1, <2>3 DEF IInv, NodeCurrent, Punctual, Decides
    <3>2. KnowsNode(n)'
      BY <1>1, <3>1 DEF KnowsNode
    <3>3. Telling(e)'
      BY <1>1, <2>1, <3>2 DEF Telling, Behind, Setters
    <3> QED
      BY <3>3 DEF Reported
  <2> QED
    BY <2>2, <2>3
<1>3. /\ timer' \in [Enrollments -> Nat]
      /\ timer[e] # 0 => timer'[e] # 0 /\ timer'[e] <= timer[e]
  BY <1>1 DEF IInv, TypeOK
<1> QED
  BY <1>1, <1>2, <1>3, PassReports DEF IInv

(***************************************************************************)
(* The Update changes fields of the Node, not its presence.                *)
(***************************************************************************)
LEMMA UpdateReports ==
    ASSUME IInv, NEW e \in Enrollments, cact[e].phase = "live", Reported(e), UpdateNode
    PROVE  Reported(e)'
<1>1. CASE Failed /\ UnchangedNode
  BY <1>1, FailedReports DEF UpdateNode, caches, UnchangedNode, UnchangedActivity, IInv
<1>2. CASE ~(Failed /\ UnchangedNode)
  <2> DEFINE n == rec.obj.nodeName
             obj == [node[n] EXCEPT !.owned = rec.owned]
  <2>1. /\ rec.pc \in {"update", "release"} /\ n \in Nodes
        /\ UNCHANGED <<now, cact, actLag, queue, timer>>
        /\ obj \in NodeObject /\ obj.exists = node[n].exists /\ writeNode(n, obj)
        /\ rec'.e = rec.e /\ rec'.obj = rec.obj /\ rec'.mode = rec.mode
        /\ rec'.requeue = rec.requeue /\ rec'.badSchedule = rec.badSchedule
        /\ rec'.protection = rec.protection /\ rec'.owned = rec.owned
        /\ rec'.pc = IF rec.pc = "update" THEN "status1" ELSE "removeFinalizer"
    BY <1>2, UpdateEffect
  <2> HIDE DEF obj
  <2>2. /\ nodeEvents \subseteq nodeEvents' /\ node'[n] = obj
        /\ \A m \in Nodes : m # n => node'[m] = node[m]
    BY <2>1, WriteNodeKeeps DEF UpdateNode, caches, IInv
  <2>3. \A m \in Nodes : node'[m].exists = node[m].exists
    BY <2>1, <2>2
  <2>4. ASSUME Telling(e) PROVE Reported(e)'
    <3>1. /\ rec.e = e /\ rec.obj = cact[e] /\ rec.badSchedule = scheduleInvalid(rec.obj.a.spec)
          /\ rec.pc = "update" /\ KnowsNode(n)
      BY <2>1, <2>4 DEF Telling, Setters
    <3>2. KnowsNode(n)'
      BY <2>1, <2>3, <3>1 DEF KnowsNode
    <3>3. Telling(e)'
      BY <2>1, <3>1, <3>2 DEF Telling, Behind, Setters
    <3> QED
      BY <3>3 DEF Reported
  <2>5. /\ timer' \in [Enrollments -> Nat]
        /\ timer[e] # 0 => timer'[e] # 0 /\ timer'[e] <= timer[e]
    BY <2>1 DEF IInv, TypeOK
  <2> QED
    BY <2>1, <2>2, <2>3, <2>4, <2>5, PassReports DEF IInv
<1> QED
  BY <1>1, <1>2

(***************************************************************************)
(* A setter that writes makes an event, for the pass has the copy the      *)
(* server has; one that does not has found what it wants, and the last one *)
(* leaves a requeue behind.                                                *)
(***************************************************************************)
LEMMA SetStatusReports ==
    ASSUME Calm, IInv, Persistent(cact),
           NEW e \in Enrollments, cact[e].phase = "live", Reported(e), SetStatus
    PROVE  Reported(e)'
<1>1. CASE Failed /\ UnchangedActivity
  BY <1>1, FailedReports DEF SetStatus, caches, UnchangedNode, UnchangedActivity, IInv
<1>2. CASE ~(Failed /\ UnchangedActivity)
  <2>1. PICK obj \in Object :
           /\ \/ /\ UNCHANGED <<act, actLag>> /\ obj = rec.obj
                 /\ wantedStatus(rec.pc, obj.st) = obj.st
              \/ writeActivity(rec.e, obj) /\ (act[rec.e] = rec.obj => obj # act[rec.e])
           /\ \/ rec.pc = "status5" /\ Finished(rec.requeue)
              \/ /\ UNCHANGED <<queue, timer>> /\ rec.pc # "status5" /\ rec'.pc = nextStep[rec.pc]
                 /\ rec'.obj = obj /\ rec'.e = rec.e /\ rec'.mode = rec.mode
                 /\ rec'.requeue = rec.requeue /\ rec'.owned = rec.owned
                 /\ rec'.protection = rec.protection /\ rec'.badSchedule = rec.badSchedule
    BY <1>2, SetStatusEffect
  <2>2. /\ rec.pc \in Setters /\ rec.e \in Enrollments /\ rec.requeue \in Int
        /\ UNCHANGED <<now, cact, node, nodeEvents>>
    BY <1>2, SetStatusEffect
  <2>3. actLag \subseteq actLag' /\ (act' = act \/ obj = act[rec.e] \/ rec.e \in actLag')
    BY <2>1, <2>2, WriteEffect DEF IInv
  <2>4. /\ timer' \in [Enrollments -> Nat] /\ queue' = queue
        /\ timer[e] # 0 => timer'[e] # 0 /\ timer'[e] <= timer[e]
    <3>1. CASE Finished(rec.requeue)
      BY <2>2, <3>1, FinishedEffect DEF IInv
    <3>2. CASE ~Finished(rec.requeue)
      BY <2>1, <3>2 DEF IInv, TypeOK
    <3> QED
      BY <3>1, <3>2
  <2>5. ASSUME Telling(e), e \notin actLag' PROVE Reported(e)'
    <3>1. rec.e = e /\ rec.obj = cact[e] /\ rec.badSchedule = scheduleInvalid(rec.obj.a.spec)
      BY <2>5 DEF Telling
    <3>2. act[e] = cact[e]
      BY <2>3, <2>5 DEF IInv, ActCurrent
    <3>3. obj = rec.obj /\ wantedStatus(rec.pc, rec.obj.st) = rec.obj.st
      <4>1. ASSUME writeActivity(rec.e, obj), act[rec.e] = rec.obj => obj # act[rec.e] PROVE FALSE
        BY <2>2, <2>5, <3>1, <3>2, <4>1, WriteEffect DEF IInv
      <4> QED
        BY <2>1, <4>1
    <3>4. CASE rec.pc = "status5" /\ Finished(rec.requeue)
      BY <2>2, <2>5, <3>3, <3>4, EndTells DEF IInv, Reported
    <3>5. CASE ~(rec.pc = "status5" /\ Finished(rec.requeue))
      <4>1. /\ rec.pc # "status5" /\ rec'.pc = nextStep[rec.pc]
            /\ rec'.obj = rec.obj /\ rec'.e = rec.e /\ rec'.mode = rec.mode
            /\ rec'.requeue = rec.requeue /\ rec'.owned = rec.owned
            /\ rec'.protection = rec.protection /\ rec'.badSchedule = rec.badSchedule
        BY <2>1, <3>3, <3>5
      <4>2. rec'.pc \in Setters /\ Behind[rec'.pc] = Behind[rec.pc] \cup {rec.pc}
        BY <2>2, <4>1 DEF Setters, Behind, nextStep
      <4>3. \A pc \in Behind[rec.pc] : wantedStatus(pc, rec.obj.st) = rec.obj.st
        BY <2>2, <2>5 DEF Telling, Setters
      <4>4. \A pc, st : wantedStatus(pc, st)' = wantedStatus(pc, st)
        BY <2>2, <4>1, WantedSame
      <4>5. \A pc \in Behind[rec'.pc] : wantedStatus(pc, rec.obj.st)' = rec'.obj.st
        BY <3>3, <4>1, <4>2, <4>3, <4>4
      <4>6. (rec.mode = "blank" /\ rec.obj.nodeName = NoNode) \/ KnowsNode(rec.obj.nodeName)
        BY <2>2, <2>5 DEF Telling, Setters
      <4>7. KnowsNode(rec.obj.nodeName) => KnowsNode(rec.obj.nodeName)'
        BY <2>2, <4>1 DEF KnowsNode
      <4>8. Telling(e)'
        BY <2>2, <3>1, <4>1, <4>2, <4>5, <4>6, <4>7 DEF Telling
      <4> QED
        BY <4>8 DEF Reported
    <3> QED
      BY <3>4, <3>5
  <2>6. Telling(e) => Reported(e)'
    BY <2>5 DEF Reported, Asked
  <2> QED
    BY <2>2, <2>3, <2>4, <2>6, PassReports DEF IInv
<1> QED
  BY <1>1, <1>2

(***************************************************************************)
(* A pass that removes a finalizer is for no live enrollment.              *)
(***************************************************************************)
LEMMA RemoveFinalizerReports ==
    ASSUME IInv, NEW e \in Enrollments, cact[e].phase = "live", Reported(e), RemoveFinalizer
    PROVE  Reported(e)'
<1>1. /\ rec.pc = "removeFinalizer" /\ now' = now /\ cact' = cact /\ UNCHANGED <<node, nodeEvents>>
      /\ \/ Failed /\ actLag' = actLag
         \/ Finished(0) /\ writeActivity(rec.e, Absent)
  BY DEF RemoveFinalizer, caches, UnchangedNode, UnchangedActivity
<1>2. CASE Failed /\ actLag' = actLag
  BY <1>1, <1>2, FailedReports DEF IInv
<1>3. CASE Finished(0) /\ writeActivity(rec.e, Absent)
  <2>1. /\ queue' = queue /\ timer' \in [Enrollments -> Nat]
        /\ timer[e] # 0 => timer'[e] # 0 /\ timer'[e] <= timer[e]
    BY <1>3, FinishedEffect DEF IInv
  <2>2. ~Telling(e) /\ actLag \subseteq actLag'
    BY <1>1, <1>3 DEF Telling, Setters, writeActivity
  <2> QED
    BY <1>1, <2>1, <2>2, PassReports DEF IInv
<1> QED
  BY <1>1, <1>2, <1>3

(***************************************************************************)
(* When the cache catches up, an enrollment is in the queue or it and all  *)
(* enrollments of its Node are shown as before.                            *)
(***************************************************************************)
LEMMA SyncActivitiesReports ==
    ASSUME IInv, StatusCovered, NEW e \in Enrollments, cact'[e].phase = "live", SyncActivities
    PROVE  Reported(e)'
<1> DEFINE ns == {cact[f].nodeName : f \in actLag} \cup {act[f].nodeName : f \in actLag}
           n == act[e].nodeName
<1>1. /\ cact' = act /\ rec' = rec /\ now' = now /\ timer' = timer
      /\ UNCHANGED <<node, nodeEvents>>
      /\ queue' = queue \cup actLag \cup enrolledOn(act, ns)
  BY DEF SyncActivities
<1>2. CASE e \in actLag \/ n \in ns \ {NoNode}
  BY <1>1, <1>2 DEF enrolledOn, Reported, Asked
<1>3. CASE e \notin actLag /\ n \notin ns \ {NoNode}
  <2>1. act[e] = cact[e] /\ Reported(e)
    BY <1>1, <1>3 DEF IInv, ActCurrent, StatusCovered, Reported
  <2>2. ASSUME n # NoNode PROVE itemsOf(cact', n) = itemsOf(cact, n)
    <3>1. \A f \in Enrollments :
             /\ cact[f].nodeName = n \/ act[f].nodeName = n => cact[f] = act[f]
      BY <1>3, <2>2 DEF IInv, ActCurrent
    <3>2. {f \in Enrollments : act[f].phase = "live" /\ act[f].nodeName = n}
            = {f \in Enrollments : cact[f].phase = "live" /\ cact[f].nodeName = n}
      BY <3>1
    <3>3. itemsOf(act, n) = itemsOf(cact, n)
      BY <3>1, <3>2 DEF itemsOf
    <3> QED
      BY <1>1, <3>3
  <2>3. timer' \in [Enrollments -> Nat]
    BY <1>1 DEF IInv, TypeOK
  <2>4. queue \subseteq queue' /\ cact'[e] = cact[e]
    BY <1>1, <2>1
  <2>5. cact[e].nodeName \in Nodes =>
            itemsOf(cact', cact[e].nodeName) = itemsOf(cact, cact[e].nodeName)
    BY <2>1, <2>2, ControllerAssumption
  <2> HIDE DEF ns, n
  <2> QED
    BY <1>1, <1>3, <2>1, <2>3, <2>4, <2>5, OthersReport DEF IInv
<1> QED
  BY <1>2, <1>3

(***************************************************************************)
(* A Node event puts all enrollments of the Node in the queue.             *)
(***************************************************************************)
LEMMA SyncNodesReports ==
    ASSUME IInv, NEW e \in Enrollments, cact[e].phase = "live", Reported(e), SyncNodes
    PROVE  Reported(e)'
<1>1. /\ cact' = cact /\ rec' = rec /\ now' = now /\ timer' = timer /\ node' = node
      /\ actLag' = actLag /\ queue' = queue \cup enrolledOn(cact, nodeEvents)
  BY DEF SyncNodes
<1>2. cact[e].nodeName \in nodeEvents => e \in queue'
  BY <1>1, ControllerAssumption DEF enrolledOn, IInv, TypeOK
<1>3. timer' \in [Enrollments -> Nat]
  BY <1>1 DEF IInv, TypeOK
<1> QED
  BY <1>1, <1>2, <1>3, OthersReport DEF IInv

(***************************************************************************)
(* A delayed requeue that falls due is in the queue.                       *)
(***************************************************************************)
LEMMA FireTimerReports ==
    ASSUME IInv, NEW e \in Enrollments, cact[e].phase = "live", Reported(e),
           NEW f \in Enrollments, FireTimer(f)
    PROVE  Reported(e)'
<1>1. /\ cact' = cact /\ rec' = rec /\ now' = now /\ UNCHANGED <<node, actLag, nodeEvents>>
      /\ timer' = [timer EXCEPT ![f] = 0] /\ queue' = queue \cup {f}
  BY DEF FireTimer, api, caches
<1>2. /\ timer' \in [Enrollments -> Nat]
      /\ e \in queue' \/ timer'[e] = timer[e]
  BY <1>1 DEF IInv, TypeOK
<1> QED
  BY <1>1, <1>2, OthersReport DEF IInv

(***************************************************************************)
(* Time passes between passes only.                                        *)
(***************************************************************************)
LEMMA TickReports ==
    ASSUME Calm, IInv, NEW e \in Enrollments, cact[e].phase = "live", Reported(e), Tick
    PROVE  Reported(e)'
<1>1. /\ cact' = cact /\ now' = now + 1 /\ UNCHANGED <<node, actLag, nodeEvents>>
      /\ timer' = timer /\ queue' = queue /\ rec.pc = "idle"
  BY DEF Tick, api, caches, Calm
<1>2. CASE Asked(e)
  BY <1>1, <1>2 DEF Asked, Reported
<1>3. CASE Telling(e)
  BY <1>1, <1>3 DEF Telling, Setters
<1>4. CASE Told(e)
  <2>1. /\ now' \in Nat /\ now <= now' /\ timer' \in [Enrollments -> Nat]
        /\ timer[e] # 0 => timer'[e] # 0 /\ timer'[e] <= timer[e]
    BY <1>1 DEF IInv, TypeOK
  <2>2. Told(e)'
    BY <1>1, <1>4, <2>1, ToldStays DEF IInv
  <2> QED
    BY <2>2 DEF Reported
<1> QED
  BY <1>2, <1>3, <1>4 DEF Reported

(***************************************************************************)
(* What others write to a NodeActivity makes an event.                     *)
(***************************************************************************)
LEMMA UserWriteReports ==
    ASSUME IInv, NEW e \in Enrollments, cact[e].phase = "live", Reported(e),
           NEW f \in Enrollments, NEW obj, UserWrite(f, obj)
    PROVE  Reported(e)'
<1> DEFINE fresh == rec.fresh /\ (rec.e # f \/ obj = act[f])
<1>1. /\ cact' = cact /\ now' = now /\ UNCHANGED <<node, nodeEvents>> /\ actLag \subseteq actLag'
      /\ timer' = timer /\ queue' = queue /\ rec' = [rec EXCEPT !.fresh = fresh]
  BY DEF UserWrite, writeActivity, caches, UnchangedNode
<1> HIDE DEF fresh
<1>2. /\ rec'.pc = rec.pc /\ rec'.e = rec.e /\ rec'.obj = rec.obj /\ rec'.mode = rec.mode
      /\ rec'.badSchedule = rec.badSchedule /\ rec'.protection = rec.protection
      /\ rec'.requeue = rec.requeue /\ rec'.owned = rec.owned
  <2>1. rec \in Pass
    BY DEF IInv, TypeOK
  <2> QED
    BY <1>1, <2>1 DEF Pass
<1>3. timer' \in [Enrollments -> Nat]
  BY <1>1 DEF IInv, TypeOK
<1> QED
  BY <1>1, <1>2, <1>3, OthersReport DEF IInv

(***************************************************************************)
(* A write to a Node that changes its presence makes an event.             *)
(***************************************************************************)
LEMMA NodeWriteReports ==
    ASSUME IInv, NEW e \in Enrollments, cact[e].phase = "live", Reported(e),
           NEW m \in Nodes, NEW obj \in NodeObject, NodeWrite(m, obj)
    PROVE  Reported(e)'
<1> DEFINE known == rec.nodeFresh /\ (rec.obj.nodeName # m \/ obj = node[m])
<1>1. /\ writeNode(m, obj) /\ cact' = cact /\ cnode' = cnode /\ now' = now /\ actLag' = actLag
      /\ timer' = timer /\ queue' = queue /\ rec' = [rec EXCEPT !.nodeFresh = known]
  BY DEF NodeWrite, caches, UnchangedActivity
<1>2. known \in BOOLEAN /\ rec \in Pass
  BY DEF IInv, TypeOK
<1> HIDE DEF known
<1>3. /\ rec'.pc = rec.pc /\ rec'.e = rec.e /\ rec'.obj = rec.obj /\ rec'.mode = rec.mode
      /\ rec'.badSchedule = rec.badSchedule /\ rec'.protection = rec.protection
      /\ rec'.requeue = rec.requeue /\ rec'.owned = rec.owned
  BY <1>1, <1>2 DEF Pass
<1>4. /\ nodeEvents \subseteq nodeEvents' /\ (obj = node[m] \/ m \in nodeEvents')
      /\ node'[m] = obj /\ \A k \in Nodes : k # m => node'[k] = node[k]
  BY <1>1, WriteNodeKeeps DEF IInv
<1>5. \A k \in Nodes : node'[k].exists # node[k].exists => k \in nodeEvents'
  BY <1>4
<1>6. timer' \in [Enrollments -> Nat]
  BY <1>1 DEF IInv, TypeOK
<1> QED
  BY <1>1, <1>3, <1>4, <1>5, <1>6, OthersReport DEF IInv

(***************************************************************************)
(* A kubelet write changes nothing that matters here.                      *)
(***************************************************************************)
LEMMA KubeletWriteReports ==
    ASSUME IInv, NEW e \in Enrollments, cact[e].phase = "live", Reported(e),
           NEW m \in Nodes, KubeletWrite(m)
    PROVE  Reported(e)'
<1> DEFINE known == rec.nodeFresh /\ rec.obj.nodeName # m
<1>1. /\ cact' = cact /\ now' = now /\ UNCHANGED <<node, nodeEvents, actLag>>
      /\ timer' = timer /\ queue' = queue /\ rec' = [rec EXCEPT !.nodeFresh = known]
  BY DEF KubeletWrite, api, caches
<1>2. known \in BOOLEAN /\ rec \in Pass
  BY DEF IInv, TypeOK
<1> HIDE DEF known
<1>3. /\ rec'.pc = rec.pc /\ rec'.e = rec.e /\ rec'.obj = rec.obj /\ rec'.mode = rec.mode
      /\ rec'.badSchedule = rec.badSchedule /\ rec'.protection = rec.protection
      /\ rec'.requeue = rec.requeue /\ rec'.owned = rec.owned
  BY <1>1, <1>2 DEF Pass
<1>4. timer' \in [Enrollments -> Nat]
  BY <1>1 DEF IInv, TypeOK
<1> QED
  BY <1>1, <1>3, <1>4, OthersReport DEF IInv

(***************************************************************************)
(* Every step of others keeps every enrollment reported.                   *)
(***************************************************************************)
LEMMA EnvironmentReports ==
    ASSUME IInv, NEW e \in Enrollments, cact[e].phase = "live", Reported(e), Environment
    PROVE  Reported(e)'
<1>1. CASE \E f \in Enrollments :
              \/ \E m \in Nodes \cup {NoNode}, s \in Schedules : Create(f, m, s)
              \/ Delete(f)
              \/ \E r \in Reports : Report(f, r)
              \/ \E h \in Holds : Annotate(f, h)
              \/ \E s \in Schedules : EditSchedule(f, s)
  BY <1>1, UserWriteReports DEF Create, Delete, Report, Annotate, EditSchedule
<1>2. ASSUME NEW m \in Nodes, NEW f \in Drifts, DriftNode(m, f) PROVE Reported(e)'
  <2>1. NodeWrite(m, [node[m] EXCEPT !.owned = f])
    BY <1>2 DEF DriftNode
  <2>2. [node[m] EXCEPT !.owned = f] \in NodeObject
    BY ControllerAssumption DEF IInv, TypeOK, NodeObject
  <2> QED
    BY <2>1, <2>2, NodeWriteReports
<1>3. ASSUME NEW m \in Nodes, RemoveNode(m) \/ AddNode(m) PROVE Reported(e)'
  <2>1. NoNodeObject \in NodeObject /\ [NoNodeObject EXCEPT !.exists = TRUE] \in NodeObject
    BY DEF NoNodeObject, NodeObject, Unprotected, OwnedFields, Taints
  <2> QED
    BY <1>3, <2>1, NodeWriteReports DEF RemoveNode, AddNode
<1> QED
  BY <1>1, <1>2, <1>3, KubeletWriteReports DEF Environment

(***************************************************************************)
(* Every step keeps every live enrollment reported, or about to be.        *)
(***************************************************************************)
LEMMA StatusCoveredNext ==
    ASSUME Calm PROVE CInv /\ StatusCovered /\ [Next]_vars => StatusCovered'
<1> SUFFICES ASSUME CInv, StatusCovered, [Next]_vars,
                    NEW e \in Enrollments, cact'[e].phase = "live"
             PROVE  Reported(e)'
  BY DEF StatusCovered
<1>1. IInv /\ Persistent(cact) /\ Punctual
  BY DEF CInv
<1>2. cact' = cact => cact[e].phase = "live" /\ Reported(e)
  BY DEF StatusCovered, Reported
<1>3. ASSUME NEW f \in Enrollments, Start(f) PROVE Reported(e)'
  BY <1>1, <1>2, <1>3, StartReports DEF Start, caches
<1>4. CASE AddFinalizer
  BY <1>1, <1>2, <1>4, AddFinalizerReports DEF AddFinalizer, caches
<1>5. CASE reconcileHold
  BY <1>1, <1>2, <1>5, HoldReports DEF reconcileHold, caches
<1>6. CASE Decide
  BY <1>1, <1>2, <1>6, DecideReports DEF Decide, caches
<1>7. CASE UpdateNode
  BY <1>1, <1>2, <1>7, UpdateReports DEF UpdateNode, caches
<1>8. CASE SetStatus
  BY <1>1, <1>2, <1>8, SetStatusReports DEF SetStatus, caches
<1>9. CASE RemoveFinalizer
  BY <1>1, <1>2, <1>9, RemoveFinalizerReports DEF RemoveFinalizer, caches
<1>10. CASE SyncActivities
  BY <1>1, <1>10, SyncActivitiesReports
<1>11. CASE SyncNodes
  BY <1>1, <1>2, <1>11, SyncNodesReports DEF SyncNodes
<1>12. ASSUME NEW f \in Enrollments, FireTimer(f) PROVE Reported(e)'
  BY <1>1, <1>2, <1>12, FireTimerReports DEF FireTimer, caches
<1>13. CASE CallFails
  <2>1. Failed /\ UNCHANGED <<now, cact, node, actLag, nodeEvents>>
    BY <1>13 DEF CallFails, caches, UnchangedNode, UnchangedActivity
  <2> QED
    BY <1>1, <1>2, <2>1, FailedReports DEF IInv
<1>14. CASE Restart
  BY <1>14 DEF Restart, Reported, Asked
<1>15. CASE Tick
  BY <1>1, <1>2, <1>15, TickReports DEF Tick, caches
<1>16. CASE Environment
  <2>1. cact' = cact
    BY <1>16 DEF Environment, Create, Delete, Report, Annotate, EditSchedule, DriftNode,
                 KubeletWrite, RemoveNode, AddNode, UserWrite, NodeWrite, caches
  <2> QED
    BY <1>1, <1>2, <1>16, <2>1, EnvironmentReports
<1>17. CASE UNCHANGED vars
  <2>1. /\ rec' = rec /\ now' = now /\ timer' = timer /\ queue' = queue /\ actLag' = actLag
        /\ cact' = cact /\ UNCHANGED <<node, nodeEvents>>
    BY <1>17 DEF vars
  <2>2. timer' \in [Enrollments -> Nat]
    BY <1>1, <2>1 DEF IInv, TypeOK
  <2> QED
    BY <1>1, <1>2, <2>1, <2>2, OthersReport DEF IInv
<1> QED
  BY <1>3, <1>4, <1>5, <1>6, <1>7, <1>8, <1>9, <1>10, <1>11, <1>12, <1>13, <1>14, <1>15,
     <1>16, <1>17 DEF Next, Work, Deliver

(***************************************************************************)
(* At rest the status of every live enrollment is truthful: about its own  *)
(* schedule and heartbeat, about the presence of its Node, and about the   *)
(* fields the Node really carries. A write that a stale copy or a conflict *)
(* spoils leaves an event or a request behind, and a pass whose five       *)
(* setters all find nothing to change has looked at the enrollments the    *)
(* server has. In the setting of ControllerConverges.                      *)
(***************************************************************************)
THEOREM ControllerTells ==
    ASSUME Calm PROVE Spec => []StatusTruthful
<1> DEFINE SInv == CInv /\ StatusCovered
<1>1. Init => SInv
  BY CoveredInit DEF StatusCovered, Init, Absent
<1>2. SInv /\ [Next]_vars => SInv'
  BY NextKeeps, PersistentNext, PunctualNext, CoveredNext, StatusCoveredNext DEF CInv, Persistent
<1>3. SInv => StatusTruthful
  <2> SUFFICES ASSUME SInv, Quiet, NEW e \in Enrollments, act[e].phase = "live"
               PROVE
         LET n  == act[e].nodeName
             st == act[e].st
             p  == protectionForNode(itemsOf(act, n), now)
             schedule == (st.conditions.schedule = "True") = scheduleInvalid(act[e].a.spec)
             heartbeat ==
               (st.conditions.heartbeat = "True")
                 = (heartbeatFreshness(act[e].a.heartbeatAt, now) = "Future")
         IN  CASE n = NoNode ->
                    st.reason = "invalid-enrollment" /\ ~st.admitted /\ schedule
               [] n # NoNode /\ ~node[n].exists ->
                    /\ st.reason = "node-not-found" /\ ~st.admitted /\ ~st.burstApplied
                    /\ st.conditions.applied = "NodeNotFound"
                    /\ schedule /\ heartbeat
               [] OTHER ->
                    /\ st.managedTaint = node[n].owned.taint
                    /\ st.admitted = node[n].owned.label
                    /\ st.burstApplied = node[n].owned.burst
                    /\ st.burstDesired = st.burstApplied
                    /\ \/ st.reason = p.reason /\ st.nextTransition = p.nextTransition
                       \/ st.reason \in Refused /\ p.reason = "stale-heartbeat"
                    /\ (st.conditions.applied = "DuplicateEnrollment") = (p.count > 1)
                    /\ schedule /\ heartbeat
    BY DEF StatusTruthful
  <2> DEFINE o == act[e]
             n == o.nodeName
             items == itemsOf(act, n)
             p == protectionForNode(items, now)
  <2>1. act = cact /\ now \in Nat /\ o \in Object
    BY DEF CInv, IInv, TypeOK, ActCurrent, Quiet
  <2>2. Told(e)
    BY <2>1, ObjectFields, ControllerAssumption
       DEF StatusCovered, Reported, Asked, Telling, Quiet, Setters
  <2>3. CASE n = NoNode
    BY <2>1, <2>2, <2>3 DEF Told, SaysSchedule, scheduleInvalid
  <2>4. CASE n # NoNode
    <3>1. Truthful(o, now) /\ n \in Nodes
      BY <2>1, <2>2, <2>4, ObjectFields DEF Told, Quiet
    <3>2. /\ (o.st.conditions.schedule = "True") = scheduleInvalid(o.a.spec)
          /\ (o.st.conditions.heartbeat = "True")
               = (heartbeatFreshness(o.a.heartbeatAt, now) = "Future")
      BY <3>1 DEF Truthful, SaysSchedule, SaysHeartbeat, scheduleInvalid
    <3>3. CASE ~node[n].exists
      BY <2>4, <3>1, <3>2, <3>3 DEF Truthful, SaysMissing
    <3>4. CASE node[n].exists
      <4>1. SaysProtection(o, items, now)
        BY <2>1, <3>1, <3>4 DEF Truthful
      <4>2. e \in DOMAIN items
        BY <2>1, ItemsType DEF CInv, IInv, TypeOK
      <4>3. node[n].owned = desiredFields(items, now)
        BY <3>1, <3>4, <4>2, ConvergedAtRest DEF ProtectionConverged
      <4>4. /\ o.st.managedTaint = node[n].owned.taint
            /\ o.st.admitted = node[n].owned.label
            /\ o.st.burstApplied = node[n].owned.burst
            /\ o.st.burstDesired = o.st.burstApplied
        <5>1. /\ o.st.admitted \in BOOLEAN /\ o.st.burstApplied \in BOOLEAN
              /\ o.st.burstDesired \in BOOLEAN
              /\ node[n].owned.label \in BOOLEAN /\ node[n].owned.burst \in BOOLEAN
          BY <2>1, <3>1, ObjectFields DEF Status, CInv, IInv, TypeOK, NodeObject, OwnedFields
        <5>2. /\ o.st.managedTaint = node[n].owned.taint
              /\ o.st.admitted <=> node[n].owned.label
              /\ o.st.burstApplied <=> node[n].owned.burst
              /\ o.st.burstDesired <=> o.st.burstApplied
          BY <4>1, <4>3 DEF SaysProtection
        <5> QED
          BY <5>1, <5>2, Zenon
      <4>5. /\ \/ o.st.reason = p.reason /\ o.st.nextTransition = p.nextTransition
               \/ o.st.reason \in Refused /\ p.reason = "stale-heartbeat"
            /\ (o.st.conditions.applied = "DuplicateEnrollment") = (p.count > 1)
        BY <4>1 DEF SaysProtection
      <4> QED
        BY <2>4, <3>2, <3>4, <4>4, <4>5
    <3> QED
      BY <3>3, <3>4
  <2> QED
    BY <2>3, <2>4
<1> QED
  BY <1>1, <1>2, <1>3, PTL DEF Spec
----------------------------------------------------------------------------
(***************************************************************************)
(* An enrollment that will release the Node before it goes.                *)
(***************************************************************************)
Owner(n) == \E e \in Enrollments : act[e].finalizer /\ act[e].nodeName = n

(***************************************************************************)
(* Nobody but a pass that removes the finalizer takes the owner away.      *)
(***************************************************************************)
LEMMA OwnerNext ==
    ASSUME NEW n \in Nodes
    PROVE  IInv /\ Owner(n) /\ [Next]_vars =>
               Owner(n)' \/ (RemoveFinalizer /\ rec.obj.nodeName = n)
<1> SUFFICES ASSUME IInv, Owner(n), [Next]_vars,
                    ~(RemoveFinalizer /\ rec.obj.nodeName = n)
             PROVE  Owner(n)'
  OBVIOUS
<1>1. ASSUME NEW e \in Enrollments, NEW obj \in Object, writeActivity(e, obj),
             act[e].finalizer => obj.finalizer /\ obj.nodeName = act[e].nodeName
      PROVE  Owner(n)'
  <2>1. act'[e] = obj /\ \A f \in Enrollments : f # e => act'[f] = act[f]
    BY <1>1, WriteEffect DEF IInv
  <2> QED
    BY <1>1, <2>1 DEF Owner
<1>2. act' = act => Owner(n)'
  BY DEF Owner
<1>3. CASE AddFinalizer
  <2>1. CASE Failed /\ UnchangedActivity
    BY <1>2, <2>1 DEF UnchangedActivity
  <2>2. CASE ~(Failed /\ UnchangedActivity)
    <3> DEFINE finalized == [act[rec.e] EXCEPT !.finalizer = TRUE]
    <3>1. /\ rec.e \in Enrollments /\ writeActivity(rec.e, finalized)
          /\ finalized \in Object /\ finalized.finalizer /\ finalized.nodeName = act[rec.e].nodeName
      BY <1>3, <2>2, AddFinalizerEffect DEF Allowed
    <3> HIDE DEF finalized
    <3> QED
      BY <1>1, <3>1
  <2> QED
    BY <2>1, <2>2
<1>4. CASE reconcileHold \/ SetStatus
  <2>1. CASE Failed /\ UnchangedActivity
    BY <1>2, <2>1 DEF UnchangedActivity
  <2>2. CASE ~(Failed /\ UnchangedActivity)
    <3>1. \/ act' = act
          \/ \E obj \in Object :
                /\ rec.e \in Enrollments /\ writeActivity(rec.e, obj)
                /\ obj.finalizer = act[rec.e].finalizer
                /\ obj.nodeName = act[rec.e].nodeName
      <4>1. CASE reconcileHold
        BY <2>2, <4>1, HoldEffect
      <4>2. CASE SetStatus
        BY <2>2, <4>2, SetStatusEffect
      <4> QED
        BY <1>4, <4>1, <4>2
    <3> QED
      BY <1>1, <1>2, <3>1
  <2> QED
    BY <2>1, <2>2
<1>5. CASE RemoveFinalizer
  <2>1. rec.pc = "removeFinalizer"
    BY <1>5 DEF RemoveFinalizer
  <2>2. CASE act' = act
    BY <1>2, <2>2
  <2>3. CASE act' # act
    <3>1. rec.fresh /\ writeActivity(rec.e, Absent)
      BY <1>5, <2>3 DEF RemoveFinalizer, UnchangedActivity
    <3>2. rec.e \in Enrollments /\ act[rec.e] = rec.obj
      BY <2>1, <3>1 DEF IInv, PassKnows, Finalizes
    <3>3. \A f \in Enrollments : f # rec.e => act'[f] = act[f]
      BY <3>1, <3>2, AbsentType, WriteEffect DEF IInv
    <3>4. act[rec.e].nodeName # n
      BY <1>5, <3>2
    <3> QED
      BY <3>3, <3>4 DEF Owner
  <2> QED
    BY <2>2, <2>3
<1>6. ASSUME NEW e \in Enrollments, NEW m \in Nodes \cup {NoNode}, NEW s \in Schedules,
             Create(e, m, s)
      PROVE  Owner(n)'
  <2> DEFINE o1 == [Absent EXCEPT !.phase = "live"]
             o2 == [o1 EXCEPT !.nodeName = m]
             o3 == [o2 EXCEPT !.a = Unreported(s)]
  <2>1. act[e].phase = "absent" /\ UserWrite(e, o3)
    BY <1>6, Zenon DEF Create
  <2>2. act[e].finalizer = FALSE
    BY <2>1, ObjectFields DEF IInv, WellFormed, TypeOK
  <2>3. Unreported(s) \in EnrollmentType
    <3>1. s \in ScheduleType
      BY ControllerAssumption
    <3> QED
      BY <3>1 DEF Unreported, EnrollmentType, States, Activities
  <2>4. o3 \in Object
    <3>1. o1 \in Object
      BY AbsentType, ObjectSet
    <3>2. o2 \in Object
      BY <3>1, ObjectSet
    <3> QED
      BY <2>3, <3>2, ObjectSet
  <2> HIDE DEF o3
  <2>5. writeActivity(e, o3)
    BY <2>1 DEF UserWrite
  <2> QED
    BY <1>1, <2>2, <2>4, <2>5
<1>7. ASSUME NEW e \in Enrollments, Delete(e) PROVE Owner(n)'
  <2> DEFINE obj == IF act[e].finalizer THEN [act[e] EXCEPT !.phase = "deleting"] ELSE Absent
  <2>1. writeActivity(e, obj)
    BY <1>7 DEF Delete, UserWrite
  <2>2. act[e] \in Object
    BY DEF IInv, TypeOK
  <2>3. obj \in Object
    BY <2>2, AbsentType, ObjectSet
  <2>4. act[e].finalizer => obj.finalizer /\ obj.nodeName = act[e].nodeName
    BY <2>2 DEF Object
  <2> HIDE DEF obj
  <2> QED
    BY <1>1, <2>1, <2>3, <2>4
<1>8. ASSUME NEW e \in Enrollments, NEW a \in EnrollmentType,
             UserWrite(e, [act[e] EXCEPT !.a = a])
      PROVE  Owner(n)'
  <2> DEFINE obj == [act[e] EXCEPT !.a = a]
  <2>1. act[e] \in Object
    BY DEF IInv, TypeOK
  <2>2. obj \in Object
    BY <2>1, ObjectSet
  <2>3. obj.finalizer = act[e].finalizer /\ obj.nodeName = act[e].nodeName
    BY <2>1 DEF Object
  <2>4. writeActivity(e, obj)
    BY <1>8 DEF UserWrite
  <2> HIDE DEF obj
  <2> QED
    BY <1>1, <2>2, <2>3, <2>4
<1>9. CASE Environment
  <2>1. CASE \E e \in Enrollments :
                \/ \E m \in Nodes \cup {NoNode}, s \in Schedules : Create(e, m, s)
                \/ Delete(e)
    BY <1>6, <1>7, <2>1
  <2>2. CASE \E e \in Enrollments :
                \/ \E r \in Reports : Report(e, r)
                \/ \E h \in Holds : Annotate(e, h)
                \/ \E s \in Schedules : EditSchedule(e, s)
    BY <1>8, <2>2, ReportEffect, AnnotateEffect, EditScheduleEffect DEF IInv
  <2>3. CASE \E m \in Nodes :
                \/ \E f \in Drifts : DriftNode(m, f)
                \/ KubeletWrite(m) \/ RemoveNode(m) \/ AddNode(m)
    BY <1>2, <2>3 DEF DriftNode, KubeletWrite, RemoveNode, AddNode, NodeWrite, UnchangedActivity,
                      api
  <2> QED
    BY <1>9, <2>1, <2>2, <2>3 DEF Environment
<1>10. CASE \/ \E e \in Enrollments : Start(e) \/ FireTimer(e)
            \/ Decide \/ UpdateNode \/ SyncActivities \/ SyncNodes \/ CallFails \/ Restart \/ Tick
            \/ UNCHANGED vars
  BY <1>2, <1>10 DEF Start, FireTimer, Decide, UpdateNode, SyncActivities, SyncNodes, CallFails,
     Restart, Tick, vars, api, UnchangedActivity
<1> QED
  BY <1>3, <1>4, <1>5, <1>9, <1>10 DEF Next, Work, Deliver

(***************************************************************************)
(* When no enrollment of the Node is in the cache nothing is to stay on    *)
(* it.                                                                     *)
(***************************************************************************)
LEMMA NothingLeft ==
    ASSUME NEW store \in [Enrollments -> Object], NEW n, NEW t \in Nat,
           protectionForNode(itemsOf(store, n), t).source = NoSource
    PROVE  releasedFields(protectionForNode(itemsOf(store, n), t), t) = Unprotected
<1> DEFINE items == itemsOf(store, n)
<1>1. /\ DOMAIN items \in SUBSET (Nat \ {0})
      /\ items \in [DOMAIN items -> EnrollmentType]
  BY ItemsType
<1> HIDE DEF items
<1>2. CASE DOMAIN items = {}
  BY <1>2 DEF protectionForNode, NoProtection, releasedFields, Unprotected, items
<1>3. CASE DOMAIN items # {}
  <2>1. protectionSource(items, t) \in Nat \ {0}
    BY <1>1, <1>3, SourceType
  <2>2. protectionForNode(items, t).source = protectionSource(items, t)
    BY <1>3 DEF protectionForNode
  <2> QED
    BY <2>1, <2>2 DEF NoSource, items
<1> QED
  BY <1>2, <1>3

(***************************************************************************)
(* A pass that leaves the Node to nobody clears it: what it is about to    *)
(* write is nothing, and when it is about to remove the finalizer of a     *)
(* Node that nobody has written since, nothing is there.                   *)
(***************************************************************************)
Released ==
    rec.protection.source = NoSource =>
        /\ rec.pc = "release" => rec.owned = Unprotected
        /\ rec.pc = "removeFinalizer" /\ rec.nodeFresh =>
               node[rec.obj.nodeName].owned = Unprotected

(***************************************************************************)
(* What finalize decided stays so until the finalizer is gone.             *)
(***************************************************************************)
LEMMA ReleasedNext == IInv /\ Released /\ [Next]_vars => Released'
<1> SUFFICES ASSUME IInv, Released, [Next]_vars PROVE Released'
  OBVIOUS
<1>1. rec \in Pass /\ node \in [Nodes -> NodeObject]
  BY DEF IInv, TypeOK
<1>2. rec'.pc \notin {"release", "removeFinalizer"} => Released'
  BY DEF Released
<1>3. rec' = NoPass => Released'
  BY <1>2 DEF NoPass
<1>4. /\ rec'.pc = rec.pc /\ rec'.obj = rec.obj /\ rec'.owned = rec.owned
      /\ rec'.protection = rec.protection
      /\ rec'.nodeFresh =>
             rec.nodeFresh /\ (rec.obj.nodeName \in Nodes =>
                                   node'[rec.obj.nodeName] = node[rec.obj.nodeName])
      => Released'
  <2>1. rec.pc = "removeFinalizer" => rec.obj.nodeName \in Nodes
    BY DEF IInv, PassKnows, Finalizes
  <2> QED
    BY <2>1 DEF Released
<1>5. ASSUME NEW e \in Enrollments, Start(e) PROVE Released'
  <2> DEFINE n == cact[e].nodeName
             remaining == protectionForNode(itemsOf(cact, n), now)
             leftover == releasedFields(remaining, now)
  <2>1. /\ cact[e].phase \in {"absent", "live", "deleting"}
        /\ cact[e].phase = "deleting" => cact[e].finalizer /\ n \in Nodes
        /\ cact \in [Enrollments -> Object] /\ now \in Nat
    BY ObjectFields DEF IInv, TypeOK, WellFormed
  <2>2. CASE cact[e].phase = "deleting"
    <3>1. remaining.source = NoSource => leftover = Unprotected
      BY <2>1, NothingLeft
    <3> HIDE DEF leftover, remaining
    <3>2. n \notin nodeLag => cnode[n] = node[n]
      BY <2>1, <2>2 DEF IInv, NodeCurrent, TypeOK
    <3>3. node' = node
      BY <1>5 DEF Start, UnchangedNode
    <3>4. /\ \/ /\ rec'.pc = "removeFinalizer"
                /\ cnode[n].exists => cnode[n].owned = leftover
                /\ rec'.nodeFresh => cnode[n].exists /\ n \notin nodeLag
             \/ rec'.pc = "release" /\ rec'.owned = leftover /\ cnode[n].exists
          /\ cnode[n].exists => rec'.protection = remaining
      BY <1>5, <2>1, <2>2, StartEffect DEF leftover, remaining
    <3>5. rec'.obj = cact[e]
      <4>1. rec' # NoPass
        BY <3>4 DEF NoPass
      <4> QED
        BY <1>5, <4>1, StartEffect
    <3> QED
      BY <3>1, <3>2, <3>3, <3>4, <3>5 DEF Released
  <2>3. CASE cact[e].phase # "deleting"
    <3>1. rec' = NoPass \/ rec'.pc \in {"status1", "addFinalizer", "hold"}
      <4>1. CASE cact[e].phase = "absent"
        BY <1>5, <4>1, StartEffect
      <4>2. CASE cact[e].phase = "live"
        BY <1>5, <4>2, StartEffect
      <4> QED
        BY <2>1, <2>3, <4>1, <4>2
    <3> QED
      BY <1>2, <1>3, <3>1
  <2> QED
    BY <2>2, <2>3
<1>6. CASE AddFinalizer \/ reconcileHold \/ Decide \/ SetStatus
  <2>1. rec' = NoPass \/ rec'.pc \in {"hold", "decide", "update"} \cup Setters
    <3>1. CASE Failed /\ UnchangedActivity
      BY <3>1 DEF Failed
    <3>2. CASE ~(Failed /\ UnchangedActivity)
      <4>1. CASE AddFinalizer
        BY <3>2, <4>1, AddFinalizerEffect
      <4>2. CASE reconcileHold
        BY <3>2, <4>2, HoldEffect
      <4>3. CASE Decide
        BY <4>3, DecideEffect DEF Setters
      <4>4. CASE SetStatus
        BY <3>2, <4>4, SetStatusEffect DEF Finished
      <4> QED
        BY <1>6, <4>1, <4>2, <4>3, <4>4
    <3> QED
      BY <3>1, <3>2
  <2> QED
    BY <1>2, <1>3, <2>1 DEF Setters
<1>7. CASE UpdateNode
  <2>1. CASE Failed /\ UnchangedNode
    BY <1>3, <2>1 DEF Failed
  <2>2. CASE ~(Failed /\ UnchangedNode)
    <3> DEFINE m == rec.obj.nodeName
               obj == [node[m] EXCEPT !.owned = rec.owned]
    <3>1. /\ rec.pc \in {"update", "release"} /\ m \in Nodes /\ cnode' = cnode
          /\ obj \in NodeObject /\ obj.owned = rec.owned /\ writeNode(m, obj)
          /\ rec'.obj = rec.obj /\ rec'.protection = rec.protection
          /\ rec'.pc = IF rec.pc = "update" THEN "status1" ELSE "removeFinalizer"
      BY <1>7, <2>2, UpdateEffect
    <3> HIDE DEF obj
    <3>2. node'[m] = obj
      BY <3>1, WriteNodeKeeps DEF IInv
    <3> QED
      BY <3>1, <3>2 DEF Released
  <2> QED
    BY <2>1, <2>2
<1>8. CASE RemoveFinalizer \/ CallFails \/ Restart
  BY <1>3, <1>8 DEF RemoveFinalizer, CallFails, Restart, Failed, Finished
<1>9. CASE Deliver \/ Tick \/ UNCHANGED vars
  <2>1. rec' = rec /\ node' = node
    BY <1>9 DEF Deliver, SyncActivities, SyncNodes, FireTimer, Tick, vars, api
  <2> QED
    BY <1>4, <2>1
<1>10. ASSUME NEW e \in Enrollments, NEW obj, UserWrite(e, obj) PROVE Released'
  <2> DEFINE fresh == rec.fresh /\ (rec.e # e \/ obj = act[e])
  <2>1. node' = node /\ rec' = [rec EXCEPT !.fresh = fresh]
    BY <1>10 DEF UserWrite, UnchangedNode
  <2> HIDE DEF fresh
  <2>2. /\ rec'.pc = rec.pc /\ rec'.obj = rec.obj /\ rec'.owned = rec.owned
        /\ rec'.protection = rec.protection /\ rec'.nodeFresh = rec.nodeFresh
    BY <1>1, <2>1 DEF Pass
  <2> QED
    BY <1>4, <2>1, <2>2
<1>11. ASSUME NEW m \in Nodes, NEW obj, NodeWrite(m, obj) PROVE Released'
  <2> DEFINE known == rec.nodeFresh /\ (rec.obj.nodeName # m \/ obj = node[m])
  <2>1. node' = [node EXCEPT ![m] = obj] /\ rec' = [rec EXCEPT !.nodeFresh = known]
    BY <1>11 DEF NodeWrite, writeNode
  <2>2. known => rec.nodeFresh /\ (rec.obj.nodeName # m \/ obj = node[m])
    OBVIOUS
  <2> HIDE DEF known
  <2>3. /\ rec'.pc = rec.pc /\ rec'.obj = rec.obj /\ rec'.owned = rec.owned
        /\ rec'.protection = rec.protection /\ rec'.nodeFresh = known
    BY <1>1, <2>1 DEF Pass
  <2> QED
    BY <1>1, <1>4, <2>1, <2>2, <2>3
<1>12. ASSUME NEW m \in Nodes, KubeletWrite(m) PROVE Released'
  <2> DEFINE known == rec.nodeFresh /\ rec.obj.nodeName # m
  <2>1. node' = node /\ rec' = [rec EXCEPT !.nodeFresh = known]
    BY <1>12 DEF KubeletWrite, api
  <2>2. known => rec.nodeFresh
    OBVIOUS
  <2> HIDE DEF known
  <2>3. /\ rec'.pc = rec.pc /\ rec'.obj = rec.obj /\ rec'.owned = rec.owned
        /\ rec'.protection = rec.protection /\ rec'.nodeFresh = known
    BY <1>1, <2>1 DEF Pass
  <2> QED
    BY <1>4, <2>1, <2>2, <2>3
<1>13. CASE Environment
  BY <1>10, <1>11, <1>12, <1>13
     DEF Environment, Create, Delete, Report, Annotate, EditSchedule, DriftNode, RemoveNode, AddNode
<1> QED
  BY <1>5, <1>6, <1>7, <1>8, <1>9, <1>13 DEF Next, Work

(***************************************************************************)
(* Fields come to a Node that has none by the Update of a pass that holds  *)
(* a finalizer for it, for a sibling, or from others.                      *)
(***************************************************************************)
LEMMA ProtectedBy ==
    ASSUME NEW n \in Nodes, IInv, Released, [Next]_vars,
           node[n].owned = Unprotected, node'[n].owned # Unprotected
    PROVE  Owner(n)' \/ LeavesToSibling(n) \/ \E f \in Drifts : DriftNode(n, f)
<1>1. node \in [Nodes -> NodeObject] /\ node' # node
  BY DEF IInv, TypeOK
<1>2. CASE UpdateNode
  <2> DEFINE m == rec.obj.nodeName
             obj == [node[m] EXCEPT !.owned = rec.owned]
  <2>1. ~(Failed /\ UnchangedNode)
    BY <1>1 DEF UnchangedNode
  <2>2. /\ rec.pc \in {"update", "release"} /\ m \in Nodes /\ act' = act /\ cnode' = cnode
        /\ obj \in NodeObject /\ obj.owned = rec.owned /\ writeNode(m, obj)
        /\ rec.e \in Enrollments
    BY <1>2, <2>1, UpdateEffect
  <2> HIDE DEF obj
  <2>3. node'[m] = obj /\ \A k \in Nodes : k # m => node'[k] = node[k]
    BY <2>2, WriteNodeKeeps DEF IInv
  <2>4. m = n /\ rec.owned # Unprotected
    BY <2>2, <2>3
  <2>5. CASE rec.pc = "update"
    BY <2>2, <2>4, <2>5 DEF IInv, PassKnows, Enrolls, Held, Owner
  <2>6. CASE rec.pc = "release"
    BY <1>2, <2>4, <2>6 DEF Released, LeavesToSibling
  <2> QED
    BY <2>2, <2>5, <2>6
<1>3. ASSUME NEW m \in Nodes, NEW obj, NodeWrite(m, obj)
      PROVE  m = n /\ obj.owned # Unprotected
  BY <1>1, <1>3 DEF NodeWrite, writeNode
<1>4. CASE Environment
  <2>1. CASE \E e \in Enrollments :
                \/ \E m \in Nodes \cup {NoNode}, s \in Schedules : Create(e, m, s)
                \/ Delete(e)
                \/ \E r \in Reports : Report(e, r)
                \/ \E h \in Holds : Annotate(e, h)
                \/ \E s \in Schedules : EditSchedule(e, s)
    BY <1>1, <2>1 DEF Create, Delete, Report, Annotate, EditSchedule, UserWrite, UnchangedNode
  <2>2. ASSUME NEW m \in Nodes, NEW f \in Drifts, DriftNode(m, f)
        PROVE  \E g \in Drifts : DriftNode(n, g)
    BY <1>3, <2>2 DEF DriftNode
  <2>3. ASSUME NEW m \in Nodes, RemoveNode(m) \/ AddNode(m) PROVE FALSE
    <3>1. /\ NoNodeObject.owned = Unprotected
          /\ [NoNodeObject EXCEPT !.exists = TRUE].owned = Unprotected
      BY DEF NoNodeObject
    <3> QED
      BY <1>3, <2>3, <3>1 DEF RemoveNode, AddNode
  <2>4. ASSUME NEW m \in Nodes, KubeletWrite(m) PROVE FALSE
    BY <1>1, <2>4 DEF KubeletWrite, api
  <2> QED
    BY <1>4, <2>1, <2>2, <2>3, <2>4 DEF Environment
<1>5. CASE \/ \E e \in Enrollments : Start(e) \/ FireTimer(e)
           \/ AddFinalizer \/ reconcileHold \/ Decide \/ SetStatus \/ RemoveFinalizer
           \/ SyncActivities \/ SyncNodes \/ CallFails \/ Restart \/ Tick \/ UNCHANGED vars
  BY <1>1, <1>5 DEF Start, FireTimer, AddFinalizer, reconcileHold, Decide, SetStatus,
     RemoveFinalizer, SyncActivities, SyncNodes, CallFails, Restart, Tick, vars, api,
     UnchangedNode
<1> QED
  BY <1>2, <1>4, <1>5 DEF Next, Work, Deliver

(***************************************************************************)
(* The finalizers guard the Nodes except in the two ways a pass can lose   *)
(* sight of one, and but for others who write the controller's fields: for *)
(* any number of enrollments and Nodes, caches as outdated as they like,   *)
(* conflicts, failed calls and restarts.                                   *)
(***************************************************************************)
THEOREM ControllerOrphans == Spec => OrphansExplained
<1>1. Init => Released
  BY DEF Init, NoPass, Released
<1>2. IInv /\ Released /\ [Next]_vars =>
          [\A n \in Nodes : Guarded(n) /\ ~Guarded(n)' =>
              \/ ReleasesUnseen(n) \/ LeavesToSibling(n)
              \/ \E f \in Drifts : DriftNode(n, f)]_vars
  <2> SUFFICES ASSUME IInv, Released, [Next]_vars, NEW n \in Nodes, Guarded(n), ~Guarded(n)'
               PROVE  \/ ReleasesUnseen(n) \/ LeavesToSibling(n)
                      \/ \E f \in Drifts : DriftNode(n, f)
    OBVIOUS
  <2>1. (node[n].owned = Unprotected \/ Owner(n)) /\ node'[n].owned # Unprotected /\ ~Owner(n)'
    BY DEF Guarded, Owner
  <2>2. CASE node[n].owned = Unprotected
    BY <2>1, <2>2, ProtectedBy
  <2>3. CASE node[n].owned # Unprotected
    <3>1. RemoveFinalizer /\ rec.obj.nodeName = n
      BY <2>1, <2>3, OwnerNext
    <3>2. rec.pc = "removeFinalizer"
      BY <3>1 DEF RemoveFinalizer
    <3> QED
      BY <2>3, <3>1, <3>2 DEF Released, ReleasesUnseen, LeavesToSibling
  <2> QED
    BY <2>2, <2>3
<1>3. Init /\ [][Next]_vars => [](IInv /\ Released)
  BY <1>1, InitIInv, NextKeeps, ReleasedNext, PTL
<1> QED
  BY <1>2, <1>3, PTL DEF Spec, OrphansExplained

(***************************************************************************)
(* What the finalizer is for (docs/controller.md): where no pass loses     *)
(* sight of a Node, and nobody else protects it, every Node with fields of *)
(* the controller has an enrollment that will take them away.              *)
(***************************************************************************)
COROLLARY ControllerGuards ==
    Spec /\ [][\A n \in Nodes : ~(\/ ReleasesUnseen(n) \/ LeavesToSibling(n)
                                  \/ \E f \in Drifts : DriftNode(n, f))]_vars
        => []FinalizerGuards
<1>1. Init => FinalizerGuards
  <2>1. [NoNodeObject EXCEPT !.exists = TRUE].owned = Unprotected
    BY DEF NoNodeObject
  <2> QED
    BY <2>1 DEF Init, FinalizerGuards, Guarded
<1>2. /\ FinalizerGuards
      /\ [\A n \in Nodes : Guarded(n) /\ ~Guarded(n)' =>
             \/ ReleasesUnseen(n) \/ LeavesToSibling(n)
             \/ \E f \in Drifts : DriftNode(n, f)]_vars
      /\ [\A n \in Nodes : ~(\/ ReleasesUnseen(n) \/ LeavesToSibling(n)
                             \/ \E f \in Drifts : DriftNode(n, f))]_vars
      => FinalizerGuards'
  BY DEF FinalizerGuards, Guarded, vars
<1> QED
  BY <1>1, <1>2, ControllerOrphans, PTL DEF Spec, OrphansExplained
----------------------------------------------------------------------------
(***************************************************************************)
(* The gauges of a Node, all of them set or not, and of the labelled ones  *)
(* the label that is remembered is the only one exported.                  *)
(***************************************************************************)
Gauges == Labelled \cup Unlabelled

Remembered(s) ==
    s = [gauge |-> [g \in Gauges |-> s.gauge[g]], last |-> [g \in Labelled |-> s.gauge[g]]]

OneLabel == series = [n \in Nodes |-> series[n]] /\ \A n \in Nodes : Remembered(series[n])

(***************************************************************************)
(* Writing some gauges leaves one label of each and the others alone.      *)
(***************************************************************************)
LEMMA RelabelKeeps ==
    ASSUME NEW s, Remembered(s), NEW L \in SUBSET Labelled, NEW values, DOMAIN values = L
    PROVE  /\ Remembered(relabel(s, values))
           /\ \A g \in Gauges : relabel(s, values).gauge[g]
                                  = IF g \in L THEN values[g] ELSE s.gauge[g]
<1> DEFINE new == relabel(s, values)
           old == [gauge |-> [g \in Gauges |-> s.gauge[g]],
                   last  |-> [g \in Labelled |-> s.gauge[g]]]
<1>1. s = old
  BY DEF Remembered
<1> HIDE DEF old
<1>2. DOMAIN s.gauge = Gauges /\ \A g \in Labelled : s.last[g] = s.gauge[g]
  BY <1>1 DEF old, Gauges
<1>3. new = [gauge |-> [g \in Gauges |-> IF g \in L THEN (s.gauge[g] \ s.last[g]) \cup values[g]
                                         ELSE s.gauge[g]],
             last  |-> [g \in Labelled |-> IF g \in L THEN values[g] ELSE s.last[g]]]
  BY <1>2 DEF relabel
<1> HIDE DEF new
<1>4. \A g \in Gauges : new.gauge[g] = IF g \in L THEN (s.gauge[g] \ s.last[g]) \cup values[g]
                                       ELSE s.gauge[g]
  BY <1>3
<1>5. \A g \in Gauges : new.gauge[g] = IF g \in L THEN values[g] ELSE s.gauge[g]
  <2> SUFFICES ASSUME NEW g \in L PROVE new.gauge[g] = values[g]
    BY <1>4
  <2>1. s.gauge[g] \ s.last[g] = {}
    BY <1>2
  <2>2. new.gauge[g] = (s.gauge[g] \ s.last[g]) \cup values[g]
    BY <1>4 DEF Gauges
  <2> QED
    BY <2>1, <2>2
<1>6. \A g \in Labelled : (IF g \in L THEN values[g] ELSE s.last[g]) = new.gauge[g]
  BY <1>2, <1>5 DEF Gauges
<1>7. new.gauge = [g \in Gauges |-> new.gauge[g]]
  BY <1>3
<1>8. new.last = [g \in Labelled |-> new.gauge[g]]
  BY <1>3, <1>6
<1>9. new = [gauge |-> new.gauge, last |-> new.last]
  BY <1>3
<1>10. Remembered(new)
  BY <1>7, <1>8, <1>9 DEF Remembered
<1> QED
  BY <1>5, <1>10 DEF new

(***************************************************************************)
(* Writing plain gauges leaves the others alone.                           *)
(***************************************************************************)
LEMMA SetKeeps ==
    ASSUME NEW s, Remembered(s), NEW U \in SUBSET Unlabelled, NEW values, DOMAIN values = U
    PROVE  /\ Remembered(set(s, values))
           /\ \A g \in Gauges : set(s, values).gauge[g]
                                  = IF g \in U THEN values[g] ELSE s.gauge[g]
<1> DEFINE new == set(s, values)
           G == [g \in Gauges |-> s.gauge[g]]
           L == [g \in Labelled |-> s.gauge[g]]
           N == [g \in Gauges |-> IF g \in U THEN values[g] ELSE s.gauge[g]]
<1>1. s = [gauge |-> G, last |-> L]
  BY DEF Remembered
<1>2. s.gauge = G /\ s.last = L
  <2> HIDE DEF G, L
  <2> QED
    BY <1>1
<1>3. new = [s EXCEPT !.gauge = N]
  BY <1>2 DEF set
<1>4. new = [gauge |-> N, last |-> L]
  <2> HIDE DEF G, L, N, new
  <2> QED
    BY <1>1, <1>3
<1>5. new.gauge = N /\ new.last = L
  <2> HIDE DEF L, N, new
  <2> QED
    BY <1>4
<1>6. \A g \in Gauges : new.gauge[g] = IF g \in U THEN values[g] ELSE s.gauge[g]
  BY <1>5
<1>7. \A g \in Labelled : new.gauge[g] = s.gauge[g]
  BY <1>6 DEF Gauges, Labelled, Unlabelled
<1>8. L = [g \in Labelled |-> new.gauge[g]]
  BY <1>7
<1>9. N = [g \in Gauges |-> new.gauge[g]]
  BY <1>6
<1>10. Remembered(new)
  <2> HIDE DEF L, N, new
  <2> QED
    BY <1>4, <1>8, <1>9 DEF Remembered
<1> QED
  BY <1>6, <1>10

(***************************************************************************)
(* What a pass exports for a Node with a deciding enrollment.              *)
(***************************************************************************)
LEMMA SignalsShown ==
    ASSUME NEW s, Remembered(s), NEW p, p.source # NoSource, NEW burst, NEW invalid, NEW t
    PROVE  LET new == observeNodeSignals(s, p, burst, invalid, t)
           IN  /\ Remembered(new)
               /\ new.gauge["windowActive"] = {p.scheduled}
               /\ new.gauge["activity"] = {<<IF p.src.state = "unsupported" THEN "unknown"
                                             ELSE p.src.state, p.src.activity>>}
               /\ new.gauge["taint"] = unless(p.taint = NoTaint, p.taint)
               /\ new.gauge["schedulable"] = {controllerAdmitted(p.src, t, p.taint)}
               /\ new.gauge["admission"] = {p.reason}
               /\ new.gauge["heartbeatValid"] = {Fresh(p.src.heartbeatAt, t)}
               /\ new.gauge["heartbeatAge"]
                    = unless(heartbeatFreshness(p.src.heartbeatAt, t) = "Missing", "age")
               /\ new.gauge["burstTaint"] = unless(~BurstConfigured, burst)
               /\ new.gauge["nextTransition"] = unless(p.nextTransition = 0, p.nextTransition)
               /\ new.gauge["configInvalid"] = unless(~invalid, "schedule")
<1> DEFINE window == [windowActive |-> {p.scheduled}]
           who == [activity |-> {<<IF p.src.state = "unsupported" THEN "unknown"
                                   ELSE p.src.state, p.src.activity>>},
                   taint |-> unless(p.taint = NoTaint, p.taint)]
           admitted == [schedulable |-> {controllerAdmitted(p.src, t, p.taint)}]
           why == [admission |-> {p.reason}]
           rest == [heartbeatValid |-> {Fresh(p.src.heartbeatAt, t)},
                    heartbeatAge   |-> unless(heartbeatFreshness(p.src.heartbeatAt, t) = "Missing",
                                              "age"),
                    burstTaint     |-> unless(~BurstConfigured, burst),
                    nextTransition |-> unless(p.nextTransition = 0, p.nextTransition)]
           config == [configInvalid |-> unless(~invalid, "schedule")]
           s1 == set(s, window)
           s2 == relabel(s1, who)
           s3 == set(s2, admitted)
           s4 == relabel(s3, why)
           s5 == set(s4, rest)
           s6 == set(s5, config)
<1>1. observeNodeSignals(s, p, burst, invalid, t) = s6
  BY DEF observeNodeSignals, observeWindowMetrics, observeActivityAndTaint, observeAdmission,
         observeConfigInvalid
<1>2. /\ DOMAIN window = {"windowActive"} /\ DOMAIN who = {"activity", "taint"}
      /\ DOMAIN admitted = {"schedulable"} /\ DOMAIN why = {"admission"}
      /\ DOMAIN rest = {"heartbeatValid", "heartbeatAge", "burstTaint", "nextTransition"}
      /\ DOMAIN config = {"configInvalid"}
  OBVIOUS
<1>3. /\ {"activity", "taint"} \in SUBSET Labelled /\ {"admission"} \in SUBSET Labelled
      /\ {"windowActive"} \in SUBSET Unlabelled /\ {"schedulable"} \in SUBSET Unlabelled
      /\ {"heartbeatValid", "heartbeatAge", "burstTaint", "nextTransition"} \in SUBSET Unlabelled
      /\ {"configInvalid"} \in SUBSET Unlabelled
  BY DEF Labelled, Unlabelled
<1>4. \A g \in {"windowActive", "activity", "taint", "schedulable", "admission", "heartbeatValid",
                "heartbeatAge", "burstTaint", "nextTransition", "configInvalid"} : g \in Gauges
  BY DEF Gauges, Labelled, Unlabelled
<1> HIDE DEF window, who, admitted, why, rest, config, s1, s2, s3, s4, s5, s6
<1>5. /\ Remembered(s1)
      /\ \A g \in Gauges : s1.gauge[g] = IF g \in {"windowActive"} THEN window[g] ELSE s.gauge[g]
  <2>1. DOMAIN window = {"windowActive"} /\ {"windowActive"} \in SUBSET Unlabelled
    BY <1>2, <1>3
  <2> QED
    BY <2>1, SetKeeps DEF s1
<1>6. /\ Remembered(s2)
      /\ \A g \in Gauges : s2.gauge[g] = IF g \in {"activity", "taint"} THEN who[g] ELSE s1.gauge[g]
  <2>1. DOMAIN who = {"activity", "taint"} /\ {"activity", "taint"} \in SUBSET Labelled
    BY <1>2, <1>3
  <2> QED
    BY <1>5, <2>1, RelabelKeeps DEF s2
<1>7. /\ Remembered(s3)
      /\ \A g \in Gauges : s3.gauge[g] = IF g \in {"schedulable"} THEN admitted[g] ELSE s2.gauge[g]
  <2>1. DOMAIN admitted = {"schedulable"} /\ {"schedulable"} \in SUBSET Unlabelled
    BY <1>2, <1>3
  <2> QED
    BY <1>6, <2>1, SetKeeps DEF s3
<1>8. /\ Remembered(s4)
      /\ \A g \in Gauges : s4.gauge[g] = IF g \in {"admission"} THEN why[g] ELSE s3.gauge[g]
  <2>1. DOMAIN why = {"admission"} /\ {"admission"} \in SUBSET Labelled
    BY <1>2, <1>3
  <2> QED
    BY <1>7, <2>1, RelabelKeeps DEF s4
<1>9. /\ Remembered(s5)
      /\ \A g \in Gauges : s5.gauge[g] =
            IF g \in {"heartbeatValid", "heartbeatAge", "burstTaint", "nextTransition"}
            THEN rest[g] ELSE s4.gauge[g]
  <2> DEFINE U == {"heartbeatValid", "heartbeatAge", "burstTaint", "nextTransition"}
  <2>1. DOMAIN rest = U /\ U \in SUBSET Unlabelled
    BY <1>2, <1>3
  <2> HIDE DEF U
  <2>2. /\ Remembered(s5)
        /\ \A g \in Gauges : s5.gauge[g] = IF g \in U THEN rest[g] ELSE s4.gauge[g]
    BY <1>8, <2>1, SetKeeps DEF s5
  <2> QED
    BY <2>2 DEF U
<1>10. /\ Remembered(s6)
       /\ \A g \in Gauges : s6.gauge[g] = IF g \in {"configInvalid"} THEN config[g] ELSE s5.gauge[g]
  <2>1. DOMAIN config = {"configInvalid"} /\ {"configInvalid"} \in SUBSET Unlabelled
    BY <1>2, <1>3
  <2> QED
    BY <1>9, <2>1, SetKeeps DEF s6
<1>11. /\ s6.gauge["windowActive"] = window["windowActive"]
       /\ s6.gauge["activity"] = who["activity"] /\ s6.gauge["taint"] = who["taint"]
  BY <1>4, <1>5, <1>6, <1>7, <1>8, <1>9, <1>10
<1>12. /\ s6.gauge["schedulable"] = admitted["schedulable"]
       /\ s6.gauge["admission"] = why["admission"]
  BY <1>4, <1>7, <1>8, <1>9, <1>10
<1>13. /\ s6.gauge["heartbeatValid"] = rest["heartbeatValid"]
       /\ s6.gauge["heartbeatAge"] = rest["heartbeatAge"]
       /\ s6.gauge["burstTaint"] = rest["burstTaint"]
       /\ s6.gauge["nextTransition"] = rest["nextTransition"]
  BY <1>4, <1>9, <1>10
<1>14. s6.gauge["configInvalid"] = config["configInvalid"]
  BY <1>4, <1>10
<1>15. /\ window["windowActive"] = {p.scheduled}
       /\ admitted["schedulable"] = {controllerAdmitted(p.src, t, p.taint)}
       /\ why["admission"] = {p.reason} /\ config["configInvalid"] = unless(~invalid, "schedule")
  BY DEF window, admitted, why, config
<1>16. /\ who["activity"] = {<<IF p.src.state = "unsupported" THEN "unknown" ELSE p.src.state,
                               p.src.activity>>}
       /\ who["taint"] = unless(p.taint = NoTaint, p.taint)
  BY DEF who
<1>17. /\ rest["heartbeatValid"] = {Fresh(p.src.heartbeatAt, t)}
       /\ rest["heartbeatAge"] = unless(heartbeatFreshness(p.src.heartbeatAt, t) = "Missing", "age")
       /\ rest["burstTaint"] = unless(~BurstConfigured, burst)
       /\ rest["nextTransition"] = unless(p.nextTransition = 0, p.nextTransition)
  BY DEF rest
<1> QED
  BY <1>1, <1>10, <1>11, <1>12, <1>13, <1>14, <1>15, <1>16, <1>17

(***************************************************************************)
(* Clearing leaves nothing; the outcome of the eviction loop is one label. *)
(***************************************************************************)
LEMMA Cleared ==
    ASSUME NEW s, Remembered(s)
    PROVE  Remembered(clearNodeMetrics(s)) /\ clearNodeMetrics(s).gauge = NoSeries.gauge
<1> DEFINE labels == [g \in Labelled |-> {}]
           plain == [g \in Unlabelled |-> {}]
           s1 == relabel(s, labels)
           s2 == set(s1, plain)
<1>1. DOMAIN labels = Labelled /\ DOMAIN plain = Unlabelled
  OBVIOUS
<1>2. \A g \in Labelled : labels[g] = {}
  OBVIOUS
<1>3. \A g \in Unlabelled : plain[g] = {}
  OBVIOUS
<1>4. clearNodeMetrics(s) = s2
  BY DEF clearNodeMetrics
<1>5. Labelled \in SUBSET Labelled /\ Unlabelled \in SUBSET Unlabelled
  OBVIOUS
<1> HIDE DEF labels, plain, s1, s2
<1>6. /\ Remembered(s1)
      /\ \A g \in Gauges : s1.gauge[g] = IF g \in Labelled THEN labels[g] ELSE s.gauge[g]
  BY <1>1, <1>5, RelabelKeeps DEF s1
<1>7. /\ Remembered(s2)
      /\ \A g \in Gauges : s2.gauge[g] = IF g \in Unlabelled THEN plain[g] ELSE s1.gauge[g]
  BY <1>1, <1>5, <1>6, SetKeeps DEF s2
<1>8. \A g \in Gauges : s2.gauge[g] = {}
  BY <1>2, <1>3, <1>6, <1>7 DEF Gauges
<1>9. s2.gauge = [g \in Gauges |-> s2.gauge[g]]
  <2> DEFINE G == [g \in Gauges |-> s2.gauge[g]]
             L == [g \in Labelled |-> s2.gauge[g]]
  <2>1. s2 = [gauge |-> G, last |-> L]
    BY <1>7 DEF Remembered
  <2> HIDE DEF G, L
  <2>2. s2.gauge = G
    BY <2>1
  <2> QED
    BY <2>2 DEF G
<1>10. NoSeries.gauge = [g \in Gauges |-> {}]
  BY DEF NoSeries, Gauges
<1> QED
  BY <1>4, <1>7, <1>8, <1>9, <1>10

(***************************************************************************)
(* The outcome of the eviction loop is one label; the others stay.         *)
(***************************************************************************)
LEMMA OutcomeShown ==
    ASSUME NEW s, Remembered(s), NEW outcome
    PROVE  LET new == observeEvictionStatus(s, outcome)
           IN  /\ Remembered(new) /\ new.gauge["evictionOutcome"] = {outcome}
               /\ \A g \in Gauges \ {"evictionOutcome"} : new.gauge[g] = s.gauge[g]
<1> DEFINE values == [evictionOutcome |-> {outcome}]
<1>1. /\ DOMAIN values = {"evictionOutcome"} /\ values["evictionOutcome"] = {outcome}
      /\ {"evictionOutcome"} \in SUBSET Labelled /\ "evictionOutcome" \in Gauges
  BY DEF Labelled, Gauges
<1>2. observeEvictionStatus(s, outcome) = relabel(s, values)
  BY DEF observeEvictionStatus
<1> HIDE DEF values
<1> QED
  BY <1>1, <1>2, RelabelKeeps

(***************************************************************************)
(* Nothing exported and nothing remembered agree.                          *)
(***************************************************************************)
LEMMA NothingShown == Remembered(NoSeries)
  BY DEF Remembered, NoSeries, Gauges

(***************************************************************************)
(* The gauges stay remembered, for a Node with a deciding enrollment or    *)
(* with none.                                                              *)
(***************************************************************************)
LEMMA SignalsRemembered ==
    ASSUME NEW s, Remembered(s), NEW p, NEW burst, NEW invalid, NEW t
    PROVE  /\ Remembered(observeNodeSignals(s, p, burst, invalid, t))
           /\ p.source = NoSource =>
                  observeNodeSignals(s, p, burst, invalid, t).gauge = NoSeries.gauge
<1>1. CASE p.source = NoSource
  BY <1>1, Cleared DEF observeNodeSignals
<1>2. CASE p.source # NoSource
  BY <1>2, SignalsShown
<1> QED
  BY <1>1, <1>2

(***************************************************************************)
(* What finalize leaves: nothing, when no enrollment remains.              *)
(***************************************************************************)
LEMMA ReleaseShown ==
    ASSUME NEW s, Remembered(s), NEW p, NEW burst
    PROVE  /\ Remembered(released(s, p, burst))
           /\ p.source = NoSource => released(s, p, burst).gauge = NoSeries.gauge
<1>1. CASE p.source = NoSource
  BY <1>1, Cleared DEF released
<1>2. CASE p.source # NoSource
  BY <1>2, SignalsRemembered, OutcomeShown DEF released
<1> QED
  BY <1>1, <1>2

(***************************************************************************)
(* Gauges that tell the truth as soon as the outcome of the eviction loop  *)
(* is beside them.                                                         *)
(***************************************************************************)
Signalled(gauge, owned, p) ==
    \A told : /\ \A g \in Gauges \ {"evictionOutcome"} : told[g] = gauge[g]
              /\ told["evictionOutcome"] = {"Disabled"}
              => Tells(told, owned, p)

(***************************************************************************)
(* A pass of one of the enrollments of a Node exports what they ask for at *)
(* its time.                                                               *)
(***************************************************************************)
LEMMA SignalsTell ==
    ASSUME NEW s, Remembered(s), NEW D \in SUBSET Enrollments,
           NEW items \in [D -> EnrollmentType], NEW e \in D, NEW t \in Nat
    PROVE  LET p == protectionForNode(items, t)
               owned == desiredFields(items, t)
               invalid == scheduleInvalid(items[e].spec)
           IN  Signalled(observeNodeSignals(s, p, owned.burst, invalid, t).gauge, owned, p)
<1> DEFINE p == protectionForNode(items, t)
           owned == desiredFields(items, t)
           invalid == scheduleInvalid(items[e].spec)
           new == observeNodeSignals(s, p, owned.burst, invalid, t)
           source == protectionSource(items, t)
           reason == admissionReason(items[source], t)
<1>1. /\ D \in SUBSET (Nat \ {0}) /\ IsFiniteSet(D) /\ DOMAIN items = D /\ D # {}
      /\ source \in D
  <2>1. D \in SUBSET (Nat \ {0}) /\ IsFiniteSet(D) /\ DOMAIN items = D /\ D # {}
    BY ControllerAssumption, FS_Subset
  <2> QED
    BY <2>1, SourceType
<1>2. p = [source |-> source, src |-> items[source], taint |-> taintFor(reason),
           reason |-> reason, scheduled |-> reason \in Scheduled,
           count |-> Cardinality(D), nextTransition |-> nextTransition(items[source], t)]
  BY <1>1 DEF protectionForNode, decidePolicy
<1>3. /\ reason \in Reasons /\ (reason \in Unfresh <=> ~Fresh(items[source].heartbeatAt, t))
      /\ items[source] \in EnrollmentType
  BY <1>1, ReasonType
<1> HIDE DEF source, reason, p, owned, invalid, new
<1>4. /\ p.source = source /\ p.src = items[source] /\ p.reason = reason
      /\ p.count = Cardinality(D) /\ p.source # NoSource
  BY <1>1, <1>2 DEF NoSource
<1>5. p.scheduled = (p.reason \in Scheduled)
  <2> DEFINE scheduled == reason \in Scheduled
  <2> HIDE DEF scheduled
  <2>1. p.scheduled = scheduled
    BY <1>2 DEF scheduled
  <2> QED
    BY <1>4, <2>1, Zenon DEF scheduled
<1>6. owned.taint = p.taint /\ owned.label = controllerAdmitted(p.src, t, p.taint)
  <2> DEFINE admitted == policyAdmitted(p, t)
             burst == BurstConfigured /\ ~admitted
  <2>1. owned = [taint |-> p.taint, label |-> admitted, burst |-> burst]
    BY Zenon DEF owned, desiredFields, ownedFields, p
  <2> HIDE DEF admitted, burst
  <2>2. owned.taint = p.taint /\ owned.label = admitted
    BY <2>1
  <2> DEFINE clear == controllerAdmitted(p.src, t, p.taint)
  <2>3. admitted = (p.source # NoSource /\ clear)
    BY Zenon DEF admitted, policyAdmitted
  <2>4. clear = TRUE \/ clear = FALSE
    BY DEF controllerAdmitted
  <2> HIDE DEF clear
  <2>5. admitted = clear
    BY <1>4, <2>3, <2>4
  <2> QED
    BY <2>2, <2>5 DEF clear
<1>7. /\ Remembered(new)
      /\ new.gauge["windowActive"] = {p.scheduled}
      /\ new.gauge["activity"] = {<<IF p.src.state = "unsupported" THEN "unknown"
                                    ELSE p.src.state, p.src.activity>>}
      /\ new.gauge["taint"] = unless(p.taint = NoTaint, p.taint)
      /\ new.gauge["schedulable"] = {controllerAdmitted(p.src, t, p.taint)}
      /\ new.gauge["admission"] = {p.reason}
      /\ new.gauge["heartbeatValid"] = {Fresh(p.src.heartbeatAt, t)}
      /\ new.gauge["heartbeatAge"]
           = unless(heartbeatFreshness(p.src.heartbeatAt, t) = "Missing", "age")
      /\ new.gauge["burstTaint"] = unless(~BurstConfigured, owned.burst)
      /\ new.gauge["nextTransition"] = unless(p.nextTransition = 0, p.nextTransition)
      /\ new.gauge["configInvalid"] = unless(~invalid, "schedule")
  BY <1>4, SignalsShown DEF new
<1> SUFFICES ASSUME NEW told, \A g \in Gauges \ {"evictionOutcome"} : told[g] = new.gauge[g],
                    told["evictionOutcome"] = {"Disabled"}
             PROVE  Tells(told, owned, p)
  BY DEF Signalled, new, p, owned, invalid
<1>8. \A g \in {"taint", "schedulable", "burstTaint", "activity", "windowActive",
                "nextTransition", "heartbeatAge", "admission", "heartbeatValid",
                "configInvalid"} : told[g] = new.gauge[g]
  BY DEF Gauges, Labelled, Unlabelled
<1>9. told["taint"] = {owned.taint} \ {NoTaint}
  BY <1>6, <1>7, <1>8 DEF unless
<1>10. /\ told["schedulable"] = {owned.label}
       /\ told["burstTaint"] = unless(~BurstConfigured, owned.burst)
  BY <1>6, <1>7, <1>8
<1>11. /\ told["activity"] = {<<IF p.src.state = "unsupported" THEN "unknown" ELSE p.src.state,
                                p.src.activity>>}
       /\ told["windowActive"] = {p.reason \in Scheduled}
  BY <1>5, <1>7, <1>8
<1>12. told["nextTransition"] = {p.nextTransition} \ {0}
  BY <1>7, <1>8 DEF unless
<1>13. told["heartbeatAge"] = {} <=> p.src.heartbeatAt = 0
  <2>1. told["heartbeatAge"] = {} <=> heartbeatFreshness(p.src.heartbeatAt, t) = "Missing"
    BY <1>7, <1>8 DEF unless
  <2> QED
    BY <2>1 DEF heartbeatFreshness
<1>14. told["admission"] = {p.reason} /\ told["heartbeatValid"] = {p.reason \notin Unfresh}
  <2>1. Fresh(p.src.heartbeatAt, t) <=> p.reason \notin Unfresh
    BY <1>3, <1>4
  <2>2. Fresh(p.src.heartbeatAt, t) \in BOOLEAN /\ (p.reason \notin Unfresh) \in BOOLEAN
    BY DEF Fresh
  <2>3. Fresh(p.src.heartbeatAt, t) = (p.reason \notin Unfresh)
    BY <2>1, <2>2, Zenon
  <2> QED
    BY <1>7, <1>8, <2>3
<1>15. p.count = 1 => told["configInvalid"] = unless(~scheduleInvalid(p.src.spec), "schedule")
  <2> SUFFICES ASSUME p.count = 1
               PROVE  told["configInvalid"] = unless(~scheduleInvalid(p.src.spec), "schedule")
    OBVIOUS
  <2>1. source = e
    <3>1. PICK x : D = {x}
      BY <1>1, <1>4, FS_Singleton
    <3> QED
      BY <1>1, <3>1
  <2> QED
    BY <1>4, <1>7, <1>8, <2>1 DEF invalid
<1> QED
  BY <1>9, <1>10, <1>11, <1>12, <1>13, <1>14, <1>15 DEF Tells

(***************************************************************************)
(* What the gauges tell stays so until the requeue the Node asks for.      *)
(***************************************************************************)
LEMMA TellsLasts ==
    ASSUME NEW gauge, NEW owned, NEW p, NEW later, Tells(gauge, owned, p), ReportHolds(p, later)
    PROVE  Tells(gauge, owned, later)
<1>1. /\ later.src = p.src /\ later.count = p.count /\ later.nextTransition = p.nextTransition
      /\ later.reason = p.reason \/ (p.reason \in Refused /\ later.reason = "stale-heartbeat")
  BY DEF ReportHolds
<1>2. /\ gauge["taint"] = {owned.taint} \ {NoTaint}
      /\ gauge["schedulable"] = {owned.label}
      /\ gauge["burstTaint"] = unless(~BurstConfigured, owned.burst)
      /\ gauge["activity"] = {<<IF p.src.state = "unsupported" THEN "unknown" ELSE p.src.state,
                                p.src.activity>>}
      /\ gauge["windowActive"] = {p.reason \in Scheduled}
      /\ gauge["nextTransition"] = {p.nextTransition} \ {0}
      /\ gauge["heartbeatAge"] = {} <=> p.src.heartbeatAt = 0
      /\ \/ /\ gauge["admission"] = {p.reason}
            /\ gauge["heartbeatValid"] = {p.reason \notin Unfresh}
         \/ /\ gauge["admission"] \in {{r} : r \in Refused}
            /\ p.reason = "stale-heartbeat"
      /\ gauge["evictionOutcome"] = {"Disabled"}
      /\ p.count = 1 => gauge["configInvalid"] = unless(~scheduleInvalid(p.src.spec), "schedule")
  BY DEF Tells
<1>3. CASE later.reason = p.reason
  BY <1>1, <1>2, <1>3 DEF Tells
<1>4. CASE p.reason \in Refused /\ later.reason = "stale-heartbeat"
  <2>1. p.reason # "stale-heartbeat" /\ p.reason \notin Scheduled /\ later.reason \notin Scheduled
    BY <1>4 DEF Refused, Scheduled
  <2>2. gauge["windowActive"] = {later.reason \in Scheduled}
    BY <1>2, <2>1
  <2>3. gauge["admission"] \in {{r} : r \in Refused}
    BY <1>2, <1>4, <2>1
  <2> QED
    BY <1>1, <1>2, <1>4, <2>2, <2>3 DEF Tells
<1> QED
  BY <1>1, <1>3, <1>4

----------------------------------------------------------------------------
(***************************************************************************)
(* The pass in progress is one that may write the gauges of the Node.      *)
(***************************************************************************)
Passing(n) == (Enrolls \/ Finalizes \/ rec.pc = "addFinalizer") /\ rec.obj.nodeName = n

(***************************************************************************)
(* Writing the gauges of one Node.                                         *)
(***************************************************************************)
LEMMA ObserveEffect ==
    ASSUME OneLabel, NEW n \in Nodes, NEW new, Remembered(new),
           series' = [series EXCEPT ![n] = new]
    PROVE  OneLabel' /\ series'[n] = new /\ \A k \in Nodes : k # n => series'[k] = series[k]
<1>1. DOMAIN series = Nodes
  BY DEF OneLabel
<1>2. series'[n] = new /\ \A k \in Nodes : k # n => series'[k] = series[k]
  BY <1>1
<1>3. series' = [k \in Nodes |-> series'[k]]
  BY <1>1
<1>4. \A k \in Nodes : Remembered(series'[k])
  BY <1>2 DEF OneLabel
<1> QED
  BY <1>2, <1>3, <1>4 DEF OneLabel

(***************************************************************************)
(* A step that writes no gauge.                                            *)
(***************************************************************************)
LEMMA SeriesKept ==
    ASSUME OneLabel, UNCHANGED series PROVE OneLabel'
  BY DEF OneLabel

(***************************************************************************)
(* A pass starts: it writes only the gauges of the Node it finalizes, and  *)
(* leaves none when no enrollment remains there or the Node is gone.       *)
(***************************************************************************)
LEMMA StartSeries ==
    ASSUME IInv, OneLabel, NEW e \in Enrollments, Start(e), StartObserved(e)
    PROVE  LET obj == cact[e]
               n == obj.nodeName
           IN  /\ OneLabel'
               /\ \A k \in Nodes : series'[k] = series[k] \/ (obj.phase = "deleting" /\ k = n)
               /\ rec'.pc = "removeFinalizer" /\ DOMAIN itemsOf(cact, n) = {}
                    => n \in Nodes /\ series'[n].gauge = NoSeries.gauge
<1> DEFINE obj == cact[e]
           n == obj.nodeName
           remaining == protectionForNode(itemsOf(cact, n), now)
<1>1. n \in Nodes \cup {NoNode}
  BY ObjectFields DEF IInv, TypeOK
<1>2. CASE ~(obj.phase = "deleting" /\ obj.finalizer /\ n # NoNode /\ rec'.pc = "removeFinalizer")
  <2>1. UNCHANGED series
    BY <1>2 DEF StartObserved
  <2>2. rec'.pc # "removeFinalizer"
    <3>1. NoPass.pc = "idle"
      BY DEF NoPass
    <3>2. obj.phase \in {"absent", "live", "deleting"}
      BY ObjectFields DEF IInv, TypeOK
    <3>3. obj.phase = "deleting" => obj.finalizer /\ n # NoNode
      BY ControllerAssumption DEF IInv, WellFormed
    <3> QED
      BY <1>2, <3>1, <3>2, <3>3, StartEffect
  <2> QED
    BY <2>1, <2>2, SeriesKept
<1>3. CASE obj.phase = "deleting" /\ obj.finalizer /\ n # NoNode /\ rec'.pc = "removeFinalizer"
  <2> DEFINE new == IF ~cnode[n].exists THEN clearNodeMetrics(series[n])
                    ELSE released(series[n], rec'.protection, rec'.owned.burst)
  <2>1. n \in Nodes /\ series' = [series EXCEPT ![n] = new]
    BY <1>1, <1>3 DEF StartObserved, observe
  <2>2. Remembered(series[n])
    BY <2>1 DEF OneLabel
  <2>3. cnode[n].exists => rec'.protection = remaining
    BY <1>3, <2>1, StartEffect
  <2>4. Remembered(new)
    BY <2>2, Cleared, ReleaseShown
  <2>5. DOMAIN itemsOf(cact, n) = {} => new.gauge = NoSeries.gauge
    <3> SUFFICES ASSUME DOMAIN itemsOf(cact, n) = {} PROVE new.gauge = NoSeries.gauge
      OBVIOUS
    <3>1. remaining.source = NoSource
      BY DEF protectionForNode, NoProtection
    <3> HIDE DEF remaining
    <3> QED
      BY <2>2, <2>3, <3>1, Cleared, ReleaseShown
  <2> HIDE DEF new
  <2> QED
    BY <1>3, <2>1, <2>4, <2>5, ObserveEffect
<1> QED
  BY <1>2, <1>3

(***************************************************************************)
(* The decision clears the gauges of a Node that it misses.                *)
(***************************************************************************)
LEMMA DecideSeries ==
    ASSUME IInv, OneLabel, Decide, DecideObserved
    PROVE  /\ OneLabel' /\ \A k \in Nodes : series'[k] = series[k] \/ Passing(k)
           /\ rec'.mode = "missing" => series'[rec.obj.nodeName].gauge = NoSeries.gauge
<1> DEFINE n == rec.obj.nodeName
<1>1. n \in Nodes /\ rec.pc = "decide"
  BY DecideEffect
<1>2. CASE rec'.mode = "missing"
  <2>1. series' = [series EXCEPT ![n] = clearNodeMetrics(series[n])]
    BY <1>2 DEF DecideObserved, observe
  <2>2. Remembered(series[n])
    BY <1>1 DEF OneLabel
  <2>3. /\ Remembered(clearNodeMetrics(series[n]))
        /\ clearNodeMetrics(series[n]).gauge = NoSeries.gauge
    BY <2>2, Cleared
  <2>4. Passing(n)
    BY <1>1 DEF Passing, Enrolls
  <2> QED
    BY <1>1, <2>1, <2>3, <2>4, ObserveEffect
<1>3. CASE rec'.mode # "missing"
  BY <1>3, SeriesKept DEF DecideObserved
<1> QED
  BY <1>2, <1>3

(***************************************************************************)
(* The Update of finalize leaves no gauge when no enrollment remained.     *)
(***************************************************************************)
LEMMA UpdateSeries ==
    ASSUME IInv, OneLabel, UpdateNode, UpdateObserved
    PROVE  /\ OneLabel' /\ \A k \in Nodes : series'[k] = series[k] \/ Passing(k)
           /\ rec.pc = "update" => UNCHANGED series
           /\ rec.pc = "release" /\ rec.nodeFresh /\ rec.protection.source = NoSource
                => series'[rec.obj.nodeName].gauge = NoSeries.gauge
<1> DEFINE n == rec.obj.nodeName
           new == released(series[n], rec.protection, rec.owned.burst)
<1>1. rec.pc \in {"update", "release"}
  BY DEF UpdateNode
<1>2. CASE rec.pc = "release" /\ rec.nodeFresh
  <2>1. series' = [series EXCEPT ![n] = new]
    BY <1>2 DEF UpdateObserved, observe
  <2>2. n \in Nodes /\ Passing(n)
    BY <1>2 DEF IInv, PassKnows, Finalizes, Passing
  <2>3. Remembered(new) /\ (rec.protection.source = NoSource => new.gauge = NoSeries.gauge)
    BY <2>2, ReleaseShown DEF OneLabel
  <2> HIDE DEF new
  <2> QED
    BY <1>2, <2>1, <2>2, <2>3, ObserveEffect
<1>3. CASE ~(rec.pc = "release" /\ rec.nodeFresh)
  BY <1>1, <1>3, SeriesKept DEF UpdateObserved
<1> QED
  BY <1>2, <1>3

(***************************************************************************)
(* The setters: the signals before the last of them, the outcome of the    *)
(* eviction loop with it.                                                  *)
(***************************************************************************)
LEMMA StatusSeries ==
    ASSUME IInv, OneLabel, SetStatus, StatusObserved
    PROVE  LET n == rec.obj.nodeName
           IN  /\ OneLabel' /\ \A k \in Nodes : series'[k] = series[k] \/ Passing(k)
               /\ rec.mode # "normal" \/ rec.pc \notin {"status4", "status5"} => UNCHANGED series
               /\ rec.mode = "normal" /\ ~(Failed /\ UnchangedActivity) =>
                    /\ rec.pc = "status4" => series'[n] =
                         observeNodeSignals(series[n], rec.protection, rec.owned.burst,
                                            rec.badSchedule, now)
                    /\ rec.pc = "status5" =>
                         series'[n] = observeEvictionStatus(series[n], "Disabled")
<1> DEFINE n == rec.obj.nodeName
           signals == observeNodeSignals(series[n], rec.protection, rec.owned.burst,
                                         rec.badSchedule, now)
           outcome == observeEvictionStatus(series[n], "Disabled")
           succeeds == wantedStatus(rec.pc, rec.obj.st) = rec.obj.st \/ act[rec.e].phase # "absent"
<1>1. rec.pc \in Setters
  BY DEF SetStatus, nextStep, Setters
<1>2. ~(Failed /\ UnchangedActivity) => succeeds
  BY Zenon DEF SetStatus
<1>3. CASE rec.mode = "normal"
  <2>1. n \in Nodes /\ Passing(n)
    BY <1>1, <1>3 DEF IInv, PassKnows, Enrolls, Passing
  <2>2. Remembered(series[n])
    BY <2>1 DEF OneLabel
  <2>3. Remembered(signals) /\ Remembered(outcome)
    BY <2>2, SignalsRemembered, OutcomeShown
  <2>4. CASE rec.pc = "status4" /\ succeeds
    <3>1. series' = [series EXCEPT ![n] = signals]
      BY <1>3, <2>4 DEF StatusObserved, observe
    <3> HIDE DEF signals
    <3>2. OneLabel' /\ series'[n] = signals /\ \A k \in Nodes : k # n => series'[k] = series[k]
      BY <2>1, <2>3, <3>1, ObserveEffect
    <3> QED
      BY <1>3, <2>1, <2>4, <3>2 DEF signals
  <2>5. CASE rec.pc = "status5" /\ succeeds
    <3>1. series' = [series EXCEPT ![n] = outcome]
      BY <1>3, <2>5 DEF StatusObserved, observe
    <3> HIDE DEF outcome
    <3>2. OneLabel' /\ series'[n] = outcome /\ \A k \in Nodes : k # n => series'[k] = series[k]
      BY <2>1, <2>3, <3>1, ObserveEffect
    <3> QED
      BY <1>3, <2>1, <2>5, <3>2 DEF outcome
  <2>6. CASE ~(rec.pc \in {"status4", "status5"} /\ succeeds)
    <3>1. UNCHANGED series
      BY <2>6 DEF StatusObserved
    <3>2. rec.pc \in {"status4", "status5"} => Failed /\ UnchangedActivity
      BY <1>2, <2>6
    <3> QED
      BY <2>6, <3>1, <3>2, SeriesKept
  <2> QED
    BY <2>4, <2>5, <2>6
<1>4. CASE rec.mode # "normal"
  BY <1>4, SeriesKept DEF StatusObserved
<1> QED
  BY <1>3, <1>4

(***************************************************************************)
(* With its gauges the controller does what it does without: what is       *)
(* proved of Controller holds beside them.                                 *)
(***************************************************************************)
LEMMA SeriesSteps == [SeriesNext]_<<vars, series>> => [Next]_vars
<1> SUFFICES ASSUME [SeriesNext]_<<vars, series>> PROVE [Next]_vars
  OBVIOUS
<1>1. CASE ObservedWork
  BY <1>1 DEF ObservedWork, Next, Work
<1>2. CASE Deliver \/ Environment \/ CallFails \/ Tick \/ ObservedRestart
  BY <1>2 DEF ObservedRestart, Next
<1>3. CASE UNCHANGED <<vars, series>>
  BY <1>3
<1> QED
  BY <1>1, <1>2, <1>3 DEF SeriesNext

(***************************************************************************)
(* Every step keeps one label of each gauge.                               *)
(***************************************************************************)
LEMMA OneLabelNext == IInv /\ OneLabel /\ [SeriesNext]_<<vars, series>> => OneLabel'
<1> SUFFICES ASSUME IInv, OneLabel, [SeriesNext]_<<vars, series>> PROVE OneLabel'
  OBVIOUS
<1>1. CASE ObservedWork
  BY <1>1, StartSeries, DecideSeries, UpdateSeries, StatusSeries, SeriesKept DEF ObservedWork
<1>2. CASE UNCHANGED series
  BY <1>2, SeriesKept
<1>3. CASE ObservedRestart
  BY <1>3, NothingShown DEF ObservedRestart, OneLabel
<1> QED
  BY <1>1, <1>2, <1>3 DEF SeriesNext

(***************************************************************************)
(* The invariant holds initially.                                          *)
(***************************************************************************)
LEMMA OneLabelInit == MetricsInit => IInv /\ OneLabel
  BY InitIInv, NothingShown DEF MetricsInit, OneLabel

(***************************************************************************)
(* No label of an earlier pass is exported beside the present one: what    *)
(* the last* maps remember of a labelled gauge is exactly what is          *)
(* exported, so the one deletion they allow is enough. Whatever the        *)
(* passes, restarts and failed calls, for every value of the constants.    *)
(***************************************************************************)
THEOREM MetricsOneLabel ==
    SeriesSpec => [](\A n \in Nodes, g \in Labelled : series[n].gauge[g] = series[n].last[g])
<1> DEFINE L == \A n \in Nodes, g \in Labelled : series[n].gauge[g] = series[n].last[g]
<1>1. IInv /\ OneLabel /\ [SeriesNext]_<<vars, series>> => (IInv /\ OneLabel)'
  BY OneLabelNext, SeriesSteps, NextKeeps
<1>2. OneLabel => L
  <2> SUFFICES ASSUME NEW s, Remembered(s), NEW g \in Labelled PROVE s.gauge[g] = s.last[g]
    BY DEF OneLabel
  <2> DEFINE G == [h \in Gauges |-> s.gauge[h]]
             M == [h \in Labelled |-> s.gauge[h]]
  <2>1. s = [gauge |-> G, last |-> M]
    BY DEF Remembered
  <2>2. M[g] = s.gauge[g]
    OBVIOUS
  <2> HIDE DEF G, M
  <2>3. s.last = M
    BY <2>1
  <2> QED
    BY <2>2, <2>3
<1> QED
  BY <1>1, <1>2, OneLabelInit, PTL DEF SeriesSpec
----------------------------------------------------------------------------
(***************************************************************************)
(* What the gauges of a Node should show at a time, by the enrollments the *)
(* cache shows.                                                            *)
(***************************************************************************)
Shows(n, t) ==
    LET items == itemsOf(cact, n)
    IN  IF node[n].exists
        THEN Tells(series[n].gauge, desiredFields(items, t), protectionForNode(items, t))
        ELSE series[n].gauge = NoSeries.gauge

(***************************************************************************)
(* An enrollment of the Node is being deleted: its event will wake the     *)
(* others.                                                                 *)
(***************************************************************************)
Leaving(n) == \E e \in Enrollments : cact[e].phase = "deleting" /\ cact[e].nodeName = n

(***************************************************************************)
(* The pass in progress will export, or is exporting, what the enrollments *)
(* of the Node ask for.                                                    *)
(***************************************************************************)
Judges == rec.badSchedule = scheduleInvalid(cact[rec.e].a.spec)

Seeing(n) == Deciding(n) /\ Judges

Exporting(n) ==
    /\ PassFor(n) /\ Judges /\ KnowsNode(n) /\ rec.pc \in {"update"} \cup Setters
    /\ rec.mode = "missing" => series[n].gauge = NoSeries.gauge
    /\ rec.mode = "normal" /\ rec.pc = "status5" =>
           Signalled(series[n].gauge, rec.owned, rec.protection)

Exported(n) ==
    \E e \in DOMAIN itemsOf(cact, n) :
        timer[e] # 0 /\ \A t \in Nat : now <= t /\ t < timer[e] => Shows(n, t)

(***************************************************************************)
(* The gauges of every Node with enrollments are right until a requeue and *)
(* no pass touches them, or a pass that will set them right is in progress *)
(* or due.                                                                 *)
(***************************************************************************)
Traced(n) ==
    Woken(n) \/ Leaving(n) \/ Seeing(n) \/ Exporting(n) \/ (Exported(n) /\ ~Passing(n))

SeriesCovered == \A n \in Nodes : DOMAIN itemsOf(cact, n) # {} => Traced(n)

----------------------------------------------------------------------------
(***************************************************************************)
(* The enrollments of a Node are the same while their cached objects are.  *)
(***************************************************************************)
LEMMA SameItems ==
    ASSUME NEW n,
           \A e \in Enrollments :
               cact[e].nodeName = n \/ cact'[e].nodeName = n => cact'[e] = cact[e]
    PROVE  itemsOf(cact', n) = itemsOf(cact, n)
<1>1. {e \in Enrollments : cact'[e].phase = "live" /\ cact'[e].nodeName = n}
        = {e \in Enrollments : cact[e].phase = "live" /\ cact[e].nodeName = n}
  OBVIOUS
<1>2. \A e \in {f \in Enrollments : cact[f].phase = "live" /\ cact[f].nodeName = n} :
         cact'[e].a = cact[e].a
  OBVIOUS
<1> QED
  BY <1>1, <1>2 DEF itemsOf

(***************************************************************************)
(* What is exported stays right while the enrollments of the Node, its     *)
(* presence and its gauges stay, and its requeue is not moved back.        *)
(***************************************************************************)
LEMMA ExportedStays ==
    ASSUME TypeOK, now' \in Nat, now <= now', timer' \in [Enrollments -> Nat],
           NEW n \in Nodes, Exported(n), itemsOf(cact', n) = itemsOf(cact, n),
           node'[n].exists = node[n].exists, series'[n] = series[n],
           \A e \in Enrollments : timer[e] # 0 =>
               e \in queue' \/ (timer'[e] # 0 /\ timer'[e] <= timer[e])
    PROVE  Woken(n)' \/ Exported(n)'
<1>1. PICK e \in DOMAIN itemsOf(cact, n) :
          timer[e] # 0 /\ \A t \in Nat : now <= t /\ t < timer[e] => Shows(n, t)
  BY DEF Exported
<1>2. e \in Enrollments /\ timer[e] \in Nat /\ timer'[e] \in Nat /\ now \in Nat
  BY ItemsType DEF TypeOK
<1>3. CASE e \in queue'
  BY <1>1, <1>3 DEF Woken
<1>4. CASE e \notin queue'
  <2>1. timer'[e] # 0 /\ timer'[e] <= timer[e]
    BY <1>1, <1>2, <1>4
  <2>2. ASSUME NEW t \in Nat, now' <= t, t < timer'[e] PROVE Shows(n, t)'
    <3>1. Shows(n, t)
      BY <1>1, <1>2, <2>1, <2>2
    <3>2. node'[n].exists = node[n].exists /\ series'[n] = series[n]
          /\ itemsOf(cact, n)' = itemsOf(cact, n)
      OBVIOUS
    <3> QED
      BY <3>1, <3>2 DEF Shows
  <2> QED
    BY <1>1, <2>1, <2>2 DEF Exported
<1> QED
  BY <1>3, <1>4

(***************************************************************************)
(* A step of somebody else leaves the gauges and the pass in progress      *)
(* alone, and an event behind when the Node comes or goes.                 *)
(***************************************************************************)
LEMMA OthersTrace ==
    ASSUME TypeOK, now' = now, NEW n \in Nodes, Traced(n), UNCHANGED series,
           \A e \in Enrollments :
               cact[e].nodeName = n \/ cact'[e].nodeName = n => cact'[e] = cact[e],
           node'[n].exists = node[n].exists \/ n \in nodeEvents',
           queue \subseteq queue', timer' \in [Enrollments -> Nat],
           n \in nodeEvents => n \in nodeEvents' \/ \E e \in DOMAIN itemsOf(cact, n) : e \in queue',
           \A e \in Enrollments : timer[e] # 0 => e \in queue' \/ timer'[e] = timer[e],
           rec'.pc = rec.pc, rec'.e = rec.e, rec'.obj = rec.obj, rec'.mode = rec.mode,
           rec'.badSchedule = rec.badSchedule, rec'.protection = rec.protection,
           rec'.requeue = rec.requeue, rec'.owned = rec.owned
    PROVE  Traced(n)'
<1>1. itemsOf(cact', n) = itemsOf(cact, n)
  BY SameItems
<1>2. CASE Woken(n) \/ n \in nodeEvents'
  BY <1>1, <1>2 DEF Woken, Traced
<1>3. CASE Leaving(n)
  <2>1. PICK e \in Enrollments : cact[e].phase = "deleting" /\ cact[e].nodeName = n
    BY <1>3 DEF Leaving
  <2>2. cact'[e] = cact[e]
    BY <2>1
  <2> QED
    BY <2>1, <2>2 DEF Leaving, Traced
<1>4. ASSUME PassFor(n), Judges PROVE PassFor(n)' /\ Judges'
  <2>1. rec.e \in Enrollments /\ cact[rec.e].nodeName = n
    BY <1>4, ItemsType DEF PassFor, TypeOK
  <2>2. cact'[rec.e] = cact[rec.e]
    BY <2>1
  <2> QED
    BY <1>1, <1>4, <2>2 DEF PassFor, Judges
<1>5. CASE Seeing(n)
  BY <1>4, <1>5 DEF Seeing, Deciding, Traced
<1>6. CASE Exporting(n) /\ node'[n].exists = node[n].exists
  <2>1. KnowsNode(n)'
    BY <1>1, <1>6 DEF Exporting, KnowsNode
  <2> QED
    BY <1>4, <1>6, <2>1 DEF Exporting, Traced
<1>7. CASE Exported(n) /\ ~Passing(n) /\ node'[n].exists = node[n].exists
  <2>1. /\ now' \in Nat /\ now <= now'
        /\ \A e \in Enrollments : timer[e] # 0 =>
              e \in queue' \/ (timer'[e] # 0 /\ timer'[e] <= timer[e])
    BY DEF TypeOK
  <2>2. Woken(n)' \/ Exported(n)'
    BY <1>1, <1>7, <2>1, ExportedStays
  <2>3. ~Passing(n)'
    BY <1>7 DEF Passing, Enrolls, Finalizes
  <2> QED
    BY <2>2, <2>3 DEF Traced
<1> QED
  BY <1>2, <1>3, <1>5, <1>6, <1>7 DEF Traced

(***************************************************************************)
(* A step of the pass leaves the gauges of other Nodes alone.              *)
(***************************************************************************)
LEMMA PassTraces ==
    ASSUME TypeOK, now' = now, cact' = cact, NEW n \in Nodes, Traced(n),
           series'[n] = series[n] \/ Passing(n),
           nodeEvents \subseteq nodeEvents', queue \subseteq queue',
           timer' \in [Enrollments -> Nat],
           node'[n].exists = node[n].exists \/ n \in nodeEvents',
           \A e \in Enrollments : timer[e] # 0 => timer'[e] # 0 /\ timer'[e] <= timer[e],
           Passing(n)' => Passing(n),
           Seeing(n) \/ Exporting(n) => Traced(n)'
    PROVE  Traced(n)'
<1>1. CASE Woken(n) \/ n \in nodeEvents'
  BY <1>1 DEF Woken, Traced
<1>2. CASE Leaving(n)
  BY <1>2 DEF Leaving, Traced
<1>3. CASE Exported(n) /\ ~Passing(n) /\ n \notin nodeEvents'
  <2>1. now \in Nat /\ now <= now' /\ now' \in Nat
    BY DEF TypeOK
  <2>2. Woken(n)' \/ Exported(n)'
    BY <1>3, <2>1, ExportedStays
  <2> QED
    BY <1>3, <2>2 DEF Traced
<1> QED
  BY <1>1, <1>2, <1>3 DEF Traced

(***************************************************************************)
(* A pass that fails leaves its object in the queue.                       *)
(***************************************************************************)
LEMMA FailedTraces ==
    ASSUME TypeOK, Failed, now' = now, cact' = cact, NEW n \in Nodes, Traced(n),
           series'[n] = series[n] \/ Passing(n), UNCHANGED <<node, nodeEvents>>
    PROVE  Traced(n)'
<1>1. queue' = queue \cup {rec.e} /\ timer' = timer /\ rec' = NoPass
  BY DEF Failed
<1>2. Seeing(n) \/ Exporting(n) => Traced(n)'
  BY <1>1 DEF Seeing, Exporting, Deciding, PassFor, Woken, Traced
<1>3. ~Passing(n)'
  BY <1>1 DEF Passing, Enrolls, Finalizes, NoPass, Setters
<1>4. /\ timer' \in [Enrollments -> Nat]
      /\ \A e \in Enrollments : timer[e] # 0 => timer'[e] # 0 /\ timer'[e] <= timer[e]
  BY <1>1 DEF TypeOK
<1> QED
  BY <1>1, <1>2, <1>3, <1>4, PassTraces
----------------------------------------------------------------------------
(***************************************************************************)
(* A request that is taken from the queue becomes a pass that will set the *)
(* gauges, or one of an enrollment being deleted.                          *)
(***************************************************************************)
LEMMA StartTraces ==
    ASSUME IInv, OneLabel, NEW n \in Nodes, Traced(n),
           NEW e \in Enrollments, Start(e), StartObserved(e)
    PROVE  Traced(n)'
<1>1. /\ cact' = cact /\ UNCHANGED <<node, nodeEvents>> /\ now' = now /\ timer' = timer
      /\ rec.pc = "idle" /\ queue' = queue \ {e}
  BY DEF Start, caches, UnchangedNode
<1>2. CASE e \in DOMAIN itemsOf(cact, n)
  <2>1. cact[e].phase = "live" /\ cact[e].nodeName = n /\ n # NoNode
    BY <1>2, ItemsType, ControllerAssumption DEF IInv, TypeOK
  <2>2. /\ rec'.e = e /\ rec'.pc \in {"addFinalizer", "hold"}
        /\ rec'.badSchedule = scheduleInvalid(cact[e].a.spec)
    BY <2>1, StartEffect
  <2>3. rec'.obj = cact[e]
    <3>1. rec' # NoPass
      BY <2>2 DEF NoPass
    <3> QED
      BY <3>1, StartEffect
  <2> QED
    BY <1>1, <1>2, <2>1, <2>2, <2>3 DEF Traced, Seeing, Deciding, PassFor, Judges
<1>3. CASE e \notin DOMAIN itemsOf(cact, n)
  <2>1. CASE Woken(n) \/ Leaving(n)
    BY <1>1, <1>3, <2>1 DEF Woken, Leaving, Traced
  <2>2. CASE Seeing(n) \/ Exporting(n)
    BY <1>1, <2>2 DEF Seeing, Deciding, Exporting, Setters
  <2>3. CASE cact[e].phase = "deleting" /\ cact[e].nodeName = n
    BY <1>1, <2>3 DEF Leaving, Traced
  <2>4. CASE Exported(n) /\ ~(cact[e].phase = "deleting" /\ cact[e].nodeName = n)
    <3>1. series'[n] = series[n]
      BY <2>4, StartSeries
    <3>2. /\ now' \in Nat /\ now <= now' /\ timer' \in [Enrollments -> Nat]
          /\ \A f \in Enrollments : timer[f] # 0 => timer'[f] # 0 /\ timer'[f] <= timer[f]
      BY <1>1 DEF IInv, TypeOK
    <3>3. Woken(n)' \/ Exported(n)'
      BY <1>1, <2>4, <3>1, <3>2, ExportedStays DEF IInv
    <3>4. ~Passing(n)'
      <4>1. CASE rec' = NoPass
        BY <4>1 DEF NoPass, Passing, Enrolls, Finalizes, Setters
      <4>2. CASE rec' # NoPass
        <5>1. rec'.obj = cact[e] /\ cact[e].phase # "absent"
          BY <4>2, StartEffect
        <5>2. cact[e].phase \in {"absent", "live", "deleting"}
          BY ObjectFields DEF IInv, TypeOK
        <5>3. cact[e].phase = "live" => cact[e].nodeName # n
          BY <1>3 DEF itemsOf
        <5> QED
          BY <2>4, <5>1, <5>2, <5>3 DEF Passing
      <4> QED
        BY <4>1, <4>2
    <3> QED
      BY <3>3, <3>4 DEF Traced
  <2> QED
    BY <2>1, <2>2, <2>3, <2>4 DEF Traced
<1> QED
  BY <1>2, <1>3

(***************************************************************************)
(* The finalizer patch goes on to decide, or leaves a request behind.      *)
(***************************************************************************)
LEMMA AddFinalizerTraces ==
    ASSUME IInv, NEW n \in Nodes, Traced(n), AddFinalizer, UNCHANGED series
    PROVE  Traced(n)'
<1>1. CASE Failed /\ UnchangedActivity
  BY <1>1, FailedTraces DEF AddFinalizer, caches, UnchangedNode, IInv
<1>2. CASE ~(Failed /\ UnchangedActivity)
  <2>1. /\ UNCHANGED <<now, cact, cnode, node, nodeLag, nodeEvents, queue, timer>>
        /\ rec'.pc = "hold" /\ rec'.obj.nodeName = rec.obj.nodeName /\ rec'.e = rec.e
        /\ rec'.badSchedule = rec.badSchedule
    BY <1>2, AddFinalizerEffect
  <2>2. rec.pc = "addFinalizer"
    BY DEF AddFinalizer
  <2>3. Seeing(n) \/ Exporting(n) => Traced(n)'
    BY <2>1, <2>2 DEF Seeing, Exporting, Deciding, PassFor, Judges, Setters, Traced
  <2>4. /\ timer' \in [Enrollments -> Nat]
        /\ \A e \in Enrollments : timer[e] # 0 => timer'[e] # 0 /\ timer'[e] <= timer[e]
    BY <2>1 DEF IInv, TypeOK
  <2>5. Passing(n)' => Passing(n)
    BY <2>1, <2>2 DEF Passing
  <2> QED
    BY <2>1, <2>3, <2>4, <2>5, PassTraces DEF IInv
<1> QED
  BY <1>1, <1>2

(***************************************************************************)
(* So does the hold patch.                                                 *)
(***************************************************************************)
LEMMA HoldTraces ==
    ASSUME IInv, NEW n \in Nodes, Traced(n), reconcileHold, UNCHANGED series
    PROVE  Traced(n)'
<1>1. CASE Failed /\ UnchangedActivity
  BY <1>1, FailedTraces DEF reconcileHold, caches, UnchangedNode, IInv
<1>2. CASE ~(Failed /\ UnchangedActivity)
  <2>1. /\ UNCHANGED <<now, cact, cnode, node, nodeLag, nodeEvents, queue, timer>>
        /\ rec.pc = "hold" /\ rec'.pc = "decide" /\ rec'.e = rec.e
        /\ rec'.badSchedule = rec.badSchedule
        /\ rec'.obj = rec.obj \/ rec'.obj.nodeName = act[rec.e].nodeName
    BY <1>2, HoldEffect
  <2>2. rec'.obj.nodeName = rec.obj.nodeName
    BY <2>1 DEF IInv, PassKnows, Enrolls, Held
  <2>3. Seeing(n) \/ Exporting(n) => Traced(n)'
    BY <2>1, <2>2 DEF Seeing, Exporting, Deciding, PassFor, Judges, Setters, Traced
  <2>4. /\ timer' \in [Enrollments -> Nat]
        /\ \A e \in Enrollments : timer[e] # 0 => timer'[e] # 0 /\ timer'[e] <= timer[e]
    BY <2>1 DEF IInv, TypeOK
  <2>5. Passing(n)' => Passing(n)
    BY <2>1, <2>2 DEF Passing, Enrolls
  <2> QED
    BY <2>1, <2>3, <2>4, <2>5, PassTraces DEF IInv
<1> QED
  BY <1>1, <1>2

(***************************************************************************)
(* The decision knows what the gauges should show, and has cleared them if *)
(* the Node is missing; a Node whose event is outstanding is decided again. *)
(***************************************************************************)
LEMMA DecideTraces ==
    ASSUME IInv, Punctual, OneLabel, NEW n \in Nodes, Traced(n), Decide, DecideObserved
    PROVE  Traced(n)'
<1>1. /\ rec.pc = "decide" /\ rec.obj.nodeName \in Nodes
      /\ UNCHANGED <<now, cact, queue, timer, node, nodeEvents>>
      /\ rec'.e = rec.e /\ rec'.obj = rec.obj
      /\ rec'.pc \in {"update", "status1"} /\ rec'.mode \in {"normal", "missing"}
      /\ rec'.mode = "normal" <=> cnode[rec.obj.nodeName].exists
      /\ rec'.badSchedule = rec.badSchedule
      /\ rec'.protection = protectionForNode(itemsOf(cact, rec.obj.nodeName), rec.at)
      /\ rec'.requeue = protectionRequeue(itemsOf(cact, rec.obj.nodeName), rec.at)
      /\ cnode[rec.obj.nodeName].exists
           => rec'.owned = desiredFields(itemsOf(cact, rec.obj.nodeName), rec.at)
  BY DecideEffect
<1>2. ASSUME Seeing(n) \/ Exporting(n) PROVE Traced(n)'
  <2>1. PassFor(n) /\ Judges
    BY <1>2 DEF Seeing, Exporting, Deciding
  <2>2. CASE n \in nodeEvents
    BY <1>1, <2>2 DEF Traced, Woken
  <2>3. CASE n \notin nodeEvents
    <3>1. rec.obj.nodeName = n /\ cnode[n] = node[n] /\ rec.at = now
      BY <1>1, <2>1, <2>3 DEF PassFor, IInv, NodeCurrent, Punctual, Decides
    <3>2. KnowsNode(n)'
      BY <1>1, <3>1 DEF KnowsNode
    <3>3. rec'.mode = "missing" => series'[n].gauge = NoSeries.gauge
      BY <3>1, DecideSeries
    <3>4. Exporting(n)'
      BY <1>1, <2>1, <3>2, <3>3 DEF Exporting, PassFor, Judges, Setters
    <3> QED
      BY <3>4 DEF Traced
  <2> QED
    BY <2>2, <2>3
<1>3. /\ timer' \in [Enrollments -> Nat]
      /\ \A e \in Enrollments : timer[e] # 0 => timer'[e] # 0 /\ timer'[e] <= timer[e]
  BY <1>1 DEF IInv, TypeOK
<1>4. Passing(n)' => Passing(n)
  BY <1>1 DEF Passing, Enrolls
<1>5. series'[n] = series[n] \/ Passing(n)
  BY DecideSeries
<1> QED
  BY <1>1, <1>2, <1>3, <1>4, <1>5, PassTraces DEF IInv

(***************************************************************************)
(* The Update changes fields of the Node, not its presence.                *)
(***************************************************************************)
LEMMA UpdateTraces ==
    ASSUME IInv, OneLabel, NEW n \in Nodes, Traced(n), UpdateNode, UpdateObserved
    PROVE  Traced(n)'
<1>1. series'[n] = series[n] \/ Passing(n)
  BY UpdateSeries
<1>2. CASE Failed /\ UnchangedNode
  BY <1>1, <1>2, FailedTraces DEF UpdateNode, caches, UnchangedNode, IInv
<1>3. CASE ~(Failed /\ UnchangedNode)
  <2> DEFINE m == rec.obj.nodeName
             obj == [node[m] EXCEPT !.owned = rec.owned]
  <2>1. /\ rec.pc \in {"update", "release"} /\ m \in Nodes
        /\ UNCHANGED <<now, cact, cnode, queue, timer>>
        /\ obj \in NodeObject /\ obj.exists = node[m].exists /\ writeNode(m, obj)
        /\ rec'.e = rec.e /\ rec'.obj = rec.obj /\ rec'.mode = rec.mode
        /\ rec'.requeue = rec.requeue /\ rec'.badSchedule = rec.badSchedule
        /\ rec'.protection = rec.protection /\ rec'.owned = rec.owned
        /\ rec'.pc = IF rec.pc = "update" THEN "status1" ELSE "removeFinalizer"
    BY <1>3, UpdateEffect
  <2> HIDE DEF obj
  <2>2. /\ nodeEvents \subseteq nodeEvents' /\ node'[m] = obj
        /\ \A k \in Nodes : k # m => node'[k] = node[k]
    BY <2>1, WriteNodeKeeps DEF IInv
  <2>3. \A k \in Nodes : node'[k].exists = node[k].exists
    BY <2>1, <2>2
  <2>4. Seeing(n) \/ Exporting(n) => Traced(n)'
    <3>1. ~Seeing(n)
      BY <2>1 DEF Seeing, Deciding
    <3>2. ASSUME Exporting(n) PROVE Exporting(n)'
      <4>1. rec.pc = "update" /\ UNCHANGED series
        BY <2>1, <3>2, UpdateSeries DEF Exporting, Setters
      <4>2. KnowsNode(n)'
        BY <2>1, <2>3, <3>2 DEF Exporting, KnowsNode
      <4> QED
        BY <2>1, <3>2, <4>1, <4>2 DEF Exporting, PassFor, Judges, Setters
    <3> QED
      BY <3>1, <3>2 DEF Traced
  <2>5. /\ timer' \in [Enrollments -> Nat]
        /\ \A e \in Enrollments : timer[e] # 0 => timer'[e] # 0 /\ timer'[e] <= timer[e]
    BY <2>1 DEF IInv, TypeOK
  <2>6. Passing(n)' => Passing(n)
    BY <2>1 DEF Passing, Enrolls, Finalizes
  <2> QED
    BY <1>1, <2>1, <2>2, <2>3, <2>4, <2>5, <2>6, PassTraces DEF IInv
<1> QED
  BY <1>2, <1>3

(***************************************************************************)
(* The last setter leaves the gauges right until the requeue of the pass.  *)
(***************************************************************************)
LEMMA EndExports ==
    ASSUME Calm, TypeOK, Persistent(cact), NEW n \in Nodes, PassFor(n), KnowsNode(n),
           rec.mode = "normal" => Tells(series'[n].gauge, rec.owned, rec.protection),
           rec.mode = "missing" => series'[n].gauge = NoSeries.gauge,
           Finished(rec.requeue), cact' = cact, node' = node, now' = now
    PROVE  Exported(n)'
<1> DEFINE items == itemsOf(cact, n)
           D == DOMAIN items
<1>1. rec.e \in D /\ D # {} /\ rec.e \in Enrollments
  BY ItemsType DEF PassFor, TypeOK
<1>2. D \in SUBSET (Nat \ {0}) /\ items \in [D -> EnrollmentType]
  BY ItemsType DEF TypeOK
<1>3. \A e \in D : ErrorPersists(items[e].spec)
  BY ItemsType DEF TypeOK, Persistent
<1>4. now \in Nat /\ FailClosed
  BY DEF TypeOK, Calm
<1> HIDE DEF items, D
<1>5. /\ protectionRequeue(items, now) \in Nat /\ protectionRequeue(items, now) > 0
      /\ \A u \in Nat : now <= u /\ u < now + protectionRequeue(items, now)
           => /\ desiredFields(items, u) = desiredFields(items, now)
              /\ ReportHolds(protectionForNode(items, now), protectionForNode(items, u))
  BY <1>1, <1>2, <1>3, <1>4, ProtectionStable
<1>6. /\ rec.requeue = protectionRequeue(items, now)
      /\ rec.protection = protectionForNode(items, now)
      /\ \/ rec.mode = "missing" /\ ~node[n].exists
         \/ rec.mode = "normal" /\ node[n].exists /\ rec.owned = desiredFields(items, now)
  BY DEF KnowsNode, items
<1>7. timer'[rec.e] # 0 /\ timer'[rec.e] <= now + rec.requeue /\ timer'[rec.e] \in Nat
  BY <1>1, <1>5, <1>6, FinishedEffect
<1>8. ASSUME NEW t \in Nat, now' <= t, t < timer'[rec.e] PROVE Shows(n, t)'
  <2>1. now <= t /\ t < now + rec.requeue
    BY <1>4, <1>5, <1>6, <1>7, <1>8
  <2>2. /\ desiredFields(items, t) = desiredFields(items, now)
        /\ ReportHolds(protectionForNode(items, now), protectionForNode(items, t))
    BY <1>5, <1>6, <2>1
  <2>3. CASE rec.mode = "missing" /\ ~node[n].exists
    BY <2>3 DEF Shows
  <2>4. CASE rec.mode = "normal" /\ node[n].exists /\ rec.owned = desiredFields(items, now)
    <3>1. Tells(series'[n].gauge, desiredFields(items, now), protectionForNode(items, now))
      BY <1>6, <2>4
    <3>2. Tells(series'[n].gauge, desiredFields(items, t), protectionForNode(items, t))
      BY <2>2, <3>1, TellsLasts
    <3> QED
      BY <2>4, <3>2 DEF Shows, items
  <2> QED
    BY <1>6, <2>3, <2>4
<1> QED
  BY <1>1, <1>7, <1>8 DEF Exported, D, items

(***************************************************************************)
(* The setters: before the last of them the signals are exported, after it *)
(* nothing is missing.                                                     *)
(***************************************************************************)
LEMMA SetStatusTraces ==
    ASSUME Calm, IInv, Persistent(cact), OneLabel, NEW n \in Nodes, Traced(n),
           SetStatus, StatusObserved
    PROVE  Traced(n)'
<1>1. series'[n] = series[n] \/ Passing(n)
  BY StatusSeries
<1>2. CASE Failed /\ UnchangedActivity
  BY <1>1, <1>2, FailedTraces DEF SetStatus, caches, UnchangedNode, IInv
<1>3. CASE ~(Failed /\ UnchangedActivity)
  <2>1. /\ rec.pc \in Setters /\ rec.e \in Enrollments /\ rec.requeue \in Int
        /\ UNCHANGED <<now, cact>> /\ UNCHANGED <<node, nodeEvents>>
        /\ \E obj \in Object :
              /\ obj = rec.obj \/ obj.nodeName = act[rec.e].nodeName
              /\ \/ rec.pc = "status5" /\ Finished(rec.requeue)
                 \/ /\ UNCHANGED <<queue, timer>> /\ rec'.pc \in Setters
                    /\ rec.pc # "status5" /\ rec'.pc = nextStep[rec.pc]
                    /\ rec'.obj = obj /\ rec'.e = rec.e /\ rec'.mode = rec.mode
                    /\ rec'.requeue = rec.requeue
                    /\ rec'.owned = rec.owned /\ rec'.protection = rec.protection
                    /\ rec'.badSchedule = rec.badSchedule
    BY <1>3, SetStatusEffect
  <2>2. rec.mode # "blank" => Held(rec.e, rec.obj)
    BY <2>1 DEF IInv, PassKnows, Enrolls
  <2>3. ~Seeing(n)
    BY <2>1 DEF Seeing, Deciding, Setters
  <2>4. ASSUME Exporting(n)
        PROVE  /\ PassFor(n) /\ Judges /\ KnowsNode(n) /\ rec.mode # "blank"
               /\ rec.obj.nodeName = n
               /\ rec.mode = "missing" => series'[n].gauge = NoSeries.gauge
               /\ rec.mode = "normal" /\ rec.pc = "status4"
                    => Signalled(series'[n].gauge, rec.owned, rec.protection)
               /\ rec.mode = "normal" /\ rec.pc = "status5"
                    => Tells(series'[n].gauge, rec.owned, rec.protection)
    <3>1. PassFor(n) /\ Judges /\ KnowsNode(n) /\ rec.mode # "blank" /\ rec.obj.nodeName = n
      BY <2>4 DEF Exporting, KnowsNode, PassFor
    <3>2. rec.mode = "missing" => series'[n].gauge = NoSeries.gauge
      BY <2>4, StatusSeries DEF Exporting
    <3>3. Remembered(series[n])
      BY DEF OneLabel
    <3>4. ASSUME rec.mode = "normal", rec.pc = "status4"
          PROVE  Signalled(series'[n].gauge, rec.owned, rec.protection)
      <4> DEFINE items == itemsOf(cact, n)
                 D == DOMAIN items
      <4>1. series'[n] = observeNodeSignals(series[n], rec.protection, rec.owned.burst,
                                            rec.badSchedule, now)
        BY <1>3, <3>1, <3>4, StatusSeries
      <4>2. /\ rec.protection = protectionForNode(items, now)
            /\ rec.owned = desiredFields(items, now)
        BY <3>1, <3>4 DEF KnowsNode
      <4>3. /\ D \in SUBSET Enrollments /\ items \in [D -> EnrollmentType] /\ rec.e \in D
            /\ items[rec.e] = cact[rec.e].a
        BY <3>1, ItemsType DEF PassFor, IInv, TypeOK
      <4>4. rec.badSchedule = scheduleInvalid(items[rec.e].spec) /\ now \in Nat
        BY <3>1, <4>3 DEF Judges, IInv, TypeOK
      <4> HIDE DEF items, D
      <4> QED
        BY <3>3, <4>1, <4>2, <4>3, <4>4, SignalsTell
    <3>5. ASSUME rec.mode = "normal", rec.pc = "status5"
          PROVE  Tells(series'[n].gauge, rec.owned, rec.protection)
      <4>1. series'[n] = observeEvictionStatus(series[n], "Disabled")
        BY <1>3, <3>1, <3>5, StatusSeries
      <4>2. /\ series'[n].gauge["evictionOutcome"] = {"Disabled"}
            /\ \A g \in Gauges \ {"evictionOutcome"} : series'[n].gauge[g] = series[n].gauge[g]
        BY <3>3, <4>1, OutcomeShown
      <4>3. Signalled(series[n].gauge, rec.owned, rec.protection)
        BY <2>4, <3>5 DEF Exporting
      <4> QED
        BY <4>2, <4>3 DEF Signalled
    <3> QED
      BY <3>1, <3>2, <3>4, <3>5
  <2>5. CASE rec.pc = "status5" /\ Finished(rec.requeue)
    <3>1. /\ queue' = queue /\ rec' = NoPass /\ timer' \in [Enrollments -> Nat]
          /\ \A e \in Enrollments : timer[e] # 0 => timer'[e] # 0 /\ timer'[e] <= timer[e]
      BY <2>1, <2>5, FinishedEffect DEF IInv
    <3>2. ~Passing(n)'
      BY <3>1 DEF Passing, Enrolls, Finalizes, NoPass, Setters
    <3>3. ASSUME Exporting(n) PROVE Traced(n)'
      <4>1. Exported(n)'
        BY <2>1, <2>4, <2>5, <3>3, EndExports DEF IInv
      <4> QED
        BY <3>2, <4>1 DEF Traced
    <3> QED
      BY <1>1, <2>1, <2>3, <3>1, <3>2, <3>3, PassTraces DEF IInv
  <2>6. CASE ~(rec.pc = "status5" /\ Finished(rec.requeue))
    <3>1. PICK obj \in Object :
              /\ obj = rec.obj \/ obj.nodeName = act[rec.e].nodeName
              /\ UNCHANGED <<queue, timer>> /\ rec'.pc \in Setters
              /\ rec.pc # "status5" /\ rec'.pc = nextStep[rec.pc]
              /\ rec'.obj = obj /\ rec'.e = rec.e /\ rec'.mode = rec.mode
              /\ rec'.requeue = rec.requeue
              /\ rec'.owned = rec.owned /\ rec'.protection = rec.protection
              /\ rec'.badSchedule = rec.badSchedule
      BY <2>1, <2>6
    <3>2. rec.mode # "blank" => rec'.obj.nodeName = rec.obj.nodeName
      BY <2>2, <3>1 DEF Held
    <3>3. ASSUME Exporting(n) PROVE Traced(n)'
      <4>1. KnowsNode(n)'
        BY <2>1, <2>4, <3>1, <3>3 DEF KnowsNode
      <4>2. PassFor(n)' /\ Judges'
        BY <2>1, <2>4, <3>1, <3>2, <3>3 DEF PassFor, Judges
      <4>3. rec'.pc = "status5" => rec.pc = "status4"
        BY <2>1, <3>1 DEF nextStep, Setters
      <4>4. Exporting(n)'
        BY <2>4, <3>1, <3>3, <4>1, <4>2, <4>3 DEF Exporting, Signalled
      <4> QED
        BY <4>4 DEF Traced
    <3>4. /\ timer' \in [Enrollments -> Nat]
          /\ \A e \in Enrollments : timer[e] # 0 => timer'[e] # 0 /\ timer'[e] <= timer[e]
      BY <3>1 DEF IInv, TypeOK
    <3>5. Passing(n)' => Passing(n)
      BY <2>1, <3>1, <3>2 DEF Passing, Enrolls, Finalizes, Setters
    <3> QED
      BY <1>1, <2>1, <2>3, <3>1, <3>3, <3>4, <3>5, PassTraces DEF IInv
  <2> QED
    BY <2>5, <2>6
<1> QED
  BY <1>2, <1>3

(***************************************************************************)
(* A pass that removes a finalizer is for no live enrollment.              *)
(***************************************************************************)
LEMMA RemoveFinalizerTraces ==
    ASSUME IInv, NEW n \in Nodes, Traced(n), RemoveFinalizer, UNCHANGED series
    PROVE  Traced(n)'
<1>1. /\ rec.pc = "removeFinalizer" /\ now' = now /\ cact' = cact
      /\ UNCHANGED <<node, nodeEvents>> /\ (Failed \/ Finished(0))
  BY DEF RemoveFinalizer, caches, UnchangedNode
<1>2. CASE Failed
  BY <1>1, <1>2, FailedTraces DEF IInv
<1>3. CASE Finished(0)
  <2>1. /\ queue' = queue /\ rec' = NoPass /\ timer' \in [Enrollments -> Nat]
        /\ \A e \in Enrollments : timer[e] # 0 => timer'[e] # 0 /\ timer'[e] <= timer[e]
    BY <1>3, FinishedEffect DEF IInv
  <2>2. ~(Seeing(n) \/ Exporting(n))
    BY <1>1 DEF Seeing, Deciding, Exporting, Setters
  <2>3. ~Passing(n)'
    BY <2>1 DEF Passing, Enrolls, Finalizes, NoPass, Setters
  <2> QED
    BY <1>1, <2>1, <2>2, <2>3, PassTraces DEF IInv
<1> QED
  BY <1>1, <1>2, <1>3

(***************************************************************************)
(* When the cache catches up, a Node either has all of its enrollments in  *)
(* the queue or is shown as before.                                        *)
(***************************************************************************)
LEMMA SyncActivitiesTraces ==
    ASSUME IInv, SeriesCovered, NEW n \in Nodes, SyncActivities, UNCHANGED series,
           DOMAIN itemsOf(cact', n) # {}
    PROVE  Traced(n)'
<1> DEFINE ns == {cact[e].nodeName : e \in actLag} \cup {act[e].nodeName : e \in actLag}
<1>1. /\ cact' = act /\ rec' = rec /\ now' = now /\ timer' = timer
      /\ UNCHANGED <<node, nodeEvents>>
      /\ queue' = queue \cup actLag \cup enrolledOn(act, ns)
  BY DEF SyncActivities
<1>2. act \in [Enrollments -> Object] /\ cact \in [Enrollments -> Object]
  BY DEF IInv, TypeOK
<1>3. CASE n \in ns
  <2>1. PICK e \in DOMAIN itemsOf(act, n) : TRUE
    BY <1>1
  <2>2. e \in Enrollments /\ act[e].phase = "live" /\ act[e].nodeName = n
    BY <1>2, <2>1, ItemsType
  <2>3. e \in queue'
    BY <1>1, <1>3, <2>2, ControllerAssumption DEF enrolledOn
  <2> QED
    BY <1>1, <2>1, <2>3 DEF Traced, Woken
<1>4. CASE n \notin ns
  <2>1. \A e \in Enrollments :
               cact[e].nodeName = n \/ cact'[e].nodeName = n => cact'[e] = cact[e]
    BY <1>1, <1>4 DEF IInv, ActCurrent
  <2>2. itemsOf(cact', n) = itemsOf(cact, n)
    BY <2>1, SameItems
  <2>3. Traced(n)
    BY <2>2 DEF SeriesCovered
  <2>4. timer' \in [Enrollments -> Nat] /\ queue \subseteq queue'
    BY <1>1 DEF IInv, TypeOK
  <2> HIDE DEF ns
  <2> QED
    BY <1>1, <2>1, <2>3, <2>4, OthersTrace DEF IInv
<1> QED
  BY <1>3, <1>4

(***************************************************************************)
(* A Node event puts all enrollments of the Node in the queue.             *)
(***************************************************************************)
LEMMA SyncNodesTraces ==
    ASSUME IInv, NEW n \in Nodes, Traced(n), SyncNodes, UNCHANGED series,
           DOMAIN itemsOf(cact, n) # {}
    PROVE  Traced(n)'
<1>1. /\ cact' = cact /\ rec' = rec /\ now' = now /\ timer' = timer /\ node' = node
      /\ queue' = queue \cup enrolledOn(cact, nodeEvents)
  BY DEF SyncNodes
<1>2. n \in nodeEvents => \E e \in DOMAIN itemsOf(cact, n) : e \in queue'
  <2> SUFFICES ASSUME n \in nodeEvents PROVE \E e \in DOMAIN itemsOf(cact, n) : e \in queue'
    OBVIOUS
  <2>1. PICK e \in DOMAIN itemsOf(cact, n) : TRUE
    OBVIOUS
  <2>2. e \in Enrollments /\ cact[e].phase = "live" /\ cact[e].nodeName = n
    BY <2>1, ItemsType DEF IInv, TypeOK
  <2>3. e \in queue'
    BY <1>1, <2>2, ControllerAssumption DEF enrolledOn
  <2> QED
    BY <2>3
<1>3. timer' \in [Enrollments -> Nat]
  BY <1>1 DEF IInv, TypeOK
<1> QED
  BY <1>1, <1>2, <1>3, OthersTrace DEF IInv

(***************************************************************************)
(* A delayed requeue that falls due is in the queue.                       *)
(***************************************************************************)
LEMMA FireTimerTraces ==
    ASSUME IInv, NEW n \in Nodes, Traced(n), NEW e \in Enrollments, FireTimer(e), UNCHANGED series
    PROVE  Traced(n)'
<1>1. /\ cact' = cact /\ rec' = rec /\ now' = now /\ UNCHANGED <<node, nodeEvents>>
      /\ timer' = [timer EXCEPT ![e] = 0] /\ queue' = queue \cup {e}
  BY DEF FireTimer, api, caches
<1>2. /\ timer' \in [Enrollments -> Nat]
      /\ \A f \in Enrollments : f \in queue' \/ timer'[f] = timer[f]
  BY <1>1 DEF IInv, TypeOK
<1> QED
  BY <1>1, <1>2, OthersTrace DEF IInv

(***************************************************************************)
(* A new process has lost its gauges and every enrollment in its queue.    *)
(***************************************************************************)
LEMMA RestartTraces ==
    ASSUME IInv, NEW n \in Nodes, Restart, DOMAIN itemsOf(cact', n) # {}
    PROVE  Traced(n)'
<1>1. cact' = act /\ queue' = {e \in Enrollments : act[e].phase # "absent"}
  BY DEF Restart
<1>2. PICK e \in DOMAIN itemsOf(act, n) : TRUE
  BY <1>1
<1>3. e \in Enrollments /\ act[e].phase = "live"
  BY <1>2, ItemsType DEF IInv, TypeOK
<1> QED
  BY <1>1, <1>2, <1>3 DEF Traced, Woken

(***************************************************************************)
(* Time passes between passes only, and gauges that are right until a      *)
(* requeue stay so.                                                        *)
(***************************************************************************)
LEMMA TickTraces ==
    ASSUME Calm, IInv, NEW n \in Nodes, Traced(n), Tick, UNCHANGED series
    PROVE  Traced(n)'
<1>1. /\ cact' = cact /\ now' = now + 1 /\ UNCHANGED <<node, nodeEvents>>
      /\ timer' = timer /\ queue' = queue /\ rec.pc = "idle" /\ rec' = rec
  BY DEF Tick, api, caches, Calm
<1>2. CASE Woken(n) \/ Leaving(n)
  BY <1>1, <1>2 DEF Traced, Woken, Leaving
<1>3. CASE Seeing(n) \/ Exporting(n)
  BY <1>1, <1>3 DEF Seeing, Deciding, Exporting, Setters
<1>4. CASE Exported(n) /\ ~Passing(n)
  <2>1. /\ now' \in Nat /\ now <= now' /\ timer' \in [Enrollments -> Nat]
        /\ \A e \in Enrollments : timer[e] # 0 => timer'[e] # 0 /\ timer'[e] <= timer[e]
    BY <1>1 DEF IInv, TypeOK
  <2>2. Woken(n)' \/ Exported(n)'
    BY <1>1, <1>4, <2>1, ExportedStays DEF IInv
  <2>3. ~Passing(n)'
    BY <1>1, <1>4 DEF Passing, Enrolls, Finalizes
  <2> QED
    BY <2>2, <2>3 DEF Traced
<1> QED
  BY <1>2, <1>3, <1>4 DEF Traced

(***************************************************************************)
(* What others write changes nothing the controller holds, apart from how  *)
(* fresh the copies of the pass in progress are, and makes an event when a *)
(* Node comes or goes.                                                     *)
(***************************************************************************)
LEMMA EnvironmentEffect ==
    ASSUME IInv, Environment
    PROVE  /\ cact' = cact /\ now' = now /\ queue' = queue /\ timer' = timer
           /\ nodeEvents \subseteq nodeEvents'
           /\ \A n \in Nodes : node'[n].exists = node[n].exists \/ n \in nodeEvents'
           /\ rec'.pc = rec.pc /\ rec'.e = rec.e /\ rec'.obj = rec.obj /\ rec'.mode = rec.mode
           /\ rec'.badSchedule = rec.badSchedule /\ rec'.protection = rec.protection
           /\ rec'.requeue = rec.requeue /\ rec'.owned = rec.owned
<1>1. rec \in Pass
  BY DEF IInv, TypeOK
<1> DEFINE Same == /\ rec'.pc = rec.pc /\ rec'.e = rec.e /\ rec'.obj = rec.obj
                   /\ rec'.mode = rec.mode /\ rec'.badSchedule = rec.badSchedule
                   /\ rec'.protection = rec.protection /\ rec'.requeue = rec.requeue
                   /\ rec'.owned = rec.owned
<1>2. ASSUME NEW known,
             rec' = [rec EXCEPT !.fresh = known] \/ rec' = [rec EXCEPT !.nodeFresh = known]
      PROVE  Same
  BY <1>1, <1>2 DEF Pass
<1> HIDE DEF Same
<1>3. ASSUME NEW e \in Enrollments, NEW obj, UserWrite(e, obj)
      PROVE  /\ cact' = cact /\ now' = now /\ queue' = queue /\ timer' = timer
             /\ UNCHANGED <<node, nodeEvents>> /\ Same
  <2> DEFINE fresh == rec.fresh /\ (rec.e # e \/ obj = act[e])
  <2>1. /\ cact' = cact /\ now' = now /\ UNCHANGED <<node, nodeEvents>>
        /\ timer' = timer /\ queue' = queue /\ rec' = [rec EXCEPT !.fresh = fresh]
    BY <1>3 DEF UserWrite, caches, UnchangedNode
  <2> HIDE DEF fresh
  <2> QED
    BY <1>2, <2>1
<1>4. ASSUME NEW m \in Nodes, NEW obj \in NodeObject, NodeWrite(m, obj)
      PROVE  /\ cact' = cact /\ now' = now /\ queue' = queue /\ timer' = timer
             /\ nodeEvents \subseteq nodeEvents' /\ Same
             /\ \A n \in Nodes : node'[n].exists = node[n].exists \/ n \in nodeEvents'
  <2> DEFINE known == rec.nodeFresh /\ (rec.obj.nodeName # m \/ obj = node[m])
  <2>1. /\ writeNode(m, obj) /\ cact' = cact /\ cnode' = cnode /\ now' = now
        /\ timer' = timer /\ queue' = queue /\ rec' = [rec EXCEPT !.nodeFresh = known]
    BY <1>4 DEF NodeWrite, caches
  <2> HIDE DEF known
  <2>2. /\ nodeEvents \subseteq nodeEvents' /\ (obj = node[m] \/ m \in nodeEvents')
        /\ node'[m] = obj /\ \A k \in Nodes : k # m => node'[k] = node[k]
    BY <2>1, WriteNodeKeeps DEF IInv
  <2>3. \A n \in Nodes : node'[n].exists = node[n].exists \/ n \in nodeEvents'
    BY <2>2
  <2> QED
    BY <1>2, <2>1, <2>2, <2>3
<1>5. ASSUME NEW m \in Nodes, KubeletWrite(m)
      PROVE  /\ cact' = cact /\ now' = now /\ queue' = queue /\ timer' = timer
             /\ UNCHANGED <<node, nodeEvents>> /\ Same
  <2> DEFINE known == rec.nodeFresh /\ rec.obj.nodeName # m
  <2>1. /\ cact' = cact /\ now' = now /\ UNCHANGED <<node, nodeEvents>>
        /\ timer' = timer /\ queue' = queue /\ rec' = [rec EXCEPT !.nodeFresh = known]
    BY <1>5 DEF KubeletWrite, api, caches
  <2> HIDE DEF known
  <2> QED
    BY <1>2, <2>1
<1>6. CASE \E e \in Enrollments :
              \/ \E m \in Nodes \cup {NoNode}, s \in Schedules : Create(e, m, s)
              \/ Delete(e)
              \/ \E r \in Reports : Report(e, r)
              \/ \E h \in Holds : Annotate(e, h)
              \/ \E s \in Schedules : EditSchedule(e, s)
  <2>1. \E e \in Enrollments : \E obj : UserWrite(e, obj)
    BY <1>6 DEF Create, Delete, Report, Annotate, EditSchedule
  <2> QED
    BY <1>3, <2>1 DEF Same
<1>7. ASSUME NEW m \in Nodes, NEW f \in Drifts, DriftNode(m, f)
      PROVE  \E obj \in NodeObject : NodeWrite(m, obj)
  <2>1. NodeWrite(m, [node[m] EXCEPT !.owned = f])
    BY <1>7 DEF DriftNode
  <2>2. [node[m] EXCEPT !.owned = f] \in NodeObject
    BY ControllerAssumption DEF IInv, TypeOK, NodeObject
  <2> QED
    BY <2>1, <2>2
<1>8. ASSUME NEW m \in Nodes, RemoveNode(m) \/ AddNode(m)
      PROVE  \E obj \in NodeObject : NodeWrite(m, obj)
  <2>1. NoNodeObject \in NodeObject /\ [NoNodeObject EXCEPT !.exists = TRUE] \in NodeObject
    BY DEF NoNodeObject, NodeObject, Unprotected, OwnedFields, Taints
  <2> QED
    BY <1>8, <2>1 DEF RemoveNode, AddNode
<1>9. CASE \E m \in Nodes : (\E f \in Drifts : DriftNode(m, f)) \/ RemoveNode(m) \/ AddNode(m)
  BY <1>4, <1>7, <1>8, <1>9 DEF Same
<1>10. CASE \E m \in Nodes : KubeletWrite(m)
  BY <1>5, <1>10 DEF Same
<1> QED
  BY <1>6, <1>9, <1>10 DEF Environment

(***************************************************************************)
(* Every step keeps the gauges of every Node with enrollments right, or    *)
(* about to be set right.                                                  *)
(***************************************************************************)
LEMMA SeriesCoveredNext ==
    ASSUME Calm
    PROVE  CInv /\ OneLabel /\ SeriesCovered /\ [SeriesNext]_<<vars, series>> => SeriesCovered'
<1> SUFFICES ASSUME CInv, OneLabel, SeriesCovered, [SeriesNext]_<<vars, series>>,
                    NEW n \in Nodes, DOMAIN itemsOf(cact', n) # {}
             PROVE  Traced(n)'
  BY DEF SeriesCovered
<1>1. IInv /\ Persistent(cact) /\ Punctual
  BY DEF CInv
<1>2. cact' = cact => Traced(n) /\ DOMAIN itemsOf(cact, n) # {}
  BY DEF SeriesCovered
<1>3. ASSUME NEW e \in Enrollments, Start(e), StartObserved(e) PROVE Traced(n)'
  BY <1>1, <1>2, <1>3, StartTraces DEF Start, caches
<1>4. CASE AddFinalizer /\ UNCHANGED series
  BY <1>1, <1>2, <1>4, AddFinalizerTraces DEF AddFinalizer, caches
<1>5. CASE reconcileHold /\ UNCHANGED series
  BY <1>1, <1>2, <1>5, HoldTraces DEF reconcileHold, caches
<1>6. CASE Decide /\ DecideObserved
  BY <1>1, <1>2, <1>6, DecideTraces DEF Decide, caches
<1>7. CASE UpdateNode /\ UpdateObserved
  BY <1>1, <1>2, <1>7, UpdateTraces DEF UpdateNode, caches
<1>8. CASE SetStatus /\ StatusObserved
  BY <1>1, <1>2, <1>8, SetStatusTraces DEF SetStatus, caches
<1>9. CASE RemoveFinalizer /\ UNCHANGED series
  BY <1>1, <1>2, <1>9, RemoveFinalizerTraces DEF RemoveFinalizer, caches
<1>10. CASE ObservedWork
  BY <1>3, <1>4, <1>5, <1>6, <1>7, <1>8, <1>9, <1>10 DEF ObservedWork
<1>11. CASE SyncActivities /\ UNCHANGED series
  BY <1>1, <1>11, SyncActivitiesTraces
<1>12. CASE SyncNodes /\ UNCHANGED series
  BY <1>1, <1>2, <1>12, SyncNodesTraces DEF SyncNodes
<1>13. ASSUME NEW e \in Enrollments, FireTimer(e), UNCHANGED series PROVE Traced(n)'
  BY <1>1, <1>2, <1>13, FireTimerTraces DEF FireTimer, caches
<1>14. CASE CallFails /\ UNCHANGED series
  <2>1. Failed /\ UNCHANGED <<now, cact, node, nodeEvents>>
    BY <1>14 DEF CallFails, caches, UnchangedNode
  <2> QED
    BY <1>1, <1>2, <1>14, <2>1, FailedTraces DEF IInv
<1>15. CASE ObservedRestart
  BY <1>1, <1>15, RestartTraces DEF ObservedRestart
<1>16. CASE Tick /\ UNCHANGED series
  BY <1>1, <1>2, <1>16, TickTraces DEF Tick, caches
<1>17. CASE Environment /\ UNCHANGED series
  <2>1. timer' \in [Enrollments -> Nat] /\ cact' = cact /\ Traced(n)
    BY <1>1, <1>2, <1>17, EnvironmentEffect DEF IInv, TypeOK
  <2> QED
    BY <1>1, <1>17, <2>1, EnvironmentEffect, OthersTrace DEF IInv
<1>18. CASE UNCHANGED <<vars, series>>
  <2>1. /\ rec' = rec /\ now' = now /\ timer' = timer /\ queue' = queue
        /\ cact' = cact /\ UNCHANGED <<node, nodeEvents, series>>
    BY <1>18 DEF vars
  <2>2. timer' \in [Enrollments -> Nat]
    BY <1>1, <2>1 DEF IInv, TypeOK
  <2> QED
    BY <1>1, <1>2, <2>1, <2>2, OthersTrace DEF IInv
<1> QED
  BY <1>10, <1>11, <1>12, <1>13, <1>14, <1>15, <1>16, <1>17, <1>18 DEF SeriesNext, Deliver

(***************************************************************************)
(* What the gauges of the Nodes with enrollments show at rest.             *)
(***************************************************************************)
EnrolledTold ==
    Quiet => \A n \in Nodes : DOMAIN itemsOf(act, n) # {} =>
        IF node[n].exists
        THEN Tells(series[n].gauge, node[n].owned, protectionForNode(itemsOf(act, n), now))
        ELSE series[n].gauge = NoSeries.gauge

(***************************************************************************)
(* At rest gauges that are right until a requeue are right now.            *)
(***************************************************************************)
LEMMA ToldAtRest == CInv /\ SeriesCovered => EnrolledTold
<1> SUFFICES ASSUME CInv, SeriesCovered, Quiet, NEW n \in Nodes, DOMAIN itemsOf(act, n) # {}
             PROVE  IF node[n].exists
                    THEN Tells(series[n].gauge, node[n].owned,
                               protectionForNode(itemsOf(act, n), now))
                    ELSE series[n].gauge = NoSeries.gauge
  BY DEF EnrolledTold
<1>1. act = cact
  BY DEF CInv, IInv, TypeOK, ActCurrent, Quiet
<1>2. Traced(n)
  BY <1>1 DEF SeriesCovered
<1>3. ~Leaving(n)
  BY <1>1 DEF Leaving, CInv, IInv, Undeleted, Quiet, Finalizes
<1>4. Exported(n)
  BY <1>2, <1>3 DEF Traced, Woken, Seeing, Deciding, Exporting, Quiet, Setters
<1>5. PICK e \in DOMAIN itemsOf(cact, n) :
          timer[e] # 0 /\ \A t \in Nat : now <= t /\ t < timer[e] => Shows(n, t)
  BY <1>4 DEF Exported
<1>6. e \in Enrollments /\ now \in Nat
  BY <1>5, ItemsType DEF CInv, IInv, TypeOK
<1>7. Shows(n, now)
  BY <1>5, <1>6 DEF Quiet
<1>8. node[n].exists => node[n].owned = desiredFields(itemsOf(act, n), now)
  BY ConvergedAtRest DEF ProtectionConverged
<1> QED
  BY <1>1, <1>7, <1>8 DEF Shows

(***************************************************************************)
(* What is invariant of the reconciler with its gauges.                    *)
(***************************************************************************)
MInv == CInv /\ OneLabel /\ SeriesCovered

(***************************************************************************)
(* The invariant behind the gauges holds initially and is kept.            *)
(***************************************************************************)
LEMMA MetricsInvariant ==
    ASSUME Calm
    PROVE  /\ MetricsInit => MInv
           /\ MInv /\ [SeriesNext]_<<vars, series>> => MInv'
<1>1. MetricsInit => MInv
  BY CoveredInit, OneLabelInit DEF MetricsInit, MInv, SeriesCovered, Init, itemsOf, Absent
<1>2. MInv /\ [SeriesNext]_<<vars, series>> => MInv'
  BY SeriesSteps, NextKeeps, PersistentNext, PunctualNext, CoveredNext, OneLabelNext,
     SeriesCoveredNext DEF MInv, CInv, Persistent
<1> QED
  BY <1>1, <1>2

(***************************************************************************)
(* At rest the gauges of every Node with live enrollments show the taints  *)
(* and the label that are on the Node, and the state, reason and deadline  *)
(* of the enrollment that decides; none is left when the Node is missing.  *)
(* A gauge is written by the pass that makes it so and by nothing else, so *)
(* a restart, a failed call or an outdated cache on the way is made up for *)
(* by a pass to come. For any number of enrollments, in the setting of     *)
(* ControllerConverges.                                                    *)
(***************************************************************************)
THEOREM MetricsTellEnrolled ==
    ASSUME Calm PROVE SeriesSpec => []EnrolledTold
<1>1. MInv => EnrolledTold
  BY ToldAtRest DEF MInv
<1> QED
  BY <1>1, MetricsInvariant, PTL DEF SeriesSpec
----------------------------------------------------------------------------
(***************************************************************************)
(* With one enrollment a Node with gauges has an owner, and a pass that is *)
(* about to remove the finalizer has cleared them, as one that is about to *)
(* release the Node will.                                                  *)
(***************************************************************************)
Single == \E e \in Enrollments : Enrollments = {e}

Owned == \A n \in Nodes : series[n].gauge # NoSeries.gauge => Owner(n)

Dropped ==
    /\ rec.pc = "removeFinalizer" => series[rec.obj.nodeName].gauge = NoSeries.gauge
    /\ rec.pc = "release" => rec.protection.source = NoSource

(***************************************************************************)
(* Every step keeps it so: an enrolled pass exports for the Node of the    *)
(* finalizer it holds, and finalize finds no other enrollment to export.   *)
(***************************************************************************)
LEMMA OwnedNext ==
    ASSUME Single
    PROVE  IInv /\ OneLabel /\ Owned /\ Dropped /\ [SeriesNext]_<<vars, series>>
             => Owned' /\ Dropped'
<1> SUFFICES ASSUME IInv, OneLabel, Owned, Dropped, [SeriesNext]_<<vars, series>>
             PROVE  Owned' /\ Dropped'
  OBVIOUS
<1>1. [Next]_vars
  BY SeriesSteps
<1>2. ASSUME NEW n \in Nodes, Owner(n) \/ series'[n].gauge = NoSeries.gauge,
             rec.pc = "removeFinalizer" => series'[n] = series[n]
      PROVE  series'[n].gauge # NoSeries.gauge => Owner(n)'
  <2>1. RemoveFinalizer => rec.pc = "removeFinalizer"
    BY DEF RemoveFinalizer
  <2> QED
    BY <1>1, <1>2, <2>1, OwnerNext DEF Dropped
<1>3. ASSUME \A n \in Nodes :
                 series'[n] = series[n] \/ Owner(n) \/ series'[n].gauge = NoSeries.gauge,
             rec.pc = "removeFinalizer" => UNCHANGED series
      PROVE  Owned'
  BY <1>2, <1>3 DEF Owned
<1>4. UNCHANGED series => Owned'
  BY <1>3
<1>5. rec'.pc \notin {"release", "removeFinalizer"} => Dropped'
  BY DEF Dropped
<1>6. rec' = NoPass => Dropped'
  BY <1>5 DEF NoPass
<1>7. ASSUME NEW n \in Nodes, Enrolls, rec.obj.nodeName = n PROVE Owner(n)
  <2>1. Held(rec.e, rec.obj) /\ rec.e \in Enrollments
    BY <1>7 DEF IInv, PassKnows, Enrolls, Setters
  <2> QED
    BY <1>7, <2>1 DEF Owner, Held
<1>8. ASSUME NEW e \in Enrollments, Start(e), StartObserved(e) PROVE Owned' /\ Dropped'
  <2> DEFINE n == cact[e].nodeName
  <2>1. /\ cact[e].phase \in {"absent", "live", "deleting"}
        /\ cact[e].phase = "deleting" => cact[e].finalizer /\ n \in Nodes
    BY ObjectFields DEF IInv, TypeOK, WellFormed
  <2>2. rec.pc = "idle"
    BY <1>8, StartEffect
  <2>3. CASE cact[e].phase = "deleting"
    <3>1. DOMAIN itemsOf(cact, n) = {}
      BY <2>3 DEF Single, itemsOf
    <3>2. protectionForNode(itemsOf(cact, n), now).source = NoSource
      BY <3>1 DEF protectionForNode, NoProtection
    <3>3. /\ rec'.pc \in {"removeFinalizer", "release"}
          /\ rec'.pc = "release" => cnode[n].exists
          /\ cnode[n].exists => rec'.protection = protectionForNode(itemsOf(cact, n), now)
      BY <1>8, <2>1, <2>3, StartEffect
    <3>4. rec'.obj = cact[e]
      <4>1. rec' # NoPass
        BY <3>3 DEF NoPass
      <4> QED
        BY <1>8, <4>1, StartEffect
    <3>5. rec'.pc = "removeFinalizer" => series'[n].gauge = NoSeries.gauge
      BY <1>8, <3>1, StartSeries
    <3>6. Dropped'
      BY <3>2, <3>3, <3>4, <3>5 DEF Dropped
    <3>7. rec'.pc # "removeFinalizer" => UNCHANGED series
      BY <1>8 DEF StartObserved
    <3>8. \A k \in Nodes : series'[k] = series[k] \/ k = n
      BY <1>8, StartSeries
    <3>9. Owned'
      BY <1>3, <2>2, <3>5, <3>7, <3>8
    <3> QED
      BY <3>6, <3>9
  <2>4. CASE cact[e].phase # "deleting"
    <3>1. UNCHANGED series
      BY <1>8, <2>4 DEF StartObserved
    <3>2. rec' = NoPass \/ rec'.pc \in {"status1", "addFinalizer", "hold"}
      <4>1. CASE cact[e].phase = "absent"
        BY <1>8, <4>1, StartEffect
      <4>2. CASE cact[e].phase = "live"
        BY <1>8, <4>2, StartEffect
      <4> QED
        BY <2>1, <2>4, <4>1, <4>2
    <3> QED
      BY <1>4, <1>5, <1>6, <3>1, <3>2
  <2> QED
    BY <2>3, <2>4
<1>9. CASE (AddFinalizer \/ reconcileHold) /\ UNCHANGED series
  <2>1. rec' = NoPass \/ rec'.pc \in {"hold", "decide"}
    <3>1. CASE Failed /\ UnchangedActivity
      BY <3>1 DEF Failed
    <3>2. CASE ~(Failed /\ UnchangedActivity)
      BY <1>9, <3>2, AddFinalizerEffect, HoldEffect
    <3> QED
      BY <3>1, <3>2
  <2> QED
    BY <1>4, <1>5, <1>6, <1>9, <2>1
<1>10. CASE Decide /\ DecideObserved
  <2>1. rec.pc = "decide" /\ rec'.pc \in {"update", "status1"}
    BY <1>10, DecideEffect
  <2>2. \A n \in Nodes : series'[n] = series[n] \/ rec.obj.nodeName = n
    BY <1>10, DecideSeries DEF Passing
  <2>3. Enrolls
    BY <2>1 DEF Enrolls
  <2> QED
    BY <1>3, <1>5, <1>7, <2>1, <2>2, <2>3
<1>11. CASE UpdateNode /\ UpdateObserved
  <2>1. rec.pc \in {"update", "release"}
    BY <1>11 DEF UpdateNode
  <2>2. CASE rec.pc = "release" /\ rec.nodeFresh
    <3>1. series'[rec.obj.nodeName].gauge = NoSeries.gauge
      BY <1>11, <2>2, UpdateSeries DEF Dropped
    <3>2. \A n \in Nodes : series'[n] = series[n] \/ n = rec.obj.nodeName
      BY <1>11, UpdateSeries DEF Passing
    <3>3. Owned'
      BY <1>3, <2>1, <3>1, <3>2
    <3>4. rec' = NoPass \/ (rec'.pc = "removeFinalizer" /\ rec'.obj = rec.obj)
      <4>1. CASE Failed /\ UnchangedNode
        BY <4>1 DEF Failed
      <4>2. CASE ~(Failed /\ UnchangedNode)
        BY <1>11, <2>2, <4>2, UpdateEffect
      <4> QED
        BY <4>1, <4>2
    <3>5. Dropped'
      BY <1>6, <3>1, <3>4 DEF Dropped
    <3> QED
      BY <3>3, <3>5
  <2>3. CASE ~(rec.pc = "release" /\ rec.nodeFresh)
    <3>1. UNCHANGED series
      BY <1>11, <2>3 DEF UpdateObserved
    <3>2. rec' = NoPass \/ rec'.pc = "status1"
      <4>1. CASE Failed /\ UnchangedNode
        BY <4>1 DEF Failed
      <4>2. CASE ~(Failed /\ UnchangedNode)
        BY <1>11, <2>1, <2>3, <4>2, UpdateEffect
      <4> QED
        BY <4>1, <4>2
    <3> QED
      BY <1>4, <1>5, <1>6, <3>1, <3>2
  <2> QED
    BY <2>2, <2>3
<1>12. CASE SetStatus /\ StatusObserved
  <2>1. rec.pc \in Setters /\ (rec' = NoPass \/ rec'.pc \in Setters)
    <3>1. rec.pc \in Setters
      BY <1>12 DEF SetStatus, nextStep, Setters
    <3>2. CASE Failed /\ UnchangedActivity
      BY <3>1, <3>2 DEF Failed
    <3>3. CASE ~(Failed /\ UnchangedActivity)
      BY <1>12, <3>1, <3>3, SetStatusEffect DEF Finished
    <3> QED
      BY <3>2, <3>3
  <2>2. ASSUME NEW n \in Nodes, series'[n] # series[n] PROVE Owner(n)
    <3>1. Passing(n)
      BY <1>12, <2>2, StatusSeries
    <3>2. Enrolls /\ rec.obj.nodeName = n
      BY <2>1, <3>1 DEF Passing, Finalizes, Setters
    <3> QED
      BY <1>7, <3>2
  <2> QED
    BY <1>3, <1>5, <1>6, <2>1, <2>2 DEF Setters
<1>13. CASE (RemoveFinalizer \/ CallFails) /\ UNCHANGED series
  BY <1>4, <1>6, <1>13 DEF RemoveFinalizer, CallFails, Failed, Finished
<1>14. CASE ObservedRestart
  <2>1. \A n \in Nodes : series'[n].gauge = NoSeries.gauge
    BY <1>14 DEF ObservedRestart
  <2>2. rec' = NoPass
    BY <1>14 DEF ObservedRestart, Restart
  <2> QED
    BY <1>6, <2>1, <2>2 DEF Owned
<1>15. CASE (Deliver \/ Tick \/ Environment \/ UNCHANGED vars) /\ UNCHANGED series
  <2>1. rec'.pc = rec.pc /\ rec'.obj = rec.obj /\ rec'.protection = rec.protection
    <3>1. CASE Deliver \/ Tick \/ UNCHANGED vars
      BY <3>1 DEF Deliver, SyncActivities, SyncNodes, FireTimer, Tick, vars
    <3>2. CASE Environment
      BY <3>2, EnvironmentEffect
    <3> QED
      BY <1>15, <3>1, <3>2
  <2>2. Dropped'
    BY <1>15, <2>1 DEF Dropped
  <2> QED
    BY <1>4, <1>15, <2>2
<1> QED
  BY <1>8, <1>9, <1>10, <1>11, <1>12, <1>13, <1>14, <1>15 DEF SeriesNext, ObservedWork

(***************************************************************************)
(* "Deleting the enrollment or losing the Node clears these per-node       *)
(* series" (docs/controller.md), and otherwise they tell the truth: at     *)
(* rest a Node that is missing or has no enrollment exports nothing, any   *)
(* other what its fields and the enrollment on the API server say. A       *)
(* gauge is written only in passing, but a Node with gauges always has a   *)
(* finalizer whose pass will clear them before it is gone. This is for one *)
(* enrollment, of however many Nodes one after the other, in the setting   *)
(* of ControllerConverges.                                                 *)
(***************************************************************************)
THEOREM MetricsTruthful ==
    ASSUME Calm, Single PROVE SeriesSpec => []SeriesTruthful
<1> DEFINE OInv == MInv /\ Owned /\ Dropped
<1>1. MetricsInit => OInv
  BY MetricsInvariant, NothingShown DEF MetricsInit, Init, NoPass, Owned, Dropped
<1>2. OInv /\ [SeriesNext]_<<vars, series>> => OInv'
  BY MetricsInvariant, OwnedNext DEF MInv, CInv
<1>3. OInv => SeriesTruthful
  <2> SUFFICES ASSUME OInv, Quiet, NEW n \in Nodes
               PROVE  IF node[n].exists /\ DOMAIN itemsOf(act, n) # {}
                      THEN Tells(series[n].gauge, node[n].owned,
                                 protectionForNode(itemsOf(act, n), now))
                      ELSE series[n].gauge = NoSeries.gauge
    BY DEF SeriesTruthful
  <2>1. CASE DOMAIN itemsOf(act, n) # {}
    BY <2>1, ToldAtRest DEF MInv, EnrolledTold
  <2>2. CASE DOMAIN itemsOf(act, n) = {}
    <3>1. ASSUME NEW e \in Enrollments, act[e].finalizer, act[e].nodeName = n PROVE FALSE
      <4>1. act[e].phase \in {"live", "deleting"}
        BY <3>1, ObjectFields DEF MInv, CInv, IInv, TypeOK, WellFormed
      <4>2. act[e].phase # "live"
        BY <2>2, <3>1 DEF itemsOf
      <4>3. act[e].phase # "deleting"
        BY DEF MInv, CInv, IInv, Undeleted, Quiet, Finalizes
      <4> QED
        BY <4>1, <4>2, <4>3
    <3> QED
      BY <2>2, <3>1 DEF Owned, Owner
  <2> QED
    BY <2>1, <2>2
<1> QED
  BY <1>1, <1>2, <1>3, PTL DEF SeriesSpec
=============================================================================
