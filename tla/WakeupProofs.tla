---------------------------- MODULE WakeupProofs -----------------------------
(***************************************************************************)
(* The Node is never outdated while no pass is due, for any number of      *)
(* enrollments, any schedules and any policy durations.                    *)
(***************************************************************************)
EXTENDS Wakeup, PolicyProofs

(***************************************************************************)
(* The records of this module are enrollments of the policy.               *)
(***************************************************************************)
LEMMA RecordType == Record \subseteq EnrollmentType
BY SchedulesAssumption DEF Record, EnrollmentType

(***************************************************************************)
(* What a pass writes to a Node is a combination of owned fields.          *)
(***************************************************************************)
LEMMA DesiredType ==
    ASSUME NEW its, NEW t
    PROVE  desiredFields(its, t) \in OwnedFields /\ releasedFields(protectionForNode(its, t), t) \in OwnedFields
<1>1. \A r : taintFor(r) \in Taints
  BY DEF taintFor, failClosed, Taints, NoTaint, NoSchedule, PreferNoSchedule
<1>2. protectionForNode(its, t).taint \in Taints
  BY <1>1 DEF protectionForNode, NoProtection, decidePolicy, Taints, NoTaint
<1>3. policyAdmitted(protectionForNode(its, t), t) \in BOOLEAN
  BY DEF policyAdmitted
<1>4. desiredFields(its, t) \in OwnedFields
  BY <1>2, <1>3, PolicyFlags DEF desiredFields, ownedFields, OwnedFields
<1>5. releasedFields(protectionForNode(its, t), t) \in OwnedFields
  BY <1>2, <1>3, PolicyFlags DEF releasedFields, OwnedFields
<1> QED
  BY <1>4, <1>5

(***************************************************************************)
(* Anchoring or dropping a hold leaves a well-formed record.               *)
(***************************************************************************)
LEMMA HoldType ==
    ASSUME NEW a \in Record, NEW t \in Nat
    PROVE  reconciledHold(a, t) \in Record
<1>1. [a EXCEPT !.holdStart = 0] \in Record
  BY DEF Record
<1>2. [a EXCEPT !.holdStart = t] \in Record
  BY DEF Record
<1>3. [a EXCEPT !.hold = 0, !.holdStart = 0] \in Record
  <2>1. ASSUME NEW b \in Record PROVE [b EXCEPT !.holdStart = 0] \in Record
    BY DEF Record
  <2>2. [a EXCEPT !.hold = 0] \in Record
    BY DEF Record
  <2> QED
    BY <2>1, <2>2, Zenon
<1> QED
  BY <1>1, <1>2, <1>3 DEF reconciledHold

(***************************************************************************)
(* The assumptions of the development, besides those on the constants: the *)
(* policy fails closed, and a schedule that cannot be evaluated stays so.  *)
(***************************************************************************)
Setting == FailClosed /\ \A s \in Schedules : ErrorPersists(s)

(***************************************************************************)
(* The types hold initially: no enrollment and an unprotected Node.        *)
(***************************************************************************)
LEMMA TypeInit == Init => TypeOK
BY DEF Init, TypeOK, Unprotected, OwnedFields, Taints, NoTaint

(***************************************************************************)
(* Every step, the passes' decisions included, keeps the types.            *)
(***************************************************************************)
LEMMA TypeNext == TypeOK /\ [Next]_vars => TypeOK'
<1> SUFFICES ASSUME TypeOK, [Next]_vars PROVE TypeOK'
  OBVIOUS
<1>a. now \in Nat /\ node \in OwnedFields /\ due \in [Enrollments -> Nat]
      /\ DOMAIN items \subseteq Enrollments /\ items \in [DOMAIN items -> Record]
  BY DEF TypeOK
<1>b. Notified \in [Enrollments -> Nat]
  BY <1>a DEF Notified
<1>1. ASSUME NEW e \in Enrollments, Reconcile(e) PROVE TypeOK'
  <2>1. DOMAIN items' = DOMAIN items /\ items' \in [DOMAIN items -> Record]
    BY <1>1, <1>a, HoldType DEF Reconcile
  <2>2. node' \in OwnedFields
    BY <1>1, DesiredType DEF Reconcile
  <2>3. items' = items => requeue(e) \in [Enrollments -> Nat]
    <3>1. DOMAIN items \in SUBSET (Nat \ {0}) /\ items \in [DOMAIN items -> EnrollmentType]
      BY <1>a, EnrollmentsAssumption, RecordType
    <3>2. protectionRequeue(items, now) \in Nat
      BY <1>a, <3>1, RequeueType
    <3> QED
      BY <1>a, <3>2 DEF requeue
  <2> QED
    BY <1>1, <1>a, <1>b, <2>1, <2>2, <2>3 DEF Reconcile, TypeOK
<1>2. ASSUME NEW e \in Enrollments, NEW a \in Record, Change(e, a) PROVE TypeOK'
  BY <1>2, <1>a, <1>b DEF Change, TypeOK
<1>3. ASSUME NEW e \in Enrollments, Withdraw(e) PROVE TypeOK'
  <2>1. node' \in OwnedFields
    BY <1>3, DesiredType DEF Withdraw
  <2> QED
    BY <1>3, <1>a, <1>b, <2>1 DEF Withdraw, TypeOK
<1>4. CASE Restart
  BY <1>4, <1>a, <1>b DEF Restart, TypeOK
<1>5. CASE Tick
  BY <1>5, <1>a DEF Tick, TypeOK
<1>6. CASE UNCHANGED vars
  BY <1>6 DEF vars, TypeOK
<1> QED
  BY <1>1, <1>2, <1>3, <1>4, <1>5, <1>6 DEF Next

(***************************************************************************)
(* Every reachable state of Wakeup has the declared types.                 *)
(***************************************************************************)
THEOREM WakeupType == Spec => []TypeOK
BY TypeInit, TypeNext, PTL DEF Spec

(***************************************************************************)
(* One step keeps SteadyUntilDue: a pass writes what the policy asks for   *)
(* until the earliest contribution deadline, every change of an enrollment *)
(* makes all of them due, and time alone only shortens the delay.          *)
(***************************************************************************)
LEMMA SteadyNext ==
    ASSUME Setting PROVE TypeOK /\ SteadyUntilDue /\ [Next]_vars => SteadyUntilDue'
<1> SUFFICES ASSUME TypeOK, SteadyUntilDue, [Next]_vars PROVE SteadyUntilDue'
  OBVIOUS
<1>a. now \in Nat /\ due \in [Enrollments -> Nat]
      /\ DOMAIN items \subseteq Enrollments /\ items \in [DOMAIN items -> Record]
  BY DEF TypeOK
<1>b. TypeOK'
  BY TypeNext
<1>c. due' = Notified /\ now' = now => SteadyUntilDue'
  <2> SUFFICES ASSUME due' = Notified, now' = now, NEW e \in DOMAIN items',
                      NEW t \in now'..(due'[e] - 1)
               PROVE  FALSE
    BY DEF SteadyUntilDue
  <2>1. e \in Enrollments
    BY <1>b DEF TypeOK
  <2> QED
    BY <1>a, <2>1 DEF Notified
<1>1. ASSUME NEW e \in Enrollments, Reconcile(e) PROVE SteadyUntilDue'
  <2>1. CASE items' # items
    BY <1>1, <1>c, <2>1 DEF Reconcile
  <2>2. CASE items' = items
    <3>1. node' = desiredFields(items, now)
      BY <1>1, <2>2 DEF Reconcile
    <3>2. /\ DOMAIN items \in SUBSET (Nat \ {0}) /\ DOMAIN items # {}
          /\ items \in [DOMAIN items -> EnrollmentType]
          /\ \A f \in DOMAIN items : ErrorPersists(items[f].spec)
      BY <1>1, <1>a, EnrollmentsAssumption, RecordType DEF Reconcile, Setting, Record
    <3>3. /\ protectionRequeue(items, now) \in Nat
          /\ \A u \in Nat : now <= u /\ u < now + protectionRequeue(items, now)
                => desiredFields(items, u) = desiredFields(items, now)
      BY <1>a, <3>2, ProtectionStable DEF Setting
    <3>4. due' = [due EXCEPT ![e] = now + protectionRequeue(items, now)]
      BY <1>1, <2>2 DEF Reconcile, requeue
    <3>5. ASSUME NEW f \in DOMAIN items, NEW t \in now..(due'[f] - 1)
          PROVE  node' = desiredFields(items, t)
      <4>1. CASE f = e
        BY <1>a, <3>1, <3>3, <3>4, <4>1
      <4>2. CASE f # e
        <5>1. t \in now..(due[f] - 1)
          BY <1>a, <3>4, <4>2
        <5>2. node = desiredFields(items, t) /\ node = desiredFields(items, now)
          BY <1>a, <5>1 DEF SteadyUntilDue
        <5> QED
          BY <3>1, <5>2
      <4> QED
        BY <4>1, <4>2
    <3> QED
      BY <1>1, <2>2, <3>5 DEF SteadyUntilDue, Reconcile
  <2> QED
    BY <2>1, <2>2
<1>2. ASSUME NEW e \in Enrollments, NEW a \in Record, Change(e, a) PROVE SteadyUntilDue'
  BY <1>2, <1>c DEF Change
<1>3. ASSUME NEW e \in Enrollments, Withdraw(e) PROVE SteadyUntilDue'
  BY <1>3, <1>c DEF Withdraw
<1>4. CASE Restart
  BY <1>4, <1>c DEF Restart
<1>5. CASE Tick
  BY <1>5, <1>a DEF Tick, SteadyUntilDue
<1>6. CASE UNCHANGED vars
  BY <1>6 DEF vars, SteadyUntilDue
<1> QED
  BY <1>1, <1>2, <1>3, <1>4, <1>5, <1>6 DEF Next

(***************************************************************************)
(* From the moment a pass ends until it is due again the Node carries what *)
(* the policy asks for, at every time of that delay: the wake-up computed  *)
(* once is right for all of it.                                            *)
(***************************************************************************)
THEOREM WakeupSteady == ASSUME Setting PROVE Spec => []SteadyUntilDue
<1>1. Init => SteadyUntilDue
  BY DEF Init, SteadyUntilDue
<1>2. TypeOK /\ SteadyUntilDue /\ [Next]_vars => SteadyUntilDue'
  BY SteadyNext
<1> QED
  BY <1>1, <1>2, WakeupType, PTL DEF Spec

(***************************************************************************)
(* Whenever some pass is not due, the Node carries what the policy asks    *)
(* for now: RequeueAfter never skips a boundary.                           *)
(***************************************************************************)
THEOREM WakeupCurrent == ASSUME Setting PROVE Spec => []ProtectionCurrent
<1>1. TypeOK /\ SteadyUntilDue => ProtectionCurrent
  <2> SUFFICES ASSUME TypeOK, SteadyUntilDue, NEW e \in DOMAIN items, due[e] > now
               PROVE  node = desiredFields(items, now)
    BY DEF ProtectionCurrent
  <2>1. now \in now..(due[e] - 1)
    BY DEF TypeOK
  <2> QED
    BY <2>1 DEF SteadyUntilDue
<1> QED
  BY <1>1, WakeupSteady, WakeupType, PTL

(***************************************************************************)
(* The rank orders what enrollments ask for as documented: an active game  *)
(* above everything, then the other NoSchedule decisions, then             *)
(* PreferNoSchedule, then none.                                            *)
(***************************************************************************)
LEMMA RankOrdersTaints ==
    ASSUME NEW a \in EnrollmentType, NEW t \in Nat
    PROVE  /\ enrollmentRank(a, t) \in 0..3
           /\ admissionReason(a, t) = "active-game" <=> enrollmentRank(a, t) = 3
           /\ taintFor(admissionReason(a, t)) \in NoSchedule <=> enrollmentRank(a, t) >= 2
           /\ taintFor(admissionReason(a, t)) # NoTaint <=> enrollmentRank(a, t) >= 1
<1> DEFINE reason == admissionReason(a, t)
           taint == taintFor(reason)
           rank == enrollmentRank(a, t)
<1>1. taint \in Taints
  BY DEF taintFor, failClosed, Taints, NoTaint, NoSchedule, PreferNoSchedule
<1>2. reason = "active-game" <=>
        (a.state = "active" /\ a.activity = "game" /\ Fresh(a.heartbeatAt, t))
  BY EnrollmentFields, VerdictStable DEF admissionReason, Fresh, Verdicts
<1>3. reason = "active-game" => taint = "active"
  BY DEF taintFor, Unfresh, Refused
<1>4. /\ taint = NoTaint => rank = 0
      /\ taint \in PreferNoSchedule => rank = 1
      /\ taint \in NoSchedule => rank = IF reason = "active-game" THEN 3 ELSE 2
  BY <1>2 DEF enrollmentRank, NoTaint, NoSchedule, PreferNoSchedule
<1> HIDE DEF reason, taint, rank
<1>5. /\ rank \in 0..3
      /\ reason = "active-game" <=> rank = 3
      /\ taint \in NoSchedule <=> rank >= 2
      /\ taint # NoTaint <=> rank >= 1
  <2>1. CASE taint = NoTaint
    BY <1>3, <1>4, <2>1 DEF NoTaint, NoSchedule
  <2>2. CASE taint \in PreferNoSchedule
    BY <1>3, <1>4, <2>2 DEF NoTaint, NoSchedule, PreferNoSchedule
  <2>3. CASE taint \in NoSchedule
    BY <1>3, <1>4, <2>3 DEF NoTaint, NoSchedule
  <2> QED
    BY <1>1, <2>1, <2>2, <2>3 DEF Taints
<1> QED
  BY <1>5 DEF reason, taint, rank

(***************************************************************************)
(* While no pass is due the Node is as protected as its most demanding     *)
(* enrollment asks for, whatever the others report: an idle duplicate      *)
(* never opens a Node that another enrollment closes.                      *)
(***************************************************************************)
THEOREM WakeupStrongest == ASSUME Setting PROVE Spec => []StrongestProtection
<1>1. TypeOK /\ ProtectionCurrent => StrongestProtection
  <2> SUFFICES ASSUME TypeOK, ProtectionCurrent, \E e \in DOMAIN items : due[e] > now,
                      NEW e \in DOMAIN items
               PROVE  LET reason == admissionReason(items[e], now)
                          taint  == taintFor(reason)
                      IN  /\ reason = "active-game" => node.taint = "active"
                          /\ taint \in NoSchedule => node.taint \in NoSchedule
                          /\ taint # NoTaint => node.taint # NoTaint /\ ~node.label
    BY DEF StrongestProtection
  <2> DEFINE rank == enrollmentRanks(items, now)
             s == protectionSource(items, now)
             reason == admissionReason(items[s], now)
             p == protectionForNode(items, now)
  <2>1. /\ now \in Nat /\ DOMAIN items \in SUBSET (Nat \ {0}) /\ DOMAIN items # {}
        /\ \A f \in DOMAIN items : items[f] \in EnrollmentType
    BY EnrollmentsAssumption, RecordType DEF TypeOK
  <2>2. rank \in [DOMAIN items -> 0..3]
    BY <2>1, RankOrdersTaints DEF enrollmentRanks
  <2>3. s = strongest(rank)
    BY <2>1 DEF protectionSource
  <2>4. s \in DOMAIN items /\ rank[e] <= rank[s]
    BY <2>1, <2>2, <2>3, FirstStrongest
  <2>5. enrollmentRank(items[e], now) <= enrollmentRank(items[s], now)
    BY <2>4 DEF enrollmentRanks
  <2>6. p.taint = taintFor(reason)
    BY <2>1 DEF protectionForNode, decidePolicy
  <2>7. node.taint = taintFor(reason) /\ (node.label => node.taint = NoTaint)
    <3>1. node = ownedFields(p.taint, policyAdmitted(p, now))
      BY DEF ProtectionCurrent, desiredFields
    <3>2. policyAdmitted(p, now) => p.taint = NoTaint
      BY DEF policyAdmitted, controllerAdmitted
    <3> QED
      BY <2>6, <3>1, <3>2 DEF ownedFields
  <2>8. reason = "active-game" => taintFor(reason) = "active"
    BY DEF taintFor, Unfresh, Refused
  <2> HIDE DEF rank, s, p
  <2>9. \A f \in DOMAIN items : enrollmentRank(items[f], now) \in 0..3
    BY <2>1, RankOrdersTaints
  <2> QED
    BY <2>1, <2>4, <2>5, <2>7, <2>8, <2>9, RankOrdersTaints
<1> QED
  BY <1>1, WakeupType, WakeupCurrent, PTL

(***************************************************************************)
(* The transition announced in the status is never later than the first    *)
(* change that time alone makes: until then neither the taint nor the      *)
(* admission of the enrollment changes, whether the policy fails closed or *)
(* open.                                                                   *)
(***************************************************************************)
THEOREM WakeupAnnounced ==
    ASSUME \A s \in Schedules : ErrorPersists(s) PROVE Spec => []AnnouncedInTime
<1>1. ASSUME TypeOK PROVE AnnouncedInTime
  <2> SUFFICES ASSUME NEW e \in DOMAIN items,
                      NEW t \in now..(decidePolicy(items[e], now).nextTransition - 1)
               PROVE  LET d == decidePolicy(items[e], now)
                      IN  /\ decidePolicy(items[e], t).taint = d.taint
                          /\ controllerAdmitted(items[e], t, d.taint)
                               = controllerAdmitted(items[e], now, d.taint)
    BY DEF AnnouncedInTime
  <2>1. now \in Nat /\ items[e] \in EnrollmentType /\ ErrorPersists(items[e].spec)
    <3>1. now \in Nat /\ items[e] \in Record
      BY <1>1 DEF TypeOK
    <3>2. items[e].spec \in Schedules
      BY <3>1 DEF Record
    <3> QED
      BY <3>1, <3>2, RecordType
  <2>2. \A u : /\ decidePolicy(items[e], u).taint = taintFor(admissionReason(items[e], u))
               /\ decidePolicy(items[e], u).nextTransition = nextTransition(items[e], u)
    BY DEF decidePolicy
  <2>3. nextTransition(items[e], now) \in Nat
    BY <2>1, AnnouncedStable
  <2>4. t \in Nat /\ now <= t /\ t < nextTransition(items[e], now)
    BY <2>1, <2>2, <2>3
  <2>5. /\ admissionReason(items[e], t) = admissionReason(items[e], now)
        /\ Fresh(items[e].heartbeatAt, t) <=> Fresh(items[e].heartbeatAt, now)
    BY <2>1, <2>4, AnnouncedStable
  <2> QED
    BY <2>2, <2>5 DEF controllerAdmitted
<1> QED
  BY <1>1, WakeupType, PTL

(***************************************************************************)
(* Where the Node carries what a report asks for at t, the code evicts     *)
(* what the row of that report says.                                       *)
(***************************************************************************)
LEMMA MatrixRow ==
    ASSUME FailClosed, NEW a \in EnrollmentType, NEW t \in Nat,
           admissionReason(a, t) \notin Undocumented,
           NEW fields, fields.taint = taintFor(admissionReason(a, t)),
           fields.taint # NoTaint => fields.burst = BurstConfigured
    PROVE  evictionClass(a, fields, fields.taint, t) = matrixRow(a, t)
<1> DEFINE reason == admissionReason(a, t)
           verdict == heartbeatFreshness(a.heartbeatAt, t)
<1>1. /\ a.state \in States /\ a.activity \in Activities /\ BurstConfigured \in BOOLEAN
      /\ verdict \in Verdicts
  BY EnrollmentFields, VerdictStable, PolicyFlags DEF EnrollmentType
<1>2. Fresh(a.heartbeatAt, t) <=> verdict = "Fresh"
  BY DEF Fresh
<1>3. CASE verdict = "Future"
  <2>1. reason = "invalid-heartbeat"
    BY <1>3 DEF admissionReason
  <2> QED
    BY <1>3, <2>1 DEF evictionClass, StandsDown, matrixRow
<1>4. CASE verdict \in {"Missing", "Expired"}
  <2>1. reason \in {"missing-heartbeat", "stale-heartbeat"}
    BY <1>4 DEF admissionReason
  <2>2. matrixRow(a, t) = "lossyOnly" /\ fields.taint = "failclosed"
    BY <2>1 DEF matrixRow, taintFor, failClosed, Unfresh
  <2>3. ~StandsDown(a, fields.taint, t) /\ ~GameOn(a, fields, fields.taint, t) /\ HostGone(a, t)
    BY <1>2, <1>4 DEF StandsDown, GameOn, HostGone
  <2> QED
    BY <2>2, <2>3 DEF evictionClass, NoSchedule
<1>5. CASE verdict = "Fresh"
  <2>1. CASE a.state = "unknown"
    <3>1. reason = "unknown-state"
      BY <1>5, <2>1 DEF admissionReason
    <3>2. StandsDown(a, fields.taint, t)
      BY <1>5, <2>1 DEF StandsDown
    <3> QED
      BY <3>1, <3>2 DEF evictionClass, matrixRow
  <2>2. CASE a.state = "stale"
    <3>1. reason = "stale-state"
      BY <1>5, <2>2 DEF admissionReason
    <3>2. fields.taint = "failclosed" /\ matrixRow(a, t) = "lossyOnly"
      BY <3>1 DEF matrixRow, taintFor, failClosed, Refused
    <3>3. ~StandsDown(a, fields.taint, t) /\ ~GameOn(a, fields, fields.taint, t) /\ HostGone(a, t)
      BY <1>5, <2>2 DEF StandsDown, GameOn, HostGone
    <3> QED
      BY <3>2, <3>3 DEF evictionClass, NoSchedule
  <2>3. CASE a.state = "unsupported"
    BY <1>5, <2>3 DEF admissionReason, Undocumented
  <2>4. CASE a.state = "idle"
    <3>1. reason \in {"availability-hold", "scheduled-game", "scheduled-interactive",
                     "scheduled-idle", "fresh-idle"}
      BY <1>5, <2>4 DEF admissionReason, Undocumented
    <3>2. ~GameOn(a, fields, fields.taint, t) /\ ~HostGone(a, t)
      BY <1>2, <1>5, <2>4 DEF GameOn, HostGone
    <3>3. CASE reason \in {"scheduled-idle", "fresh-idle"}
      <4>1. fields.taint = NoTaint /\ matrixRow(a, t) = "none"
        BY <3>3 DEF taintFor, matrixRow, Unfresh, Refused
      <4> QED
        BY <3>2, <4>1 DEF evictionClass
    <3>4. CASE reason \in {"availability-hold", "scheduled-interactive"}
      <4>1. fields.taint = "interactive" /\ matrixRow(a, t) = "lossyOnly"
        BY <3>4 DEF taintFor, matrixRow, Unfresh, Refused
      <4>2. ~StandsDown(a, fields.taint, t) /\ Fenced(a, fields)
        BY <1>5, <2>4, <4>1 DEF StandsDown, Fenced, NoTaint
      <4> QED
        BY <3>2, <4>1, <4>2 DEF evictionClass, NoTaint
    <3>5. CASE reason = "scheduled-game"
      <4>1. fields.taint = "active"
        BY <3>5 DEF taintFor, Unfresh, Refused
      <4>2. ~StandsDown(a, fields.taint, t) /\ fields.burst = BurstConfigured
        BY <1>5, <2>4, <4>1 DEF StandsDown, NoTaint
      <4>3. Fenced(a, fields) <=> (BurstConfigured \/ a.activity = "interactive")
        BY <1>1, <2>4, <4>1, <4>2 DEF Fenced
      <4>4. matrixRow(a, t) = IF BurstConfigured \/ a.activity = "interactive"
                              THEN "lossyOnly" ELSE "none"
        BY <2>4, <3>5 DEF matrixRow
      <4> QED
        BY <3>2, <4>1, <4>2, <4>3, <4>4 DEF evictionClass, NoTaint
    <3> QED
      BY <3>1, <3>3, <3>4, <3>5
  <2>5. CASE a.state = "active"
    <3>1. reason \in {"active-game", "availability-hold", "scheduled-game", "scheduled-idle",
                     "active-interactive", "unsupported-activity"}
      BY <1>5, <2>5 DEF admissionReason
    <3>2. ~HostGone(a, t) /\ (reason = "active-game" <=> a.activity = "game")
      BY <1>2, <1>5, <2>5 DEF HostGone, admissionReason
    <3>3. CASE reason = "active-game"
      <4>1. fields.taint = "active" /\ matrixRow(a, t) = "game"
        BY <3>3 DEF taintFor, matrixRow, Unfresh, Refused
      <4>2. ~StandsDown(a, fields.taint, t) /\ GameOn(a, fields, fields.taint, t)
        BY <1>2, <1>5, <2>5, <3>2, <3>3, <4>1 DEF StandsDown, GameOn
      <4> QED
        BY <4>1, <4>2 DEF evictionClass
    <3>4. CASE reason = "scheduled-idle"
      <4>1. fields.taint = NoTaint /\ matrixRow(a, t) = "none"
        BY <3>4 DEF taintFor, matrixRow, Unfresh, Refused
      <4> QED
        BY <3>2, <4>1 DEF evictionClass, GameOn, NoTaint
    <3>5. CASE reason \in {"availability-hold", "scheduled-game", "active-interactive",
                          "unsupported-activity"}
      <4>1. fields.taint \in {"interactive", "active", "failclosed"}
            /\ matrixRow(a, t) = "lossyOnly"
        BY <2>5, <3>5 DEF taintFor, failClosed, matrixRow, Unfresh, Refused
      <4>2. /\ ~StandsDown(a, fields.taint, t) /\ ~GameOn(a, fields, fields.taint, t)
            /\ Fenced(a, fields)
        BY <1>5, <2>5, <3>2, <3>5 DEF StandsDown, GameOn, Fenced
      <4> QED
        BY <3>2, <4>1, <4>2 DEF evictionClass, NoTaint
    <3> QED
      BY <3>1, <3>3, <3>4, <3>5
  <2> QED
    BY <1>1, <2>1, <2>2, <2>3, <2>4, <2>5 DEF States
<1> QED
  BY <1>1, <1>3, <1>4, <1>5 DEF Verdicts

(***************************************************************************)
(* Until its next pass is due, what the only enrollment of a Node may      *)
(* evict is its row of the eviction matrix: no heartbeat, window or hold   *)
(* can move on without the taints that eviction reads moving with it.      *)
(***************************************************************************)
THEOREM WakeupEviction == ASSUME Setting PROVE Spec => []EvictionFollows
<1>1. TypeOK /\ SteadyUntilDue => EvictionFollows
  <2> SUFFICES ASSUME TypeOK, SteadyUntilDue, NEW e \in DOMAIN items, DOMAIN items = {e},
                      NEW t \in now..(due[e] - 1),
                      admissionReason(items[e], t) \notin Undocumented
               PROVE  evictionClass(items[e], node, node.taint, t) = matrixRow(items[e], t)
    BY DEF EvictionFollows
  <2>1. items[e] \in EnrollmentType /\ t \in Nat /\ node = desiredFields(items, t)
    BY RecordType DEF TypeOK, SteadyUntilDue
  <2>2. protectionSource(items, t) = e
    <3>1. DOMAIN enrollmentRanks(items, t) = {e}
      BY DEF enrollmentRanks
    <3>2. strongest(enrollmentRanks(items, t)) = e
      <4>1. e \in Nat \ {0} /\ {e} \in SUBSET (Nat \ {0})
        BY EnrollmentsAssumption DEF TypeOK
      <4>2. enrollmentRanks(items, t) \in [{e} -> 0..3]
        BY <2>1, RankOrdersTaints DEF enrollmentRanks
      <4> QED
        BY <4>1, <4>2, FirstStrongest
    <3> QED
      BY <3>2 DEF protectionSource
  <2> DEFINE p == protectionForNode(items, t)
  <2>3. p.taint = taintFor(admissionReason(items[e], t))
    BY <2>2 DEF protectionForNode, decidePolicy
  <2>4. node = ownedFields(p.taint, policyAdmitted(p, t))
    BY <2>1 DEF desiredFields
  <2>5. policyAdmitted(p, t) => p.taint = NoTaint
    BY DEF policyAdmitted, controllerAdmitted
  <2> HIDE DEF p
  <2>6. /\ node.taint = taintFor(admissionReason(items[e], t))
        /\ node.taint # NoTaint => node.burst = BurstConfigured
    BY <2>3, <2>4, <2>5, PolicyFlags DEF ownedFields
  <2> QED
    BY <2>1, <2>6, MatrixRow DEF Setting
<1> QED
  BY <1>1, WakeupSteady, WakeupType, PTL
=============================================================================
