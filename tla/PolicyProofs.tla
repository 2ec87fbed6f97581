---------------------------- MODULE PolicyProofs -----------------------------
(***************************************************************************)
(* Between two evaluations the policy of an enrollment does not change:    *)
(* requeueAfter never reaches past a boundary that matters.                *)
(***************************************************************************)
EXTENDS Enrollment, TLAPS, FiniteSetTheorems, NaturalsInduction, WellFoundedInduction

(***************************************************************************)
(* Least returns the least element of a set of naturals.                   *)
(***************************************************************************)
LEMMA LeastIsLeast ==
    ASSUME NEW S \in SUBSET Nat, S # {}
    PROVE  Least(S) \in S /\ \A y \in S : Least(S) <= y
<1> DEFINE R == {ss \in Nat \X Nat : ss[1] < ss[2]}
<1>1. IsWellFoundedOn(R, Nat)
  BY NatLessThanWellFounded, Zenon DEF OpToRel
<1> HIDE DEF R
<1>2. \E x \in S : \A y \in S : ~(<<y, x>> \in R)
  BY <1>1, WFMin
<1>3. PICK x \in S : \A y \in S : ~(<<y, x>> \in R)
  BY <1>2
<1>4. ASSUME NEW y \in S PROVE x <= y
  <2>1. ~(y < x)
    BY <1>3, Zenon DEF R
  <2> QED
    BY <2>1
<1> QED
  BY <1>4 DEF Least

(***************************************************************************)
(* nextActivation is the first activation after the given time.            *)
(***************************************************************************)
LEMMA NextIsFirst ==
    ASSUME NEW w \in WindowType, NEW after \in Int, HasNext(w, after)
    PROVE  /\ nextActivation(w, after) \in w.schedule
           /\ nextActivation(w, after) \in Nat
           /\ nextActivation(w, after) > after
           /\ \A s \in w.schedule : s > after => nextActivation(w, after) <= s
<1> DEFINE S == {s \in w.schedule : s > after}
<1>1. S \in SUBSET Nat /\ S # {}
  BY DEF WindowType, HasNext
<1>2. Least(S) \in S /\ \A y \in S : Least(S) <= y
  BY <1>1, LeastIsLeast
<1>3. nextActivation(w, after) = Least(S)
  BY DEF nextActivation
<1> HIDE DEF S
<1>4. Least(S) \in w.schedule /\ Least(S) > after
  BY <1>2 DEF S
<1>5. ASSUME NEW s \in w.schedule, s > after PROVE Least(S) <= s
  BY <1>2, <1>5 DEF S
<1> QED
  BY <1>1, <1>2, <1>3, <1>4, <1>5

(***************************************************************************)
(* A window that could be scanned at t is scanned the same way at any u    *)
(* before its first boundary: no start enters or leaves, and the lead time *)
(* of the next start neither begins nor has begun earlier.                 *)
(***************************************************************************)
LEMMA ScanStable ==
    ASSUME NEW w \in WindowType, NEW lead \in Nat, NEW t \in Nat, NEW u \in Nat,
           t <= u, ~scanErr(w, lead, t),
           \A b \in scanBoundaries(w, lead, t) : u < b
    PROVE  /\ scannedStarts(w, u) = scannedStarts(w, t)
           /\ ~scanErr(w, lead, u)
           /\ scanOpen(w, lead, u) <=> scanOpen(w, lead, t)
           /\ scanBoundaries(w, lead, u) = scanBoundaries(w, lead, t)
<1> DEFINE n == nextActivation(w, t)
           m == nextActivation(w, t + lead)
<1>1. /\ n \in w.schedule /\ n \in Nat /\ n > t
      /\ \A s \in w.schedule : s > t => n <= s
  BY NextIsFirst DEF scanErr
<1>2. u < n /\ \A s \in scannedStarts(w, t) : u < s + w.duration
  BY DEF scanBoundaries
<1>3. lead > 0 => /\ m \in w.schedule /\ m \in Nat /\ m > t + lead
                 /\ \A s \in w.schedule : s > t + lead => m <= s
                 /\ u < m - lead
  <2> SUFFICES ASSUME lead > 0
               PROVE  /\ m \in w.schedule /\ m \in Nat /\ m > t + lead
                      /\ \A s \in w.schedule : s > t + lead => m <= s
                      /\ u < m - lead
    OBVIOUS
  <2>1. HasNext(w, t + lead)
    BY DEF scanErr
  <2>2. u < m - lead
    BY DEF scanBoundaries
  <2> QED
    BY <2>1, <2>2, NextIsFirst
<1> HIDE DEF n, m
<1>4. w.schedule \subseteq Nat /\ w.duration \in Int
  BY DEF WindowType
<1>5. scannedStarts(w, u) = scannedStarts(w, t)
  <2>1. ASSUME NEW s \in scannedStarts(w, u) PROVE s \in scannedStarts(w, t)
    BY <2>1, <1>1, <1>2, <1>4 DEF scannedStarts
  <2>2. ASSUME NEW s \in scannedStarts(w, t) PROVE s \in scannedStarts(w, u)
    BY <2>2, <1>2, <1>4 DEF scannedStarts
  <2> QED
    BY <2>1, <2>2
<1>6. HasNext(w, u) /\ (lead > 0 => HasNext(w, u + lead))
  BY <1>1, <1>2, <1>3 DEF HasNext
<1>7. ~scanErr(w, lead, u)
  BY <1>5, <1>6 DEF scanErr
<1>8. nextActivation(w, u) = n
  <2>1. /\ nextActivation(w, u) \in w.schedule /\ nextActivation(w, u) \in Nat
        /\ nextActivation(w, u) > u
        /\ \A s \in w.schedule : s > u => nextActivation(w, u) <= s
    BY <1>6, NextIsFirst
  <2>2. nextActivation(w, u) <= n
    BY <2>1, <1>1, <1>2
  <2>3. n <= nextActivation(w, u)
    BY <2>1, <1>1
  <2> QED
    BY <2>1, <2>2, <2>3, <1>1
<1>9. lead > 0 => (u >= n - lead <=> t >= n - lead)
  BY <1>1, <1>3
<1>10. lead > 0 => nextActivation(w, u + lead) = m
  <2> SUFFICES ASSUME lead > 0 PROVE nextActivation(w, u + lead) = m
    OBVIOUS
  <2>1. /\ nextActivation(w, u + lead) \in w.schedule /\ nextActivation(w, u + lead) \in Nat
        /\ nextActivation(w, u + lead) > u + lead
        /\ \A s \in w.schedule : s > u + lead => nextActivation(w, u + lead) <= s
    BY <1>6, NextIsFirst
  <2>2. nextActivation(w, u + lead) <= m
    BY <2>1, <1>3
  <2>3. m <= nextActivation(w, u + lead)
    BY <2>1, <1>3
  <2> QED
    BY <2>1, <2>2, <2>3, <1>3
<1>11. scanBoundaries(w, lead, u) = scanBoundaries(w, lead, t)
  BY <1>5, <1>8, <1>10 DEF scanBoundaries, n, m
<1> QED
  BY <1>5, <1>7, <1>8, <1>9, <1>11 DEF scanOpen, n

(***************************************************************************)
(* Every boundary lies after the time it is searched from, and there is    *)
(* one.                                                                    *)
(***************************************************************************)
LEMMA WakesType ==
    ASSUME NEW spec \in ScheduleType, NEW t \in Nat,
           ~windowErr(spec, t), spec.windows # {}
    PROVE  /\ wakes(spec, t) \in SUBSET Nat /\ wakes(spec, t) # {}
           /\ \A b \in wakes(spec, t) : b > t
<1>1. spec.lead \in Nat /\ spec.windows \subseteq WindowType
  BY DEF ScheduleType, windowErr, scheduleInvalid
<1>2. ASSUME NEW w \in spec.windows, NEW b \in scanBoundaries(w, spec.lead, t)
      PROVE  b \in Nat /\ b > t
  <2>1. w \in WindowType /\ w.duration \in Int /\ w.schedule \subseteq Nat
    BY <1>1 DEF WindowType
  <2>2. ~scanErr(w, spec.lead, t)
    BY DEF windowErr
  <2>3. CASE \E s \in scannedStarts(w, t) : b = s + w.duration
    BY <2>1, <2>3 DEF scannedStarts
  <2>4. CASE b = nextActivation(w, t)
    BY <2>1, <2>2, <2>4, NextIsFirst DEF scanErr
  <2>5. CASE spec.lead > 0 /\ b = nextActivation(w, t + spec.lead) - spec.lead
    <3>1. HasNext(w, t + spec.lead)
      BY <2>2, <2>5 DEF scanErr
    <3> QED
      BY <1>1, <2>1, <2>5, <3>1, NextIsFirst
  <2> QED
    BY <2>3, <2>4, <2>5 DEF scanBoundaries
<1>3. wakes(spec, t) # {}
  BY DEF wakes, scanBoundaries
<1>4. \A b \in wakes(spec, t) : b \in Nat /\ b > t
  BY <1>2 DEF wakes
<1> QED
  BY <1>3, <1>4

(***************************************************************************)
(* windowWait ends at the first boundary of any window.                    *)
(***************************************************************************)
LEMMA WaitIsFirst ==
    ASSUME NEW spec \in ScheduleType, NEW t \in Nat,
           ~windowErr(spec, t), spec.windows # {}
    PROVE  /\ windowWait(spec, t) \in Nat /\ windowWait(spec, t) > 0
           /\ \A w \in spec.windows : \A b \in scanBoundaries(w, spec.lead, t) :
                 t + windowWait(spec, t) <= b
           /\ t + windowWait(spec, t) = Least(wakes(spec, t))
           /\ Least(wakes(spec, t)) \in wakes(spec, t)
<1>1. /\ Least(wakes(spec, t)) \in wakes(spec, t)
      /\ \A y \in wakes(spec, t) : Least(wakes(spec, t)) <= y
  BY WakesType, LeastIsLeast
<1>2. windowWait(spec, t) = Least(wakes(spec, t)) - t
  BY DEF windowWait
<1>3. Least(wakes(spec, t)) \in Nat /\ Least(wakes(spec, t)) > t
  BY <1>1, WakesType
<1>4. ASSUME NEW w \in spec.windows, NEW b \in scanBoundaries(w, spec.lead, t)
      PROVE  Least(wakes(spec, t)) <= b
  BY <1>1 DEF wakes
<1>5. t + windowWait(spec, t) = Least(wakes(spec, t))
  BY <1>2, <1>3
<1> QED
  BY <1>1, <1>2, <1>3, <1>4, <1>5

(***************************************************************************)
(* A schedule whose evaluation fails keeps failing until it is edited. A   *)
(* field that does not parse never parses, and cron expressions do not run *)
(* out and come back; what this leaves out is a schedule that exceeds      *)
(* maxWindowOccurrences at some times and not at others.                   *)
(***************************************************************************)
ErrorPersists(spec) ==
    \A t, u \in Nat : t <= u /\ windowErr(spec, t) => windowErr(spec, u)

(***************************************************************************)
(* The schedule is evaluated the same way until windowWait is over.        *)
(***************************************************************************)
LEMMA ScheduleStable ==
    ASSUME NEW spec \in ScheduleType, NEW t \in Nat, NEW u \in Nat, t <= u,
           ErrorPersists(spec),
           windowWait(spec, t) > 0 => u < t + windowWait(spec, t)
    PROVE  /\ windowErr(spec, u) <=> windowErr(spec, t)
           /\ windowState(spec, u) = windowState(spec, t)
           /\ windowWait(spec, t) = 0 => windowWait(spec, u) = 0
           /\ windowWait(spec, t) > 0 =>
                 windowWait(spec, u) > 0 /\ u + windowWait(spec, u) = t + windowWait(spec, t)
<1>1. CASE windowErr(spec, t)
  <2>1. windowErr(spec, u)
    BY <1>1 DEF ErrorPersists
  <2> QED
    BY <1>1, <2>1 DEF windowState, windowWait
<1>2. CASE ~windowErr(spec, t) /\ spec.windows = {}
  <2>1. ~windowErr(spec, u)
    BY <1>2 DEF windowErr
  <2>2. openState(spec, u) = openState(spec, t)
    BY <1>2 DEF openState
  <2> QED
    BY <1>2, <2>1, <2>2 DEF windowState, windowWait
<1>3. CASE ~windowErr(spec, t) /\ spec.windows # {}
  <2>1. windowWait(spec, t) \in Nat /\ windowWait(spec, t) > 0
    BY <1>3, WaitIsFirst
  <2>2. spec.lead \in Nat /\ spec.windows \subseteq WindowType
    BY <1>3 DEF ScheduleType, windowErr, scheduleInvalid
  <2>3. ASSUME NEW w \in spec.windows
        PROVE  /\ ~scanErr(w, spec.lead, u)
               /\ scanOpen(w, spec.lead, u) <=> scanOpen(w, spec.lead, t)
               /\ scanBoundaries(w, spec.lead, u) = scanBoundaries(w, spec.lead, t)
    <3>1. ASSUME NEW b \in scanBoundaries(w, spec.lead, t) PROVE u < b
      <4>1. t + windowWait(spec, t) <= b
        BY <1>3, WaitIsFirst
      <4>2. b \in Int
        BY <1>3, <2>2, NextIsFirst DEF scanBoundaries, WindowType, windowErr, scanErr, scannedStarts
      <4> QED
        BY <2>1, <4>1, <4>2
    <3>2. ~scanErr(w, spec.lead, t) /\ w \in WindowType
      BY <1>3, <2>2 DEF windowErr
    <3> QED
      BY <2>2, <3>1, <3>2, ScanStable
  <2>4. ~windowErr(spec, u)
    BY <1>3, <2>3 DEF windowErr
  <2>5. {v \in spec.windows : scanOpen(v, spec.lead, u)}
          = {v \in spec.windows : scanOpen(v, spec.lead, t)}
    BY <2>3
  <2>6. openState(spec, u) = openState(spec, t)
    BY <2>5 DEF openState
  <2>7. wakes(spec, u) = wakes(spec, t)
    BY <2>3 DEF wakes
  <2>8. /\ windowWait(spec, u) \in Nat /\ windowWait(spec, u) > 0
        /\ u + windowWait(spec, u) = Least(wakes(spec, u))
        /\ t + windowWait(spec, t) = Least(wakes(spec, t))
    BY <1>3, <2>4, WaitIsFirst
  <2> QED
    BY <1>3, <2>1, <2>4, <2>6, <2>7, <2>8 DEF windowState
<1> QED
  BY <1>1, <1>2, <1>3

(***************************************************************************)
(* windowWait is a natural number, 0 when nothing is scheduled.            *)
(***************************************************************************)
LEMMA WaitType ==
    ASSUME NEW spec \in ScheduleType, NEW t \in Nat
    PROVE  windowWait(spec, t) \in Nat
<1>1. CASE windowErr(spec, t) \/ spec.windows = {}
  BY <1>1 DEF windowWait
<1>2. CASE ~windowErr(spec, t) /\ spec.windows # {}
  BY <1>2, WaitIsFirst
<1> QED
  BY <1>1, <1>2

(***************************************************************************)
(* minPositive of a positive first argument is positive, and at most each  *)
(* of its positive arguments.                                              *)
(***************************************************************************)
LEMMA MinPositive ==
    ASSUME NEW a \in Int, NEW b \in Int, a > 0
    PROVE  /\ minPositive(a, b) \in Nat /\ minPositive(a, b) > 0
           /\ minPositive(a, b) <= a
           /\ b > 0 => minPositive(a, b) <= b
BY DEF minPositive

(***************************************************************************)
(* How the verdict on one heartbeat moves with time.                       *)
(***************************************************************************)
LEMMA VerdictStable ==
    ASSUME NEW at \in Nat, NEW t \in Nat, NEW u \in Nat, t <= u
    PROVE  /\ heartbeatFreshness(at, t) \in Verdicts
           /\ heartbeatFreshness(at, t) \in {"Missing", "Expired"}
                => heartbeatFreshness(at, u) = heartbeatFreshness(at, t)
           /\ heartbeatFreshness(at, t) = "Future" =>
                /\ at - effectiveHeartbeatSkew - t > 0
                /\ u < at - effectiveHeartbeatSkew => heartbeatFreshness(at, u) = "Future"
           /\ heartbeatFreshness(at, t) = "Fresh" =>
                /\ at + StaleAfter - t > 0
                /\ u < at + StaleAfter => heartbeatFreshness(at, u) = "Fresh"
                /\ heartbeatFreshness(at, u) \in {"Fresh", "Expired"}
BY PolicyValid DEF heartbeatFreshness, effectiveHeartbeatSkew, Verdicts

(***************************************************************************)
(* The fields of an enrollment, one by one; a hold's expiry is a natural.  *)
(***************************************************************************)
LEMMA EnrollmentFields ==
    ASSUME NEW a \in EnrollmentType
    PROVE  /\ a.heartbeatAt \in Nat /\ a.hold \in Int /\ a.holdStart \in Int
           /\ a.spec \in ScheduleType /\ holdExpiry(a) \in Nat
BY DEF EnrollmentType, holdExpiry

(***************************************************************************)
(* The reason is a function of the verdict, the open window, the schedule  *)
(* error and whether a hold is running.                                    *)
(***************************************************************************)
LEMMA ReasonType ==
    ASSUME NEW a \in EnrollmentType, NEW t \in Nat
    PROVE  /\ admissionReason(a, t) \in Reasons
           /\ admissionReason(a, t) \in Unfresh <=> ~Fresh(a.heartbeatAt, t)
           /\ admissionReason(a, t) = "invalid-heartbeat"
                <=> heartbeatFreshness(a.heartbeatAt, t) = "Future"
<1>1. heartbeatFreshness(a.heartbeatAt, t) \in Verdicts
  BY EnrollmentFields, VerdictStable
<1> QED
  BY <1>1 DEF admissionReason, Reasons, Unfresh, Refused, Scheduled, Live, Fresh, Verdicts

(***************************************************************************)
(* Every decision schedules its own revision: requeueAfter is positive,    *)
(* and it respects the deadline that matters for its reason.               *)
(***************************************************************************)
LEMMA RequeueBounds ==
    ASSUME NEW a \in EnrollmentType, NEW t \in Nat
    PROVE  LET r == admissionReason(a, t)
               q == requeueAfter(a, t)
               wait == windowWait(a.spec, t)
           IN  /\ q \in Nat /\ q > 0
               /\ r = "invalid-heartbeat" => t + q <= a.heartbeatAt - effectiveHeartbeatSkew
               /\ r = "availability-hold" => t + q <= holdExpiry(a)
               /\ r \in Scheduled \cup Live => t + q <= a.heartbeatAt + StaleAfter
               /\ r # "availability-hold" /\ wait > 0 => q <= wait
<1> DEFINE r == admissionReason(a, t)
           q == requeueAfter(a, t)
           wait == windowWait(a.spec, t)
           remaining == a.heartbeatAt + StaleAfter - t
           plausible == a.heartbeatAt - effectiveHeartbeatSkew - t
           left == holdExpiry(a) - t
<1>1. a.heartbeatAt \in Nat /\ holdExpiry(a) \in Nat /\ wait \in Nat
      /\ effectiveHeartbeatSkew \in Nat /\ StaleAfter \in Nat /\ StaleAfter > 0
  BY EnrollmentFields, WaitType, PolicyValid DEF effectiveHeartbeatSkew
<1>2. r \in Reasons /\ (r \in Unfresh <=> ~Fresh(a.heartbeatAt, t))
      /\ (r = "invalid-heartbeat" <=> heartbeatFreshness(a.heartbeatAt, t) = "Future")
  BY ReasonType
<1>3. r = "invalid-heartbeat" => plausible > 0
  BY <1>1, <1>2, VerdictStable
<1>4. r \notin Unfresh => remaining > 0
  BY <1>1, <1>2, VerdictStable DEF Fresh
<1>5. r = "availability-hold" => left > 0
  BY <1>1 DEF admissionReason
<1>6. q = CASE r = "invalid-heartbeat" -> minPositive(minPositive(plausible, StaleAfter), wait)
            [] r \in (Unfresh \cup Refused) \ {"invalid-heartbeat"} -> minPositive(StaleAfter, wait)
            [] r = "availability-hold" -> minPositive(remaining, left)
            [] OTHER -> minPositive(remaining, wait)
  BY DEF requeueAfter
<1>7. remaining \in Int /\ plausible \in Int /\ left \in Int
  BY <1>1
<1> HIDE DEF r, q, wait, remaining, plausible, left
<1>8. CASE r = "invalid-heartbeat"
  <2>1. q = minPositive(minPositive(plausible, StaleAfter), wait)
    BY <1>6, <1>8
  <2>2. minPositive(plausible, StaleAfter) \in Nat /\ minPositive(plausible, StaleAfter) > 0
        /\ minPositive(plausible, StaleAfter) <= plausible
    BY <1>1, <1>3, <1>7, <1>8, MinPositive
  <2>3. q \in Nat /\ q > 0 /\ q <= minPositive(plausible, StaleAfter) /\ (wait > 0 => q <= wait)
    BY <1>1, <2>1, <2>2, MinPositive
  <2>4. t + q <= a.heartbeatAt - effectiveHeartbeatSkew
    BY <1>1, <2>2, <2>3 DEF plausible
  <2> QED
    BY <1>8, <2>3, <2>4 DEF r, q, wait, Scheduled, Live
<1>9. CASE r \in (Unfresh \cup Refused) \ {"invalid-heartbeat"}
  <2>1. q = minPositive(StaleAfter, wait)
    BY <1>6, <1>9 DEF Unfresh, Refused
  <2>2. q \in Nat /\ q > 0 /\ (wait > 0 => q <= wait)
    BY <1>1, <2>1, MinPositive
  <2> QED
    BY <1>9, <2>2 DEF r, q, wait, Scheduled, Live, Unfresh, Refused
<1>10. CASE r = "availability-hold"
  <2>1. q = minPositive(remaining, left)
    BY <1>6, <1>10 DEF Unfresh, Refused
  <2>2. q \in Nat /\ q > 0 /\ q <= remaining /\ q <= left
    BY <1>4, <1>5, <1>7, <1>10, <2>1, MinPositive DEF Unfresh
  <2> QED
    BY <1>1, <1>10, <2>2 DEF r, q, wait, remaining, left
<1>11. CASE r \in (Scheduled \cup Live) \ {"availability-hold"}
  <2>1. q = minPositive(remaining, wait)
    BY <1>6, <1>11 DEF Unfresh, Refused, Scheduled, Live
  <2>a. remaining > 0
    BY <1>4, <1>11 DEF Unfresh, Scheduled, Live
  <2>2. q \in Nat /\ q > 0 /\ q <= remaining /\ (wait > 0 => q <= wait)
    BY <1>1, <1>7, <2>a, <2>1, MinPositive
  <2> QED
    BY <1>1, <1>11, <2>2 DEF r, q, wait, remaining, Scheduled, Live
<1> QED
  BY <1>2, <1>8, <1>9, <1>10, <1>11 DEF Reasons

(***************************************************************************)
(* A decision stands until its requeueAfter is over: the taint does not    *)
(* change, and where freshness matters besides the taint (admission of an  *)
(* untainted Node, the rank of a live game) it does not change either. The *)
(* reason changes only when the heartbeat of a refused report expires.     *)
(***************************************************************************)
LEMMA DecisionStable ==
    ASSUME FailClosed,
           NEW a \in EnrollmentType, ErrorPersists(a.spec),
           NEW t \in Nat, NEW u \in Nat, t <= u, u < t + requeueAfter(a, t)
    PROVE  /\ taintFor(admissionReason(a, u)) = taintFor(admissionReason(a, t))
           /\ \/ taintFor(admissionReason(a, t)) = NoTaint
              \/ a.activity = "game" /\ a.state = "active"
              => (Fresh(a.heartbeatAt, u) <=> Fresh(a.heartbeatAt, t))
           /\ \/ admissionReason(a, u) = admissionReason(a, t)
              \/ /\ admissionReason(a, t) \in Refused
                 /\ admissionReason(a, u) = "stale-heartbeat"
<1> DEFINE r == admissionReason(a, t)
           q == requeueAfter(a, t)
           wait == windowWait(a.spec, t)
           v == heartbeatFreshness(a.heartbeatAt, t)
           vu == heartbeatFreshness(a.heartbeatAt, u)
<1>1. a.heartbeatAt \in Nat /\ holdExpiry(a) \in Nat /\ a.spec \in ScheduleType /\ wait \in Nat
  BY EnrollmentFields, WaitType
<1>2. /\ q \in Nat /\ q > 0
      /\ r = "invalid-heartbeat" => t + q <= a.heartbeatAt - effectiveHeartbeatSkew
      /\ r = "availability-hold" => t + q <= holdExpiry(a)
      /\ r \in Scheduled \cup Live => t + q <= a.heartbeatAt + StaleAfter
      /\ r # "availability-hold" /\ wait > 0 => q <= wait
  BY RequeueBounds
<1>3. r \in Reasons /\ (r \in Unfresh <=> v # "Fresh") /\ (r = "invalid-heartbeat" <=> v = "Future")
  BY ReasonType DEF Fresh
<1>4. v \in Verdicts /\ vu \in Verdicts
  BY <1>1, VerdictStable
<1>5. v # "Fresh" => vu = v
  <2>1. CASE v = "Future"
    <3>1. t + q <= a.heartbeatAt - effectiveHeartbeatSkew
      BY <1>2, <1>3, <2>1
    <3>2. u < a.heartbeatAt - effectiveHeartbeatSkew
      BY <1>1, <1>2, <3>1, PolicyValid DEF effectiveHeartbeatSkew
    <3> QED
      BY <1>1, <2>1, <3>2, VerdictStable
  <2>2. CASE v \in {"Missing", "Expired"}
    BY <1>1, <2>2, VerdictStable
  <2> QED
    BY <1>4, <2>1, <2>2 DEF Verdicts
<1>6. r \in Scheduled \cup Live => v = "Fresh" /\ vu = "Fresh"
  <2> SUFFICES ASSUME r \in Scheduled \cup Live PROVE v = "Fresh" /\ vu = "Fresh"
    OBVIOUS
  <2>1. v = "Fresh"
    BY <1>3 DEF Scheduled, Live, Unfresh
  <2>2. u < a.heartbeatAt + StaleAfter
    BY <1>1, <1>2, PolicyValid
  <2> QED
    BY <1>1, <2>1, <2>2, VerdictStable
<1>7. v = "Fresh" => vu \in {"Fresh", "Expired"}
  BY <1>1, VerdictStable
<1>8. r # "availability-hold" =>
        /\ windowErr(a.spec, u) <=> windowErr(a.spec, t)
        /\ windowState(a.spec, u) = windowState(a.spec, t)
  <2> SUFFICES ASSUME r # "availability-hold"
               PROVE  /\ windowErr(a.spec, u) <=> windowErr(a.spec, t)
                      /\ windowState(a.spec, u) = windowState(a.spec, t)
    OBVIOUS
  <2>1. wait > 0 => u < t + wait
    BY <1>1, <1>2
  <2> QED
    BY <1>1, <2>1, ScheduleStable
<1>9. holdExpiry(a) <= t => ~(holdExpiry(a) > u)
  BY <1>1
<1>10. vu = "Expired" => taintFor(admissionReason(a, u)) = "failclosed"
  BY DEF admissionReason, taintFor, failClosed, Unfresh
<1>11. CASE r \in Unfresh
  <2>1. admissionReason(a, u) = r
    BY <1>3, <1>4, <1>5, <1>11 DEF admissionReason, Verdicts
  <2>2. taintFor(r) = "failclosed"
    BY <1>11 DEF taintFor, failClosed, Unfresh, Refused
  <2> QED
    BY <1>3, <1>5, <1>11, <2>1, <2>2 DEF Fresh
<1>12. CASE r = "availability-hold"
  <2>1. holdExpiry(a) > u
    BY <1>1, <1>2, <1>12
  <2>2. admissionReason(a, u) = r
    BY <1>6, <1>12, <2>1 DEF admissionReason, Live
  <2> QED
    BY <1>6, <1>12, <2>2 DEF Fresh, Live
<1>13. CASE r = "active-game"
  <2>1. admissionReason(a, u) = r
    BY <1>6, <1>13 DEF admissionReason, Live
  <2> QED
    BY <1>6, <1>13, <2>1 DEF Fresh, Live
<1>14. CASE r \in (Scheduled \cup Live) \ {"availability-hold", "active-game"}
  <2>1. v = "Fresh" /\ vu = "Fresh"
    BY <1>6, <1>14
  <2>2. holdExpiry(a) <= t
    BY <1>1, <1>14, <2>1 DEF admissionReason, Scheduled, Live
  <2>3. admissionReason(a, u) = r
    BY <1>1, <1>8, <1>9, <1>14, <2>1, <2>2 DEF admissionReason, Scheduled, Live
  <2> QED
    BY <2>1, <2>3 DEF Fresh
<1>15. CASE r \in Refused
  <2>1. v = "Fresh"
    BY <1>3, <1>15 DEF Refused, Unfresh
  <2>2. taintFor(r) = "failclosed" /\ taintFor(r) # NoTaint
    BY <1>15 DEF taintFor, failClosed, NoTaint, Unfresh, Refused
  <2>3. ~(a.state = "active" /\ a.activity = "game")
    BY <1>15, <2>1 DEF admissionReason, Refused
  <2>4. CASE vu = "Expired"
    <3>1. admissionReason(a, u) = "stale-heartbeat"
      BY <2>4 DEF admissionReason
    <3> QED
      BY <1>10, <1>15, <2>2, <2>3, <2>4, <3>1
  <2>5. CASE vu = "Fresh"
    <3>1. a.state \in {"idle", "active"} => holdExpiry(a) <= t
      BY <1>1, <1>15, <2>1, <2>3 DEF admissionReason, Refused
    <3>2. admissionReason(a, u) = r
      BY <1>1, <1>8, <1>9, <1>15, <2>1, <2>3, <2>5, <3>1 DEF admissionReason, Refused
    <3> QED
      BY <2>2, <2>3, <3>2
  <2> QED
    BY <1>7, <2>1, <2>4, <2>5
<1> QED
  BY <1>3, <1>11, <1>12, <1>13, <1>14, <1>15 DEF Reasons

(***************************************************************************)
(* There is a first enrollment of the highest rank: the choice of          *)
(* protectionForNode is well defined, and nobody outranks it.              *)
(***************************************************************************)
LEMMA FirstStrongest ==
    ASSUME NEW D \in SUBSET (Nat \ {0}), D # {}, NEW rank \in [D -> 0..3]
    PROVE  strongest(rank) \in D /\ \A f \in D : rank[f] <= rank[strongest(rank)]
<1> DEFINE G == {3 - rank[e] : e \in D}
           best == 3 - Least(G)
           F == {e \in D : rank[e] = best}
<1>1. G \in SUBSET Nat /\ G # {}
  <2>1. \A e \in D : 3 - rank[e] \in Nat
    OBVIOUS
  <2> QED
    BY <2>1
<1>2. Least(G) \in G /\ \A g \in G : Least(G) <= g
  BY <1>1, LeastIsLeast
<1> HIDE DEF G
<1>3. PICK b \in D : Least(G) = 3 - rank[b]
  BY <1>2 DEF G
<1>4. \A f \in D : rank[f] <= best
  <2>1. ASSUME NEW f \in D PROVE Least(G) <= 3 - rank[f]
    BY <1>2 DEF G
  <2> QED
    BY <1>3, <2>1
<1>5. b \in F
  BY <1>3
<1>6. F \in SUBSET Nat /\ F # {}
  BY <1>5
<1>7. Least(F) \in F /\ \A f \in F : Least(F) <= f
  BY <1>6, LeastIsLeast
<1>8. \A f \in D : rank[Least(F)] > rank[f] \/ (rank[Least(F)] = rank[f] /\ Least(F) <= f)
  BY <1>3, <1>4, <1>7
<1> HIDE DEF F
<1>9. Least(F) \in D /\ DOMAIN rank = D
  BY <1>7 DEF F
<1>10. strongest(rank) \in D /\ \A f \in D :
          \/ rank[strongest(rank)] > rank[f]
          \/ rank[strongest(rank)] = rank[f] /\ strongest(rank) <= f
  BY <1>8, <1>9 DEF strongest
<1>11. ASSUME NEW f \in D PROVE rank[f] <= rank[strongest(rank)]
  <2>1. rank[f] \in 0..3 /\ rank[strongest(rank)] \in 0..3
    BY <1>10
  <2> QED
    BY <1>10, <2>1
<1> QED
  BY <1>10, <1>11

(***************************************************************************)
(* The delay of a pass is a natural number, 0 only without enrollments.    *)
(***************************************************************************)
LEMMA RequeueType ==
    ASSUME NEW D \in SUBSET (Nat \ {0}), NEW items \in [D -> EnrollmentType], NEW t \in Nat
    PROVE  protectionRequeue(items, t) \in Nat
<1>1. CASE D = {}
  BY <1>1 DEF protectionRequeue
<1>2. CASE D # {}
  <2> DEFINE Q == {requeueAfter(items[e], t) : e \in D}
  <2>1. \A e \in D : requeueAfter(items[e], t) \in Nat
    BY RequeueBounds
  <2>2. Q \in SUBSET Nat /\ Q # {}
    BY <1>2, <2>1
  <2>3. Least(Q) \in Nat
    BY <2>2, LeastIsLeast
  <2> QED
    BY <1>2, <2>3 DEF protectionRequeue
<1> QED
  BY <1>1, <1>2

(***************************************************************************)
(* Setting aside candidates that are over does not change the earliest.    *)
(***************************************************************************)
LEMMA EarliestStable ==
    ASSUME NEW t \in Nat, NEW u \in Nat, t <= u, NEW C \in SUBSET Int,
           \A c \in C : c > t <=> c > u
    PROVE  earliestTransition(u, C) = earliestTransition(t, C)
<1>1. {c \in C : c > u} = {c \in C : c > t}
  OBVIOUS
<1> QED
  BY <1>1 DEF earliestTransition

(***************************************************************************)
(* So does the transition a decision announces: until requeueAfter is over *)
(* none of its candidates passes and none is added.                        *)
(***************************************************************************)
LEMMA TransitionStable ==
    ASSUME FailClosed,
           NEW a \in EnrollmentType, ErrorPersists(a.spec),
           NEW t \in Nat, NEW u \in Nat, t <= u, u < t + requeueAfter(a, t)
    PROVE  nextTransition(a, u) = nextTransition(a, t)
<1> DEFINE r == admissionReason(a, t)
           ru == admissionReason(a, u)
           q == requeueAfter(a, t)
           wait == windowWait(a.spec, t)
           waitU == windowWait(a.spec, u)
           deadline == a.heartbeatAt + StaleAfter
           plausible == a.heartbeatAt - effectiveHeartbeatSkew
           boundary == IF wait > 0 THEN {t + wait} ELSE {}
           boundaryU == IF waitU > 0 THEN {u + waitU} ELSE {}
<1>1. /\ a.heartbeatAt \in Nat /\ holdExpiry(a) \in Nat /\ a.spec \in ScheduleType
      /\ wait \in Nat /\ waitU \in Nat /\ deadline \in Int /\ plausible \in Int
  BY EnrollmentFields, WaitType, PolicyValid DEF effectiveHeartbeatSkew
<1>2. /\ q \in Nat /\ q > 0 /\ u < t + q
      /\ r = "invalid-heartbeat" => t + q <= plausible
      /\ r = "availability-hold" => t + q <= holdExpiry(a)
      /\ r \in Scheduled \cup Live => t + q <= deadline
      /\ r # "availability-hold" /\ wait > 0 => q <= wait
  BY RequeueBounds
<1>3. r \in Reasons /\ (ru = r \/ (r \in Refused /\ ru = "stale-heartbeat"))
  BY ReasonType, DecisionStable
<1>4. r # "availability-hold" => boundaryU = boundary /\ \A b \in boundary : b > u
  <2> SUFFICES ASSUME r # "availability-hold"
               PROVE  boundaryU = boundary /\ \A b \in boundary : b > u
    OBVIOUS
  <2>1. wait > 0 => u < t + wait
    BY <1>1, <1>2
  <2>2. /\ wait = 0 => waitU = 0
        /\ wait > 0 => waitU > 0 /\ u + waitU = t + wait
    BY <1>1, <2>1, ScheduleStable
  <2> HIDE DEF wait, waitU
  <2>3. CASE wait = 0
    BY <2>2, <2>3
  <2>4. CASE wait > 0
    <3>1. boundary = {t + wait} /\ boundaryU = {u + waitU} /\ t + wait > u
      BY <2>1, <2>2, <2>4
    <3> HIDE DEF boundary, boundaryU
    <3> QED
      BY <2>2, <2>4, <3>1
  <2> QED
    BY <1>1, <2>3, <2>4
<1>5. \A x \in {t, u} : nextTransition(a, x) =
         LET rx == admissionReason(a, x) IN
         CASE rx = "invalid-heartbeat" -> earliestTransition(x, {plausible})
           [] rx = "availability-hold" -> earliestTransition(x, {deadline, holdExpiry(a)})
           [] rx = "invalid-schedule" -> 0
           [] rx = "active-game" -> earliestTransition(x, {deadline})
           [] rx \in Scheduled \cup {"fresh-idle", "active-interactive"} ->
                earliestTransition(x, {deadline} \cup (IF x = t THEN boundary ELSE boundaryU))
           [] OTHER -> 0
  BY DEF nextTransition
<1>6. boundary \in SUBSET Int
  BY <1>1
<1> HIDE DEF r, ru, q, wait, waitU, deadline, plausible, boundary, boundaryU
<1>7. ASSUME NEW C \in SUBSET Int, \A c \in C : c > u
      PROVE  earliestTransition(u, C) = earliestTransition(t, C)
  BY <1>7, EarliestStable
<1>8. CASE r = "invalid-heartbeat"
  <2>1. plausible > u
    BY <1>1, <1>2, <1>8
  <2>2. earliestTransition(u, {plausible}) = earliestTransition(t, {plausible})
    BY <1>1, <1>7, <2>1
  <2> QED
    BY <1>3, <1>5, <1>8, <2>2 DEF r, ru, Refused, Scheduled
<1>9. CASE r = "availability-hold"
  <2>1. deadline > u /\ holdExpiry(a) > u
    BY <1>1, <1>2, <1>9 DEF Live
  <2>2. earliestTransition(u, {deadline, holdExpiry(a)})
          = earliestTransition(t, {deadline, holdExpiry(a)})
    BY <1>1, <1>7, <2>1
  <2> QED
    BY <1>3, <1>5, <1>9, <2>2 DEF r, ru, Refused, Scheduled
<1>10. CASE r = "active-game"
  <2>1. deadline > u
    BY <1>1, <1>2, <1>10 DEF Live
  <2>2. earliestTransition(u, {deadline}) = earliestTransition(t, {deadline})
    BY <1>1, <1>7, <2>1
  <2> QED
    BY <1>3, <1>5, <1>10, <2>2 DEF r, ru, Refused, Scheduled
<1>11. CASE r \in Scheduled \cup {"fresh-idle", "active-interactive"}
  <2>1. deadline > u /\ boundaryU = boundary /\ \A b \in boundary : b > u
    BY <1>1, <1>2, <1>4, <1>11 DEF Live, Scheduled
  <2>2. earliestTransition(u, {deadline} \cup boundary)
          = earliestTransition(t, {deadline} \cup boundary)
    <3>1. {deadline} \cup boundary \in SUBSET Int /\ \A c \in {deadline} \cup boundary : c > u
      BY <1>1, <1>6, <2>1
    <3> QED
      BY <1>7, <3>1
  <2>3. ru = r
    BY <1>3, <1>11 DEF Refused, Scheduled
  <2> HIDE DEF earliestTransition
  <2> QED
    BY <1>5, <1>11, <2>1, <2>2, <2>3 DEF r, ru, Scheduled
<1>12. CASE r \in (Unfresh \cup Refused) \ {"invalid-heartbeat"}
  <2>1. ru \in (Unfresh \cup Refused) \ {"invalid-heartbeat"}
    BY <1>3, <1>12 DEF Unfresh, Refused
  <2> QED
    BY <1>5, <1>12, <2>1 DEF r, ru, Unfresh, Refused, Scheduled
<1> QED
  BY <1>3, <1>8, <1>9, <1>10, <1>11, <1>12 DEF Reasons, Live

(***************************************************************************)
(* The protection of a Node stands until the earliest contribution         *)
(* deadline: what Reconcile writes at t is what it would write at any u    *)
(* before that deadline, and so is what it reports, except that a refused  *)
(* report may have become stale.                                           *)
(***************************************************************************)
ReportHolds(p, later) ==
    /\ later.source = p.source /\ later.src = p.src /\ later.count = p.count
    /\ later.taint = p.taint /\ later.nextTransition = p.nextTransition
    /\ later.reason = p.reason \/ (p.reason \in Refused /\ later.reason = "stale-heartbeat")

LEMMA ProtectionStable ==
    ASSUME FailClosed,
           NEW D \in SUBSET (Nat \ {0}), D # {},
           NEW items \in [D -> EnrollmentType], \A e \in D : ErrorPersists(items[e].spec),
           NEW t \in Nat
    PROVE  /\ protectionRequeue(items, t) \in Nat /\ protectionRequeue(items, t) > 0
           /\ \A u \in Nat : t <= u /\ u < t + protectionRequeue(items, t)
                => /\ desiredFields(items, u) = desiredFields(items, t)
                   /\ ReportHolds(protectionForNode(items, t), protectionForNode(items, u))
<1> DEFINE Q == {requeueAfter(items[e], t) : e \in D}
<1>1. \A e \in D : items[e] \in EnrollmentType
  OBVIOUS
<1>2. \A e \in D : requeueAfter(items[e], t) \in Nat /\ requeueAfter(items[e], t) > 0
  BY <1>1, RequeueBounds
<1>3. Q \in SUBSET Nat /\ Q # {}
  BY <1>2
<1>4. Least(Q) \in Q /\ \A q \in Q : Least(Q) <= q
  BY <1>3, LeastIsLeast
<1>5. protectionRequeue(items, t) = Least(Q)
  BY DEF protectionRequeue
<1>6. Least(Q) \in Nat /\ Least(Q) > 0
  BY <1>2, <1>4
<1>7. \A e \in D : Least(Q) <= requeueAfter(items[e], t)
  BY <1>4
<1> HIDE DEF Q
<1>8. ASSUME NEW u \in Nat, t <= u, u < t + Least(Q)
      PROVE  /\ desiredFields(items, u) = desiredFields(items, t)
             /\ ReportHolds(protectionForNode(items, t), protectionForNode(items, u))
  <2>1. ASSUME NEW e \in D
        PROVE  /\ taintFor(admissionReason(items[e], u)) = taintFor(admissionReason(items[e], t))
               /\ \/ taintFor(admissionReason(items[e], t)) = NoTaint
                  \/ items[e].activity = "game" /\ items[e].state = "active"
                  => (Fresh(items[e].heartbeatAt, u) <=> Fresh(items[e].heartbeatAt, t))
               /\ \/ admissionReason(items[e], u) = admissionReason(items[e], t)
                  \/ /\ admissionReason(items[e], t) \in Refused
                     /\ admissionReason(items[e], u) = "stale-heartbeat"
               /\ nextTransition(items[e], u) = nextTransition(items[e], t)
    <3>1. u < t + requeueAfter(items[e], t)
      BY <1>2, <1>6, <1>7, <1>8
    <3> QED
      BY <1>1, <1>8, <3>1, DecisionStable, TransitionStable
  <2>2. \A e \in D : enrollmentRank(items[e], u) = enrollmentRank(items[e], t)
    BY <2>1 DEF enrollmentRank, NoTaint, NoSchedule, PreferNoSchedule
  <2>3. enrollmentRanks(items, u) = enrollmentRanks(items, t)
    BY <2>2 DEF enrollmentRanks
  <2>4. enrollmentRanks(items, t) \in [D -> 0..3]
    <3>1. \A e \in D : taintFor(admissionReason(items[e], t)) \in Taints
      BY DEF taintFor, failClosed, Taints, NoTaint, NoSchedule, PreferNoSchedule
    <3>2. \A e \in D : enrollmentRank(items[e], t) \in 0..3
      BY <3>1 DEF enrollmentRank, Taints
    <3> QED
      BY <3>2 DEF enrollmentRanks
  <2>5. strongest(enrollmentRanks(items, t)) \in D
    BY <2>4, FirstStrongest
  <2> DEFINE s == strongest(enrollmentRanks(items, t))
  <2>6. protectionSource(items, t) = s /\ protectionSource(items, u) = s /\ s # NoSource
    BY <2>3, <2>5 DEF protectionSource, NoSource
  <2> HIDE DEF s
  <2>7. s \in D
    BY <2>5 DEF s
  <2>8. ASSUME NEW x \in {t, u}
        PROVE  desiredFields(items, x) =
                 LET taint == taintFor(admissionReason(items[s], x))
                 IN  ownedFields(taint, controllerAdmitted(items[s], x, taint))
    <3>1. protectionSource(items, x) = s
      BY <2>6, <2>8
    <3>2. DOMAIN items # {}
      OBVIOUS
    <3>3. /\ protectionForNode(items, x).source = s
          /\ protectionForNode(items, x).src = items[s]
          /\ protectionForNode(items, x).taint = taintFor(admissionReason(items[s], x))
      BY <3>1, <3>2 DEF protectionForNode, decidePolicy
    <3>4. policyAdmitted(protectionForNode(items, x), x)
            = controllerAdmitted(items[s], x, taintFor(admissionReason(items[s], x)))
      BY <2>6, <3>3 DEF policyAdmitted, controllerAdmitted
    <3> QED
      BY <3>3, <3>4 DEF desiredFields
  <2>9. taintFor(admissionReason(items[s], u)) = taintFor(admissionReason(items[s], t))
    BY <2>1, <2>7
  <2>10. controllerAdmitted(items[s], u, taintFor(admissionReason(items[s], t)))
           = controllerAdmitted(items[s], t, taintFor(admissionReason(items[s], t)))
    BY <2>1, <2>7 DEF controllerAdmitted
  <2>11. ReportHolds(protectionForNode(items, t), protectionForNode(items, u))
    <3>1. ASSUME NEW x \in {t, u}
          PROVE  protectionForNode(items, x) =
                    [source |-> s, src |-> items[s],
                     taint |-> taintFor(admissionReason(items[s], x)),
                     reason |-> admissionReason(items[s], x),
                     scheduled |-> admissionReason(items[s], x) \in Scheduled,
                     count |-> Cardinality(D), nextTransition |-> nextTransition(items[s], x)]
      BY <2>6, <3>1 DEF protectionForNode, decidePolicy
    <3> QED
      BY <2>1, <2>7, <2>9, <3>1 DEF ReportHolds
  <2> QED
    BY <2>8, <2>9, <2>10, <2>11
<1> QED
  BY <1>5, <1>6, <1>8

(***************************************************************************)
(* An announced transition is not later than any candidate still to come.  *)
(***************************************************************************)
LEMMA EarliestIsFirst ==
    ASSUME NEW t \in Nat, NEW C \in SUBSET Int
    PROVE  /\ earliestTransition(t, C) \in Nat
           /\ \A u \in Nat : u < earliestTransition(t, C) => \A c \in C : c > t => u < c
<1> DEFINE later == {c \in C : c > t}
<1>1. later \in SUBSET Nat
  <2>1. \A c \in later : c \in Nat
    OBVIOUS
  <2> QED
    BY <2>1
<1>2. earliestTransition(t, C) = IF later = {} THEN 0 ELSE Least(later)
  BY DEF earliestTransition
<1>3. CASE later = {}
  BY <1>2, <1>3
<1>4. CASE later # {}
  <2>1. Least(later) \in later /\ \A c \in later : Least(later) <= c
    BY <1>1, <1>4, LeastIsLeast
  <2>2. earliestTransition(t, C) = Least(later) /\ Least(later) \in Nat
    BY <1>1, <1>2, <1>4, <2>1
  <2>3. ASSUME NEW u \in Nat, u < Least(later), NEW c \in C, c > t PROVE u < c
    <3>1. c \in later
      BY <2>3
    <3>2. Least(later) <= c
      BY <2>1, <3>1
    <3> HIDE DEF later
    <3> QED
      BY <2>2, <2>3, <3>2
  <2> QED
    BY <2>2, <2>3
<1> QED
  BY <1>3, <1>4

(***************************************************************************)
(* Until the transition a decision announces, the decision is the same one *)
(* and the heartbeat as fresh as it was, also for a policy that fails      *)
(* open.                                                                   *)
(***************************************************************************)
LEMMA AnnouncedStable ==
    ASSUME NEW a \in EnrollmentType, ErrorPersists(a.spec), NEW t \in Nat
    PROVE  /\ nextTransition(a, t) \in Nat
           /\ \A u \in Nat : t <= u /\ u < nextTransition(a, t) =>
                /\ admissionReason(a, u) = admissionReason(a, t)
                /\ Fresh(a.heartbeatAt, u) <=> Fresh(a.heartbeatAt, t)
<1> DEFINE r == admissionReason(a, t)
           wait == windowWait(a.spec, t)
           deadline == a.heartbeatAt + StaleAfter
           plausible == a.heartbeatAt - effectiveHeartbeatSkew
           boundary == IF wait > 0 THEN {t + wait} ELSE {}
           next == nextTransition(a, t)
           v == heartbeatFreshness(a.heartbeatAt, t)
<1>1. /\ a.heartbeatAt \in Nat /\ holdExpiry(a) \in Nat /\ a.spec \in ScheduleType
      /\ wait \in Nat /\ deadline \in Nat /\ plausible \in Int /\ boundary \in SUBSET Int
  BY EnrollmentFields, WaitType, PolicyValid DEF effectiveHeartbeatSkew
<1>2. /\ r \in Reasons /\ (r \in Unfresh <=> v # "Fresh")
      /\ (r = "invalid-heartbeat" <=> v = "Future")
  BY ReasonType DEF Fresh
<1>3. next = CASE r = "invalid-heartbeat" -> earliestTransition(t, {plausible})
               [] r = "availability-hold" -> earliestTransition(t, {deadline, holdExpiry(a)})
               [] r = "invalid-schedule" ->
                    IF FailClosed THEN 0 ELSE earliestTransition(t, {deadline})
               [] r = "active-game" -> earliestTransition(t, {deadline})
               [] r \in Scheduled \cup {"fresh-idle", "active-interactive"} ->
                    earliestTransition(t, {deadline} \cup boundary)
               [] OTHER -> 0
  BY DEF nextTransition
<1>4. v = "Fresh" => deadline > t
  BY <1>1, VerdictStable, PolicyValid
<1>5. v = "Fresh" => \A u \in Nat :
          t <= u /\ u < deadline => heartbeatFreshness(a.heartbeatAt, u) = "Fresh"
  BY <1>1, VerdictStable
<1>6. \A u \in Nat : t <= u /\ holdExpiry(a) <= t => ~(holdExpiry(a) > u)
  BY <1>1
<1> HIDE DEF r, wait, deadline, plausible, boundary, next, v
<1> DEFINE Stable(u) == /\ admissionReason(a, u) = r
                        /\ Fresh(a.heartbeatAt, u) <=> v = "Fresh"
<1>7. next \in Nat /\ \A u \in Nat : t <= u /\ u < next => Stable(u)
  <2>1. CASE r = "invalid-heartbeat"
    <3>1. next = earliestTransition(t, {plausible})
      BY <1>3, <2>1 DEF Scheduled
    <3>2. v = "Future" /\ plausible > t
      BY <1>1, <1>2, <2>1, VerdictStable, PolicyValid DEF v, plausible, effectiveHeartbeatSkew
    <3>3. next \in Nat /\ \A u \in Nat : u < next => u < plausible
      BY <1>1, <3>1, <3>2, EarliestIsFirst
    <3>4. ASSUME NEW u \in Nat, t <= u, u < next PROVE Stable(u)
      <4>1. heartbeatFreshness(a.heartbeatAt, u) = "Future"
        BY <1>1, <3>2, <3>3, <3>4, VerdictStable DEF v, plausible
      <4> QED
        BY <2>1, <3>2, <4>1 DEF admissionReason, Fresh
    <3> QED
      BY <3>3, <3>4
  <2>2. CASE r = "availability-hold"
    <3>1. next = earliestTransition(t, {deadline, holdExpiry(a)})
      BY <1>3, <2>2 DEF Scheduled
    <3>2. v = "Fresh" /\ holdExpiry(a) > t
      BY <1>2, <2>2 DEF r, admissionReason, Unfresh
    <3>3. next \in Nat /\ \A u \in Nat : u < next => u < deadline /\ u < holdExpiry(a)
      BY <1>1, <1>4, <3>1, <3>2, EarliestIsFirst
    <3>4. ASSUME NEW u \in Nat, t <= u, u < next PROVE Stable(u)
      <4>1. heartbeatFreshness(a.heartbeatAt, u) = "Fresh" /\ holdExpiry(a) > u
        BY <1>1, <1>5, <3>2, <3>3, <3>4
      <4> QED
        BY <2>2, <3>2, <4>1 DEF r, v, admissionReason, Fresh
    <3> QED
      BY <3>3, <3>4
  <2>3. CASE r = "invalid-schedule"
    <3>1. next = IF FailClosed THEN 0 ELSE earliestTransition(t, {deadline})
      BY <1>3, <2>3 DEF Scheduled
    <3>2. v = "Fresh" /\ a.state = "idle" /\ holdExpiry(a) <= t /\ windowErr(a.spec, t)
      BY <1>1, <1>2, <2>3 DEF r, v, admissionReason, Unfresh
    <3>3. next \in Nat /\ \A u \in Nat : u < next => u < deadline
      <4>1. /\ earliestTransition(t, {deadline}) \in Nat
            /\ \A u \in Nat : u < earliestTransition(t, {deadline}) => u < deadline
        BY <1>1, <1>4, <3>2, EarliestIsFirst
      <4>2. CASE FailClosed
        BY <3>1, <4>2
      <4>3. CASE ~FailClosed
        BY <3>1, <4>1, <4>3
      <4> QED
        BY <4>2, <4>3
    <3>4. ASSUME NEW u \in Nat, t <= u, u < next PROVE Stable(u)
      <4>1. heartbeatFreshness(a.heartbeatAt, u) = "Fresh" /\ ~(holdExpiry(a) > u)
        BY <1>5, <1>6, <3>2, <3>3, <3>4
      <4>2. windowErr(a.spec, u)
        BY <3>2, <3>4 DEF ErrorPersists
      <4>3. windowState(a.spec, u) = "none"
        BY <4>2 DEF windowState
      <4> QED
        BY <2>3, <3>2, <4>1, <4>2, <4>3 DEF admissionReason, Fresh
    <3> QED
      BY <3>3, <3>4
  <2>4. CASE r = "active-game"
    <3>1. next = earliestTransition(t, {deadline})
      BY <1>3, <2>4 DEF Scheduled
    <3>2. v = "Fresh"
      BY <1>2, <2>4 DEF Unfresh
    <3>3. next \in Nat /\ \A u \in Nat : u < next => u < deadline
      BY <1>1, <1>4, <3>1, <3>2, EarliestIsFirst
    <3>4. ASSUME NEW u \in Nat, t <= u, u < next PROVE Stable(u)
      <4>1. heartbeatFreshness(a.heartbeatAt, u) = "Fresh"
        BY <1>5, <3>2, <3>3, <3>4
      <4> QED
        BY <2>4, <3>2, <4>1 DEF r, v, admissionReason, Fresh
    <3> QED
      BY <3>3, <3>4
  <2>5. CASE r \in Scheduled \cup {"fresh-idle", "active-interactive"}
    <3>1. next = earliestTransition(t, {deadline} \cup boundary)
      BY <1>3, <2>5 DEF Scheduled
    <3>2. v = "Fresh" /\ holdExpiry(a) <= t
      BY <1>1, <1>2, <2>5 DEF r, v, admissionReason, Unfresh, Scheduled
    <3>3. next \in Nat /\ \A u \in Nat : u < next => u < deadline /\ (wait > 0 => u < t + wait)
      <4>1. /\ next \in Nat
            /\ \A u \in Nat : u < next => \A c \in {deadline} \cup boundary : c > t => u < c
        <5>1. {deadline} \cup boundary \in SUBSET Int
          BY <1>1
        <5> QED
          BY <3>1, <5>1, EarliestIsFirst
      <4>2. deadline > t /\ (wait > 0 => t + wait \in boundary /\ t + wait > t)
        BY <1>1, <1>4, <3>2 DEF boundary
      <4> QED
        BY <4>1, <4>2
    <3>4. ASSUME NEW u \in Nat, t <= u, u < next PROVE Stable(u)
      <4>1. heartbeatFreshness(a.heartbeatAt, u) = "Fresh" /\ ~(holdExpiry(a) > u)
        BY <1>5, <1>6, <3>2, <3>3, <3>4
      <4>2. /\ windowErr(a.spec, u) <=> windowErr(a.spec, t)
            /\ windowState(a.spec, u) = windowState(a.spec, t)
        BY <1>1, <3>3, <3>4, ScheduleStable DEF wait
      <4>3. admissionReason(a, u) = r
        BY <1>1, <2>5, <3>2, <4>1, <4>2 DEF r, v, admissionReason, Scheduled
      <4> QED
        BY <3>2, <4>1, <4>3 DEF Fresh
    <3> QED
      BY <3>3, <3>4
  <2>6. CASE r \in ((Unfresh \cup Refused) \ {"invalid-heartbeat", "invalid-schedule"})
    BY <1>3, <2>6 DEF Unfresh, Refused, Scheduled
  <2> QED
    BY <1>2, <2>1, <2>2, <2>3, <2>4, <2>5, <2>6 DEF Reasons, Live
<1> QED
  BY <1>7 DEF next, r, v, Fresh
=============================================================================
