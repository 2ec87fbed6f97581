----------------------------- MODULE CanaryProofs -----------------------------
(***************************************************************************)
(* Proofs about the canary and the schedules it runs on, for every length  *)
(* of its budgets and number of Pods. First WindowClock: the walk of       *)
(* evaluateWindows over past starts, the next start and the next lead      *)
(* boundary finds exactly the open windows, and the wait it returns ends   *)
(* at the first of their boundaries. Then Canary: a report that is         *)
(* accepted is true of its run, by the invariant CanaryInv; and one of a   *)
(* run without mishaps is rejected only for a phase that was late, by the  *)
(* invariant TimelyInv beside it.                                          *)
(***************************************************************************)
EXTENDS Canary, PolicyProofs, SequenceTheorems

(***************************************************************************)
(* The schedule is one of those, and the clock has started.                *)
(***************************************************************************)
ClockType == spec \in ScheduleType /\ now \in Nat

(***************************************************************************)
(* It stays so.                                                            *)
(***************************************************************************)
LEMMA ClockTyped == Spec => []ClockType
<1>1. Init => ClockType
  BY SpecsAssumption DEF Init, ClockType
<1>2. ClockType /\ [Tick]_<<spec, now>> => ClockType'
  BY DEF ClockType, Tick
<1> QED
  BY <1>1, <1>2, PTL DEF Spec

(***************************************************************************)
(* A schedule that evaluates has only valid windows.                       *)
(***************************************************************************)
LEMMA ValidWindows ==
    ASSUME ClockType, ~windowErr(spec, now)
    PROVE  /\ spec.lead \in Nat
           /\ \A w \in spec.windows :
                 /\ w \in WindowType /\ w.schedule \subseteq Nat
                 /\ w.duration \in Nat /\ w.duration > 0 /\ w.state \in WindowStates
                 /\ ~scanErr(w, spec.lead, now)
<1>1. spec.lead \in Int /\ spec.windows \subseteq WindowType
  BY DEF ClockType, ScheduleType
<1>2. spec.lead \in Nat
  BY <1>1 DEF windowErr, scheduleInvalid
<1>3. ASSUME NEW w \in spec.windows
      PROVE  /\ w \in WindowType /\ w.schedule \subseteq Nat
             /\ w.duration \in Nat /\ w.duration > 0 /\ w.state \in WindowStates
             /\ ~scanErr(w, spec.lead, now)
  <2>1. w \in WindowType /\ ~scanErr(w, spec.lead, now)
    BY <1>1 DEF windowErr
  <2>2. w.schedule \subseteq Nat /\ w.duration \in Int
    BY <2>1 DEF WindowType
  <2>3. ~(w.duration <= 0) /\ w.state \in WindowStates
    BY DEF windowErr, scheduleInvalid
  <2> QED
    BY <2>1, <2>2, <2>3
<1> QED
  BY <1>2, <1>3

(***************************************************************************)
(* What scanWindow finds open is open.                                     *)
(***************************************************************************)
LEMMA ScanFindsOpen ==
    ASSUME ClockType, ~windowErr(spec, now), NEW w \in spec.windows
    PROVE  scanOpen(w, spec.lead, now) <=> OpenAt(w, now)
<1>1. /\ spec.lead \in Nat /\ w \in WindowType /\ w.schedule \subseteq Nat
      /\ w.duration \in Nat /\ w.duration > 0 /\ ~scanErr(w, spec.lead, now)
  BY ValidWindows
<1>2. now \in Nat
  BY DEF ClockType
<1> DEFINE n == nextActivation(w, now)
<1>3. /\ n \in w.schedule /\ n \in Nat /\ n > now
      /\ \A s \in w.schedule : s > now => n <= s
  BY <1>1, <1>2, NextIsFirst DEF scanErr
<1> HIDE DEF n
<1>4. scanOpen(w, spec.lead, now)
        <=> scannedStarts(w, now) # {} \/ (spec.lead > 0 /\ now >= n - spec.lead)
  BY DEF scanOpen, n
<1>5. ASSUME scanOpen(w, spec.lead, now) PROVE OpenAt(w, now)
  <2>1. CASE scannedStarts(w, now) # {}
    <3>1. PICK s \in w.schedule : s > now - w.duration /\ s <= now
      BY <2>1 DEF scannedStarts
    <3>2. s - spec.lead <= now /\ now < s + w.duration
      BY <1>1, <1>2, <3>1
    <3> QED
      BY <3>2 DEF OpenAt
  <2>2. CASE spec.lead > 0 /\ now >= n - spec.lead
    <3>1. n - spec.lead <= now /\ now < n + w.duration
      BY <1>1, <1>2, <1>3, <2>2
    <3> QED
      BY <1>3, <3>1 DEF OpenAt
  <2> QED
    BY <1>4, <1>5, <2>1, <2>2
<1>6. ASSUME OpenAt(w, now) PROVE scanOpen(w, spec.lead, now)
  <2>1. PICK s \in w.schedule : s - spec.lead <= now /\ now < s + w.duration
    BY <1>6 DEF OpenAt
  <2>2. CASE s <= now
    <3>1. s \in scannedStarts(w, now)
      BY <1>1, <1>2, <2>1, <2>2 DEF scannedStarts
    <3> QED
      BY <1>4, <3>1
  <2>3. CASE s > now
    <3>1. spec.lead > 0 /\ now >= n - spec.lead
      BY <1>1, <1>2, <1>3, <2>1, <2>3
    <3> QED
      BY <1>4, <3>1
  <2> QED
    BY <1>1, <1>2, <2>2, <2>3
<1> QED
  BY <1>5, <1>6

(***************************************************************************)
(* Until its first boundary a window stays as it is: open through the end  *)
(* of an occurrence that is running or announced, closed until the lead    *)
(* time of one that is not.                                                *)
(***************************************************************************)
LEMMA OpenUntilBoundary ==
    ASSUME ClockType, ~windowErr(spec, now), NEW w \in spec.windows, NEW t \in Nat,
           now <= t, \A b \in scanBoundaries(w, spec.lead, now) : t < b
    PROVE  OpenAt(w, t) <=> OpenAt(w, now)
<1>1. /\ spec.lead \in Nat /\ w \in WindowType /\ w.schedule \subseteq Nat
      /\ w.duration \in Nat /\ w.duration > 0 /\ ~scanErr(w, spec.lead, now)
  BY ValidWindows
<1>2. now \in Nat
  BY DEF ClockType
<1> DEFINE n == nextActivation(w, now)
           m == nextActivation(w, now + spec.lead)
<1>3. /\ n \in Nat /\ \A s \in w.schedule : s > now => n <= s
      /\ t < n
  BY <1>1, <1>2, NextIsFirst DEF scanErr, scanBoundaries
<1>4. spec.lead > 0 => /\ m \in Nat /\ t < m - spec.lead
                       /\ \A s \in w.schedule : s > now + spec.lead => m <= s
  <2> SUFFICES ASSUME spec.lead > 0
               PROVE  /\ m \in Nat /\ t < m - spec.lead
                      /\ \A s \in w.schedule : s > now + spec.lead => m <= s
    OBVIOUS
  <2>1. HasNext(w, now + spec.lead) /\ now + spec.lead \in Int
    BY <1>1, <1>2 DEF scanErr
  <2>2. t < m - spec.lead
    BY DEF scanBoundaries
  <2> QED
    BY <1>1, <2>1, <2>2, NextIsFirst
<1>5. \A s \in scannedStarts(w, now) : t < s + w.duration
  BY DEF scanBoundaries
<1> HIDE DEF n, m
<1>6. ASSUME OpenAt(w, now) PROVE OpenAt(w, t)
  <2>1. PICK s \in w.schedule : s - spec.lead <= now /\ now < s + w.duration
    BY <1>6 DEF OpenAt
  <2>2. CASE s <= now
    <3>1. s \in scannedStarts(w, now)
      BY <1>1, <1>2, <2>1, <2>2 DEF scannedStarts
    <3>2. s - spec.lead <= t /\ t < s + w.duration
      BY <1>1, <1>2, <1>5, <2>1, <3>1
    <3> QED
      BY <3>2 DEF OpenAt
  <2>3. CASE s > now
    <3>1. s - spec.lead <= t /\ t < s + w.duration
      BY <1>1, <1>2, <1>3, <2>1, <2>3
    <3> QED
      BY <3>1 DEF OpenAt
  <2> QED
    BY <1>1, <1>2, <2>2, <2>3
<1>7. ASSUME OpenAt(w, t) PROVE OpenAt(w, now)
  <2>1. PICK s \in w.schedule : s - spec.lead <= t /\ t < s + w.duration
    BY <1>7 DEF OpenAt
  <2>2. s - spec.lead <= now
    BY <1>1, <1>2, <1>3, <1>4, <2>1
  <2>3. now < s + w.duration
    BY <1>1, <1>2, <2>1
  <2> QED
    BY <2>2, <2>3 DEF OpenAt
<1> QED
  BY <1>6, <1>7

(***************************************************************************)
(* Whatever overlaps, whatever lead times and starts inside an open window *)
(* there are: evaluateWindows reports a state exactly when a window is     *)
(* open, of an open window, game before interactive before idle-allowed.   *)
(***************************************************************************)
THEOREM ClockCalendar == Spec => []OpenMatchesCalendar
<1>1. ClockType => OpenMatchesCalendar
  <2> SUFFICES ASSUME ClockType, ~windowErr(spec, now)
               PROVE  LET open == StatesAt(now) state == windowState(spec, now)
                      IN  /\ (state = "none") = (open = {})
                          /\ state # "none" => state \in open
                          /\ "game" \in open => state = "game"
                          /\ state = "idle-allowed" => open = {"idle-allowed"}
    BY DEF OpenMatchesCalendar
  <2> DEFINE open == StatesAt(now)
  <2>1. {v \in spec.windows : scanOpen(v, spec.lead, now)}
          = {v \in spec.windows : OpenAt(v, now)}
    BY ScanFindsOpen
  <2>2. windowState(spec, now) = preferOpenWindow(open)
    BY <2>1 DEF windowState, openState, StatesAt
  <2>3. open \subseteq {"game", "interactive", "idle-allowed"}
    BY ValidWindows DEF StatesAt, WindowStates
  <2> HIDE DEF open
  <2> DEFINE state == preferOpenWindow(open)
  <2>4. state = "none" <=> open = {}
    BY <2>3 DEF preferOpenWindow
  <2>5. /\ state # "none" => state \in open
        /\ "game" \in open => state = "game"
        /\ state = "idle-allowed" => open = {"idle-allowed"}
    BY <2>3 DEF preferOpenWindow
  <2>6. (state = "none") = (open = {})
    <3> HIDE DEF state
    <3> QED
      BY <2>4, Zenon
  <2> QED
    BY <2>2, <2>5, <2>6 DEF open
<1> QED
  BY <1>1, ClockTyped, PTL

(***************************************************************************)
(* A controller that sleeps for the wait misses no opening and no closing  *)
(* of any window, and it wakes up for a boundary of one.                   *)
(***************************************************************************)
THEOREM ClockSleeps == Spec => []SleepsToBoundary
<1>1. ClockType => SleepsToBoundary
  <2> DEFINE wake == now + windowWait(spec, now)
             IsBoundary(w) == \E s \in w.schedule : wake \in {s - spec.lead, s, s + w.duration}
  <2> SUFFICES ASSUME ClockType, wake > now
               PROVE  /\ \A t \in now..(wake - 1), w \in spec.windows :
                            OpenAt(w, t) = OpenAt(w, now)
                      /\ \E w \in spec.windows : IsBoundary(w)
    BY DEF SleepsToBoundary
  <2>1. now \in Nat /\ spec \in ScheduleType
    BY DEF ClockType
  <2>2. ~windowErr(spec, now) /\ spec.windows # {}
    BY <2>1 DEF windowWait
  <2>3. /\ windowWait(spec, now) \in Nat
        /\ \A w \in spec.windows : \A b \in scanBoundaries(w, spec.lead, now) : wake <= b
    BY <2>1, <2>2, WaitIsFirst
  <2>4. ASSUME NEW w \in spec.windows, NEW b \in scanBoundaries(w, spec.lead, now)
        PROVE  /\ b \in Nat
               /\ \E s \in w.schedule : b \in {s - spec.lead, s, s + w.duration}
    <3>1. /\ spec.lead \in Nat /\ w \in WindowType /\ w.schedule \subseteq Nat
          /\ w.duration \in Nat /\ ~scanErr(w, spec.lead, now)
      BY <2>2, ValidWindows
    <3>2. CASE \E s \in scannedStarts(w, now) : b = s + w.duration
      BY <3>1, <3>2 DEF scannedStarts
    <3>3. CASE b = nextActivation(w, now)
      BY <2>1, <3>1, <3>3, NextIsFirst DEF scanErr
    <3>4. CASE spec.lead > 0 /\ b = nextActivation(w, now + spec.lead) - spec.lead
      <4>1. HasNext(w, now + spec.lead) /\ now + spec.lead \in Int
        BY <2>1, <3>1, <3>4 DEF scanErr
      <4> QED
        BY <2>1, <3>1, <3>4, <4>1, NextIsFirst
    <3> QED
      BY <3>2, <3>3, <3>4 DEF scanBoundaries
  <2>5. wakes(spec, now) \in SUBSET Nat
    BY <2>4 DEF wakes
  <2>6. wakes(spec, now) # {}
    BY <2>2 DEF wakes, scanBoundaries
  <2>7. Least(wakes(spec, now)) \in wakes(spec, now)
    BY <2>5, <2>6, LeastIsLeast
  <2>8. wake = Least(wakes(spec, now))
    BY <2>1, <2>2, <2>5, <2>7 DEF windowWait
  <2>9. \E w \in spec.windows : IsBoundary(w)
    BY <2>4, <2>7, <2>8 DEF wakes
  <2>10. ASSUME NEW t \in now..(wake - 1), NEW w \in spec.windows
         PROVE  OpenAt(w, t) = OpenAt(w, now)
    <3>1. t \in Nat /\ now <= t /\ t < wake
      BY <2>1, <2>3
    <3>2. ASSUME NEW b \in scanBoundaries(w, spec.lead, now) PROVE t < b
      BY <2>1, <2>3, <2>4, <3>1
    <3>3. OpenAt(w, t) <=> OpenAt(w, now)
      BY <2>2, <3>1, <3>2, OpenUntilBoundary
    <3> QED
      BY <3>3, Zenon DEF OpenAt
  <2> QED
    BY <2>9, <2>10
<1> QED
  BY <1>1, ClockTyped, PTL

----------------------------------------------------------------------------
Times == Nat \cup {Never}
Phases == {"none", "running", "terminating", "gone"}
Early == {"begin", "electing", "drifted", "armed"}
Stages == Early \cup {"snapshot", "collect", "reopen", "clearing"} \cup Over
Evictables == {"lossy", "standard", "pdb"}

ClockRecord ==
    [trigger : Times, detection : Times, admission : Times, released : [Workloads -> Times],
     stopped : Times, elected : Times, drift : Times, restored : Times, removed : Times,
     boundary : Times, start : Times, lead : Times]

(***************************************************************************)
(* Every variable holds what its comment says, and each stage belongs to   *)
(* its scenarios.                                                          *)
(***************************************************************************)
CanaryType ==
    /\ scenario \in Range(RequiredScenarios)
    /\ stage \in Stages
    /\ now \in Nat /\ now > 0 /\ now <= MaxTime + Minute
    /\ spec \in ScheduleType
    /\ host \in [state : States, activity : Activities, heartbeatAt : Nat]
    /\ reporting \in BOOLEAN /\ leader \in BOOLEAN /\ pdb \in BOOLEAN
    /\ node \in OwnedFields
    /\ pods \in [Workloads -> [Pods -> Phases]]
    /\ before \in [Workloads -> Pods \cup {0}]
    /\ accepted \in [Workloads -> Times]
    /\ gone \in [Workloads -> Times]
    /\ clock \in ClockRecord
    /\ stage \in {"electing", "drifted"} => scenario = "leader-change"
    /\ stage = "armed" => scenario = "scheduled-lead-time"
    /\ stage = "reopen" => scenario = "return-to-idle"
    /\ stage = "collect" => scenario # "return-to-idle"
    /\ stage = "clearing" => scenario = "pdb-blocked-eviction"

Recovers == scenario # "return-to-idle" /\ stage # "failed"

Triggered == stage \in {"collect", "clearing", "done"}

(***************************************************************************)
(* What the host says: idle until the trigger, then what it triggers.      *)
(***************************************************************************)
HostSays ==
    Recovers =>
        /\ host.heartbeatAt =
              IF Triggered /\ scenario = "reporter-failure" THEN clock.trigger ELSE now
        /\ reporting = ~(Triggered /\ scenario = "reporter-failure")
        /\ <<host.state, host.activity>> =
              IF Triggered /\ scenario \in ToGame THEN <<"active", "game">>
              ELSE IF Triggered /\ scenario \in {"idle-to-interactive", "pdb-blocked-eviction"}
              THEN <<"active", "interactive">>
              ELSE <<"idle", "idle">>

(***************************************************************************)
(* The window that was armed opens at the boundary; no other run has one.  *)
(***************************************************************************)
Armed ==
    Recovers =>
        IF scenario = "scheduled-lead-time" /\ stage # "begin"
        THEN /\ clock.lead \in Nat /\ clock.lead > 0 /\ clock.lead <= 2 * Minute
             /\ clock.start = clock.boundary + clock.lead
             /\ clock.boundary \in Nat
             /\ spec = [lead |-> clock.lead,
                        windows |-> {[parses |-> TRUE, schedule |-> {clock.start, Later},
                                      duration |-> 3 * Minute, state |-> "game"]}]
             /\ stage = "armed" => now < clock.boundary
             /\ stage = "snapshot" => now <= clock.boundary
             /\ Triggered => clock.trigger = clock.boundary
        ELSE spec = NoWindows /\ clock.boundary = Never

(***************************************************************************)
(* The waits of the harness are bounded.                                   *)
(***************************************************************************)
InBudget ==
    Recovers =>
        /\ Triggered => clock.trigger \in Nat /\ clock.trigger > 0
        /\ stage = "collect" => /\ clock.trigger <= now
                                /\ now <= clock.trigger + DefaultBudget.endToEnd
        /\ stage = "clearing" => /\ clock.trigger <= clock.removed /\ clock.removed <= now
                                 /\ now <= clock.removed + DefaultBudget.resourceRelease

(***************************************************************************)
(* Pods of a workload come one after the other.                            *)
(***************************************************************************)
InTurn ==
    \A w \in Workloads, u, v \in Pods :
        v < u /\ pods[w][u] # "none" => pods[w][v] \in {"terminating", "gone"}

NoPDB ==
    scenario # "pdb-blocked-eviction" =>
        before["pdb"] = 0 /\ \A u \in Pods : pods["pdb"][u] = "none"

(***************************************************************************)
(* Nothing is evicted and nothing timed before the workloads are recorded. *)
(***************************************************************************)
Unharmed ==
    /\ stage \in Early =>
          \A w \in Workloads : before[w] = 0 /\ accepted[w] = Never /\ gone[w] = Never
    /\ stage \in Early \cup {"snapshot"} => \A w \in Workloads : clock.released[w] = Never
    /\ Recovers /\ stage \in Early =>
          \A w \in Workloads, u \in Pods : pods[w][u] # "terminating"

Budgeted ==
    Recovers => pdb = (scenario = "pdb-blocked-eviction" /\ stage \notin {"clearing", "done"})

(***************************************************************************)
(* The Pods that were recorded.                                            *)
(***************************************************************************)
Recorded ==
    \A w \in Workloads : before[w] # 0 =>
        /\ pods[w][before[w]] # "none"
        /\ gone[w] # Never <=> pods[w][before[w]] = "gone"
        /\ gone[w] <= now
        /\ Recovers => \A v \in Pods : v < before[w] => pods[w][v] = "gone"

(***************************************************************************)
(* An eviction closes the Node to the workload; its Pod is the last one.   *)
(***************************************************************************)
Shut ==
    /\ ~node.label
    /\ scenario \in ToGame => node.taint = "active"
    /\ scenario = "reporter-failure" => heartbeatFreshness(host.heartbeatAt, now) = "Expired"

EvictionShuts ==
    Recovers => \A w \in Workloads : accepted[w] # Never =>
        /\ w \in Evictables /\ (w = "standard" => scenario \in ToGame)
        /\ before[w] # 0 /\ pods[w][before[w]] \in {"terminating", "gone"}
        /\ \A v \in Pods : v > before[w] => pods[w][v] = "none"
        /\ accepted[w] <= now
        /\ gone[w] # Never => accepted[w] <= gone[w]
        /\ Shut
        /\ stage = "snapshot" =>
              scenario = "scheduled-lead-time" /\ accepted[w] = now /\ now = clock.boundary
        /\ Triggered => accepted[w] >= clock.trigger
        /\ w = "pdb" => stage \in {"clearing", "done"} /\ accepted[w] >= clock.removed

(***************************************************************************)
(* A release is timed at the instant it happened.                          *)
(***************************************************************************)
awaited ==
    CASE stage = "snapshot" -> Workloads
      [] stage = "collect" -> evict(scenario)
      [] stage = "clearing" -> {"pdb"}
      [] OTHER -> {}

TimedAfter ==
    Recovers => \A w \in Workloads : clock.released[w] # Never =>
        before[w] # 0 /\ gone[w] # Never /\ clock.released[w] <= now

TimedExactly ==
    Recovers => \A w \in Workloads : accepted[w] # Never =>
        /\ clock.released[w] # Never => clock.released[w] = gone[w]
        /\ w \in awaited /\ gone[w] # Never /\ clock.released[w] = Never => gone[w] = now

(***************************************************************************)
(* The waits that are over ended well.                                     *)
(***************************************************************************)
Left(w, limit) ==
    /\ accepted[w] # Never /\ clock.released[w] # Never
    /\ clock.released[w] >= accepted[w] + minAcceptanceGap
    /\ clock.released[w] <= Since(w) + limit

AllLeft ==
    Recovers =>
        /\ stage \in {"clearing", "done"} =>
              \A w \in evict(scenario) : Left(w, DefaultBudget.endToEnd)
        /\ stage = "done" /\ scenario = "pdb-blocked-eviction" =>
              Left("pdb", DefaultBudget.resourceRelease)

CanaryInv ==
    /\ CanaryType /\ HostSays /\ Armed /\ InBudget /\ InTurn /\ NoPDB /\ Unharmed /\ Budgeted
    /\ Recorded /\ EvictionShuts /\ TimedAfter /\ TimedExactly /\ AllLeft

----------------------------------------------------------------------------
(***************************************************************************)
(* The decision for a Node with one enrollment is that of the enrollment.  *)
(***************************************************************************)
LEMMA OneItem ==
    ASSUME NEW a, NEW t
    PROVE  LET taint == taintFor(admissionReason(a, t))
           IN  desiredFields(<<a>>, t) = ownedFields(taint, controllerAdmitted(a, t, taint))
<1>1. DOMAIN <<a>> = {1} /\ <<a>>[1] = a
  OBVIOUS
<1> DEFINE r == enrollmentRanks(<<a>>, t)
<1>2. DOMAIN r = {1}
  BY <1>1 DEF enrollmentRanks
<1>3. strongest(r) = 1
  <2> HIDE DEF r
  <2> QED
    BY <1>2 DEF strongest
<1>4. protectionSource(<<a>>, t) = 1
  BY <1>1, <1>3 DEF protectionSource
<1> DEFINE p == protectionForNode(<<a>>, t)
<1>5. p.source = 1 /\ p.src = a /\ p.taint = taintFor(admissionReason(a, t))
  BY <1>1, <1>4 DEF protectionForNode, decidePolicy
<1> HIDE DEF p
<1>6. policyAdmitted(p, t) = controllerAdmitted(a, t, taintFor(admissionReason(a, t)))
  <2>1. p.source # NoSource
    BY <1>5 DEF NoSource
  <2> QED
    BY <1>5, <2>1, Zenon DEF policyAdmitted, controllerAdmitted
<1> QED
  BY <1>5, <1>6 DEF desiredFields, p

(***************************************************************************)
(* The next multiple of b lies above a, and at most b further.             *)
(***************************************************************************)
LEMMA DivMod ==
    ASSUME NEW a \in Nat, NEW b \in Nat, b > 0
    PROVE  a < (a \div b + 1) * b /\ (a \div b + 1) * b <= a + b /\ a \div b \in Nat
OBVIOUS

(***************************************************************************)
(* NextLeadWindow: the boundary is ahead, the lead positive and bounded.   *)
(***************************************************************************)
LEMMA LeadAhead ==
    ASSUME NEW at \in Nat
    PROVE  LET w == NextLeadWindow(at)
           IN  /\ w.lead \in Nat /\ w.lead > 0 /\ w.lead <= 2 * Minute
               /\ w.boundary \in Nat /\ w.boundary > at
               /\ w.start = w.boundary + w.lead
<1>1. Minute \in Nat /\ Minute > 0 /\ Ahead \in Nat /\ Margin \in Nat /\ Margin < Ahead
      /\ Ahead <= Minute /\ 0 < Margin
  BY LeadAssumption
<1> DEFINE next == (at \div Minute + 1) * Minute
<1>2. next \in Nat /\ at < next /\ next <= at + Minute
  BY <1>1, DivMod
<1> HIDE DEF next
<1> DEFINE start == IF next - at < Ahead THEN next + Minute ELSE next
<1>3. start \in Nat /\ start - at >= Ahead /\ start - at <= 2 * Minute
  BY <1>1, <1>2
<1> HIDE DEF start
<1>4. NextLeadWindow(at) = [start |-> start, lead |-> start - at - Margin, boundary |-> at + Margin]
  BY DEF NextLeadWindow, start, next
<1> QED
  BY <1>1, <1>3, <1>4

(***************************************************************************)
(* What the assumptions on the constants say in one place.                 *)
(***************************************************************************)
LEMMA ConstantsType ==
    /\ MaxPods \in Nat /\ Later \in Nat /\ MaxTime \in Nat /\ Minute \in Nat /\ Minute > 0
    /\ \A f \in BudgetFields : DefaultBudget[f] \in Nat
    /\ DefaultBudget.endToEnd \in Nat
    /\ DefaultBudget.resourceRelease = DefaultBudget.endToEnd
    /\ minAcceptanceGap \in Nat /\ minAcceptanceGap <= DefaultBudget.endToEnd
    /\ DefaultBudget.endToEnd <= 3 * Minute /\ Later > MaxTime + 3 * Minute
    /\ maxWindowOccurrences \in Nat /\ maxWindowOccurrences > 0
BY CanaryAssumption, LeadAssumption, BudgetAssumption, SpecsAssumption, OccurrencesAssumption
   DEF BudgetFields

(***************************************************************************)
(* The schedule the harness writes opens its window at the boundary, not   *)
(* before, and for longer than any wait.                                   *)
(***************************************************************************)
LEMMA LeadSchedule ==
    ASSUME NEW lead \in Nat, NEW start \in Nat, lead > 0, lead <= 2 * Minute,
           spec = [lead |-> lead,
                   windows |-> {[parses |-> TRUE, schedule |-> {start, Later},
                                 duration |-> 3 * Minute, state |-> "game"]}],
           now \in Nat, now <= MaxTime + Minute
    PROVE  /\ spec \in ScheduleType
           /\ ~windowErr(spec, now)
           /\ now < start - lead => windowState(spec, now) = "none"
           /\ start - lead <= now /\ now < start + 3 * Minute => windowState(spec, now) = "game"
<1> DEFINE w == [parses |-> TRUE, schedule |-> {start, Later},
                 duration |-> 3 * Minute, state |-> "game"]
<1>1. /\ w.parses /\ w.schedule = {start, Later} /\ w.duration = 3 * Minute /\ w.state = "game"
      /\ spec.lead = lead /\ spec.windows = {w}
  OBVIOUS
<1>2. w \in WindowType
  BY ConstantsType DEF WindowType, WindowStates
<1>3. spec \in ScheduleType
  BY <1>2 DEF ScheduleType
<1> HIDE DEF w
<1>4. ~scheduleInvalid(spec)
  BY <1>1, ConstantsType DEF scheduleInvalid, WindowStates
<1>5. Later > now /\ Later > now + lead
  BY ConstantsType
<1>6. HasNext(w, now) /\ HasNext(w, now + lead)
  BY <1>1, <1>5 DEF HasNext
<1>7. scannedStarts(w, now) \subseteq {start}
  BY <1>1, <1>5, ConstantsType DEF scannedStarts
<1>8. Cardinality(scannedStarts(w, now)) <= maxWindowOccurrences
  <2>1. IsFiniteSet({start}) /\ Cardinality({start}) = 1
    BY FS_Singleton
  <2>2. Cardinality(scannedStarts(w, now)) <= 1 /\ Cardinality(scannedStarts(w, now)) \in Nat
    BY <1>7, <2>1, FS_Subset, FS_CardinalityType
  <2> QED
    BY <2>2, ConstantsType
<1>9. Cardinality(scannedStarts(w, now)) \in Nat
  BY <1>7, FS_Singleton, FS_Subset, FS_CardinalityType
<1>10. ~scanErr(w, lead, now)
  BY <1>6, <1>8, <1>9, ConstantsType DEF scanErr
<1>11. ~windowErr(spec, now)
  BY <1>1, <1>4, <1>10 DEF windowErr
<1>12. ClockType
  BY <1>3 DEF ClockType
<1>13. scanOpen(w, lead, now) <=> OpenAt(w, now)
  BY <1>1, <1>11, <1>12, ScanFindsOpen
<1>14. OpenAt(w, now) <=> start - lead <= now /\ now < start + 3 * Minute
  BY <1>1, <1>5, ConstantsType DEF OpenAt
<1>15. windowState(spec, now) = openState(spec, now)
  BY <1>11 DEF windowState
<1>16. openState(spec, now) = IF OpenAt(w, now) THEN "game" ELSE "none"
  <2>1. {v \in spec.windows : scanOpen(v, spec.lead, now)} = IF OpenAt(w, now) THEN {w} ELSE {}
    BY <1>1, <1>13
  <2> QED
    BY <1>1, <2>1 DEF openState, preferOpenWindow
<1> QED
  BY <1>3, <1>11, <1>14, <1>15, <1>16, ConstantsType

----------------------------------------------------------------------------
(***************************************************************************)
(* The required scenarios as a set.                                        *)
(***************************************************************************)
LEMMA ScenarioNames ==
    Range(RequiredScenarios) =
        {"idle-to-interactive", "return-to-idle", "idle-to-game", "scheduled-lead-time",
         "reporter-failure", "leader-change", "pdb-blocked-eviction"}
<1>1. DOMAIN RequiredScenarios = 1..7
  BY DEF RequiredScenarios
<1> QED
  BY <1>1 DEF RequiredScenarios, Range

(***************************************************************************)
(* A heartbeat of this instant is fresh.                                   *)
(***************************************************************************)
LEMMA FreshNow == now \in Nat /\ now > 0 => heartbeatFreshness(now, now) = "Fresh"
BY PolicyValid DEF heartbeatFreshness, effectiveHeartbeatSkew

(***************************************************************************)
(* The host of the canary asks for no hold.                                *)
(***************************************************************************)
LEMMA NoHold ==
    /\ enrollment.state = host.state /\ enrollment.activity = host.activity
    /\ enrollment.heartbeatAt = host.heartbeatAt /\ enrollment.spec = spec
    /\ now \in Nat => ~(holdExpiry(enrollment) > now)
BY DEF enrollment, holdExpiry

(***************************************************************************)
(* An enrollment without windows is in none.                               *)
(***************************************************************************)
LEMMA NoWindowsNone == windowState(NoWindows, now) = "none" /\ ~windowErr(NoWindows, now)
BY DEF windowState, windowErr, openState, preferOpenWindow, NoWindows, scheduleInvalid

(***************************************************************************)
(* What a pass wants of the Node, and whom it may evict.                   *)
(***************************************************************************)
wanted == desiredFields(<<enrollment>>, now)
mayEvict == evictionClass(enrollment, wanted, wanted.taint, now)

(***************************************************************************)
(* A fresh idle host outside every window opens the Node.                  *)
(***************************************************************************)
LEMMA WantsOpen ==
    ASSUME now \in Nat, now > 0, host.state = "idle", host.activity = "idle",
           Fresh(host.heartbeatAt, now),
           windowState(spec, now) = "none", ~windowErr(spec, now)
    PROVE  /\ admissionReason(enrollment, now) = "fresh-idle"
           /\ wanted = [taint |-> NoTaint, label |-> TRUE, burst |-> FALSE]
           /\ mayEvict = "none"
<1>1. heartbeatFreshness(host.heartbeatAt, now) = "Fresh"
  BY DEF Fresh
<1>2. admissionReason(enrollment, now) = "fresh-idle"
  BY <1>1, NoHold DEF admissionReason
<1>3. taintFor("fresh-idle") = NoTaint
  BY DEF taintFor, Unfresh, Refused
<1>4. controllerAdmitted(enrollment, now, NoTaint)
  BY NoHold DEF controllerAdmitted
<1>5. wanted = [taint |-> NoTaint, label |-> controllerAdmitted(enrollment, now, NoTaint),
                burst |-> BurstConfigured /\ ~controllerAdmitted(enrollment, now, NoTaint)]
  BY <1>2, <1>3, OneItem DEF wanted, ownedFields
<1>6. wanted = [taint |-> NoTaint, label |-> TRUE, burst |-> FALSE]
  <2> DEFINE c == controllerAdmitted(enrollment, now, NoTaint)
             b == BurstConfigured /\ ~c
  <2>1. c = TRUE /\ b = FALSE
    BY <1>4, Zenon DEF controllerAdmitted
  <2>2. wanted = [taint |-> NoTaint, label |-> c, burst |-> b]
    BY <1>5
  <2> HIDE DEF c, b
  <2> QED
    BY <2>1, <2>2
<1>7. StandsDown(enrollment, NoTaint, now)
  BY <1>1, NoHold DEF StandsDown
<1>8. mayEvict = "none"
  BY <1>6, <1>7 DEF mayEvict, evictionClass
<1> QED
  BY <1>2, <1>6, <1>8

(***************************************************************************)
(* A Node that is not admitted carries the taint of its reason and no      *)
(* label.                                                                  *)
(***************************************************************************)
LEMMA WantsClosed ==
    ASSUME NEW taint, taint = taintFor(admissionReason(enrollment, now)),
           ~controllerAdmitted(enrollment, now, taint)
    PROVE  wanted.taint = taint /\ ~wanted.label
<1> DEFINE c == controllerAdmitted(enrollment, now, taint)
           b == BurstConfigured /\ ~c
<1>1. wanted = [taint |-> taint, label |-> c, burst |-> b]
  BY OneItem DEF wanted, ownedFields
<1>2. ~c
  OBVIOUS
<1> HIDE DEF c, b
<1> QED
  BY <1>1, <1>2

(***************************************************************************)
(* Only a host in a game evicts more than the lossy Pods.                  *)
(***************************************************************************)
LEMMA GameNeedsGame ==
    mayEvict = "game" => host.state = "active" /\ host.activity = "game"
BY NoHold DEF mayEvict, evictionClass, GameOn

(***************************************************************************)
(* A game closes the Node and evicts all that may go.                      *)
(***************************************************************************)
LEMMA WantsGame ==
    ASSUME now \in Nat, now > 0, host.state = "active", host.activity = "game",
           host.heartbeatAt = now
    PROVE  /\ admissionReason(enrollment, now) = "active-game"
           /\ wanted.taint = "active" /\ ~wanted.label /\ mayEvict = "game"
<1>1. heartbeatFreshness(host.heartbeatAt, now) = "Fresh"
  BY FreshNow
<1>2. admissionReason(enrollment, now) = "active-game"
  BY <1>1, NoHold DEF admissionReason
<1>3. taintFor("active-game") = "active"
  BY DEF taintFor, Unfresh, Refused
<1>4. ~controllerAdmitted(enrollment, now, "active")
  BY DEF controllerAdmitted, NoTaint
<1>5. wanted.taint = "active" /\ ~wanted.label
  BY <1>2, <1>3, <1>4, WantsClosed
<1>6. mayEvict = "game"
  BY <1>1, <1>5, NoHold DEF mayEvict, evictionClass, GameOn, StandsDown, Fresh
<1> QED
  BY <1>2, <1>5, <1>6

(***************************************************************************)
(* An interactive session closes the Node and evicts the lossy Pods.       *)
(***************************************************************************)
LEMMA WantsInteractive ==
    ASSUME now \in Nat, now > 0, host.state = "active", host.activity = "interactive",
           host.heartbeatAt = now, spec = NoWindows
    PROVE  /\ admissionReason(enrollment, now) = "active-interactive"
           /\ wanted.taint = "interactive" /\ ~wanted.label /\ mayEvict = "lossyOnly"
<1>1. heartbeatFreshness(host.heartbeatAt, now) = "Fresh"
  BY FreshNow
<1>2. admissionReason(enrollment, now) = "active-interactive"
  BY <1>1, NoHold, NoWindowsNone DEF admissionReason
<1>3. taintFor("active-interactive") = "interactive"
  BY DEF taintFor, Unfresh, Refused
<1>4. ~controllerAdmitted(enrollment, now, "interactive")
  BY DEF controllerAdmitted, NoTaint
<1>5. wanted.taint = "interactive" /\ ~wanted.label
  BY <1>2, <1>3, <1>4, WantsClosed
<1>6. mayEvict = "lossyOnly"
  BY <1>1, <1>5, NoHold
     DEF mayEvict, evictionClass, GameOn, StandsDown, Fresh, HostGone, Fenced, NoTaint
<1> QED
  BY <1>2, <1>5, <1>6

(***************************************************************************)
(* A game window closes the Node of an idle host.                          *)
(***************************************************************************)
LEMMA WantsWindow ==
    ASSUME now \in Nat, now > 0, host.state = "idle", host.activity = "idle",
           host.heartbeatAt = now, windowState(spec, now) = "game"
    PROVE  /\ admissionReason(enrollment, now) = "scheduled-game"
           /\ wanted.taint = "active" /\ ~wanted.label
<1>1. heartbeatFreshness(host.heartbeatAt, now) = "Fresh"
  BY FreshNow
<1>2. admissionReason(enrollment, now) = "scheduled-game"
  BY <1>1, NoHold DEF admissionReason
<1>3. taintFor("scheduled-game") = "active"
  BY DEF taintFor, Unfresh, Refused
<1>4. ~controllerAdmitted(enrollment, now, "active")
  BY DEF controllerAdmitted, NoTaint
<1> QED
  BY <1>2, <1>3, <1>4, WantsClosed

(***************************************************************************)
(* An expired heartbeat closes the Node.                                   *)
(***************************************************************************)
LEMMA WantsFailClosed ==
    ASSUME heartbeatFreshness(host.heartbeatAt, now) = "Expired"
    PROVE  /\ admissionReason(enrollment, now) = "stale-heartbeat"
           /\ wanted.taint = failClosed /\ ~wanted.label
<1>1. admissionReason(enrollment, now) = "stale-heartbeat"
  BY NoHold DEF admissionReason
<1>2. taintFor("stale-heartbeat") = failClosed
  BY DEF taintFor, Unfresh, Refused
<1>3. ~controllerAdmitted(enrollment, now, failClosed)
  BY NoHold DEF controllerAdmitted, Fresh
<1> QED
  BY <1>1, <1>2, <1>3, WantsClosed

(***************************************************************************)
(* A pass of a scenario that recovers evicts only once the trigger is      *)
(* known, and from then on closes the Node.                                *)
(***************************************************************************)
Closing ==
    /\ \/ Triggered
       \/ stage = "snapshot" /\ scenario = "scheduled-lead-time" /\ now = clock.boundary
    /\ scenario = "reporter-failure" => heartbeatFreshness(host.heartbeatAt, now) = "Expired"

(***************************************************************************)
(* A pass of the controller that may evict is one that closes the Node.    *)
(***************************************************************************)
LEMMA PassCloses ==
    ASSUME CanaryType, HostSays, Armed, InBudget, Recovers, stage \notin Over
    PROVE  /\ mayEvict # "none" => Closing
           /\ mayEvict = "game" => scenario \in ToGame
           /\ Closing => ~wanted.label /\ (scenario \in ToGame => wanted.taint = "active")
<1>1. /\ now \in Nat /\ now > 0 /\ scenario \in Range(RequiredScenarios) /\ stage \in Stages
      /\ stage # "done" /\ stage # "failed" /\ stage # "reopen"
      /\ stage \in {"electing", "drifted"} => scenario = "leader-change"
      /\ stage = "armed" => scenario = "scheduled-lead-time"
  BY DEF CanaryType, Over, Recovers
<1>2. mayEvict = "game" => scenario \in ToGame
  BY GameNeedsGame DEF HostSays
<1>3. CASE Triggered /\ scenario \in ToGame
  <2>1. ~wanted.label /\ wanted.taint = "active"
    BY <1>1, <1>3, WantsGame DEF HostSays, ToGame
  <2> QED
    BY <1>2, <1>3, <2>1 DEF Closing, ToGame
<1>4. CASE Triggered /\ scenario \in {"idle-to-interactive", "pdb-blocked-eviction"}
  <2>1. spec = NoWindows
    BY <1>4 DEF Armed
  <2>2. ~wanted.label
    BY <1>1, <1>4, <2>1, WantsInteractive DEF HostSays, ToGame
  <2> QED
    BY <1>2, <1>4, <2>2 DEF Closing, ToGame
<1>5. CASE Triggered /\ scenario = "reporter-failure"
  <2>1. /\ spec = NoWindows /\ host.state = "idle" /\ host.activity = "idle"
        /\ host.heartbeatAt = clock.trigger
        /\ clock.trigger \in Nat /\ clock.trigger > 0 /\ clock.trigger <= now
    BY <1>1, <1>5 DEF Armed, HostSays, ToGame, InBudget, Triggered, CanaryType
  <2>2. heartbeatFreshness(host.heartbeatAt, now) \in {"Fresh", "Expired"}
    BY <1>1, <2>1, PolicyValid DEF heartbeatFreshness, effectiveHeartbeatSkew
  <2>3. CASE heartbeatFreshness(host.heartbeatAt, now) = "Fresh"
    <3>1. mayEvict = "none"
      BY <1>1, <2>1, <2>3, WantsOpen, NoWindowsNone DEF Fresh
    <3> QED
      BY <1>2, <1>5, <2>3, <3>1 DEF Closing
  <2>4. CASE heartbeatFreshness(host.heartbeatAt, now) = "Expired"
    BY <1>2, <1>5, <2>4, WantsFailClosed DEF Closing, ToGame
  <2> QED
    BY <2>2, <2>3, <2>4
<1>6. CASE scenario = "scheduled-lead-time" /\ stage # "begin"
  <2>1. /\ clock.lead \in Nat /\ clock.lead > 0 /\ clock.lead <= 2 * Minute
        /\ clock.start = clock.boundary + clock.lead /\ clock.boundary \in Nat
        /\ spec = [lead |-> clock.lead,
                   windows |-> {[parses |-> TRUE, schedule |-> {clock.start, Later},
                                 duration |-> 3 * Minute, state |-> "game"]}]
        /\ now <= MaxTime + Minute
    BY <1>6 DEF Armed, CanaryType
  <2>2. clock.start \in Nat /\ clock.start - clock.lead = clock.boundary
    BY <2>1
  <2>3. /\ ~windowErr(spec, now)
        /\ now < clock.boundary => windowState(spec, now) = "none"
        /\ clock.boundary <= now /\ now < clock.start + 3 * Minute =>
              windowState(spec, now) = "game"
    BY <1>1, <2>1, <2>2, LeadSchedule
  <2>4. host.state = "idle" /\ host.activity = "idle" /\ host.heartbeatAt = now
    BY <1>6 DEF HostSays, ToGame
  <2>5. CASE now < clock.boundary
    <3>0. Triggered => stage = "collect"
      BY <1>1, <1>6 DEF Triggered, CanaryType
    <3>1. ~Closing
      <4>1. Triggered => clock.trigger = clock.boundary /\ clock.trigger <= now
        BY <1>6, <3>0 DEF Armed, InBudget
      <4> QED
        BY <1>1, <2>1, <2>5, <4>1 DEF Closing
    <3>2. mayEvict = "none"
      BY <1>1, <2>3, <2>4, <2>5, WantsOpen, FreshNow DEF Fresh
    <3> QED
      BY <3>1, <3>2
  <2>6. CASE ~(now < clock.boundary)
    <3>1. now < clock.start + 3 * Minute
      <4>1. CASE stage = "collect"
        BY <1>1, <1>6, <2>1, <4>1, ConstantsType DEF InBudget, Armed, Triggered
      <4>2. CASE stage # "collect"
        BY <1>1, <1>6, <2>1, <4>2, ConstantsType
           DEF Armed, CanaryType, Stages, Early, Over
      <4> QED
        BY <4>1, <4>2
    <3>2. windowState(spec, now) = "game"
      BY <1>1, <2>1, <2>3, <2>6, <3>1
    <3>3. ~wanted.label /\ wanted.taint = "active"
      BY <1>1, <2>4, <3>2, WantsWindow
    <3>4. Closing \/ stage = "armed"
      <4>1. stage \in {"armed", "snapshot", "collect"}
        BY <1>1, <1>6 DEF Stages, Early, Over, CanaryType
      <4>2. stage = "snapshot" => now = clock.boundary
        BY <1>1, <1>6, <2>1, <2>6 DEF Armed
      <4> QED
        BY <1>6, <4>1, <4>2 DEF Closing, Triggered
    <3>5. stage = "armed" => now < clock.boundary
      BY <1>1, <1>6 DEF Armed
    <3> QED
      BY <1>2, <2>6, <3>3, <3>4, <3>5
  <2> QED
    BY <2>5, <2>6
<1>7. CASE ~Triggered /\ (scenario = "scheduled-lead-time" => stage = "begin")
  <2>1. host.state = "idle" /\ host.activity = "idle" /\ host.heartbeatAt = now /\ spec = NoWindows
    BY <1>7 DEF HostSays, Armed
  <2>2. mayEvict = "none"
    BY <1>1, <2>1, WantsOpen, NoWindowsNone, FreshNow DEF Fresh
  <2> QED
    BY <1>7, <2>2 DEF Closing
<1>8. /\ Range(RequiredScenarios) = {"idle-to-interactive", "return-to-idle", "idle-to-game",
            "scheduled-lead-time", "reporter-failure", "leader-change", "pdb-blocked-eviction"}
  BY ScenarioNames
<1> QED
  BY <1>1, <1>3, <1>4, <1>5, <1>6, <1>7, <1>8 DEF ToGame, Recovers, Triggered

----------------------------------------------------------------------------
(***************************************************************************)
(* At most one Pod of a workload runs, and runningPod is its UID.          *)
(***************************************************************************)
LEMMA RunningIs ==
    ASSUME CanaryType, InTurn, NEW w \in Workloads
    PROVE  /\ runningPod(w) \in Pods \cup {0}
           /\ runningPod(w) # 0 => pods[w][runningPod(w)] = "running"
           /\ \A u \in Pods : pods[w][u] = "running" => u = runningPod(w)
<1>1. MaxPods \in Nat
  BY ConstantsType
<1>2. CASE runningPods(w) = {}
  BY <1>2 DEF runningPod, runningPods
<1>3. CASE runningPods(w) # {}
  <2>1. runningPods(w) \in SUBSET Nat
    BY <1>1 DEF runningPods, Pods
  <2>2. Least(runningPods(w)) \in runningPods(w)
    BY <1>3, <2>1, LeastIsLeast
  <2>3. runningPod(w) \in Pods /\ pods[w][runningPod(w)] = "running"
    BY <1>3, <2>2 DEF runningPod, runningPods
  <2>4. ASSUME NEW u \in Pods, pods[w][u] = "running" PROVE u = runningPod(w)
    <3>1. ~(u < runningPod(w)) /\ ~(runningPod(w) < u)
      BY <2>3, <2>4 DEF InTurn
    <3> QED
      BY <1>1, <2>3, <3>1 DEF Pods
  <2> QED
    BY <2>3, <2>4
<1> QED
  BY <1>2, <1>3

(***************************************************************************)
(* first keeps a time it has, and takes now when it sees the event.        *)
(***************************************************************************)
LEMMA FirstType ==
    ASSUME NEW time \in Times, now \in Nat, NEW seen
    PROVE  /\ first(time, seen) \in Times
           /\ time # Never => first(time, seen) = time
           /\ time = Never /\ seen => first(time, seen) = now
           /\ time = Never /\ ~seen => first(time, seen) = Never
BY DEF first, Times

(***************************************************************************)
(* The types of the times.                                                 *)
(***************************************************************************)
LEMMA ClockFields ==
    ASSUME NEW c \in ClockRecord
    PROVE  /\ c.trigger \in Times /\ c.detection \in Times /\ c.admission \in Times
           /\ c.released \in [Workloads -> Times] /\ c.stopped \in Times /\ c.elected \in Times
           /\ c.drift \in Times /\ c.restored \in Times /\ c.removed \in Times
           /\ c.boundary \in Times /\ c.start \in Times /\ c.lead \in Times
BY DEF ClockRecord

(***************************************************************************)
(* A poll times what it sees for the first time, and nothing else.         *)
(***************************************************************************)
PolledFrom(c, d) ==
    /\ d \in ClockRecord
    /\ d.trigger = c.trigger /\ d.stopped = c.stopped /\ d.elected = c.elected
    /\ d.drift = c.drift /\ d.removed = c.removed /\ d.boundary = c.boundary
    /\ d.start = c.start /\ d.lead = c.lead

(***************************************************************************)
(* A poll that times detection and admission leaves the rest.              *)
(***************************************************************************)
LEMMA PollWindow ==
    ASSUME clock \in ClockRecord, NEW dt \in Times, NEW am \in Times
    PROVE  LET d == [clock EXCEPT !.detection = dt, !.admission = am]
           IN  PolledFrom(clock, d) /\ d.detection = dt /\ d.admission = am
               /\ d.released = clock.released /\ d.restored = clock.restored
<1> DEFINE d1 == [clock EXCEPT !.detection = dt]
<1>1. d1 \in ClockRecord /\ PolledFrom(clock, d1) /\ d1.detection = dt
      /\ d1.admission = clock.admission /\ d1.released = clock.released
      /\ d1.restored = clock.restored
  BY DEF ClockRecord, PolledFrom
<1> DEFINE d2 == [d1 EXCEPT !.admission = am]
<1>2. d2 = [clock EXCEPT !.detection = dt, !.admission = am]
  BY Zenon
<1> HIDE DEF d1
<1>3. d2 \in ClockRecord /\ PolledFrom(clock, d2) /\ d2.detection = dt
      /\ d2.admission = am /\ d2.released = clock.released /\ d2.restored = clock.restored
  BY <1>1 DEF ClockRecord, PolledFrom
<1> HIDE DEF d2
<1> QED
  BY <1>2, <1>3

(***************************************************************************)
(* A poll that times releases leaves the rest.                             *)
(***************************************************************************)
LEMMA PollReleased ==
    ASSUME clock \in ClockRecord, NEW rl \in [Workloads -> Times]
    PROVE  LET d == [clock EXCEPT !.released = rl]
           IN  PolledFrom(clock, d) /\ d.released = rl /\ d.restored = clock.restored
               /\ d.detection = clock.detection /\ d.admission = clock.admission
BY DEF ClockRecord, PolledFrom

(***************************************************************************)
(* A poll that times the repair leaves the rest.                           *)
(***************************************************************************)
LEMMA PollRestored ==
    ASSUME clock \in ClockRecord, NEW rs \in Times
    PROVE  LET d == [clock EXCEPT !.restored = rs]
           IN  PolledFrom(clock, d) /\ d.restored = rs /\ d.released = clock.released
               /\ d.detection = clock.detection /\ d.admission = clock.admission
BY DEF ClockRecord, PolledFrom

(***************************************************************************)
(* A poll times the releases the stage waits for, and no other.            *)
(***************************************************************************)
LEMMA PollTimes ==
    ASSUME CanaryType
    PROVE  /\ PolledFrom(clock, polled)
           /\ stage \notin {"collect", "clearing"} => polled.released = clock.released
           /\ \A w \in Workloads :
                 /\ polled.released[w] \in Times
                 /\ \/ polled.released[w] = clock.released[w]
                    \/ /\ clock.released[w] = Never /\ polled.released[w] = now
                       /\ released(w) /\ w \in awaited
                 /\ stage \in {"collect", "clearing"} /\ w \in awaited /\ released(w) =>
                       polled.released[w] # Never
<1>1. now \in Nat /\ clock \in ClockRecord
  BY DEF CanaryType
<1>2. /\ clock.detection \in Times /\ clock.admission \in Times /\ clock.restored \in Times
      /\ clock.released \in [Workloads -> Times]
  BY <1>1, ClockFields
<1>3. CASE stage = "collect"
  <2> DEFINE dt == first(clock.detection, conditionMatches(gate(scenario)))
             am == first(clock.admission, nodeMatches(gate(scenario)))
             rl == [w \in Workloads |->
                      first(clock.released[w], w \in evict(scenario) /\ released(w))]
  <2>1. dt \in Times /\ am \in Times /\ rl \in [Workloads -> Times]
    BY <1>1, <1>2, FirstType
  <2>2. polled = [clock EXCEPT !.detection = dt, !.admission = am, !.released = rl]
    BY <1>3, Zenon DEF polled
  <2>3. PolledFrom(clock, polled) /\ polled.released = rl
    <3> HIDE DEF dt, am, rl
    <3> DEFINE d == [clock EXCEPT !.detection = dt, !.admission = am]
    <3>1. PolledFrom(clock, d)
      BY <1>1, <2>1, PollWindow
    <3>2. polled = [d EXCEPT !.released = rl]
      BY <2>2, Zenon
    <3> HIDE DEF d
    <3> QED
      BY <2>1, <3>1, <3>2 DEF PolledFrom, ClockRecord
  <2>4. \A w \in Workloads : rl[w] = first(clock.released[w], w \in evict(scenario) /\ released(w))
    BY Zenon
  <2>5. awaited = evict(scenario)
    BY <1>3 DEF awaited
  <2> HIDE DEF dt, am, rl
  <2>6. ASSUME NEW w \in Workloads
        PROVE  /\ polled.released[w] \in Times
               /\ \/ polled.released[w] = clock.released[w]
                  \/ /\ clock.released[w] = Never /\ polled.released[w] = now
                     /\ released(w) /\ w \in awaited
               /\ w \in awaited /\ released(w) => polled.released[w] # Never
    <3> DEFINE seen == w \in evict(scenario) /\ released(w)
    <3>1. rl[w] = first(clock.released[w], seen) /\ clock.released[w] \in Times
      BY <1>2, <2>4
    <3>2. /\ rl[w] \in Times
          /\ clock.released[w] # Never => rl[w] = clock.released[w]
          /\ clock.released[w] = Never /\ seen => rl[w] = now
          /\ clock.released[w] = Never /\ ~seen => rl[w] = Never
      <4> HIDE DEF seen
      <4> QED
        BY <1>1, <3>1, FirstType
    <3> QED
      BY <1>1, <2>3, <2>5, <3>2 DEF Never
  <2> QED
    BY <1>3, <2>3, <2>6
<1>4. CASE stage = "reopen"
  <2> DEFINE dt == first(clock.detection, conditionMatches(IdleGate) /\ nodeMatches(IdleGate))
             am == first(clock.admission, dt # Never /\ admits("probe"))
  <2>1. dt \in Times /\ am \in Times
    BY <1>1, <1>2, FirstType
  <2>2. polled = [clock EXCEPT !.detection = dt, !.admission = am]
    BY <1>4, Zenon DEF polled
  <2> HIDE DEF dt, am
  <2> QED
    BY <1>1, <1>2, <1>4, <2>1, <2>2, PollWindow
<1>5. CASE stage = "drifted"
  <2> DEFINE rs == first(clock.restored, conditionMatches(IdleGate) /\ nodeMatches(IdleGate))
  <2>1. rs \in Times
    BY <1>1, <1>2, FirstType
  <2>2. polled = [clock EXCEPT !.restored = rs]
    BY <1>5, Zenon DEF polled
  <2> HIDE DEF rs
  <2> QED
    BY <1>1, <1>2, <1>5, <2>1, <2>2, PollRestored
<1>6. CASE stage = "clearing"
  <2> DEFINE x == first(clock.released["pdb"], released("pdb"))
             rl == [clock.released EXCEPT !["pdb"] = x]
  <2>1. "pdb" \in Workloads
    BY DEF Workloads
  <2>2. x \in Times
    BY <1>1, <1>2, <2>1, FirstType
  <2>3. polled = [clock EXCEPT !.released = rl]
    BY <1>6, Zenon DEF polled
  <2>4. /\ \/ x = clock.released["pdb"]
           \/ clock.released["pdb"] = Never /\ x = now /\ released("pdb")
        /\ released("pdb") => x # Never
    BY <1>1, <1>2, <2>1, FirstType DEF Times, Never
  <2> HIDE DEF x
  <2>5. rl \in [Workloads -> Times]
    BY <1>2, <2>2
  <2>6. \A w \in Workloads : rl[w] = IF w = "pdb" THEN x ELSE clock.released[w]
    BY <1>2
  <2>7. awaited = {"pdb"}
    BY <1>6 DEF awaited
  <2> HIDE DEF rl
  <2>8. PolledFrom(clock, polled) /\ polled.released = rl
    BY <1>1, <2>3, <2>5, PollReleased
  <2> QED
    BY <1>6, <2>4, <2>5, <2>6, <2>7, <2>8
<1>7. CASE stage \notin {"collect", "reopen", "drifted", "clearing"}
  <2>1. polled = clock
    BY <1>7 DEF polled
  <2> QED
    BY <1>1, <1>2, <1>7, <2>1 DEF PolledFrom
<1> QED
  BY <1>3, <1>4, <1>5, <1>6, <1>7

----------------------------------------------------------------------------
(***************************************************************************)
(* What the controller wants of the Node are owned fields.                 *)
(***************************************************************************)
LEMMA WantedType == wanted \in OwnedFields
<1> DEFINE taint == taintFor(admissionReason(enrollment, now))
           c == controllerAdmitted(enrollment, now, taint)
           b == BurstConfigured /\ ~c
<1>1. wanted = [taint |-> taint, label |-> c, burst |-> b]
  BY OneItem DEF wanted, ownedFields
<1>2. taint \in Taints
  BY DEF taintFor, failClosed, Taints, NoSchedule, PreferNoSchedule
<1>3. c \in BOOLEAN /\ b \in BOOLEAN
  BY PolicyFlags, Zenon DEF controllerAdmitted
<1> HIDE DEF taint, c, b
<1> QED
  BY <1>1, <1>2, <1>3 DEF OwnedFields

(***************************************************************************)
(* Steps that touch neither host nor harness keep what is known of them.   *)
(***************************************************************************)
LEMMA FrameHarness ==
    ASSUME HostSays, Armed, InBudget, Budgeted,
           UNCHANGED <<scenario, spec, now, stage, clock, host, reporting, pdb>>
    PROVE  HostSays' /\ Armed' /\ InBudget' /\ Budgeted'
BY DEF HostSays, Armed, InBudget, Budgeted, Recovers, Triggered

(***************************************************************************)
(* A step of one Pod changes that Pod, and gone when it was recorded.      *)
(***************************************************************************)
LEMMA PodStepShape ==
    ASSUME CanaryType, NEW w \in Workloads, NEW u \in Pods, NEW from, NEW to \in Phases,
           PodStep(w, u, from, to)
    PROVE  /\ pods' \in [Workloads -> [Pods -> Phases]] /\ gone' \in [Workloads -> Times]
           /\ pods[w][u] = from /\ pods'[w][u] = to
           /\ \A x \in Workloads, v \in Pods : x # w \/ v # u => pods'[x][v] = pods[x][v]
           /\ \A x \in Workloads : gone'[x] =
                 IF to = "gone" /\ x = w /\ u = before[w] THEN now ELSE gone[x]
           /\ stage \notin Over
           /\ UNCHANGED <<scenario, spec, now, stage, before, clock, blocked, host, reporting,
                          leader, node, condition, pdb, accepted>>
<1>1. pods \in [Workloads -> [Pods -> Phases]] /\ gone \in [Workloads -> Times] /\ now \in Nat
  BY DEF CanaryType
<1> DEFINE row == [pods[w] EXCEPT ![u] = to]
<1>2. pods' = [pods EXCEPT ![w] = row]
  BY Zenon DEF PodStep
<1>3. row \in [Pods -> Phases] /\ row[u] = to /\ \A v \in Pods : v # u => row[v] = pods[w][v]
  BY <1>1
<1> HIDE DEF row
<1>4. pods' \in [Workloads -> [Pods -> Phases]] /\ pods'[w] = row
      /\ \A x \in Workloads : x # w => pods'[x] = pods[x]
  BY <1>1, <1>2, <1>3
<1>5. gone' = IF to = "gone" /\ u = before[w] THEN [gone EXCEPT ![w] = now] ELSE gone
  BY DEF PodStep
<1>6. gone' \in [Workloads -> Times]
  BY <1>1, <1>5 DEF Times
<1>7. \A x \in Workloads : gone'[x] =
          IF to = "gone" /\ x = w /\ u = before[w] THEN now ELSE gone[x]
  BY <1>1, <1>5
<1> QED
  BY <1>3, <1>4, <1>6, <1>7 DEF PodStep, harness

(***************************************************************************)
(* The kubelet, a dying Pod and a replacement keep the invariant: an       *)
(* admitted Pod never comes up behind an eviction.                         *)
(***************************************************************************)
LEMMA PodStepKeeps ==
    ASSUME CanaryInv, NEW w \in Workloads, NEW u \in Pods,
           \/ PodStep(w, u, "terminating", "gone")
           \/ PodStep(w, u, "running", "gone")
           \/ u > 1 /\ pods[w][u - 1] \in {"terminating", "gone"} /\ admits(w)
              /\ PodStep(w, u, "none", "running")
    PROVE  CanaryInv'
<1>1. PICK from \in Phases, to \in Phases :
          /\ PodStep(w, u, from, to)
          /\ \/ from = "terminating" /\ to = "gone"
             \/ from = "running" /\ to = "gone"
             \/ /\ from = "none" /\ to = "running"
                /\ u > 1 /\ pods[w][u - 1] \in {"terminating", "gone"} /\ admits(w)
  BY DEF Phases
<1>2. CanaryType
  BY DEF CanaryInv
<1>3. /\ pods' \in [Workloads -> [Pods -> Phases]] /\ gone' \in [Workloads -> Times]
      /\ pods[w][u] = from /\ pods'[w][u] = to
      /\ \A x \in Workloads, v \in Pods : x # w \/ v # u => pods'[x][v] = pods[x][v]
      /\ \A x \in Workloads : gone'[x] =
            IF to = "gone" /\ x = w /\ u = before[w] THEN now ELSE gone[x]
      /\ stage \notin Over
      /\ UNCHANGED <<scenario, spec, now, stage, before, clock, blocked, host, reporting,
                     leader, node, condition, pdb, accepted>>
  BY <1>1, <1>2, PodStepShape
<1>4. /\ now \in Nat /\ MaxPods \in Nat /\ pods \in [Workloads -> [Pods -> Phases]]
      /\ gone \in [Workloads -> Times] /\ accepted \in [Workloads -> Times]
      /\ before \in [Workloads -> Pods \cup {0}] /\ now # Never
  BY <1>2, ConstantsType DEF CanaryType, Never
<1>5. CanaryType'
  BY <1>2, <1>3 DEF CanaryType
<1>6. HostSays' /\ Armed' /\ InBudget' /\ Budgeted'
  BY <1>3, FrameHarness DEF CanaryInv
<1>7. InTurn'
  <2> SUFFICES ASSUME NEW x \in Workloads, NEW a \in Pods, NEW b \in Pods, b < a,
                      pods'[x][a] # "none"
               PROVE  pods'[x][b] \in {"terminating", "gone"}
    BY <1>3 DEF InTurn
  <2>1. InTurn
    BY DEF CanaryInv
  <2>2. CASE x = w /\ a = u /\ from = "none"
    <3>1. u - 1 \in Pods
      BY <1>1, <1>4, <2>2 DEF Pods
    <3>2. b = u - 1 \/ b < u - 1
      BY <1>4, <2>2 DEF Pods
    <3>3. pods[w][u - 1] # "none"
      BY <1>1, <2>2
    <3>4. pods[w][b] \in {"terminating", "gone"}
      BY <1>1, <2>1, <2>2, <3>1, <3>2, <3>3 DEF InTurn
    <3> QED
      BY <1>3, <1>4, <2>2, <3>4 DEF Pods
  <2>3. CASE ~(x = w /\ a = u /\ from = "none")
    <3>1. pods[x][a] # "none"
      BY <1>1, <1>3, <2>3
    <3>2. pods[x][b] \in {"terminating", "gone"}
      BY <2>1, <3>1 DEF InTurn
    <3> QED
      BY <1>1, <1>3, <3>2
  <2> QED
    BY <2>2, <2>3
<1>8. NoPDB'
  <2>1. NoPDB
    BY DEF CanaryInv
  <2>2. scenario # "pdb-blocked-eviction" => w # "pdb"
    <3>1. CASE from # "none"
      BY <1>3, <2>1, <3>1 DEF NoPDB
    <3>2. CASE from = "none"
      <4>1. u - 1 \in Pods /\ pods[w][u - 1] # "none"
        BY <1>1, <1>4, <3>2 DEF Pods
      <4> QED
        BY <2>1, <4>1 DEF NoPDB
    <3> QED
      BY <3>1, <3>2
  <2> QED
    BY <1>3, <2>1, <2>2 DEF NoPDB, Workloads
<1>9. Unharmed'
  <2>1. Unharmed
    BY DEF CanaryInv
  <2>2. stage \in Early => \A x \in Workloads : gone'[x] = Never
    <3> SUFFICES ASSUME stage \in Early, NEW x \in Workloads PROVE gone'[x] = Never
      OBVIOUS
    <3>1. before[w] = 0 /\ gone[x] = Never /\ u # 0
      BY <1>4, <2>1 DEF Unharmed, Pods
    <3> QED
      BY <1>3, <3>1
  <2>3. to # "terminating"
    BY <1>1
  <2> QED
    BY <1>3, <2>1, <2>2, <2>3 DEF Unharmed, Recovers
<1>10. Recorded'
  <2> SUFFICES ASSUME NEW x \in Workloads, before[x] # 0
               PROVE  /\ pods'[x][before[x]] # "none"
                      /\ gone'[x] # Never <=> pods'[x][before[x]] = "gone"
                      /\ gone'[x] <= now
                      /\ Recovers => \A v \in Pods : v < before[x] => pods'[x][v] = "gone"
    BY <1>3 DEF Recorded, Recovers
  <2>1. /\ pods[x][before[x]] # "none" /\ before[x] \in Pods
        /\ gone[x] # Never <=> pods[x][before[x]] = "gone"
        /\ gone[x] <= now
        /\ Recovers => \A v \in Pods : v < before[x] => pods[x][v] = "gone"
    BY <1>4 DEF CanaryInv, Recorded
  <2>2. /\ pods'[x][before[x]] # "none"
        /\ gone'[x] # Never <=> pods'[x][before[x]] = "gone"
    <3>1. CASE x = w /\ u = before[w]
      BY <1>1, <1>3, <1>4, <2>1, <3>1
    <3>2. CASE ~(x = w /\ u = before[w])
      BY <1>3, <2>1, <3>2
    <3> QED
      BY <3>1, <3>2
  <2>3. gone'[x] <= now
    BY <1>3, <1>4, <2>1
  <2>4. Recovers => \A v \in Pods : v < before[x] => pods'[x][v] = "gone"
    BY <1>1, <1>3, <2>1
  <2> QED
    BY <2>2, <2>3, <2>4
<1>11. EvictionShuts'
  <2> SUFFICES ASSUME Recovers, NEW x \in Workloads, accepted[x] # Never
               PROVE  /\ x \in Evictables /\ (x = "standard" => scenario \in ToGame)
                      /\ before[x] # 0 /\ pods'[x][before[x]] \in {"terminating", "gone"}
                      /\ \A v \in Pods : v > before[x] => pods'[x][v] = "none"
                      /\ accepted[x] <= now
                      /\ gone'[x] # Never => accepted[x] <= gone'[x]
                      /\ Shut
                      /\ stage = "snapshot" =>
                            /\ scenario = "scheduled-lead-time"
                            /\ accepted[x] = now /\ now = clock.boundary
                      /\ Triggered => accepted[x] >= clock.trigger
                      /\ x = "pdb" => stage \in {"clearing", "done"} /\ accepted[x] >= clock.removed
    BY <1>3 DEF EvictionShuts, Recovers, Shut, Triggered
  <2>1. /\ x \in Evictables /\ (x = "standard" => scenario \in ToGame)
        /\ before[x] # 0 /\ pods[x][before[x]] \in {"terminating", "gone"}
        /\ \A v \in Pods : v > before[x] => pods[x][v] = "none"
        /\ accepted[x] <= now
        /\ gone[x] # Never => accepted[x] <= gone[x]
        /\ Shut
        /\ stage = "snapshot" =>
              scenario = "scheduled-lead-time" /\ accepted[x] = now /\ now = clock.boundary
        /\ Triggered => accepted[x] >= clock.trigger
        /\ x = "pdb" => stage \in {"clearing", "done"} /\ accepted[x] >= clock.removed
    BY DEF CanaryInv, EvictionShuts
  <2>2. before[x] \in Pods
    BY <1>4, <2>1
  <2>3. ~admits(x)
    BY <2>1 DEF admits, Shut, Evictables, NoSchedule, Catalog, profile
  <2>4. CASE x = w
    <3>1. from # "none"
      BY <1>1, <2>3, <2>4
    <3>2. ~(u > before[x])
      BY <1>3, <2>1, <2>4, <3>1
    <3> QED
      BY <1>1, <1>3, <1>4, <2>1, <2>2, <2>4, <3>1, <3>2
  <2>5. CASE x # w
    BY <1>3, <2>1, <2>2, <2>5
  <2> QED
    BY <2>4, <2>5
<1>12. TimedAfter'
  BY <1>3, <1>4 DEF CanaryInv, TimedAfter, Recovers
<1>13. TimedExactly'
  <2> SUFFICES ASSUME Recovers, NEW x \in Workloads, accepted[x] # Never
               PROVE  /\ clock.released[x] # Never => clock.released[x] = gone'[x]
                      /\ x \in awaited /\ gone'[x] # Never /\ clock.released[x] = Never =>
                            gone'[x] = now
    BY <1>3 DEF TimedExactly, Recovers, awaited
  <2>1. /\ clock.released[x] # Never => clock.released[x] = gone[x]
        /\ x \in awaited /\ gone[x] # Never /\ clock.released[x] = Never => gone[x] = now
    BY DEF CanaryInv, TimedExactly
  <2>2. clock.released[x] # Never => before[x] # 0 /\ gone[x] # Never
    BY DEF CanaryInv, TimedAfter
  <2>3. clock.released[x] # Never => pods[x][before[x]] = "gone"
    BY <2>2 DEF CanaryInv, Recorded
  <2>4. from # "gone"
    BY <1>1
  <2> QED
    BY <1>3, <2>1, <2>2, <2>3, <2>4
<1>14. AllLeft'
  BY <1>3 DEF CanaryInv, AllLeft, Recovers, Left, Since
<1> QED
  BY <1>5, <1>6, <1>7, <1>8, <1>9, <1>10, <1>11, <1>12, <1>13, <1>14 DEF CanaryInv

----------------------------------------------------------------------------
(***************************************************************************)
(* A pass evicts running Pods that opted in, the standard one for a game.  *)
(***************************************************************************)
LEMMA EvictableOnly ==
    ASSUME NEW class, NEW w \in Evictable(class)
    PROVE  /\ w \in Evictables /\ runningPod(w) # 0 /\ class # "none"
           /\ w = "standard" => class = "game"
           /\ w = "pdb" => ~pdb
BY DEF Evictable, Evictables, Workloads, Catalog, profile

(***************************************************************************)
(* A pass of the controller, Pod by Pod.                                   *)
(***************************************************************************)
LEMMA ReconcileShape ==
    ASSUME CanaryType, InTurn, Reconcile
    PROVE  \E T \in SUBSET Evictable(mayEvict) :
              /\ pods' \in [Workloads -> [Pods -> Phases]]
              /\ accepted' \in [Workloads -> Times]
              /\ \A x \in Workloads, u \in Pods :
                    pods'[x][u] = IF x \in T /\ pods[x][u] = "running" THEN "terminating"
                                  ELSE pods[x][u]
              /\ \A x \in Workloads :
                    accepted'[x] = IF x \in T /\ runningPod(x) = before[x] THEN now
                                   ELSE accepted[x]
              /\ node' = wanted /\ stage \notin Over
              /\ condition' = admissionReason(enrollment, now)
              /\ UNCHANGED <<scenario, spec, now, stage, before, clock, blocked, host, reporting,
                             leader, pdb, gone, mishaps>>
<1>1. node' = wanted
  BY DEF Reconcile, wanted
<1>2. PICK T \in SUBSET Evictable(mayEvict) : Evict(T)
  BY <1>1 DEF Reconcile, mayEvict
<1>3. /\ now \in Nat /\ pods \in [Workloads -> [Pods -> Phases]]
      /\ accepted \in [Workloads -> Times]
  BY DEF CanaryType
<1>4. pods' \in [Workloads -> [Pods -> Phases]]
  BY <1>2, <1>3 DEF Evict, Phases
<1>5. accepted' \in [Workloads -> Times]
  BY <1>2, <1>3 DEF Evict, Times
<1>6. ASSUME NEW x \in Workloads, NEW u \in Pods
      PROVE  pods'[x][u] = IF x \in T /\ pods[x][u] = "running" THEN "terminating"
                           ELSE pods[x][u]
  <2>1. pods'[x][u] = IF x \in T /\ u = runningPod(x) THEN "terminating" ELSE pods[x][u]
    BY <1>2 DEF Evict
  <2>2. x \in T => runningPod(x) # 0
    BY EvictableOnly
  <2>3. x \in T => (u = runningPod(x) <=> pods[x][u] = "running")
    BY <2>2, RunningIs
  <2> QED
    BY <2>1, <2>3
<1>7. \A x \in Workloads :
         accepted'[x] = IF x \in T /\ runningPod(x) = before[x] THEN now ELSE accepted[x]
  BY <1>2 DEF Evict
<1> QED
  BY <1>1, <1>2, <1>4, <1>5, <1>6, <1>7 DEF Reconcile, harness

(***************************************************************************)
(* A pass of the controller keeps the invariant.                           *)
(***************************************************************************)
LEMMA ReconcileKeeps ==
    ASSUME CanaryInv, Reconcile
    PROVE  CanaryInv'
<1>1. CanaryType /\ InTurn /\ HostSays /\ Armed /\ InBudget
  BY DEF CanaryInv
<1>2. PICK T \in SUBSET Evictable(mayEvict) :
          /\ pods' \in [Workloads -> [Pods -> Phases]]
          /\ accepted' \in [Workloads -> Times]
          /\ \A x \in Workloads, u \in Pods :
                pods'[x][u] = IF x \in T /\ pods[x][u] = "running" THEN "terminating"
                              ELSE pods[x][u]
          /\ \A x \in Workloads :
                accepted'[x] = IF x \in T /\ runningPod(x) = before[x] THEN now
                               ELSE accepted[x]
          /\ node' = wanted /\ stage \notin Over
          /\ UNCHANGED <<scenario, spec, now, stage, before, clock, blocked, host, reporting,
                         leader, pdb, gone>>
  BY <1>1, ReconcileShape
<1>3. /\ now \in Nat /\ MaxPods \in Nat /\ pods \in [Workloads -> [Pods -> Phases]]
      /\ gone \in [Workloads -> Times] /\ accepted \in [Workloads -> Times]
      /\ before \in [Workloads -> Pods \cup {0}] /\ now # Never
  BY <1>1, ConstantsType DEF CanaryType, Never
<1>4. CanaryType'
  BY <1>1, <1>2, WantedType DEF CanaryType
<1>5. HostSays' /\ Armed' /\ InBudget' /\ Budgeted'
  BY <1>2, FrameHarness DEF CanaryInv
<1>6. \A x \in Workloads, u \in Pods : (pods'[x][u] = "none") <=> (pods[x][u] = "none")
  BY <1>2
<1>7. InTurn'
  <2> SUFFICES ASSUME NEW x \in Workloads, NEW a \in Pods, NEW b \in Pods, b < a,
                      pods'[x][a] # "none"
               PROVE  pods'[x][b] \in {"terminating", "gone"}
    BY DEF InTurn
  <2>1. pods[x][b] \in {"terminating", "gone"}
    BY <1>1, <1>6 DEF InTurn
  <2> QED
    BY <1>2, <2>1
<1>8. NoPDB'
  BY <1>2, <1>6 DEF CanaryInv, NoPDB, Workloads
<1>9. \A x \in T : /\ x \in Evictables /\ runningPod(x) # 0 /\ mayEvict # "none"
                   /\ x = "standard" => mayEvict = "game"
                   /\ x = "pdb" => ~pdb
  BY <1>2, EvictableOnly
<1>10. Recovers => /\ T # {} => Closing
                   /\ mayEvict = "game" => scenario \in ToGame
                   /\ Closing => ~wanted.label /\ (scenario \in ToGame => wanted.taint = "active")
  <2>1. Recovers => /\ mayEvict # "none" => Closing
                    /\ mayEvict = "game" => scenario \in ToGame
                    /\ Closing => ~wanted.label /\ (scenario \in ToGame => wanted.taint = "active")
    BY <1>1, <1>2, PassCloses
  <2> QED
    BY <1>9, <2>1
<1>11. Evictables \subseteq Workloads
  BY DEF Evictables, Workloads
<1>12. Unharmed'
  <2>1. Unharmed
    BY DEF CanaryInv
  <2>2. stage \in Early => \A x \in Workloads : accepted'[x] = Never
    BY <1>2, <1>9, <2>1 DEF Unharmed
  <2>3. Recovers /\ stage \in Early => T = {}
    BY <1>10 DEF Closing, Triggered, Early
  <2> QED
    BY <1>2, <2>1, <2>2, <2>3 DEF Unharmed, Recovers
<1>13. Recorded'
  <2> SUFFICES ASSUME NEW x \in Workloads, before[x] # 0
               PROVE  /\ pods'[x][before[x]] # "none"
                      /\ gone[x] # Never <=> pods'[x][before[x]] = "gone"
                      /\ gone[x] <= now
                      /\ Recovers => \A v \in Pods : v < before[x] => pods'[x][v] = "gone"
    BY <1>2 DEF Recorded, Recovers
  <2>1. /\ pods[x][before[x]] # "none" /\ before[x] \in Pods
        /\ gone[x] # Never <=> pods[x][before[x]] = "gone"
        /\ gone[x] <= now
        /\ Recovers => \A v \in Pods : v < before[x] => pods[x][v] = "gone"
    BY <1>3 DEF CanaryInv, Recorded
  <2> QED
    BY <1>2, <2>1
(***************************************************************************)
(* A workload with an accepted eviction has no Pod left to evict; one that *)
(* is evicted now is closed out by this pass.                              *)
(***************************************************************************)
<1>14. ASSUME Recovers, NEW x \in Workloads, accepted[x] # Never
       PROVE  x \notin T /\ accepted'[x] = accepted[x] /\ Closing
  <2>1. /\ before[x] # 0 /\ pods[x][before[x]] \in {"terminating", "gone"}
        /\ \A v \in Pods : v > before[x] => pods[x][v] = "none"
        /\ Shut
        /\ stage = "snapshot" => scenario = "scheduled-lead-time" /\ now = clock.boundary
    BY <1>14 DEF CanaryInv, EvictionShuts
  <2>2. \A v \in Pods : v < before[x] => pods[x][v] = "gone"
    BY <1>14, <2>1 DEF CanaryInv, Recorded
  <2>3. \A v \in Pods : pods[x][v] # "running"
    <3>1. \A v \in Pods : v < before[x] \/ v = before[x] \/ v > before[x]
      BY <1>3 DEF Pods
    <3> QED
      BY <2>1, <2>2, <3>1
  <2>4. runningPod(x) = 0
    BY <1>1, <2>3, RunningIs
  <2>5. stage \notin Early
    BY <1>14 DEF CanaryInv, Unharmed
  <2>6. Closing
    BY <1>1, <1>2, <1>14, <2>1, <2>5
       DEF Closing, Shut, Triggered, CanaryType, Stages, Over, Recovers
  <2> QED
    BY <1>2, <1>9, <2>4, <2>6
<1>15. ASSUME Recovers, NEW x \in Workloads, accepted[x] = Never, accepted'[x] # Never
       PROVE  /\ x \in T /\ runningPod(x) = before[x] /\ accepted'[x] = now
              /\ before[x] # 0 /\ before[x] \in Pods
              /\ pods[x][before[x]] = "running" /\ pods'[x][before[x]] = "terminating"
              /\ gone[x] = Never
  <2>1. x \in T /\ runningPod(x) = before[x] /\ accepted'[x] = now
    BY <1>2, <1>15
  <2>2. before[x] # 0 /\ before[x] \in Pods
    BY <1>3, <1>9, <2>1
  <2>3. pods[x][before[x]] = "running"
    BY <1>1, <2>1, <2>2, RunningIs
  <2>4. gone[x] = Never
    BY <2>2, <2>3 DEF CanaryInv, Recorded
  <2> QED
    BY <1>2, <2>1, <2>2, <2>3, <2>4
<1>16. EvictionShuts'
  <2> SUFFICES ASSUME Recovers, NEW x \in Workloads, accepted'[x] # Never
               PROVE  /\ x \in Evictables /\ (x = "standard" => scenario \in ToGame)
                      /\ before[x] # 0 /\ pods'[x][before[x]] \in {"terminating", "gone"}
                      /\ \A v \in Pods : v > before[x] => pods'[x][v] = "none"
                      /\ accepted'[x] <= now
                      /\ gone[x] # Never => accepted'[x] <= gone[x]
                      /\ Shut'
                      /\ stage = "snapshot" =>
                            /\ scenario = "scheduled-lead-time"
                            /\ accepted'[x] = now /\ now = clock.boundary
                      /\ Triggered => accepted'[x] >= clock.trigger
                      /\ x = "pdb" =>
                            stage \in {"clearing", "done"} /\ accepted'[x] >= clock.removed
    BY <1>2 DEF EvictionShuts, Recovers, Triggered
  <2>1. Closing
    BY <1>10, <1>14, <1>15
  <2>2. Shut'
    BY <1>2, <1>10, <2>1 DEF Shut, Closing
  <2>3. CASE accepted[x] # Never
    <3>1. /\ x \in Evictables /\ (x = "standard" => scenario \in ToGame)
          /\ before[x] # 0 /\ pods[x][before[x]] \in {"terminating", "gone"}
          /\ \A v \in Pods : v > before[x] => pods[x][v] = "none"
          /\ accepted[x] <= now
          /\ gone[x] # Never => accepted[x] <= gone[x]
          /\ stage = "snapshot" =>
                scenario = "scheduled-lead-time" /\ accepted[x] = now /\ now = clock.boundary
          /\ Triggered => accepted[x] >= clock.trigger
          /\ x = "pdb" => stage \in {"clearing", "done"} /\ accepted[x] >= clock.removed
      BY <2>3 DEF CanaryInv, EvictionShuts
    <3>2. before[x] \in Pods
      BY <1>3, <3>1
    <3> QED
      BY <1>2, <1>14, <2>2, <2>3, <3>1, <3>2
  <2>4. CASE accepted[x] = Never
    <3>1. /\ x \in T /\ accepted'[x] = now /\ before[x] # 0 /\ before[x] \in Pods
          /\ pods[x][before[x]] = "running" /\ pods'[x][before[x]] = "terminating"
          /\ gone[x] = Never
      BY <1>15, <2>4
    <3>2. x \in Evictables /\ (x = "standard" => scenario \in ToGame)
      BY <1>9, <1>10, <3>1
    <3>3. \A v \in Pods : v > before[x] => pods'[x][v] = "none"
      BY <1>1, <1>6, <3>1 DEF InTurn
    <3>4. x = "pdb" => stage = "clearing"
      <4>1. x = "pdb" => ~pdb /\ scenario = "pdb-blocked-eviction"
        BY <1>9, <3>1 DEF CanaryInv, NoPDB
      <4>2. (scenario = "pdb-blocked-eviction" /\ stage \notin {"clearing", "done"}) => pdb
        BY DEF CanaryInv, Budgeted
      <4> QED
        BY <1>2, <4>1, <4>2 DEF Over
    <3>5. /\ Triggered => clock.trigger <= now
          /\ stage = "clearing" => clock.removed <= now
      <4>1. /\ stage = "collect" => clock.trigger <= now
            /\ stage = "clearing" => clock.trigger <= clock.removed /\ clock.removed <= now
        BY DEF CanaryInv, InBudget
      <4>2. clock.trigger \in Int /\ clock.removed \in Int
        BY <1>1, ClockFields DEF CanaryType, Times, Never
      <4> QED
        BY <1>2, <1>3, <4>1, <4>2 DEF Triggered, Over
    <3>6. clock.trigger \in Int /\ clock.removed \in Int
      BY <1>1, ClockFields DEF CanaryType, Times, Never
    <3>7. stage = "snapshot" => scenario = "scheduled-lead-time" /\ now = clock.boundary
      BY <2>1 DEF Closing, Triggered
    <3> QED
      BY <1>3, <2>2, <3>1, <3>2, <3>3, <3>4, <3>5, <3>6, <3>7
  <2> QED
    BY <2>3, <2>4
<1>17. TimedAfter'
  BY <1>2 DEF CanaryInv, TimedAfter, Recovers
<1>18. TimedExactly'
  <2> SUFFICES ASSUME Recovers, NEW x \in Workloads, accepted'[x] # Never
               PROVE  /\ clock.released[x] # Never => clock.released[x] = gone[x]
                      /\ x \in awaited /\ gone[x] # Never /\ clock.released[x] = Never =>
                            gone[x] = now
    BY <1>2 DEF TimedExactly, Recovers, awaited
  <2>1. CASE accepted[x] # Never
    BY <2>1 DEF CanaryInv, TimedExactly
  <2>2. CASE accepted[x] = Never
    <3>1. gone[x] = Never
      BY <1>15, <2>2
    <3>2. clock.released[x] = Never
      BY <3>1 DEF CanaryInv, TimedAfter
    <3> QED
      BY <3>1, <3>2
  <2> QED
    BY <2>1, <2>2
<1>19. AllLeft'
  <2>1. AllLeft
    BY DEF CanaryInv
  <2>2. \A limit : \A w \in Workloads : Recovers /\ Left(w, limit) => Left(w, limit)'
    BY <1>2, <1>14 DEF Left, Since
  <2>3. evict(scenario) \subseteq Workloads
    BY DEF evict, Workloads
  <2> QED
    BY <1>2, <2>1, <2>2, <2>3 DEF AllLeft, Recovers, Over
<1> QED
  BY <1>4, <1>5, <1>7, <1>8, <1>12, <1>13, <1>16, <1>17, <1>18, <1>19 DEF CanaryInv

----------------------------------------------------------------------------
(***************************************************************************)
(* A scenario starts in the invariant.                                     *)
(***************************************************************************)
LEMMA InitKeeps == CanaryInit => CanaryInv
<1> SUFFICES ASSUME CanaryInit PROVE CanaryInv
  OBVIOUS
<1>1. /\ MaxPods \in Nat /\ MaxPods > 0 /\ MaxTime \in Nat /\ Minute \in Nat /\ Minute > 0
  BY ConstantsType, CanaryAssumption
<1>2. /\ now \in Nat /\ now > 0 /\ now <= MaxTime + Minute
      /\ scenario \in Range(RequiredScenarios) /\ stage = "begin" /\ spec = NoWindows
  BY <1>1 DEF CanaryInit
<1>3. clock \in ClockRecord /\ clock.released = [w \in Workloads |-> Never]
      /\ clock.boundary = Never
  <2>1. clock = NotTimed
    BY DEF CanaryInit
  <2>2. Never \in Times /\ [w \in Workloads |-> Never] \in [Workloads -> Times]
    BY DEF Times
  <2> QED
    BY <2>1, <2>2 DEF NotTimed, ClockRecord
<1>4. pods \in [Workloads -> [Pods -> Phases]]
      /\ \A w \in Workloads, u \in Pods :
            /\ u > 1 => pods[w][u] = "none"
            /\ pods[w][u] # "terminating"
            /\ w = "pdb" /\ scenario # "pdb-blocked-eviction" => pods[w][u] = "none"
  <2>1. pods = [w \in Workloads |-> podsAtStart(w)]
    BY DEF CanaryInit
  <2>2. ASSUME NEW w \in Workloads PROVE podsAtStart(w) \in [Pods -> Phases]
    BY DEF podsAtStart, Phases
  <2>3. ASSUME NEW w \in Workloads, NEW u \in Pods
        PROVE  /\ u > 1 => podsAtStart(w)[u] = "none"
               /\ podsAtStart(w)[u] # "terminating"
               /\ w = "pdb" /\ scenario # "pdb-blocked-eviction" => podsAtStart(w)[u] = "none"
    BY <1>1 DEF podsAtStart, Pods
  <2> QED
    BY <2>1, <2>2, <2>3
<1>5. spec \in ScheduleType
  BY <1>2 DEF ScheduleType, NoWindows
<1>6. node \in OwnedFields
  BY WantedType DEF CanaryInit, wanted
<1>7. CanaryType
  <2>1. host \in [state : States, activity : Activities, heartbeatAt : Nat]
    BY <1>2 DEF CanaryInit, States, Activities
  <2>2. Never \in Times /\ 0 \in Pods \cup {0}
    BY DEF Times
  <2>3. /\ before \in [Workloads -> Pods \cup {0}] /\ accepted \in [Workloads -> Times]
        /\ gone \in [Workloads -> Times]
    BY <2>2 DEF CanaryInit
  <2>4. reporting \in BOOLEAN /\ leader \in BOOLEAN /\ pdb \in BOOLEAN
    <3>1. reporting = TRUE /\ leader = TRUE /\ pdb = (scenario = "pdb-blocked-eviction")
      BY Zenon DEF CanaryInit
    <3> QED
      BY <3>1, Zenon
  <2> QED
    BY <1>2, <1>3, <1>4, <1>5, <1>6, <2>1, <2>3, <2>4 DEF CanaryType, Stages, Early
<1>8. HostSays
  BY <1>2 DEF CanaryInit, HostSays, Triggered, Recovers
<1>9. Armed /\ InBudget
  BY <1>2, <1>3 DEF Armed, InBudget, Triggered
<1>10. InTurn /\ NoPDB
  <2>1. InTurn
    BY <1>1, <1>4 DEF InTurn, Pods
  <2>2. NoPDB
    BY <1>4 DEF CanaryInit, NoPDB, Workloads
  <2> QED
    BY <2>1, <2>2
<1>11. Unharmed /\ Recorded
  BY <1>3, <1>4 DEF CanaryInit, Unharmed, Recorded
<1>12. Budgeted
  <2>1. pdb <=> scenario = "pdb-blocked-eviction"
    BY Zenon DEF CanaryInit
  <2> QED
    BY <1>2, <2>1 DEF Budgeted
<1>13. EvictionShuts /\ TimedAfter /\ TimedExactly /\ AllLeft
  BY <1>2, <1>3 DEF CanaryInit, EvictionShuts, TimedAfter, TimedExactly, AllLeft
<1> QED
  BY <1>7, <1>8, <1>9, <1>10, <1>11, <1>12, <1>13 DEF CanaryInv

(***************************************************************************)
(* The new leader keeps the invariant.                                     *)
(***************************************************************************)
LEMMA ElectKeeps ==
    ASSUME CanaryInv, Elect
    PROVE  CanaryInv'
BY DEF Elect, CanaryInv, CanaryType, HostSays, Armed, InBudget, InTurn, NoPDB, Unharmed, Budgeted,
       Recorded, EvictionShuts, TimedAfter, TimedExactly, AllLeft, Recovers, Triggered, Shut,
       awaited, Left, Since, harness

(***************************************************************************)
(* A run that fails promises nothing more.                                 *)
(***************************************************************************)
LEMMA FailKeeps ==
    ASSUME CanaryInv, Fail
    PROVE  CanaryInv'
<1>1. /\ stage' = "failed"
      /\ UNCHANGED <<scenario, spec, now, before, clock, blocked, cluster>>
  BY DEF Fail, goTo
<1>2. ~Recovers' /\ stage' \in Stages /\ stage' \notin Early \cup {"snapshot"}
  BY <1>1 DEF Recovers, Stages, Over, Early
<1>3. CanaryType' /\ InTurn' /\ NoPDB' /\ Unharmed' /\ Recorded'
  BY <1>1, <1>2 DEF CanaryInv, CanaryType, InTurn, NoPDB, Unharmed, Recorded, cluster
<1>4. /\ HostSays' /\ Armed' /\ InBudget' /\ Budgeted' /\ EvictionShuts' /\ TimedAfter'
      /\ TimedExactly' /\ AllLeft'
  BY <1>2 DEF HostSays, Armed, InBudget, Budgeted, EvictionShuts, TimedAfter, TimedExactly, AllLeft
<1> QED
  BY <1>3, <1>4 DEF CanaryInv

(***************************************************************************)
(* The early steps of the harness move on to another early stage and       *)
(* change, beside the clock and the schedule, at most a Node that nothing  *)
(* has been evicted from.                                                  *)
(***************************************************************************)
LEMMA EarlyKeeps ==
    ASSUME CanaryInv, stage \in Early, stage' \in Early, scenario' = scenario,
           now' = now, CanaryType', clock'.released = clock.released,
           UNCHANGED <<before, host, reporting, pods, pdb, accepted, gone>>,
           Armed'
    PROVE  CanaryInv'
<1>1. HostSays' /\ InBudget' /\ Budgeted' /\ AllLeft'
  BY DEF CanaryInv, HostSays, InBudget, Budgeted, AllLeft, Recovers, Triggered, Early
<1>2. InTurn' /\ NoPDB' /\ Unharmed' /\ Recorded'
  BY DEF CanaryInv, InTurn, NoPDB, Unharmed, Recorded, Recovers, Early
<1>3. EvictionShuts' /\ TimedAfter' /\ TimedExactly'
  BY DEF CanaryInv, Unharmed, EvictionShuts, TimedAfter, TimedExactly
<1> QED
  BY <1>1, <1>2, <1>3 DEF CanaryInv

(***************************************************************************)
(* Stopping the leader keeps the invariant.                                *)
(***************************************************************************)
LEMMA CancelKeeps ==
    ASSUME CanaryInv, Cancel
    PROVE  CanaryInv'
<1>1. /\ scenario = "leader-change" /\ stage = "begin" /\ stage' = "electing" /\ leader' = FALSE
      /\ clock' = [clock EXCEPT !.stopped = now]
      /\ UNCHANGED <<scenario, spec, now, before, host, reporting, node, pods, pdb, accepted, gone>>
  BY DEF Cancel, goTo
<1>2. CanaryType
  BY DEF CanaryInv
<1>3. clock' \in ClockRecord /\ clock'.released = clock.released /\ clock'.boundary = clock.boundary
  BY <1>1, <1>2 DEF CanaryType, ClockRecord, Times
<1>4. CanaryType'
  BY <1>1, <1>2, <1>3 DEF CanaryType, Stages, Early
<1>5. Armed'
  BY <1>1, <1>3 DEF CanaryInv, Armed, Recovers
<1> QED
  BY <1>1, <1>3, <1>4, <1>5, EarlyKeeps DEF Early

(***************************************************************************)
(* Disturbing the Node keeps the invariant: no Pod is recorded yet.        *)
(***************************************************************************)
LEMMA DriftKeeps ==
    ASSUME CanaryInv, Drift
    PROVE  CanaryInv'
<1>1. /\ stage = "electing" /\ stage' = "drifted"
      /\ node' = [[node EXCEPT !.taint = "interactive"] EXCEPT !.label = FALSE]
      /\ clock' = [[clock EXCEPT !.elected = now] EXCEPT !.drift = now]
      /\ UNCHANGED <<scenario, spec, now, before, host, reporting, leader, pods, pdb, accepted,
                     gone>>
  BY Zenon DEF Drift, goTo
<1>2. CanaryType
  BY DEF CanaryInv
<1> DEFINE c == [clock EXCEPT !.elected = now]
           n == [node EXCEPT !.taint = "interactive"]
<1>3. c \in ClockRecord /\ c.released = clock.released /\ c.boundary = clock.boundary
  BY <1>2 DEF CanaryType, ClockRecord, Times
<1>4. n \in OwnedFields
  BY <1>2 DEF CanaryType, OwnedFields, Taints, PreferNoSchedule
<1>5. clock' = [c EXCEPT !.drift = now] /\ node' = [n EXCEPT !.label = FALSE]
  BY <1>1, Zenon
<1> HIDE DEF c, n
<1>6. clock' \in ClockRecord /\ clock'.released = clock.released /\ clock'.boundary = clock.boundary
  BY <1>2, <1>3, <1>5 DEF CanaryType, ClockRecord, Times
<1>7. node' \in OwnedFields
  BY <1>4, <1>5 DEF OwnedFields
<1>8. CanaryType'
  BY <1>1, <1>2, <1>6, <1>7 DEF CanaryType, Stages, Early
<1>9. Armed'
  BY <1>1, <1>2, <1>6 DEF CanaryInv, Armed, Recovers, CanaryType
<1> QED
  BY <1>1, <1>6, <1>8, <1>9, EarlyKeeps DEF Early

(***************************************************************************)
(* Writing the lead window keeps the invariant.                            *)
(***************************************************************************)
LEMMA ArmKeeps ==
    ASSUME CanaryInv, Arm
    PROVE  CanaryInv'
<1> DEFINE w == NextLeadWindow(now)
           c1 == [clock EXCEPT !.boundary = w.boundary]
           c2 == [c1 EXCEPT !.start = w.start]
<1>1. /\ scenario = "scheduled-lead-time" /\ stage = "begin" /\ stage' = "armed"
      /\ clock' = [c2 EXCEPT !.lead = w.lead]
      /\ spec' = [lead |-> w.lead,
                  windows |-> {[parses |-> TRUE, schedule |-> {w.start, Later},
                                duration |-> 3 * Minute, state |-> "game"]}]
      /\ UNCHANGED <<scenario, now, before, host, reporting, leader, node, pods, pdb, accepted,
                     gone>>
  BY Zenon DEF Arm, goTo, cluster
<1>2. CanaryType
  BY DEF CanaryInv
<1>3. /\ w.lead \in Nat /\ w.lead > 0 /\ w.lead <= 2 * Minute
      /\ w.boundary \in Nat /\ w.boundary > now
      /\ w.start = w.boundary + w.lead
  BY <1>2, LeadAhead DEF CanaryType
<1> HIDE DEF w
<1>4. w.lead \in Times /\ w.boundary \in Times /\ w.start \in Times /\ w.start \in Nat
  BY <1>3 DEF Times
<1>5. c1 \in ClockRecord /\ c1.released = clock.released /\ c1.boundary = w.boundary
  BY <1>2, <1>4 DEF CanaryType, ClockRecord
<1> HIDE DEF c1
<1>6. c2 \in ClockRecord /\ c2.released = clock.released /\ c2.boundary = w.boundary
      /\ c2.start = w.start
  BY <1>4, <1>5 DEF ClockRecord
<1> HIDE DEF c2
<1>7. clock' \in ClockRecord /\ clock'.released = clock.released /\ clock'.boundary = w.boundary
      /\ clock'.start = w.start /\ clock'.lead = w.lead
  BY <1>1, <1>4, <1>6 DEF ClockRecord
<1>8. spec' \in ScheduleType
  <2> DEFINE win == [parses |-> TRUE, schedule |-> {w.start, Later},
                     duration |-> 3 * Minute, state |-> "game"]
  <2>1. win \in WindowType
    BY <1>4, ConstantsType DEF WindowType, WindowStates
  <2> QED
    BY <1>1, <1>3, <2>1 DEF ScheduleType
<1>9. CanaryType'
  BY <1>1, <1>2, <1>7, <1>8 DEF CanaryType, Stages, Early
<1>10. Armed'
  BY <1>1, <1>3, <1>7 DEF Armed, Recovers, Triggered
<1> QED
  BY <1>1, <1>7, <1>9, <1>10, EarlyKeeps DEF Early

----------------------------------------------------------------------------
(***************************************************************************)
(* Recording the workloads keeps the invariant: none of them is on its way *)
(* out.                                                                    *)
(***************************************************************************)
LEMMA SnapshotKeeps ==
    ASSUME CanaryInv, Snapshot
    PROVE  CanaryInv'
<1>1. /\ ready(polled) /\ stage' = "snapshot" /\ clock' = polled
      /\ before' = [w \in Workloads |-> runningPod(w)]
      /\ UNCHANGED <<scenario, spec, now, host, reporting, leader, node, pods, pdb, accepted, gone>>
  BY DEF Snapshot, goTo, cluster
<1>2. CanaryType /\ InTurn /\ Unharmed
  BY DEF CanaryInv
<1>3. stage \in Early /\ stage # "failed"
      /\ (scenario = "scheduled-lead-time" => stage = "armed")
  BY <1>1 DEF ready, Early
<1>4. PolledFrom(clock, polled) /\ polled.released = clock.released
  BY <1>2, <1>3, PollTimes DEF Early
<1>5. \A w \in Workloads : before'[w] = runningPod(w) /\ before'[w] \in Pods \cup {0}
  BY <1>1, <1>2, RunningIs
<1>6. CanaryType'
  <2>1. before' \in [Workloads -> Pods \cup {0}]
    BY <1>1, <1>5
  <2> QED
    BY <1>1, <1>2, <1>3, <1>4, <2>1 DEF CanaryType, Stages, PolledFrom
<1>7. HostSays' /\ Armed' /\ InBudget' /\ Budgeted' /\ AllLeft'
  <2>1. HostSays' /\ InBudget' /\ Budgeted' /\ AllLeft'
    BY <1>1, <1>3 DEF CanaryInv, HostSays, InBudget, Budgeted, AllLeft, Recovers, Triggered, Early
  <2>2. Armed'
    <3>1. now \in Nat /\ clock.boundary \in Times
      BY <1>2, ClockFields DEF CanaryType
    <3> QED
      BY <1>1, <1>3, <1>4, <3>1 DEF CanaryInv, Armed, Recovers, Triggered, Early, PolledFrom
  <2> QED
    BY <2>1, <2>2
<1>8. InTurn' /\ NoPDB'
  <2>1. InTurn'
    BY <1>1 DEF CanaryInv, InTurn
  <2>2. ASSUME scenario # "pdb-blocked-eviction"
        PROVE  before'["pdb"] = 0 /\ \A u \in Pods : pods["pdb"][u] = "none"
    <3>1. "pdb" \in Workloads /\ \A u \in Pods : pods["pdb"][u] = "none"
      BY <2>2 DEF CanaryInv, NoPDB, Workloads
    <3>2. runningPod("pdb") = 0
      BY <1>2, <3>1, RunningIs
    <3> QED
      BY <1>5, <3>1, <3>2
  <2> QED
    BY <1>1, <2>1, <2>2 DEF NoPDB
<1>9. Unharmed'
  BY <1>1, <1>2, <1>3, <1>4 DEF Unharmed, Early, Recovers
<1>10. Recorded'
  <2> SUFFICES ASSUME NEW x \in Workloads, before'[x] # 0
               PROVE  /\ pods[x][before'[x]] # "none"
                      /\ gone[x] # Never <=> pods[x][before'[x]] = "gone"
                      /\ gone[x] <= now
                      /\ Recovers => \A v \in Pods : v < before'[x] => pods[x][v] = "gone"
    BY <1>1, <1>3 DEF Recorded, Recovers
  <2>1. before'[x] \in Pods /\ pods[x][before'[x]] = "running"
    BY <1>2, <1>5, RunningIs
  <2>2. gone[x] = Never /\ now \in Nat
    BY <1>2, <1>3 DEF Unharmed, CanaryType
  <2>3. Recovers => \A v \in Pods : v < before'[x] => pods[x][v] = "gone"
    BY <1>2, <1>3, <2>1 DEF InTurn, Unharmed
  <2> QED
    BY <2>1, <2>2, <2>3 DEF Never
<1>11. EvictionShuts' /\ TimedAfter' /\ TimedExactly'
  BY <1>1, <1>2, <1>3, <1>4 DEF Unharmed, EvictionShuts, TimedAfter, TimedExactly
<1> QED
  BY <1>6, <1>7, <1>8, <1>9, <1>10, <1>11 DEF CanaryInv

(***************************************************************************)
(* The trigger keeps the invariant: evictions before it are those of the   *)
(* lead time at its boundary.                                              *)
(***************************************************************************)
LEMMA TriggerKeeps ==
    ASSUME CanaryInv, Trigger
    PROVE  CanaryInv'
<1>1. /\ stage = "snapshot"
      /\ scenario = "scheduled-lead-time" => now = clock.boundary
      /\ stage' = IF scenario = "return-to-idle" THEN "reopen" ELSE "collect"
      /\ clock' = [clock EXCEPT !.trigger = now]
      /\ host' = [state |-> reportedBy(scenario).state,
                  activity |-> reportedBy(scenario).activity, heartbeatAt |-> now]
      /\ UNCHANGED <<scenario, spec, now, before, leader, node, pods, pdb, accepted, gone>>
  BY DEF Trigger, goTo
<1>2. reporting' \in BOOLEAN /\ (reporting' <=> scenario # "reporter-failure")
  BY Zenon DEF Trigger
<1>3. CanaryType /\ now \in Nat /\ now > 0 /\ now # Never
  BY DEF CanaryInv, CanaryType, Never
<1>4. /\ clock' \in ClockRecord /\ clock'.trigger = now /\ clock'.released = clock.released
      /\ clock'.boundary = clock.boundary /\ clock'.start = clock.start /\ clock'.lead = clock.lead
      /\ clock'.removed = clock.removed
  BY <1>1, <1>3 DEF CanaryType, ClockRecord, Times
<1>5. host' \in [state : States, activity : Activities, heartbeatAt : Nat]
  BY <1>1, <1>3 DEF CanaryType, reportedBy, States, Activities
<1>6. CanaryType'
  BY <1>1, <1>2, <1>3, <1>4, <1>5 DEF CanaryType, Stages
<1>7. HostSays'
  <2> SUFFICES ASSUME scenario # "return-to-idle" PROVE HostSays'
    BY <1>1 DEF HostSays, Recovers
  <2>1. host.state = "idle" /\ host.activity = "idle"
    BY <1>1 DEF CanaryInv, HostSays, Recovers, Triggered
  <2>2. Triggered' /\ host'.heartbeatAt = now
    BY <1>1 DEF Triggered
  <2>3. reporting' = ~(scenario = "reporter-failure")
    BY <1>2, Zenon
  <2>4. <<host'.state, host'.activity>> =
           IF scenario \in ToGame THEN <<"active", "game">>
           ELSE IF scenario \in {"idle-to-interactive", "pdb-blocked-eviction"}
           THEN <<"active", "interactive">>
           ELSE <<"idle", "idle">>
    BY <1>1, <2>1 DEF reportedBy, ToGame
  <2>5. reporting' = ~(Triggered' /\ scenario' = "reporter-failure")
    BY <1>1, <2>2, <2>3, Zenon
  <2> QED
    BY <1>1, <1>4, <2>2, <2>4, <2>5 DEF HostSays
<1>8. Armed' /\ InBudget' /\ Budgeted'
  <2>1. Armed' /\ InBudget'
    BY <1>1, <1>3, <1>4, ConstantsType DEF CanaryInv, Armed, InBudget, Recovers, Triggered
  <2>2. Budgeted'
    BY <1>1 DEF CanaryInv, Budgeted, Recovers
  <2> QED
    BY <2>1, <2>2
<1>9. InTurn' /\ NoPDB' /\ Unharmed' /\ Recorded'
  BY <1>1 DEF CanaryInv, InTurn, NoPDB, Unharmed, Recorded, Recovers, Early
<1>10. EvictionShuts'
  <2> SUFFICES ASSUME Recovers, NEW x \in Workloads, accepted[x] # Never
               PROVE  /\ x \in Evictables /\ (x = "standard" => scenario \in ToGame)
                      /\ before[x] # 0 /\ pods[x][before[x]] \in {"terminating", "gone"}
                      /\ \A v \in Pods : v > before[x] => pods[x][v] = "none"
                      /\ accepted[x] <= now
                      /\ gone[x] # Never => accepted[x] <= gone[x]
                      /\ Shut' /\ accepted[x] >= now /\ x # "pdb"
    BY <1>1, <1>4 DEF EvictionShuts, Recovers
  <2>1. /\ x \in Evictables /\ (x = "standard" => scenario \in ToGame)
        /\ before[x] # 0 /\ pods[x][before[x]] \in {"terminating", "gone"}
        /\ \A v \in Pods : v > before[x] => pods[x][v] = "none"
        /\ accepted[x] <= now
        /\ gone[x] # Never => accepted[x] <= gone[x]
        /\ Shut /\ scenario = "scheduled-lead-time" /\ accepted[x] = now
        /\ x # "pdb"
    BY <1>1 DEF CanaryInv, EvictionShuts
  <2> QED
    BY <1>1, <1>3, <2>1 DEF Shut
<1>11. TimedAfter' /\ TimedExactly' /\ AllLeft'
  <2>1. TimedAfter' /\ AllLeft'
    BY <1>1, <1>4 DEF CanaryInv, TimedAfter, AllLeft, Recovers
  <2>2. awaited = Workloads
    BY <1>1 DEF awaited
  <2>3. TimedExactly'
    BY <1>1, <1>4, <2>2 DEF CanaryInv, TimedExactly, Recovers
  <2> QED
    BY <2>1, <2>3
<1> QED
  BY <1>6, <1>7, <1>8, <1>9, <1>10, <1>11 DEF CanaryInv

(***************************************************************************)
(* At each poll a release is timed at the instant it happened.             *)
(***************************************************************************)
LEMMA PollExact ==
    ASSUME CanaryInv, Recovers, NEW w \in Workloads
    PROVE  /\ polled.released[w] # Never =>
                 before[w] # 0 /\ gone[w] # Never /\ polled.released[w] <= now
           /\ accepted[w] # Never /\ polled.released[w] # Never => polled.released[w] = gone[w]
           /\ stage \in {"collect", "clearing"} /\ w \in awaited /\ accepted[w] # Never
                 /\ gone[w] # Never => polled.released[w] # Never
           /\ clock.released[w] # Never => polled.released[w] = clock.released[w]
<1>1. CanaryType /\ now \in Nat /\ MaxPods \in Nat
  BY ConstantsType DEF CanaryInv, CanaryType
<1>2. /\ polled.released[w] = clock.released[w] \/
            /\ clock.released[w] = Never /\ polled.released[w] = now
            /\ released(w) /\ w \in awaited
      /\ stage \in {"collect", "clearing"} /\ w \in awaited /\ released(w) =>
            polled.released[w] # Never
  BY <1>1, PollTimes
<1>3. clock.released[w] # Never => before[w] # 0 /\ gone[w] # Never /\ clock.released[w] <= now
  BY DEF CanaryInv, TimedAfter
<1>4. before[w] # 0 => /\ before[w] \in Pods
                       /\ pods[w][before[w]] # "none"
                       /\ gone[w] # Never <=> pods[w][before[w]] = "gone"
                       /\ \A v \in Pods : v < before[w] => pods[w][v] = "gone"
  BY <1>1 DEF CanaryInv, Recorded, CanaryType
<1>5. released(w) => before[w] # 0 /\ gone[w] # Never
  BY <1>4 DEF released, podExists
<1>6. accepted[w] # Never =>
         /\ clock.released[w] # Never => clock.released[w] = gone[w]
         /\ w \in awaited /\ gone[w] # Never /\ clock.released[w] = Never => gone[w] = now
  BY DEF CanaryInv, TimedExactly
<1>7. accepted[w] # Never /\ gone[w] # Never => released(w)
  <2> SUFFICES ASSUME accepted[w] # Never, gone[w] # Never PROVE released(w)
    OBVIOUS
  <2>1. before[w] # 0 /\ \A v \in Pods : v > before[w] => pods[w][v] = "none"
    BY DEF CanaryInv, EvictionShuts
  <2>2. \A v \in Pods : v < before[w] \/ v = before[w] \/ v > before[w]
    BY <1>1, <1>4, <2>1 DEF Pods
  <2>3. \A v \in Pods : pods[w][v] \in {"none", "gone"}
    BY <1>4, <2>1, <2>2
  <2> QED
    BY <1>4, <2>1, <2>3 DEF released, holds, podExists
<1> QED
  BY <1>1, <1>2, <1>3, <1>5, <1>6, <1>7

(***************************************************************************)
(* The workloads the harness waits for.                                    *)
(***************************************************************************)
LEMMA EvictIs ==
    ASSUME scenario \in Range(RequiredScenarios), scenario # "return-to-idle"
    PROVE  evict(scenario) = IF scenario \in ToGame THEN {"lossy", "standard"} ELSE {"lossy"}
BY DEF evict

(***************************************************************************)
(* What a wait that is over says of the workloads.                         *)
(***************************************************************************)
LEMMA WaitedFor ==
    ASSUME CanaryInv, Recovers, stage \in {"collect", "clearing"},
           waitOver(polled), gapsSeen(polled), NEW w \in awaited
    PROVE  /\ w \in Workloads /\ accepted[w] # Never /\ polled.released[w] # Never
           /\ polled.released[w] >= accepted[w] + minAcceptanceGap
           /\ stage = "collect" => polled.released[w] <= clock.trigger + DefaultBudget.endToEnd
           /\ stage = "clearing" =>
                 polled.released[w] <= clock.removed + DefaultBudget.resourceRelease
<1>1. w \in Workloads
  BY DEF awaited, evict, Workloads
<1>2. accepted[w] \in Times /\ polled.released[w] \in Times /\ now \in Nat
      /\ clock.trigger \in Times /\ clock.removed \in Times
  BY <1>1, PollTimes, ClockFields DEF CanaryInv, CanaryType
<1>3. accepted[w] # Never /\ polled.released[w] # Never /\ gap(polled, w) >= minAcceptanceGap
  BY DEF awaited, waitOver, collected, cleared, gapsSeen
<1>4. polled.released[w] <= now
  BY <1>1, <1>3, PollExact
<1>5. /\ stage = "collect" => now <= clock.trigger + DefaultBudget.endToEnd
      /\ stage = "clearing" => now <= clock.removed + DefaultBudget.resourceRelease
  BY DEF CanaryInv, InBudget
<1>6. minAcceptanceGap \in Nat
  BY ConstantsType
<1> QED
  BY <1>1, <1>2, <1>3, <1>4, <1>5, <1>6, ConstantsType DEF gap, Times, Never

----------------------------------------------------------------------------
(***************************************************************************)
(* The end of a wait for workloads: what the harness knows of the run is   *)
(* unchanged but for the poll, and the release times are those of gone.    *)
(***************************************************************************)
LEMMA WaitEnds ==
    ASSUME CanaryInv, Recovers, stage \in {"collect", "clearing"},
           waitOver(polled), gapsSeen(polled),
           stage' \in {"clearing", "done"},
           stage' = "clearing" => stage = "collect",
           stage = "collect" /\ stage' = "done" => scenario # "pdb-blocked-eviction",
           clock' \in ClockRecord, clock'.released = polled.released,
           clock'.trigger = clock.trigger, clock'.boundary = clock.boundary,
           clock'.start = clock.start, clock'.lead = clock.lead,
           stage' = "clearing" => clock'.removed = now /\ scenario = "pdb-blocked-eviction",
           stage' = "done" => clock'.removed = clock.removed,
           UNCHANGED <<scenario, spec, now, before, host, reporting, leader, node, pods, accepted,
                       gone>>,
           pdb' \in BOOLEAN, pdb' = FALSE
    PROVE  CanaryInv'
<1>1. /\ CanaryType /\ HostSays /\ Armed /\ InBudget /\ InTurn /\ NoPDB /\ Recorded
      /\ EvictionShuts /\ AllLeft
  BY DEF CanaryInv
<1>2. Recovers' /\ Triggered /\ Triggered' /\ stage' \notin Early \cup {"snapshot"}
      /\ stage \notin Early \cup {"snapshot"} /\ stage # "done"
  BY DEF Recovers, Triggered, Early
<1>3. now \in Nat /\ clock.trigger \in Nat /\ now >= clock.trigger
      /\ DefaultBudget.resourceRelease \in Nat
  <2>1. clock.removed \in Times
    BY <1>1, ClockFields DEF CanaryType
  <2> QED
    BY <1>1, <1>2, <2>1, ConstantsType DEF CanaryType, InBudget, Times, Never
<1>4. CanaryType'
  BY <1>1 DEF CanaryType, Stages, Over
<1>5. HostSays' /\ Armed'
  BY <1>1, <1>2 DEF HostSays, Armed, Early
<1>6. InBudget' /\ InTurn' /\ NoPDB' /\ Unharmed' /\ Recorded'
  <2>1. InBudget'
    BY <1>1, <1>2, <1>3 DEF InBudget
  <2>2. InTurn' /\ NoPDB' /\ Unharmed' /\ Recorded'
    BY <1>1, <1>2 DEF InTurn, NoPDB, Unharmed, Recorded
  <2> QED
    BY <2>1, <2>2
<1>7. Budgeted'
  <2>1. ~(scenario' = "pdb-blocked-eviction" /\ stage' \notin {"clearing", "done"})
    OBVIOUS
  <2> QED
    BY <2>1, Zenon DEF Budgeted
<1>8. EvictionShuts'
  <2> SUFFICES ASSUME NEW x \in Workloads, accepted[x] # Never
               PROVE  /\ x \in Evictables /\ (x = "standard" => scenario \in ToGame)
                      /\ before[x] # 0 /\ pods[x][before[x]] \in {"terminating", "gone"}
                      /\ \A v \in Pods : v > before[x] => pods[x][v] = "none"
                      /\ accepted[x] <= now
                      /\ gone[x] # Never => accepted[x] <= gone[x]
                      /\ Shut' /\ accepted[x] >= clock.trigger
                      /\ x = "pdb" => stage' = "done" /\ accepted[x] >= clock.removed
    BY <1>2 DEF EvictionShuts
  <2>1. /\ x \in Evictables /\ (x = "standard" => scenario \in ToGame)
        /\ before[x] # 0 /\ pods[x][before[x]] \in {"terminating", "gone"}
        /\ \A v \in Pods : v > before[x] => pods[x][v] = "none"
        /\ accepted[x] <= now
        /\ gone[x] # Never => accepted[x] <= gone[x]
        /\ Shut /\ accepted[x] >= clock.trigger
        /\ x = "pdb" => stage \in {"clearing", "done"} /\ accepted[x] >= clock.removed
    BY <1>1, <1>2 DEF EvictionShuts
  <2>2. Shut'
    BY <2>1 DEF Shut
  <2> QED
    BY <2>1, <2>2
<1>9. TimedAfter' /\ TimedExactly'
  <2>1. \A w \in Workloads :
           /\ polled.released[w] # Never =>
                 before[w] # 0 /\ gone[w] # Never /\ polled.released[w] <= now
           /\ accepted[w] # Never /\ polled.released[w] # Never => polled.released[w] = gone[w]
    BY PollExact
  <2>2. \A w \in awaited' : accepted[w] = Never
    BY <1>1, <1>2 DEF awaited, EvictionShuts, Workloads
  <2> QED
    BY <1>2, <2>1, <2>2 DEF TimedAfter, TimedExactly
<1>10. AllLeft'
  <2>1. ASSUME NEW w \in evict(scenario)
        PROVE  Left(w, DefaultBudget.endToEnd)'
    <3>1. w # "pdb" /\ w \in Workloads /\ scenario # "return-to-idle"
      BY <1>1, EvictIs DEF CanaryType, Recovers, Workloads
    <3>2. CASE stage = "collect"
      <4>1. w \in awaited
        BY <3>2 DEF awaited
      <4> QED
        BY <3>1, <3>2, <4>1, WaitedFor DEF Left, Since
    <3>3. CASE stage = "clearing"
      <4>1. Left(w, DefaultBudget.endToEnd)
        BY <1>1, <3>3 DEF AllLeft
      <4>2. polled.released[w] = clock.released[w]
        BY <3>1, <4>1, PollExact DEF Left
      <4> QED
        BY <3>1, <4>1, <4>2 DEF Left, Since
    <3> QED
      BY <3>2, <3>3
  <2>2. ASSUME stage' = "done", scenario = "pdb-blocked-eviction"
        PROVE  Left("pdb", DefaultBudget.resourceRelease)'
    <3>1. stage = "clearing" /\ "pdb" \in awaited
      BY <2>2 DEF awaited
    <3> QED
      BY <2>2, <3>1, WaitedFor DEF Left, Since
  <2> QED
    BY <2>1, <2>2 DEF AllLeft
<1> QED
  BY <1>4, <1>5, <1>6, <1>7, <1>8, <1>9, <1>10 DEF CanaryInv

(***************************************************************************)
(* A run that ends without a report owes nothing but its types.            *)
(***************************************************************************)
LEMMA EndKeeps ==
    ASSUME CanaryInv, ~Recovers', stage' \in Over, clock' \in ClockRecord,
           UNCHANGED <<scenario, spec, now, before, blocked, cluster>>
    PROVE  CanaryInv'
<1>1. stage' \in Stages /\ stage' \notin Early \cup {"snapshot", "reopen", "collect", "clearing"}
  BY DEF Stages, Over, Early
<1>2. CanaryType' /\ InTurn' /\ NoPDB' /\ Unharmed' /\ Recorded'
  BY <1>1 DEF CanaryInv, CanaryType, InTurn, NoPDB, Unharmed, Recorded, cluster, Early
<1>3. /\ HostSays' /\ Armed' /\ InBudget' /\ Budgeted' /\ EvictionShuts' /\ TimedAfter'
      /\ TimedExactly' /\ AllLeft'
  BY DEF HostSays, Armed, InBudget, Budgeted, EvictionShuts, TimedAfter, TimedExactly, AllLeft
<1> QED
  BY <1>2, <1>3 DEF CanaryInv

(***************************************************************************)
(* A wait that ends well ends the run with every release in its budget.    *)
(***************************************************************************)
LEMMA FinishKeeps ==
    ASSUME CanaryInv, Finish
    PROVE  CanaryInv'
<1>1. /\ stage \in {"collect", "reopen", "clearing"}
      /\ stage = "collect" => scenario # "pdb-blocked-eviction"
      /\ waitOver(polled) /\ gapsSeen(polled)
      /\ stage' = IF stable THEN "done" ELSE "failed"
      /\ clock' = polled
      /\ UNCHANGED <<scenario, spec, now, before, blocked, cluster>>
  BY DEF Finish, goTo
<1>2. CanaryType /\ Budgeted
  BY DEF CanaryInv
<1>3. PolledFrom(clock, polled) /\ clock' \in ClockRecord
  BY <1>1, <1>2, PollTimes DEF PolledFrom
<1>4. UNCHANGED <<host, reporting, leader, node, pods, pdb, accepted, gone>>
  BY <1>1 DEF cluster
<1>5. CASE stage' = "failed" \/ scenario = "return-to-idle"
  <2>1. ~Recovers' /\ stage' \in Over
    BY <1>1, <1>5 DEF Recovers, Over
  <2> QED
    BY <1>1, <1>3, <2>1, EndKeeps
<1>6. CASE stage' = "done" /\ scenario # "return-to-idle"
  <2>1. Recovers /\ stage \in {"collect", "clearing"}
    BY <1>1, <1>2, <1>6 DEF Recovers, CanaryType
  <2>2. pdb = FALSE
    <3>1. ~(scenario = "pdb-blocked-eviction" /\ stage \notin {"clearing", "done"})
      BY <1>1, <2>1
    <3>2. pdb = (scenario = "pdb-blocked-eviction" /\ stage \notin {"clearing", "done"})
      BY <1>2, <2>1, Zenon DEF Budgeted
    <3> QED
      BY <3>1, <3>2, Zenon
  <2>3. pdb' = FALSE /\ pdb' \in BOOLEAN
    BY <1>4, <2>2
  <2> QED
    BY <1>1, <1>3, <1>4, <1>6, <2>1, <2>3, WaitEnds DEF PolledFrom
<1> QED
  BY <1>1, <1>5, <1>6

(***************************************************************************)
(* Deleting the disruption budget keeps the invariant: the Pod it          *)
(* protected was not evicted before.                                       *)
(***************************************************************************)
LEMMA UnblockKeeps ==
    ASSUME CanaryInv, Unblock
    PROVE  CanaryInv'
<1> DEFINE p == polled
<1>1. /\ scenario = "pdb-blocked-eviction" /\ stage = "collect"
      /\ waitOver(polled) /\ gapsSeen(polled)
      /\ stage' = "clearing"
      /\ clock' = [p EXCEPT !.removed = now]
      /\ UNCHANGED <<scenario, spec, now, before, host, reporting, leader, node, pods, accepted,
                     gone>>
  BY DEF Unblock, goTo
<1>2. pdb' = FALSE /\ pdb' \in BOOLEAN
  <2>1. pdb' = FALSE
    BY Zenon DEF Unblock
  <2> QED
    BY <2>1
<1>3. CanaryType /\ now \in Times
  BY DEF CanaryInv, CanaryType, Times
<1>4. PolledFrom(clock, p) /\ p \in ClockRecord
  BY <1>3, PollTimes DEF PolledFrom
<1> HIDE DEF p
<1>5. /\ clock' \in ClockRecord /\ clock'.released = p.released /\ clock'.trigger = p.trigger
      /\ clock'.boundary = p.boundary /\ clock'.start = p.start /\ clock'.lead = p.lead
      /\ clock'.removed = now
  BY <1>1, <1>3, <1>4 DEF ClockRecord
<1>6. p = polled
  BY DEF p
<1>7. Recovers
  BY <1>1 DEF Recovers
<1> QED
  BY <1>1, <1>2, <1>4, <1>5, <1>6, <1>7, WaitEnds DEF PolledFrom

----------------------------------------------------------------------------
(***************************************************************************)
(* Time passing keeps the invariant: what left in an instant is timed at   *)
(* the last poll of that instant.                                          *)
(***************************************************************************)
LEMMA TickKeeps ==
    ASSUME CanaryInv, CanaryTick
    PROVE  CanaryInv'
<1>1. /\ now < MaxTime
      /\ stage \notin Over \cup {"begin"}
      /\ ~waitOver(polled) /\ now < deadline(polled) /\ ~ready(polled)
      /\ now' = now + 1
      /\ clock' = polled
      /\ host' = [host EXCEPT !.heartbeatAt = IF reporting THEN now + 1 ELSE @]
      /\ UNCHANGED <<scenario, spec, stage, before, leader, node, pods, accepted, gone>>
  BY DEF CanaryTick
<1>2. reporting' = reporting /\ pdb' = pdb
  BY DEF CanaryTick
<1>3. /\ CanaryType /\ HostSays /\ Armed /\ InBudget /\ InTurn /\ NoPDB /\ Unharmed /\ Budgeted
      /\ Recorded /\ EvictionShuts /\ AllLeft
  BY DEF CanaryInv
<1>4. /\ PolledFrom(clock, polled)
      /\ stage \notin {"collect", "clearing"} => polled.released = clock.released
  BY <1>3, PollTimes
<1>5. /\ now \in Nat /\ now > 0 /\ MaxTime \in Nat /\ Minute \in Nat
      /\ host \in [state : States, activity : Activities, heartbeatAt : Nat]
      /\ clock.boundary \in Times /\ clock.trigger \in Times /\ clock.removed \in Times
  BY <1>3, ConstantsType, ClockFields DEF CanaryType
<1>6. /\ host' \in [state : States, activity : Activities, heartbeatAt : Nat]
      /\ host'.state = host.state /\ host'.activity = host.activity
      /\ reporting => host'.heartbeatAt = now + 1
      /\ ~reporting => host'.heartbeatAt = host.heartbeatAt
  BY <1>1, <1>5
<1>7. CanaryType'
  BY <1>1, <1>2, <1>3, <1>4, <1>5, <1>6 DEF CanaryType, PolledFrom
<1>8. HostSays'
  <2> SUFFICES ASSUME Recovers PROVE HostSays'
    BY <1>1 DEF HostSays, Recovers
  <2> DEFINE silent == Triggered /\ scenario = "reporter-failure"
  <2>1. /\ host.heartbeatAt = IF silent THEN clock.trigger ELSE now
        /\ <<host.state, host.activity>> =
              IF Triggered /\ scenario \in ToGame THEN <<"active", "game">>
              ELSE IF Triggered /\ scenario \in {"idle-to-interactive", "pdb-blocked-eviction"}
              THEN <<"active", "interactive">>
              ELSE <<"idle", "idle">>
    BY <1>3 DEF HostSays
  <2>2. reporting = ~silent
    BY <1>3, Zenon DEF HostSays
  <2>3. reporting' = ~silent
    BY <1>2, <2>2, Zenon
  <2>4. reporting <=> ~silent
    BY <2>2, Zenon
  <2>5. Triggered' = Triggered /\ scenario' = scenario /\ clock'.trigger = clock.trigger
    BY <1>1, <1>4 DEF Triggered, PolledFrom
  <2>6. silent' = silent
    BY <2>5, Zenon
  <2>7. host'.heartbeatAt = IF silent THEN clock.trigger ELSE now'
    BY <1>1, <1>6, <2>1, <2>4
  <2>8. <<host'.state, host'.activity>> =
              IF Triggered /\ scenario \in ToGame THEN <<"active", "game">>
              ELSE IF Triggered /\ scenario \in {"idle-to-interactive", "pdb-blocked-eviction"}
              THEN <<"active", "interactive">>
              ELSE <<"idle", "idle">>
    BY <1>6, <2>1
  <2> HIDE DEF silent
  <2>9. /\ host'.heartbeatAt = IF silent' THEN clock'.trigger ELSE now'
        /\ reporting' = ~silent'
        /\ <<host'.state, host'.activity>> =
              IF Triggered' /\ scenario' \in ToGame THEN <<"active", "game">>
              ELSE IF Triggered' /\ scenario' \in {"idle-to-interactive", "pdb-blocked-eviction"}
              THEN <<"active", "interactive">>
              ELSE <<"idle", "idle">>
    BY <2>3, <2>5, <2>6, <2>7, <2>8, Zenon
  <2> QED
    BY <2>9, Zenon DEF HostSays, silent
<1>9. Armed'
  <2>1. /\ stage = "armed" /\ scenario = "scheduled-lead-time" => now # clock.boundary - 1
        /\ stage = "snapshot" => now # clock.boundary
    BY <1>1, <1>4 DEF ready, waitOver, PolledFrom
  <2> QED
    BY <1>1, <1>3, <1>4, <1>5, <2>1 DEF Armed, Recovers, Triggered, PolledFrom
<1>10. InBudget'
  <2>1. /\ stage = "collect" => now < clock.trigger + DefaultBudget.endToEnd
        /\ stage = "clearing" => now < clock.removed + DefaultBudget.resourceRelease
    BY <1>1, <1>4 DEF deadline, PolledFrom
  <2>2. DefaultBudget.endToEnd \in Nat /\ DefaultBudget.resourceRelease \in Nat
    BY ConstantsType
  <2>3. now \in Int /\ clock.trigger \in Int /\ clock.removed \in Int
    BY <1>5 DEF Times, Never
  <2>4. Recovers => /\ Triggered => clock.trigger \in Nat /\ clock.trigger > 0
                    /\ stage = "collect" => clock.trigger <= now
                    /\ stage = "clearing" => clock.trigger <= clock.removed /\ clock.removed <= now
    BY <1>3 DEF InBudget
  <2>5. /\ stage = "collect" => now + 1 <= clock.trigger + DefaultBudget.endToEnd
        /\ stage = "clearing" => now + 1 <= clock.removed + DefaultBudget.resourceRelease
    BY <2>1, <2>2, <2>3
  <2>6. clock'.trigger = clock.trigger /\ clock'.removed = clock.removed
        /\ Triggered' = Triggered /\ Recovers' = Recovers
    BY <1>1, <1>4 DEF PolledFrom, Triggered, Recovers
  <2> QED
    BY <1>1, <2>3, <2>4, <2>5, <2>6 DEF InBudget
<1>11. InTurn' /\ NoPDB' /\ Unharmed' /\ Budgeted'
  <2>1. InTurn' /\ NoPDB' /\ Unharmed'
    BY <1>1, <1>3, <1>4 DEF InTurn, NoPDB, Unharmed, Recovers, Early
  <2>2. Budgeted'
    BY <1>1, <1>2, <1>3 DEF Budgeted, Recovers
  <2> QED
    BY <2>1, <2>2
<1>12. Recorded'
  <2>1. \A w \in Workloads : gone[w] \in Times
    BY <1>3 DEF CanaryType
  <2> QED
    BY <1>1, <1>3, <1>5, <2>1 DEF Recorded, Recovers, Times, Never
<1>13. ASSUME Recovers, NEW w \in Workloads, accepted[w] # Never
       PROVE  Triggered /\ stage # "done" /\ stage # "snapshot"
  <2>1. stage \notin Early /\ stage # "failed"
    BY <1>3, <1>13 DEF Unharmed, Recovers
  <2>2. stage # "snapshot"
    <3> SUFFICES ASSUME stage = "snapshot" PROVE FALSE
      OBVIOUS
    <3>1. now = clock.boundary
      BY <1>3, <1>13 DEF EvictionShuts
    <3> QED
      BY <1>1, <1>4, <3>1 DEF waitOver, PolledFrom
  <2>3. stage # "reopen" /\ stage # "done"
    BY <1>1, <1>3, <1>13 DEF CanaryType, Recovers, Over
  <2> QED
    BY <1>3, <2>1, <2>2, <2>3 DEF CanaryType, Stages, Triggered, Over
<1>14. EvictionShuts'
  <2> SUFFICES ASSUME Recovers, NEW x \in Workloads, accepted[x] # Never
               PROVE  /\ x \in Evictables /\ (x = "standard" => scenario \in ToGame)
                      /\ before[x] # 0 /\ pods[x][before[x]] \in {"terminating", "gone"}
                      /\ \A v \in Pods : v > before[x] => pods[x][v] = "none"
                      /\ accepted[x] <= now + 1
                      /\ gone[x] # Never => accepted[x] <= gone[x]
                      /\ Shut' /\ stage # "snapshot" /\ accepted[x] >= clock.trigger
                      /\ x = "pdb" => stage \in {"clearing", "done"} /\ accepted[x] >= clock.removed
    BY <1>1, <1>4 DEF EvictionShuts, Recovers, PolledFrom
  <2>1. Triggered /\ stage # "snapshot"
    BY <1>13
  <2>2. /\ x \in Evictables /\ (x = "standard" => scenario \in ToGame)
        /\ before[x] # 0 /\ pods[x][before[x]] \in {"terminating", "gone"}
        /\ \A v \in Pods : v > before[x] => pods[x][v] = "none"
        /\ accepted[x] <= now
        /\ gone[x] # Never => accepted[x] <= gone[x]
        /\ Shut /\ accepted[x] >= clock.trigger
        /\ x = "pdb" => stage \in {"clearing", "done"} /\ accepted[x] >= clock.removed
    BY <1>3, <2>1 DEF EvictionShuts
  <2>3. accepted[x] \in Times
    BY <1>3 DEF CanaryType
  <2>4. Shut'
    <3>1. CASE scenario = "reporter-failure"
      <4>1. reporting = ~(Triggered /\ scenario = "reporter-failure")
        BY <1>3, Zenon DEF HostSays
      <4>2. ~reporting
        BY <2>1, <3>1, <4>1, Zenon
      <4>3. heartbeatFreshness(host.heartbeatAt, now) = "Expired" /\ host.heartbeatAt \in Nat
        BY <1>5, <2>2, <3>1 DEF Shut
      <4>4. heartbeatFreshness(host.heartbeatAt, now + 1) = "Expired"
        BY <1>5, <4>3, VerdictStable
      <4> QED
        BY <1>1, <1>6, <2>2, <4>2, <4>4 DEF Shut
    <3>2. CASE scenario # "reporter-failure"
      BY <1>1, <2>2, <3>2 DEF Shut
    <3> QED
      BY <3>1, <3>2
  <2> QED
    BY <1>5, <2>1, <2>2, <2>3, <2>4 DEF Times, Never
<1>15. TimedAfter' /\ TimedExactly'
  <2> SUFFICES ASSUME Recovers PROVE TimedAfter' /\ TimedExactly'
    BY <1>1 DEF TimedAfter, TimedExactly, Recovers
  <2>1. \A w \in Workloads :
           /\ polled.released[w] \in Times
           /\ polled.released[w] # Never =>
                 before[w] # 0 /\ gone[w] # Never /\ polled.released[w] <= now
           /\ accepted[w] # Never /\ polled.released[w] # Never => polled.released[w] = gone[w]
           /\ stage \in {"collect", "clearing"} /\ w \in awaited /\ accepted[w] # Never
                 /\ gone[w] # Never => polled.released[w] # Never
    BY <1>3, PollExact, PollTimes
  <2>2. awaited' = awaited
    BY <1>1 DEF awaited
  <2>3. \A w \in awaited : accepted[w] # Never /\ w \in Workloads =>
           stage \in {"collect", "clearing"}
    BY <1>13 DEF Triggered
  <2> QED
    BY <1>1, <1>5, <2>1, <2>2, <2>3 DEF TimedAfter, TimedExactly, Times, Never
<1>16. AllLeft'
  <2> SUFFICES ASSUME Recovers, stage = "clearing", NEW w \in evict(scenario)
               PROVE  Left(w, DefaultBudget.endToEnd)'
    BY <1>1 DEF AllLeft, Recovers, Over
  <2>1. Left(w, DefaultBudget.endToEnd) /\ w \in Workloads
    BY <1>3, EvictIs DEF AllLeft, Recovers, CanaryType, Workloads
  <2>2. polled.released[w] = clock.released[w]
    BY <2>1, PollExact DEF Left
  <2> QED
    BY <1>1, <1>4, <2>1, <2>2 DEF Left, Since, PolledFrom
<1> QED
  BY <1>7, <1>8, <1>9, <1>10, <1>11, <1>12, <1>14, <1>15, <1>16 DEF CanaryInv

----------------------------------------------------------------------------
(***************************************************************************)
(* The invariant of a run.                                                 *)
(***************************************************************************)
THEOREM CanaryInvariant == CanarySpec => []CanaryInv
<1>1. CanaryInit => CanaryInv
  BY InitKeeps
<1>2. CanaryInv /\ [CanaryNext]_canaryVars => CanaryInv'
  <2> SUFFICES ASSUME CanaryInv, [CanaryNext]_canaryVars PROVE CanaryInv'
    OBVIOUS
  <2>1. CASE Reconcile
    BY <2>1, ReconcileKeeps
  <2>2. CASE Elect
    BY <2>2, ElectKeeps
  <2>3. ASSUME NEW w \in Workloads, NEW u \in Pods, Terminate(w, u)
        PROVE  CanaryInv'
    BY <2>3, PodStepKeeps DEF Terminate
  <2>4. ASSUME NEW w \in Workloads, NEW u \in Pods, Die(w, u)
        PROVE  CanaryInv'
    BY <2>4, PodStepKeeps DEF Die
  <2>5. ASSUME NEW w \in Workloads, NEW u \in Pods, Replace(w, u)
        PROVE  CanaryInv'
    BY <2>5, PodStepKeeps DEF Replace
  <2>6. CASE Cancel
    BY <2>6, CancelKeeps
  <2>7. CASE Drift
    BY <2>7, DriftKeeps
  <2>8. CASE Arm
    BY <2>8, ArmKeeps
  <2>9. CASE Snapshot
    BY <2>9, SnapshotKeeps
  <2>10. CASE Trigger
    BY <2>10, TriggerKeeps
  <2>11. CASE Finish
    BY <2>11, FinishKeeps
  <2>12. CASE Unblock
    BY <2>12, UnblockKeeps
  <2>13. CASE Fail
    BY <2>13, FailKeeps
  <2>14. CASE CanaryTick
    BY <2>14, TickKeeps
  <2>15. CASE UNCHANGED canaryVars
    BY <2>15 DEF canaryVars, harness, cluster, CanaryInv, CanaryType, HostSays, Armed, InBudget,
                 InTurn, NoPDB, Unharmed, Budgeted, Recorded, EvictionShuts, TimedAfter,
                 TimedExactly, AllLeft, Recovers, Triggered, Shut, awaited, Left, Since
  <2> QED
    BY <2>1, <2>2, <2>3, <2>4, <2>5, <2>6, <2>7, <2>8, <2>9, <2>10, <2>11, <2>12, <2>13, <2>14,
       <2>15 DEF CanaryNext
<1> QED
  BY <1>1, <1>2, PTL DEF CanarySpec

----------------------------------------------------------------------------
(***************************************************************************)
(* What an accepted report says of the scenario that was run.              *)
(***************************************************************************)
LEMMA AcceptedChecks ==
    ASSUME scenario \in Range(RequiredScenarios), NEW claims \in Claims, Accepted(claims)
    PROVE  checkScenario(budgetOf(claims.environment), recorded(claims))
<1> DEFINE r == reportOf(claims, scenario, recorded(claims))
<1>1. scenarioProblems(r)
  BY DEF Accepted, Evaluate
<1>2. \A sc \in Range(r.scenarios) : checkScenario(r.budget, sc)
  BY <1>1 DEF scenarioProblems
<1>3. r.budget = budgetOf(claims.environment)
  BY DEF reportOf
<1>4. recorded(claims) \in Range(r.scenarios)
  BY DEF reportOf, Range, RequiredScenarios
<1> QED
  BY <1>2, <1>3, <1>4

(***************************************************************************)
(* What the harness writes of this run.                                    *)
(***************************************************************************)
LEMMA RecordedFields ==
    ASSUME NEW claims
    PROVE  LET sc == recorded(claims)
           IN  /\ sc.name = scenario
               /\ sc.samples = samples(budgetOf(claims.environment), scenario, measured)
               /\ sc.workloads = observations(scenario, [w \in Workloads |-> view(w)], blocked)
               /\ scenario = "scheduled-lead-time" =>
                     sc.leadTime = clock.lead /\ sc.windowStart = clock.start
BY DEF recorded, scenarioResult, measured

(***************************************************************************)
(* A workload that the harness did not plan to evict ran under one UID.    *)
(***************************************************************************)
LEMMA KeptUnchanged ==
    ASSUME NEW b, NEW claims, checkScenario(b, recorded(claims)),
           NEW w \in statusWorkloads, w \notin evict(scenario), before[w] # 0
    PROVE  runningPod(w) = before[w]
<1> DEFINE views == [x \in Workloads |-> view(x)]
           o == observation(w, views[w], w \in evict(scenario), "")
<1>1. w \in Workloads /\ views[w] = view(w)
  BY DEF statusWorkloads
<1>2. o \in recorded(claims).workloads
  <2>1. o \in observations(scenario, views, blocked)
    BY DEF observations
  <2> QED
    BY <2>1, RecordedFields
<1>3. checkObservation(scenario, o)
  BY <1>2, RecordedFields DEF checkScenario, checkWorkloads
<1>4. o.uidBefore = before[w] /\ o.uidAfter = runningPod(w) /\ o.evicted = (w \in evict(scenario))
  BY <1>1 DEF observation, view
<1> HIDE DEF o
<1>5. ~o.evicted
  BY <1>4
<1>6. o.uidBefore \in {0, o.uidAfter}
  BY <1>3, <1>5 DEF checkObservation
<1> QED
  BY <1>4, <1>6

(***************************************************************************)
(* Sequences and the set of what they hold.                                *)
(***************************************************************************)
LEMMA Holds2 ==
    ASSUME NEW a, NEW b
    PROVE  LET s == <<a, b>> IN Range(s) = {a, b} /\ s \in Seq({a, b})
BY DEF Range

(***************************************************************************)
(* A sequence of three.                                                    *)
(***************************************************************************)
LEMMA Holds3 ==
    ASSUME NEW a, NEW b, NEW c
    PROVE  LET s == <<a, b, c>> IN Range(s) = {a, b, c} /\ s \in Seq({a, b, c})
BY DEF Range

(***************************************************************************)
(* A sequence of four.                                                     *)
(***************************************************************************)
LEMMA Holds4 ==
    ASSUME NEW a, NEW b, NEW c, NEW d, NEW s, s = <<a, b, c, d>>
    PROVE  Range(s) = {a, b, c, d} /\ s \in Seq({a, b, c, d}) /\ s \in Seq(Range(s))
BY DEF Range

(***************************************************************************)
(* The concatenation of two sequences holds what both hold.                *)
(***************************************************************************)
LEMMA HoldsBoth ==
    ASSUME NEW S, NEW p \in Seq(S), NEW q \in Seq(S)
    PROVE  p \o q \in Seq(S) /\ Range(p \o q) = Range(p) \cup Range(q)
<1>1. p \o q \in Seq(S)
  BY ConcatProperties, ZenonT(60)
<1>2. Range(p \o q) = Range(p) \cup Range(q)
  BY RangeConcatenation, ZenonT(60)
<1> QED
  BY <1>1, <1>2

(***************************************************************************)
(* The samples a scenario records.                                         *)
(***************************************************************************)
LEMMA SamplesAre ==
    ASSUME NEW b, NEW name, NEW m
    PROVE  LET recovery == Range(recoverySamples(b, name, timedFrom(name), m))
               release  == releaseSample(b, name, timedFrom(name), m)
               all      == Range(samples(b, name, m))
           IN  /\ name = "return-to-idle" => all = Range(idleSamples(b, name, m))
               /\ name = "leader-change" =>
                     all = Range(leaderSamples(b, name, m)) \cup recovery \cup {release}
               /\ name = "pdb-blocked-eviction" => all = recovery \cup Range(pdbSamples(b, name, m))
               /\ name \notin {"return-to-idle", "leader-change", "pdb-blocked-eviction"} =>
                     all = recovery \cup {release}
<1> DEFINE rec == recoverySamples(b, name, timedFrom(name), m)
           rel == releaseSample(b, name, timedFrom(name), m)
           led == leaderSamples(b, name, m)
           one == <<rel>>
           pdbs == pdbSamples(b, name, m)
           S == Range(rec) \cup Range(led) \cup Range(pdbs) \cup {rel}
<1>1. rec \in Seq(Range(rec)) /\ led \in Seq(Range(led)) /\ pdbs \in Seq(Range(pdbs))
  <2>1. rec \in Seq(Range(rec))
    BY Holds3, Zenon DEF recoverySamples
  <2>2. led \in Seq(Range(led))
    BY Holds2, Zenon DEF leaderSamples
  <2>3. pdbs \in Seq(Range(pdbs))
    <3>1. pdbs = <<pdbs[1], pdbs[2], pdbs[3], pdbs[4]>>
      BY DEF pdbSamples
    <3> HIDE DEF pdbs
    <3> QED
      BY <3>1, Holds4
  <2> QED
    BY <2>1, <2>2, <2>3
<1>2. one \in Seq({rel}) /\ Range(one) = {rel}
  BY DEF Range
<1>3. /\ name = "return-to-idle" => samples(b, name, m) = idleSamples(b, name, m)
      /\ name = "leader-change" => samples(b, name, m) = led \o rec \o one
      /\ name = "pdb-blocked-eviction" => samples(b, name, m) = rec \o pdbs
      /\ name \notin {"return-to-idle", "leader-change", "pdb-blocked-eviction"} =>
            samples(b, name, m) = rec \o one
  BY DEF samples
<1> HIDE DEF rec, rel, led, one, pdbs
<1>4. rec \in Seq(S) /\ led \in Seq(S) /\ pdbs \in Seq(S) /\ one \in Seq(S)
  BY <1>1, <1>2
<1> HIDE DEF S
<1>5. /\ rec \o pdbs \in Seq(S) /\ Range(rec \o pdbs) = Range(rec) \cup Range(pdbs)
      /\ Range(rec \o one) = Range(rec) \cup {rel}
      /\ Range((led \o rec) \o one) = Range(led) \cup Range(rec) \cup {rel}
  <2> DEFINE both == led \o rec
  <2>1. both \in Seq(S) /\ Range(both) = Range(led) \cup Range(rec)
    BY <1>4, HoldsBoth, ZenonT(60)
  <2>2. Range(both \o one) = Range(both) \cup Range(one)
    <3>1. both \in Seq(S) /\ one \in Seq(S)
      BY <1>4, <2>1
    <3> HIDE DEF both
    <3> QED
      BY <3>1, HoldsBoth
  <2>3. /\ rec \o pdbs \in Seq(S) /\ Range(rec \o pdbs) = Range(rec) \cup Range(pdbs)
        /\ Range(rec \o one) = Range(rec) \cup Range(one)
    <3>1. rec \o pdbs \in Seq(S) /\ Range(rec \o pdbs) = Range(rec) \cup Range(pdbs)
      BY <1>4, HoldsBoth, ZenonT(60)
    <3>2. Range(rec \o one) = Range(rec) \cup Range(one)
      BY <1>4, HoldsBoth, ZenonT(60)
    <3> QED
      BY <3>1, <3>2
  <2> QED
    BY <1>2, <2>1, <2>2, <2>3, Zenon
<1> QED
  BY <1>3, <1>5, Zenon DEF rec, rel, led, pdbs

(***************************************************************************)
(* Of the lead time, only the release of the lossy workload proves         *)
(* recovery.                                                               *)
(***************************************************************************)
LEMMA LeadSamples ==
    ASSUME NEW b, clock.released["lossy"] \in Nat, scenario = "scheduled-lead-time",
           NEW s \in Range(samples(b, scenario, measured)), s.satisfies
    PROVE  s.observedAt = clock.released["lossy"]
<1> DEFINE d == recoverySamples(b, scenario, timedFrom(scenario), measured)
           last == releaseSample(b, scenario, timedFrom(scenario), measured)
<1>1. s \in Range(d) \cup {last}
  BY SamplesAre
<1>2. \A x \in Range(d) : ~x.satisfies
  BY Holds3 DEF recoverySamples, sample
<1>3. measured.release = clock.released["lossy"]
  <2>1. evict(scenario) = {"lossy"}
    BY DEF evict, ToGame
  <2>2. measured.release = Latest({clock.released["lossy"]})
    <3>1. {clock.released[w] : w \in {"lossy"}} = {clock.released["lossy"]}
      OBVIOUS
    <3> QED
      BY <2>1, <3>1 DEF measured
  <2> QED
    BY <2>2 DEF Latest
<1>4. last.observedAt = clock.released["lossy"]
  BY <1>3 DEF releaseSample, sample
<1> HIDE DEF d, last
<1> QED
  BY <1>1, <1>2, <1>4

(***************************************************************************)
(* A performance claim rests on the scheduled lead time of this very run.  *)
(***************************************************************************)
LEMMA ClaimProven ==
    ASSUME scenario = "scheduled-lead-time", NEW claims \in Claims, Accepted(claims),
           claims.performanceClaimed
    PROVE  recorded(claims).preWindowReleaseProven
<1> DEFINE r == reportOf(claims, scenario, recorded(claims))
<1>1. claimProblems(r) /\ r.performanceClaimed
  BY DEF Accepted, Evaluate, reportOf
<1>2. PICK sc \in Range(r.scenarios) : sc.name = "scheduled-lead-time" /\ sc.preWindowReleaseProven
  BY <1>1 DEF claimProblems
<1>3. PICK i \in DOMAIN RequiredScenarios : sc = r.scenarios[i]
  BY DEF reportOf, Range
<1>4. claims.environment \in {"kind", "live"} /\ claims.proven \in BOOLEAN
  BY DEF Claims
<1>5. CASE RequiredScenarios[i] = scenario
  BY <1>2, <1>3, <1>5 DEF reportOf
<1>6. CASE RequiredScenarios[i] # scenario
  <2>1. RequiredScenarios[i] \in Range(RequiredScenarios)
    BY DEF Range
  <2>2. sc = PromptResults[claims.environment][claims.proven][RequiredScenarios[i]]
    BY <1>3, <1>6 DEF reportOf
  <2>3. sc.name = RequiredScenarios[i]
    BY <1>4, <2>1, <2>2 DEF PromptResults, scenarioResult
  <2> QED
    BY <1>2, <1>6, <2>3
<1> QED
  BY <1>5, <1>6

----------------------------------------------------------------------------
(***************************************************************************)
(* VerdictSound.  A report that is accepted is true of the run, whatever   *)
(* its author declares: the Pods that had to go went after the trigger and *)
(* inside the budget, the others stayed, and performance is claimed only   *)
(* when the Node was clear before the window.                              *)
(***************************************************************************)
THEOREM CanarySound == CanarySpec => []VerdictSound
<1>1. ASSUME CanaryInv
      PROVE  VerdictSound
  <2> SUFFICES ASSUME stage = "done", NEW claims \in Claims, Accepted(claims)
               PROVE  /\ \A w \in Workloads : before[w] # 0 =>
                            IF Goes(w)
                            THEN /\ accepted[w] >= Since(w)
                                 /\ gone[w] >= accepted[w] + minAcceptanceGap
                                 /\ gone[w] <= Since(w) + DefaultBudget.endToEnd
                            ELSE runningPod(w) = before[w]
                      /\ claims.performanceClaimed =>
                            /\ claims.environment = "live" /\ claims.gpuMeasured
                            /\ scenario = "scheduled-lead-time" =>
                                  \A w \in Workloads : before[w] # 0 /\ Goes(w) =>
                                     gone[w] < clock.start
    BY DEF VerdictSound
  <2> DEFINE b == budgetOf(claims.environment)
  <2>1. scenario \in Range(RequiredScenarios)
    BY <1>1 DEF CanaryInv, CanaryType
  <2>2. checkScenario(b, recorded(claims))
    BY <2>1, AcceptedChecks
  <2>3. ASSUME NEW w \in Workloads, before[w] # 0, Goes(w)
        PROVE  /\ Left(w, DefaultBudget.endToEnd) /\ accepted[w] >= Since(w)
               /\ gone[w] = clock.released[w]
               /\ scenario # "pdb-blocked-eviction" => w # "pdb"
    <3>1. Recovers /\ Triggered
      BY <2>3 DEF Goes, Recovers, Triggered
    <3>2. scenario # "pdb-blocked-eviction" => w # "pdb"
      BY <1>1, <2>3 DEF CanaryInv, NoPDB
    <3>3. w \in evict(scenario) \/ w = "pdb"
      BY <2>1, <2>3, EvictIs DEF Goes, Catalog, profile, Workloads
    <3>4. Left(w, DefaultBudget.endToEnd)
      <4>1. w = "pdb" => Left("pdb", DefaultBudget.endToEnd)
        BY <1>1, <3>1, <3>2, ConstantsType DEF CanaryInv, AllLeft
      <4> QED
        BY <1>1, <3>1, <3>3, <4>1 DEF CanaryInv, AllLeft
    <3>5. accepted[w] # Never /\ clock.released[w] # Never
      BY <3>4 DEF Left
    <3> QED
      BY <1>1, <3>1, <3>2, <3>4, <3>5 DEF CanaryInv, EvictionShuts, TimedExactly, Since
  <2>4. ASSUME NEW w \in Workloads, before[w] # 0, ~Goes(w)
        PROVE  runningPod(w) = before[w]
    <3>1. w \notin evict(scenario)
      BY <2>1, <2>4, ScenarioNames DEF Goes, evict, Catalog, profile, ToGame
    <3>2. w # "pdb"
      BY <1>1, <2>4 DEF CanaryInv, NoPDB, Goes, Catalog, profile
    <3> QED
      BY <2>2, <2>4, <3>1, <3>2, KeptUnchanged DEF statusWorkloads
  <2>5. ASSUME claims.performanceClaimed
        PROVE  claims.environment = "live" /\ claims.gpuMeasured
    <3> DEFINE r == reportOf(claims, scenario, recorded(claims))
    <3>1. claimProblems(r) /\ r.performanceClaimed
      BY <2>5 DEF Accepted, Evaluate, reportOf
    <3>2. r.environment = "live" /\ r.gpuMeasured
      BY <3>1 DEF claimProblems
    <3> QED
      BY <3>2 DEF reportOf
  <2>6. ASSUME claims.performanceClaimed, scenario = "scheduled-lead-time",
               NEW w \in Workloads, before[w] # 0, Goes(w)
        PROVE  gone[w] < clock.start
    <3> DEFINE sc == recorded(claims)
    <3>1. w = "lossy"
      BY <2>3, <2>6 DEF Goes, Catalog, profile, Workloads, ToGame
    <3>2. gone[w] = clock.released["lossy"] /\ clock.released["lossy"] # Never
      BY <2>3, <2>6, <3>1 DEF Left
    <3>3. clock.released["lossy"] \in Nat /\ clock.start \in Int
      <4>1. clock.released["lossy"] \in Times /\ clock.start \in Times
        BY <1>1, ClockFields DEF CanaryInv, CanaryType, Workloads
      <4> QED
        BY <3>2, <4>1 DEF Times, Never
    <3>4. sc.preWindowReleaseProven
      BY <2>6, ClaimProven
    <3>5. /\ sc.samples = samples(b, scenario, measured) /\ sc.windowStart = clock.start
          /\ sc.name = scenario
      BY <2>6, RecordedFields
    <3> HIDE DEF sc
    <3>6. checkLead(b, sc)
      BY <2>2, <2>6, <3>5 DEF checkScenario, sc
    <3>7. PICK i \in satisfyingReleases(sc) : sc.samples[i].observedAt \in 0..(sc.windowStart - 1)
      BY <3>4, <3>6 DEF checkLead
    <3>8. sc.samples[i].observedAt = clock.released["lossy"]
      <4>1. sc.samples[i] \in Range(samples(b, scenario, measured)) /\ sc.samples[i].satisfies
        BY <3>5, <3>7 DEF satisfyingReleases, Range
      <4> QED
        BY <2>6, <3>3, <4>1, LeadSamples
    <3> QED
      BY <3>2, <3>3, <3>5, <3>7, <3>8
  <2> QED
    BY <2>3, <2>4, <2>5, <2>6 DEF Left
<1> QED
  BY <1>1, CanaryInvariant, PTL

----------------------------------------------------------------------------
(***************************************************************************)
(* The events of a run are timed in their order.                           *)
(***************************************************************************)
Stamped ==
    /\ stage \in Early \cup {"snapshot"} => clock.detection = Never /\ clock.admission = Never
    /\ stage \in {"collect", "reopen", "clearing", "done"} =>
          /\ clock.trigger \in Nat /\ clock.trigger <= now
          /\ clock.detection # Never => clock.trigger <= clock.detection
          /\ clock.admission # Never => clock.trigger <= clock.admission
    /\ stage = "reopen" /\ clock.admission # Never => clock.detection # Never
    /\ stage \in {"clearing", "done"} => clock.detection # Never /\ clock.admission # Never
    /\ stage \in {"clearing", "done"} /\ scenario = "pdb-blocked-eviction" =>
          clock.removed \in Nat /\ clock.trigger <= clock.removed

(***************************************************************************)
(* The change of leader precedes the snapshot.                             *)
(***************************************************************************)
LeaderStamped ==
    scenario = "leader-change" =>
        /\ stage \in {"begin", "electing"} => clock.restored = Never
        /\ stage \notin {"begin", "failed"} => clock.stopped \in Nat /\ clock.stopped <= now
        /\ stage \notin {"begin", "electing", "failed"} =>
              /\ clock.elected \in Nat /\ clock.stopped <= clock.elected
              /\ clock.drift \in Nat /\ clock.drift <= now
              /\ clock.restored # Never => clock.drift <= clock.restored
        /\ stage \notin {"begin", "electing", "drifted", "failed"} => clock.restored # Never

(***************************************************************************)
(* Without mishaps the workloads no eviction reaches run their first Pod.  *)
(***************************************************************************)
stays == {"protected", "pinned"} \cup IF scenario \in ToGame THEN {} ELSE {"standard"}

Undisturbed ==
    /\ mishaps \in Nat
    /\ mishaps = 0 => \A w \in stays :
          /\ pods[w][1] = "running"
          /\ stage \notin Early \cup {"failed"} => before[w] = 1

(***************************************************************************)
(* What was seen of the blocked Pod while it was blocked.                  *)
(***************************************************************************)
BlockedSeen ==
    scenario = "pdb-blocked-eviction" /\ stage \in {"clearing", "done"} =>
        blocked.before = blocked.after /\ blocked.holds

(***************************************************************************)
(* The return to idle starts closed to the lossy workload, and ends with   *)
(* one running.                                                            *)
(***************************************************************************)
Returning ==
    scenario = "return-to-idle" =>
        /\ host.activity # "game"
        /\ stage \in {"begin", "snapshot"} =>
              /\ host = [state |-> "active", activity |-> "interactive", heartbeatAt |-> now]
              /\ spec = NoWindows /\ ~node.label /\ clock.boundary = Never
              /\ \A u \in Pods : pods["lossy"][u] # "running"
        /\ before["lossy"] = 0
        /\ stage = "done" => holds("lossy")

TimelyInv == Stamped /\ LeaderStamped /\ Undisturbed /\ BlockedSeen /\ Returning

----------------------------------------------------------------------------
(***************************************************************************)
(* What a poll does to the other times of the clock.                       *)
(***************************************************************************)
seenAt(old, new) == new = old \/ (old = Never /\ new = now)

(***************************************************************************)
(* A poll times detection, admission and repair once, in the stages that   *)
(* wait for them.                                                          *)
(***************************************************************************)
LEMMA PollStamps ==
    ASSUME CanaryType
    PROVE  /\ seenAt(clock.detection, polled.detection) /\ seenAt(clock.admission, polled.admission)
           /\ stage \notin {"collect", "reopen"} =>
                 polled.detection = clock.detection /\ polled.admission = clock.admission
           /\ seenAt(clock.restored, polled.restored)
           /\ stage # "drifted" => polled.restored = clock.restored
           /\ stage = "reopen" /\ polled.admission # Never =>
                 clock.admission # Never \/ polled.detection # Never
<1>1. now \in Nat /\ clock \in ClockRecord
  BY DEF CanaryType
<1>2. /\ clock.detection \in Times /\ clock.admission \in Times /\ clock.restored \in Times
      /\ clock.released \in [Workloads -> Times]
  BY <1>1, ClockFields
<1>3. CASE stage = "collect"
  <2> DEFINE dt == first(clock.detection, conditionMatches(gate(scenario)))
             am == first(clock.admission, nodeMatches(gate(scenario)))
             rl == [w \in Workloads |->
                      first(clock.released[w], w \in evict(scenario) /\ released(w))]
             d == [clock EXCEPT !.detection = dt, !.admission = am]
  <2>1. dt \in Times /\ am \in Times
    BY <1>1, <1>2, FirstType
  <2>2. polled = [d EXCEPT !.released = rl]
    <3>1. polled = [clock EXCEPT !.detection = dt, !.admission = am, !.released = rl]
      BY <1>3, Zenon DEF polled
    <3> HIDE DEF dt, am, rl
    <3> QED
      BY <3>1, Zenon
  <2>3. seenAt(clock.detection, dt) /\ seenAt(clock.admission, am)
    BY <1>1, <1>2 DEF first, seenAt
  <2> HIDE DEF rl, dt, am
  <2>4. d \in ClockRecord /\ d.detection = dt /\ d.admission = am /\ d.restored = clock.restored
    BY <1>1, <2>1, PollWindow DEF PolledFrom
  <2> HIDE DEF d
  <2>5. polled.detection = dt /\ polled.admission = am /\ polled.restored = clock.restored
    BY <2>2, <2>4 DEF ClockRecord
  <2> QED
    BY <1>3, <2>3, <2>5 DEF seenAt
<1>4. CASE stage = "reopen"
  <2> DEFINE dt == first(clock.detection, conditionMatches(IdleGate) /\ nodeMatches(IdleGate))
             am == first(clock.admission, dt # Never /\ admits("probe"))
  <2>1. dt \in Times /\ am \in Times
    BY <1>1, <1>2, FirstType
  <2>2. /\ seenAt(clock.detection, dt) /\ seenAt(clock.admission, am)
        /\ am # Never => clock.admission # Never \/ dt # Never
    BY <1>1, <1>2 DEF first, seenAt
  <2>3. polled = [clock EXCEPT !.detection = dt, !.admission = am]
    BY <1>4, Zenon DEF polled
  <2> HIDE DEF dt, am
  <2> QED
    BY <1>1, <1>2, <1>4, <2>1, <2>2, <2>3, PollWindow DEF seenAt
<1>5. CASE stage = "drifted"
  <2> DEFINE rs == first(clock.restored, conditionMatches(IdleGate) /\ nodeMatches(IdleGate))
  <2>1. rs \in Times /\ seenAt(clock.restored, rs)
    BY <1>1, <1>2, FirstType DEF first, seenAt
  <2>2. polled = [clock EXCEPT !.restored = rs]
    BY <1>5, Zenon DEF polled
  <2> HIDE DEF rs
  <2> QED
    BY <1>1, <1>2, <1>5, <2>1, <2>2, PollRestored DEF seenAt
<1>6. CASE stage = "clearing"
  <2> DEFINE rl == [clock.released EXCEPT !["pdb"] = first(clock.released["pdb"], released("pdb"))]
  <2>1. polled = [clock EXCEPT !.released = rl]
    BY <1>6, Zenon DEF polled
  <2> HIDE DEF rl
  <2> QED
    BY <1>1, <1>6, <2>1 DEF ClockRecord, seenAt
<1>7. CASE stage \notin {"collect", "reopen", "drifted", "clearing"}
  BY <1>7 DEF polled, seenAt
<1> QED
  BY <1>3, <1>4, <1>5, <1>6, <1>7

----------------------------------------------------------------------------
(***************************************************************************)
(* The steps of the cluster leave the harness alone, and back.             *)
(***************************************************************************)
LEMMA ClusterSteps ==
    ASSUME CanaryNext
    PROVE  \/ Cancel \/ Drift \/ Arm \/ Snapshot \/ Trigger \/ Finish \/ Unblock \/ Fail
              \/ CanaryTick
           \/ UNCHANGED <<scenario, spec, now, harness, host>>
<1>1. Reconcile \/ Elect => UNCHANGED <<scenario, spec, now, harness, host>>
  BY DEF Reconcile, Elect
<1>2. ASSUME NEW w \in Workloads, NEW u \in Pods, Terminate(w, u) \/ Die(w, u) \/ Replace(w, u)
      PROVE  UNCHANGED <<scenario, spec, now, harness, host>>
  BY <1>2 DEF Terminate, Die, Replace, PodStep
<1> QED
  BY <1>1, <1>2 DEF CanaryNext

(***************************************************************************)
(* Every step keeps the order of the times.                                *)
(***************************************************************************)
LEMMA StampedKeeps ==
    ASSUME CanaryInv, Stamped, [CanaryNext]_canaryVars
    PROVE  Stamped'
<1>1. CanaryType /\ now \in Nat /\ now # Never
  BY DEF CanaryInv, CanaryType, Never
<1>2. /\ PolledFrom(clock, polled)
      /\ seenAt(clock.detection, polled.detection) /\ seenAt(clock.admission, polled.admission)
      /\ stage \notin {"collect", "reopen"} =>
            polled.detection = clock.detection /\ polled.admission = clock.admission
      /\ stage = "reopen" /\ polled.admission # Never =>
            clock.admission # Never \/ polled.detection # Never
  BY <1>1, PollTimes, PollStamps
<1>3. /\ stage \in {"electing", "drifted"} => scenario = "leader-change"
      /\ stage = "armed" => scenario = "scheduled-lead-time"
      /\ stage = "clearing" => scenario = "pdb-blocked-eviction"
      /\ clock.trigger \in Times /\ clock.detection \in Times /\ clock.admission \in Times
      /\ clock.removed \in Times
  BY <1>1, ClockFields DEF CanaryType
<1>4. CASE UNCHANGED <<scenario, now, stage, clock>>
  BY <1>4 DEF Stamped
<1>5. CASE Cancel \/ Arm
  <2>1. stage = "begin" /\ stage' \in Early
        /\ clock'.detection = clock.detection /\ clock'.admission = clock.admission
    <3>1. ASSUME Cancel
          PROVE  clock'.detection = clock.detection /\ clock'.admission = clock.admission
                 /\ stage = "begin" /\ stage' = "electing"
      BY <1>1, <3>1 DEF Cancel, CanaryType, ClockRecord, goTo
    <3>2. ASSUME Arm
          PROVE  clock'.detection = clock.detection /\ clock'.admission = clock.admission
                 /\ stage = "begin" /\ stage' = "armed"
      <4> DEFINE w == NextLeadWindow(now)
                 c1 == [clock EXCEPT !.boundary = w.boundary]
                 c2 == [c1 EXCEPT !.start = w.start]
      <4>1. clock' = [c2 EXCEPT !.lead = w.lead] /\ stage = "begin" /\ stage' = "armed"
        BY <3>2, Zenon DEF Arm, goTo
      <4> HIDE DEF w
      <4>2. /\ DOMAIN c1 = DOMAIN clock
            /\ c1.detection = clock.detection /\ c1.admission = clock.admission
        BY <1>1 DEF CanaryType, ClockRecord
      <4> HIDE DEF c1
      <4>3. /\ DOMAIN c2 = DOMAIN clock
            /\ c2.detection = clock.detection /\ c2.admission = clock.admission
        BY <1>1, <4>2 DEF CanaryType, ClockRecord
      <4> HIDE DEF c2
      <4> QED
        BY <1>1, <4>1, <4>3 DEF CanaryType, ClockRecord
    <3> QED
      BY <1>5, <3>1, <3>2 DEF Early
  <2> QED
    BY <2>1 DEF Stamped, Early
<1>6. CASE Drift
  <2> DEFINE c == [clock EXCEPT !.elected = now]
  <2>1. clock' = [c EXCEPT !.drift = now] /\ stage = "electing" /\ stage' = "drifted"
    BY <1>6, Zenon DEF Drift, goTo
  <2>2. c.detection = clock.detection /\ c.admission = clock.admission /\ DOMAIN c = DOMAIN clock
    BY <1>1 DEF CanaryType, ClockRecord
  <2> HIDE DEF c
  <2>3. clock'.detection = clock.detection /\ clock'.admission = clock.admission
    BY <1>1, <2>1, <2>2 DEF CanaryType, ClockRecord
  <2> QED
    BY <2>1, <2>3 DEF Stamped, Early
<1>7. CASE Snapshot
  <2>1. stage \in Early /\ stage' = "snapshot" /\ clock' = polled
    BY <1>7 DEF Snapshot, ready, goTo, Early
  <2> QED
    BY <1>2, <2>1 DEF Stamped, Early
<1>8. CASE Trigger
  <2>1. stage = "snapshot" /\ stage' \in {"reopen", "collect"}
        /\ clock' = [clock EXCEPT !.trigger = now] /\ now' = now
    BY <1>8 DEF Trigger, goTo
  <2>2. clock'.detection = clock.detection /\ clock'.admission = clock.admission
        /\ clock'.trigger = now
    BY <1>1, <2>1 DEF CanaryType, ClockRecord
  <2> QED
    BY <1>1, <2>1, <2>2 DEF Stamped, Early
<1>9. CASE Finish
  <2>1. /\ stage \in {"collect", "reopen", "clearing"}
        /\ stage = "collect" => scenario # "pdb-blocked-eviction"
        /\ stage = "reopen" => scenario = "return-to-idle"
        /\ waitOver(polled)
        /\ stage' \in Over /\ clock' = polled /\ now' = now /\ scenario' = scenario
    BY <1>1, <1>9 DEF Finish, goTo, Over, CanaryType
  <2>2. /\ stage = "collect" => polled.detection # Never /\ polled.admission # Never
        /\ stage = "reopen" => polled.admission # Never
    BY <2>1 DEF waitOver, collected, reopened
  <2>3. stage = "reopen" => polled.detection # Never
    BY <1>1, <1>2, <2>2 DEF Stamped, seenAt
  <2> QED
    BY <1>1, <1>2, <1>3, <2>1, <2>2, <2>3 DEF Stamped, Early, Over, PolledFrom, seenAt, Times, Never
<1>10. CASE Unblock
  <2> DEFINE p == polled
  <2>1. /\ stage = "collect" /\ waitOver(polled) /\ stage' = "clearing"
        /\ clock' = [p EXCEPT !.removed = now] /\ now' = now /\ scenario' = scenario
    BY <1>10 DEF Unblock, goTo
  <2>2. p.detection # Never /\ p.admission # Never /\ p = polled
    BY <2>1 DEF waitOver, collected
  <2>3. p \in ClockRecord
    BY <1>2 DEF PolledFrom
  <2> HIDE DEF p
  <2>4. /\ clock'.detection = p.detection /\ clock'.admission = p.admission
        /\ clock'.trigger = p.trigger /\ clock'.removed = now
    BY <2>1, <2>3 DEF ClockRecord
  <2> QED
    BY <1>1, <1>2, <1>3, <2>1, <2>2, <2>4 DEF Stamped, Early, PolledFrom, seenAt, Times, Never
<1>11. CASE Fail
  BY <1>11 DEF Fail, goTo, Stamped, Early
<1>12. CASE CanaryTick
  <2>1. stage \notin Over /\ stage' = stage /\ clock' = polled /\ now' = now + 1
        /\ scenario' = scenario
    BY <1>12 DEF CanaryTick
  <2> QED
    BY <1>1, <1>2, <1>3, <2>1 DEF Stamped, Early, Over, PolledFrom, seenAt, Times, Never
<1> QED
  BY <1>4, <1>5, <1>6, <1>7, <1>8, <1>9, <1>10, <1>11, <1>12, ClusterSteps DEF canaryVars, harness

----------------------------------------------------------------------------
(***************************************************************************)
(* Every step keeps the order of the times of a leader change.             *)
(***************************************************************************)
LEMMA LeaderStampedKeeps ==
    ASSUME CanaryInv, LeaderStamped, [CanaryNext]_canaryVars
    PROVE  LeaderStamped'
<1>1. CanaryType /\ now \in Nat /\ now # Never
  BY DEF CanaryInv, CanaryType, Never
<1>2. /\ PolledFrom(clock, polled) /\ seenAt(clock.restored, polled.restored)
      /\ stage # "drifted" => polled.restored = clock.restored
  BY <1>1, PollTimes, PollStamps
<1>3. /\ clock.stopped \in Times /\ clock.elected \in Times /\ clock.drift \in Times
      /\ clock.restored \in Times
  BY <1>1, ClockFields DEF CanaryType
<1>4. CASE UNCHANGED <<scenario, now, stage, clock>>
  BY <1>4 DEF LeaderStamped
<1>5. CASE scenario # "leader-change"
  <2>1. scenario' = scenario
    BY ClusterSteps
       DEF Cancel, Drift, Arm, Snapshot, Trigger, Finish, Unblock, Fail, CanaryTick, canaryVars
  <2> QED
    BY <1>5, <2>1 DEF LeaderStamped
<1>6. CASE scenario = "leader-change" /\ Cancel
  <2>1. stage = "begin" /\ stage' = "electing" /\ clock' = [clock EXCEPT !.stopped = now]
        /\ now' = now
    BY <1>6 DEF Cancel, goTo
  <2>2. clock'.stopped = now /\ clock'.restored = clock.restored
    BY <1>1, <2>1 DEF CanaryType, ClockRecord
  <2>3. clock.restored = Never
    BY <1>1, <1>6, <2>1 DEF LeaderStamped
  <2>4. now \in Nat
    BY <1>1 DEF CanaryType
  <2> QED
    BY <2>1, <2>2, <2>3, <2>4 DEF LeaderStamped
<1>7. CASE scenario = "leader-change" /\ Drift
  <2> DEFINE c == [clock EXCEPT !.elected = now]
  <2>1. clock' = [c EXCEPT !.drift = now] /\ stage = "electing" /\ stage' = "drifted" /\ now' = now
    BY <1>7, Zenon DEF Drift, goTo
  <2>2. /\ c \in ClockRecord /\ c.stopped = clock.stopped /\ c.restored = clock.restored
        /\ c.elected = now
    BY <1>1, SMTT(30) DEF CanaryType, ClockRecord, Times
  <2> HIDE DEF c
  <2>3. /\ clock'.stopped = clock.stopped /\ clock'.restored = clock.restored
        /\ clock'.elected = now /\ clock'.drift = now
    BY <2>1, <2>2 DEF ClockRecord
  <2> QED
    BY <1>1, <1>7, <2>1, <2>3 DEF LeaderStamped
<1>8. CASE scenario = "leader-change" /\ Snapshot
  <2>1. stage = "drifted" /\ polled.restored # Never /\ stage' = "snapshot" /\ clock' = polled
        /\ now' = now
    BY <1>8 DEF Snapshot, ready, goTo
  <2> QED
    BY <1>1, <1>2, <1>3, <1>8, <2>1 DEF LeaderStamped, PolledFrom, seenAt
<1>9. CASE scenario = "leader-change" /\ Trigger
  <2>1. stage = "snapshot" /\ stage' = "collect" /\ clock' = [clock EXCEPT !.trigger = now]
        /\ now' = now
    BY <1>9 DEF Trigger, goTo
  <2>2. /\ clock'.stopped = clock.stopped /\ clock'.restored = clock.restored
        /\ clock'.elected = clock.elected /\ clock'.drift = clock.drift
    BY <1>1, <2>1 DEF CanaryType, ClockRecord
  <2> QED
    BY <1>9, <2>1, <2>2 DEF LeaderStamped
<1>10. CASE scenario = "leader-change" /\ Finish
  <2>1. stage \in {"collect", "reopen", "clearing"} /\ stage' \in Over /\ clock' = polled
        /\ now' = now
    BY <1>10 DEF Finish, goTo, Over
  <2> QED
    BY <1>2, <1>10, <2>1 DEF LeaderStamped, PolledFrom, Over
<1>11. CASE scenario = "leader-change" /\ Fail
  BY <1>11 DEF Fail, goTo, LeaderStamped
<1>12. CASE scenario = "leader-change" /\ CanaryTick
  <2>1. stage \notin Over \cup {"begin"} /\ stage' = stage /\ clock' = polled /\ now' = now + 1
        /\ scenario' = scenario
    BY <1>12 DEF CanaryTick
  <2> QED
    BY <1>1, <1>2, <1>3, <1>12, <2>1 DEF LeaderStamped, PolledFrom, seenAt, Times, Never
<1>13. scenario = "leader-change" => ~Arm /\ ~Unblock
  BY DEF Arm, Unblock
<1> QED
  BY <1>4, <1>5, <1>6, <1>7, <1>8, <1>9, <1>10, <1>11, <1>12, <1>13, ClusterSteps
     DEF canaryVars, harness

(***************************************************************************)
(* What was seen of the blocked Pod is what assertStillBlocked demands.    *)
(***************************************************************************)
LEMMA BlockedSeenKeeps ==
    ASSUME CanaryInv, BlockedSeen, [CanaryNext]_canaryVars
    PROVE  BlockedSeen'
<1>1. CanaryType /\ InTurn
  BY DEF CanaryInv
<1>2. CASE UNCHANGED <<scenario, stage, blocked>>
  BY <1>2 DEF BlockedSeen
<1>3. CASE Cancel \/ Drift \/ Arm \/ Snapshot \/ Trigger \/ Fail
  <2>1. stage' \notin {"clearing", "done"}
    BY <1>3 DEF Cancel, Drift, Arm, Snapshot, Trigger, Fail, goTo
  <2> QED
    BY <2>1 DEF BlockedSeen
<1>4. CASE Finish
  <2>1. scenario = "pdb-blocked-eviction" => stage = "clearing"
    BY <1>1, <1>4 DEF Finish, CanaryType
  <2>2. UNCHANGED <<scenario, blocked>>
    BY <1>4 DEF Finish
  <2> QED
    BY <2>1, <2>2 DEF BlockedSeen
<1>5. CASE Unblock
  <2>1. before["pdb"] # 0 /\ runningPod("pdb") = before["pdb"] /\ blocked' = view("pdb")
    BY <1>5 DEF Unblock, stillBlocked
  <2>2. runningPod("pdb") \in Pods /\ pods["pdb"][runningPod("pdb")] = "running"
    BY <1>1, <2>1, RunningIs DEF Workloads
  <2>3. holds("pdb")
    BY <2>2 DEF holds
  <2> QED
    BY <2>1, <2>3 DEF BlockedSeen, view
<1>6. CASE CanaryTick
  BY <1>6 DEF CanaryTick, BlockedSeen
<1> QED
  BY <1>2, <1>3, <1>4, <1>5, <1>6, ClusterSteps DEF canaryVars, harness

----------------------------------------------------------------------------
(***************************************************************************)
(* The steps of the harness leave the Pods alone.                          *)
(***************************************************************************)
LEMMA HarnessSteps ==
    ASSUME [CanaryNext]_canaryVars
    PROVE  \/ Reconcile
           \/ \E w \in Workloads, u \in Pods :
                 PodStep(w, u, "terminating", "gone") /\ mishaps' = mishaps
           \/ \E w \in Workloads, u \in Pods :
                 PodStep(w, u, "running", "gone") /\ mishaps' = mishaps + 1
           \/ \E w \in Workloads, u \in Pods :
                 PodStep(w, u, "none", "running") /\ admits(w) /\ mishaps' = mishaps
           \/ UNCHANGED <<scenario, pods, mishaps>>
<1>1. (\/ Cancel \/ Drift \/ Arm \/ Snapshot \/ Trigger \/ Finish \/ Unblock \/ Fail
       \/ CanaryTick \/ Elect)
         => UNCHANGED <<scenario, pods, mishaps>>
  BY DEF Cancel, Drift, Arm, Snapshot, Trigger, Finish, Unblock, Fail, CanaryTick, Elect, cluster
<1>2. UNCHANGED canaryVars => UNCHANGED <<scenario, pods, mishaps>>
  BY DEF canaryVars, cluster
<1>3. ASSUME NEW w \in Workloads, NEW u \in Pods
      PROVE  /\ Terminate(w, u) => PodStep(w, u, "terminating", "gone") /\ mishaps' = mishaps
             /\ Die(w, u) => PodStep(w, u, "running", "gone") /\ mishaps' = mishaps + 1
             /\ Replace(w, u) => PodStep(w, u, "none", "running") /\ admits(w) /\ mishaps' = mishaps
  BY DEF Terminate, Die, Replace
<1> QED
  BY <1>1, <1>2, <1>3 DEF CanaryNext

(***************************************************************************)
(* A step that makes a recorded workload out of an unrecorded one is the   *)
(* snapshot.                                                               *)
(***************************************************************************)
LEMMA BeforeKept ==
    ASSUME CanaryType, [CanaryNext]_canaryVars, stage' \notin Early \cup {"failed"}
    PROVE  \/ before' = [w \in Workloads |-> runningPod(w)] /\ pods' = pods
           \/ before' = before /\ stage \notin Early \cup {"failed"}
<1>1. Snapshot => before' = [w \in Workloads |-> runningPod(w)] /\ pods' = pods
  BY DEF Snapshot, cluster
<1>2. Cancel \/ Drift \/ Arm \/ Fail => stage' \in Early \cup {"failed"}
  BY DEF Cancel, Drift, Arm, Fail, goTo, Early
<1>3. Trigger \/ Finish \/ Unblock => before' = before /\ stage \notin Early \cup {"failed"}
  BY DEF Trigger, Finish, Unblock, Early
<1>4. CanaryTick => before' = before /\ stage' = stage
  BY DEF CanaryTick
<1>5. UNCHANGED <<scenario, spec, now, harness, host>> => before' = before /\ stage' = stage
  BY DEF harness
<1>6. UNCHANGED canaryVars => before' = before /\ stage' = stage
  BY DEF canaryVars, harness
<1> QED
  BY <1>1, <1>2, <1>3, <1>4, <1>5, <1>6, ClusterSteps

(***************************************************************************)
(* A pass never evicts what stays.                                         *)
(***************************************************************************)
LEMMA StaysSpared ==
    ASSUME CanaryInv, Returning, stage \notin Over, NEW w \in stays
    PROVE  w \notin Evictable(mayEvict) /\ w \in Workloads
<1>1. mayEvict = "game" => scenario \in ToGame
  <2>1. CASE scenario = "return-to-idle"
    BY <2>1, GameNeedsGame DEF Returning
  <2>2. CASE scenario # "return-to-idle"
    <3>1. Recovers
      BY <2>2 DEF Recovers, Over
    <3> QED
      BY <3>1, PassCloses DEF CanaryInv
  <2> QED
    BY <2>1, <2>2
<1>2. w \in Evictable(mayEvict) => w \in Evictables /\ (w = "standard" => mayEvict = "game")
  BY EvictableOnly
<1> QED
  BY <1>1, <1>2 DEF stays, Evictables, Workloads

(***************************************************************************)
(* Without mishaps nothing ends the Pods that stay.                        *)
(***************************************************************************)
LEMMA UndisturbedKeeps ==
    ASSUME CanaryInv, Returning, Undisturbed, [CanaryNext]_canaryVars
    PROVE  Undisturbed'
<1>1. CanaryType /\ InTurn /\ 1 \in Pods /\ mishaps \in Nat
  <2>1. 1 \in Pods
    BY ConstantsType, CanaryAssumption DEF Pods
  <2> QED
    BY <2>1 DEF CanaryInv, Undisturbed
<1>2. /\ scenario' = scenario /\ mishaps' \in Nat /\ (mishaps' = 0 => mishaps = 0)
      /\ mishaps' = 0 => \A w \in stays : pods[w][1] = "running" /\ pods'[w][1] = "running"
  <2>1. CASE Reconcile
    <3>1. PICK T \in SUBSET Evictable(mayEvict) :
             /\ \A x \in Workloads, u \in Pods :
                   pods'[x][u] = IF x \in T /\ pods[x][u] = "running" THEN "terminating"
                                 ELSE pods[x][u]
             /\ stage \notin Over /\ UNCHANGED <<scenario, mishaps>>
      BY <1>1, <2>1, ReconcileShape
    <3>2. \A w \in stays : w \in Workloads /\ w \notin T
      BY <3>1, StaysSpared
    <3> QED
      BY <1>1, <3>1, <3>2 DEF Undisturbed
  <2>2. ASSUME NEW x \in Workloads, NEW u \in Pods, NEW from, NEW to \in Phases,
               PodStep(x, u, from, to), from # "running", mishaps' = mishaps
        PROVE  /\ scenario' = scenario
               /\ mishaps' = 0 => \A w \in stays : pods[w][1] = "running" /\ pods'[w][1] = "running"
    <3>1. /\ scenario' = scenario /\ pods[x][u] = from
          /\ \A y \in Workloads, v \in Pods : y # x \/ v # u => pods'[y][v] = pods[y][v]
      BY <1>1, <2>2, PodStepShape
    <3> QED
      BY <1>1, <2>2, <3>1 DEF Undisturbed, stays, Workloads
  <2>3. ASSUME NEW x \in Workloads, NEW u \in Pods, PodStep(x, u, "running", "gone"),
               mishaps' = mishaps + 1
        PROVE  scenario' = scenario /\ mishaps' \in Nat /\ mishaps' # 0
    BY <1>1, <2>3 DEF PodStep
  <2>4. CASE UNCHANGED <<scenario, pods, mishaps>>
    BY <2>4 DEF Undisturbed
  <2> QED
    BY <1>1, <2>1, <2>2, <2>3, <2>4, HarnessSteps DEF Phases
<1>3. stays' = stays
  BY <1>2 DEF stays
<1>4. ASSUME mishaps' = 0, NEW w \in stays, stage' \notin Early \cup {"failed"}
      PROVE  before'[w] = 1
  <2>1. pods[w][1] = "running" /\ w \in Workloads
    BY <1>2, <1>4 DEF stays, Workloads
  <2>2. runningPod(w) = 1
    BY <1>1, <2>1, RunningIs
  <2> QED
    BY <1>1, <1>2, <1>4, <2>1, <2>2, BeforeKept DEF Undisturbed
<1> QED
  BY <1>2, <1>3, <1>4 DEF Undisturbed

(***************************************************************************)
(* The trigger as it changes stage and host.                               *)
(***************************************************************************)
LEMMA TriggerShape ==
    ASSUME Trigger
    PROVE  /\ stage' = IF scenario = "return-to-idle" THEN "reopen" ELSE "collect"
           /\ host' = [state |-> reportedBy(scenario).state,
                       activity |-> reportedBy(scenario).activity, heartbeatAt |-> now]
           /\ before' = before
BY DEF Trigger, goTo

(***************************************************************************)
(* The return to idle.                                                     *)
(***************************************************************************)
LEMMA ReturningKeeps ==
    ASSUME CanaryInv, Returning, [CanaryNext]_canaryVars
    PROVE  Returning'
<1>1. CanaryType /\ InTurn /\ now \in Nat /\ now > 0
  BY DEF CanaryInv, CanaryType
<1>2. scenario' = scenario
  BY ClusterSteps
     DEF Cancel, Drift, Arm, Snapshot, Trigger, Finish, Unblock, Fail, CanaryTick, canaryVars
<1> SUFFICES ASSUME scenario = "return-to-idle" PROVE Returning'
  BY <1>2 DEF Returning
<1>3. ~Cancel /\ ~Drift /\ ~Arm /\ ~Unblock
  BY <1>1 DEF Cancel, Drift, Arm, Unblock, CanaryType
<1>4. CASE Reconcile
  <2>1. PICK T \in SUBSET Evictable(mayEvict) :
           /\ \A x \in Workloads, u \in Pods :
                 pods'[x][u] = IF x \in T /\ pods[x][u] = "running" THEN "terminating"
                               ELSE pods[x][u]
           /\ node' = wanted /\ stage \notin Over
           /\ UNCHANGED <<scenario, spec, now, stage, before, clock, blocked, host>>
    BY <1>1, <1>4, ReconcileShape
  <2>2. stage \in {"begin", "snapshot"} =>
           ~node'.label /\ \A u \in Pods : pods'["lossy"][u] # "running"
    <3> SUFFICES ASSUME stage \in {"begin", "snapshot"}
                 PROVE  ~node'.label /\ \A u \in Pods : pods'["lossy"][u] # "running"
      OBVIOUS
    <3>1. /\ host = [state |-> "active", activity |-> "interactive", heartbeatAt |-> now]
          /\ spec = NoWindows /\ \A u \in Pods : pods["lossy"][u] # "running"
      BY DEF Returning
    <3>2. ~wanted.label
      BY <1>1, <3>1, WantsInteractive
    <3>3. "lossy" \in Workloads
      BY DEF Workloads
    <3> QED
      BY <2>1, <3>1, <3>2, <3>3
  <2> QED
    BY <2>1, <2>2 DEF Returning, Over
<1>5. ASSUME NEW w \in Workloads, NEW u \in Pods, NEW from, NEW to \in Phases,
             PodStep(w, u, from, to), to = "running" => admits(w)
      PROVE  Returning'
  <2>1. /\ pods'[w][u] = to
        /\ \A x \in Workloads, v \in Pods : x # w \/ v # u => pods'[x][v] = pods[x][v]
        /\ stage \notin Over
        /\ UNCHANGED <<scenario, spec, now, stage, before, clock, host, node>>
    BY <1>1, <1>5, PodStepShape
  <2>2. stage \in {"begin", "snapshot"} => \A v \in Pods : pods'["lossy"][v] # "running"
    <3> SUFFICES ASSUME stage \in {"begin", "snapshot"}, NEW v \in Pods
                 PROVE  pods'["lossy"][v] # "running"
      OBVIOUS
    <3>1. ~node.label /\ pods["lossy"][v] # "running" /\ "lossy" \in Workloads
      BY DEF Returning, Workloads
    <3>2. w = "lossy" => to # "running"
      BY <1>5, <3>1 DEF admits, Catalog, profile
    <3> QED
      BY <2>1, <3>1, <3>2
  <2> QED
    BY <2>1, <2>2 DEF Returning, Over
<1>6. CASE Elect
  BY <1>6 DEF Elect, Returning, harness, holds
<1>7. CASE Snapshot
  <2>1. /\ stage = "begin" /\ stage' = "snapshot" /\ clock' = polled
        /\ before' = [w \in Workloads |-> runningPod(w)]
        /\ UNCHANGED <<scenario, spec, now, host, node, pods>>
    BY <1>7 DEF Snapshot, ready, goTo, cluster
  <2>2. runningPod("lossy") = 0 /\ "lossy" \in Workloads
    BY <1>1, <2>1, RunningIs DEF Returning, Workloads
  <2>3. clock'.boundary = clock.boundary
    BY <1>1, <2>1, PollTimes DEF PolledFrom
  <2> QED
    BY <2>1, <2>2, <2>3 DEF Returning
<1>8. CASE Trigger
  <2>1. stage' = "reopen" /\ host'.activity = "idle" /\ before' = before
    BY <1>8, TriggerShape DEF reportedBy, ToGame
  <2> QED
    BY <2>1 DEF Returning
<1>9. CASE Finish
  <2>1. stage = "reopen" /\ waitOver(polled) /\ stage' \in Over
        /\ UNCHANGED <<host, before, pods>>
    BY <1>1, <1>9 DEF Finish, goTo, Over, cluster, CanaryType
  <2>2. runningPod("lossy") # 0
    BY <2>1 DEF waitOver, reopened
  <2>3. holds("lossy")
    <3>1. "lossy" \in Workloads
      BY DEF Workloads
    <3> QED
      BY <1>1, <2>2, <3>1, RunningIs DEF holds
  <2>4. holds("lossy")'
    BY <2>1, <2>3 DEF holds
  <2> QED
    BY <2>1, <2>4 DEF Returning, Over
<1>10. CASE Fail
  <2>1. stage' = "failed" /\ UNCHANGED <<host, before>>
    BY <1>10 DEF Fail, goTo, cluster
  <2> QED
    BY <2>1 DEF Returning
<1>11. CASE CanaryTick
  <2>1. /\ stage \notin Over \cup {"begin"} /\ ~waitOver(polled) /\ now < deadline(polled)
        /\ host' = [host EXCEPT !.heartbeatAt = IF reporting THEN now + 1 ELSE @]
        /\ UNCHANGED <<stage, before>>
    BY <1>11 DEF CanaryTick
  <2>2. stage # "snapshot"
    <3> SUFFICES ASSUME stage = "snapshot" PROVE FALSE
      OBVIOUS
    <3>1. polled.boundary = Never
      BY <1>1, PollTimes DEF PolledFrom, Returning
    <3> QED
      BY <1>1, <2>1, <3>1 DEF deadline, Never
  <2>3. host'.activity = host.activity
    BY <1>1, <2>1 DEF CanaryType
  <2> QED
    BY <2>1, <2>2, <2>3 DEF Returning, Over
<1>12. CASE UNCHANGED canaryVars
  BY <1>12 DEF canaryVars, harness, cluster, Returning, holds
<1>13. ASSUME NEW w \in Workloads, NEW u \in Pods, Terminate(w, u) \/ Die(w, u) \/ Replace(w, u)
       PROVE  Returning'
  BY <1>5, <1>13 DEF Terminate, Die, Replace, Phases
<1> QED
  BY <1>3, <1>4, <1>6, <1>7, <1>8, <1>9, <1>10, <1>11, <1>12, <1>13 DEF CanaryNext

----------------------------------------------------------------------------
(***************************************************************************)
(* A scenario starts with no time taken.                                   *)
(***************************************************************************)
LEMMA TimelyInit ==
    ASSUME CanaryInit
    PROVE  TimelyInv
<1>1. CanaryInv /\ MaxPods \in Nat /\ MaxPods > 0
  BY InitKeeps, ConstantsType, CanaryAssumption
<1>2. stage = "begin" /\ clock = NotTimed /\ mishaps = 0 /\ spec = NoWindows
  BY DEF CanaryInit
<1>3. Stamped /\ LeaderStamped /\ BlockedSeen
  BY <1>2 DEF Stamped, LeaderStamped, BlockedSeen, NotTimed, Early
<1>4. pods = [w \in Workloads |-> podsAtStart(w)] /\ before = [w \in Workloads |-> 0]
  BY DEF CanaryInit
<1>5. Undisturbed
  <2>1. ASSUME NEW w \in stays PROVE pods[w][1] = "running"
    <3>1. w \in {"protected", "pinned", "standard"} /\ w \in Workloads /\ 1 \in Pods
      BY <1>1 DEF stays, Workloads, Pods
    <3> QED
      BY <1>4, <3>1 DEF podsAtStart
  <2> QED
    BY <1>2, <2>1 DEF Undisturbed, Early
<1>6. Returning
  <2> SUFFICES ASSUME scenario = "return-to-idle" PROVE Returning
    BY DEF Returning
  <2>1. host = [state |-> "active", activity |-> "interactive", heartbeatAt |-> now]
    BY DEF CanaryInit
  <2>2. ~node.label
    <3>1. node = wanted /\ now \in Nat /\ now > 0
      BY <1>1 DEF CanaryInit, wanted, CanaryInv, CanaryType
    <3> QED
      BY <1>2, <2>1, <3>1, WantsInteractive
  <2>3. "lossy" \in Workloads /\ \A u \in Pods : pods["lossy"][u] # "running"
    BY <1>4 DEF podsAtStart, Workloads
  <2> QED
    BY <1>2, <1>4, <2>1, <2>2, <2>3 DEF Returning, NotTimed
<1> QED
  BY <1>3, <1>5, <1>6 DEF TimelyInv

(***************************************************************************)
(* The second invariant: what a run that nothing disturbed looks like.     *)
(***************************************************************************)
THEOREM CanaryTimely == CanarySpec => []TimelyInv
<1>1. CanaryInit => TimelyInv
  BY TimelyInit
<1>2. CanaryInv /\ TimelyInv /\ [CanaryNext]_canaryVars => TimelyInv'
  BY StampedKeeps, LeaderStampedKeeps, UndisturbedKeeps, BlockedSeenKeeps, ReturningKeeps
     DEF TimelyInv
<1> QED
  BY <1>1, <1>2, CanaryInvariant, PTL DEF CanarySpec

----------------------------------------------------------------------------
(***************************************************************************)
(* What a run has to be for its result to pass, but for the budgets of its *)
(* phases: timed in order, and each workload as the scenario expects it.   *)
(***************************************************************************)
InOrder(name, m) ==
    /\ m.trigger \in Nat /\ m.detection \in Nat /\ m.admission \in Nat
    /\ m.trigger <= m.detection /\ m.trigger <= m.admission
    /\ name # "return-to-idle" =>
          /\ m.acceptance \in Nat /\ m.trigger <= m.acceptance
          /\ m.release \in Nat /\ m.trigger <= m.release
          /\ m.gap \in Nat /\ m.gap >= minAcceptanceGap
    /\ name = "leader-change" =>
          /\ m.stopped \in Nat /\ m.elected \in Nat /\ m.stopped <= m.elected
          /\ m.drift \in Nat /\ m.restored \in Nat /\ m.drift <= m.restored
    /\ name = "pdb-blocked-eviction" =>
          /\ m.removed \in Nat /\ m.trigger <= m.removed
          /\ m.clearedAccept \in Nat /\ m.removed <= m.clearedAccept
          /\ m.clearedRelease \in Nat /\ m.clearedRelease >= m.clearedAccept + minAcceptanceGap
    /\ name = "scheduled-lead-time" => m.lead > 0 /\ m.start # Never

AsExpected(name, views, bound) ==
    /\ \A w \in statusWorkloads :
          IF w \in evict(name) THEN ~views[w].holds
          ELSE views[w].holds /\ views[w].before \in {0, views[w].after}
    /\ \A w \in {"protected", "pinned"} : views[w].before # 0
    /\ name = "pdb-blocked-eviction" =>
          bound.before = bound.after /\ bound.holds /\ ~views["pdb"].holds

(***************************************************************************)
(* A sample that is timed in order and in its budget passes.               *)
(***************************************************************************)
Timed(name, s, from, to) ==
    /\ s.applicable = TRUE /\ s.triggerAt = from /\ s.observedAt = to /\ s.duration = to - from
    /\ s.budget = AllowedBudget(DefaultBudget, name, s.phase)
    /\ s.withinBudget => to - from <= AllowedBudget(DefaultBudget, name, s.phase)

(***************************************************************************)
(* Such a sample passes when what it claims of recovery or block is true.  *)
(***************************************************************************)
LEMMA TimedPasses ==
    ASSUME NEW name, NEW s, NEW from \in Nat, NEW to \in Nat, from <= to,
           Timed(name, s, from, to), s.withinBudget,
           s.expected \in {"observed", "reopened", "blocked"},
           s.satisfies => s.phase = "release" /\ provesRecovery(DefaultBudget, s),
           s.expected = "blocked" => provesBlock(s)
    PROVE  checkSample(DefaultBudget, name, s)
BY DEF Timed, checkSample, Never

(***************************************************************************)
(* The samples of detection, admission and eviction pass.                  *)
(***************************************************************************)
LEMMA RecoveryPasses ==
    ASSUME NEW name, NEW m, InOrder(name, m), name # "return-to-idle", NEW trigger,
           NEW s \in Range(recoverySamples(DefaultBudget, name, trigger, m)), s.withinBudget
    PROVE  s.trigger = trigger /\ checkSample(DefaultBudget, name, s)
<1> DEFINE det == sample(DefaultBudget, name, "detection", trigger, m.trigger, m.detection,
                         "observed", {}, FALSE, Never)
           adm == sample(DefaultBudget, name, "admission", trigger, m.trigger, m.admission,
                         "observed", {}, FALSE, Never)
           evi == sample(DefaultBudget, name, "eviction", trigger, m.trigger, m.acceptance,
                         "observed", {"eviction-accepted"}, FALSE, Never)
<1>1. s \in {det, adm, evi}
  BY Holds3, ZenonT(60) DEF recoverySamples
<1>2. /\ m.trigger \in Nat /\ m.detection \in Nat /\ m.admission \in Nat /\ m.acceptance \in Nat
      /\ m.trigger <= m.detection /\ m.trigger <= m.admission /\ m.trigger <= m.acceptance
  BY DEF InOrder
<1>3. CASE s = det
  <2>1. Timed(name, s, m.trigger, m.detection)
    BY <1>3 DEF Timed, sample
  <2>2. s.expected \in {"observed", "reopened"} /\ ~s.satisfies /\ s.trigger = trigger
    BY <1>3 DEF sample
  <2> QED
    BY <1>2, <2>1, <2>2, TimedPasses
<1>4. CASE s = adm
  <2>1. Timed(name, s, m.trigger, m.admission)
    BY <1>4 DEF Timed, sample
  <2>2. s.expected \in {"observed", "reopened"} /\ ~s.satisfies /\ s.trigger = trigger
    BY <1>4 DEF sample
  <2> QED
    BY <1>2, <2>1, <2>2, TimedPasses
<1>5. CASE s = evi
  <2>1. Timed(name, s, m.trigger, m.acceptance)
    BY <1>5 DEF Timed, sample
  <2>2. s.expected \in {"observed", "reopened"} /\ ~s.satisfies /\ s.trigger = trigger
    BY <1>5 DEF sample
  <2> QED
    BY <1>2, <2>1, <2>2, TimedPasses
<1> QED
  BY <1>1, <1>3, <1>4, <1>5

(***************************************************************************)
(* An observed release passes: it has a gap to the acceptance and lies in  *)
(* the end-to-end budget.                                                  *)
(***************************************************************************)
LEMMA ReleasePasses ==
    ASSUME NEW name, NEW s, NEW from \in Nat, NEW to \in Nat, from <= to,
           Timed(name, s, from, to), s.withinBudget,
           s.phase = "release", s.expected = "observed",
           {"pod-absent", "requests-dropped"} \subseteq s.evidence, "still-bound" \notin s.evidence,
           s.gap \in Nat, s.gap >= minAcceptanceGap
    PROVE  checkSample(DefaultBudget, name, s)
<1>1. AllowedBudget(DefaultBudget, name, "release") = DefaultBudget.endToEnd
  BY ConstantsType DEF AllowedBudget
<1>2. provesRecovery(DefaultBudget, s)
  BY <1>1 DEF provesRecovery, Timed, Never
<1> QED
  BY <1>2, TimedPasses

(***************************************************************************)
(* The four shapes of a scenario's samples.                                *)
(***************************************************************************)
LEMMA IdlePasses ==
    ASSUME NEW m, InOrder("return-to-idle", m),
           NEW s \in Range(idleSamples(DefaultBudget, "return-to-idle", m)), s.withinBudget
    PROVE  s.trigger = "status" /\ checkSample(DefaultBudget, "return-to-idle", s)
<1> DEFINE det == sample(DefaultBudget, "return-to-idle", "detection", "status", m.trigger,
                         m.detection, "observed", {}, FALSE, Never)
           adm == sample(DefaultBudget, "return-to-idle", "admission-reopen", "status", m.trigger,
                         m.admission, "reopened", {}, FALSE, Never)
           evi == inactive(DefaultBudget, "return-to-idle", "eviction")
           rel == inactive(DefaultBudget, "return-to-idle", "release")
<1>1. s \in {det, adm, evi, rel}
  <2> DEFINE all == idleSamples(DefaultBudget, "return-to-idle", m)
  <2>1. all = <<det, adm, evi, rel>>
    BY DEF idleSamples
  <2>2. s \in Range(all)
    OBVIOUS
  <2> HIDE DEF all, det, adm, evi, rel
  <2>3. Range(all) = {det, adm, evi, rel}
    BY <2>1 DEF Range
  <2> QED
    BY <2>2, <2>3
<1>2. /\ m.trigger \in Nat /\ m.detection \in Nat /\ m.admission \in Nat
      /\ m.trigger <= m.detection /\ m.trigger <= m.admission
  BY DEF InOrder
<1>3. CASE s = det
  <2>1. Timed("return-to-idle", s, m.trigger, m.detection)
    BY <1>3 DEF Timed, sample
  <2>2. s.expected \in {"observed", "reopened"} /\ ~s.satisfies /\ s.trigger = "status"
    BY <1>3 DEF sample
  <2> QED
    BY <1>2, <2>1, <2>2, TimedPasses
<1>4. CASE s = adm
  <2>1. Timed("return-to-idle", s, m.trigger, m.admission)
    BY <1>4 DEF Timed, sample
  <2>2. s.expected \in {"observed", "reopened"} /\ ~s.satisfies /\ s.trigger = "status"
    BY <1>4 DEF sample
  <2> QED
    BY <1>2, <2>1, <2>2, TimedPasses
<1>5. CASE s \in {evi, rel}
  BY <1>5 DEF inactive, checkSample
<1> QED
  BY <1>1, <1>3, <1>4, <1>5

(***************************************************************************)
(* The samples of the leader change pass.                                  *)
(***************************************************************************)
LEMMA LeaderPasses ==
    ASSUME NEW m, InOrder("leader-change", m),
           NEW s \in Range(leaderSamples(DefaultBudget, "leader-change", m)), s.withinBudget
    PROVE  s.trigger \in {"leader-cancelled", "leader-drift"}
           /\ checkSample(DefaultBudget, "leader-change", s)
<1> DEFINE ele == sample(DefaultBudget, "leader-change", "leader-election", "leader-cancelled",
                         m.stopped, m.elected, "observed", {}, FALSE, Never)
           res == sample(DefaultBudget, "leader-change", "leader-restore", "leader-drift",
                         m.drift, m.restored, "observed", {}, FALSE, Never)
<1>1. s \in {ele, res}
  BY Holds2, ZenonT(60) DEF leaderSamples
<1>2. /\ m.stopped \in Nat /\ m.elected \in Nat /\ m.stopped <= m.elected
      /\ m.drift \in Nat /\ m.restored \in Nat /\ m.drift <= m.restored
  BY DEF InOrder
<1>3. CASE s = ele
  <2>1. Timed("leader-change", s, m.stopped, m.elected)
    BY <1>3 DEF Timed, sample
  <2>2. s.expected \in {"observed", "reopened"} /\ ~s.satisfies /\ s.trigger = "leader-cancelled"
    BY <1>3 DEF sample
  <2> QED
    BY <1>2, <2>1, <2>2, TimedPasses
<1>4. CASE s = res
  <2>1. Timed("leader-change", s, m.drift, m.restored)
    BY <1>4 DEF Timed, sample
  <2>2. s.expected \in {"observed", "reopened"} /\ ~s.satisfies /\ s.trigger = "leader-drift"
    BY <1>4 DEF sample
  <2> QED
    BY <1>2, <2>1, <2>2, TimedPasses
<1> QED
  BY <1>1, <1>3, <1>4

(***************************************************************************)
(* The samples of the blocked and the cleared eviction pass.               *)
(***************************************************************************)
LEMMA PdbPasses ==
    ASSUME NEW m, InOrder("pdb-blocked-eviction", m),
           NEW s \in Range(pdbSamples(DefaultBudget, "pdb-blocked-eviction", m)), s.withinBudget
    PROVE  s.trigger \in {"status", "pdb-deleted"}
           /\ checkSample(DefaultBudget, "pdb-blocked-eviction", s)
<1> DEFINE name == "pdb-blocked-eviction"
           e1 == sample(DefaultBudget, name, "eviction", "status", m.trigger, m.removed, "blocked",
                        {"deletionTimestamp-absent", "pdb-blocked"}, FALSE, Never)
           r1 == sample(DefaultBudget, name, "release", "status", m.trigger, m.removed, "blocked",
                        {"still-bound"}, FALSE, Never)
           e2 == sample(DefaultBudget, name, "eviction", "pdb-deleted", m.removed, m.clearedAccept,
                        "observed", {"eviction-accepted"}, FALSE, Never)
           r2 == sample(DefaultBudget, name, "release", "pdb-deleted", m.removed, m.clearedRelease,
                        "observed", {"pod-absent", "requests-dropped", "after-pdb-removed"}, TRUE,
                        m.clearedRelease - m.clearedAccept)
<1>1. s \in {e1, r1, e2, r2}
  <2> DEFINE all == pdbSamples(DefaultBudget, name, m)
  <2>1. all = <<e1, r1, e2, r2>>
    BY DEF pdbSamples
  <2>2. s \in Range(all)
    OBVIOUS
  <2> HIDE DEF all, e1, r1, e2, r2
  <2>3. Range(all) = {e1, r1, e2, r2}
    BY <2>1 DEF Range
  <2> QED
    BY <2>2, <2>3
<1>2. /\ m.trigger \in Nat /\ m.removed \in Nat /\ m.trigger <= m.removed
      /\ m.clearedAccept \in Nat /\ m.removed <= m.clearedAccept
      /\ m.clearedRelease \in Nat /\ m.clearedRelease >= m.clearedAccept + minAcceptanceGap
      /\ minAcceptanceGap \in Nat
  BY ConstantsType DEF InOrder
<1>3. CASE s = e1
  <2>1. Timed(name, s, m.trigger, m.removed)
    BY <1>3 DEF Timed, sample
  <2>2. provesBlock(s) /\ s.expected = "blocked" /\ ~s.satisfies /\ s.trigger = "status"
    BY <1>3 DEF provesBlock, sample
  <2> QED
    BY <1>2, <2>1, <2>2, TimedPasses
<1>4. CASE s = r1
  <2>1. Timed(name, s, m.trigger, m.removed)
    BY <1>4 DEF Timed, sample
  <2>2. provesBlock(s) /\ s.expected = "blocked" /\ ~s.satisfies /\ s.trigger = "status"
    BY <1>4 DEF provesBlock, sample
  <2> QED
    BY <1>2, <2>1, <2>2, TimedPasses
<1>5. CASE s = e2
  <2>1. Timed(name, s, m.removed, m.clearedAccept)
    BY <1>5 DEF Timed, sample
  <2>2. s.expected \in {"observed", "reopened"} /\ ~s.satisfies /\ s.trigger = "pdb-deleted"
    BY <1>5 DEF sample
  <2> QED
    BY <1>2, <2>1, <2>2, TimedPasses
<1>6. CASE s = r2
  <2>1. m.clearedRelease - m.clearedAccept \in Nat /\ m.removed <= m.clearedRelease
        /\ m.clearedRelease - m.clearedAccept >= minAcceptanceGap
    BY <1>2
  <2> QED
    <3>1. Timed(name, s, m.removed, m.clearedRelease)
      BY <1>6 DEF Timed, sample
    <3>2. /\ s.phase = "release" /\ s.expected = "observed" /\ s.trigger = "pdb-deleted"
          /\ s.evidence = {"pod-absent", "requests-dropped", "after-pdb-removed"}
          /\ s.gap = m.clearedRelease - m.clearedAccept
      BY <1>6 DEF sample
    <3> QED
      BY <1>2, <2>1, <3>1, <3>2, ReleasePasses
<1> QED
  BY <1>1, <1>3, <1>4, <1>5, <1>6

----------------------------------------------------------------------------
(***************************************************************************)
(* Every sample of a result passes when it is in its budget.               *)
(***************************************************************************)
LEMMA SamplesPass ==
    ASSUME NEW name \in Range(RequiredScenarios), NEW m, InOrder(name, m),
           NEW s \in Range(samples(DefaultBudget, name, m)), s.withinBudget
    PROVE  s.trigger \in allowedTriggers(name) /\ checkSample(DefaultBudget, name, s)
<1> DEFINE recovery == recoverySamples(DefaultBudget, name, timedFrom(name), m)
           release  == releaseSample(DefaultBudget, name, timedFrom(name), m)
<1>1. timedFrom(name) \in allowedTriggers(name)
  BY DEF timedFrom, allowedTriggers
<1>2. ASSUME name # "return-to-idle", s \in Range(recovery)
      PROVE  s.trigger \in allowedTriggers(name) /\ checkSample(DefaultBudget, name, s)
  BY <1>1, <1>2, RecoveryPasses
<1>3. ASSUME name \notin {"return-to-idle", "pdb-blocked-eviction"}, s = release
      PROVE  s.trigger \in allowedTriggers(name) /\ checkSample(DefaultBudget, name, s)
  <2>1. /\ m.trigger \in Nat /\ m.release \in Nat /\ m.trigger <= m.release
        /\ m.gap \in Nat /\ m.gap >= minAcceptanceGap
    BY <1>3 DEF InOrder
  <2>2. Timed(name, s, m.trigger, m.release)
    BY <1>3 DEF Timed, releaseSample, sample
  <2>3. /\ s.phase = "release" /\ s.expected = "observed" /\ s.trigger = timedFrom(name)
        /\ s.evidence = {"pod-absent", "requests-dropped"} /\ s.gap = m.gap
    BY <1>3 DEF releaseSample, sample
  <2> QED
    BY <1>1, <2>1, <2>2, <2>3, ReleasePasses
<1>4. CASE name = "return-to-idle"
  <2>1. s \in Range(idleSamples(DefaultBudget, name, m))
    BY <1>4, SamplesAre
  <2> QED
    BY <1>4, <2>1, IdlePasses DEF allowedTriggers
<1>5. CASE name = "leader-change"
  <2>1. s \in Range(leaderSamples(DefaultBudget, name, m)) \/ s \in Range(recovery) \/ s = release
    BY <1>5, SamplesAre
  <2> QED
    BY <1>2, <1>3, <1>5, <2>1, LeaderPasses DEF allowedTriggers
<1>6. CASE name = "pdb-blocked-eviction"
  <2>1. s \in Range(pdbSamples(DefaultBudget, name, m)) \/ s \in Range(recovery)
    BY <1>6, SamplesAre
  <2> QED
    BY <1>2, <1>6, <2>1, PdbPasses DEF allowedTriggers
<1>7. CASE name \notin {"return-to-idle", "leader-change", "pdb-blocked-eviction"}
  <2>1. s \in Range(recovery) \/ s = release
    BY <1>7, SamplesAre
  <2> QED
    BY <1>2, <1>3, <1>7, <2>1
<1> QED
  BY <1>4, <1>5, <1>6, <1>7

(***************************************************************************)
(* The phases a scenario needs are all there.                              *)
(***************************************************************************)
LEMMA RecoveryThere ==
    ASSUME NEW name, NEW m, NEW sc, name # "return-to-idle",
           sc.samples = samples(DefaultBudget, name, m)
    PROVE  /\ requireSample(sc, "detection", "observed")
           /\ requireSample(sc, "admission", "observed")
           /\ requireSample(sc, "eviction", "observed")
<1> DEFINE trigger == timedFrom(name)
           det == sample(DefaultBudget, name, "detection", trigger, m.trigger, m.detection,
                         "observed", {}, FALSE, Never)
           adm == sample(DefaultBudget, name, "admission", trigger, m.trigger, m.admission,
                         "observed", {}, FALSE, Never)
           evi == sample(DefaultBudget, name, "eviction", trigger, m.trigger, m.acceptance,
                         "observed", {"eviction-accepted"}, FALSE, Never)
           all == recoverySamples(DefaultBudget, name, trigger, m)
<1>1. Range(all) = {det, adm, evi}
  BY Holds3 DEF recoverySamples
<1>2. Range(all) \subseteq Range(sc.samples)
  BY SamplesAre
<1>3. /\ det.phase = "detection" /\ det.expected = "observed" /\ det.applicable
      /\ adm.phase = "admission" /\ adm.expected = "observed" /\ adm.applicable
      /\ evi.phase = "eviction" /\ evi.expected = "observed" /\ evi.applicable
  BY DEF sample
<1> HIDE DEF all, det, adm, evi
<1> QED
  BY <1>1, <1>2, <1>3 DEF requireSample

(***************************************************************************)
(* A release in the samples that satisfies recovery is found by its index. *)
(***************************************************************************)
LEMMA SatisfyingThere ==
    ASSUME NEW sc, NEW s \in Range(sc.samples), s.phase = "release", s.satisfies
    PROVE  \E i \in satisfyingReleases(sc) : sc.samples[i] = s
BY DEF satisfyingReleases, Range

(***************************************************************************)
(* Some release satisfies recovery.                                        *)
(***************************************************************************)
LEMMA ReleaseThere ==
    ASSUME NEW name, NEW m, NEW sc, name \notin {"return-to-idle", "pdb-blocked-eviction"},
           sc.samples = samples(DefaultBudget, name, m)
    PROVE  satisfyingReleases(sc) # {}
<1> DEFINE s == releaseSample(DefaultBudget, name, timedFrom(name), m)
<1>1. s \in Range(sc.samples)
  BY SamplesAre
<1>2. s.phase = "release" /\ s.satisfies
  BY DEF releaseSample, sample
<1> HIDE DEF s
<1> QED
  BY <1>1, <1>2, SatisfyingThere

(***************************************************************************)
(* The phases of the leader change are there.                              *)
(***************************************************************************)
LEMMA LeaderThere ==
    ASSUME NEW m, NEW sc, sc.samples = samples(DefaultBudget, "leader-change", m)
    PROVE  /\ requireSample(sc, "leader-election", "observed")
           /\ requireSample(sc, "leader-restore", "observed")
<1> DEFINE ele == sample(DefaultBudget, "leader-change", "leader-election", "leader-cancelled",
                         m.stopped, m.elected, "observed", {}, FALSE, Never)
           res == sample(DefaultBudget, "leader-change", "leader-restore", "leader-drift",
                         m.drift, m.restored, "observed", {}, FALSE, Never)
           all == leaderSamples(DefaultBudget, "leader-change", m)
<1>1. Range(all) = {ele, res}
  BY Holds2 DEF leaderSamples
<1>2. Range(all) \subseteq Range(sc.samples)
  BY SamplesAre
<1>3. /\ ele.phase = "leader-election" /\ ele.expected = "observed" /\ ele.applicable
      /\ res.phase = "leader-restore" /\ res.expected = "observed" /\ res.applicable
  BY DEF sample
<1> HIDE DEF all, ele, res
<1> QED
  BY <1>1, <1>2, <1>3 DEF requireSample

(***************************************************************************)
(* The phases of the blocked eviction are there, and a release after it.   *)
(***************************************************************************)
LEMMA BlockThere ==
    ASSUME NEW m, NEW sc, sc.samples = samples(DefaultBudget, "pdb-blocked-eviction", m)
    PROVE  /\ requireSample(sc, "eviction", "blocked")
           /\ requireSample(sc, "release", "blocked")
           /\ \E i \in satisfyingReleases(sc) : /\ sc.samples[i].trigger = "pdb-deleted"
                                                /\ "after-pdb-removed" \in sc.samples[i].evidence
<1> DEFINE name == "pdb-blocked-eviction"
           e1 == sample(DefaultBudget, name, "eviction", "status", m.trigger, m.removed, "blocked",
                        {"deletionTimestamp-absent", "pdb-blocked"}, FALSE, Never)
           r1 == sample(DefaultBudget, name, "release", "status", m.trigger, m.removed, "blocked",
                        {"still-bound"}, FALSE, Never)
           e2 == sample(DefaultBudget, name, "eviction", "pdb-deleted", m.removed, m.clearedAccept,
                        "observed", {"eviction-accepted"}, FALSE, Never)
           r2 == sample(DefaultBudget, name, "release", "pdb-deleted", m.removed, m.clearedRelease,
                        "observed", {"pod-absent", "requests-dropped", "after-pdb-removed"}, TRUE,
                        m.clearedRelease - m.clearedAccept)
           all == pdbSamples(DefaultBudget, name, m)
<1>1. all = <<e1, r1, e2, r2>>
  BY DEF pdbSamples
<1>2. Range(all) \subseteq Range(sc.samples)
  BY SamplesAre
<1>3. /\ e1.phase = "eviction" /\ e1.expected = "blocked" /\ e1.applicable
      /\ r1.phase = "release" /\ r1.expected = "blocked" /\ r1.applicable
      /\ r2.phase = "release" /\ r2.satisfies /\ r2.trigger = "pdb-deleted"
      /\ "after-pdb-removed" \in r2.evidence
  BY DEF sample
<1> HIDE DEF all, e1, r1, e2, r2
<1>4. Range(all) = {e1, r1, e2, r2}
  BY <1>1 DEF Range
<1>5. \E i \in satisfyingReleases(sc) : sc.samples[i] = r2
  BY <1>2, <1>3, <1>4, SatisfyingThere
<1> QED
  BY <1>2, <1>3, <1>4, <1>5 DEF requireSample

(***************************************************************************)
(* The phases of the return to idle are there, the inactive ones last.     *)
(***************************************************************************)
LEMMA IdleThere ==
    ASSUME NEW m, NEW sc, sc.samples = samples(DefaultBudget, "return-to-idle", m)
    PROVE  /\ requireSample(sc, "detection", "observed")
           /\ requireSample(sc, "admission-reopen", "reopened")
           /\ requireInactive(sc, "eviction") /\ requireInactive(sc, "release")
<1> DEFINE det == sample(DefaultBudget, "return-to-idle", "detection", "status", m.trigger,
                         m.detection, "observed", {}, FALSE, Never)
           adm == sample(DefaultBudget, "return-to-idle", "admission-reopen", "status", m.trigger,
                         m.admission, "reopened", {}, FALSE, Never)
           evi == inactive(DefaultBudget, "return-to-idle", "eviction")
           rel == inactive(DefaultBudget, "return-to-idle", "release")
           all == sc.samples
<1>1. all = <<det, adm, evi, rel>>
  BY DEF idleSamples, samples
<1>2. /\ det.phase = "detection" /\ det.expected = "observed" /\ det.applicable
      /\ adm.phase = "admission-reopen" /\ adm.expected = "reopened" /\ adm.applicable
      /\ \A s \in {evi, rel} : /\ ~s.applicable /\ ~s.satisfies /\ s.expected = "absent"
                               /\ "uid-unchanged" \in s.evidence
      /\ evi.phase = "eviction" /\ rel.phase = "release"
  BY DEF sample, inactive
<1> HIDE DEF all, det, adm, evi, rel
<1>3. DOMAIN all = 1..4 /\ all[1] = det /\ all[2] = adm /\ all[3] = evi /\ all[4] = rel
  BY <1>1
<1>4. /\ requireSample(sc, "detection", "observed")
      /\ requireSample(sc, "admission-reopen", "reopened")
  BY <1>2, <1>3 DEF requireSample, Range, all
<1>5. {i \in DOMAIN all : all[i].phase = "eviction"} = {3}
  BY <1>2, <1>3
<1>6. {i \in DOMAIN all : all[i].phase = "release"} = {4}
  BY <1>2, <1>3
<1> QED
  BY <1>2, <1>3, <1>4, <1>5, <1>6 DEF requireInactive, all

(***************************************************************************)
(* Each workload of a result is observed as the scenario expects it.       *)
(***************************************************************************)
LEMMA ObservationPasses ==
    ASSUME NEW name \in Range(RequiredScenarios), NEW views, NEW bound,
           AsExpected(name, views, bound),
           NEW o \in observations(name, views, bound)
    PROVE  checkObservation(name, o)
<1>1. ASSUME NEW w \in statusWorkloads, o = observation(w, views[w], w \in evict(name), "")
      PROVE  checkObservation(name, o)
  <2>1. /\ o.name = w /\ o.profile = Catalog[w] /\ o.stage = ""
        /\ o.uidBefore = views[w].before /\ o.uidAfter = views[w].after
        /\ o.holdsAfter = views[w].holds /\ o.evicted = (w \in evict(name))
    BY <1>1 DEF observation
  <2>2. w \in {"lossy", "standard", "protected", "pinned"}
    BY DEF statusWorkloads, Workloads
  <2>3. o.name \in DOMAIN Catalog /\ o.profile = Catalog[o.name]
    BY <2>1, <2>2 DEF Catalog
  <2>4. CASE w \in evict(name)
    <3>1. w \in {"lossy", "standard"} /\ name # "return-to-idle"
          /\ (w = "standard" => name \in {"idle-to-game", "leader-change"})
      BY <2>4 DEF evict, ToGame
    <3>2. ~views[w].holds
      BY <2>4 DEF AsExpected
    <3>5. o.evicted = TRUE /\ ~o.holdsAfter
      BY <2>1, <2>4, <3>2
    <3>3. o.profile.disposable /\ o.profile.optedIn /\ ~o.profile.pinned
      <4>1. w = "lossy" => o.profile = Catalog["lossy"]
        BY <2>1
      <4>2. w = "standard" => o.profile = Catalog["standard"]
        BY <2>1
      <4> QED
        BY <3>1, <4>1, <4>2 DEF Catalog, profile
    <3>4. expectedEviction(name, o.name, o.stage) = "evicted"
      BY <2>1, <3>1 DEF expectedEviction
    <3> QED
      BY <2>1, <2>3, <3>1, <3>3, <3>4, <3>5 DEF checkObservation
  <2>5. CASE w \notin evict(name)
    <3>1. o.holdsAfter /\ o.uidBefore \in {0, o.uidAfter}
      <4>1. views[w].holds /\ views[w].before \in {0, views[w].after}
        BY <2>5 DEF AsExpected
      <4> QED
        BY <2>1, <4>1
    <3>2. w \in {"protected", "pinned"} => o.uidBefore # 0
      BY <2>1 DEF AsExpected
    <3>3. expectedEviction(name, o.name, o.stage) = "kept"
      <4>1. w = "lossy" => name = "return-to-idle"
        BY <2>5 DEF evict, ToGame
      <4>2. w = "standard" => name \notin {"idle-to-game", "leader-change"}
        BY <2>5 DEF evict, ToGame
      <4> QED
        BY <2>1, <2>2, <4>1, <4>2 DEF expectedEviction
    <3>4. o.evicted = FALSE
      <4>1. (w \in evict(name)) = FALSE
        BY <2>5
      <4> QED
        BY <2>1, <4>1, Zenon
    <3> QED
      BY <2>1, <2>3, <3>1, <3>2, <3>3, <3>4 DEF checkObservation
  <2> QED
    BY <2>4, <2>5
<1>2. ASSUME name = "pdb-blocked-eviction",
             o = observation("pdb", bound, FALSE, "blocked")
      PROVE  checkObservation(name, o)
  <2>1. /\ o.name = "pdb" /\ o.profile = Catalog["pdb"] /\ o.stage = "blocked"
        /\ o.uidBefore = o.uidAfter /\ o.holdsAfter /\ o.evicted = FALSE
    <3>1. bound.before = bound.after /\ bound.holds
      BY <1>2 DEF AsExpected
    <3>2. /\ o.name = "pdb" /\ o.profile = Catalog["pdb"] /\ o.stage = "blocked"
          /\ o.uidBefore = bound.before /\ o.uidAfter = bound.after /\ o.holdsAfter = bound.holds
          /\ o.evicted = FALSE
      BY <1>2 DEF observation
    <3> QED
      BY <3>1, <3>2
  <2>2. expectedEviction(name, o.name, o.stage) = "kept"
    BY <1>2, <2>1 DEF expectedEviction
  <2>3. o.name \in DOMAIN Catalog
    BY <2>1 DEF Catalog
  <2> QED
    BY <2>1, <2>2, <2>3 DEF checkObservation
<1>3. ASSUME name = "pdb-blocked-eviction",
             o = observation("pdb", views["pdb"], TRUE, "cleared")
      PROVE  checkObservation(name, o)
  <2>1. /\ o.name = "pdb" /\ o.profile = Catalog["pdb"] /\ o.stage = "cleared"
        /\ ~o.holdsAfter /\ o.evicted = TRUE
    <3>1. ~views["pdb"].holds
      BY <1>3 DEF AsExpected
    <3>2. /\ o.name = "pdb" /\ o.profile = Catalog["pdb"] /\ o.stage = "cleared"
          /\ o.holdsAfter = views["pdb"].holds /\ o.evicted = TRUE
      BY <1>3 DEF observation
    <3> QED
      BY <3>1, <3>2
  <2>2. expectedEviction(name, o.name, o.stage) = "evicted"
    BY <1>3, <2>1 DEF expectedEviction
  <2>3. o.name \in DOMAIN Catalog
    BY <2>1 DEF Catalog
  <2>4. o.profile.disposable /\ o.profile.optedIn /\ ~o.profile.pinned
    BY <2>1 DEF Catalog, profile
  <2> QED
    BY <2>1, <2>2, <2>3, <2>4 DEF checkObservation
<1> QED
  BY <1>1, <1>2, <1>3 DEF observations

(***************************************************************************)
(* All the workloads a scenario gates are observed, and as it expects      *)
(* them.                                                                   *)
(***************************************************************************)
LEMMA WorkloadsPass ==
    ASSUME NEW name \in Range(RequiredScenarios), NEW views, NEW bound,
           AsExpected(name, views, bound),
           NEW sc, sc.name = name, sc.workloads = observations(name, views, bound)
    PROVE  checkWorkloads(sc)
<1>1. \A o \in sc.workloads : checkObservation(sc.name, o)
  BY ObservationPasses
<1>2. ASSUME NEW w \in {"protected", "pinned", "lossy", "standard"}
      PROVE  \E o \in sc.workloads : o.name = w
  <2> DEFINE o == observation(w, views[w], w \in evict(name), "")
  <2>1. o \in sc.workloads
    BY DEF observations, statusWorkloads, Workloads
  <2>2. o.name = w
    BY DEF observation
  <2> QED
    BY <2>1, <2>2
<1>3. ASSUME name = "pdb-blocked-eviction"
      PROVE  {"blocked", "cleared"} \subseteq
                 {o.stage : o \in {p \in sc.workloads : p.name = "pdb"}}
  <2> DEFINE o1 == observation("pdb", bound, FALSE, "blocked")
             o2 == observation("pdb", views["pdb"], TRUE, "cleared")
  <2>1. o1 \in sc.workloads /\ o2 \in sc.workloads
    BY <1>3 DEF observations
  <2>2. o1.name = "pdb" /\ o1.stage = "blocked" /\ o2.name = "pdb" /\ o2.stage = "cleared"
    BY DEF observation
  <2> HIDE DEF o1, o2
  <2> QED
    BY <2>1, <2>2
<1> QED
  BY <1>1, <1>2, <1>3 DEF checkWorkloads

(***************************************************************************)
(* A result of a run in order, with each sample in its budget, passes.     *)
(***************************************************************************)
LEMMA ResultPasses ==
    ASSUME NEW name \in Range(RequiredScenarios), NEW m, InOrder(name, m),
           NEW views, NEW bound, AsExpected(name, views, bound),
           \A s \in Range(samples(DefaultBudget, name, m)) : s.withinBudget
    PROVE  checkScenario(DefaultBudget, scenarioResult(DefaultBudget, name, m, views, bound, FALSE))
<1> DEFINE sc == scenarioResult(DefaultBudget, name, m, views, bound, FALSE)
<1>1. /\ sc.name = name /\ sc.samples = samples(DefaultBudget, name, m)
      /\ sc.workloads = observations(name, views, bound)
      /\ ~sc.preWindowReleaseProven
      /\ name # "scheduled-lead-time" => sc.leadTime = 0 /\ sc.windowStart = Never
      /\ name = "scheduled-lead-time" => sc.leadTime = m.lead /\ sc.windowStart = m.start
      /\ name = "pdb-blocked-eviction" =>
            sc.blocked = {[workload |-> "pdb", reason |-> "pdb", accepted |-> FALSE,
                           released |-> FALSE, evidence |-> {"pdb-blocked", "still-bound"}]}
  BY DEF scenarioResult
<1> HIDE DEF sc
<1>2. \A s \in Range(sc.samples) : /\ s.trigger \in allowedTriggers(sc.name)
                                   /\ checkSample(DefaultBudget, sc.name, s)
  BY <1>1, SamplesPass
<1>3. checkWorkloads(sc)
  BY <1>1, WorkloadsPass
<1>4. name = "return-to-idle" =>
          /\ requireSample(sc, "detection", "observed")
          /\ requireSample(sc, "admission-reopen", "reopened")
          /\ requireInactive(sc, "eviction") /\ requireInactive(sc, "release")
  BY <1>1, IdleThere
<1>5. name = "pdb-blocked-eviction" =>
          /\ requireSample(sc, "eviction", "blocked") /\ requireSample(sc, "release", "blocked")
          /\ satisfyingReleases(sc) # {} /\ checkPDB(sc)
  <2> SUFFICES ASSUME name = "pdb-blocked-eviction"
               PROVE  /\ requireSample(sc, "eviction", "blocked")
                      /\ requireSample(sc, "release", "blocked")
                      /\ satisfyingReleases(sc) # {} /\ checkPDB(sc)
    OBVIOUS
  <2>1. /\ requireSample(sc, "eviction", "blocked") /\ requireSample(sc, "release", "blocked")
        /\ \E i \in satisfyingReleases(sc) : /\ sc.samples[i].trigger = "pdb-deleted"
                                             /\ "after-pdb-removed" \in sc.samples[i].evidence
    BY <1>1, BlockThere
  <2>2. ASSUME NEW c \in sc.blocked
        PROVE  /\ c.workload = "pdb" /\ c.reason = "pdb" /\ ~c.accepted /\ ~c.released
               /\ {"pdb-blocked", "still-bound"} \subseteq c.evidence
    <3>1. c = [workload |-> "pdb", reason |-> "pdb", accepted |-> FALSE, released |-> FALSE,
               evidence |-> {"pdb-blocked", "still-bound"}]
      BY <1>1, <2>2
    <3> QED
      BY <3>1
  <2>3. sc.blocked # {}
    BY <1>1
  <2>4. {c \in sc.blocked : c.workload = "pdb" /\ c.reason = "pdb"} # {}
    BY <2>2, <2>3
  <2> QED
    BY <2>1, <2>2, <2>4 DEF checkPDB
<1>6. name # "return-to-idle" => requireRecoveryPhases(sc)
  <2>1. name # "return-to-idle" =>
            /\ requireSample(sc, "detection", "observed")
            /\ requireSample(sc, "admission", "observed")
            /\ requireSample(sc, "eviction", "observed")
    BY <1>1, RecoveryThere
  <2>2. name \notin {"return-to-idle", "pdb-blocked-eviction"} => satisfyingReleases(sc) # {}
    BY <1>1, ReleaseThere
  <2> QED
    BY <1>1, <1>5, <2>1, <2>2 DEF requireRecoveryPhases
<1>7. name = "leader-change" => /\ requireSample(sc, "leader-election", "observed")
                                /\ requireSample(sc, "leader-restore", "observed")
  BY <1>1, LeaderThere
<1>8. name = "scheduled-lead-time" => checkLead(DefaultBudget, sc)
  BY <1>1 DEF checkLead, InOrder
<1> QED
  BY <1>1, <1>2, <1>3, <1>4, <1>5, <1>6, <1>7, <1>8 DEF checkScenario, sc

----------------------------------------------------------------------------
(***************************************************************************)
(* The run the harness completes records its phases in order.              *)
(***************************************************************************)
LEMMA OneOfPair ==
    ASSUME NEW a \in Int, NEW b \in Int
    PROVE  Latest({a, b}) \in {a, b} /\ Least({a, b}) \in {a, b}
<1>1. \E t \in {a, b} : \A s \in {a, b} : s <= t
  <2>1. CASE a <= b
    BY <2>1
  <2>2. CASE b <= a
    BY <2>2
  <2> QED
    BY <2>1, <2>2
<1>2. \E t \in {a, b} : \A s \in {a, b} : t <= s
  <2>1. CASE a <= b
    BY <2>1
  <2>2. CASE b <= a
    BY <2>2
  <2> QED
    BY <2>1, <2>2
<1> QED
  BY <1>1, <1>2 DEF Latest, Least

(***************************************************************************)
(* The latest acceptance and release and the least gap are times of the    *)
(* run.                                                                    *)
(***************************************************************************)
LEMMA MeasuredRecovery ==
    ASSUME CanaryInv, stage = "done", scenario # "return-to-idle"
    PROVE  LET m == measured
           IN  /\ m.acceptance \in Nat /\ clock.trigger <= m.acceptance
               /\ m.release \in Nat /\ clock.trigger <= m.release
               /\ m.gap \in Nat /\ m.gap >= minAcceptanceGap
<1> DEFINE W == evict(scenario)
           one == "lossy"
           two == IF scenario \in ToGame THEN "standard" ELSE "lossy"
           m == measured
<1>1. W = {one, two} /\ one \in Workloads /\ two \in Workloads /\ W # {}
  BY EvictIs DEF CanaryInv, CanaryType, Workloads
<1>2. Recovers /\ Triggered /\ clock.trigger \in Nat
  BY DEF Recovers, Triggered, CanaryInv, InBudget
<1>3. ASSUME NEW w \in {one, two}
      PROVE  /\ accepted[w] \in Nat /\ clock.released[w] \in Nat /\ accepted[w] >= clock.trigger
             /\ clock.released[w] >= accepted[w] + minAcceptanceGap
  <2>1. w \in Workloads /\ w \in W
    BY <1>1
  <2>2. Left(w, DefaultBudget.endToEnd)
    BY <1>2, <2>1 DEF CanaryInv, AllLeft
  <2>3. accepted[w] \in Times /\ clock.released[w] \in Times
    BY <2>1, ClockFields DEF CanaryInv, CanaryType
  <2>4. accepted[w] >= clock.trigger
    BY <1>2, <2>1, <2>2 DEF Left, CanaryInv, EvictionShuts
  <2> QED
    BY <2>2, <2>3, <2>4 DEF Left, Times, Never
<1>4. /\ m.acceptance = Latest({accepted[w] : w \in W})
      /\ m.release = Latest({clock.released[w] : w \in W})
      /\ m.gap = Least({gap(clock, w) : w \in W})
  BY <1>1 DEF measured
<1>5. /\ {accepted[w] : w \in W} = {accepted[one], accepted[two]}
      /\ {clock.released[w] : w \in W} = {clock.released[one], clock.released[two]}
      /\ {gap(clock, w) : w \in W} = {gap(clock, one), gap(clock, two)}
  BY <1>1
<1>6. \A w \in {one, two} : gap(clock, w) = clock.released[w] - accepted[w]
  BY DEF gap
<1> HIDE DEF W, one, two, m
<1>7. m.acceptance \in {accepted[one], accepted[two]}
  <2>1. accepted[one] \in Int /\ accepted[two] \in Int
    BY <1>3
  <2> QED
    BY <1>4, <1>5, <2>1, OneOfPair
<1>8. m.release \in {clock.released[one], clock.released[two]}
  <2>1. clock.released[one] \in Int /\ clock.released[two] \in Int
    BY <1>3
  <2> QED
    BY <1>4, <1>5, <2>1, OneOfPair
<1>9. m.gap \in {gap(clock, one), gap(clock, two)}
  <2>1. gap(clock, one) \in Int /\ gap(clock, two) \in Int
    BY <1>3, <1>6
  <2> QED
    BY <1>4, <1>5, <2>1, OneOfPair
<1>10. minAcceptanceGap \in Nat
  BY ConstantsType
<1> QED
  BY <1>2, <1>3, <1>6, <1>7, <1>8, <1>9, <1>10 DEF m

(***************************************************************************)
(* A completed run is in order.                                            *)
(***************************************************************************)
LEMMA RunInOrder ==
    ASSUME CanaryInv, TimelyInv, stage = "done"
    PROVE  InOrder(scenario, measured)
<1> DEFINE m == measured
<1>1. /\ m.trigger = clock.trigger /\ m.detection = clock.detection /\ m.admission = clock.admission
      /\ m.stopped = clock.stopped /\ m.elected = clock.elected /\ m.drift = clock.drift
      /\ m.restored = clock.restored /\ m.removed = clock.removed
      /\ m.clearedAccept = accepted["pdb"] /\ m.clearedRelease = clock.released["pdb"]
      /\ m.lead = clock.lead /\ m.start = clock.start
  BY DEF measured
<1>2. /\ clock.detection \in Times /\ clock.admission \in Times /\ clock.restored \in Times
      /\ accepted["pdb"] \in Times /\ clock.released["pdb"] \in Times
  BY ClockFields DEF CanaryInv, CanaryType, Workloads
<1>3. minAcceptanceGap \in Nat
  BY ConstantsType
<1>4. scenario # "return-to-idle" =>
          /\ m.acceptance \in Nat /\ clock.trigger <= m.acceptance
          /\ m.release \in Nat /\ clock.trigger <= m.release
          /\ m.gap \in Nat /\ m.gap >= minAcceptanceGap
  BY MeasuredRecovery
<1> HIDE DEF m
<1>5. /\ m.trigger \in Nat /\ m.detection \in Nat /\ m.admission \in Nat
      /\ m.trigger <= m.detection /\ m.trigger <= m.admission
  BY <1>1, <1>2 DEF TimelyInv, Stamped, Times, Never
<1>6. scenario = "leader-change" =>
          /\ m.stopped \in Nat /\ m.elected \in Nat /\ m.stopped <= m.elected
          /\ m.drift \in Nat /\ m.restored \in Nat /\ m.drift <= m.restored
  BY <1>1, <1>2 DEF TimelyInv, LeaderStamped, Times, Never
<1>7. scenario = "pdb-blocked-eviction" =>
          /\ m.removed \in Nat /\ m.trigger <= m.removed
          /\ m.clearedAccept \in Nat /\ m.removed <= m.clearedAccept
          /\ m.clearedRelease \in Nat /\ m.clearedRelease >= m.clearedAccept + minAcceptanceGap
  <2> SUFFICES ASSUME scenario = "pdb-blocked-eviction"
               PROVE  /\ m.removed \in Nat /\ m.trigger <= m.removed
                      /\ m.clearedAccept \in Nat /\ m.removed <= m.clearedAccept
                      /\ m.clearedRelease \in Nat
                      /\ m.clearedRelease >= m.clearedAccept + minAcceptanceGap
    OBVIOUS
  <2>1. Recovers
    BY DEF Recovers
  <2>2. clock.removed \in Nat /\ clock.trigger <= clock.removed
    BY DEF TimelyInv, Stamped
  <2>3. Left("pdb", DefaultBudget.resourceRelease)
    BY <2>1 DEF CanaryInv, AllLeft
  <2>4. accepted["pdb"] >= clock.removed
    BY <2>1, <2>3 DEF CanaryInv, EvictionShuts, Left, Workloads
  <2> QED
    BY <1>1, <1>2, <2>2, <2>3, <2>4 DEF Left, Times, Never
<1>8. scenario = "scheduled-lead-time" => m.lead > 0 /\ m.start # Never
  BY <1>1 DEF CanaryInv, Armed, Recovers, Never
<1> QED
  BY <1>1, <1>3, <1>4, <1>5, <1>6, <1>7, <1>8 DEF InOrder, m

(***************************************************************************)
(* And its workloads are where the scenario expects them.                  *)
(***************************************************************************)
LEMMA LeftHoldsNothing ==
    ASSUME CanaryInv, stage = "done", scenario # "return-to-idle", NEW w \in Workloads,
           accepted[w] # Never, clock.released[w] # Never
    PROVE  ~holds(w)
<1>1. Recovers
  BY DEF Recovers
<1>2. /\ before[w] # 0 /\ \A v \in Pods : v > before[w] => pods[w][v] = "none"
  BY <1>1 DEF CanaryInv, EvictionShuts
<1>3. gone[w] # Never
  BY <1>1 DEF CanaryInv, TimedAfter
<1>4. pods[w][before[w]] = "gone" /\ \A v \in Pods : v < before[w] => pods[w][v] = "gone"
  BY <1>1, <1>2, <1>3 DEF CanaryInv, Recorded
<1>5. before[w] \in Pods /\ Pods \subseteq Nat
  BY <1>2 DEF CanaryInv, CanaryType, Pods
<1>6. \A v \in Pods : v < before[w] \/ v = before[w] \/ v > before[w]
  BY <1>5 DEF Pods
<1> QED
  BY <1>2, <1>4, <1>5, <1>6 DEF holds

(***************************************************************************)
(* Without mishaps the Pods that stay run from the start to the end.       *)
(***************************************************************************)
LEMMA StayRunning ==
    ASSUME CanaryInv, TimelyInv, stage = "done", mishaps = 0, NEW w \in stays
    PROVE  w \in Workloads /\ before[w] = 1 /\ runningPod(w) = 1 /\ holds(w)
<1>1. w \in Workloads
  BY DEF stays, Workloads
<1>2. pods[w][1] = "running" /\ before[w] = 1
  BY DEF TimelyInv, Undisturbed, Early
<1>3. 1 \in Pods
  BY CanaryAssumption DEF Pods
<1>4. runningPods(w) = {1}
  <2>1. \A u \in Pods : u # 1 => 1 < u
    BY DEF Pods
  <2>2. \A u \in Pods : u # 1 => pods[w][u] = "none"
    BY <1>1, <1>2, <1>3, <2>1 DEF CanaryInv, InTurn
  <2> QED
    BY <1>2, <1>3, <2>2 DEF runningPods
<1>5. runningPod(w) = 1
  BY <1>4 DEF runningPod, Least
<1> QED
  BY <1>1, <1>2, <1>3, <1>5 DEF holds

(***************************************************************************)
(* A completed run without mishaps leaves each workload as expected.       *)
(***************************************************************************)
LEMMA RunAsExpected ==
    ASSUME CanaryInv, TimelyInv, stage = "done", mishaps = 0
    PROVE  AsExpected(scenario, [w \in Workloads |-> view(w)], blocked)
<1> DEFINE views == [w \in Workloads |-> view(w)]
<1>1. \A w \in Workloads : /\ views[w].before = before[w] /\ views[w].after = runningPod(w)
                           /\ views[w].holds = holds(w)
  BY DEF view
<1>2. ASSUME NEW w \in evict(scenario)
      PROVE  w \in Workloads /\ ~holds(w)
  <2>1. w \in Workloads /\ scenario # "return-to-idle"
    BY <1>2 DEF evict, ToGame, Workloads
  <2>2. Left(w, DefaultBudget.endToEnd)
    BY <1>2, <2>1 DEF CanaryInv, AllLeft, Recovers
  <2> QED
    BY <2>1, <2>2, LeftHoldsNothing DEF Left
<1>3. ASSUME NEW w \in statusWorkloads, w \notin evict(scenario)
      PROVE  w \in Workloads /\ holds(w) /\ before[w] \in {0, runningPod(w)}
  <2>1. w \in Workloads
    BY DEF statusWorkloads
  <2>2. CASE w \in stays
    BY <2>1, <2>2, StayRunning
  <2>3. CASE w \notin stays
    <3>1. w = "lossy" /\ scenario = "return-to-idle"
      BY <1>3, <2>3, ScenarioNames DEF CanaryInv, CanaryType, stays, statusWorkloads, Workloads,
         evict, ToGame
    <3> QED
      BY <2>1, <3>1 DEF TimelyInv, Returning
  <2> QED
    BY <2>2, <2>3
<1>4. \A w \in {"protected", "pinned"} : w \in Workloads /\ before[w] # 0
  BY StayRunning DEF stays
<1>5. scenario = "pdb-blocked-eviction" => ~holds("pdb") /\ "pdb" \in Workloads
  <2>1. "pdb" \in Workloads
    BY DEF Workloads
  <2>2. scenario = "pdb-blocked-eviction" => Left("pdb", DefaultBudget.resourceRelease)
    BY DEF CanaryInv, AllLeft, Recovers
  <2> QED
    BY <2>1, <2>2, LeftHoldsNothing DEF Left
<1>6. scenario = "pdb-blocked-eviction" => blocked.before = blocked.after /\ blocked.holds
  BY DEF TimelyInv, BlockedSeen
<1> HIDE DEF views
<1>7. \A w \in statusWorkloads :
          IF w \in evict(scenario) THEN ~views[w].holds
          ELSE views[w].holds /\ views[w].before \in {0, views[w].after}
  BY <1>1, <1>2, <1>3
<1>8. \A w \in {"protected", "pinned"} : views[w].before # 0
  BY <1>1, <1>4
<1>9. scenario = "pdb-blocked-eviction" => ~views["pdb"].holds
  BY <1>1, <1>5
<1> QED
  BY <1>6, <1>7, <1>8, <1>9 DEF AsExpected, views

----------------------------------------------------------------------------
(***************************************************************************)
(* The other results of the report, in which everything happens at once.   *)
(***************************************************************************)
LEMMA AllowedType ==
    ASSUME NEW name, NEW phase
    PROVE  AllowedBudget(DefaultBudget, name, phase) \in Nat
BY ConstantsType DEF AllowedBudget, BudgetFields

(***************************************************************************)
(* A phase that takes no time, or a release within the end-to-end budget,  *)
(* is in its budget.                                                       *)
(***************************************************************************)
LEMMA SampleBudget ==
    ASSUME NEW name, NEW phase, NEW trigger, NEW at \in Nat, NEW observed \in Nat, NEW expected,
           NEW evidence, NEW satisfies, NEW gaps,
           observed = at \/ (phase = "release" /\ observed - at <= DefaultBudget.endToEnd)
    PROVE  sample(DefaultBudget, name, phase, trigger, at, observed, expected, evidence, satisfies,
                  gaps).withinBudget
<1>1. AllowedBudget(DefaultBudget, name, phase) \in Nat
  BY AllowedType
<1>2. phase = "release" => AllowedBudget(DefaultBudget, name, phase) = DefaultBudget.endToEnd
  BY ConstantsType DEF AllowedBudget
<1>3. observed - at <= AllowedBudget(DefaultBudget, name, phase)
  BY <1>1, <1>2
<1> QED
  BY <1>3 DEF sample

(***************************************************************************)
(* The prompt results are in budget.                                       *)
(***************************************************************************)
LEMMA PromptInBudget ==
    ASSUME NEW name \in Range(RequiredScenarios),
           NEW s \in Range(samples(DefaultBudget, name, PromptTimes))
    PROVE  s.withinBudget
<1> DEFINE m == PromptTimes
           G == minAcceptanceGap
           recovery == recoverySamples(DefaultBudget, name, timedFrom(name), m)
           release == releaseSample(DefaultBudget, name, timedFrom(name), m)
<1>1. /\ m.trigger = 1 /\ m.detection = 1 /\ m.admission = 1 /\ m.acceptance = 1
      /\ m.release = 1 + G /\ m.stopped = 1 /\ m.elected = 1 /\ m.drift = 1 /\ m.restored = 1
      /\ m.removed = 1 /\ m.clearedAccept = 1 /\ m.clearedRelease = 1 + G
  BY DEF PromptTimes
<1>2. G \in Nat /\ G <= DefaultBudget.endToEnd /\ DefaultBudget.endToEnd \in Nat
      /\ 1 + G \in Nat /\ 1 + G - 1 <= DefaultBudget.endToEnd
  BY ConstantsType
<1> HIDE DEF m, G
<1>3. ASSUME s \in Range(recovery) PROVE s.withinBudget
  <2> DEFINE S(phase, at, evidence) ==
                sample(DefaultBudget, name, phase, timedFrom(name), m.trigger, at, "observed",
                       evidence, FALSE, Never)
  <2>1. /\ S("detection", m.detection, {}).withinBudget
        /\ S("admission", m.admission, {}).withinBudget
        /\ S("eviction", m.acceptance, {"eviction-accepted"}).withinBudget
    BY <1>1, SampleBudget
  <2>2. s \in {S("detection", m.detection, {}), S("admission", m.admission, {}),
               S("eviction", m.acceptance, {"eviction-accepted"})}
    BY <1>3, Holds3 DEF recoverySamples
  <2> QED
    BY <2>1, <2>2
<1>4. release.withinBudget
  <2>1. /\ m.trigger \in Nat /\ m.release \in Nat
        /\ m.release - m.trigger <= DefaultBudget.endToEnd
    BY <1>1, <1>2
  <2> QED
    BY <2>1, SampleBudget DEF releaseSample
<1>5. ASSUME s \in Range(idleSamples(DefaultBudget, name, m)) PROVE s.withinBudget
  <2> DEFINE all == idleSamples(DefaultBudget, name, m)
             det == sample(DefaultBudget, name, "detection", "status", m.trigger, m.detection,
                           "observed", {}, FALSE, Never)
             adm == sample(DefaultBudget, name, "admission-reopen", "status", m.trigger,
                           m.admission, "reopened", {}, FALSE, Never)
             evi == inactive(DefaultBudget, name, "eviction")
             rel == inactive(DefaultBudget, name, "release")
  <2>1. det.withinBudget /\ adm.withinBudget
    BY <1>1, SampleBudget
  <2>2. evi.withinBudget /\ rel.withinBudget
    BY DEF inactive
  <2>3. all = <<det, adm, evi, rel>>
    BY DEF idleSamples
  <2>4. s \in Range(all)
    BY <1>5
  <2> HIDE DEF all, det, adm, evi, rel
  <2>5. Range(all) = {det, adm, evi, rel}
    BY <2>3 DEF Range
  <2> QED
    BY <2>1, <2>2, <2>4, <2>5
<1>6. ASSUME s \in Range(leaderSamples(DefaultBudget, name, m)) PROVE s.withinBudget
  <2> DEFINE ele == sample(DefaultBudget, name, "leader-election", "leader-cancelled",
                           m.stopped, m.elected, "observed", {}, FALSE, Never)
             res == sample(DefaultBudget, name, "leader-restore", "leader-drift",
                           m.drift, m.restored, "observed", {}, FALSE, Never)
  <2>1. ele.withinBudget /\ res.withinBudget
    BY <1>1, SampleBudget
  <2>2. s \in {ele, res}
    BY <1>6, Holds2 DEF leaderSamples
  <2> QED
    BY <2>1, <2>2
<1>7. ASSUME s \in Range(pdbSamples(DefaultBudget, name, m)) PROVE s.withinBudget
  <2> DEFINE all == pdbSamples(DefaultBudget, name, m)
             e1 == sample(DefaultBudget, name, "eviction", "status", m.trigger, m.removed,
                          "blocked", {"deletionTimestamp-absent", "pdb-blocked"}, FALSE, Never)
             r1 == sample(DefaultBudget, name, "release", "status", m.trigger, m.removed, "blocked",
                          {"still-bound"}, FALSE, Never)
             e2 == sample(DefaultBudget, name, "eviction", "pdb-deleted", m.removed,
                          m.clearedAccept, "observed", {"eviction-accepted"}, FALSE, Never)
             r2 == sample(DefaultBudget, name, "release", "pdb-deleted", m.removed,
                          m.clearedRelease, "observed",
                          {"pod-absent", "requests-dropped", "after-pdb-removed"}, TRUE,
                          m.clearedRelease - m.clearedAccept)
  <2>1. e1.withinBudget /\ r1.withinBudget /\ e2.withinBudget
    <3>1. m.removed \in Nat /\ m.trigger = m.removed /\ m.clearedAccept = m.removed
      BY <1>1
    <3>2. e1.withinBudget
      BY <3>1, SampleBudget
    <3>3. r1.withinBudget
      BY <3>1, SampleBudget
    <3>4. e2.withinBudget
      BY <3>1, SampleBudget
    <3> QED
      BY <3>2, <3>3, <3>4
  <2>5. r2.withinBudget
    <3>1. /\ m.removed \in Nat /\ m.clearedRelease \in Nat
          /\ m.clearedRelease - m.removed <= DefaultBudget.endToEnd
      BY <1>1, <1>2
    <3> QED
      BY <3>1, SampleBudget
  <2>2. all = <<e1, r1, e2, r2>>
    BY DEF pdbSamples
  <2>3. s \in Range(all)
    BY <1>7
  <2> HIDE DEF all, e1, r1, e2, r2
  <2>4. Range(all) = {e1, r1, e2, r2}
    BY <2>2 DEF Range
  <2> QED
    BY <2>1, <2>3, <2>4, <2>5
<1> QED
  BY <1>3, <1>4, <1>5, <1>6, <1>7, SamplesAre DEF m

(***************************************************************************)
(* The prompt results pass.                                                *)
(***************************************************************************)
LEMMA PromptPasses ==
    ASSUME NEW name \in Range(RequiredScenarios)
    PROVE  checkScenario(DefaultBudget, PromptResults["kind"][FALSE][name])
<1> DEFINE bound == [before |-> 1, after |-> 1, holds |-> TRUE]
           views == PromptViews(name)
<1>1. InOrder(name, PromptTimes)
  BY ConstantsType, BudgetAssumption DEF InOrder, PromptTimes, Never
<1>2. AsExpected(name, views, bound)
  <2>1. ASSUME NEW w \in statusWorkloads
        PROVE  IF w \in evict(name) THEN ~views[w].holds
               ELSE views[w].holds /\ views[w].before = 1 /\ views[w].after = 1
    BY DEF PromptViews, statusWorkloads
  <2>2. ~views["pdb"].holds
    BY DEF PromptViews, Workloads
  <2>3. \A w \in {"protected", "pinned"} : views[w].before # 0
    BY DEF PromptViews, Workloads
  <2>4. bound.before = bound.after /\ bound.holds
    OBVIOUS
  <2> HIDE DEF bound, views
  <2> QED
    BY <2>1, <2>2, <2>3, <2>4 DEF AsExpected
<1>3. \A s \in Range(samples(DefaultBudget, name, PromptTimes)) : s.withinBudget
  BY PromptInBudget
<1>4. PromptResults["kind"][FALSE][name]
          = scenarioResult(DefaultBudget, name, PromptTimes, views, bound, FALSE)
  BY DEF PromptResults, budgetOf
<1> HIDE DEF bound, views
<1> QED
  BY <1>1, <1>2, <1>3, <1>4, ResultPasses

(***************************************************************************)
(* The report of a kind run passes when its result does.                   *)
(***************************************************************************)
LEMMA KindReport ==
    ASSUME NEW name \in Range(RequiredScenarios), NEW result, result.name = name,
           checkScenario(DefaultBudget, result)
    PROVE  Evaluate(reportOf(KindClaims, name, result))
<1> DEFINE r == reportOf(KindClaims, name, result)
<1>1. /\ r.environment = "kind" /\ r.detectionScope = "controller-only"
      /\ r.budget = DefaultBudget /\ r.gpuMeasured = FALSE /\ r.gpuEvidence = {"no GPU"}
      /\ r.desktopVisible = FALSE /\ r.liveRunRemaining = "canonical"
      /\ r.performanceClaimed = FALSE /\ r.unrelatedTaintPreserved = TRUE /\ r.catalog = Catalog
      /\ r.namespacesBefore = [ns \in {"kube-system"} |-> {1, 2}]
      /\ r.namespacesAfter = [ns \in {"kube-system"} |-> {1, 2}]
  BY DEF reportOf, KindClaims, budgetOf
<1>2. DOMAIN r.scenarios = DOMAIN RequiredScenarios
  BY DEF reportOf
<1>3. ASSUME NEW i \in DOMAIN RequiredScenarios
      PROVE  /\ r.scenarios[i].name = RequiredScenarios[i]
             /\ checkScenario(DefaultBudget, r.scenarios[i])
  <2>1. RequiredScenarios[i] \in Range(RequiredScenarios)
    BY DEF Range
  <2>2. CASE RequiredScenarios[i] = name
    <3>1. r.scenarios[i] = result
      BY <2>2 DEF reportOf
    <3> QED
      BY <2>2, <3>1
  <2>3. CASE RequiredScenarios[i] # name
    <3>1. r.scenarios[i] = PromptResults["kind"][FALSE][RequiredScenarios[i]]
      BY <2>3 DEF reportOf, KindClaims
    <3>2. PromptResults["kind"][FALSE][RequiredScenarios[i]].name = RequiredScenarios[i]
      BY <2>1 DEF PromptResults, scenarioResult
    <3> QED
      BY <2>1, <3>1, <3>2, PromptPasses
  <2> QED
    BY <2>2, <2>3
<1> HIDE DEF r
<1>4. budgetProblems(r)
  BY <1>1, ConstantsType DEF budgetProblems
<1>5. scopeProblems(r) /\ catalogProblems(r) /\ namespaceProblems(r) /\ claimProblems(r)
  BY <1>1 DEF scopeProblems, catalogProblems, namespaceProblems, claimProblems
<1>6. scenarioProblems(r)
  <2> DEFINE names == [i \in DOMAIN r.scenarios |-> r.scenarios[i].name]
  <2>1. names = RequiredScenarios
    <3>1. RequiredScenarios = [i \in DOMAIN RequiredScenarios |-> RequiredScenarios[i]]
      BY DEF RequiredScenarios
    <3> QED
      BY <1>2, <1>3, <3>1
  <2>2. IsInjective(RequiredScenarios)
    <3>1. DOMAIN RequiredScenarios = 1..7
      BY DEF RequiredScenarios
    <3>2. \A i \in 1..7 : i \in {1, 2, 3, 4, 5, 6, 7}
      OBVIOUS
    <3>3. /\ RequiredScenarios[1] = "idle-to-interactive"
          /\ RequiredScenarios[2] = "return-to-idle"
          /\ RequiredScenarios[3] = "idle-to-game"
          /\ RequiredScenarios[4] = "scheduled-lead-time"
          /\ RequiredScenarios[5] = "reporter-failure"
          /\ RequiredScenarios[6] = "leader-change"
          /\ RequiredScenarios[7] = "pdb-blocked-eviction"
      BY DEF RequiredScenarios
    <3>4. ASSUME NEW i \in 1..7, NEW j \in 1..7, RequiredScenarios[i] = RequiredScenarios[j]
          PROVE  i = j
      <4> DEFINE R == RequiredScenarios
      <4>1. R[i] = R[j]
        BY <3>4
      <4> HIDE DEF R
      <4>2. CASE i \in {1, 2, 3}
        BY <3>2, <3>3, <4>1, <4>2 DEF R
      <4>3. CASE i \in {4, 5, 6, 7}
        BY <3>2, <3>3, <4>1, <4>3 DEF R
      <4> QED
        BY <3>2, <4>2, <4>3
    <3> QED
      BY <3>1, <3>4 DEF IsInjective
  <2>3. \A sc \in Range(r.scenarios) : checkScenario(r.budget, sc)
    <3> SUFFICES ASSUME NEW sc \in Range(r.scenarios)
                 PROVE  checkScenario(r.budget, sc)
      OBVIOUS
    <3>1. PICK i \in DOMAIN r.scenarios : sc = r.scenarios[i]
      BY DEF Range
    <3>2. checkScenario(DefaultBudget, r.scenarios[i])
      BY <1>2, <1>3, <3>1
    <3>3. r.budget = DefaultBudget
      BY <1>1
    <3> QED
      BY <3>1, <3>2, <3>3
  <2> QED
    BY <2>1, <2>2, <2>3 DEF scenarioProblems
<1> QED
  BY <1>1, <1>4, <1>5, <1>6 DEF Evaluate, r

(***************************************************************************)
(* A sample that does not apply is never late.                             *)
(***************************************************************************)
LEMMA AcceptedOnTime ==
    ASSUME scenario \in Range(RequiredScenarios), Accepted(KindClaims),
           NEW s \in Range(samples(DefaultBudget, scenario, measured))
    PROVE  s.withinBudget
<1> DEFINE m == measured
           recovery == recoverySamples(DefaultBudget, scenario, timedFrom(scenario), m)
           release == releaseSample(DefaultBudget, scenario, timedFrom(scenario), m)
<1>1. checkSample(DefaultBudget, scenario, s)
  <2>1. KindClaims \in Claims /\ budgetOf(KindClaims.environment) = DefaultBudget
    BY DEF KindClaims, Claims, budgetOf
  <2>2. checkScenario(DefaultBudget, recorded(KindClaims))
    BY <2>1, AcceptedChecks
  <2>3. recorded(KindClaims).samples = samples(DefaultBudget, scenario, measured)
        /\ recorded(KindClaims).name = scenario
    BY <2>1, RecordedFields
  <2> QED
    BY <2>2, <2>3 DEF checkScenario
<1>2. s.applicable => s.withinBudget
  BY <1>1 DEF checkSample
<1> HIDE DEF m
<1>3. \A x \in Range(recovery) : x.applicable
  BY Holds3 DEF recoverySamples, sample
<1>4. release.applicable
  BY DEF releaseSample, sample
<1>5. \A x \in Range(leaderSamples(DefaultBudget, scenario, m)) : x.applicable
  BY Holds2 DEF leaderSamples, sample
<1>6. \A x \in Range(pdbSamples(DefaultBudget, scenario, m)) : x.applicable
  BY DEF pdbSamples, sample, Range
<1>7. \A x \in Range(idleSamples(DefaultBudget, scenario, m)) : x.applicable \/ x.withinBudget
  BY DEF idleSamples, sample, inactive, Range
<1>8. s.applicable \/ s.withinBudget
  BY <1>3, <1>4, <1>5, <1>6, <1>7, SamplesAre DEF m
<1> QED
  BY <1>2, <1>8

(***************************************************************************)
(* VerdictComplete.  A run the harness completes, in which no Pod died by  *)
(* itself, is rejected only because a phase took longer than AllowedBudget *)
(* allows.                                                                 *)
(***************************************************************************)
THEOREM CanaryComplete == CanarySpec => []VerdictComplete
<1>1. ASSUME CanaryInv, TimelyInv
      PROVE  VerdictComplete
  <2> DEFINE all == samples(DefaultBudget, scenario, measured)
             late == \E s \in Range(recorded(KindClaims).samples) : ~s.withinBudget
             views == [w \in Workloads |-> view(w)]
  <2> SUFFICES ASSUME stage = "done", mishaps = 0
               PROVE  Accepted(KindClaims) = ~late
    BY DEF VerdictComplete
  <2>1. scenario \in Range(RequiredScenarios)
    BY <1>1 DEF CanaryInv, CanaryType
  <2>2. /\ recorded(KindClaims)
              = scenarioResult(DefaultBudget, scenario, measured, views, blocked, FALSE)
        /\ recorded(KindClaims).samples = all /\ recorded(KindClaims).name = scenario
    <3>1. recorded(KindClaims)
              = scenarioResult(DefaultBudget, scenario, measured, views, blocked, FALSE)
      BY DEF recorded, KindClaims, budgetOf
    <3>2. KindClaims.environment = "kind"
      BY DEF KindClaims
    <3> QED
      BY <3>1, <3>2, RecordedFields DEF budgetOf
  <2>3. late <=> \E s \in Range(all) : ~s.withinBudget
    BY <2>2
  <2>4. InOrder(scenario, measured) /\ AsExpected(scenario, views, blocked)
    BY <1>1, RunInOrder, RunAsExpected
  <2> HIDE DEF all, late, views
  <2>5. ASSUME ~late PROVE Accepted(KindClaims)
    <3>1. \A s \in Range(samples(DefaultBudget, scenario, measured)) : s.withinBudget
      BY <2>3, <2>5 DEF all
    <3>2. checkScenario(DefaultBudget, recorded(KindClaims))
      BY <2>1, <2>2, <2>4, <3>1, ResultPasses
    <3> QED
      BY <2>1, <2>2, <3>2, KindReport DEF Accepted
  <2>6. ASSUME Accepted(KindClaims) PROVE ~late
    BY <2>1, <2>3, <2>6, AcceptedOnTime DEF all
  <2>7. Accepted(KindClaims) <=> ~late
    BY <2>5, <2>6
  <2>8. Accepted(KindClaims) \in BOOLEAN /\ (~late) \in BOOLEAN
    BY DEF Accepted, Evaluate
  <2> QED
    BY <2>7, <2>8, Zenon
<1> QED
  BY <1>1, CanaryInvariant, CanaryTimely, PTL
=============================================================================
