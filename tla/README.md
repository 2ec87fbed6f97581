# A specification of the interactive node controller

The controller keeps the scheduling fields of a Kubernetes Node (one taint, one
optional burst taint, one label) in step with what a host reports about itself:
is somebody playing a game on it, working at it, or is it idle, silent, or held
by its user? This directory holds TLA+ modules for the parts of the program that
decide and act, TLC runs that check them on small instances, and TLAPS proofs.
Paths are relative to the repository; `nodeactivity_controller.go` and its
neighbours are in `internal/controller/`.

## The system and its parts

| Part | State it keeps | Operations | Module |
|---|---|---|---|
| Host reporter (`cmd/node-activity-reporter`, `internal/engine`, `internal/signals`, `internal/reporter`) | the evaluator's established and pending activity, last good sample, generation; the loop's last report | sample, aggregate, debounce, report, heartbeat | `Signals` (configuration and providers), `Reporter` |
| Heartbeat freshness (`heartbeat.go`) | none | verdict of a timestamp: missing, future, fresh, expired | `Heartbeat` |
| Availability windows (`windows.go`) | none | which window is open, when to look again | `Windows` |
| Policy (`decidePolicy`, `reconcileHold`) | none | taint, reason, requeue and next transition of one enrollment; anchoring and removal of a hold | `Policy` |
| Enrollment aggregation (`enrollment.go`, owned fields in `nodeactivity_controller.go`) | none | the strongest of several enrollments of one Node, and the fields it puts there | `Enrollment` |
| Reconciler (`nodeactivity_controller.go`, `node_watch.go`) | work queue, delayed requeues, informer caches; on the server: NodeActivity metadata and status, Node | Reconcile, finalize, watches | `Wakeup` (time only), `Controller` (everything else) |
| Eviction class (`eviction.go`) | none | what a pass may evict | `EvictionClass` |
| Eviction budgets (`eviction_budget.go`) | token buckets per Node and for the process | tryTake | `TokenBucket`, `EvictionBudget`; its promise in `RateLimiter` |
| Eviction loop and retries (`eviction.go`, `eviction_retry.go`) | retry deadlines; the condition of each Node | list, judge, audit, hold back, spend, call, remember, sum up | `Eviction` |
| Metrics (`metrics.go`) | the last label set of every gauge, per Node | observe, clear | `Metrics` |
| Recovery report (`internal/recovery`, with its harness `desktop_recovery_kind_test.go`) | the report of a run | the lead window, the budget of a phase, Evaluate; seven scenarios that record it | `Recovery`, `CanaryReport`, `Canary` |
| CRD readiness, `main`, packaging | see *Not modelled* | | |

How they interact. The reporter patches the status of its NodeActivity and never
touches a Node. Users annotate holds and edit windows in the spec. A change of a
NodeActivity, or of a Node's owned fields, queues every enrollment of that Node.
A pass of the single worker reads its NodeActivity, all enrollments of the Node
and the Node from informer caches, computes the protection, updates the Node
(with a resourceVersion, so it may conflict), writes its status in up to five
merge patches (without one), runs evictions when the Node has one enrollment
only, and asks to be run again after a delay. Nothing else wakes the controller
when only time passes.

What is hard here:

* *Time without events.* Heartbeats expire, clocks that are ahead become
  plausible, windows open, holds end. `RequeueAfter` is assembled from every
  branch of the policy; a forgotten deadline is a Node left wrong.
* *Stale reads.* Every decision is made on caches; hold patches and status
  patches have no precondition, the Node update has one.
* *Crashes and failures between the steps* of a pass, of a deletion in particular.
* *Several enrollments of one Node* that must not weaken each other.
* *Pods replaced or changed* between the judgement and the eviction call, refused
  calls, budgets shared by all Nodes, and Pods nobody watches.
* *A report loop against an unreliable endpoint*, with a debounce, on a host whose
  queries fail: a failed query must never become evidence of idleness.
* *One outcome, one set of series* for a pass that meets many Pods and a process that
  sees Nodes and labels come and go.
* *A verdict on a run* recorded by somebody else's clock and plans, among Pods that
  die and are replaced by themselves.

`PROJECT.json` lists the hazards one by one with their lines and the properties
that would catch them.

## Modules and their relation to the code

Times are natural numbers, the zero time is 0. Names and texts are dropped
unless a property tells them apart.

**Heartbeat** — `heartbeatFreshness`, with the code's strict and non-strict
comparisons: fresh while `age < staleAfter`, future beyond the skew. `PolicyValid`
is `TaintPolicy.Validate`.

**Windows** — a cron schedule is the set of its activations (the cron library is
external). `scannedStarts`, `scanBoundaries` and `scanOpen` are the walk of
`scanWindow`: up to `maxWindowOccurrences` activations from the past, lead time,
overlap, the next start and the next lead boundary. **WindowClock** runs a clock
over a schedule and defines independently what an open window is.

**Policy** — `admissionReason` is the cascade of `decidePolicy`, `taintFor` its
taint, `requeueAfter` and `nextTransition` its two separately assembled lists of
deadlines, `reconciledHold` the annotation logic.

**Enrollment** — `protectionForNode`: ranks, the first strongest enrollment in
namespace/name order, the least of all requeues; `desiredFields` and
`releasedFields` are what Reconcile and finalize put on the Node.

**Wakeup** — one Node and its enrollments under current caches. `Reconcile(e)` is
one atomic pass, `due[e]` its delayed requeue; `Change`, `Withdraw` (deletion with
the finalize pass) and `Restart` are events. The pass lists the enrollments after
its own annotation patch, and that list may or may not show it.

**Controller** — the same controller as a sequence of API calls: `Start` (with
finalizer handling and early returns), `AddFinalizer`, `reconcileHold`,
`Decide`, `UpdateNode`, the five `SetStatus` steps, `RemoveFinalizer`, and
`CallFails` at each of them. NodeActivity and Node have a server copy and a cached
copy; patches compute their difference against the copy the pass holds
(`merged`), conditions being one JSON list. `SyncActivities` and `SyncNodes`
deliver events and queue enrollments; the Node predicate drops events that change
no owned field. `Restart` loses the queue, the timers and the pass.

**EvictionClass** — `evictionClass` over the record the status patches returned,
the Node as updated, the taint wanted at the beginning of the pass and the clock.

**TokenBucket, EvictionBudget** — integer refills with residue, rounding, the
cap, and `tryTake` on both buckets of a class. An observer starts counting
whenever it likes. **RateLimiter** is what they promise, without buckets: credits of
time that waiting earns at most one for one, up to a burst, and out of which each
grant is paid in full twice, for its Node and for the process. Refinement mapping
(`Limiter`): the credit of a Node is the worth in time of its bucket as a refill at
this moment would leave it, `spent` and `granted` are the grants.

**Eviction** — `reconcileEvictions` for several Nodes: a pass lists the cached Pods
of its Node (the order of a cached list is arbitrary), `Skip`s those that fail a
gate, `HoldBack`s those before their deadline, takes a token (`tryTake`) and calls;
the API accepts (`Accepted`) only with the uid and resourceVersion that were
judged, or the call fails (`Refused`), possibly after it took effect. `Finish`
schedules the requeue and publishes the outcome (`classify`). In audit mode Pods that
pass the gates are only counted, a disabled process or a Node with several
enrollments (`duplicate`) lists no Pods; a process starts in any mode. Which gates a
Pod fails is data; which of them a lossy Pod is exempt from is modelled. The class of
each Node is an input here.

**Signals** — which providers a valid configuration runs, what each makes of a host
(sessions in order, processes, the two GPU queries, each of which may fail or
answer nonsense) and `Aggregate`. `GoesOn` and `Unanswered` describe the same host
independently, as its user knows it.

**Reporter** — the debounce, generations, when a report is due, and reports that
fail before or after they took effect, or time out and are applied later
(`LateApplied`), at any time, when newer ones may have arrived. Such a report puts an
old state back, and the loop does not know it; `StatusFollows` excludes that time,
and `HeartbeatKept` says it ends within a heartbeat interval of working calls.

**Metrics** — the gauges of a Node beside the steps of `Controller`: each action of a
pass is conjoined with what it observes (`StartObserved`, `DecideObserved`, ...).
A gauge is the set of its label values that are exported, so a forgotten
`DeleteLabelValues` leaves two; `last` is the code's map of the previous label set.

**Recovery** — `Evaluate` and its checks as predicates (no problem is found),
`AllowedBudget`, `NextLeadWindow`, the workload catalog. Evidence strings are the
sets of the tokens the code looks for. **CanaryReport** — what the harness records
about a scenario. **Canary** — the harness as a process (snapshot, trigger, poll,
finish, or fail) beside the cluster: `Reconcile` writes what `desiredFields` and
`admissionReason` say and evicts any subset of what `evictionClass` allows; kubelet,
ReplicaSet, scheduler and leader election act when they like; Pods `Die`. One
scenario is run, the other six of the report are prompt ones; what a person may
declare in a report (environment, GPU, performance claimed, ...) is free.

`MC*` modules only bound these. The proofs are in modules of their own, each of which
extends what it is about: **PolicyProofs** (Windows, Policy, Enrollment) under
**WakeupProofs**, **CanaryProofs** (WindowClock, Recovery, CanaryReport, Canary) and
**ControllerProofs** (Controller, Metrics); **BucketProofs** (TokenBucket) under
**BudgetProofs** and **EvictionProofs**; **ReporterProofs** (Signals, Reporter) by
itself.

## Plan

The order was: the policy and the time that runs without events (Heartbeat,
Windows, Policy, Enrollment, Wakeup), because everything hangs on it; the
reconciler against stale caches and failures (Controller), which composes the
same operators with the API server; eviction (EvictionBudget, EvictionClass,
Eviction); the reporter; the proofs about the deadline loop. Then the rate limiter
as an abstract specification, late reports and the providers, audit mode and the
outcome condition, the metrics composed with Controller, and the recovery contract
composed with policy, eviction classes and windows. Left:

1. *Proofs*: convergence without the restriction to fail-closed policies, and for
   schedules that exceed the scan bound at some times only.
2. *A one-variable specification of a Node* that always gets the protection its
   enrollments ask for, implemented by Wakeup under a refinement mapping.
3. *Reporter and Controller composed*, with host clocks that differ from the
   controller's. `HeartbeatKept` and the heartbeats of `Wakeup` meet at the status
   field, so the composition would mostly multiply states.

## Runs

| Run | Question | Bounds |
|---|---|---|
| MCWakeup | Is `RequeueAfter` always soon enough (`ProtectionCurrent`, with its inductive form `SteadyUntilDue`), `nextTransition` never late, do duplicates never weaken each other, and is what a Node with one enrollment may evict its row of the eviction matrix at every moment until the next pass (`EvictionFollows`)? | two enrollments, nine reports (missing, current, future, refused, stale by state, also with a heartbeat from the future), holds, four schedules (none, invalid, idle-allowed, two overlapping ones with lead); clock to 6, twice the lifetime of a heartbeat; two events, so that one can hit the other's deadline; 339,951 states |
| MCCanary | Is a report that `Evaluate` accepts true of the run (`VerdictSound`), and is a completed run rejected only for being late (`VerdictComplete`)? Beside the scenarios: does the walk over activations find exactly the open windows, and is no boundary slept through? | all seven scenarios; two Pods per workload, one that dies by itself; a unit of time is about 20 s, with budgets of 2 (detection, admission), 3 (acceptance) and 4 (release) units, `staleAfter` 2, so that each can be met and missed; the lead window from every second of its minute; 367,076 states. All schedules of one or two windows out of 36, leads 0 to 3, a scan bound of two occurrences that some of them exceed |
| MCDeadlines | Are Node and status right whenever the controller rests, and do the owned fields never outlive the finalizer? Do the series say what the enrollments do, and nothing of a Node that has none (`SeriesTruthful`)? | one enrollment; heartbeats, holds, schedules, deletion, conflicts, failures, restarts; stale NodeActivity caches; three events; clock to 3, when the heartbeat, the hold and the window of the first moment have all ended |
| MCFaults | The same with a stale Node cache and drift, kubelet writes, Nodes that go and come, blank enrollments; are deletions completed? Series as above. | one enrollment, four events, clock to 2 |
| MCSiblings | Do two enrollments of one Node leave Node and both statuses consistent, and does a Node lose its last finalizer with the fields still on it only in the ways `OrphansExplained` names? | two enrollments, outdated caches of both kinds; four events out of creation, deletion, reports, failed calls, restarts, drift and kubelet writes; 2,885,698 states |
| MCSettle | Does the controller come to rest, and does a silent host end in a fail-closed taint? | one enrollment; three events out of creation, deletion, reports, holds, a Node that goes or comes, failed calls and restarts; clock to 3 |
| MCEvictionBudget | Is the rate bounded from every moment on, is a refused Node told the right time, and do the buckets implement `RateLimiter`? | two symmetric Nodes, buckets whose interval is no multiple of their count, the global one tighter; clock to 8, beyond a refill of either |
| MCEviction | Does the API take away only Pods that pass the gates, is no Pod called for before its backoff and hint are over (`RetryHonoured`, counted from the start of the refused pass), does the ledger stay small, is nobody left waiting, and does the condition say so (`ConditionHonest`)? | two Nodes, two Pod names, standard and lossy Pods with different budgets, a Retry-After hint longer than the backoff, two steps of others or failures; clock to 3, beyond backoff, hint and refill, and advancing within passes too; Nodes and names are symmetric; 3,504,365 states |
| MCReporter | Does the status follow the debounced samples and the heartbeat the clock, whatever calls fail or are applied late, and is idle only reported of a host that was seen idle (`IdleIsEvidence`)? | the process provider alone and all three together, all combinations of nine process tables, eight session lists and the answers of the GPU queries; thresholds 1 and 2, one restart, one report in flight; clock to 3, beyond heartbeat interval and `stale_after` |

A future activation (`Far`) keeps a cron schedule from running out within the
bounds. In `Controller` the run's clock starts with the first event and does not
advance within a pass (`SlowPass = FALSE`), except in the runs that look for a lost
hold or an orphaned taint: a pass that takes long wakes late by as much, because
controller-runtime counts `RequeueAfter` from its end; ProtectionConverged is not
claimed for that time. In `Eviction` the clock runs within a pass as well: the pass
reads it once, at its beginning, and asks for its requeue at its end, and the properties
say what that leaves of each promise. Deadlock is not
checked in the runs with bounded clocks and events: they stop when the bounds are
used up, and the controller itself may rest forever when nothing is enrolled.

`StatusTruthful` leaves out two things the code does: an enrollment without a Node
name is not looked at again by time alone, and an enrollment refused with a fresh
heartbeat keeps its reason until the next requeue.

**Fairness** (MCSettle only). A started pass goes on: the worker is a loop (weak
fairness of `Work`). No queued request is passed over forever: the work queue is
first in, first out (strong fairness of `Start(e)`). Informers deliver (weak fairness
of `SyncActivities` and `SyncNodes`) and delayed requeues fire (`FireTimer`). The
clock, users, hosts and failures are not fair. `CanWork` and `CanStart` spell out
when the actions are enabled.

## Disagreements of code and documentation

Three runs are expected to find a violation:

* **MCInvalidHold** — the README promises "Stale heartbeats fail closed by default".
  A hold annotation that is no positive duration makes every pass of that
  enrollment return an error before the protection is computed, so a host that
  falls silent is never tainted unless a sibling's pass does it.
* **MCHoldLost** — `docs/controller.md` says the annotation is removed "when it
  expires". The removal is computed from a cached copy and patched without a
  precondition; a new hold the user set in between is removed with it.
* **MCOrphanStaleNode** — `docs/controller.md` says the owned taint is removed "before
  clearing the finalizer". finalize compares with a cached Node; when the cache does
  not show the controller's own last update there is nothing to write, no conflict
  arises, and the finalizer goes while the taint stays. MCDeadlines shows that
  with a current Node cache `FinalizerGuards` holds; that is the role of the
  constant `NodeCacheLag`.

Further divergences met while modelling, which no run checks:

* With `--fail-closed=false` an idle enrollment with an invalid schedule is admitted,
  but its requeue is `StaleAfter` from now and not the rest of its heartbeat, so the
  schedulable label outlives the deadline (`failClosed`; `docs/controller.md`: "The
  earliest contribution deadline schedules reevaluation"). The runs and proofs have
  `FailClosed`.
* The same requeue lets `heartbeatValid` stay true on an expired heartbeat of an
  enrollment that was refused while fresh.
* A pass that does not see the anchor of a hold sets it again, later, although
  `reconcileHold` is said to anchor "once".
* A sibling that has no finalizer yet counts as a live enrollment; finalize leaves
  the Node to it, or even writes the fields it asks for, and it may vanish without a
  pass. `FinalizerGuards` is therefore checked with one enrollment, and
  `OrphansExplained` names this as one of its exceptions.
* `docs/controller.md:163-165` and the row at line 274 keep a heartbeat from the future
  with a stale reporter state on the stale row of the eviction matrix, which evicts lossy
  Pods; the code evicts nothing, and its comment says so ("even when the reporter state is
  stale"). `EvictionFollows` takes the code's row there; every other row is the
  document's, and reports of both kinds are in the run.
* The Retry-After hint of a refused eviction is added to a time read at the beginning of
  the pass (`eviction.go:353`, used at 447), after the calls that were made before it: the
  server may be asked again before its delay is over, by as much as the pass had been
  running. `docs/controller.md` promises no retry "before that deadline", which is this
  deadline; `RetryHonoured` states the bound that is left.
* The requeue of a pass counts from its end and the delays in it from its beginning, so
  a blocked or waiting Pod is looked at late by as much as the pass took (`WokenInTime`).
* The documentation speaks of evaluating candidate Pods "in list order"; a cached
  list has no stable order.
* `config_invalid` is documented as "1 while `InvalidSchedule` is true"
  (`docs/controller.md:139`); with several enrollments of a Node it is that of the
  enrollment whose pass came last. `SeriesTruthful` asks about it with one enrollment.
* `Config.Validate` relates `stale_after` and `heartbeat_interval` to the sample
  interval, not to each other.
* Reporter-failure detection is allowed `staleAfter` + 45 s, but `AllowedBudget` gives
  its admission 45 s from the same trigger, although the taint is written by the pass
  that detects. With the production `staleAfter` of 1 m no live report can meet that
  unless the trigger is late; with the harness's 20 s it leaves 25 s.
* In the PDB scenario the blocked eviction is timed from the trigger until after the
  lossy runner was released, against the acceptance budget of 60 s: a release between
  57 s and 90 s, which meets its own budget, rejects the report.
* The inactive samples of return-to-idle carry `uid-unchanged` as a constant; what
  protects the claim is the check of the workload observations (`VerdictSound` holds
  for that reason), and a workload that was not running at the trigger may come up
  under any UID.
* `Evaluate` says that "the evidence is internally consistent" but never compares a
  sample's duration with the difference of its two times; the harness computes one
  from the other, a report written otherwise need not.

## Proofs

TLAPS proves the following for every value of the constants: any sets of
enrollments, Nodes, Pods, configurations and hosts, any schedules, reports, holds and
budgets, and no bound on clocks or events other than the parameters of the
modules. Of the 35 properties the passing runs check, 32 are theorems: every
invariant and every action property but `FinalizerGuards`, which the code does not keep
in general and which is a corollary under a condition (see *Reconciler*). The other two
are liveness. The assumptions on constants (`ASSUME` in the modules) say which type a parameter has,
what the code validates at startup and, for the canary, how the literals of
`budget.go` and the harness relate; TLC evaluates them in every run.
Whatever else a theorem needs is a hypothesis in its statement and is named here.

### Policy and windows

`PolicyProofs` goes up the same way as the code: `NextIsFirst` (what an activation
search returns), `ScanStable` (a window evaluates the same until its next boundary),
`WaitIsFirst` and `ScheduleStable` (so does a schedule until its wait is over),
`VerdictStable`, `RequeueBounds` (a requeue is positive and within each deadline of the
branch taken), `DecisionStable` (the decision stays until then), `FirstStrongest` and
`ProtectionStable` (so does the protection of a Node until the least of its
enrollments' requeues).

The first part of `CanaryProofs` compares the walk with a calendar of open windows that knows
nothing of scanning:

* **ClockCalendar**: `OpenMatchesCalendar`. The core is `ScanFindsOpen`: a walk that
  did not exceed its bound has seen every activation whose window reaches into the
  present, and the one search ahead is enough for the lead time because an activation
  behind it opens later.
* **ClockSleeps**: `SleepsToBoundary`, from `OpenUntilBoundary`.

### Deadline loop (`WakeupProofs`)

* **WakeupType**: `TypeOK`.
* **WakeupSteady**, **WakeupCurrent**: `ProtectionCurrent` says something about this
  moment only and is not inductive: a tick must preserve it. Its strengthening is
  `SteadyUntilDue`: the Node carries what the policy asks for at *every* moment until
  the enrollment is due. A tick only shortens that interval; an event empties it
  (everyone becomes due); a pass must establish it, by `ProtectionStable`.
* **WakeupStrongest**: `StrongestProtection`, from the former and a lemma that the
  ranks of enrollments are ordered as their taints are.
* **WakeupAnnounced**: `AnnouncedInTime`, from `AnnouncedStable`: between now and
  `nextTransition`, which the code assembles apart from the requeue, no branch of the
  decision changes. It holds for either value of `FailClosed`.
* **WakeupEviction**: `EvictionFollows`. `evictionClass` reads the taints and labels the
  last pass left and the report of now. `MatrixRow` shows that on a Node that carries what
  the policy asks for, the class is the row the report stands in, case by case;
  `SteadyUntilDue` that the Node does carry it, at every moment until the next pass. A
  late requeue, or a taint that outlives its reason, breaks it.

Hypotheses: `Setting` for the second, third and fifth: the policy fails closed (the code does
not keep this property otherwise, see *Disagreements*), and a schedule that cannot be
evaluated at one time, because it is invalid or has more overlapping activations than
may be scanned, still cannot be at later ones (`ErrorPersists`; this alone for the
fourth). A validated schedule never fails, an unparsable one always does; a walk that
exceeds its bound at some times only does get better without a wakeup of its own before
`StaleAfter`, and that case is not covered by the theorems.

### Eviction budgets (`BucketProofs`, `BudgetProofs`)

`BucketProofs` computes what `refill` does: a refill over any time adds exactly the
whole tokens of elapsed time plus residue, as far as there is room, the refill of a
bucket that stays empty only banks the time, and the wait for a token is the least time
after which a refill gives one.

* **BudgetType**, **BudgetCovering**: the inductive invariant is `TypeOK` with `Covering`
  (what was granted since the observer began is paid by a burst and the time the bucket
  was brought up to). The whole difficulty is in the roundings: tokens of
  `interval / count` are rounded down, so the residue carries the remainder; `consumed`
  and `period` bound what k tokens cost.
* **BudgetRate**: `RateBound`, by monotonicity of `consumed` from `Covering`.
* **BudgetRetry**: the action property `RetryWhenAvailable`; a refused caller gets the
  first possible time, of two buckets with different classes.
* **BudgetImplementsLimiter**: every step of EvictionBudget is a step of `RateLimiter`
  or a stutter under `Limiter`. The credit of a Node is the worth of its bucket
  brought up to now: constant under refills, earning at most one for one under `Tick`,
  and less by the price of a token in `Take`.

### Eviction loop (`EvictionProofs`)

The inductive invariant (**EvictionInvariant**) follows a pass from the list to the
requeue. Its parts and what they give:

* `Snapshot` (what is in the cache or in hand is an earlier state of the Pod of that
  name, and uid and resourceVersion identify it) and `Listed` (what is called for
  passed the gates, in that state) give **EvictionJudged**: `OnlyJudgedPods`. The
  preconditions of the call turn the judgement of the past into one of the present.
* `Ledger` gives **EvictionLedger**: `OneEntryPerPod`. A Pod in hand keeps other
  incarnations of its name out, because the pass pruned the ledger when it listed.
* `Backoff` (where backoff or hint forbid a call, the ledger has a deadline no
  earlier, counted from the time the refused pass read) gives **EvictionRetry**:
  `RetryHonoured`. `asked` is a history of the refusals: until when the server wants to be
  left alone, and how long the pass had been running.
* `Met` (each entry of the Node is still to be judged, or the delay so far is short
  enough for it) and `Awaits` (no deferred class can be served within the delay so far)
  make **EvictionWoken** (`WokenInTime`) and **EvictionHonest** (`ConditionHonest`)
  inductive. `Awaits` survives the other Pods of the pass since a grant only lowers
  both buckets. Delays are relative to the beginning of the pass (`Time`), which is what
  leaves the length of the pass in `WokenInTime`.
* **EvictionType**: `TypeOK`.

The one hypothesis, `Jitter`: the jitter added to a backoff is a natural number (0, or a
hash modulo a bound).

### Reporter (`ReporterProofs`)

The inductive invariant (**ReporterInvariant**) has `Counted` (the count in the
evaluator is the length of the run of equal samples in the history, as far as it
matters), `InFlight`, `LateSays` and `Followed` (what was sent, what may still come late
and what the status shows are of the generation the loop remembers) and
`SampleEvidence` with `IdleSeen` (what a sample says was seen on the host it was taken
of). From it:

* **ReporterType**, **ReporterUncertain** (`UncertaintyReported`: `goodAt` is a history of
  the good samples as the providers gave them, and the invariant that it is the
  evaluator's `lastGood`, or `firstSeen` while there is none, is what maintenance of those
  two fields has to achieve), **ReporterFollows**
  (`StatusFollows`);
* **ReporterIdle**: `IdleIsEvidence`, resting on `ProviderHonest`: a provider all of
  whose queries were answered says what there is to notice, one that misses an answer
  says unknown or something it has noticed before;
* the action properties **ReporterDebounce** (`DebounceExact`) and
  **ReporterHeartbeat** (`HeartbeatKept`).

There are no hypotheses: the configuration is any that `Validate` accepts.

### Reconciler (`ControllerProofs`)

The base invariant (**ControllerInvariant**) says what the caches and the pass in progress
know. `ActCurrent`, `NodeCurrent`: a cached copy that differs from the server has an
event outstanding. `CacheHeld`: the cached copy of a live enrollment with a finalizer is
of an object the server still holds for that Node. `PassKnows`: a pass that believes
its copy current has the server's. `Undeleted`: an object on its way out is queued, has
an event outstanding, or a pass is finalizing it. It needs no hypothesis and gives
**ControllerType** and **ControllerDeletes** (`DeletionCompletes`).

**ControllerConverges** (`ProtectionConverged`). The property speaks of rest only. The
invariant `Covered` speaks of every moment: each Node with enrollments *in the cache* is
`Woken` (somebody is queued or an event is outstanding), or a pass for it has not
decided yet (`Deciding`), or has decided and its fields, written or to be written, are
right until its requeue (`Finishing`), or the Node is right until some timer (`Steady`).
It must be about cached enrollments, because those are what passes decide on: at rest
they are the server's. Conflicts and failures end a pass in the queue, hence in `Woken`.

**ControllerTells** (`StatusTruthful`). `StatusCovered` is the same for each live cached
enrollment: `Asked` (queued, or an event outstanding), or `Telling` (a pass is in
progress whose object is the cached one, and every setter behind it found nothing to
change), or `Told` (its status is truthful until its timer). A setter that changes
something produces an event, so a pass that ends in `Told` is one in which all five
found the status as they want it, with the enrollments and the Node the server has;
`TruthLasts` carries that on to the requeue, by `ProtectionStable` and the deadline of
the heartbeat.

**ControllerOrphans** (`OrphansExplained`) is about every step and has no hypothesis: any
number of enrollments, caches as outdated as they like, drift. Fields come to a Node that
has none by a pass that holds a finalizer for it (`PassKnows`), by the release of a pass
that writes for a sibling, or from others (`ProtectedBy`); the last finalizer goes only in
`RemoveFinalizer` (`OwnerNext`); and by `Released` a pass that leaves the Node to nobody has
cleared it, unless the Node was written since the copy it judged. The exceptions are
reached: without any one of them TLC finds a counterexample. `FinalizerGuards` itself is
the corollary `ControllerGuards`: it holds in every behaviour without a step of those
kinds, and MCOrphanStaleNode is a behaviour with one.

Hypotheses. `Calm` for the two convergence theorems: `Setting` as above, and passes that
take no time (`~SlowPass`): controller-runtime counts a requeue from the end of a pass,
which decided at its beginning, so a slow pass wakes late by as much.

### Metrics (`ControllerProofs`, second part)

`SeriesSpec` adds the gauges to the steps of Controller. `SeriesSteps` shows that each
of its steps is one of Controller, or a stutter, when `series` is dropped, so
everything above holds beside them.

* **MetricsOneLabel**: what the `last*` maps remember of a labelled gauge is exactly
  what is exported, after any step of any pass. The one `DeleteLabelValues` they allow
  is therefore enough. No hypothesis.
* **MetricsTellEnrolled**: what `SeriesTruthful` says of Nodes with enrollments, for any
  number of them. A gauge is written in passing and by nothing else; the invariant
  `SeriesCovered` has, for each Node with enrollments in the cache, somebody who is
  queued (`Woken`), an enrollment on its way out whose event is still to come
  (`Leaving`), a pass that will export or is exporting what they ask for (`Seeing`,
  `Exporting`), or gauges that are right until a requeue and that no pass is about to
  change (`Exported`). Setting: `Calm`, as for convergence.
* **MetricsTruthful**: `SeriesTruthful`, with the Nodes that have no enrollment: they
  export nothing. `Owned` (a Node with gauges has an enrollment whose finalizer is
  still there) and `Dropped` (a pass about to remove the finalizer has cleared the
  gauges, one about to release the Node will) are inductive for one enrollment
  (`Single`) only: with two, a sibling that has no finalizer yet is counted as live
  (`enrollment.go:47`), its gauges are written by the other one's last pass, and it may
  vanish without a pass of its own.

### Recovery report (`CanaryProofs`, second part)

**CanaryInvariant** is about every state of a run, of whichever scenario. Its parts:
`HostSays`, `Armed`, `Budgeted` and `NoPDB` (what the host reports, which window is armed,
when the disruption budget and its workload are there); `InTurn`, `Recorded`, `Unharmed`
(Pods of a workload come one after the other, what became of those in the snapshot, and
nothing is evicted or timed before it); `InBudget` (the waits of the harness are
bounded); `EvictionShuts` (an eviction comes after the trigger and only under a taint or
label that also keeps the replacement away, so the Pod that is evicted is the last of
its workload on the Node); `TimedAfter`, `TimedExactly` (the release of an evicted Pod
is timed at the instant it happened, since the harness polls at every moment);
`AllLeft` (in the waits that are over, each workload that had to leave left within the
budget, and not before the minimal gap).

**CanarySound**: `VerdictSound`. That the workloads that had to leave were evicted after
the trigger, and were gone in time, follows from `AllLeft`, `EvictionShuts` and
`TimedExactly`: from the deadlines of the harness and from the policy, whatever
`Evaluate` says. What its checks contribute is the rest: the others still run the Pod of
the snapshot (`checkObservation` compares UIDs, and is the only check that notices a Pod
that died by itself), and performance is claimed only of a live run with a measured GPU
that was clear before the window (`claimProblems`, `checkLead`).

**CanaryTimely** adds what holds of a run without mishaps: `Stamped` and `LeaderStamped`
(the times are in the order of the events), `Undisturbed` (a workload no eviction
reaches still runs its first Pod), `BlockedSeen`, `Returning`. From both,
**CanaryComplete** (`VerdictComplete`): the run's result is `InOrder` and `AsExpected`, and
one lemma per check of `Evaluate` shows that such a result passes it: samples, phases,
required and inactive samples, PDB, lead, workloads, scope and claims (`ResultPasses`).
The six prompt scenarios of the report pass by the same lemmas (`PromptPasses`), so
only the budget of a sample is left to reject (`AcceptedOnTime`).

Assumptions on the constants: `endToEnd` and `resourceRelease` are the same
(`budget.go:146-147`, both 90 s) and at least `minAcceptanceGap` (`evaluate.go:10`); the
window the harness schedules (three minutes) is no shorter than its longest wait, so
it does not close under a wait; the next start of its cron line, a day later, is beyond
the run (`Later`); and the walk over activations may see at least one. These hold of the
literals in the code. There are no other hypotheses.

One thing the proof found was in the model: two guards of the CASE in `expectedEviction`
overlapped, where the source has an ordered `switch`. TLC takes the first that holds;
in the logic such a CASE has no definite value and the theorem could not be proved.
The guards now exclude each other.

### What is only model-checked

* `Settles` and `StaleFailsClosed` (MCSettle): liveness under fairness, out of the
  prover's reach.
* What the recursive and folded definitions of the code's loops compute is stated by
  sets in these modules where a theorem is about them (`Least`, `scannedStarts`,
  `streak`); nothing is proved by induction over data.

## Not modelled

* *CRD readiness*: a comparison of a schema document with a list of fields, without
  state. *Flags and wiring* of the two programs, charts, roles and scripts: their
  results are the constants and the assumptions on them.
* *Configuration*: decoding of the file, defaults, and the syntax of commands, paths
  and names.
* Signals: the characters of command output. A line is known by its kind, a
  command line by the literals the code searches for. `IdleIsEvidence` says what goes
  on at a host with the code's own reading of one process or session
  (`gameProcess`, `interactive`); sessions with an unsafe id and processes that cannot
  be read are passed over by both, so the property says nothing of a host that is busy
  with these alone.
* Reporter: `observedAt` and reasons; more than one timed-out report in a run.
* Controller: informers that go back in time after a restart, several replicas
  (leader election makes one active; Canary has the change of leader), the rounding
  of times in status, times and generations of conditions, the inner structure of
  `managedTaint`.
* Eviction: Pods without identity, the summary's texts, a failing list of the cache,
  and changes of the eviction configuration within a process.
* Metrics: counters, histograms, the value of the heartbeat's age, the time of the next
  window, and eviction outcomes other than the one of a disabled loop (the outcome
  itself is in Eviction).
* Recovery: JSON, names, contexts, the sizes of requests; the
  namespaces and the unrelated taint the canary must not touch are constant.
