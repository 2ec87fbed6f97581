------------------------------- MODULE Recovery -------------------------------
(***************************************************************************)
(* The desktop-recovery contract, from internal/recovery: which workloads  *)
(* and scenarios a canary report has, how long a phase may take and when   *)
(* Evaluate accepts a report. The functions of evaluate.go return lists of *)
(* problems; here each of them is the predicate that its list is empty.    *)
(* Evidence is the set of the tokens its string contains; a nil time or    *)
(* duration is Never. Requests and names are left out.                     *)
(***************************************************************************)
EXTENDS Integers, Sequences, Functions

CONSTANTS DefaultBudget,     \* durations, by the names of type Budget
          minAcceptanceGap,  \* between acceptance and release
          Minute,            \* NextLeadWindow: a cron start is a whole minute,
          Ahead,             \* at least 25 s ahead,
          Margin             \* and its lead begins 10 s from now

BudgetFields ==
    {"detection", "admission", "evictionAcceptance", "resourceRelease", "endToEnd",
     "gpuRelease", "failClosedSlack", "leadApplySlack", "leaderRestore", "harnessStaleAfter",
     "productionStaleAfter", "recommendedLeadTime"}

ASSUME BudgetAssumption ==
    /\ DefaultBudget \in [BudgetFields -> Nat]
    /\ DefaultBudget.resourceRelease = DefaultBudget.endToEnd /\ DefaultBudget.endToEnd > 0
    /\ minAcceptanceGap \in Nat /\ minAcceptanceGap <= DefaultBudget.endToEnd
ASSUME LeadAssumption ==
    /\ {Minute, Ahead, Margin} \subseteq Nat
    /\ 0 < Margin /\ Margin < Ahead /\ Ahead <= Minute

Never == -1

RequiredScenarios ==
    <<"idle-to-interactive", "return-to-idle", "idle-to-game", "scheduled-lead-time",
      "reporter-failure", "leader-change", "pdb-blocked-eviction">>

(***************************************************************************)
(* Catalog: optedIn, lossy and pinned are the labels and annotation the    *)
(* controller reads, selector asks for the schedulable label. The probe is *)
(* created and deleted by the harness and never observed as a workload.    *)
(***************************************************************************)
profile(disposable, optedIn, lossy, pinned, selector) ==
    [disposable |-> disposable, optedIn |-> optedIn, lossy |-> lossy,
     pinned |-> pinned, selector |-> selector]

Catalog ==
    [lossy     |-> profile(TRUE, TRUE, TRUE, FALSE, TRUE),
     standard  |-> profile(TRUE, TRUE, FALSE, FALSE, FALSE),
     protected |-> profile(FALSE, FALSE, FALSE, FALSE, FALSE),
     pinned    |-> profile(FALSE, TRUE, FALSE, TRUE, FALSE),
     pdb       |-> profile(TRUE, TRUE, TRUE, FALSE, TRUE),
     probe     |-> profile(TRUE, FALSE, FALSE, FALSE, TRUE)]

AllowedBudget(b, name, phase) ==
    CASE phase \in {"leader-election", "leader-restore"} -> b.leaderRestore
      [] phase = "eviction" -> b.evictionAcceptance
      [] phase = "release" -> b.resourceRelease
      [] phase \in {"admission", "admission-reopen"} -> b.admission
      [] phase = "detection" ->
           CASE name = "reporter-failure" -> b.harnessStaleAfter + b.failClosedSlack
             [] name = "scheduled-lead-time" -> b.leadApplySlack
             [] OTHER -> b.detection
      [] OTHER -> 0

(***************************************************************************)
(* The next whole minute that is far enough ahead; by LeadAssumption the   *)
(* lead is positive and its boundary lies between now and the start.       *)
(***************************************************************************)
NextLeadWindow(at) ==
    LET next  == (at \div Minute + 1) * Minute
        start == IF next - at < Ahead THEN next + Minute ELSE next
    IN  [start |-> start, lead |-> start - at - Margin, boundary |-> at + Margin]

----------------------------------------------------------------------------
budgetProblems(r) ==
    LET free == IF r.environment = "live" THEN {"harnessStaleAfter"} ELSE {}
    IN  /\ \A f \in BudgetFields \ free : r.budget[f] = DefaultBudget[f]
        /\ r.budget.endToEnd = r.budget.resourceRelease
        /\ r.environment = "live" => r.budget.harnessStaleAfter = r.budget.productionStaleAfter

scopeProblems(r) ==
    r.environment = "kind" =>
        /\ r.detectionScope = "controller-only"
        /\ ~r.gpuMeasured /\ ~r.desktopVisible
        /\ "no GPU" \in r.gpuEvidence
        /\ r.liveRunRemaining = "canonical"

catalogProblems(r) == r.catalog = Catalog

namespaceProblems(r) ==
    r.environment = "kind" =>
        /\ "kube-system" \in DOMAIN r.namespacesBefore
        /\ \A ns \in DOMAIN r.namespacesBefore :
              /\ ns \in DOMAIN r.namespacesAfter
              /\ r.namespacesAfter[ns] = r.namespacesBefore[ns]

allowedTriggers(name) ==
    CASE name = "scheduled-lead-time" -> {"lead-boundary"}
      [] name = "reporter-failure" -> {"reporter-stopped"}
      [] name = "leader-change" -> {"leader-cancelled", "leader-drift", "status"}
      [] name = "pdb-blocked-eviction" -> {"status", "pdb-deleted"}
      [] OTHER -> {"status"}

(***************************************************************************)
(* checkSample. Only an observed release satisfies recovery, and only with *)
(* a gap to the acceptance: being asked to go is not being gone.           *)
(***************************************************************************)
provesRecovery(b, s) ==
    /\ s.phase = "release" /\ s.expected = "observed"
    /\ {"pod-absent", "requests-dropped"} \subseteq s.evidence
    /\ "still-bound" \notin s.evidence
    /\ s.gap # Never /\ s.gap >= minAcceptanceGap
    /\ s.duration <= b.endToEnd

provesBlock(s) ==
    /\ ~s.satisfies
    /\ s.phase = "release" => "still-bound" \in s.evidence
    /\ s.phase = "eviction" => "deletionTimestamp-absent" \in s.evidence

checkSample(b, name, s) ==
    LET allowed == AllowedBudget(b, name, s.phase)
    IN  /\ s.budget = allowed
        /\ ~(s.phase = "eviction" /\ s.satisfies)
        /\ IF ~s.applicable
           THEN ~s.satisfies /\ s.expected \in {"absent", "not-applicable"}
           ELSE /\ s.expected \in {"observed", "reopened", "blocked"}
                /\ s.observedAt # Never /\ s.duration # Never
                /\ s.observedAt >= s.triggerAt
                /\ s.duration <= allowed /\ s.withinBudget
                /\ s.satisfies => provesRecovery(b, s)
                /\ s.expected = "blocked" => provesBlock(s)

requireSample(sc, phase, expected) ==
    \E s \in Range(sc.samples) : s.phase = phase /\ s.expected = expected /\ s.applicable

(***************************************************************************)
(* requireInactive judges the first sample of the phase.                   *)
(***************************************************************************)
requireInactive(sc, phase) ==
    LET of == {i \in DOMAIN sc.samples : sc.samples[i].phase = phase}
    IN  \E i \in of :
           LET s == sc.samples[i]
           IN  /\ \A j \in of : i <= j
               /\ ~s.applicable /\ ~s.satisfies /\ s.expected = "absent"
               /\ "uid-unchanged" \in s.evidence

satisfyingReleases(sc) ==
    {i \in DOMAIN sc.samples : sc.samples[i].phase = "release" /\ sc.samples[i].satisfies}

requireRecoveryPhases(sc) ==
    /\ requireSample(sc, "detection", "observed")
    /\ requireSample(sc, "admission", "observed")
    /\ requireSample(sc, "eviction", "observed")
    /\ satisfyingReleases(sc) # {}
    /\ sc.name = "pdb-blocked-eviction" =>
          requireSample(sc, "eviction", "blocked") /\ requireSample(sc, "release", "blocked")

checkPDB(sc) ==
    LET cases == {c \in sc.blocked : c.workload = "pdb" /\ c.reason = "pdb"}
    IN  /\ cases # {}
        /\ \A c \in cases : /\ ~c.accepted /\ ~c.released
                            /\ {"pdb-blocked", "still-bound"} \subseteq c.evidence
        /\ \E i \in satisfyingReleases(sc) :
              /\ sc.samples[i].trigger = "pdb-deleted"
              /\ "after-pdb-removed" \in sc.samples[i].evidence

(***************************************************************************)
(* A release before the window is proven only by the last one recorded.    *)
(***************************************************************************)
checkLead(b, sc) ==
    /\ sc.leadTime > 0 /\ sc.windowStart # Never
    /\ sc.preWindowReleaseProven =>
          /\ sc.leadTime >= b.endToEnd
          /\ \E i \in satisfyingReleases(sc) :
                /\ \A j \in satisfyingReleases(sc) : j <= i
                /\ sc.samples[i].observedAt \in 0..(sc.windowStart - 1)

----------------------------------------------------------------------------
StandardGoesWithLead(name, w, at) ==
    CASE w \in {"protected", "pinned"} -> "kept"
      [] w = "pdb" /\ name = "pdb-blocked-eviction" ->
           IF at = "blocked" THEN "kept" ELSE IF at = "cleared" THEN "evicted" ELSE "any"
      [] w \in {"lossy", "standard"} /\ name = "return-to-idle" -> "kept"
      [] w = "lossy" /\ name # "return-to-idle" -> "evicted"
      [] w = "standard" /\ name # "return-to-idle" ->
           IF name \in {"idle-to-game", "leader-change", "scheduled-lead-time"}
           THEN "evicted" ELSE "kept"
      [] OTHER -> "any"

(***************************************************************************)
(* expectedEviction: "any" is a workload the scenario does not gate.       *)
(***************************************************************************)
expectedEviction(name, w, at) ==
    CASE w \in {"protected", "pinned"} -> "kept"
      [] w = "pdb" /\ name = "pdb-blocked-eviction" ->
           IF at = "blocked" THEN "kept" ELSE IF at = "cleared" THEN "evicted" ELSE "any"
      [] w \in {"lossy", "standard"} /\ name = "return-to-idle" -> "kept"
      [] w = "lossy" /\ name # "return-to-idle" -> "evicted"
      [] w = "standard" /\ name # "return-to-idle" ->
           IF name \in {"idle-to-game", "leader-change"} THEN "evicted" ELSE "kept"
      [] OTHER -> "any"

ObservationByHolding(name, o) ==
    LET want == expectedEviction(name, o.name, o.stage)
    IN  /\ o.name \in DOMAIN Catalog /\ o.profile = Catalog[o.name]
        /\ o.evicted => (/\ o.profile.disposable /\ o.profile.optedIn
                         /\ ~o.profile.pinned /\ ~o.holdsAfter)
        /\ o.name \in {"protected", "pinned"} =>
              ~o.evicted /\ o.holdsAfter /\ o.uidBefore # 0 /\ o.uidBefore = o.uidAfter
        /\ want # "any" => o.evicted = (want = "evicted")
        /\ want = "kept" => o.holdsAfter

(***************************************************************************)
(* checkWorkloads for one observation. A workload that was not running at  *)
(* the trigger (uid 0) may come up under any uid.                          *)
(***************************************************************************)
checkObservation(name, o) ==
    LET want == expectedEviction(name, o.name, o.stage)
    IN  /\ o.name \in DOMAIN Catalog /\ o.profile = Catalog[o.name]
        /\ IF o.evicted
           THEN o.profile.disposable /\ o.profile.optedIn /\ ~o.profile.pinned /\ ~o.holdsAfter
           ELSE o.uidBefore \in {0, o.uidAfter}
        /\ o.name \in {"protected", "pinned"} =>
              ~o.evicted /\ o.holdsAfter /\ o.uidBefore # 0 /\ o.uidBefore = o.uidAfter
        /\ want # "any" => o.evicted = (want = "evicted")
        /\ want = "kept" => o.holdsAfter

checkWorkloads(sc) ==
    /\ \A o \in sc.workloads : checkObservation(sc.name, o)
    /\ {"protected", "pinned", "lossy", "standard"} \subseteq {o.name : o \in sc.workloads}
    /\ sc.name = "pdb-blocked-eviction" =>
          {"blocked", "cleared"} \subseteq
              {o.stage : o \in {p \in sc.workloads : p.name = "pdb"}}

checkScenario(b, sc) ==
    /\ \A s \in Range(sc.samples) : /\ s.trigger \in allowedTriggers(sc.name)
                                    /\ checkSample(b, sc.name, s)
    /\ IF sc.name = "return-to-idle"
       THEN /\ requireSample(sc, "detection", "observed")
            /\ requireSample(sc, "admission-reopen", "reopened")
            /\ requireInactive(sc, "eviction") /\ requireInactive(sc, "release")
       ELSE requireRecoveryPhases(sc)
    /\ sc.name = "leader-change" => (/\ requireSample(sc, "leader-election", "observed")
                                     /\ requireSample(sc, "leader-restore", "observed"))
    /\ sc.name = "pdb-blocked-eviction" => checkPDB(sc)
    /\ checkWorkloads(sc)
    /\ IF sc.name = "scheduled-lead-time" THEN checkLead(b, sc)
       ELSE ~sc.preWindowReleaseProven /\ sc.leadTime = 0 /\ sc.windowStart = Never

(***************************************************************************)
(* Every required scenario once, and no other.                             *)
(***************************************************************************)
scenarioProblems(r) ==
    LET names == [i \in DOMAIN r.scenarios |-> r.scenarios[i].name]
    IN  /\ IsInjective(names)
        /\ Range(names) = Range(RequiredScenarios)
        /\ \A sc \in Range(r.scenarios) : checkScenario(r.budget, sc)

claimProblems(r) ==
    r.performanceClaimed =>
        /\ r.environment = "live" /\ r.detectionScope = "host-to-controller"
        /\ r.gpuMeasured /\ "nvidia-smi" \in r.gpuEvidence
        /\ r.desktopVisible /\ r.desktopEvidence # {}
        /\ r.liveRunRemaining = "empty"
        /\ \A sc \in Range(r.scenarios) : \A s \in Range(sc.samples) :
              s.applicable /\ s.expected # "absent" => s.withinBudget
        /\ \E sc \in Range(r.scenarios) :
              sc.name = "scheduled-lead-time" /\ sc.preWindowReleaseProven

(***************************************************************************)
(* Evaluate returns no problem.                                            *)
(***************************************************************************)
Evaluate(r) ==
    /\ r.environment \in {"kind", "live"}
    /\ r.detectionScope \in {"controller-only", "host-to-controller"}
    /\ budgetProblems(r) /\ scopeProblems(r) /\ catalogProblems(r)
    /\ namespaceProblems(r)
    /\ r.environment = "kind" => r.unrelatedTaintPreserved
    /\ claimProblems(r)
    /\ scenarioProblems(r)
=============================================================================
