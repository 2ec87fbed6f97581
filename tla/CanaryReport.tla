----------------------------- MODULE CanaryReport -----------------------------
(***************************************************************************)
(* What the harness of internal/controller/desktop_recovery_kind_test.go   *)
(* writes into a report about one scenario: m holds the times it took, and *)
(* views[w] the UID a workload ran under before the trigger, the one it    *)
(* runs under now (0 when none) and whether it holds resources now.        *)
(***************************************************************************)
EXTENDS Recovery

Workloads == {"lossy", "standard", "protected", "pinned", "pdb"}
statusWorkloads == Workloads \ {"pdb"}
ToGame == {"idle-to-game", "leader-change"}

(***************************************************************************)
(* The workloads the harness waits for, and records as evicted.            *)
(***************************************************************************)
evict(name) ==
    CASE name = "return-to-idle" -> {}
      [] name \in ToGame -> {"lossy", "standard"}
      [] OTHER -> {"lossy"}

sample(b, name, phase, trigger, at, observed, expected, evidence, satisfies, gap) ==
    LET allowed == AllowedBudget(b, name, phase)
    IN  [phase |-> phase, applicable |-> TRUE, expected |-> expected, trigger |-> trigger,
         triggerAt |-> at, observedAt |-> observed, duration |-> observed - at,
         budget |-> allowed, withinBudget |-> observed - at <= allowed,
         satisfies |-> satisfies, gap |-> gap, evidence |-> evidence]

(***************************************************************************)
(* inactive: its evidence is a constant, not something the harness checks. *)
(***************************************************************************)
inactive(b, name, phase) ==
    [phase |-> phase, applicable |-> FALSE, expected |-> "absent", trigger |-> "status",
     triggerAt |-> Never, observedAt |-> Never, duration |-> Never,
     budget |-> AllowedBudget(b, name, phase), withinBudget |-> TRUE, satisfies |-> FALSE,
     gap |-> Never, evidence |-> {"uid-unchanged"}]

recoverySamples(b, name, trigger, m) ==
    <<sample(b, name, "detection", trigger, m.trigger, m.detection, "observed", {}, FALSE, Never),
      sample(b, name, "admission", trigger, m.trigger, m.admission, "observed", {}, FALSE, Never),
      sample(b, name, "eviction", trigger, m.trigger, m.acceptance, "observed",
             {"eviction-accepted"}, FALSE, Never)>>

releaseSample(b, name, trigger, m) ==
    sample(b, name, "release", trigger, m.trigger, m.release, "observed",
           {"pod-absent", "requests-dropped"}, TRUE, m.gap)

idleSamples(b, name, m) ==
    <<sample(b, name, "detection", "status", m.trigger, m.detection, "observed", {}, FALSE, Never),
      sample(b, name, "admission-reopen", "status", m.trigger, m.admission, "reopened", {}, FALSE,
             Never),
      inactive(b, name, "eviction"), inactive(b, name, "release")>>

leaderSamples(b, name, m) ==
    <<sample(b, name, "leader-election", "leader-cancelled", m.stopped, m.elected, "observed",
             {}, FALSE, Never),
      sample(b, name, "leader-restore", "leader-drift", m.drift, m.restored, "observed",
             {}, FALSE, Never)>>

pdbSamples(b, name, m) ==
    <<sample(b, name, "eviction", "status", m.trigger, m.removed, "blocked",
             {"deletionTimestamp-absent", "pdb-blocked"}, FALSE, Never),
      sample(b, name, "release", "status", m.trigger, m.removed, "blocked",
             {"still-bound"}, FALSE, Never),
      sample(b, name, "eviction", "pdb-deleted", m.removed, m.clearedAccept, "observed",
             {"eviction-accepted"}, FALSE, Never),
      sample(b, name, "release", "pdb-deleted", m.removed, m.clearedRelease, "observed",
             {"pod-absent", "requests-dropped", "after-pdb-removed"}, TRUE,
             m.clearedRelease - m.clearedAccept)>>

timedFrom(name) ==
    CASE name = "scheduled-lead-time" -> "lead-boundary"
      [] name = "reporter-failure" -> "reporter-stopped"
      [] OTHER -> "status"

samples(b, name, m) ==
    LET recovery == recoverySamples(b, name, timedFrom(name), m)
        release  == <<releaseSample(b, name, timedFrom(name), m)>>
    IN  CASE name = "return-to-idle" -> idleSamples(b, name, m)
          [] name = "leader-change" -> leaderSamples(b, name, m) \o recovery \o release
          [] name = "pdb-blocked-eviction" -> recovery \o pdbSamples(b, name, m)
          [] OTHER -> recovery \o release

(***************************************************************************)
(* observations: "evicted" is what the harness planned; the UIDs and the   *)
(* held requests are what it reads back.                                   *)
(***************************************************************************)
observation(w, view, evicted, at) ==
    [name |-> w, profile |-> Catalog[w], uidBefore |-> view.before, uidAfter |-> view.after,
     holdsAfter |-> view.holds, evicted |-> evicted, stage |-> at]

observations(name, views, bound) ==
    {observation(w, views[w], w \in evict(name), "") : w \in statusWorkloads}
        \cup IF name = "pdb-blocked-eviction"
             THEN {observation("pdb", bound, FALSE, "blocked"),
                   observation("pdb", views["pdb"], TRUE, "cleared")}
             ELSE {}

scenarioResult(b, name, m, views, bound, proven) ==
    LET lead == name = "scheduled-lead-time"
    IN  [name      |-> name,
         samples   |-> samples(b, name, m),
         workloads |-> observations(name, views, bound),
         blocked   |-> IF name # "pdb-blocked-eviction" THEN {}
                       ELSE {[workload |-> "pdb", reason |-> "pdb", accepted |-> FALSE,
                              released |-> FALSE, evidence |-> {"pdb-blocked", "still-bound"}]},
         leadTime  |-> IF lead THEN m.lead ELSE 0,
         windowStart |-> IF lead THEN m.start ELSE Never,
         preWindowReleaseProven |-> lead /\ proven]

(***************************************************************************)
(* The scenarios of a report other than the one under study, as a run in   *)
(* which everything happens at once records them.                          *)
(***************************************************************************)
PromptTimes ==
    [trigger |-> 1, detection |-> 1, admission |-> 1, acceptance |-> 1,
     release |-> 1 + minAcceptanceGap, gap |-> minAcceptanceGap, stopped |-> 1, elected |-> 1,
     drift |-> 1, restored |-> 1, removed |-> 1, clearedAccept |-> 1,
     clearedRelease |-> 1 + minAcceptanceGap, lead |-> DefaultBudget.endToEnd,
     start |-> 1 + DefaultBudget.endToEnd]

PromptViews(name) ==
    [w \in Workloads |->
        IF w \in evict(name) \cup {"pdb"} THEN [before |-> 1, after |-> 0, holds |-> FALSE]
        ELSE [before |-> 1, after |-> 1, holds |-> TRUE]]

budgetOf(environment) ==
    IF environment = "kind" THEN DefaultBudget
    ELSE [DefaultBudget EXCEPT !.harnessStaleAfter = DefaultBudget.productionStaleAfter]

PromptResults ==
    [environment \in {"kind", "live"} |-> [proven \in BOOLEAN |-> [name \in Range(RequiredScenarios) |->
        scenarioResult(budgetOf(environment), name, PromptTimes, PromptViews(name),
                       [before |-> 1, after |-> 1, holds |-> TRUE], proven)]]]

(***************************************************************************)
(* A report. What a person who runs the live canary declares is free       *)
(* (claims); the namespaces and the unrelated taint are untouched.         *)
(***************************************************************************)
Claims ==
    [environment : {"kind", "live"},
     detectionScope : {"controller-only", "host-to-controller"},
     gpuMeasured : BOOLEAN, desktopVisible : BOOLEAN,
     desktopEvidence : SUBSET {"desktop session"},
     liveRunRemaining : {"canonical", "empty"},
     performanceClaimed : BOOLEAN, proven : BOOLEAN]

KindClaims ==
    [environment |-> "kind", detectionScope |-> "controller-only", gpuMeasured |-> FALSE,
     desktopVisible |-> FALSE, desktopEvidence |-> {"desktop session"},
     liveRunRemaining |-> "canonical",
     performanceClaimed |-> FALSE, proven |-> FALSE]

reportOf(claims, name, result) ==
    [environment |-> claims.environment, detectionScope |-> claims.detectionScope,
     budget |-> budgetOf(claims.environment),
     gpuMeasured |-> claims.gpuMeasured,
     gpuEvidence |-> IF claims.gpuMeasured THEN {"nvidia-smi"} ELSE {"no GPU"},
     desktopVisible |-> claims.desktopVisible, desktopEvidence |-> claims.desktopEvidence,
     liveRunRemaining |-> claims.liveRunRemaining,
     performanceClaimed |-> claims.performanceClaimed,
     unrelatedTaintPreserved |-> TRUE, catalog |-> Catalog,
     namespacesBefore |-> [ns \in {"kube-system"} |-> {1, 2}],
     namespacesAfter |-> [ns \in {"kube-system"} |-> {1, 2}],
     scenarios |-> [i \in DOMAIN RequiredScenarios |->
        IF RequiredScenarios[i] = name THEN result
        ELSE PromptResults[claims.environment][claims.proven][RequiredScenarios[i]]]]
=============================================================================
