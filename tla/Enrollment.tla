----------------------------- MODULE Enrollment ------------------------------
(***************************************************************************)
(* Aggregation of the enrollments of one Node, from                        *)
(* internal/controller/enrollment.go. Enrollments are numbered in the      *)
(* order of their namespace and name, the order protectionForNode sorts    *)
(* them in; items maps the live enrollments of the Node to their records.  *)
(***************************************************************************)
EXTENDS Policy

NoSource == 0  \* protection.source is nil; enrollments are positive

RankWithoutGame(a, now) ==
    LET taint == taintFor(admissionReason(a, now))
    IN  IF taint = NoTaint THEN 0 ELSE 1

enrollmentRank(a, now) ==
    LET taint == taintFor(admissionReason(a, now))
    IN  CASE taint = NoTaint -> 0
          [] taint \in PreferNoSchedule -> 1
          [] taint \in NoSchedule ->
               IF /\ a.state = "active" /\ a.activity = "game"
                  /\ Fresh(a.heartbeatAt, now)
               THEN 3 ELSE 2

enrollmentRanks(items, now) ==
    [e \in DOMAIN items |-> enrollmentRank(items[e], now)]

(***************************************************************************)
(* The first enrollment of the highest rank decides; only a strictly       *)
(* higher rank displaces an earlier one.                                   *)
(***************************************************************************)
strongest(rank) ==
    CHOOSE e \in DOMAIN rank : \A f \in DOMAIN rank :
        \/ rank[e] > rank[f]
        \/ rank[e] = rank[f] /\ e <= f

protectionSource(items, now) ==
    IF DOMAIN items = {} THEN NoSource ELSE strongest(enrollmentRanks(items, now))

RequeueOfSource(items, now) ==
    IF DOMAIN items = {} THEN 0
    ELSE requeueAfter(items[protectionSource(items, now)], now)

(***************************************************************************)
(* The earliest deadline of any contribution; every decision has one.      *)
(***************************************************************************)
protectionRequeue(items, now) ==
    IF DOMAIN items = {} THEN 0
    ELSE Least({requeueAfter(items[e], now) : e \in DOMAIN items})

ProtectionWithoutReason == [source |-> NoSource, src |-> Unreported(NoWindows),
                            taint |-> NoTaint, reason |-> "",
                            scheduled |-> FALSE, count |-> 0, nextTransition |-> 0]

(***************************************************************************)
(* The nil source carries no record; src is then not read.                 *)
(***************************************************************************)
NoProtection == [source |-> NoSource, src |-> Unreported(NoWindows),
                 taint |-> NoTaint, reason |-> "unsupported-state",
                 scheduled |-> FALSE, count |-> 0, nextTransition |-> 0]

(***************************************************************************)
(* protectionForNode without its requeueAfter.                             *)
(***************************************************************************)
protectionForNode(items, now) ==
    IF DOMAIN items = {} THEN NoProtection
    ELSE LET e == protectionSource(items, now)
             d == decidePolicy(items[e], now)
         IN  [source         |-> e,
              src            |-> items[e],
              taint          |-> d.taint,
              reason         |-> d.reason,
              scheduled      |-> d.scheduled,
              count          |-> Cardinality(DOMAIN items),
              nextTransition |-> d.nextTransition]

(***************************************************************************)
(* policyAdmitted: the deciding enrollment alone admits the Node.          *)
(***************************************************************************)
policyAdmitted(protection, now) ==
    /\ protection.source # NoSource
    /\ controllerAdmitted(protection.src, now, protection.taint)

(***************************************************************************)
(* The fields of a Node the controller owns: primary taint, schedulable    *)
(* label, burst taint. Taints under other keys are carried over untouched. *)
(***************************************************************************)
OwnedFields == [taint : Taints, label : BOOLEAN, burst : BOOLEAN]

Unprotected == [taint |-> NoTaint, label |-> FALSE, burst |-> FALSE]

ownedFields(taint, admitted) ==
    [taint |-> taint, label |-> admitted, burst |-> BurstConfigured /\ ~admitted]

(***************************************************************************)
(* What Reconcile writes to the Node, and what finalize leaves on it: the  *)
(* protection of the remaining enrollments, never their admission.         *)
(***************************************************************************)
desiredFields(items, now) ==
    LET p == protectionForNode(items, now)
    IN  ownedFields(p.taint, policyAdmitted(p, now))

BurstLeftBehind(p, now) ==
    [taint |-> p.taint,
     label |-> FALSE,
     burst |-> BurstConfigured /\ ~policyAdmitted(p, now)]

releasedFields(p, now) ==
    [taint |-> p.taint,
     label |-> FALSE,
     burst |-> /\ BurstConfigured /\ p.source # NoSource
               /\ ~policyAdmitted(p, now)]
=============================================================================
