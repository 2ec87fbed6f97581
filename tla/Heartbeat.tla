------------------------------ MODULE Heartbeat ------------------------------
(***************************************************************************)
(* Freshness of a host heartbeat, from internal/controller/heartbeat.go.   *)
(* Times are naturals; 0 is Go's zero time, "no heartbeat was ever         *)
(* written". Durations are integers in the same unit.                      *)
(***************************************************************************)
EXTENDS Integers

CONSTANTS StaleAfter,           \* TaintPolicy.StaleAfter
          HeartbeatSkew,        \* TaintPolicy.HeartbeatSkew as configured
          DefaultHeartbeatSkew  \* used when none is configured

effectiveHeartbeatSkew ==
    IF HeartbeatSkew > 0 THEN HeartbeatSkew ELSE DefaultHeartbeatSkew

(***************************************************************************)
(* TaintPolicy.Validate: Reconcile refuses to run under a policy that does *)
(* not satisfy this.                                                       *)
(***************************************************************************)
ASSUME PolicyValid ==
    /\ StaleAfter \in Nat /\ HeartbeatSkew \in Nat
    /\ DefaultHeartbeatSkew \in Nat \ {0}
    /\ StaleAfter > 0
    /\ effectiveHeartbeatSkew < StaleAfter

Verdicts == {"Missing", "Future", "Expired", "Fresh"}

heartbeatFreshness(at, now) ==
    IF at = 0 THEN "Missing"
    ELSE IF now - at < -effectiveHeartbeatSkew THEN "Future"
    ELSE IF now - at >= StaleAfter THEN "Expired"
    ELSE "Fresh"

Fresh(at, now) == heartbeatFreshness(at, now) = "Fresh"

(***************************************************************************)
(* verdict.AgeSeconds; NoAge is the nil of a missing or future heartbeat.  *)
(***************************************************************************)
NoAge == -1

heartbeatAge(at, now) ==
    IF heartbeatFreshness(at, now) \in {"Missing", "Future"} THEN NoAge
    ELSE IF now < at THEN 0 ELSE now - at
=============================================================================
