---------------------------- MODULE EvictionClass -----------------------------
(***************************************************************************)
(* Which Pods a Node's only enrollment may evict: evictionClass of         *)
(* internal/controller/eviction.go. It runs at the end of a pass, on the   *)
(* record the status patches returned, which may be newer than the one the *)
(* wanted taint was computed from, and on the Node as just updated.        *)
(***************************************************************************)
EXTENDS Enrollment

Classes == {"none", "game", "lossyOnly"}

(***************************************************************************)
(* The rows that end in no eviction before the wanted taint is asked for.  *)
(***************************************************************************)
StandsDown(a, desired, t) ==
    LET verdict == heartbeatFreshness(a.heartbeatAt, t)
    IN  \/ verdict = "Future"
        \/ verdict = "Fresh" /\ a.state = "unknown"
        \/ /\ verdict = "Fresh" /\ desired = NoTaint
           /\ a.state = "idle" /\ a.activity = "idle"

GameOn(a, fields, desired, t) ==
    /\ Fresh(a.heartbeatAt, t) /\ a.state = "active" /\ a.activity = "game"
    /\ desired = "active" /\ fields.taint = "active"

HostGone(a, t) == ~Fresh(a.heartbeatAt, t) \/ a.state = "stale"

Fenced(a, fields) ==
    \/ a.state = "active" /\ a.activity # "game"
    \/ a.activity = "interactive"
    \/ fields.taint = "interactive"
    \/ BurstConfigured /\ fields.burst

EvictsWhileAdmitting(a, fields, desired, t) ==
    CASE StandsDown(a, desired, t) -> "none"
      [] ~StandsDown(a, desired, t) /\ GameOn(a, fields, desired, t) -> "game"
      [] OTHER ->
           IF HostGone(a, t)
           THEN IF desired \in NoSchedule /\ fields.taint = desired THEN "lossyOnly" ELSE "none"
           ELSE IF Fenced(a, fields) THEN "lossyOnly" ELSE "none"

(***************************************************************************)
(* A silent host evicts only through its fail-closed taint; otherwise a    *)
(* Node that wants no taint evicts nothing, and a fence only lossy Pods.   *)
(***************************************************************************)
evictionClass(a, fields, desired, t) ==
    CASE StandsDown(a, desired, t) -> "none"
      [] ~StandsDown(a, desired, t) /\ GameOn(a, fields, desired, t) -> "game"
      [] OTHER ->
           IF HostGone(a, t)
           THEN IF desired \in NoSchedule /\ fields.taint = desired THEN "lossyOnly" ELSE "none"
           ELSE IF desired # NoTaint /\ Fenced(a, fields) THEN "lossyOnly" ELSE "none"
=============================================================================
