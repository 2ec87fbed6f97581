------------------------------- MODULE Policy --------------------------------
(***************************************************************************)
(* The policy of one enrollment, from decidePolicy and its helpers in      *)
(* internal/controller/nodeactivity_controller.go. An enrollment is the    *)
(* part of a NodeActivity the policy reads:                                *)
(*   state, activity, heartbeatAt   status fields the reporter writes      *)
(*   hold        the hold annotation: 0 absent, < 0 not a positive         *)
(*               duration, otherwise the duration                          *)
(*   holdStart   its anchor: 0 absent, < 0 unparsable, otherwise a time    *)
(*   spec        the schedule (Windows)                                    *)
(* A taint is named by its value; its effect follows from the value.       *)
(***************************************************************************)
EXTENDS Heartbeat, Windows

CONSTANTS FailClosed,      \* TaintPolicy.FailClosed
          BurstConfigured  \* TaintPolicy.BurstTaintKey # ""

ASSUME PolicyFlags == FailClosed \in BOOLEAN /\ BurstConfigured \in BOOLEAN

NoTaint == "none"
NoSchedule == {"active", "failclosed"}       \* effect NoSchedule
PreferNoSchedule == {"interactive"}          \* effect PreferNoSchedule
Taints == {NoTaint} \cup NoSchedule \cup PreferNoSchedule

States == {"idle", "active", "unknown", "stale", "unsupported"}
Activities == {"idle", "interactive", "game", "unknown"}

EnrollmentType ==
    [state : States, activity : Activities, heartbeatAt : Nat,
     hold : Int, holdStart : Int, spec : ScheduleType]

NoWindows == [lead |-> 0, windows |-> {}]

(***************************************************************************)
(* A NodeActivity nothing was ever reported on: its status is empty.       *)
(***************************************************************************)
Unreported(spec) ==
    [state |-> "unsupported", activity |-> "unknown", heartbeatAt |-> 0,
     hold |-> 0, holdStart |-> 0, spec |-> spec]

minPositive(a, b) ==
    IF a <= 0 THEN b ELSE IF b <= 0 \/ a < b THEN a ELSE b

holdExpiry(a) ==
    IF a.hold <= 0 \/ a.holdStart <= 0 THEN 0 ELSE a.holdStart + a.hold

HoldCountsDown(a, now) ==
    IF a.hold = 0 THEN [a EXCEPT !.holdStart = 0]
    ELSE IF a.holdStart = 0 THEN [a EXCEPT !.holdStart = now]
    ELSE [a EXCEPT !.hold = holdExpiry(a) - now, !.holdStart = now]

(***************************************************************************)
(* The enrollment after reconcileHold, for a hold that is absent or a      *)
(* positive duration: drop an orphaned anchor, anchor a new hold, drop     *)
(* both annotations when the hold is over.                                 *)
(***************************************************************************)
reconciledHold(a, now) ==
    IF a.hold = 0 THEN [a EXCEPT !.holdStart = 0]
    ELSE IF a.holdStart = 0 THEN [a EXCEPT !.holdStart = now]
    ELSE IF holdExpiry(a) <= now THEN [a EXCEPT !.hold = 0, !.holdStart = 0]
    ELSE a

failClosed == IF FailClosed THEN "failclosed" ELSE NoTaint

(***************************************************************************)
(* earliestTransition over the candidates of one decision: 0 is none.      *)
(***************************************************************************)
earliestTransition(now, candidates) ==
    LET later == {c \in candidates : c > now}
    IN  IF later = {} THEN 0 ELSE Least(later)

(***************************************************************************)
(* What a decision is about, in the order decidePolicy tests it. The       *)
(* reason doubles as status.admission.reason.                              *)
(***************************************************************************)
admissionReason(a, now) ==
    LET window  == windowState(a.spec, now)
        verdict == heartbeatFreshness(a.heartbeatAt, now)
        held    == holdExpiry(a) > now
    IN  CASE verdict = "Missing" -> "missing-heartbeat"
          [] verdict = "Future"  -> "invalid-heartbeat"
          [] verdict = "Expired" -> "stale-heartbeat"
          [] verdict = "Fresh" /\ a.state = "idle" ->
               IF held THEN "availability-hold"
               ELSE IF window # "none" THEN
                    CASE window = "game" -> "scheduled-game"
                      [] window = "interactive" -> "scheduled-interactive"
                      [] OTHER -> "scheduled-idle"
               ELSE IF windowErr(a.spec, now) THEN "invalid-schedule"
               ELSE "fresh-idle"
          [] verdict = "Fresh" /\ a.state = "active" ->
               IF a.activity = "game" THEN "active-game"
               ELSE IF held THEN "availability-hold"
               ELSE IF window = "game" THEN "scheduled-game"
               ELSE IF window = "idle-allowed" THEN "scheduled-idle"
               ELSE IF a.activity = "interactive" THEN "active-interactive"
               ELSE "unsupported-activity"
          [] verdict = "Fresh" /\ a.state = "unknown" -> "unknown-state"
          [] verdict = "Fresh" /\ a.state = "stale" -> "stale-state"
          [] OTHER -> "unsupported-state"

Unfresh == {"missing-heartbeat", "invalid-heartbeat", "stale-heartbeat"}
Refused == {"invalid-schedule", "unsupported-activity", "unknown-state",
            "stale-state", "unsupported-state"}
Scheduled == {"scheduled-game", "scheduled-interactive", "scheduled-idle"}
Live == {"availability-hold", "fresh-idle", "active-game", "active-interactive"}
Reasons == Unfresh \cup Refused \cup Scheduled \cup Live

taintFor(reason) ==
    CASE reason \in Unfresh \cup Refused -> failClosed
      [] reason \in {"scheduled-game", "active-game"} -> "active"
      [] reason \in {"scheduled-interactive", "active-interactive", "availability-hold"} -> "interactive"
      [] OTHER -> NoTaint

RequeueForgetsHold(a, now) ==
    LET reason    == admissionReason(a, now)
        wait      == windowWait(a.spec, now)
        remaining == a.heartbeatAt + StaleAfter - now
        plausible == a.heartbeatAt - effectiveHeartbeatSkew - now
    IN  CASE reason = "invalid-heartbeat" ->
               minPositive(minPositive(plausible, StaleAfter), wait)
          [] reason \in (Unfresh \cup Refused) \ {"invalid-heartbeat"} ->
               minPositive(StaleAfter, wait)
          [] OTHER -> minPositive(remaining, wait)

RequeueForgetsWindows(a, now) ==
    LET reason    == admissionReason(a, now)
        remaining == a.heartbeatAt + StaleAfter - now
        plausible == a.heartbeatAt - effectiveHeartbeatSkew - now
    IN  CASE reason = "invalid-heartbeat" -> minPositive(plausible, StaleAfter)
          [] reason \in (Unfresh \cup Refused) \ {"invalid-heartbeat"} -> StaleAfter
          [] reason = "availability-hold" -> minPositive(remaining, holdExpiry(a) - now)
          [] OTHER -> remaining

(***************************************************************************)
(* decision.requeueAfter. A fresh heartbeat has time remaining, so the     *)
(* one-second fallback of the code does not arise.                         *)
(***************************************************************************)
requeueAfter(a, now) ==
    LET reason    == admissionReason(a, now)
        wait      == windowWait(a.spec, now)
        remaining == a.heartbeatAt + StaleAfter - now
        plausible == a.heartbeatAt - effectiveHeartbeatSkew - now
    IN  CASE reason = "invalid-heartbeat" ->
               minPositive(minPositive(plausible, StaleAfter), wait)
          [] reason \in (Unfresh \cup Refused) \ {"invalid-heartbeat"} ->
               minPositive(StaleAfter, wait)
          [] reason = "availability-hold" -> minPositive(remaining, holdExpiry(a) - now)
          [] OTHER -> minPositive(remaining, wait)

TransitionForgetsHold(a, now) ==
    LET reason   == admissionReason(a, now)
        wait     == windowWait(a.spec, now)
        deadline == a.heartbeatAt + StaleAfter
        boundary == IF wait > 0 THEN {now + wait} ELSE {}
    IN  IF reason \in Scheduled \cup Live THEN earliestTransition(now, {deadline} \cup boundary)
        ELSE 0

(***************************************************************************)
(* decision.nextTransition: the next clock-driven change it announces.     *)
(***************************************************************************)
nextTransition(a, now) ==
    LET reason   == admissionReason(a, now)
        wait     == windowWait(a.spec, now)
        deadline == a.heartbeatAt + StaleAfter
        boundary == IF wait > 0 THEN {now + wait} ELSE {}
    IN  CASE reason = "invalid-heartbeat" ->
               earliestTransition(now, {a.heartbeatAt - effectiveHeartbeatSkew})
          [] reason = "availability-hold" -> earliestTransition(now, {deadline, holdExpiry(a)})
          [] reason = "invalid-schedule" ->
               IF FailClosed THEN 0 ELSE earliestTransition(now, {deadline})
          [] reason = "active-game" -> earliestTransition(now, {deadline})
          [] reason \in Scheduled \cup {"fresh-idle", "active-interactive"} ->
               earliestTransition(now, {deadline} \cup boundary)
          [] OTHER -> 0

(***************************************************************************)
(* decidePolicy, without its message, its next window (a gauge) and its    *)
(* requeueAfter, which protectionRequeue asks for by itself.               *)
(***************************************************************************)
decidePolicy(a, now) ==
    LET reason == admissionReason(a, now)
    IN  [reason         |-> reason,
         taint          |-> taintFor(reason),
         scheduled      |-> reason \in Scheduled,
         nextTransition |-> nextTransition(a, now)]

(***************************************************************************)
(* controllerAdmitted (metrics.go): fresh, idle in both fields, untainted. *)
(***************************************************************************)
controllerAdmitted(a, now, taint) ==
    /\ Fresh(a.heartbeatAt, now)
    /\ a.state = "idle"
    /\ a.activity = "idle"
    /\ taint = NoTaint
=============================================================================
