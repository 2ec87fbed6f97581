----------------------------- MODULE WindowClock ------------------------------
(***************************************************************************)
(* A schedule evaluated as a clock runs: what evaluateWindows (module      *)
(* Windows) computes by walking activations is compared with what a window *)
(* means, the set of instants at which it is open.                         *)
(***************************************************************************)
EXTENDS Windows

CONSTANTS Specs,   \* the schedules evaluated
          MaxTime  \* the clock stops here

ASSUME SpecsAssumption == Specs \subseteq ScheduleType /\ MaxTime \in Nat

VARIABLES spec, now

Init == spec \in Specs /\ now = 1

Tick ==
    /\ now < MaxTime
    /\ now' = now + 1
    /\ UNCHANGED spec

Spec == Init /\ [][Tick]_<<spec, now>>

----------------------------------------------------------------------------
(***************************************************************************)
(* A window is open from lead before a start until duration after it.      *)
(***************************************************************************)
OpenAt(w, t) == \E s \in w.schedule : s - spec.lead <= t /\ t < s + w.duration

StatesAt(t) == {w.state : w \in {v \in spec.windows : OpenAt(v, t)}}

(***************************************************************************)
(* Whatever overlaps, lead times longer than the distance of two starts    *)
(* and starts inside an open window there are, the walk of scanWindow over *)
(* past starts, the next start and the next lead boundary finds exactly    *)
(* the open windows, and game is preferred to interactive to idle-allowed. *)
(***************************************************************************)
OpenMatchesCalendar ==
    ~windowErr(spec, now) =>
        LET open == StatesAt(now) state == windowState(spec, now)
        IN  /\ (state = "none") = (open = {})
            /\ state # "none" => state \in open
            /\ "game" \in open => state = "game"
            /\ state = "idle-allowed" => open = {"idle-allowed"}

(***************************************************************************)
(* A controller that sleeps for the returned wait misses no opening and no *)
(* closing, and what it wakes up for is a real boundary of some window.    *)
(***************************************************************************)
SleepsToBoundary ==
    LET wake == now + windowWait(spec, now)
        IsBoundary(w) == \E s \in w.schedule : wake \in {s - spec.lead, s, s + w.duration}
    IN  wake > now =>
          /\ \A t \in now..(wake - 1), w \in spec.windows : OpenAt(w, t) = OpenAt(w, now)
          /\ \E w \in spec.windows : IsBoundary(w)
=============================================================================
