------------------------------- MODULE Windows -------------------------------
(***************************************************************************)
(* Availability windows, from internal/controller/windows.go. A window is  *)
(*   [parses, schedule, duration, state]                                   *)
(* where schedule is the set of times at which its cron expression fires   *)
(* (the cron library is external: all the code asks of it is the least     *)
(* activation after a time), and parses says that its schedule and         *)
(* timeZone fields parse. A schedule is [lead, windows]; lead < 0 stands   *)
(* for a leadTime that is not a non-negative duration.                     *)
(***************************************************************************)
EXTENDS Integers, FiniteSets

CONSTANT maxWindowOccurrences

ASSUME OccurrencesAssumption == maxWindowOccurrences \in Nat

WindowStates == {"game", "interactive", "idle-allowed"}

WindowType ==
    [parses : BOOLEAN, schedule : SUBSET Nat, duration : Int,
     state : WindowStates \cup {"unsupported"}]

ScheduleType == [lead : Int, windows : SUBSET WindowType]

Least(S) == CHOOSE x \in S : \A y \in S : x <= y

(***************************************************************************)
(* parseSchedule: one invalid field makes the whole schedule invalid.      *)
(***************************************************************************)
scheduleInvalid(spec) ==
    \/ spec.lead < 0
    \/ \E w \in spec.windows : \/ ~w.parses
                               \/ w.duration <= 0
                               \/ w.state \notin WindowStates

HasNext(w, after) == \E s \in w.schedule : s > after

nextActivation(w, after) == Least({s \in w.schedule : s > after})

(***************************************************************************)
(* The starts scanWindow walks: after now - duration and not after now.    *)
(* Ends are exclusive, so each of them is an open occurrence.              *)
(***************************************************************************)
ScannedInclusive(w, now) == {s \in w.schedule : s >= now - w.duration /\ s <= now}

scannedStarts(w, now) == {s \in w.schedule : s > now - w.duration /\ s <= now}

scanErr(w, lead, now) ==
    \/ ~HasNext(w, now)
    \/ lead > 0 /\ ~HasNext(w, now + lead)
    \/ Cardinality(scannedStarts(w, now)) > maxWindowOccurrences

scanOpen(w, lead, now) ==
    \/ scannedStarts(w, now) # {}
    \/ lead > 0 /\ now >= nextActivation(w, now) - lead

BoundariesWithoutLead(w, lead, now) ==
    {s + w.duration : s \in scannedStarts(w, now)} \cup {nextActivation(w, now)}

(***************************************************************************)
(* The lead boundary is searched from now + lead: the next lead boundary   *)
(* can belong to a later occurrence than the next start.                   *)
(***************************************************************************)
scanBoundaries(w, lead, now) ==
    {s + w.duration : s \in scannedStarts(w, now)}
        \cup {nextActivation(w, now)}
        \cup (IF lead > 0 THEN {nextActivation(w, now + lead) - lead} ELSE {})

(***************************************************************************)
(* The policy reads only the state of the preferred window, so preferring  *)
(* by windowRank and then by earlier end is preferring by windowRank.      *)
(***************************************************************************)
preferOpenWindow(states) ==
    IF "game" \in states THEN "game"
    ELSE IF "interactive" \in states THEN "interactive"
    ELSE IF "idle-allowed" \in states THEN "idle-allowed"
    ELSE "none"

windowErr(spec, now) ==
    \/ scheduleInvalid(spec)
    \/ \E w \in spec.windows : scanErr(w, spec.lead, now)

openState(spec, now) ==
    preferOpenWindow({w.state : w \in {v \in spec.windows : scanOpen(v, spec.lead, now)}})

wakes(spec, now) == UNION {scanBoundaries(w, spec.lead, now) : w \in spec.windows}

(***************************************************************************)
(* The results of evaluateWindows, read by decidePolicy with the error     *)
(* already turned into "no window": the state of the strongest open window *)
(* ("none" is nil), the next window start (0 is the zero time) and the     *)
(* wait until the earliest lead, start or end boundary (0 without windows).*)
(* Every boundary lies after now, so the "did not advance" errors of the   *)
(* code cannot occur.                                                      *)
(***************************************************************************)
windowState(spec, now) ==
    IF windowErr(spec, now) THEN "none" ELSE openState(spec, now)

windowWait(spec, now) ==
    IF windowErr(spec, now) \/ spec.windows = {} THEN 0
    ELSE Least(wakes(spec, now)) - now
=============================================================================
