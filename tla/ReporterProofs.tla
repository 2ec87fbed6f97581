--------------------------- MODULE ReporterProofs -----------------------------
(***************************************************************************)
(* Proofs about module Reporter, for any set of configurations and any     *)
(* hosts. What the providers make of a host is related to what goes on     *)
(* there first, then what Evaluator.Next does to the evaluator, then the   *)
(* invariant of the report loop and its calls.                             *)
(***************************************************************************)
EXTENDS Reporter, TLAPS

(***************************************************************************)
(* What one provider can notice, whether there is something for it to      *)
(* notice, and whether an answer it needs is missing.                      *)
(***************************************************************************)
ActivityOf(p) == IF p = "logind" THEN "interactive" ELSE "game"

Noticeable(p, h) ==
    \/ p = "logind" /\ \E s \in Listed(h) : interactive(s)
    \/ p = "game-process" /\ \E x \in h.processes : gameProcess(x)
    \/ p = "nvidia" /\ "app" \in h.apps

Lost(p, h) ==
    \/ p = "logind" /\ (~h.sessionsListed \/ \E s \in Listed(h) : ~s.inspected)
    \/ p = "game-process" /\ (~h.procRead \/ \A x \in h.processes : ~readable(x))
    \/ p = "nvidia" /\ (\/ ~h.utilizationQueried \/ ~h.appsQueried
                        \/ "invalid" \in h.utilization \cup h.apps
                        \/ h.utilization \subseteq {"blank"})

(***************************************************************************)
(* A provider all of whose queries were answered says exactly what is      *)
(* there to notice; one that misses an answer says unknown, or what it has *)
(* noticed before.                                                         *)
(***************************************************************************)
LEMMA ProviderHonest ==
    ASSUME NEW p \in Providers, NEW h \in HostType
    PROVE  /\ ~Lost(p, h) => Observe(p, h) = IF Noticeable(p, h) THEN ActivityOf(p) ELSE "idle"
           /\ Lost(p, h) => \/ Observe(p, h) = Unknown
                            \/ Observe(p, h) = ActivityOf(p) /\ Noticeable(p, h)
<1>1. CASE p = "logind"
  <2> DEFINE listed == parseSessionIDs(h.sessions)
  <2>1. Observe(p, h) = observeLogind(h) /\ ActivityOf(p) = "interactive"
    BY <1>1 DEF Observe, ActivityOf
  <2>2. /\ Noticeable(p, h) <=> \E i \in listed : interactive(h.sessions[i])
        /\ Lost(p, h) <=> ~h.sessionsListed \/ \E i \in listed : ~h.sessions[i].inspected
    BY <1>1 DEF Noticeable, Lost, Listed
  <2> HIDE DEF listed
  <2>3. CASE ~h.sessionsListed
    BY <2>1, <2>2, <2>3 DEF observeLogind
  <2>4. CASE h.sessionsListed /\ \A i \in listed : h.sessions[i].inspected
    BY <2>1, <2>2, <2>4 DEF observeLogind, listed
  <2>5. CASE h.sessionsListed /\ ~\A i \in listed : h.sessions[i].inspected
    <3>1. Lost(p, h)
      BY <2>2, <2>5
    <3>2. observeLogind(h) \in {"interactive", Unknown}
      BY <2>5 DEF observeLogind, listed
    <3>3. observeLogind(h) = "interactive" => \E i \in listed : interactive(h.sessions[i])
      BY <2>5 DEF observeLogind, listed, Unknown
    <3> QED
      BY <3>1, <3>2, <3>3, <2>1, <2>2
  <2> QED
    BY <2>3, <2>4, <2>5
<1>2. CASE p = "game-process"
  <2>1. Observe(p, h) = observeProcesses(h) /\ ActivityOf(p) = "game"
    BY <1>2 DEF Observe, ActivityOf
  <2>2. /\ Noticeable(p, h) <=> \E x \in h.processes : gameProcess(x)
        /\ Lost(p, h) <=> ~h.procRead \/ \A x \in h.processes : ~readable(x)
    BY <1>2 DEF Noticeable, Lost
  <2>3. \A x \in h.processes : gameProcess(x) => readable(x)
    BY DEF gameProcess
  <2> QED
    BY <2>1, <2>2, <2>3 DEF observeProcesses
<1>3. CASE p = "nvidia"
  <2>1. Observe(p, h) = observeNVIDIA(h) /\ ActivityOf(p) = "game"
    BY <1>3 DEF Observe, ActivityOf
  <2>2. Noticeable(p, h) <=> "app" \in h.apps
    BY <1>3 DEF Noticeable
  <2>3. /\ h.utilization \in SUBSET {"percent", "unavailable", "invalid", "blank"}
    BY DEF HostType
  <2>4. Lost(p, h) <=> ~(/\ h.utilizationQueried /\ parseUtilization(h.utilization)
                         /\ h.appsQueried /\ parseComputeApps(h.apps))
    BY <1>3, <2>3 DEF Lost, parseUtilization, parseComputeApps
  <2> QED
    BY <2>1, <2>2, <2>4 DEF observeNVIDIA
<1> QED
  BY <1>1, <1>2, <1>3 DEF Providers

(***************************************************************************)
(* The providers that a valid configuration runs, and what the host as its *)
(* user knows it is to them.                                               *)
(***************************************************************************)
LEMMA ProvidersRun ==
    ASSUME NEW c \in ConfigType, Validate(c), NEW h \in HostType
    PROVE  /\ buildProviders(c) \subseteq Providers /\ buildProviders(c) # {}
           /\ Unanswered(c, h) <=> \E p \in buildProviders(c) : Lost(p, h)
           /\ \A a : a \in GoesOn(c, h) <=>
                  \E p \in buildProviders(c) : Noticeable(p, h) /\ a = ActivityOf(p)
<1>1. c.enabled \subseteq Providers
  BY DEF ConfigType
<1>2. /\ c.activityMode \in {"game", "session"}
      /\ c.activityMode = "session" => c.enabled # {}
  BY DEF Validate
<1>3. buildProviders(c) \subseteq Providers /\ buildProviders(c) # {}
  BY <1>1, <1>2 DEF buildProviders, Providers
<1>4. \A p : runs(c, p) <=> p \in buildProviders(c)
  BY DEF runs, buildProviders
<1>5. Unanswered(c, h) <=> \E p \in buildProviders(c) : Lost(p, h)
  <2>1. Unanswered(c, h) <=> \/ runs(c, "logind") /\ Lost("logind", h)
                             \/ runs(c, "game-process") /\ Lost("game-process", h)
                             \/ runs(c, "nvidia") /\ Lost("nvidia", h)
    BY DEF Unanswered, Lost
  <2> QED
    BY <1>3, <1>4, <2>1 DEF Providers
<1>6. ASSUME NEW a
      PROVE  a \in GoesOn(c, h) <=>
                  \E p \in buildProviders(c) : Noticeable(p, h) /\ a = ActivityOf(p)
  <2>1. a \in GoesOn(c, h) <=>
            \/ a = "game" /\ runs(c, "game-process") /\ Noticeable("game-process", h)
            \/ a = "game" /\ runs(c, "nvidia") /\ Noticeable("nvidia", h)
            \/ a = "interactive" /\ runs(c, "logind") /\ Noticeable("logind", h)
    BY DEF GoesOn, Noticeable
  <2> QED
    BY <1>3, <1>4, <2>1 DEF Providers, ActivityOf
<1> QED
  BY <1>3, <1>5, <1>6

(***************************************************************************)
(* A sample in which every query was answered aggregates to what goes on   *)
(* at the host; one with an answer missing to something that goes on, or   *)
(* to unknown.                                                             *)
(***************************************************************************)
LEMMA SampleHonest ==
    ASSUME NEW c \in ConfigType, Validate(c), NEW h \in HostType
    PROVE  LET seen == Aggregate(Collect(buildProviders(c), h))
           IN  /\ GoesOn(c, h) \in SUBSET {"game", "interactive"}
               /\ Unanswered(c, h) \in BOOLEAN
               /\ ~Unanswered(c, h) =>
                      seen = CASE "game" \in GoesOn(c, h) -> "game"
                               [] GoesOn(c, h) = {"interactive"} -> "interactive"
                               [] OTHER -> "idle"
               /\ Unanswered(c, h) => seen \in GoesOn(c, h) \cup {Unknown}
<1> DEFINE run == buildProviders(c)
           observed == Collect(run, h)
           goes == GoesOn(c, h)
           seen == Aggregate(observed)
<1>1. DOMAIN observed = run /\ \A p \in run : observed[p] = Observe(p, h)
  BY DEF Collect
<1>2. /\ run \subseteq Providers /\ run # {}
      /\ Unanswered(c, h) <=> \E p \in run : Lost(p, h)
      /\ \A a : a \in goes <=> \E p \in run : Noticeable(p, h) /\ a = ActivityOf(p)
  BY ProvidersRun
<1>3. \A p \in run :
         /\ ~Lost(p, h) => observed[p] = IF Noticeable(p, h) THEN ActivityOf(p) ELSE "idle"
         /\ Lost(p, h) => \/ observed[p] = Unknown
                          \/ observed[p] = ActivityOf(p) /\ Noticeable(p, h)
  BY <1>1, <1>2, ProviderHonest
<1>4. goes \subseteq {"game", "interactive"}
  BY DEF GoesOn
<1>5. Unanswered(c, h) \in BOOLEAN
  BY DEF Unanswered
<1>6. \A p : ActivityOf(p) \in {"game", "interactive"}
  BY DEF ActivityOf
<1> HIDE DEF run, observed, goes
<1>7. seen \in {"game", "interactive"} => seen \in goes
  <2>1. ASSUME NEW p \in run, observed[p] \in {"game", "interactive"}
        PROVE  observed[p] \in goes
    BY <1>2, <1>3, <2>1 DEF Unknown
  <2> QED
    BY <1>1, <2>1 DEF Aggregate, Unknown
<1>8. seen \in {"game", "interactive", "idle", Unknown}
  BY DEF Aggregate
<1>9. ASSUME Unanswered(c, h) PROVE seen \in goes \cup {Unknown}
  <2>1. PICK p \in run : Lost(p, h)
    BY <1>2, <1>9
  <2>2. observed[p] # "idle"
    BY <1>3, <1>6, <2>1 DEF Unknown
  <2>3. seen # "idle"
    BY <1>1, <2>2 DEF Aggregate, Unknown
  <2> QED
    BY <1>7, <1>8, <2>3
<1>10. ASSUME ~Unanswered(c, h)
       PROVE  seen = CASE "game" \in goes -> "game"
                       [] goes = {"interactive"} -> "interactive"
                       [] OTHER -> "idle"
  <2>1. \A p \in run : observed[p] = IF Noticeable(p, h) THEN ActivityOf(p) ELSE "idle"
    BY <1>2, <1>3, <1>10
  <2>2. \A a \in {"game", "interactive"} : a \in goes <=> \E p \in run : observed[p] = a
    BY <1>2, <1>6, <2>1
  <2>3. CASE "game" \in goes
    BY <1>1, <2>2, <2>3 DEF Aggregate
  <2>4. CASE "game" \notin goes /\ "interactive" \in goes
    <3>1. goes = {"interactive"}
      BY <1>4, <2>4
    <3>2. seen = "interactive"
      BY <1>1, <2>2, <2>4 DEF Aggregate
    <3> QED
      BY <2>4, <3>1, <3>2
  <2>5. CASE "game" \notin goes /\ "interactive" \notin goes
    <3>1. \A p \in run : observed[p] = "idle"
      BY <1>6, <2>1, <2>2, <2>5
    <3>2. seen = "idle"
      BY <1>1, <1>2, <3>1 DEF Aggregate
    <3>3. goes # {"interactive"}
      BY <2>5
    <3> QED
      BY <2>5, <3>2, <3>3
  <2> QED
    BY <2>3, <2>4, <2>5
<1> QED
  BY <1>4, <1>5, <1>9, <1>10 DEF run, observed, goes

EvaluatorType ==
    [current : Activities, pending : Activities, pendingCount : Nat, lastGood : Nat,
     firstSeen : Nat, lastState : States, lastActivity : Activities, generation : Nat]

Count(ev, seen) == IF seen = ev.pending THEN ev.pendingCount + 1 ELSE 1

(***************************************************************************)
(* Setting a field of the evaluator to a value of the field's type.        *)
(***************************************************************************)
LEMMA FieldSet ==
    ASSUME NEW ev \in EvaluatorType
    PROVE  /\ \A a \in Activities : /\ [ev EXCEPT !.current = a] \in EvaluatorType
                                    /\ [ev EXCEPT !.pending = a] \in EvaluatorType
                                    /\ [ev EXCEPT !.lastActivity = a] \in EvaluatorType
           /\ \A n \in Nat : /\ [ev EXCEPT !.pendingCount = n] \in EvaluatorType
                             /\ [ev EXCEPT !.lastGood = n] \in EvaluatorType
                             /\ [ev EXCEPT !.firstSeen = n] \in EvaluatorType
                             /\ [ev EXCEPT !.generation = n] \in EvaluatorType
           /\ \A s \in States : [ev EXCEPT !.lastState = s] \in EvaluatorType
<1>1. ASSUME NEW a \in Activities
      PROVE  /\ [ev EXCEPT !.current = a] \in EvaluatorType
             /\ [ev EXCEPT !.pending = a] \in EvaluatorType
             /\ [ev EXCEPT !.lastActivity = a] \in EvaluatorType
  BY SMT DEF EvaluatorType
<1>2. ASSUME NEW n \in Nat
      PROVE  /\ [ev EXCEPT !.pendingCount = n] \in EvaluatorType
             /\ [ev EXCEPT !.lastGood = n] \in EvaluatorType
             /\ [ev EXCEPT !.firstSeen = n] \in EvaluatorType
             /\ [ev EXCEPT !.generation = n] \in EvaluatorType
  BY SMT DEF EvaluatorType
<1>3. ASSUME NEW s \in States
      PROVE  [ev EXCEPT !.lastState = s] \in EvaluatorType
  BY SMT DEF EvaluatorType
<1> QED
  BY <1>1, <1>2, <1>3

(***************************************************************************)
(* An activity may be unknown.                                             *)
(***************************************************************************)
LEMMA UnknownActivity == Unknown \in Activities
  BY DEF Activities

(***************************************************************************)
(* What debounced returns, field by field.                                 *)
(***************************************************************************)
LEMMA Debounced ==
    ASSUME NEW ev \in EvaluatorType, NEW seen \in Activities
    PROVE  LET n == debounced(ev, seen)
               counted == seen \notin {Unknown, ev.current}
               enough == Count(ev, seen) >= config.samples[seen]
           IN  /\ n \in EvaluatorType
               /\ n.lastGood = ev.lastGood /\ n.firstSeen = ev.firstSeen
               /\ n.lastState = ev.lastState /\ n.lastActivity = ev.lastActivity
               /\ n.generation = ev.generation
               /\ n.current = IF counted /\ enough THEN seen ELSE ev.current
               /\ n.pending = IF counted /\ ~enough THEN seen ELSE Unknown
               /\ n.pendingCount = IF counted /\ ~enough THEN Count(ev, seen) ELSE 0
<1> DEFINE count == Count(ev, seen)
           cleared == [[ev EXCEPT !.pending = Unknown] EXCEPT !.pendingCount = 0]
           settled == [[[ev EXCEPT !.current = seen] EXCEPT !.pending = Unknown]
                            EXCEPT !.pendingCount = 0]
           waiting == [[ev EXCEPT !.pending = seen] EXCEPT !.pendingCount = count]
<1>1. count \in Nat
  BY SMT DEF Count, EvaluatorType
<1>2. debounced(ev, seen) = IF seen \in {Unknown, ev.current} THEN cleared
                            ELSE IF count >= config.samples[seen] THEN settled ELSE waiting
  BY Zenon DEF debounced, Count
<1> HIDE DEF count
<1>3. /\ cleared \in EvaluatorType /\ settled \in EvaluatorType /\ waiting \in EvaluatorType
  <2>1. [ev EXCEPT !.pending = Unknown] \in EvaluatorType
    BY FieldSet, UnknownActivity
  <2>2. cleared \in EvaluatorType
    BY <2>1, FieldSet, 0 \in Nat
  <2>3. [ev EXCEPT !.current = seen] \in EvaluatorType
    BY FieldSet
  <2>4. [[ev EXCEPT !.current = seen] EXCEPT !.pending = Unknown] \in EvaluatorType
    BY <2>3, FieldSet, UnknownActivity
  <2>5. settled \in EvaluatorType
    BY <2>4, FieldSet, 0 \in Nat
  <2>6. [ev EXCEPT !.pending = seen] \in EvaluatorType
    BY FieldSet
  <2>7. waiting \in EvaluatorType
    BY <1>1, <2>6, FieldSet
  <2> QED
    BY <2>2, <2>5, <2>7
<1>4. CASE seen \in {Unknown, ev.current}
  BY <1>2, <1>3, <1>4, SMT DEF EvaluatorType
<1>5. CASE seen \notin {Unknown, ev.current} /\ count >= config.samples[seen]
  BY <1>2, <1>3, <1>5, SMT DEF EvaluatorType, count
<1>6. CASE seen \notin {Unknown, ev.current} /\ ~(count >= config.samples[seen])
  BY <1>1, <1>2, <1>3, <1>6, SMT DEF EvaluatorType, count
<1> QED
  BY <1>4, <1>5, <1>6

(***************************************************************************)
(* The state reported is idle exactly for the activity idle.               *)
(***************************************************************************)
LEMMA StateFor ==
    ASSUME NEW activity \in Activities
    PROVE  /\ stateFor(activity) \in States
           /\ stateFor(activity) = "idle" <=> activity = "idle"
  BY SMT DEF stateFor, States, Activities, Unknown, Known

(***************************************************************************)
(* What evaluated returns.                                                 *)
(***************************************************************************)
LEMMA Evaluated ==
    ASSUME NEW ev \in EvaluatorType, NEW seen \in Activities, NEW t \in Nat
    PROVE  LET n == evaluated(ev, seen, t)
               counted == seen \notin {Unknown, ev.current}
               enough == Count(ev, seen) >= config.samples[seen]
           IN  /\ n \in EvaluatorType
               /\ n.current = IF counted /\ enough THEN seen ELSE ev.current
               /\ n.pending = IF counted /\ ~enough THEN seen ELSE Unknown
               /\ n.pendingCount = IF counted /\ ~enough THEN Count(ev, seen) ELSE 0
               /\ n.firstSeen = IF ev.firstSeen = 0 THEN t ELSE ev.firstSeen
               /\ n.lastGood = IF seen = Unknown THEN ev.lastGood ELSE t
               /\ n.lastState = reportedState(n, seen, t)
               /\ n.lastActivity = reportedActivity(n, seen)
               /\ n.generation = IF \/ ev.generation = 0 \/ n.lastState # ev.lastState
                                    \/ n.lastActivity # ev.lastActivity
                                 THEN ev.generation + 1 ELSE ev.generation
<1> DEFINE seenAt == IF ev.firstSeen = 0 THEN t ELSE ev.firstSeen
           provedAt == IF seen = Unknown THEN ev.lastGood ELSE t
           first == [[ev EXCEPT !.firstSeen = seenAt] EXCEPT !.lastGood = provedAt]
           next == debounced(first, seen)
           state == reportedState(next, seen, t)
           activity == reportedActivity(next, seen)
           generation == IF \/ next.generation = 0 \/ state # next.lastState
                            \/ activity # next.lastActivity
                         THEN next.generation + 1 ELSE next.generation
           final == [[[next EXCEPT !.lastState = state] EXCEPT !.lastActivity = activity]
                          EXCEPT !.generation = generation]
<1>1. evaluated(ev, seen, t) = final
  BY Zenon DEF evaluated
<1>2. seenAt \in Nat /\ provedAt \in Nat
  BY SMT DEF EvaluatorType
<1> HIDE DEF seenAt, provedAt
<1>3. /\ first \in EvaluatorType
      /\ first.current = ev.current /\ first.pending = ev.pending
      /\ first.pendingCount = ev.pendingCount /\ first.lastState = ev.lastState
      /\ first.lastActivity = ev.lastActivity /\ first.generation = ev.generation
      /\ first.firstSeen = seenAt /\ first.lastGood = provedAt
  <2>1. [ev EXCEPT !.firstSeen = seenAt] \in EvaluatorType
    BY <1>2, FieldSet
  <2>2. first \in EvaluatorType
    BY <1>2, <2>1, FieldSet
  <2> QED
    BY <1>2, <2>2, SMT DEF EvaluatorType
<1>4. Count(first, seen) = Count(ev, seen)
  BY <1>3 DEF Count
<1> HIDE DEF first
<1>5. LET counted == seen \notin {Unknown, ev.current}
          enough == Count(ev, seen) >= config.samples[seen]
      IN  /\ next \in EvaluatorType
          /\ next.lastState = ev.lastState /\ next.lastActivity = ev.lastActivity
          /\ next.generation = ev.generation
          /\ next.firstSeen = seenAt /\ next.lastGood = provedAt
          /\ next.current = IF counted /\ enough THEN seen ELSE ev.current
          /\ next.pending = IF counted /\ ~enough THEN seen ELSE Unknown
          /\ next.pendingCount = IF counted /\ ~enough THEN Count(ev, seen) ELSE 0
  BY <1>3, <1>4, Debounced
<1> HIDE DEF next
<1>6. next.current \in Activities
  BY <1>5, SMT DEF EvaluatorType
<1>7. stateFor(next.current) \in States
  BY <1>6, StateFor
<1>8. state \in States /\ activity \in Activities
  BY <1>6, <1>7, SMT DEF reportedState, reportedActivity, States, Activities, Unknown
<1>9. generation \in Nat
  BY <1>5, SMT DEF EvaluatorType
<1>10. /\ next.lastState = ev.lastState /\ next.lastActivity = ev.lastActivity
       /\ next.generation = ev.generation /\ next \in EvaluatorType
  BY <1>5
<1>11. generation = IF \/ ev.generation = 0 \/ state # ev.lastState
                       \/ activity # ev.lastActivity
                    THEN ev.generation + 1 ELSE ev.generation
  BY <1>10
<1> HIDE DEF state, activity, generation
<1>12. /\ final \in EvaluatorType
       /\ final.current = next.current /\ final.pending = next.pending
       /\ final.pendingCount = next.pendingCount
       /\ final.lastGood = next.lastGood /\ final.firstSeen = next.firstSeen
       /\ final.lastState = state /\ final.lastActivity = activity
       /\ final.generation = generation
  <2>1. [next EXCEPT !.lastState = state] \in EvaluatorType
    BY <1>8, <1>10, FieldSet
  <2>2. [[next EXCEPT !.lastState = state] EXCEPT !.lastActivity = activity] \in EvaluatorType
    BY <1>8, <2>1, FieldSet
  <2>3. final \in EvaluatorType
    BY <1>9, <2>2, FieldSet
  <2> QED
    BY <1>8, <1>9, <1>10, <2>3, SMT DEF EvaluatorType
<1> HIDE DEF final
<1>13. reportedState(final, seen, t) = state /\ reportedActivity(final, seen) = activity
  BY <1>12 DEF state, activity, reportedState, reportedActivity
<1> QED
  BY <1>1, <1>5, <1>11, <1>12, <1>13 DEF seenAt, provedAt
----------------------------------------------------------------------------
(***************************************************************************)
(* The inductive invariant. While another activity than the established    *)
(* one is being seen, the evaluator counts exactly the samples in a row    *)
(* that aggregated to it, and they are not enough yet.                     *)
(***************************************************************************)
Counted ==
    LET other == candidate \notin {Unknown, evaluator.current}
    IN  /\ evaluator.pending = IF other THEN candidate ELSE Unknown
        /\ evaluator.pendingCount = IF other THEN streak ELSE 0
        /\ other => streak < config.samples[candidate]
        /\ candidate # Unknown => streak > 0

Says(r) == r.state = evaluator.lastState /\ r.activity = evaluator.lastActivity

(***************************************************************************)
(* The report being sent is that of the last sample.                       *)
(***************************************************************************)
InFlight ==
    sending # NoReport =>
        /\ Says(sending) /\ sending.generation = evaluator.generation
        /\ loop.lastReport <= sending.heartbeatAt
        /\ 1 <= sending.heartbeatAt /\ sending.heartbeatAt <= now

(***************************************************************************)
(* A late report that no newer one overtook is not older than the last one *)
(* that went through, and one of the evaluator's generation says what the  *)
(* evaluator says.                                                         *)
(***************************************************************************)
LateSays ==
    \A r \in late : (~r.overtaken /\ loop.lastReport # 0) =>
        /\ r.report.heartbeatAt >= loop.lastReport
        /\ loop.lastGeneration <= r.report.generation
        /\ r.report.generation <= evaluator.generation
        /\ r.report.generation = evaluator.generation => Says(r.report)

(***************************************************************************)
(* StatusFollows, also while a report is being sent, and what bounds the   *)
(* age of the status.                                                      *)
(***************************************************************************)
Followed ==
    loop.lastReport # 0 =>
        /\ overtakenAt # 0 => overtakenAt >= loop.lastReport
        /\ overtakenAt = 0 =>
               /\ status.heartbeatAt >= loop.lastReport
               /\ loop.lastGeneration = evaluator.generation => Says(status)

Clock == now >= 1 /\ loop.lastReport <= now /\ loop.lastGeneration <= evaluator.generation

(***************************************************************************)
(* What the last sample aggregated to stands for what went on at the host, *)
(* and idle is reported only of a sample that saw something.               *)
(***************************************************************************)
SampleEvidence ==
    /\ (streak # 0 /\ ~host.unanswered) =>
           candidate = CASE "game" \in host.goesOn -> "game"
                         [] host.goesOn = {"interactive"} -> "interactive"
                         [] OTHER -> "idle"
    /\ (streak # 0 /\ host.unanswered) => candidate \in host.goesOn \cup {Unknown}

IdleSeen ==
    evaluator.lastState = "idle" =>
        streak # 0 /\ candidate # Unknown /\ evaluator.current = "idle"

Evidence == SampleEvidence /\ IdleSeen

(***************************************************************************)
(* The times the evaluator keeps are those of the samples.                 *)
(***************************************************************************)
Remembered ==
    goodAt = IF evaluator.lastGood # 0 THEN evaluator.lastGood ELSE evaluator.firstSeen

IInv ==
    /\ TypeOK /\ Clock /\ Counted /\ InFlight /\ LateSays /\ Followed /\ Evidence
    /\ Remembered /\ UncertaintyReported

(***************************************************************************)
(* What the types say of the configuration the reporter loaded.            *)
(***************************************************************************)
LEMMA ConfigTyped ==
    ASSUME TypeOK
    PROVE  /\ config \in ConfigType /\ Validate(config)
           /\ \A a \in Known : config.samples[a] \in Int /\ config.samples[a] >= 1
           /\ config.staleAfter \in Int /\ config.heartbeatInterval \in Int
<1>1. config \in ConfigType /\ Validate(config)
  BY ReporterAssumption DEF TypeOK
<1>2. /\ \A a \in Known : config.samples[a] \in Int
      /\ config.staleAfter \in Int /\ config.heartbeatInterval \in Int
  BY <1>1 DEF ConfigType
<1>3. \A a \in Known : config.samples[a] >= 1
  BY <1>1 DEF Validate
<1> QED
  BY <1>1, <1>2, <1>3

(***************************************************************************)
(* An empty status is well formed.                                         *)
(***************************************************************************)
LEMMA NoReportType == NoReport \in Report
  BY SMT DEF NoReport, Report, States, Activities, Unknown

(***************************************************************************)
(* The evaluator a reporter starts with is well formed.                    *)
(***************************************************************************)
LEMMA NewEvaluatorType == NewEvaluator \in EvaluatorType
  BY SMT DEF NewEvaluator, EvaluatorType, States, Activities, Unknown

(***************************************************************************)
(* The reporter starts in the invariant.                                   *)
(***************************************************************************)
LEMMA InitIInv == Init => IInv
<1> SUFFICES ASSUME Init PROVE IInv
  OBVIOUS
<1> USE DEF Init
<1>1. TypeOK
  <2>1. evaluator \in EvaluatorType /\ sending \in Report /\ status \in Report
    BY NoReportType, NewEvaluatorType
  <2>2. loop \in [lastReport : Nat, lastGeneration : Nat]
    BY SMT DEF NewLoop
  <2>3. host \in [goesOn : SUBSET {"game", "interactive"}, unanswered : BOOLEAN]
    BY DEF NothingSeen
  <2> QED
    BY <2>1, <2>2, <2>3, UnknownActivity DEF TypeOK, EvaluatorType
<1>2. Clock
  BY DEF Clock, NewLoop, NewEvaluator
<1>3. Counted
  BY DEF Counted, NewEvaluator, Unknown
<1>4. InFlight /\ LateSays /\ UncertaintyReported
  BY DEF InFlight, LateSays, UncertaintyReported
<1>5. Followed
  BY DEF Followed, NewLoop
<1>6. Evidence /\ Remembered
  BY DEF Evidence, SampleEvidence, IdleSeen, NewEvaluator, Remembered
<1> QED
  BY <1>1, <1>2, <1>3, <1>4, <1>5, <1>6 DEF IInv

(***************************************************************************)
(* A step that neither samples nor restarts keeps what concerns the last   *)
(* sample alone.                                                           *)
(***************************************************************************)
LEMMA NoSample ==
    ASSUME IInv, UNCHANGED <<config, evaluator, history>>,
           sending' = sending \/ sending' = NoReport
    PROVE  /\ Counted' /\ Evidence' /\ UncertaintyReported' /\ Remembered'
           /\ evaluator' \in EvaluatorType
<1>1. /\ config' = config /\ evaluator' = evaluator /\ candidate' = candidate
      /\ streak' = streak /\ host' = host /\ goodAt' = goodAt
  BY DEF history
<1>2. Counted'
  BY <1>1 DEF IInv, Counted
<1>3. Evidence'
  BY <1>1 DEF IInv, Evidence, SampleEvidence, IdleSeen
<1>4. UncertaintyReported' /\ Remembered'
  BY <1>1 DEF IInv, UncertaintyReported, Remembered
<1> QED
  BY <1>1, <1>2, <1>3, <1>4 DEF IInv, TypeOK, EvaluatorType
----------------------------------------------------------------------------
(***************************************************************************)
(* What a sample does to the evaluator, and what it knows of the host.     *)
(***************************************************************************)
LEMMA SampleStep ==
    ASSUME IInv, NEW sample \in Samples, Sample(sample)
    PROVE  /\ candidate' \in Activities
           /\ host' \in [goesOn : SUBSET {"game", "interactive"}, unanswered : BOOLEAN]
           /\ streak' \in Nat /\ streak' # 0 /\ SampleEvidence'
           /\ evaluator' = evaluated(evaluator, candidate', now)
           /\ evaluator' \in EvaluatorType
<1>1. /\ evaluator' = evaluated(evaluator, sample.seen, now)
      /\ candidate' = sample.seen /\ host' = sample.host
      /\ streak' = IF sample.seen = candidate THEN streak + 1 ELSE 1
  BY DEF Sample
<1>2. /\ evaluator \in EvaluatorType /\ now \in Nat /\ streak \in Nat
  BY DEF IInv, TypeOK, EvaluatorType
<1>3. PICK c \in {x \in Configs : Validate(x)}, h \in Hosts :
          sample = [config |-> c, seen |-> Aggregate(Collect(buildProviders(c), h)),
                    host |-> [goesOn |-> GoesOn(c, h), unanswered |-> Unanswered(c, h)]]
  BY DEF Samples
<1>4. c \in ConfigType /\ Validate(c) /\ h \in HostType
  BY <1>3, ReporterAssumption
<1> DEFINE goes == GoesOn(c, h)
           missing == Unanswered(c, h)
           saw == Aggregate(Collect(buildProviders(c), h))
<1>5. /\ goes \in SUBSET {"game", "interactive"} /\ missing \in BOOLEAN
      /\ ~missing => saw = CASE "game" \in goes -> "game"
                             [] goes = {"interactive"} -> "interactive"
                             [] OTHER -> "idle"
      /\ missing => saw \in goes \cup {Unknown}
  BY <1>4, SampleHonest
<1>6. saw \in Activities
  BY DEF Aggregate, Activities, Known
<1> HIDE DEF goes, missing, saw
<1>7. sample.seen = saw /\ sample.host = [goesOn |-> goes, unanswered |-> missing]
  BY <1>3 DEF goes, missing, saw
<1>8. host' \in [goesOn : SUBSET {"game", "interactive"}, unanswered : BOOLEAN]
  BY <1>1, <1>5, <1>7
<1>9. host'.goesOn = goes /\ (host'.unanswered <=> missing)
  <2>1. host' = [goesOn |-> goes, unanswered |-> missing]
    BY <1>1, <1>7
  <2>2. host'.goesOn = goes
    BY <2>1
  <2>3. host'.unanswered = missing
    BY <2>1
  <2> QED
    BY <2>2, <2>3
<1>10. SampleEvidence'
  BY <1>1, <1>5, <1>7, <1>9 DEF SampleEvidence
<1>11. streak' \in Nat /\ streak' # 0
  BY <1>1, <1>2
<1> QED
  BY <1>1, <1>2, <1>6, <1>7, <1>8, <1>10, <1>11, Evaluated

(***************************************************************************)
(* The generation never falls, and as long as it stays what is reported    *)
(* stays.                                                                  *)
(***************************************************************************)
LEMMA GenerationTells ==
    ASSUME NEW ev \in EvaluatorType, NEW seen \in Activities, NEW t \in Nat
    PROVE  LET n == evaluated(ev, seen, t)
           IN  /\ n.generation \in Nat /\ ev.generation \in Nat
               /\ n.generation >= ev.generation /\ n.generation >= 1
               /\ n.generation = ev.generation =>
                      n.lastState = ev.lastState /\ n.lastActivity = ev.lastActivity
<1> DEFINE n == evaluated(ev, seen, t)
<1>1. n.generation = IF \/ ev.generation = 0 \/ n.lastState # ev.lastState
                        \/ n.lastActivity # ev.lastActivity
                     THEN ev.generation + 1 ELSE ev.generation
  BY Evaluated
<1>2. ev.generation \in Nat
  BY DEF EvaluatorType
<1> HIDE DEF n
<1>3. /\ n.generation \in Nat /\ n.generation >= ev.generation /\ n.generation >= 1
      /\ n.generation = ev.generation =>
             n.lastState = ev.lastState /\ n.lastActivity = ev.lastActivity
  BY <1>1, <1>2
<1> QED
  BY <1>2, <1>3 DEF n

(***************************************************************************)
(* The debounce counts the samples in a row.                               *)
(***************************************************************************)
LEMMA SampleCounts ==
    ASSUME IInv, NEW sample \in Samples, Sample(sample)
    PROVE  /\ Counted'
           /\ evaluator'.current # evaluator.current =>
                  /\ candidate' = evaluator'.current
                  /\ streak' >= config.samples[evaluator'.current]
<1> DEFINE seen == candidate'
           other == seen \notin {Unknown, evaluator.current}
           enough == Count(evaluator, seen) >= config.samples[seen]
<1>1. /\ seen \in Activities /\ streak' \in Nat /\ streak' # 0
      /\ evaluator' = evaluated(evaluator, seen, now)
  BY SampleStep
<1>2. /\ evaluator \in EvaluatorType /\ now \in Nat /\ streak \in Nat
  BY DEF IInv, TypeOK, EvaluatorType
<1>3. /\ evaluator'.current = IF other /\ enough THEN seen ELSE evaluator.current
      /\ evaluator'.pending = IF other /\ ~enough THEN seen ELSE Unknown
      /\ evaluator'.pendingCount = IF other /\ ~enough THEN Count(evaluator, seen) ELSE 0
  BY <1>1, <1>2, Evaluated
<1>4. config' = config /\ streak' = IF seen = candidate THEN streak + 1 ELSE 1
  BY DEF Sample
<1>5. other => Count(evaluator, seen) = streak'
  BY <1>4 DEF Count, IInv, Counted
<1>6. other => config.samples[seen] \in Int
  BY <1>1, ConfigTyped DEF IInv, Activities
<1> HIDE DEF seen
<1>7. seen # Unknown => streak' > 0
  BY <1>1
<1>8. CASE ~other
  <2>1. evaluator'.current = evaluator.current /\ evaluator'.pending = Unknown
        /\ evaluator'.pendingCount = 0
    BY <1>3, <1>8
  <2> QED
    BY <2>1, <1>7, <1>8 DEF Counted, seen
<1>9. CASE other /\ enough
  <2>1. evaluator'.current = seen /\ evaluator'.pending = Unknown
        /\ evaluator'.pendingCount = 0
    BY <1>3, <1>9
  <2>2. streak' >= config.samples[seen]
    BY <1>5, <1>9
  <2> QED
    BY <2>1, <2>2, <1>7 DEF Counted, seen
<1>10. CASE other /\ ~enough
  <2>1. evaluator'.current = evaluator.current /\ evaluator'.pending = seen
        /\ evaluator'.pendingCount = streak'
    BY <1>3, <1>5, <1>10
  <2>2. streak' < config.samples[seen]
    BY <1>1, <1>5, <1>6, <1>10
  <2> QED
    BY <2>1, <2>2, <1>4, <1>7, <1>10 DEF Counted, seen
<1> QED
  BY <1>8, <1>9, <1>10

(***************************************************************************)
(* What is reported of a sample.                                           *)
(***************************************************************************)
LEMMA SampleReports ==
    ASSUME IInv, NEW sample \in Samples, Sample(sample)
    PROVE  /\ sending' = NoReport \/ sending'.heartbeatAt = now
           /\ sending' \in Report /\ InFlight' /\ UncertaintyReported' /\ IdleSeen'
           /\ Remembered' /\ goodAt' \in Nat
           /\ sending' = NoReport =>
                  /\ loop.lastReport # 0 /\ evaluator'.generation = loop.lastGeneration
                  /\ now - loop.lastReport < config.heartbeatInterval
<1> DEFINE ev == evaluator'
           seen == candidate'
           report == [state |-> ev.lastState, activity |-> ev.lastActivity,
                      heartbeatAt |-> now, generation |-> ev.generation]
<1>1. /\ seen \in Activities /\ streak' # 0 /\ ev = evaluated(evaluator, seen, now)
      /\ ev \in EvaluatorType
  BY SampleStep
<1>2. /\ evaluator \in EvaluatorType /\ now \in Nat /\ now >= 1
      /\ loop.lastReport \in Nat /\ loop.lastReport <= now
  BY DEF IInv, TypeOK, EvaluatorType, Clock
<1>3. /\ ev.lastState = reportedState(ev, seen, now)
      /\ ev.lastActivity = reportedActivity(ev, seen)
  BY <1>1, <1>2, Evaluated
<1>4. /\ ev.lastState \in States /\ ev.lastActivity \in Activities
      /\ ev.generation \in Nat /\ ev.current \in Activities
      /\ ev.lastGood \in Nat /\ ev.firstSeen \in Nat
  BY <1>1 DEF EvaluatorType
<1>5. /\ config' = config /\ loop' = loop /\ now' = now
      /\ sending' = IF reportDue(loop, ev.generation, now) THEN report ELSE NoReport
  BY <1>1 DEF Sample
<1> HIDE DEF ev, seen
<1>6. /\ report \in Report /\ report.heartbeatAt = now /\ report.state = ev.lastState
      /\ report.activity = ev.lastActivity /\ report.generation = ev.generation
  BY <1>2, <1>4, SMT DEF Report
<1> HIDE DEF report
<1>7. sending' \in Report
  BY <1>5, <1>6, NoReportType
<1>8. sending' = NoReport \/ sending' = report
  BY <1>5
<1>9. InFlight'
  BY <1>2, <1>5, <1>6, <1>8 DEF InFlight, Says, ev
<1>10. /\ goodAt' = IF seen # Unknown \/ goodAt = 0 THEN now ELSE goodAt
       /\ ev.firstSeen = IF evaluator.firstSeen = 0 THEN now ELSE evaluator.firstSeen
       /\ ev.lastGood = IF seen = Unknown THEN evaluator.lastGood ELSE now
  <2>1. goodAt' = IF seen # Unknown \/ goodAt = 0 THEN now ELSE goodAt
    BY DEF Sample, seen
  <2> QED
    BY <1>1, <1>2, <2>1, Evaluated
<1>11. goodAt' = IF ev.lastGood # 0 THEN ev.lastGood ELSE ev.firstSeen
  BY <1>2, <1>10 DEF IInv, Remembered
<1>12. goodAt' \in Nat
  BY <1>4, <1>11
<1>13. UncertaintyReported'
  <2> SUFFICES ASSUME sending' = report, seen = Unknown
               PROVE  /\ report.activity = Unknown
                      /\ report.state = IF now - goodAt' >= config.staleAfter
                                        THEN "stale" ELSE "unknown"
    BY <1>5, <1>6, <1>8 DEF UncertaintyReported, ev, seen
  <2> QED
    BY <1>3, <1>6, <1>11 DEF reportedState, reportedActivity
<1>14. IdleSeen'
  <2> SUFFICES ASSUME ev.lastState = "idle" PROVE seen # Unknown /\ ev.current = "idle"
    BY <1>1 DEF IdleSeen, ev, seen
  <2>1. seen # Unknown /\ stateFor(ev.current) = "idle"
    BY <1>3 DEF reportedState
  <2> QED
    BY <1>4, <2>1, StateFor
<1>15. ASSUME sending' = NoReport
       PROVE  /\ loop.lastReport # 0 /\ ev.generation = loop.lastGeneration
              /\ now - loop.lastReport < config.heartbeatInterval
  <2>1. report # NoReport
    BY <1>2, <1>6 DEF NoReport
  <2>2. ~reportDue(loop, ev.generation, now)
    BY <1>5, <1>15, <2>1
  <2>3. config.heartbeatInterval \in Int
    BY ConfigTyped DEF IInv
  <2> QED
    BY <1>2, <2>2, <2>3 DEF reportDue
<1> QED
  BY <1>6, <1>7, <1>8, <1>9, <1>11, <1>12, <1>13, <1>14, <1>15 DEF ev, Remembered

(***************************************************************************)
(* A sample preserves the invariant.                                       *)
(***************************************************************************)
LEMMA SampleKeeps ==
    ASSUME IInv, NEW sample \in Samples, Sample(sample)
    PROVE  IInv'
<1> DEFINE ev == evaluator'
           seen == candidate'
<1>1. /\ seen \in Activities /\ streak' \in Nat /\ ev = evaluated(evaluator, seen, now)
      /\ host' \in [goesOn : SUBSET {"game", "interactive"}, unanswered : BOOLEAN]
      /\ ev \in EvaluatorType /\ SampleEvidence'
  BY SampleStep
<1>2. evaluator \in EvaluatorType /\ now \in Nat
  BY DEF IInv, TypeOK, EvaluatorType
<1>3. /\ ev.generation \in Nat /\ evaluator.generation \in Nat
      /\ ev.generation >= evaluator.generation
      /\ ev.generation = evaluator.generation =>
             ev.lastState = evaluator.lastState /\ ev.lastActivity = evaluator.lastActivity
  BY <1>1, <1>2, GenerationTells
<1>4. /\ config' = config /\ now' = now /\ loop' = loop /\ late' = late
      /\ status' = status /\ overtakenAt' = overtakenAt
  BY DEF Sample
<1>5. /\ sending' \in Report /\ InFlight' /\ UncertaintyReported' /\ IdleSeen'
      /\ Remembered' /\ goodAt' \in Nat
  BY SampleReports
<1>6. TypeOK'
  BY <1>1, <1>4, <1>5 DEF TypeOK, IInv, EvaluatorType, ev, seen
<1>7. /\ loop.lastReport \in Nat /\ loop.lastGeneration \in Nat
      /\ loop.lastGeneration <= evaluator.generation
      /\ \A r \in late : r.report.generation \in Nat
  BY DEF IInv, TypeOK, Clock, Report
<1> HIDE DEF ev, seen
<1>8. Clock'
  BY <1>3, <1>4, <1>7 DEF IInv, Clock, ev
<1>9. LateSays'
  <2> SUFFICES ASSUME NEW r \in late, ~r.overtaken, loop.lastReport # 0
               PROVE  /\ r.report.heartbeatAt >= loop.lastReport
                      /\ loop.lastGeneration <= r.report.generation
                      /\ r.report.generation <= ev.generation
                      /\ r.report.generation = ev.generation =>
                             r.report.state = ev.lastState /\ r.report.activity = ev.lastActivity
    BY <1>4 DEF LateSays, Says, ev
  <2>1. /\ r.report.heartbeatAt >= loop.lastReport
        /\ loop.lastGeneration <= r.report.generation
        /\ r.report.generation <= evaluator.generation
        /\ r.report.generation = evaluator.generation =>
               r.report.state = evaluator.lastState /\ r.report.activity = evaluator.lastActivity
    BY DEF IInv, LateSays, Says
  <2>2. r.report.generation \in Nat
    BY <1>7
  <2>3. r.report.generation <= ev.generation
    BY <1>3, <2>1, <2>2
  <2>4. r.report.generation = ev.generation => ev.generation = evaluator.generation
    BY <1>3, <2>1, <2>2
  <2> QED
    BY <1>3, <2>1, <2>3, <2>4
<1>10. Followed'
  <2>1. loop.lastGeneration = ev.generation => ev.generation = evaluator.generation
    BY <1>3, <1>7
  <2> QED
    BY <1>3, <1>4, <2>1 DEF IInv, Followed, Says, ev
<1> QED
  BY <1>1, <1>5, <1>6, <1>8, <1>9, <1>10, SampleCounts DEF IInv, Evidence

----------------------------------------------------------------------------
(***************************************************************************)
(* An answered call overtakes all that are still in flight.                *)
(***************************************************************************)
LEMMA ReportedKeeps == IInv /\ Reported => IInv'
<1> SUFFICES ASSUME IInv, Reported PROVE IInv'
  OBVIOUS
<1>1. /\ sending # NoReport /\ status' = sending /\ sending' = NoReport /\ overtakenAt' = 0
      /\ loop' = [lastReport |-> sending.heartbeatAt, lastGeneration |-> sending.generation]
      /\ late' = {[r EXCEPT !.overtaken = TRUE] : r \in late}
      /\ config' = config /\ now' = now /\ evaluator' = evaluator /\ UNCHANGED history
  BY DEF Reported
<1>2. /\ Says(sending) /\ sending.generation = evaluator.generation
      /\ sending.heartbeatAt <= now
  BY <1>1 DEF IInv, InFlight
<1>3. sending \in Report /\ sending.heartbeatAt \in Nat /\ sending.generation \in Nat
  BY DEF IInv, TypeOK, Report
<1>4. /\ loop' \in [lastReport : Nat, lastGeneration : Nat]
      /\ loop'.lastReport = sending.heartbeatAt /\ loop'.lastGeneration = sending.generation
  BY <1>1, <1>3
<1>5. /\ Counted' /\ Evidence' /\ UncertaintyReported' /\ Remembered'
      /\ evaluator' \in EvaluatorType
  BY <1>1, NoSample
<1>6. \A r \in late' : r \in [report : Report, overtaken : BOOLEAN] /\ r.overtaken
  <2> SUFFICES ASSUME NEW r \in late
               PROVE  /\ [r EXCEPT !.overtaken = TRUE] \in [report : Report, overtaken : BOOLEAN]
                      /\ [r EXCEPT !.overtaken = TRUE].overtaken
    BY <1>1
  <2>1. r \in [report : Report, overtaken : BOOLEAN]
    BY DEF IInv, TypeOK
  <2>2. [r EXCEPT !.overtaken = TRUE] \in [report : Report, overtaken : BOOLEAN]
    BY <2>1
  <2>3. [r EXCEPT !.overtaken = TRUE].overtaken = TRUE
    BY <2>1
  <2> QED
    BY <2>2, <2>3
<1>7. TypeOK'
  <2>1. candidate' = candidate /\ streak' = streak /\ host' = host /\ goodAt' = goodAt
    BY <1>1 DEF history
  <2> QED
    BY <1>1, <1>3, <1>4, <1>5, <1>6, <2>1, NoReportType DEF TypeOK, IInv, EvaluatorType
<1>8. Clock'
  BY <1>1, <1>2, <1>3, <1>4, <1>5 DEF IInv, Clock, EvaluatorType
<1>9. InFlight' /\ LateSays'
  BY <1>1, <1>6 DEF InFlight, LateSays
<1>10. Followed'
  BY <1>1, <1>2, <1>3, <1>4 DEF Followed, Says
<1> QED
  BY <1>5, <1>7, <1>8, <1>9, <1>10 DEF IInv

(***************************************************************************)
(* A failed call preserves the invariant.                                  *)
(***************************************************************************)
LEMMA ReportFailsKeeps == IInv /\ ReportFails => IInv'
<1> SUFFICES ASSUME IInv, ReportFails PROVE IInv'
  OBVIOUS
<1>1. /\ sending' = NoReport /\ UNCHANGED <<config, now, evaluator, loop, late, status>>
      /\ UNCHANGED history /\ overtakenAt' = overtakenAt
  BY DEF ReportFails
<1>2. Counted' /\ Evidence' /\ UncertaintyReported' /\ Remembered'
  BY <1>1, NoSample
<1>3. TypeOK'
  BY <1>1, NoReportType DEF TypeOK, IInv, history
<1>4. Clock' /\ InFlight' /\ LateSays' /\ Followed'
  BY <1>1 DEF IInv, Clock, InFlight, LateSays, Followed, Says
<1> QED
  BY <1>2, <1>3, <1>4 DEF IInv

(***************************************************************************)
(* A call that times out may still take effect: it says what the           *)
(* evaluator says.                                                         *)
(***************************************************************************)
LEMMA ReportTimesOutKeeps == IInv /\ ReportTimesOut => IInv'
<1> SUFFICES ASSUME IInv, ReportTimesOut PROVE IInv'
  OBVIOUS
<1> DEFINE new == [report |-> sending, overtaken |-> FALSE]
<1>1. /\ sending # NoReport /\ sending' = NoReport /\ late' = late \cup {new}
      /\ UNCHANGED <<config, now, evaluator, loop, status>>
      /\ UNCHANGED history /\ overtakenAt' = overtakenAt
  BY DEF ReportTimesOut
<1>2. Counted' /\ Evidence' /\ UncertaintyReported' /\ Remembered'
  BY <1>1, NoSample
<1>3. new \in [report : Report, overtaken : BOOLEAN] /\ new.report = sending
  BY DEF IInv, TypeOK
<1>4. TypeOK'
  <2>1. \A r \in late' : r \in [report : Report, overtaken : BOOLEAN]
    BY <1>1, <1>3 DEF IInv, TypeOK
  <2> QED
    BY <1>1, <2>1, NoReportType DEF TypeOK, IInv, history
<1> HIDE DEF new
<1>5. Clock' /\ InFlight' /\ Followed'
  BY <1>1 DEF IInv, Clock, InFlight, Followed, Says
<1>6. LateSays'
  <2>1. /\ Says(sending) /\ sending.generation = evaluator.generation
        /\ loop.lastReport <= sending.heartbeatAt
    BY <1>1 DEF IInv, InFlight
  <2>2. /\ loop.lastReport \in Nat /\ loop.lastGeneration \in Nat
        /\ sending.heartbeatAt \in Nat /\ sending.generation \in Nat
        /\ loop.lastGeneration <= evaluator.generation
    BY DEF IInv, TypeOK, Report, Clock
  <2> SUFFICES ASSUME NEW r \in late', ~r.overtaken, loop.lastReport # 0
               PROVE  /\ r.report.heartbeatAt >= loop.lastReport
                      /\ loop.lastGeneration <= r.report.generation
                      /\ r.report.generation <= evaluator.generation
                      /\ r.report.generation = evaluator.generation => Says(r.report)
    BY <1>1 DEF LateSays, Says
  <2>3. CASE r \in late
    BY <2>3 DEF IInv, LateSays
  <2>4. CASE r = new
    BY <1>3, <2>1, <2>2, <2>4
  <2> QED
    BY <1>1, <2>3, <2>4
<1> QED
  BY <1>2, <1>4, <1>5, <1>6 DEF IInv

(***************************************************************************)
(* A late report, if it is not overtaken, says what the evaluator says.    *)
(***************************************************************************)
LEMMA LateAppliedKeeps ==
    ASSUME IInv, NEW r \in late, LateApplied(r)
    PROVE  IInv'
<1>1. /\ late' = late \ {r} /\ status' = r.report
      /\ overtakenAt' = IF r.overtaken THEN now ELSE 0
      /\ UNCHANGED <<config, now, evaluator, loop, sending>> /\ UNCHANGED history
  BY DEF LateApplied
<1>2. Counted' /\ Evidence' /\ UncertaintyReported' /\ Remembered'
  BY <1>1, NoSample
<1>3. r \in [report : Report, overtaken : BOOLEAN] /\ r.report \in Report
  BY DEF IInv, TypeOK
<1>4. now \in Nat /\ now >= 1 /\ loop.lastReport <= now
  BY DEF IInv, TypeOK, Clock
<1>5. TypeOK'
  BY <1>1, <1>3, <1>4 DEF TypeOK, IInv, history
<1>6. Clock' /\ InFlight' /\ LateSays'
  BY <1>1 DEF IInv, Clock, InFlight, LateSays, Says
<1>7. Followed'
  <2> SUFFICES ASSUME loop.lastReport # 0
               PROVE  /\ overtakenAt' # 0 => overtakenAt' >= loop.lastReport
                      /\ overtakenAt' = 0 =>
                             /\ r.report.heartbeatAt >= loop.lastReport
                             /\ loop.lastGeneration = evaluator.generation => Says(r.report)
    BY <1>1 DEF Followed, Says
  <2>1. CASE r.overtaken
    BY <1>1, <1>4, <2>1
  <2>2. CASE ~r.overtaken
    <3>1. /\ r.report.heartbeatAt >= loop.lastReport
          /\ loop.lastGeneration <= r.report.generation
          /\ r.report.generation <= evaluator.generation
          /\ r.report.generation = evaluator.generation => Says(r.report)
      BY <2>2 DEF IInv, LateSays
    <3>2. /\ r.report.generation \in Nat /\ evaluator.generation \in Nat
      BY <1>3 DEF IInv, TypeOK, Report
    <3> QED
      BY <1>1, <2>2, <3>1, <3>2
  <2> QED
    BY <2>1, <2>2
<1> QED
  BY <1>2, <1>5, <1>6, <1>7 DEF IInv

(***************************************************************************)
(* A restart forgets everything but the reports in flight.                 *)
(***************************************************************************)
LEMMA RestartKeeps == IInv /\ Restart => IInv'
<1> SUFFICES ASSUME IInv, Restart PROVE IInv'
  OBVIOUS
<1>1. /\ evaluator' = NewEvaluator /\ loop' = NewLoop /\ sending' = NoReport
      /\ candidate' = Unknown /\ streak' = 0 /\ goodAt' = 0 /\ host' = NothingSeen
      /\ UNCHANGED <<config, now, late, status, overtakenAt>>
  BY DEF Restart
<1>2. TypeOK'
  <2>1. evaluator' \in EvaluatorType /\ sending' \in Report
    BY <1>1, NoReportType, NewEvaluatorType
  <2>2. loop' \in [lastReport : Nat, lastGeneration : Nat]
    BY <1>1, SMT DEF NewLoop
  <2>3. host' \in [goesOn : SUBSET {"game", "interactive"}, unanswered : BOOLEAN]
    BY <1>1 DEF NothingSeen
  <2> QED
    BY <1>1, <2>1, <2>2, <2>3, UnknownActivity DEF TypeOK, EvaluatorType, IInv
<1>3. Clock'
  BY <1>1 DEF IInv, TypeOK, Clock, NewLoop, NewEvaluator
<1>4. Counted'
  BY <1>1 DEF Counted, NewEvaluator, Unknown
<1>5. InFlight' /\ UncertaintyReported' /\ Remembered'
  BY <1>1 DEF InFlight, UncertaintyReported, Remembered, NewEvaluator
<1>6. LateSays' /\ Followed'
  BY <1>1 DEF LateSays, Followed, NewLoop
<1>7. Evidence'
  BY <1>1 DEF Evidence, SampleEvidence, IdleSeen, NewEvaluator
<1> QED
  BY <1>2, <1>3, <1>4, <1>5, <1>6, <1>7 DEF IInv

(***************************************************************************)
(* The clock moves on.                                                     *)
(***************************************************************************)
LEMMA TickKeeps == IInv /\ Tick => IInv'
<1> SUFFICES ASSUME IInv, Tick PROVE IInv'
  OBVIOUS
<1>1. /\ now' = now + 1 /\ UNCHANGED <<config, evaluator, loop, sending, late, status>>
      /\ UNCHANGED history /\ overtakenAt' = overtakenAt
  BY DEF Tick
<1>2. Counted' /\ Evidence' /\ UncertaintyReported' /\ Remembered'
  BY <1>1, NoSample
<1>3. TypeOK'
  BY <1>1 DEF TypeOK, IInv, history
<1>4. Clock'
  BY <1>1 DEF IInv, TypeOK, Clock
<1>5. InFlight'
  BY <1>1 DEF IInv, TypeOK, Report, InFlight, Says
<1>6. LateSays' /\ Followed'
  BY <1>1 DEF IInv, LateSays, Followed, Says
<1> QED
  BY <1>2, <1>3, <1>4, <1>5, <1>6 DEF IInv

(***************************************************************************)
(* The invariant is inductive.                                             *)
(***************************************************************************)
LEMMA NextKeeps == IInv /\ [Next]_vars => IInv'
<1> SUFFICES ASSUME IInv, [Next]_vars PROVE IInv'
  OBVIOUS
<1>1. ASSUME NEW sample \in Samples, Sample(sample) PROVE IInv'
  BY <1>1, SampleKeeps
<1>2. ASSUME NEW r \in late, LateApplied(r) PROVE IInv'
  BY <1>2, LateAppliedKeeps
<1>3. CASE UNCHANGED vars
  BY <1>3 DEF vars, history, IInv, TypeOK, Clock, Counted, InFlight, LateSays, Followed, Says,
              Evidence, SampleEvidence, IdleSeen, Remembered, UncertaintyReported
<1> QED
  BY <1>1, <1>2, <1>3, ReportedKeeps, ReportFailsKeeps, ReportTimesOutKeeps, RestartKeeps,
     TickKeeps DEF Next

----------------------------------------------------------------------------
(***************************************************************************)
(* Every reachable state of the reporter satisfies the invariant, for any  *)
(* set of configurations and whatever may be found on a host.              *)
(***************************************************************************)
THEOREM ReporterInvariant == Spec => []IInv
  BY InitIInv, NextKeeps, PTL DEF Spec

(***************************************************************************)
(* TypeOK: the evaluator, the loop, the reports in flight and the status   *)
(* are well formed, and the configuration in use is one Load accepts.      *)
(***************************************************************************)
THEOREM ReporterType == Spec => []TypeOK
<1>1. IInv => TypeOK
  BY DEF IInv
<1> QED
  BY <1>1, ReporterInvariant, PTL

(***************************************************************************)
(* UncertaintyReported: a sample in which a provider fails and none is     *)
(* active is reported as unknown, and as stale exactly once the last good  *)
(* sample the process took, or its first one, is StaleAfter old. It rests  *)
(* on Remembered: what the evaluator keeps is when those samples were.     *)
(***************************************************************************)
THEOREM ReporterUncertain == Spec => []UncertaintyReported
<1>1. IInv => UncertaintyReported
  BY DEF IInv
<1> QED
  BY <1>1, ReporterInvariant, PTL

(***************************************************************************)
(* StatusFollows: whatever reports failed, were skipped, or took effect    *)
(* without an answer, the status says what the evaluator says once a       *)
(* sample's report is through.                                             *)
(***************************************************************************)
THEOREM ReporterFollows == Spec => []StatusFollows
<1>1. IInv => StatusFollows
  BY DEF IInv, Followed, Says, StatusFollows
<1> QED
  BY <1>1, ReporterInvariant, PTL

(***************************************************************************)
(* IdleIsEvidence: with every query answered the reporter sees exactly     *)
(* what goes on, and it never makes idle of an unanswered query.           *)
(***************************************************************************)
THEOREM ReporterIdle == Spec => []IdleIsEvidence
<1>1. IInv => IdleIsEvidence
  <2> SUFFICES ASSUME IInv PROVE IdleIsEvidence
    OBVIOUS
  <2>1. host.goesOn \subseteq {"game", "interactive"}
    BY DEF IInv, TypeOK
  <2>2. ASSUME evaluator.lastState = "idle", host.unanswered \/ host.goesOn # {}
        PROVE  candidate \in host.goesOn /\ streak < config.samples[candidate]
    <3>1. streak # 0 /\ candidate # Unknown /\ evaluator.current = "idle"
      BY <2>2 DEF IInv, Evidence, IdleSeen
    <3>2. ASSUME host.unanswered PROVE candidate \in host.goesOn
      <4>1. candidate \in host.goesOn \cup {Unknown}
        BY <3>1, <3>2, Zenon DEF IInv, Evidence, SampleEvidence
      <4> QED
        BY <3>1, <4>1
    <3>3. ASSUME ~host.unanswered PROVE candidate \in host.goesOn
      <4>1. candidate = CASE "game" \in host.goesOn -> "game"
                          [] host.goesOn = {"interactive"} -> "interactive"
                          [] OTHER -> "idle"
        BY <3>1, <3>3 DEF IInv, Evidence, SampleEvidence
      <4>2. "game" \in host.goesOn \/ host.goesOn = {"interactive"}
        BY <2>1, <2>2, <3>3
      <4>3. CASE "game" \in host.goesOn
        BY <4>1, <4>3
      <4>4. CASE host.goesOn = {"interactive"}
        <5>1. candidate = "interactive"
          BY <4>1, <4>4
        <5> QED
          BY <4>4, <5>1
      <4> QED
        BY <4>2, <4>3, <4>4
    <3>4. candidate \in host.goesOn
      BY <3>2, <3>3
    <3>5. candidate \notin {Unknown, evaluator.current}
      BY <2>1, <3>1, <3>4
    <3> QED
      BY <3>4, <3>5 DEF IInv, Counted
  <2> QED
    BY <2>2 DEF IdleIsEvidence, IInv, Evidence, SampleEvidence
<1> QED
  BY <1>1, ReporterInvariant, PTL

(***************************************************************************)
(* DebounceExact: the established activity changes exactly to what enough  *)
(* consecutive samples agree on, and as soon as they do.                   *)
(***************************************************************************)
THEOREM ReporterDebounce == Spec => DebounceExact
<1> DEFINE a == evaluator'.current
           Exact == /\ (a # evaluator.current /\ a # Unknown)
                           => (candidate' = a /\ streak' >= config.samples[a])
                    /\ (candidate' # Unknown /\ streak' >= config.samples[candidate'])
                           => (a = candidate')
<1>1. IInv /\ [Next]_vars => [Exact]_vars
  <2> SUFFICES ASSUME IInv, Next PROVE Exact
    OBVIOUS
  <2>1. IInv'
    BY NextKeeps
  <2>2. config' = config
    BY DEF Next, Sample, Reported, ReportFails, ReportTimesOut, LateApplied, Restart, Tick
  <2>3. ASSUME candidate' # Unknown, streak' >= config.samples[candidate'] PROVE a = candidate'
    <3>1. candidate' \notin {Unknown, a} => streak' < config.samples[candidate']
      BY <2>1, <2>2 DEF IInv, Counted
    <3>2. streak' \in Nat /\ candidate' \in Activities
      BY <2>1 DEF IInv, TypeOK
    <3>3. config.samples[candidate'] \in Int
      BY <2>3, <3>2, ConfigTyped DEF IInv, Activities
    <3> QED
      BY <2>3, <3>1, <3>2, <3>3
  <2>4. ASSUME a # evaluator.current, a # Unknown
        PROVE  candidate' = a /\ streak' >= config.samples[a]
    <3>1. CASE \E sample \in Samples : Sample(sample)
      BY <2>4, <3>1, SampleCounts
    <3>2. CASE Restart
      BY <2>4, <3>2 DEF Restart, NewEvaluator
    <3> QED
      BY <2>4, <3>1, <3>2 DEF Next, Reported, ReportFails, ReportTimesOut, LateApplied, Tick
  <2> QED
    BY <2>3, <2>4
<1>2. [][Exact]_vars => DebounceExact
  BY DEF DebounceExact
<1> QED
  BY <1>1, <1>2, ReporterInvariant, PTL DEF Spec

(***************************************************************************)
(* HeartbeatKept: a sample after which nothing is sent leaves a heartbeat  *)
(* younger than the interval, or one that a late report put back less than *)
(* an interval ago.                                                        *)
(***************************************************************************)
THEOREM ReporterHeartbeat == Spec => HeartbeatKept
<1> DEFINE Kept == (/\ <<evaluator, history>>' # <<evaluator, history>>
                    /\ streak' # 0 /\ sending' = NoReport)
                   => now - (IF overtakenAt = 0 THEN status.heartbeatAt ELSE overtakenAt)
                        < config.heartbeatInterval
<1>1. IInv /\ [Next]_vars => [Kept]_vars
  <2> SUFFICES ASSUME IInv, Next, <<evaluator, history>>' # <<evaluator, history>>,
                      streak' # 0, sending' = NoReport
               PROVE  now - (IF overtakenAt = 0 THEN status.heartbeatAt ELSE overtakenAt)
                        < config.heartbeatInterval
    OBVIOUS
  <2>1. PICK sample \in Samples : Sample(sample)
    <3>1. ~(Reported \/ ReportFails \/ ReportTimesOut \/ Tick \/ \E r \in late : LateApplied(r))
      BY DEF Reported, ReportFails, ReportTimesOut, Tick, LateApplied
    <3>2. ~Restart
      BY DEF Restart
    <3> QED
      BY <3>1, <3>2 DEF Next
  <2>2. /\ loop.lastReport # 0
        /\ now - loop.lastReport < config.heartbeatInterval
    BY <2>1, SampleReports
  <2>3. /\ overtakenAt # 0 => overtakenAt >= loop.lastReport
        /\ overtakenAt = 0 => status.heartbeatAt >= loop.lastReport
    BY <2>2 DEF IInv, Followed
  <2>4. /\ now \in Nat /\ loop.lastReport \in Nat /\ overtakenAt \in Nat
        /\ status.heartbeatAt \in Nat /\ config.heartbeatInterval \in Int
    BY ConfigTyped DEF IInv, TypeOK, Report
  <2> QED
    BY <2>2, <2>3, <2>4
<1>2. [][Kept]_vars => HeartbeatKept
  BY DEF HeartbeatKept
<1> QED
  BY <1>1, <1>2, ReporterInvariant, PTL DEF Spec
=============================================================================
