---------------------------- MODULE EvictionProofs ----------------------------
(***************************************************************************)
(* Proofs about Eviction, for every set of Nodes and names of Pods, any    *)
(* budgets, hints and jitter: an inductive invariant that follows a pass   *)
(* from the cached list to the requeue it ends with, and from it every     *)
(* property that is checked of the module.                                 *)
(***************************************************************************)
EXTENDS Eviction, BucketProofs, FiniteSetTheorems

(***************************************************************************)
(* A pass, with the types of its fields.                                   *)
(***************************************************************************)
PassType == [busy : BOOLEAN, node : Nodes \cup {NoNode}, start : Nat,
             todo : SUBSET PodType, call : SUBSET PodType,
             requeueAfter : Nat, deferred : SUBSET Lossiness,
             audited : BOOLEAN, attempted : BOOLEAN, blocked : BOOLEAN,
             outcome : {"", "Disabled", "Inactive"}]

(***************************************************************************)
(* What the backoff and the API asked for.                                 *)
(***************************************************************************)
AskType == [until : Nat, ran : Nat]

(***************************************************************************)
(* TypeOK, with pass as a member of a record set, the clock started, and a *)
(* pass in progress begun in the past.                                     *)
(***************************************************************************)
Typed ==
    /\ now \in Nat \ {0}
    /\ pods \in [Names -> PodType] /\ cpods \in [Names -> PodType]
    /\ class \in [Nodes -> Classes]
    /\ nodeBucket \in [Lossiness -> [Nodes -> BucketType]]
    /\ globalBucket \in [Lossiness -> BucketType]
    /\ DOMAIN retries \subseteq KeyType /\ \A k \in DOMAIN retries : retries[k] \in Nat
    /\ DOMAIN asked \subseteq KeyType /\ \A k \in DOMAIN asked : asked[k] \in AskType
    /\ queue \subseteq Nodes /\ timer \in [Nodes -> Nat]
    /\ pass \in PassType /\ \A p, q \in pass.call : p = q
    /\ pass.busy => pass.start # 0 /\ pass.start <= now
    /\ mode \in Modes /\ shown \in [Nodes -> Outcomes]
    /\ waiting \in [Nodes -> SUBSET Lossiness] /\ lasted \in [Nodes -> Nat]

(***************************************************************************)
(* The time that the pass in progress has read, or the next pass will.     *)
(***************************************************************************)
Time == IF pass.busy THEN pass.start ELSE now

(***************************************************************************)
(* A bucket holds at most its capacity, was refilled no later than that    *)
(* and is not empty before its first use.                                  *)
(***************************************************************************)
InUse(b, c) == b.tokens <= c.capacity /\ b.updated <= Time /\ (b.updated = 0 => b.tokens >= 1)

Bounded ==
    /\ \A l \in Lossiness : InUse(globalBucket[l], Global[l])
    /\ \A l \in Lossiness, n \in Nodes : InUse(nodeBucket[l][n], PerNode[l])

(***************************************************************************)
(* Names identify Pods on the server and in the cache.                     *)
(***************************************************************************)
Named == \A x \in Names : pods[x].name = x /\ cpods[x].name = x

(***************************************************************************)
(* p is an earlier state of the Pod of its name: a uid is never used       *)
(* again, a resourceVersion neither, and together they identify the state. *)
(***************************************************************************)
Past(p, q) ==
    /\ p.uid <= q.uid
    /\ (p.uid = q.uid /\ p.exists /\ q.exists) =>
          p.version <= q.version /\ (p.version = q.version => p = q)

InHand == pass.todo \cup pass.call

Snapshot ==
    /\ \A x \in Names : Past(cpods[x], pods[x])
    /\ \A p \in InHand : Past(p, pods[p.name])

(***************************************************************************)
(* What a pass has in hand was listed for its Node, one Pod per name; what *)
(* it calls for was judged evictable by an enforcing policy; and a pass    *)
(* with an outcome of its own judges nothing.                              *)
(***************************************************************************)
Listed ==
    /\ ~pass.busy => pass = NoPass
    /\ pass.busy => pass.node \in Nodes
    /\ \A p \in InHand : p.exists /\ p.node = pass.node
    /\ \A p, q \in InHand : p.name = q.name => p = q
    /\ \A p \in pass.call : evictionDecision(p) /\ mode = "enforce"
    /\ pass.outcome # "" => InHand = {} /\ pass.requeueAfter = 0
    /\ pass.blocked \/ pass.deferred # {} => pass.requeueAfter # 0 /\ mode = "enforce"

(***************************************************************************)
(* The ledger: one incarnation of a Pod, the one in hand if there is one,  *)
(* and nothing under a policy that does not enforce.                       *)
(***************************************************************************)
Ledger ==
    /\ OneEntryPerPod
    /\ \A p \in InHand : \A k \in DOMAIN retries :
          (k.node = pass.node /\ k.name = p.name) => k = retryKey(p)
    /\ mode # "enforce" => retries = << >>

(***************************************************************************)
(* As long as the backoff or the API forbids a call, counted from the      *)
(* start of the pass that was refused, the ledger does.                    *)
(***************************************************************************)
Backoff ==
    \A k \in DOMAIN asked :
        due(asked[k]) > Time => k \in DOMAIN retries /\ due(asked[k]) <= retries[k]

(***************************************************************************)
(* The pass in progress will wake its Node for every entry of the ledger:  *)
(* each was ahead when the pass began and is either of a Pod still to be   *)
(* judged or covered by the delay so far, counted from then.               *)
(***************************************************************************)
Met ==
    (pass.busy /\ pass.node \notin queue /\ class[pass.node] = "game") =>
        \A k \in DOMAIN retries : k.node = pass.node =>
            /\ retries[k] > pass.start
            /\ \/ \E p \in pass.todo : k = retryKey(p)
               \/ pass.blocked /\ pass.start + pass.requeueAfter <= retries[k]

(***************************************************************************)
(* And no Pod it found rate-limited can be called for before that delay.   *)
(***************************************************************************)
Awaits ==
    \A l \in pass.deferred : \A t \in pass.start..(pass.start + pass.requeueAfter - 1) :
        ~CanTake(l, pass.node, t)

(***************************************************************************)
(* The inductive invariant.                                                *)
(***************************************************************************)
IInv == Typed /\ Bounded /\ Named /\ Snapshot /\ Listed /\ Ledger /\ Backoff /\ Met /\ Awaits
        /\ WokenInTime /\ ConditionHonest

----------------------------------------------------------------------------
(***************************************************************************)
(* The pass goes on with these Pods left to judge and to call for, this    *)
(* delay, these classes waiting for the budget, blocked or not.            *)
(***************************************************************************)
Moves(todo, call, wait, deferred, blocked) ==
    /\ pass' \in PassType
    /\ pass'.busy = pass.busy /\ pass'.node = pass.node /\ pass'.start = pass.start
    /\ pass'.outcome = pass.outcome
    /\ pass'.todo = todo /\ pass'.call = call
    /\ pass'.requeueAfter = wait /\ pass'.deferred = deferred /\ pass'.blocked = blocked

(***************************************************************************)
(* That time is not in the future, and in a pass it is the start.          *)
(***************************************************************************)
LEMMA TimeType ==
    ASSUME Typed
    PROVE  /\ Time \in Nat \ {0} /\ Time <= now
           /\ pass.busy => Time = pass.start
<1>1. pass.busy \in BOOLEAN /\ pass.start \in Nat
  BY DEF Typed, PassType
<1>2. now \in Nat \ {0} /\ (pass.busy => pass.start # 0 /\ pass.start <= now)
  BY Zenon DEF Typed
<1> QED
  BY <1>1, <1>2 DEF Time

(***************************************************************************)
(* A delay is a natural number, and a further wait only shortens it.       *)
(***************************************************************************)
LEMMA RetryAfter ==
    ASSUME NEW wait \in Nat, NEW delay \in Nat
    PROVE  /\ retryAfter(wait, delay) \in Nat
           /\ wait # 0 => retryAfter(wait, delay) # 0 /\ retryAfter(wait, delay) <= wait
           /\ delay # 0 => retryAfter(wait, delay) # 0 /\ retryAfter(wait, delay) <= delay
BY DEF retryAfter

(***************************************************************************)
(* What a pass holds when it begins: Pods listed in the cache.             *)
(***************************************************************************)
LEMMA BeginPass ==
    ASSUME Typed, NEW n \in Nodes, Begin(n)
    PROVE  /\ pass' \in PassType
           /\ pass'.busy = TRUE /\ pass'.node = n /\ pass'.start = now
           /\ pass'.outcome = inactive(n)
           /\ \A p : p \in pass'.todo <=>
                    /\ \E x \in Names : p = cpods[x]
                    /\ p.exists /\ p.node = n
                    /\ inactive(n) = "" /\ (class[n] = "game" \/ p.lossy)
           /\ pass'.call = {} /\ pass'.requeueAfter = 0
           /\ pass'.deferred = {} /\ pass'.blocked = FALSE
<1> DEFINE listed == {p \in {cpods[x] : x \in Names} : p.exists /\ p.node = n}
           todo == {p \in listed : inactive(n) = "" /\ (class[n] = "game" \/ p.lossy)}
<1>1. pass' = [NoPass EXCEPT !.busy = TRUE, !.node = n, !.start = now, !.outcome = inactive(n),
                             !.todo = todo]
  BY DEF Begin
<1>2. pass' = [[[[[NoPass EXCEPT !.busy = TRUE] EXCEPT !.node = n] EXCEPT !.start = now]
                 EXCEPT !.outcome = inactive(n)] EXCEPT !.todo = todo]
  BY <1>1, Zenon DEF NoPass
<1>3. todo \in SUBSET PodType
  <2>1. \A x \in Names : cpods[x] \in PodType
    BY DEF Typed
  <2> QED
    BY <2>1, Zenon
<1>4. inactive(n) \in {"", "Disabled", "Inactive"} /\ now \in Nat
  BY DEF inactive, Typed
<1>5. \A p : p \in todo <=> /\ \E x \in Names : p = cpods[x]
                            /\ p.exists /\ p.node = n
                            /\ inactive(n) = "" /\ (class[n] = "game" \/ p.lossy)
  BY Zenon
<1> HIDE DEF todo
<1> QED
  BY <1>2, <1>3, <1>4, <1>5 DEF NoPass, PassType

(***************************************************************************)
(* A Pod that is passed over leaves the pass.                              *)
(***************************************************************************)
LEMMA SkipPass ==
    ASSUME Typed, NEW p \in pass.todo, Skip(p) \/ Audit(p)
    PROVE  Moves(pass.todo \ {p}, pass.call, pass.requeueAfter, pass.deferred, pass.blocked)
<1>1. pass \in PassType
  BY DEF Typed
<1>2. CASE Skip(p)
  BY <1>1, <1>2 DEF Skip, Judged, Moves, PassType
<1>3. CASE Audit(p)
  BY <1>1, <1>3 DEF Audit, Judged, Moves, PassType
<1> QED
  BY <1>2, <1>3

(***************************************************************************)
(* A Pod that is held back leaves the pass blocked.                        *)
(***************************************************************************)
LEMMA HoldPass ==
    ASSUME Typed, NEW p \in pass.todo, HoldBack(p)
    PROVE  LET delay == retries[retryKey(p)] - pass.start
           IN  /\ delay \in Nat \ {0}
               /\ Moves(pass.todo \ {p}, pass.call, retryAfter(pass.requeueAfter, delay),
                        pass.deferred, TRUE)
<1> DEFINE delay == retries[retryKey(p)] - pass.start
           wait == retryAfter(pass.requeueAfter, delay)
<1>1. delay \in Nat \ {0}
  <2>1. pass.start \in Nat
    BY DEF Typed, PassType
  <2> QED
    BY <2>1 DEF HoldBack, heldBack, Typed
<1>2. Judged(p) \in PassType /\ pass \in PassType
  BY DEF Judged, PassType, Typed
<1>3. pass' = [[Judged(p) EXCEPT !.blocked = TRUE]
                          EXCEPT !.requeueAfter = retryAfter(Judged(p).requeueAfter, delay)]
  <2>1. pass' = [Judged(p) EXCEPT !.blocked = TRUE, !.requeueAfter = retryAfter(@, delay)]
    BY DEF HoldBack
  <2> QED
    BY <2>1, <1>2, Zenon DEF PassType
<1>4. Judged(p).requeueAfter = pass.requeueAfter
  BY <1>2 DEF Judged, PassType
<1>5. wait \in Nat
  BY <1>1, <1>2, RetryAfter DEF PassType
<1>6. pass' = [[Judged(p) EXCEPT !.blocked = TRUE] EXCEPT !.requeueAfter = wait]
  BY <1>3, <1>4
<1> HIDE DEF delay, wait
<1>7. Moves(pass.todo \ {p}, pass.call, wait, pass.deferred, TRUE)
  BY <1>2, <1>5, <1>6 DEF Judged, Moves, PassType
<1> QED
  BY <1>1, <1>7 DEF delay, wait

(***************************************************************************)
(* A Pod that may be called for is in the call; one that may not waits at  *)
(* least one unit, for the budget of its class.                            *)
(***************************************************************************)
LEMMA TakePass ==
    ASSUME Typed, NEW p \in pass.todo, tryTake(p),
           NEW r, r = taken(nodeBucket[p.lossy][p.node], globalBucket[p.lossy],
                            PerNode[p.lossy], Global[p.lossy], pass.start),
           r.wait \in Nat
    PROVE  /\ r.ok => Moves(pass.todo \ {p}, {p}, pass.requeueAfter, pass.deferred, pass.blocked)
           /\ ~r.ok => Moves(pass.todo \ {p}, {}, retryAfter(pass.requeueAfter, r.wait),
                             pass.deferred \cup {p.lossy}, pass.blocked)
<1>1. Judged(p) \in PassType /\ pass \in PassType /\ p \in PodType /\ p.lossy \in Lossiness
  BY DEF Judged, PassType, Typed, PodType, Lossiness
<1>2. CASE r.ok
  <2>1. pass' = [Judged(p) EXCEPT !.call = {p}, !.attempted = TRUE]
    BY <1>2 DEF tryTake
  <2>2. pass' = [[Judged(p) EXCEPT !.call = {p}] EXCEPT !.attempted = TRUE]
    BY <2>1, <1>1, Zenon DEF PassType
  <2>3. Moves(pass.todo \ {p}, {p}, pass.requeueAfter, pass.deferred, pass.blocked)
    BY <1>1, <2>2 DEF Judged, Moves, PassType
  <2> QED
    BY <1>2, <2>3
<1>3. CASE ~r.ok
  <2>1. pass' = [Judged(p) EXCEPT !.requeueAfter = retryAfter(@, r.wait),
                                  !.deferred = @ \cup {p.lossy}]
    BY <1>3 DEF tryTake
  <2>2. pass' = [[Judged(p) EXCEPT !.requeueAfter = retryAfter(Judged(p).requeueAfter, r.wait)]
                            EXCEPT !.deferred = Judged(p).deferred \cup {p.lossy}]
    BY <2>1, <1>1, Zenon DEF PassType
  <2>3. Judged(p).requeueAfter = pass.requeueAfter /\ Judged(p).deferred = pass.deferred
    BY <1>1 DEF Judged, PassType
  <2>4. retryAfter(pass.requeueAfter, r.wait) \in Nat
    BY <1>1, RetryAfter DEF PassType
  <2> DEFINE wait == retryAfter(pass.requeueAfter, r.wait)
             waits == pass.deferred \cup {p.lossy}
  <2>5. pass' = [[Judged(p) EXCEPT !.requeueAfter = wait] EXCEPT !.deferred = waits]
    BY <2>2, <2>3
  <2>6. waits \in SUBSET Lossiness /\ wait \in Nat /\ pass.call = {}
    BY <1>1, <2>4 DEF PassType, tryTake, Judging
  <2> HIDE DEF wait, waits
  <2>7. Moves(pass.todo \ {p}, {}, wait, waits, pass.blocked)
    BY <1>1, <2>5, <2>6 DEF Judged, Moves, PassType
  <2> QED
    BY <1>3, <2>7 DEF wait, waits
<1> QED
  BY <1>2, <1>3

(***************************************************************************)
(* An accepted call is over.                                               *)
(***************************************************************************)
LEMMA AcceptedPass ==
    ASSUME Typed, NEW p \in pass.call, Accepted(p)
    PROVE  Moves(pass.todo, {}, pass.requeueAfter, pass.deferred, pass.blocked)
BY DEF Typed, Accepted, Moves, PassType

(***************************************************************************)
(* The jitter is a delay.                                                  *)
(***************************************************************************)
Jitter == \A k \in KeyType : retryJitter(k) \in Nat

(***************************************************************************)
(* A refused call leaves the pass blocked, for at least the backoff.       *)
(***************************************************************************)
LEMMA RefusedPass ==
    ASSUME Typed, Jitter, NEW p \in pass.call, NEW hint \in Hints, Refused(p, hint),
           retryKey(p) \in KeyType
    PROVE  LET delay == blockedRetryDelay(retryKey(p), hint)
           IN  /\ delay \in Nat \ {0} /\ longer(RetryBackoff, hint) \in Nat
               /\ longer(RetryBackoff, hint) <= delay
               /\ Moves(pass.todo, {}, retryAfter(pass.requeueAfter, delay), pass.deferred, TRUE)
<1> DEFINE delay == blockedRetryDelay(retryKey(p), hint)
           wait == retryAfter(pass.requeueAfter, delay)
<1>1. /\ delay \in Nat \ {0} /\ longer(RetryBackoff, hint) \in Nat
      /\ longer(RetryBackoff, hint) <= delay
  BY EvictionAssumption DEF Jitter, blockedRetryDelay, longer
<1>2. pass \in PassType
  BY DEF Typed
<1>3. pass' = [[[pass EXCEPT !.call = {}] EXCEPT !.blocked = TRUE] EXCEPT !.requeueAfter = wait]
  <2>1. pass' = [pass EXCEPT !.call = {}, !.blocked = TRUE, !.requeueAfter = retryAfter(@, delay)]
    BY DEF Refused
  <2> QED
    BY <2>1, <1>2, Zenon DEF PassType
<1>4. wait \in Nat
  BY <1>1, <1>2, RetryAfter DEF PassType
<1> HIDE DEF delay, wait
<1>5. Moves(pass.todo, {}, wait, pass.deferred, TRUE)
  BY <1>2, <1>3, <1>4 DEF Moves, PassType
<1> QED
  BY <1>1, <1>5 DEF delay, wait

(***************************************************************************)
(* A pass that ends leaves nothing in hand.                                *)
(***************************************************************************)
LEMMA EndPass ==
    NoPass \in PassType
BY DEF NoPass, PassType

----------------------------------------------------------------------------
(***************************************************************************)
(* q2 follows q under the same name: a new uid, a new resourceVersion, or  *)
(* the Pod is gone.                                                        *)
(***************************************************************************)
Newer(q, q2) ==
    /\ q2.name = q.name
    /\ \/ q2.uid > q.uid
       \/ q2.uid = q.uid /\ (q2.exists => q.exists /\ q2.version > q.version)

(***************************************************************************)
(* A Pod with other gates and a later version is newer.                    *)
(***************************************************************************)
LEMMA Later ==
    ASSUME NEW q \in PodType, q.exists, NEW gates \in SUBSET Gates,
           NEW version \in Nat, version > q.version
    PROVE  LET q2 == [[q EXCEPT !.gates = gates] EXCEPT !.version = version]
           IN  q2 \in PodType /\ Newer(q, q2)
BY DEF PodType, Newer

(***************************************************************************)
(* Every write of others replaces a Pod by a newer one.                    *)
(***************************************************************************)
LEMMA Written ==
    ASSUME Typed, Named, NEW x \in Names,
           \/ \E n \in Nodes, lossy \in Lossiness, gates \in SUBSET Gates : Create(x, n, lossy, gates)
           \/ \E lossy \in Lossiness, gates \in SUBSET Gates : Change(x, lossy, gates)
           \/ Remove(x)
    PROVE  \E p \in PodType : PodWrite(x, p) /\ Newer(pods[x], p)
<1>1. pods[x] \in PodType /\ pods[x].name = x
  BY DEF Typed, Named
<1>2. ASSUME NEW n \in Nodes, NEW lossy \in Lossiness, NEW gates \in SUBSET Gates,
             Create(x, n, lossy, gates)
      PROVE  \E p \in PodType : PodWrite(x, p) /\ Newer(pods[x], p)
  <2> DEFINE p == [name |-> x, uid |-> pods[x].uid + 1, version |-> 0, exists |-> TRUE,
                   node |-> n, lossy |-> lossy, gates |-> gates]
  <2>1. p \in PodType /\ Newer(pods[x], p)
    BY <1>1 DEF PodType, Newer, Lossiness
  <2>2. PodWrite(x, p)
    BY <1>2 DEF Create
  <2> QED
    BY <2>1, <2>2, Zenon
<1>3. ASSUME NEW lossy \in Lossiness, NEW gates \in SUBSET Gates, Change(x, lossy, gates)
      PROVE  \E p \in PodType : PodWrite(x, p) /\ Newer(pods[x], p)
  <2> DEFINE p == [[[pods[x] EXCEPT !.lossy = lossy] EXCEPT !.gates = gates] EXCEPT !.version = @ + 1]
  <2>1. p = [pods[x] EXCEPT !.lossy = lossy, !.gates = gates, !.version = @ + 1]
    BY <1>1, Zenon DEF PodType
  <2>2. PodWrite(x, p)
    BY <1>3, <2>1 DEF Change
  <2> DEFINE q == [pods[x] EXCEPT !.lossy = lossy]
  <2>3. q \in PodType /\ q.name = pods[x].name /\ q.uid = pods[x].uid
        /\ q.version = pods[x].version /\ q.exists = pods[x].exists
    BY <1>1 DEF PodType, Lossiness
  <2>4. q.exists /\ q.version + 1 \in Nat /\ q.version + 1 > q.version
    <3>1. pods[x].exists
      BY <1>3, Zenon DEF Change
    <3> QED
      BY <2>3, <3>1 DEF PodType
  <2>5. p = [[q EXCEPT !.gates = gates] EXCEPT !.version = q.version + 1]
    BY <2>3 DEF PodType
  <2> HIDE DEF q, p
  <2>6. p \in PodType /\ Newer(q, p)
    BY <2>3, <2>4, <2>5, Later
  <2>7. Newer(pods[x], p)
    BY <2>3, <2>6 DEF Newer
  <2> QED
    BY <2>2, <2>6, <2>7, Zenon
<1>4. CASE Remove(x)
  <2> DEFINE p == [NoPod(x) EXCEPT !.uid = pods[x].uid]
  <2>1. PodWrite(x, p)
    BY <1>4 DEF Remove
  <2>2. p \in PodType /\ Newer(pods[x], p)
    BY <1>1 DEF PodType, Newer, NoPod
  <2> QED
    BY <2>1, <2>2, Zenon
<1> QED
  BY <1>2, <1>3, <1>4

(***************************************************************************)
(* So does an accepted eviction.                                           *)
(***************************************************************************)
LEMMA EvictedPod ==
    ASSUME Typed, Named, NEW p \in pass.call, preconditions(p)
    PROVE  /\ p.name \in Names
           /\ \E q \in PodType : evicted(p) = [pods EXCEPT ![p.name] = q] /\ Newer(pods[p.name], q)
<1>1. p.name \in Names /\ pods[p.name] \in PodType /\ pods[p.name].name = p.name
  BY DEF Typed, Named, PassType, PodType
<1> DEFINE q == [[pods[p.name] EXCEPT !.gates = pods[p.name].gates \cup {"terminating"}]
                            EXCEPT !.version = pods[p.name].version + 1]
<1>2. /\ pods[p.name].exists /\ pods[p.name].gates \cup {"terminating"} \in SUBSET Gates
      /\ pods[p.name].version + 1 \in Nat /\ pods[p.name].version + 1 > pods[p.name].version
  BY <1>1 DEF PodType, Gates, preconditions
<1>3. q \in PodType /\ Newer(pods[p.name], q)
  BY <1>1, <1>2, Later
<1>4. evicted(p) = [pods EXCEPT ![p.name] = q]
  <2>1. evicted(p) = [[pods EXCEPT ![p.name].gates = @ \cup {"terminating"}]
                             EXCEPT ![p.name].version = @ + 1]
    BY Zenon DEF evicted
  <2> QED
    BY <1>1, <2>1 DEF PodType, Typed
<1> QED
  BY <1>1, <1>2, <1>3, <1>4, Zenon

(***************************************************************************)
(* The steps, with the writes of others summarised.                        *)
(***************************************************************************)
LEMMA Steps ==
    ASSUME Typed, Named, [Next]_vars
    PROVE  \/ \E n \in Nodes : Begin(n) \/ FireTimer(n) \/ \E c \in Classes : Notify(n, c)
           \/ \E p \in pass.todo : Skip(p) \/ Audit(p) \/ HoldBack(p) \/ tryTake(p)
           \/ \E p \in pass.call : Accepted(p) \/ \E hint \in Hints : Refused(p, hint)
           \/ Finish \/ FinishFails \/ Restart \/ SyncPods \/ Tick \/ UNCHANGED vars
           \/ \E x \in Names, p \in PodType : PodWrite(x, p) /\ Newer(pods[x], p)
<1>1. CASE Next
  <2>1. CASE Environment
    <3>1. CASE \E n \in Nodes, c \in Classes : Notify(n, c)
      BY <3>1
    <3>2. ASSUME NEW x \in Names,
           \/ \E n \in Nodes, lossy \in Lossiness, gates \in SUBSET Gates : Create(x, n, lossy, gates)
           \/ \E lossy \in Lossiness, gates \in SUBSET Gates : Change(x, lossy, gates)
           \/ Remove(x)
          PROVE \E p \in PodType : PodWrite(x, p) /\ Newer(pods[x], p)
      BY <3>2, Written
    <3> QED
      BY <2>1, <3>1, <3>2 DEF Environment
  <2>2. CASE Work
    BY <2>2 DEF Work
  <2> QED
    BY <1>1, <2>1, <2>2 DEF Next
<1>2. CASE UNCHANGED vars
  BY <1>2
<1> QED
  BY <1>1, <1>2

(***************************************************************************)
(* What tryTake does to the buckets of a Node: both are refilled, then     *)
(* spent from or not.                                                      *)
(***************************************************************************)
LEMMA TakeBuckets ==
    ASSUME Typed, Bounded, pass.busy, NEW l \in Lossiness, NEW n \in Nodes,
           NEW o, o = refill(nodeBucket[l][n], PerNode[l], pass.start),
           NEW g, g = refill(globalBucket[l], Global[l], pass.start),
           NEW r, r = taken(nodeBucket[l][n], globalBucket[l], PerNode[l], Global[l], pass.start)
    PROVE  /\ o \in BucketType /\ g \in BucketType
           /\ o.updated = pass.start /\ g.updated = pass.start
           /\ r.own \in BucketType /\ InUse(r.own, PerNode[l])
           /\ r.all \in BucketType /\ InUse(r.all, Global[l])
           /\ r.ok \in BOOLEAN /\ (r.ok <=> (o.tokens >= 1 /\ g.tokens >= 1))
           /\ ~r.ok => r.own = o /\ r.all = g /\ r.wait = takeWait(o, g, PerNode[l], Global[l])
           /\ r.wait \in Nat
<1>1. /\ nodeBucket[l][n] \in BucketType /\ globalBucket[l] \in BucketType
      /\ PerNode[l] \in ClassType /\ Global[l] \in ClassType
      /\ pass.start \in Nat \ {0} /\ Time = pass.start
      /\ InUse(nodeBucket[l][n], PerNode[l]) /\ InUse(globalBucket[l], Global[l])
  BY EvictionAssumption, TimeType DEF Typed, Bounded
<1>2. /\ o \in BucketType /\ o.tokens <= PerNode[l].capacity /\ o.updated = pass.start
      /\ g \in BucketType /\ g.tokens <= Global[l].capacity /\ g.updated = pass.start
  BY <1>1, RefillType DEF InUse
<1>3. r = IF o.tokens >= 1 /\ g.tokens >= 1
          THEN [ok |-> TRUE, own |-> [o EXCEPT !.tokens = @ - 1],
                all |-> [g EXCEPT !.tokens = @ - 1], wait |-> 0]
          ELSE [ok |-> FALSE, own |-> o, all |-> g, wait |-> takeWait(o, g, PerNode[l], Global[l])]
  BY DEF taken
<1>4. CASE o.tokens >= 1 /\ g.tokens >= 1
  <2>1. r.ok = TRUE /\ r.own = [o EXCEPT !.tokens = @ - 1] /\ r.all = [g EXCEPT !.tokens = @ - 1]
        /\ r.wait = 0
    BY <1>3, <1>4
  <2>2. r.own \in BucketType /\ r.own.tokens = o.tokens - 1 /\ r.own.updated = pass.start
    BY <1>2, <1>4, <2>1 DEF BucketType
  <2>3. r.all \in BucketType /\ r.all.tokens = g.tokens - 1 /\ r.all.updated = pass.start
    BY <1>2, <1>4, <2>1 DEF BucketType
  <2>4. InUse(r.own, PerNode[l]) /\ InUse(r.all, Global[l])
    BY <1>1, <1>2, <2>2, <2>3 DEF InUse, BucketType, ClassType
  <2>5. r.wait \in Nat
    BY <2>1
  <2> QED
    BY <1>2, <1>4, <2>1, <2>2, <2>3, <2>4, <2>5, Zenon
<1>5. CASE ~(o.tokens >= 1 /\ g.tokens >= 1)
  <2>1. r.ok = FALSE /\ r.own = o /\ r.all = g /\ r.wait = takeWait(o, g, PerNode[l], Global[l])
    BY <1>3, <1>5
  <2>2. r.wait \in Nat
    BY <1>1, <1>2, <1>5, <2>1, TakeWait
  <2>3. InUse(o, PerNode[l]) /\ InUse(g, Global[l])
    BY <1>1, <1>2 DEF InUse
  <2> QED
    BY <1>2, <1>5, <2>1, <2>2, <2>3
<1> QED
  BY <1>4, <1>5

----------------------------------------------------------------------------
(***************************************************************************)
(* A Pod in hand is a Pod of the Node of a pass in progress.               *)
(***************************************************************************)
LEMMA InHandType ==
    ASSUME Typed, Listed, NEW p \in InHand
    PROVE  /\ p \in PodType /\ p.name \in Names /\ p.lossy \in Lossiness
           /\ pass.busy /\ p.node = pass.node /\ p.node \in Nodes
           /\ retryKey(p) \in KeyType
<1>1. p \in PodType
  BY DEF Typed, PassType, InHand
<1>2. pass.busy
  <2>1. NoPass.todo = {} /\ NoPass.call = {}
    BY DEF NoPass
  <2>2. pass # NoPass
    BY <2>1 DEF InHand
  <2> QED
    BY <2>2 DEF Listed
<1>3. p.name \in Names /\ p.lossy \in Lossiness /\ p.uid \in Nat
  BY <1>1 DEF PodType, Lossiness
<1>4. p.node = pass.node /\ pass.node \in Nodes
  BY <1>2 DEF Listed
<1>5. retryKey(p) \in KeyType
  BY <1>3, <1>4 DEF retryKey, KeyType
<1> QED
  BY <1>1, <1>2, <1>3, <1>4, <1>5

(***************************************************************************)
(* Deadlines, by retry key.                                                *)
(***************************************************************************)
Deadlines(f) == DOMAIN f \subseteq KeyType /\ \A k \in DOMAIN f : f[k] \in Nat

(***************************************************************************)
(* What was asked for, by retry key.                                       *)
(***************************************************************************)
Asks(f) == DOMAIN f \subseteq KeyType /\ \A k \in DOMAIN f : f[k] \in AskType

(***************************************************************************)
(* Removing entries and adding one leaves a function from keys to times.   *)
(***************************************************************************)
LEMMA DeadlinesKept ==
    ASSUME NEW f, Deadlines(f)
    PROVE  /\ \A keys : Deadlines(without(f, keys))
           /\ \A n, live : Deadlines(prune(f, n, live))
           /\ \A k \in KeyType, t \in Nat : Deadlines(with(f, k, t))
           /\ Deadlines(<< >>)
<1>1. \A keys : Deadlines(without(f, keys))
  BY DEF Deadlines, without
<1>2. \A n, live : Deadlines(prune(f, n, live))
  BY <1>1 DEF prune
<1>3. \A k \in KeyType, t \in Nat : Deadlines(with(f, k, t))
  BY DEF Deadlines, with
<1>4. Deadlines(<< >>)
  BY DEF Deadlines
<1> QED
  BY <1>1, <1>2, <1>3, <1>4

(***************************************************************************)
(* The same of what was asked for.                                         *)
(***************************************************************************)
LEMMA AsksKept ==
    ASSUME NEW f, Asks(f)
    PROVE  /\ \A keys : Asks(without(f, keys))
           /\ \A k \in KeyType, a \in AskType : Asks(with(f, k, a))
           /\ Asks(<< >>)
<1>1. \A keys : Asks(without(f, keys))
  BY DEF Asks, without
<1>2. \A k \in KeyType, a \in AskType : Asks(with(f, k, a))
  BY DEF Asks, with
<1>3. Asks(<< >>)
  BY DEF Asks
<1> QED
  BY <1>1, <1>2, <1>3

(***************************************************************************)
(* The types hold initially.                                               *)
(***************************************************************************)
LEMMA TypedInit == Init => Typed /\ Bounded
<1> SUFFICES ASSUME Init PROVE Typed /\ Bounded
  OBVIOUS
<1>1. PICK running \in [Names -> PodType] : InitWith(running)
  BY DEF Init
<1>2. \A c \in ClassType : full(c) \in BucketType /\ InUse(full(c), c)
  <2>1. Time = 1
    BY <1>1 DEF InitWith, Time, NoPass
  <2> QED
    BY <2>1 DEF full, BucketType, ClassType, InUse
<1>3. /\ \A l \in Lossiness : globalBucket[l] = full(Global[l])
      /\ \A l \in Lossiness, n \in Nodes : nodeBucket[l][n] = full(PerNode[l])
  BY <1>1 DEF InitWith
<1>4. Bounded
  BY <1>2, <1>3, EvictionAssumption DEF Bounded
<1>5. /\ nodeBucket \in [Lossiness -> [Nodes -> BucketType]]
      /\ globalBucket \in [Lossiness -> BucketType]
  BY <1>1, <1>2, EvictionAssumption DEF InitWith
<1>6. /\ now \in Nat \ {0} /\ pods \in [Names -> PodType] /\ cpods \in [Names -> PodType]
      /\ class \in [Nodes -> Classes] /\ Deadlines(retries) /\ Asks(asked)
      /\ queue \subseteq Nodes /\ timer \in [Nodes -> Nat]
      /\ mode \in Modes /\ shown \in [Nodes -> Outcomes]
      /\ waiting \in [Nodes -> SUBSET Lossiness] /\ lasted \in [Nodes -> Nat]
  BY <1>1 DEF InitWith, Deadlines, Asks, Outcomes
<1>7. pass \in PassType /\ (\A p, q \in pass.call : p = q) /\ pass.busy = FALSE
  BY <1>1, EndPass DEF InitWith, NoPass
<1> QED
  BY <1>4, <1>5, <1>6, <1>7 DEF Typed, Deadlines, Asks

(***************************************************************************)
(* Every step keeps the types.                                             *)
(***************************************************************************)
LEMMA TypedNext ==
    ASSUME Jitter, Typed, Bounded, Named, Listed, [Next]_vars
    PROVE  Typed'
<1>a. /\ now \in Nat \ {0} /\ pods \in [Names -> PodType] /\ cpods \in [Names -> PodType]
      /\ class \in [Nodes -> Classes]
      /\ nodeBucket \in [Lossiness -> [Nodes -> BucketType]]
      /\ globalBucket \in [Lossiness -> BucketType]
      /\ Deadlines(retries) /\ Asks(asked)
      /\ queue \subseteq Nodes /\ timer \in [Nodes -> Nat]
      /\ pass \in PassType /\ \A p, q \in pass.call : p = q
      /\ mode \in Modes /\ shown \in [Nodes -> Outcomes]
      /\ waiting \in [Nodes -> SUBSET Lossiness] /\ lasted \in [Nodes -> Nat]
      /\ pass.busy => pass.start # 0 /\ pass.start <= now
  BY DEF Typed, Deadlines, Asks, Asks
<1>b. /\ \A p \in pass.todo \cup pass.call : retryKey(p) \in KeyType
      /\ \A keys : Deadlines(without(retries, keys)) /\ Asks(without(asked, keys))
      /\ \A n, live : Deadlines(prune(retries, n, live))
      /\ Deadlines(<< >>) /\ Asks(<< >>)
  BY <1>a, InHandType, DeadlinesKept, AsksKept DEF InHand
<1>1. ASSUME NEW n \in Nodes, Begin(n) PROVE Typed'
  <2>1. pass' \in PassType /\ pass'.call = {} /\ pass'.start = now
    BY <1>1, BeginPass
  <2>2. Deadlines(retries') /\ Asks(asked')
    BY <1>1, <1>a, <1>b DEF Begin
  <2>3. queue' \subseteq Nodes /\ waiting' \in [Nodes -> SUBSET Lossiness]
    BY <1>1, <1>a DEF Begin
  <2>4. UNCHANGED <<now, pods, cpods, class, nodeBucket, globalBucket, timer, mode, shown,
                    lasted>>
    BY <1>1 DEF Begin, budgets
  <2> QED
    BY <1>a, <2>1, <2>2, <2>3, <2>4 DEF Typed, Deadlines, Asks
<1>2. ASSUME NEW p \in pass.todo, Skip(p) \/ Audit(p) PROVE Typed'
  <2>1. /\ pass' \in PassType /\ pass'.call = pass.call
        /\ pass'.busy = pass.busy /\ pass'.start = pass.start
    BY <1>2, SkipPass DEF Moves
  <2>2. Deadlines(retries') /\ Asks(asked')
    BY <1>2, <1>b DEF Skip, Audit
  <2>3. UNCHANGED <<now, pods, cpods, class, mode, shown, nodeBucket, globalBucket, queue,
                    timer, waiting, lasted>>
    BY <1>2 DEF Skip, Audit, budgets
  <2> QED
    BY <1>a, <2>1, <2>2, <2>3 DEF Typed, Deadlines, Asks
<1>3. ASSUME NEW p \in pass.todo, HoldBack(p) PROVE Typed'
  <2>1. /\ pass' \in PassType /\ pass'.call = pass.call
        /\ pass'.busy = pass.busy /\ pass'.start = pass.start
    BY <1>3, HoldPass DEF Moves
  <2>2. UNCHANGED <<now, pods, cpods, class, mode, shown, nodeBucket, globalBucket, retries,
                    queue, timer, waiting, asked, lasted>>
    BY <1>3, Zenon DEF HoldBack, budgets
  <2> QED
    BY <1>a, <2>1, <2>2 DEF Typed, Deadlines, Asks
<1>4. ASSUME NEW p \in pass.todo, tryTake(p) PROVE Typed'
  <2> DEFINE r == taken(nodeBucket[p.lossy][p.node], globalBucket[p.lossy],
                        PerNode[p.lossy], Global[p.lossy], pass.start)
  <2>1. pass.busy /\ p.lossy \in Lossiness /\ p.node \in Nodes
    BY InHandType DEF InHand
  <2>2. r.own \in BucketType /\ r.all \in BucketType /\ r.wait \in Nat /\ r.ok \in BOOLEAN
    BY <2>1, TakeBuckets
  <2>3. /\ pass' \in PassType /\ \A q1, q2 \in pass'.call : q1 = q2
        /\ pass'.start = pass.start
    BY <1>4, <2>2, TakePass DEF Moves
  <2>4. /\ nodeBucket' = [nodeBucket EXCEPT ![p.lossy][p.node] = r.own]
        /\ globalBucket' = [globalBucket EXCEPT ![p.lossy] = r.all]
    BY <1>4, Zenon DEF tryTake
  <2>5. UNCHANGED <<now, pods, cpods, class, mode, shown, retries, queue, timer, waiting,
                    asked, lasted>>
    BY <1>4, Zenon DEF tryTake
  <2> HIDE DEF r
  <2>6. /\ nodeBucket' \in [Lossiness -> [Nodes -> BucketType]]
        /\ globalBucket' \in [Lossiness -> BucketType]
    BY <1>a, <2>1, <2>2, <2>4
  <2> QED
    BY <1>a, <2>1, <2>3, <2>5, <2>6 DEF Typed, Deadlines, Asks
<1>5. ASSUME NEW p \in pass.call, Accepted(p) PROVE Typed'
  <2>1. /\ pass' \in PassType /\ pass'.call = {}
        /\ pass'.busy = pass.busy /\ pass'.start = pass.start
    BY <1>5, AcceptedPass DEF Moves
  <2>2. pods' \in [Names -> PodType]
    <3>1. preconditions(p) /\ pods' = evicted(p)
      BY <1>5 DEF Accepted
    <3> QED
      BY <1>a, <3>1, EvictedPod
  <2>3. Deadlines(retries') /\ Asks(asked')
    BY <1>5, <1>b DEF Accepted
  <2>4. UNCHANGED <<now, cpods, class, mode, shown, nodeBucket, globalBucket, queue, timer,
                    waiting, lasted>>
    BY <1>5 DEF Accepted, budgets
  <2> QED
    BY <1>a, <2>1, <2>2, <2>3, <2>4 DEF Typed, Deadlines, Asks
<1>6. ASSUME NEW p \in pass.call, NEW hint \in Hints, Refused(p, hint) PROVE Typed'
  <2> DEFINE delay == blockedRetryDelay(retryKey(p), hint)
  <2>1. /\ pass' \in PassType /\ pass'.call = {} /\ delay \in Nat
        /\ longer(RetryBackoff, hint) \in Nat
        /\ pass'.busy = pass.busy /\ pass'.start = pass.start
    BY <1>6, <1>b, RefusedPass DEF Moves
  <2>2. pods' \in [Names -> PodType]
    <3>1. pods' = pods \/ (preconditions(p) /\ pods' = evicted(p))
      BY <1>6, Zenon DEF Refused
    <3> QED
      BY <1>a, <3>1, EvictedPod
  <2>3. /\ retries' = with(retries, retryKey(p), pass.start + delay)
        /\ asked' = with(asked, retryKey(p), [until |-> now + longer(RetryBackoff, hint),
                                             ran   |-> now - pass.start])
    BY <1>6, Zenon DEF Refused
  <2>4. UNCHANGED <<now, cpods, class, mode, shown, nodeBucket, globalBucket, queue, timer,
                    waiting, lasted>>
    BY <1>6, Zenon DEF Refused, budgets
  <2> HIDE DEF delay
  <2>5. Deadlines(retries') /\ Asks(asked')
    <3>1. pass.busy /\ pass.start \in Nat
      BY <1>a, InHandType DEF InHand, PassType
    <3>2. /\ pass.start + delay \in Nat
          /\ [until |-> now + longer(RetryBackoff, hint), ran |-> now - pass.start] \in AskType
      BY <1>a, <2>1, <3>1 DEF AskType
    <3> QED
      BY <1>a, <1>b, <2>3, <3>2, DeadlinesKept, AsksKept
  <2> QED
    BY <1>a, <2>1, <2>2, <2>4, <2>5 DEF Typed, Deadlines, Asks
<1>7. CASE Finish
  <2>1. pass' = NoPass /\ UNCHANGED <<now, pods, cpods, class, mode, nodeBucket, globalBucket,
                                      retries, queue, asked>>
    BY <1>7 DEF Finish, budgets
  <2>2. classify(pass) \in Outcomes
    BY <1>a DEF classify, Outcomes, PassType
  <2>3. timer' \in [Nodes -> Nat]
    <3>1. now + pass.requeueAfter \in Nat
      <4>1. now \in Nat /\ pass.requeueAfter \in Nat
        BY <1>a DEF PassType
      <4> QED
        BY <4>1
    <3>2. timer' \in {timer, [timer EXCEPT ![pass.node] = now + pass.requeueAfter]}
      BY <1>7 DEF Finish
    <3> QED
      BY <1>a, <3>1, <3>2
  <2>4. waiting' \in [Nodes -> SUBSET Lossiness] /\ shown' \in [Nodes -> Outcomes]
    BY <1>7, <1>a, <2>2 DEF Finish, PassType
  <2>5. NoPass.call = {} /\ NoPass.busy = FALSE
    BY DEF NoPass
  <2>6. lasted' \in [Nodes -> Nat]
    <3>1. now - pass.start \in Nat
      <4>1. pass.busy /\ pass.start \in Nat
        BY <1>7, <1>a DEF Finish, Done, PassType
      <4> QED
        BY <1>a, <4>1
    <3>2. lasted' = [lasted EXCEPT ![pass.node] = now - pass.start]
      BY <1>7, Zenon DEF Finish
    <3> QED
      BY <1>a, <3>1, <3>2
  <2> QED
    BY <1>a, <2>1, <2>3, <2>4, <2>5, <2>6, EndPass DEF Typed, Deadlines, Asks
<1>8. CASE FinishFails
  <2>1. pass' = NoPass /\ NoPass.call = {} /\ NoPass.busy = FALSE
    BY <1>8 DEF FinishFails, NoPass
  <2>2. pass.node \in Nodes
    BY <1>8 DEF FinishFails, Done, Listed
  <2> QED
    BY <1>8, <1>a, <2>1, <2>2, EndPass DEF FinishFails, Typed, Deadlines, Asks, budgets
<1>9. ASSUME NEW n \in Nodes, FireTimer(n) PROVE Typed'
  BY <1>9, <1>a DEF FireTimer, Typed, Deadlines, Asks, budgets
<1>10. CASE Restart
  <2>1. pass' = NoPass /\ NoPass.call = {} /\ NoPass.busy = FALSE
    BY <1>10 DEF Restart, NoPass
  <2>2. \A c \in ClassType : full(c) \in BucketType
    BY DEF full, BucketType, ClassType
  <2>3. /\ nodeBucket' \in [Lossiness -> [Nodes -> BucketType]]
        /\ globalBucket' \in [Lossiness -> BucketType]
    BY <1>10, <2>2, EvictionAssumption DEF Restart
  <2> QED
    BY <1>10, <1>a, <1>b, <2>1, <2>3, EndPass DEF Restart, Typed, Deadlines
<1>11. CASE Tick
  <2>1. pass.start \in Nat
    BY <1>a DEF PassType
  <2>2. pass.busy => pass.start # 0 /\ pass.start <= now + 1
    BY <1>a, <2>1
  <2> QED
    BY <1>11, <1>a, <2>2 DEF Tick, Typed, Deadlines, Asks, budgets
<1>12. ASSUME NEW x \in Names, NEW p \in PodType, PodWrite(x, p) PROVE Typed'
  BY <1>12, <1>a DEF PodWrite, Typed, Deadlines, Asks, budgets
<1>13. CASE SyncPods
  BY <1>13, <1>a DEF SyncPods, Typed, Deadlines, Asks, budgets
<1>14. ASSUME NEW n \in Nodes, NEW c \in Classes, Notify(n, c) PROVE Typed'
  BY <1>14, <1>a DEF Notify, Typed, Deadlines, Asks, budgets
<1>15. CASE UNCHANGED vars
  BY <1>15, <1>a DEF vars, Typed, Deadlines, Asks, budgets
<1> QED
  BY <1>1, <1>2, <1>3, <1>4, <1>5, <1>6, <1>7, <1>8, <1>9, <1>10, <1>11, <1>12, <1>13, <1>14,
     <1>15, Steps

(***************************************************************************)
(* What tryTake leaves in hand.                                            *)
(***************************************************************************)
LEMMA TakeMoves ==
    ASSUME Typed, Bounded, Listed, NEW p \in pass.todo, tryTake(p)
    PROVE  /\ pass.call = {} /\ pass'.todo = pass.todo \ {p} /\ pass'.call \subseteq {p}
           /\ pass'.busy = pass.busy /\ pass'.node = pass.node /\ pass'.start = pass.start
           /\ pass'.outcome = pass.outcome
<1> DEFINE r == taken(nodeBucket[p.lossy][p.node], globalBucket[p.lossy],
                      PerNode[p.lossy], Global[p.lossy], pass.start)
<1>1. pass.busy /\ p.lossy \in Lossiness /\ p.node \in Nodes
  BY InHandType DEF InHand
<1>2. r.wait \in Nat /\ r.ok \in BOOLEAN
  BY <1>1, TakeBuckets
<1>3. pass.call = {}
  BY DEF tryTake, Judging
<1> HIDE DEF r
<1>4. /\ r.ok => Moves(pass.todo \ {p}, {p}, pass.requeueAfter, pass.deferred, pass.blocked)
      /\ ~r.ok => Moves(pass.todo \ {p}, {}, retryAfter(pass.requeueAfter, r.wait),
                        pass.deferred \cup {p.lossy}, pass.blocked)
  BY <1>2, TakePass DEF r
<1> QED
  BY <1>2, <1>3, <1>4 DEF Moves

(***************************************************************************)
(* What the answer to a call leaves in hand.                               *)
(***************************************************************************)
LEMMA CallMoves ==
    ASSUME Jitter, Typed, Listed, NEW p \in pass.call,
           Accepted(p) \/ \E hint \in Hints : Refused(p, hint)
    PROVE  /\ pass'.todo = pass.todo /\ pass'.call = {}
           /\ pass'.busy = pass.busy /\ pass'.node = pass.node /\ pass'.start = pass.start
           /\ pass'.outcome = pass.outcome
<1>1. retryKey(p) \in KeyType
  BY InHandType DEF InHand
<1> QED
  BY <1>1, AcceptedPass, RefusedPass DEF Moves

(***************************************************************************)
(* The time that passes read never goes back.                              *)
(***************************************************************************)
LEMMA TimeNext ==
    ASSUME Jitter, Typed, Bounded, Named, Listed, [Next]_vars
    PROVE  Time' \in Nat \ {0} /\ Time <= Time' /\ now' \in Nat /\ now <= now'
<1>a. /\ now \in Nat \ {0} /\ Time \in Nat \ {0} /\ Time <= now
      /\ ~pass.busy => Time = now
  BY TimeType DEF Typed, Time
<1>1. ASSUME now' = now, ~pass'.busy
      PROVE  Time' \in Nat \ {0} /\ Time <= Time' /\ now' \in Nat /\ now <= now'
  BY <1>a, <1>1 DEF Time
<1>2. ASSUME now' \in {now, now + 1}, pass'.busy = pass.busy, pass'.start = pass.start
      PROVE  Time' \in Nat \ {0} /\ Time <= Time' /\ now' \in Nat /\ now <= now'
  BY <1>a, <1>2 DEF Time
<1>3. ASSUME NEW n \in Nodes, Begin(n)
      PROVE  Time' \in Nat \ {0} /\ Time <= Time' /\ now' \in Nat /\ now <= now'
  <2>1. now' = now /\ ~pass.busy
    BY <1>3, Zenon DEF Begin
  <2>2. pass'.start = now
    BY <1>3, BeginPass
  <2> QED
    BY <1>a, <2>1, <2>2 DEF Time
<1>4. ASSUME NEW p \in pass.todo, Skip(p) \/ Audit(p) \/ HoldBack(p) \/ tryTake(p)
      PROVE  now' = now /\ pass'.busy = pass.busy /\ pass'.start = pass.start
  <2>1. now' = now
    BY <1>4, Zenon DEF Skip, Audit, HoldBack, tryTake
  <2> QED
    BY <1>4, <2>1, SkipPass, HoldPass, TakeMoves DEF Moves
<1>5. ASSUME NEW p \in pass.call, Accepted(p) \/ \E hint \in Hints : Refused(p, hint)
      PROVE  now' = now /\ pass'.busy = pass.busy /\ pass'.start = pass.start
  <2>1. now' = now
    BY <1>5, Zenon DEF Accepted, Refused
  <2> QED
    BY <1>5, <2>1, CallMoves
<1>6. ASSUME Finish \/ FinishFails \/ Restart PROVE now' = now /\ ~pass'.busy
  <2>1. now' = now /\ pass' = NoPass
    BY <1>6, Zenon DEF Finish, FinishFails, Restart
  <2> QED
    BY <2>1 DEF NoPass
<1>7. ASSUME SyncPods \/ Tick \/ UNCHANGED vars
      PROVE  now' \in {now, now + 1} /\ pass' = pass
  BY <1>7, Zenon DEF SyncPods, Tick, vars
<1>8. ASSUME NEW n \in Nodes, FireTimer(n) \/ \E c \in Classes : Notify(n, c)
      PROVE  now' = now /\ pass' = pass
  BY <1>8, Zenon DEF FireTimer, Notify
<1>9. ASSUME NEW x \in Names, NEW p \in PodType, PodWrite(x, p) PROVE now' = now /\ pass' = pass
  BY <1>9, Zenon DEF PodWrite
<1> QED
  BY <1>1, <1>2, <1>3, <1>4, <1>5, <1>6, <1>7, <1>8, <1>9, Steps

(***************************************************************************)
(* A refused caller is told to wait at least one unit, and until then one  *)
(* of the two refilled buckets is empty.                                   *)
(***************************************************************************)
LEMMA TakeSome ==
    ASSUME Typed, Bounded, pass.busy, NEW l \in Lossiness, NEW n \in Nodes, NEW r, ~r.ok,
           r = taken(nodeBucket[l][n], globalBucket[l], PerNode[l], Global[l], pass.start)
    PROVE  /\ r.wait # 0
           /\ \A t \in pass.start..(pass.start + r.wait - 1) :
                 refill(r.own, PerNode[l], t).tokens = 0 \/ refill(r.all, Global[l], t).tokens = 0
<1> DEFINE o == refill(nodeBucket[l][n], PerNode[l], pass.start)
           g == refill(globalBucket[l], Global[l], pass.start)
<1>1. /\ o \in BucketType /\ g \in BucketType
      /\ o.updated = pass.start /\ g.updated = pass.start
      /\ ~(o.tokens >= 1 /\ g.tokens >= 1)
      /\ r.own = o /\ r.all = g /\ r.wait = takeWait(o, g, PerNode[l], Global[l])
  BY TakeBuckets
<1>2. PerNode[l] \in ClassType /\ Global[l] \in ClassType /\ pass.start \in Nat \ {0}
  BY EvictionAssumption, TimeType
<1> HIDE DEF o, g
<1> QED
  BY <1>1, <1>2, TakeWait

(***************************************************************************)
(* Every step keeps the buckets within their capacities and up to date.    *)
(***************************************************************************)
LEMMA BoundedNext ==
    ASSUME Jitter, Typed, Bounded, Named, Listed, [Next]_vars
    PROVE  Bounded'
<1>a. Time \in Nat /\ Time' \in Nat /\ Time <= Time'
  BY TimeType, TimeNext
<1>b. \A b \in BucketType : \A c : InUse(b, c) => InUse(b, c)'
  BY <1>a DEF InUse, BucketType
<1>c. \A l \in Lossiness : globalBucket[l] \in BucketType
                           /\ \A n \in Nodes : nodeBucket[l][n] \in BucketType
  BY DEF Typed
<1>1. UNCHANGED <<nodeBucket, globalBucket>> => Bounded'
  <2> SUFFICES ASSUME UNCHANGED <<nodeBucket, globalBucket>> PROVE Bounded'
    OBVIOUS
  <2>1. /\ \A l \in Lossiness : InUse(globalBucket[l], Global[l])'
        /\ \A l \in Lossiness, n \in Nodes : InUse(nodeBucket[l][n], PerNode[l])'
    BY <1>b, <1>c DEF Bounded, InUse
  <2> QED
    BY <2>1 DEF Bounded
<1>2. ASSUME NEW p \in pass.todo, tryTake(p) PROVE Bounded'
  <2> DEFINE l == p.lossy
             n == p.node
             r == taken(nodeBucket[l][n], globalBucket[l], PerNode[l], Global[l], pass.start)
  <2>1. pass.busy /\ l \in Lossiness /\ n \in Nodes
    BY InHandType DEF InHand
  <2>2. /\ r.own \in BucketType /\ InUse(r.own, PerNode[l])
        /\ r.all \in BucketType /\ InUse(r.all, Global[l])
    BY <2>1, TakeBuckets
  <2>3. /\ nodeBucket' = [nodeBucket EXCEPT ![l][n] = r.own]
        /\ globalBucket' = [globalBucket EXCEPT ![l] = r.all]
    BY <1>2, Zenon DEF tryTake
  <2>4. /\ nodeBucket \in [Lossiness -> [Nodes -> BucketType]]
        /\ globalBucket \in [Lossiness -> BucketType]
    BY DEF Typed
  <2> HIDE DEF r, l, n
  <2>5. /\ \A k \in Lossiness : globalBucket'[k] = IF k = l THEN r.all ELSE globalBucket[k]
        /\ \A k \in Lossiness, m \in Nodes :
              nodeBucket'[k][m] = IF k = l /\ m = n THEN r.own ELSE nodeBucket[k][m]
    BY <2>1, <2>3, <2>4
  <2>6. \A k \in Lossiness : globalBucket'[k] \in BucketType /\ InUse(globalBucket'[k], Global[k])
    BY <1>c, <2>2, <2>5 DEF Bounded
  <2>7. \A k \in Lossiness, m \in Nodes :
           nodeBucket'[k][m] \in BucketType /\ InUse(nodeBucket'[k][m], PerNode[k])
    BY <1>c, <2>2, <2>5 DEF Bounded
  <2> QED
    BY <1>a, <2>6, <2>7 DEF Bounded, InUse, BucketType
<1>3. CASE Restart
  <2>1. \A c \in ClassType : full(c) \in BucketType /\ InUse(full(c), c)
    BY <1>a DEF full, BucketType, ClassType, InUse
  <2>2. \A l \in Lossiness : /\ globalBucket'[l] = full(Global[l])
                             /\ \A n \in Nodes : nodeBucket'[l][n] = full(PerNode[l])
    BY <1>3 DEF Restart
  <2>3. \A l \in Lossiness : PerNode[l] \in ClassType /\ Global[l] \in ClassType
    BY EvictionAssumption
  <2> QED
    BY <1>a, <2>1, <2>2, <2>3 DEF Bounded, InUse, BucketType
<1>4. ASSUME NEW n \in Nodes, Begin(n) \/ FireTimer(n) \/ \E c \in Classes : Notify(n, c)
      PROVE  UNCHANGED <<nodeBucket, globalBucket>>
  BY <1>4, Zenon DEF Begin, FireTimer, Notify, budgets
<1>5. ASSUME NEW p \in pass.todo, Skip(p) \/ Audit(p) \/ HoldBack(p)
      PROVE  UNCHANGED <<nodeBucket, globalBucket>>
  BY <1>5, Zenon DEF Skip, Audit, HoldBack, budgets
<1>6. ASSUME NEW p \in pass.call, Accepted(p) \/ \E hint \in Hints : Refused(p, hint)
      PROVE  UNCHANGED <<nodeBucket, globalBucket>>
  BY <1>6, Zenon DEF Accepted, Refused, budgets
<1>7. ASSUME Finish \/ FinishFails \/ SyncPods \/ Tick \/ UNCHANGED vars
      PROVE  UNCHANGED <<nodeBucket, globalBucket>>
  BY <1>7, Zenon DEF Finish, FinishFails, SyncPods, Tick, vars, budgets
<1>8. ASSUME NEW x \in Names, NEW p \in PodType, PodWrite(x, p)
      PROVE  UNCHANGED <<nodeBucket, globalBucket>>
  BY <1>8, Zenon DEF PodWrite, budgets
<1> QED
  BY <1>1, <1>2, <1>3, <1>4, <1>5, <1>6, <1>7, <1>8, Steps

(***************************************************************************)
(* What was the past of a Pod is the past of a newer Pod.                  *)
(***************************************************************************)
LEMMA PastNewer ==
    ASSUME NEW p \in PodType, NEW q \in PodType, NEW q2 \in PodType, Past(p, q), Newer(q, q2)
    PROVE  Past(p, q2)
<1>1. p.uid \in Nat /\ q.uid \in Nat /\ q2.uid \in Nat
      /\ p.version \in Nat /\ q.version \in Nat /\ q2.version \in Nat
  BY DEF PodType
<1> QED
  BY <1>1 DEF Past, Newer

(***************************************************************************)
(* Every step keeps the names, and the Pods in the cache and in hand in    *)
(* the past of those on the server.                                        *)
(***************************************************************************)
LEMMA SnapshotNext ==
    ASSUME Jitter, Typed, Bounded, Named, Snapshot, Listed, [Next]_vars
    PROVE  Named' /\ Snapshot'
<1>a. /\ pods \in [Names -> PodType] /\ cpods \in [Names -> PodType]
      /\ \A x \in Names : pods[x].name = x /\ cpods[x].name = x
      /\ \A x \in Names : Past(cpods[x], pods[x])
      /\ \A p \in InHand : p \in PodType /\ p.name \in Names /\ Past(p, pods[p.name])
  BY InHandType DEF Typed, Named, Snapshot
<1>1. ASSUME UNCHANGED <<pods, cpods>>, InHand' \subseteq InHand
      PROVE  Named' /\ Snapshot'
  BY <1>1, <1>a DEF Named, Snapshot
<1>2. ASSUME NEW x \in Names, NEW q \in PodType, Newer(pods[x], q),
             pods' = [pods EXCEPT ![x] = q], cpods' = cpods, InHand' \subseteq InHand
      PROVE  Named' /\ Snapshot'
  <2>1. q.name = x /\ \A y \in Names : pods'[y] = IF y = x THEN q ELSE pods[y]
    BY <1>2, <1>a DEF Newer
  <2>2. \A y \in Names, p \in PodType : Past(p, pods[y]) => Past(p, pods'[y])
    BY <1>2, <1>a, <2>1, PastNewer
  <2> QED
    BY <1>2, <1>a, <2>1, <2>2 DEF Named, Snapshot
<1>3. ASSUME NEW n \in Nodes, Begin(n) PROVE Named' /\ Snapshot'
  <2>1. \A p \in InHand' : \E x \in Names : p = cpods[x]
    BY <1>3, BeginPass DEF InHand
  <2>2. UNCHANGED <<pods, cpods>>
    BY <1>3, Zenon DEF Begin
  <2> QED
    BY <1>a, <2>1, <2>2 DEF Named, Snapshot
<1>4. ASSUME NEW p \in pass.todo, Skip(p) \/ Audit(p) \/ HoldBack(p)
      PROVE  UNCHANGED <<pods, cpods>> /\ InHand' \subseteq InHand
  <2>1. pass'.todo = pass.todo \ {p} /\ pass'.call = pass.call
    BY <1>4, SkipPass, HoldPass DEF Moves
  <2>2. UNCHANGED <<pods, cpods>>
    BY <1>4, Zenon DEF Skip, Audit, HoldBack
  <2> QED
    BY <2>1, <2>2 DEF InHand
<1>5. ASSUME NEW p \in pass.todo, tryTake(p)
      PROVE  UNCHANGED <<pods, cpods>> /\ InHand' \subseteq InHand
  <2>1. UNCHANGED <<pods, cpods>>
    BY <1>5, Zenon DEF tryTake
  <2>2. pass'.todo = pass.todo \ {p} /\ pass'.call \subseteq {p}
    BY <1>5, TakeMoves DEF Moves
  <2> QED
    BY <2>1, <2>2 DEF InHand
<1>6. ASSUME NEW p \in pass.call, Accepted(p) \/ \E hint \in Hints : Refused(p, hint)
      PROVE  Named' /\ Snapshot'
  <2>1. InHand' \subseteq InHand
    <3>1. pass'.todo = pass.todo /\ pass'.call = {}
      BY <1>6, CallMoves
    <3> QED
      BY <3>1 DEF InHand
  <2>2. cpods' = cpods /\ (pods' = pods \/ (preconditions(p) /\ pods' = evicted(p)))
    BY <1>6, Zenon DEF Accepted, Refused
  <2>3. CASE pods' = pods
    BY <1>1, <2>1, <2>2, <2>3
  <2>4. CASE preconditions(p) /\ pods' = evicted(p)
    <3>1. PICK q \in PodType : pods' = [pods EXCEPT ![p.name] = q] /\ Newer(pods[p.name], q)
      BY <2>4, EvictedPod
    <3>2. p.name \in Names
      BY <2>4, EvictedPod
    <3> QED
      BY <1>2, <2>1, <2>2, <3>1, <3>2
  <2> QED
    BY <2>2, <2>3, <2>4
<1>7. ASSUME Finish \/ FinishFails
      PROVE  UNCHANGED <<pods, cpods>> /\ InHand' \subseteq InHand
  <2>1. pass' = NoPass /\ UNCHANGED <<pods, cpods>>
    BY <1>7, Zenon DEF Finish, FinishFails
  <2> QED
    BY <2>1 DEF InHand, NoPass
<1>8. ASSUME Restart \/ SyncPods PROVE Named' /\ Snapshot'
  <2>1. pods' = pods /\ cpods' = pods /\ pass' \in {pass, NoPass}
    BY <1>8, Zenon DEF Restart, SyncPods
  <2>2. InHand' \subseteq InHand
    <3>1. NoPass.todo = {} /\ NoPass.call = {}
      BY DEF NoPass
    <3> QED
      BY <2>1, <3>1 DEF InHand
  <2>3. \A q \in PodType : Past(q, q)
    BY DEF Past, PodType
  <2> QED
    BY <1>a, <2>1, <2>2, <2>3 DEF Named, Snapshot
<1>9. ASSUME NEW x \in Names, NEW q \in PodType, PodWrite(x, q), Newer(pods[x], q)
      PROVE  Named' /\ Snapshot'
  <2>1. pods' = [pods EXCEPT ![x] = q] /\ cpods' = cpods /\ pass' = pass
    BY <1>9, Zenon DEF PodWrite
  <2>2. InHand' \subseteq InHand
    BY <2>1 DEF InHand
  <2> QED
    BY <1>2, <1>9, <2>1, <2>2
<1>10. ASSUME NEW n \in Nodes, FireTimer(n) \/ \E c \in Classes : Notify(n, c)
       PROVE  UNCHANGED <<pods, cpods>> /\ InHand' \subseteq InHand
  BY <1>10, Zenon DEF FireTimer, Notify, InHand
<1>11. ASSUME Tick \/ UNCHANGED vars PROVE UNCHANGED <<pods, cpods>> /\ InHand' \subseteq InHand
  BY <1>11, Zenon DEF Tick, vars, InHand
<1> QED
  BY <1>1, <1>3, <1>4, <1>5, <1>6, <1>7, <1>8, <1>9, <1>10, <1>11, Steps

(***************************************************************************)
(* A pass that has ended, or that another step leaves alone.               *)
(***************************************************************************)
LEMMA Idle ==
    pass' = NoPass => /\ pass'.busy = FALSE /\ InHand' = {} /\ pass'.call = {}
                      /\ pass'.outcome = "" /\ pass'.blocked = FALSE /\ pass'.deferred = {}
<1>1. /\ NoPass.busy = FALSE /\ NoPass.todo = {} /\ NoPass.call = {} /\ NoPass.outcome = ""
      /\ NoPass.blocked = FALSE /\ NoPass.deferred = {}
  BY DEF NoPass
<1> QED
  BY <1>1 DEF InHand

(***************************************************************************)
(* Every step keeps what a pass has in hand listed for its Node.           *)
(***************************************************************************)
LEMMA ListedNext ==
    ASSUME Jitter, Typed, Bounded, Named, Snapshot, Listed, [Next]_vars
    PROVE  Listed'
<1>a. pass \in PassType /\ (\A p \in pass.call : evictionDecision(p) /\ mode = "enforce")
  BY DEF Typed, Listed
<1>1. CASE pass' = NoPass
  BY <1>1, Idle DEF Listed
<1>2. CASE UNCHANGED <<pass, mode>>
  BY <1>2 DEF Listed, InHand, evictionDecision
<1>3. ASSUME NEW n \in Nodes, Begin(n) PROVE Listed'
  <2>1. /\ pass'.busy = TRUE /\ pass'.node = n /\ pass'.call = {} /\ pass'.outcome = inactive(n)
        /\ pass'.deferred = {} /\ pass'.blocked = FALSE /\ pass'.requeueAfter = 0
    BY <1>3, BeginPass
  <2>2. \A p \in pass'.todo : /\ \E x \in Names : p = cpods[x]
                              /\ p.exists /\ p.node = n /\ inactive(n) = ""
    BY <1>3, BeginPass
  <2>3. ASSUME NEW p \in InHand', NEW q \in InHand', p.name = q.name PROVE p = q
    <3>1. p \in pass'.todo /\ q \in pass'.todo
      BY <2>1 DEF InHand
    <3>2. PICK x \in Names : p = cpods[x]
      BY <2>2, <3>1, Zenon
    <3>3. PICK y \in Names : q = cpods[y]
      BY <2>2, <3>1, Zenon
    <3>4. x = y
      BY <2>3, <3>2, <3>3 DEF Named
    <3> QED
      BY <3>2, <3>3, <3>4
  <2> QED
    BY <2>1, <2>2, <2>3, Zenon DEF Listed, InHand
<1>4. ASSUME InHand' \subseteq InHand, pass'.busy = TRUE, pass.busy = TRUE,
             pass'.node = pass.node, pass'.outcome = pass.outcome, mode' = mode,
             \A p \in pass'.call : evictionDecision(p) /\ mode = "enforce",
             pass'.blocked \/ pass'.deferred # {} => pass'.requeueAfter # 0 /\ mode = "enforce",
             pass'.outcome # "" => pass'.requeueAfter = 0
      PROVE  Listed'
  BY <1>4, Zenon DEF Listed, InHand
<1>5. ASSUME NEW p \in pass.todo, Skip(p) \/ Audit(p) PROVE Listed'
  <2>1. Moves(pass.todo \ {p}, pass.call, pass.requeueAfter, pass.deferred, pass.blocked)
    BY <1>5, SkipPass
  <2>2. mode' = mode /\ pass.busy
    BY <1>5, Zenon DEF Skip, Audit, Judging
  <2> QED
    BY <1>4, <1>a, <2>1, <2>2 DEF Listed, InHand, Moves, PassType
<1>6. ASSUME NEW p \in pass.todo, HoldBack(p) PROVE Listed'
  <2> DEFINE wait == retryAfter(pass.requeueAfter, retries[retryKey(p)] - pass.start)
  <2>1. Moves(pass.todo \ {p}, pass.call, wait, pass.deferred, TRUE)
    BY <1>6, HoldPass
  <2>2. wait # 0
    BY <1>6, <1>a, HoldPass, RetryAfter DEF PassType
  <2>3. mode' = mode /\ mode = "enforce" /\ pass.busy
    BY <1>6, Zenon DEF HoldBack, Judging
  <2>4. pass.outcome = ""
    BY <1>6 DEF Listed, InHand
  <2> HIDE DEF wait
  <2> QED
    BY <1>4, <1>a, <2>1, <2>2, <2>3, <2>4 DEF InHand, Moves, PassType
<1>7. ASSUME NEW p \in pass.todo, tryTake(p) PROVE Listed'
  <2> DEFINE r == taken(nodeBucket[p.lossy][p.node], globalBucket[p.lossy],
                        PerNode[p.lossy], Global[p.lossy], pass.start)
             wait == retryAfter(pass.requeueAfter, r.wait)
  <2>1. pass.busy /\ p.lossy \in Lossiness /\ p.node \in Nodes
    BY InHandType DEF InHand
  <2>2. r.wait \in Nat /\ r.ok \in BOOLEAN
    BY <2>1, TakeBuckets
  <2>3. ~r.ok => r.wait # 0
    BY <2>1, TakeSome
  <2>4. /\ r.ok => Moves(pass.todo \ {p}, {p}, pass.requeueAfter, pass.deferred, pass.blocked)
        /\ ~r.ok => Moves(pass.todo \ {p}, {}, wait, pass.deferred \cup {p.lossy}, pass.blocked)
    BY <1>7, <2>2, TakePass
  <2>5. mode' = mode /\ mode = "enforce" /\ evictionDecision(p) /\ pass.busy
    BY <1>7, Zenon DEF tryTake, Judging
  <2>6. pass.outcome = ""
    BY <1>7 DEF Listed, InHand
  <2>7. ~r.ok => wait # 0
    BY <1>a, <2>2, <2>3, RetryAfter DEF PassType
  <2> HIDE DEF r, wait
  <2>8. CASE r.ok
    BY <1>4, <1>a, <2>4, <2>5, <2>6, <2>8 DEF Listed, InHand, Moves, PassType
  <2>9. CASE ~r.ok
    BY <1>4, <1>a, <2>4, <2>5, <2>6, <2>7, <2>9 DEF InHand, Moves, PassType
  <2> QED
    BY <2>8, <2>9
<1>8. ASSUME NEW p \in pass.call, Accepted(p) PROVE Listed'
  <2>1. Moves(pass.todo, {}, pass.requeueAfter, pass.deferred, pass.blocked)
    BY <1>8, AcceptedPass
  <2>2. mode' = mode /\ pass.busy
    BY <1>8, InHandType, Zenon DEF Accepted, InHand
  <2> QED
    BY <1>4, <2>1, <2>2 DEF Listed, InHand, Moves
<1>9. ASSUME NEW p \in pass.call, NEW hint \in Hints, Refused(p, hint) PROVE Listed'
  <2> DEFINE delay == blockedRetryDelay(retryKey(p), hint)
             wait == retryAfter(pass.requeueAfter, delay)
  <2>1. pass.busy /\ retryKey(p) \in KeyType
    BY InHandType DEF InHand
  <2>2. delay \in Nat \ {0} /\ Moves(pass.todo, {}, wait, pass.deferred, TRUE)
    BY <1>9, <2>1, RefusedPass
  <2>3. wait # 0
    BY <1>a, <2>2, RetryAfter DEF PassType
  <2>4. mode' = mode /\ mode = "enforce" /\ pass.outcome = ""
    BY <1>9, Zenon DEF Refused, Listed, InHand
  <2> HIDE DEF wait, delay
  <2> QED
    BY <1>4, <1>a, <2>1, <2>2, <2>3, <2>4 DEF InHand, Moves, PassType
<1>10. ASSUME Finish \/ FinishFails \/ Restart PROVE pass' = NoPass
  BY <1>10, Zenon DEF Finish, FinishFails, Restart
<1>11. ASSUME SyncPods \/ Tick \/ UNCHANGED vars PROVE UNCHANGED <<pass, mode>>
  BY <1>11, Zenon DEF SyncPods, Tick, vars
<1>12. ASSUME NEW n \in Nodes, FireTimer(n) \/ \E c \in Classes : Notify(n, c)
       PROVE  UNCHANGED <<pass, mode>>
  BY <1>12, Zenon DEF FireTimer, Notify
<1>13. ASSUME NEW x \in Names, NEW p \in PodType, PodWrite(x, p) PROVE UNCHANGED <<pass, mode>>
  BY <1>13, Zenon DEF PodWrite
<1> QED
  BY <1>1, <1>2, <1>3, <1>5, <1>6, <1>7, <1>8, <1>9, <1>10, <1>11, <1>12, <1>13, Steps

----------------------------------------------------------------------------
(***************************************************************************)
(* g keeps some of the entries of f.                                       *)
(***************************************************************************)
Fewer(f, g) == \A k \in DOMAIN g : k \in DOMAIN f /\ g[k] = f[k]

(***************************************************************************)
(* Removing entries keeps the others.                                      *)
(***************************************************************************)
LEMMA WithoutFewer ==
    ASSUME NEW f, NEW keys
    PROVE  /\ Fewer(f, without(f, keys)) /\ DOMAIN without(f, keys) = DOMAIN f \ keys
           /\ f = << >> => without(f, keys) = << >>
BY DEF Fewer, without

(***************************************************************************)
(* Where a pass of an enrollment begins only entries in the future stay,   *)
(* and those of its Node belong to listed Pods. No pass removes an entry   *)
(* that the backoff still asks for.                                        *)
(***************************************************************************)
LEMMA BeginLedger ==
    ASSUME Typed, NEW n \in Nodes, Begin(n)
    PROVE  /\ Fewer(retries, retries') /\ Fewer(asked, asked')
           /\ retries = << >> => retries' = << >>
           /\ class[n] # "duplicate" => \A k \in DOMAIN retries' :
                 /\ retries'[k] > now
                 /\ k.node = n => inactive(n) = "" /\ \E x \in Names :
                       cpods[x].exists /\ cpods[x].node = n /\ k = retryKey(cpods[x])
           /\ \A k \in DOMAIN asked' :
                 (k \in DOMAIN retries /\ due(asked[k]) > now /\ due(asked[k]) <= retries[k])
                    => k \in DOMAIN retries'
<1> DEFINE listed == {p \in {cpods[x] : x \in Names} : p.exists /\ p.node = n}
           live == IF inactive(n) # "" THEN {} ELSE {retryKey(p) : p \in listed}
           old == {k \in DOMAIN retries : retries[k] <= now \/ (k.node = n /\ k \notin live)}
           oldAsked == {k \in DOMAIN asked :
                          due(asked[k]) <= now \/ (k.node = n /\ k \notin live)}
<1>1. /\ retries' = IF class[n] = "duplicate" THEN retries ELSE without(retries, old)
      /\ asked' = IF class[n] = "duplicate" THEN asked ELSE without(asked, oldAsked)
  BY Zenon DEF Begin, prune
<1>2. /\ \A k \in DOMAIN retries : retries[k] \in Nat
      /\ \A k \in DOMAIN asked : due(asked[k]) \in Int
      /\ now \in Nat
  BY DEF Typed, AskType, due
<1>3. ASSUME NEW k \in live
      PROVE  inactive(n) = "" /\ \E x \in Names :
                cpods[x].exists /\ cpods[x].node = n /\ k = retryKey(cpods[x])
  <2>1. inactive(n) = "" /\ \E p \in listed : k = retryKey(p)
    BY <1>3
  <2>2. PICK p \in listed : k = retryKey(p)
    BY <2>1
  <2>3. PICK x \in Names : p = cpods[x]
    OBVIOUS
  <2>4. p.exists /\ p.node = n
    OBVIOUS
  <2> QED
    BY <2>1, <2>2, <2>3, <2>4
<1> HIDE DEF live
<1>4. CASE class[n] = "duplicate"
  BY <1>1, <1>2, <1>4 DEF Fewer
<1>5. CASE class[n] # "duplicate"
  <2>1. /\ DOMAIN retries' = DOMAIN retries \ old /\ Fewer(retries, retries')
        /\ DOMAIN asked' = DOMAIN asked \ oldAsked /\ Fewer(asked, asked')
        /\ retries = << >> => retries' = << >>
    BY <1>1, <1>5, WithoutFewer
  <2>2. ASSUME NEW k \in DOMAIN retries'
        PROVE  /\ retries'[k] > now
               /\ k.node = n => inactive(n) = "" /\ \E x \in Names :
                     cpods[x].exists /\ cpods[x].node = n /\ k = retryKey(cpods[x])
    <3>1. k \in DOMAIN retries /\ ~(retries[k] <= now) /\ (k.node = n => k \in live)
      BY <2>1, <2>2
    <3>2. k \in live => inactive(n) = "" /\ \E x \in Names :
                     cpods[x].exists /\ cpods[x].node = n /\ k = retryKey(cpods[x])
      BY <1>3
    <3>3. retries'[k] > now
      BY <1>2, <2>1, <3>1 DEF Fewer
    <3> QED
      BY <3>1, <3>2, <3>3
  <2>3. ASSUME NEW k \in DOMAIN asked', k \in DOMAIN retries, due(asked[k]) > now,
               due(asked[k]) <= retries[k]
        PROVE  k \in DOMAIN retries'
    <3>1. k \in DOMAIN asked /\ ~(k.node = n /\ k \notin live)
      BY <2>1, <2>3
    <3>2. retries[k] > now
      BY <1>2, <2>3, <3>1
    <3>3. ~(retries[k] <= now)
      BY <1>2, <2>3, <3>2
    <3> QED
      BY <2>1, <2>3, <3>1, <3>3
  <2> QED
    BY <2>1, <2>2, <2>3
<1> QED
  BY <1>4, <1>5

(***************************************************************************)
(* The steps that leave both ledgers alone.                                *)
(***************************************************************************)
LEMMA LedgersAlone ==
    ASSUME Typed, Named, [Next]_vars
    PROVE  \/ \E n \in Nodes : Begin(n)
           \/ \E p \in pass.todo : Skip(p) \/ Audit(p)
           \/ \E p \in pass.call : Accepted(p) \/ \E hint \in Hints : Refused(p, hint)
           \/ Restart
           \/ UNCHANGED <<retries, asked>>
<1>1. ASSUME NEW n \in Nodes, FireTimer(n) \/ \E c \in Classes : Notify(n, c)
      PROVE  UNCHANGED <<retries, asked>>
  BY <1>1, Zenon DEF FireTimer, Notify
<1>2. ASSUME NEW p \in pass.todo, HoldBack(p) \/ tryTake(p)
      PROVE  UNCHANGED <<retries, asked>>
  BY <1>2, Zenon DEF HoldBack, tryTake
<1>3. ASSUME Finish \/ FinishFails \/ SyncPods \/ UNCHANGED vars
      PROVE  UNCHANGED <<retries, asked>>
  BY <1>3, Zenon DEF Finish, FinishFails, SyncPods, vars
<1>4. ASSUME NEW x \in Names, NEW p \in PodType, PodWrite(x, p)
      PROVE  UNCHANGED <<retries, asked>>
  BY <1>4, Zenon DEF PodWrite
<1>5. ASSUME Tick PROVE UNCHANGED <<retries, asked>>
  BY <1>5, Zenon DEF Tick
<1> QED
  BY <1>1, <1>2, <1>3, <1>4, <1>5, Steps

(***************************************************************************)
(* The steps that forget the entry of a Pod.                               *)
(***************************************************************************)
LEMMA Forgets ==
    ASSUME NEW p \in InHand, Skip(p) \/ Audit(p) \/ Accepted(p)
    PROVE  /\ Fewer(retries, retries') /\ DOMAIN retries' = DOMAIN retries \ {retryKey(p)}
           /\ Fewer(asked, asked') /\ DOMAIN asked' = DOMAIN asked \ {retryKey(p)}
           /\ retries = << >> => retries' = << >>
           /\ now' = now /\ mode' = mode
<1>1. /\ retries' = without(retries, {retryKey(p)}) /\ asked' = without(asked, {retryKey(p)})
      /\ now' = now /\ mode' = mode
  BY Zenon DEF Skip, Audit, Accepted
<1> QED
  BY <1>1, WithoutFewer

(***************************************************************************)
(* A refused call adds an entry to each ledger, in the future.             *)
(***************************************************************************)
LEMMA Records ==
    ASSUME Jitter, Typed, Listed, NEW p \in pass.call, NEW hint \in Hints, Refused(p, hint)
    PROVE  LET k == retryKey(p)
           IN  /\ pass.busy /\ DOMAIN retries' = DOMAIN retries \cup {k}
               /\ \A j \in DOMAIN retries \ {k} : retries'[j] = retries[j]
               /\ DOMAIN asked' = DOMAIN asked \cup {k}
               /\ \A j \in DOMAIN asked \ {k} : asked'[j] = asked[j]
               /\ retries'[k] \in Nat /\ pass.start < retries'[k]
               /\ due(asked'[k]) \in Int /\ due(asked'[k]) <= retries'[k]
               /\ retries'[k] = pass.start + blockedRetryDelay(k, hint)
               /\ now' = now /\ mode' = mode /\ mode = "enforce"
<1> DEFINE k == retryKey(p)
           delay == blockedRetryDelay(k, hint)
           a == [until |-> now + longer(RetryBackoff, hint), ran |-> now - pass.start]
<1>1. k \in KeyType /\ mode = "enforce" /\ pass.busy
  BY InHandType DEF InHand, Listed
<1>2. /\ delay \in Nat \ {0} /\ longer(RetryBackoff, hint) \in Nat
      /\ longer(RetryBackoff, hint) <= delay
  BY <1>1, RefusedPass
<1>3. /\ retries' = with(retries, k, pass.start + delay)
      /\ asked' = with(asked, k, a)
      /\ now' = now /\ mode' = mode
  BY Zenon DEF Refused
<1>4. now \in Nat /\ pass.start \in Nat
  BY DEF Typed, PassType
<1>5. due(a) = pass.start + longer(RetryBackoff, hint)
  BY <1>2, <1>4 DEF due
<1> HIDE DEF delay, k, a
<1>6. /\ DOMAIN retries' = DOMAIN retries \cup {k} /\ retries'[k] = pass.start + delay
      /\ \A j \in DOMAIN retries \ {k} : retries'[j] = retries[j]
  BY <1>3 DEF with
<1>7. /\ DOMAIN asked' = DOMAIN asked \cup {k} /\ asked'[k] = a
      /\ \A j \in DOMAIN asked \ {k} : asked'[j] = asked[j]
  BY <1>3 DEF with
<1>8. /\ retries'[k] \in Nat /\ pass.start < retries'[k]
      /\ due(asked'[k]) \in Int /\ due(asked'[k]) <= retries'[k]
  BY <1>2, <1>4, <1>5, <1>6, <1>7
<1> QED
  BY <1>1, <1>3, <1>6, <1>7, <1>8 DEF k, delay

(***************************************************************************)
(* Every step keeps one incarnation of a Pod in the ledger: the one listed *)
(* if the Pod is in hand.                                                  *)
(***************************************************************************)
LEMMA LedgerNext ==
    ASSUME Jitter, Typed, Bounded, Named, Listed, Ledger, [Next]_vars
    PROVE  Ledger'
<1>a. /\ \A j, k \in DOMAIN retries : (j.node = k.node /\ j.name = k.name) => j = k
      /\ \A p \in InHand : \A k \in DOMAIN retries :
            (k.node = pass.node /\ k.name = p.name) => k = retryKey(p)
      /\ mode # "enforce" => retries = << >>
  BY DEF Ledger, OneEntryPerPod
<1>1. ASSUME Fewer(retries, retries'), retries = << >> => retries' = << >>, mode' = mode,
             \A p \in InHand' : p \in InHand /\ pass'.node = pass.node
      PROVE  Ledger'
  BY <1>1, <1>a DEF Fewer, Ledger, OneEntryPerPod
<1>2. ASSUME NEW n \in Nodes, Begin(n) PROVE Ledger'
  <2>1. /\ Fewer(retries, retries') /\ (retries = << >> => retries' = << >>)
        /\ class[n] # "duplicate" => \A k \in DOMAIN retries' : k.node = n =>
              \E x \in Names : k = retryKey(cpods[x])
    <3>1. /\ Fewer(retries, retries') /\ (retries = << >> => retries' = << >>)
          /\ class[n] # "duplicate" => \A k \in DOMAIN retries' :
                /\ retries'[k] > now
                /\ k.node = n => inactive(n) = "" /\ \E x \in Names :
                      cpods[x].exists /\ cpods[x].node = n /\ k = retryKey(cpods[x])
      BY <1>2, BeginLedger, Zenon
    <3> QED
      BY <3>1
  <2>2. /\ pass'.node = n /\ pass'.call = {}
        /\ \A p \in pass'.todo : (\E x \in Names : p = cpods[x]) /\ inactive(n) = ""
    BY <1>2, BeginPass
  <2>3. mode' = mode
    BY <1>2, Zenon DEF Begin
  <2>4. ASSUME NEW p \in pass'.todo, NEW k \in DOMAIN retries', k.node = n, k.name = p.name
        PROVE  k = retryKey(p)
    <3>1. PICK x \in Names : p = cpods[x]
      BY <2>2
    <3>2. class[n] # "duplicate"
      <4>1. inactive(n) = ""
        BY <2>2
      <4> QED
        BY <4>1 DEF inactive
    <3>3. PICK y \in Names : k = retryKey(cpods[y])
      BY <2>1, <2>4, <3>2
    <3>4. k.name = cpods[y].name
      BY <3>3 DEF retryKey
    <3>5. cpods[x].name = x /\ cpods[y].name = y
      BY DEF Named
    <3> QED
      BY <2>4, <3>1, <3>3, <3>4, <3>5
  <2>5. \A j, k \in DOMAIN retries' : (j.node = k.node /\ j.name = k.name) => j = k
    BY <1>a, <2>1 DEF Fewer
  <2> QED
    BY <1>a, <2>1, <2>2, <2>3, <2>4, <2>5 DEF Ledger, OneEntryPerPod, InHand
<1>3. ASSUME NEW p \in pass.todo, Skip(p) \/ Audit(p) PROVE Ledger'
  <2>1. pass'.todo = pass.todo \ {p} /\ pass'.call = pass.call /\ pass'.node = pass.node
    BY <1>3, SkipPass DEF Moves
  <2>2. Fewer(retries, retries') /\ (retries = << >> => retries' = << >>) /\ mode' = mode
    BY <1>3, Forgets DEF InHand
  <2> QED
    BY <1>1, <2>1, <2>2 DEF InHand
<1>4. ASSUME NEW p \in pass.call, Accepted(p) PROVE Ledger'
  <2>1. pass'.todo = pass.todo /\ pass'.call = {} /\ pass'.node = pass.node
    BY <1>4, CallMoves
  <2>2. Fewer(retries, retries') /\ (retries = << >> => retries' = << >>) /\ mode' = mode
    BY <1>4, Forgets DEF InHand
  <2> QED
    BY <1>1, <2>1, <2>2 DEF InHand
<1>5. ASSUME NEW p \in pass.call, NEW hint \in Hints, Refused(p, hint) PROVE Ledger'
  <2> DEFINE k == retryKey(p)
  <2>1. pass'.todo = pass.todo /\ pass'.call = {} /\ pass'.node = pass.node
    BY <1>5, CallMoves
  <2>2. /\ DOMAIN retries' = DOMAIN retries \cup {k} /\ mode' = mode /\ mode = "enforce"
    BY <1>5, Records
  <2>3. p \in InHand /\ k.node = pass.node /\ k.name = p.name
    BY InHandType DEF retryKey, InHand
  <2>4. \A q \in InHand : q.name = p.name => q = p
    BY <2>3 DEF Listed
  <2>5. \A j \in DOMAIN retries : (j.node = k.node /\ j.name = k.name) => j = k
    BY <1>a, <2>3
  <2>6. InHand' \subseteq InHand
    BY <2>1 DEF InHand
  <2> HIDE DEF k
  <2>7. \A i, j \in DOMAIN retries' : (i.node = j.node /\ i.name = j.name) => i = j
    BY <1>a, <2>2, <2>5
  <2>8. \A q \in InHand' : \A j \in DOMAIN retries' :
           (j.node = pass'.node /\ j.name = q.name) => j = retryKey(q)
    <3> SUFFICES ASSUME NEW q \in InHand', NEW j \in DOMAIN retries',
                        j.node = pass'.node, j.name = q.name
                 PROVE  j = retryKey(q)
      OBVIOUS
    <3>1. CASE j \in DOMAIN retries
      BY <1>a, <2>1, <2>6, <3>1
    <3>2. CASE j = k
      BY <2>3, <2>4, <2>6, <3>2 DEF k
    <3> QED
      BY <2>2, <3>1, <3>2
  <2> QED
    BY <2>2, <2>7, <2>8 DEF Ledger, OneEntryPerPod
<1>6. CASE Restart
  <2>1. retries' = << >> /\ pass' = NoPass
    BY <1>6, Zenon DEF Restart
  <2>2. \A k : k \notin DOMAIN << >>
    OBVIOUS
  <2>3. \A k : k \notin DOMAIN retries'
    BY <2>1, <2>2
  <2>4. InHand' = {}
    BY <2>1, Idle
  <2> QED
    BY <2>1, <2>3, <2>4, Zenon DEF Ledger, OneEntryPerPod
<1>7. ASSUME UNCHANGED <<retries, mode>>, InHand' \subseteq InHand,
             InHand' = {} \/ pass'.node = pass.node
      PROVE  Ledger'
  BY <1>1, <1>7 DEF Fewer
<1>8. ASSUME NEW p \in pass.todo, HoldBack(p) \/ tryTake(p) PROVE Ledger'
  <2>1. pass'.todo = pass.todo \ {p} /\ pass'.node = pass.node
        /\ pass'.call \subseteq pass.call \cup {p}
    BY <1>8, HoldPass, TakeMoves DEF Moves
  <2>2. UNCHANGED <<retries, mode>>
    BY <1>8, Zenon DEF HoldBack, tryTake
  <2> QED
    BY <1>7, <2>1, <2>2 DEF InHand
<1>9. ASSUME Finish \/ FinishFails PROVE Ledger'
  <2>1. pass' = NoPass /\ UNCHANGED <<retries, mode>>
    BY <1>9, Zenon DEF Finish, FinishFails
  <2> QED
    BY <1>7, <2>1, Idle
<1>10. ASSUME UNCHANGED <<retries, mode, pass>> PROVE Ledger'
  BY <1>7, <1>10 DEF InHand
<1>11. ASSUME NEW n \in Nodes, FireTimer(n) \/ \E c \in Classes : Notify(n, c)
       PROVE  UNCHANGED <<retries, mode, pass>>
  BY <1>11, Zenon DEF FireTimer, Notify
<1>12. ASSUME SyncPods \/ Tick \/ UNCHANGED vars PROVE UNCHANGED <<retries, mode, pass>>
  BY <1>12, Zenon DEF SyncPods, Tick, vars
<1>13. ASSUME NEW x \in Names, NEW p \in PodType, PodWrite(x, p)
       PROVE  UNCHANGED <<retries, mode, pass>>
  BY <1>13, Zenon DEF PodWrite
<1> QED
  BY <1>2, <1>3, <1>4, <1>5, <1>6, <1>8, <1>9, <1>10, <1>11, <1>12, <1>13, Steps

(***************************************************************************)
(* Every step keeps an entry of the ledger for as long as the backoff asks *)
(* for one.                                                                *)
(***************************************************************************)
LEMMA BackoffNext ==
    ASSUME Jitter, Typed, Bounded, Named, Listed, Backoff, [Next]_vars
    PROVE  Backoff'
<1>a. /\ \A k \in DOMAIN retries : retries[k] \in Nat
      /\ \A k \in DOMAIN asked : due(asked[k]) \in Int
      /\ Time \in Nat /\ Time' \in Nat /\ Time <= Time'
      /\ \A k \in DOMAIN asked :
            due(asked[k]) > Time => k \in DOMAIN retries /\ due(asked[k]) <= retries[k]
  BY TimeType, TimeNext DEF Typed, AskType, due, Backoff
<1>1. ASSUME NEW n \in Nodes, Begin(n) PROVE Backoff'
  <2>1. /\ Fewer(retries, retries') /\ Fewer(asked, asked')
        /\ \A k \in DOMAIN asked' :
              (k \in DOMAIN retries /\ due(asked[k]) > now /\ due(asked[k]) <= retries[k])
                 => k \in DOMAIN retries'
    BY <1>1, BeginLedger
  <2>2. Time' = now /\ Time = now
    BY <1>1, BeginPass DEF Begin, Time
  <2> QED
    BY <1>a, <2>1, <2>2 DEF Backoff, Fewer
<1>2. ASSUME NEW p \in InHand, Skip(p) \/ Audit(p) \/ Accepted(p) PROVE Backoff'
  <2>1. /\ Fewer(retries, retries') /\ DOMAIN retries' = DOMAIN retries \ {retryKey(p)}
        /\ Fewer(asked, asked') /\ DOMAIN asked' = DOMAIN asked \ {retryKey(p)}
    BY <1>2, Forgets
  <2> QED
    BY <1>a, <2>1 DEF Backoff, Fewer
<1>3. ASSUME NEW p \in pass.call, NEW hint \in Hints, Refused(p, hint) PROVE Backoff'
  <2> DEFINE k == retryKey(p)
  <2>1. /\ DOMAIN retries' = DOMAIN retries \cup {k}
        /\ \A j \in DOMAIN retries \ {k} : retries'[j] = retries[j]
        /\ DOMAIN asked' = DOMAIN asked \cup {k}
        /\ \A j \in DOMAIN asked \ {k} : asked'[j] = asked[j]
        /\ due(asked'[k]) <= retries'[k]
    BY <1>3, Records
  <2> HIDE DEF k
  <2> QED
    BY <1>a, <2>1 DEF Backoff
<1>4. CASE Restart
  <2>1. asked' = << >>
    BY <1>4, Zenon DEF Restart
  <2> QED
    BY <2>1 DEF Backoff
<1>5. ASSUME UNCHANGED <<retries, asked>> PROVE Backoff'
  <2>1. ASSUME NEW k \in DOMAIN asked, due(asked[k]) > Time' PROVE due(asked[k]) > Time
    BY <1>a, <2>1
  <2> QED
    BY <1>a, <1>5, <2>1 DEF Backoff
<1> QED
  BY <1>1, <1>2, <1>3, <1>4, <1>5, LedgersAlone DEF InHand

----------------------------------------------------------------------------
(***************************************************************************)
(* A step that neither the queue nor the class of the Node of the pass     *)
(* notices.                                                                *)
(***************************************************************************)
LEMMA JudgingQuiet ==
    ASSUME \/ \E p \in pass.todo : Skip(p) \/ Audit(p) \/ HoldBack(p) \/ tryTake(p)
           \/ \E p \in pass.call : Accepted(p) \/ \E hint \in Hints : Refused(p, hint)
    PROVE  UNCHANGED <<now, queue, class, timer, waiting, shown, mode, lasted>>
BY Zenon DEF Skip, Audit, HoldBack, tryTake, Accepted, Refused

(***************************************************************************)
(* Every step keeps the retries of the Node of the pass in sight.          *)
(***************************************************************************)
LEMMA MetNext ==
    ASSUME Jitter, Typed, Bounded, Named, Listed, Met, [Next]_vars
    PROVE  Met'
<1> DEFINE InSight(k) == /\ retries[k] > pass.start
                         /\ \/ \E p \in pass.todo : k = retryKey(p)
                            \/ pass.blocked /\ pass.start + pass.requeueAfter <= retries[k]
<1>a. /\ \A k \in DOMAIN retries : retries[k] \in Nat
      /\ pass.start \in Nat /\ pass.requeueAfter \in Nat
      /\ pass.blocked => pass.requeueAfter # 0
  BY DEF Typed, PassType, Listed
<1> SUFFICES ASSUME pass'.busy, pass'.node \notin queue', class'[pass'.node] = "game",
                    NEW k \in DOMAIN retries', k.node = pass'.node
             PROVE  InSight(k)'
  BY DEF Met
<1>b. ASSUME pass.busy, pass'.node = pass.node, pass.node \notin queue,
             class[pass.node] = "game", k \in DOMAIN retries
      PROVE  InSight(k)
  BY <1>b DEF Met
<1>c. ASSUME pass.busy, pass'.node = pass.node, UNCHANGED <<queue, class>>,
             k \in DOMAIN retries
      PROVE  InSight(k)
  BY <1>b, <1>c
<1>1. ASSUME NEW n \in Nodes, Begin(n) PROVE InSight(k)'
  <2>1. /\ pass'.node = n /\ pass'.start = now
        /\ \A p : p \in pass'.todo <=>
              /\ \E x \in Names : p = cpods[x]
              /\ p.exists /\ p.node = n
              /\ inactive(n) = "" /\ (class[n] = "game" \/ p.lossy)
    BY <1>1, BeginPass
  <2>2. class' = class
    BY <1>1, Zenon DEF Begin
  <2>3. class[n] = "game" /\ k.node = n
    BY <2>1, <2>2
  <2>4. /\ retries'[k] > now /\ inactive(n) = ""
        /\ \E x \in Names : cpods[x].exists /\ cpods[x].node = n /\ k = retryKey(cpods[x])
    BY <1>1, <2>3, BeginLedger
  <2>5. PICK x \in Names : cpods[x].exists /\ cpods[x].node = n /\ k = retryKey(cpods[x])
    BY <2>4
  <2>6. cpods[x] \in pass'.todo
    BY <2>1, <2>3, <2>4, <2>5, Zenon
  <2> QED
    BY <2>1, <2>2, <2>4, <2>5, <2>6
<1>2. ASSUME NEW p \in pass.todo, Skip(p) \/ Audit(p) PROVE InSight(k)'
  <2>1. Moves(pass.todo \ {p}, pass.call, pass.requeueAfter, pass.deferred, pass.blocked)
    BY <1>2, SkipPass
  <2>2. DOMAIN retries' = DOMAIN retries \ {retryKey(p)} /\ Fewer(retries, retries')
    BY <1>2, Forgets DEF InHand
  <2>3. pass.busy /\ UNCHANGED <<queue, class>>
    BY <1>2, JudgingQuiet, InHandType DEF InHand
  <2>4. InSight(k)
    BY <1>c, <2>1, <2>2, <2>3 DEF Moves
  <2> QED
    BY <2>1, <2>2, <2>3, <2>4 DEF Moves, Fewer
<1>3. ASSUME NEW p \in pass.todo, HoldBack(p) PROVE InSight(k)'
  <2> DEFINE delay == retries[retryKey(p)] - pass.start
             wait == retryAfter(pass.requeueAfter, delay)
  <2>1. delay \in Nat \ {0} /\ Moves(pass.todo \ {p}, pass.call, wait, pass.deferred, TRUE)
    BY <1>3, HoldPass
  <2>2. pass.busy /\ UNCHANGED <<queue, class>>
    BY <1>3, JudgingQuiet, InHandType DEF InHand
  <2>3. retries' = retries
    BY <1>3, Zenon DEF HoldBack
  <2>4. InSight(k)
    BY <1>c, <2>1, <2>2, <2>3 DEF Moves
  <2>5. wait \in Nat /\ wait <= delay /\ (pass.requeueAfter # 0 => wait <= pass.requeueAfter)
    BY <1>a, <2>1, RetryAfter
  <2>6. retries[retryKey(p)] \in Nat
    BY <1>3, <1>a DEF HoldBack, heldBack
  <2>7. CASE k = retryKey(p)
    <3>1. pass.start + wait <= retries[k]
      BY <1>a, <2>1, <2>5, <2>6, <2>7
    <3> HIDE DEF wait, delay
    <3> QED
      BY <2>1, <2>2, <2>3, <2>4, <3>1 DEF Moves
  <2>8. CASE k # retryKey(p)
    <3>1. pass.blocked /\ pass.start + pass.requeueAfter <= retries[k]
             => pass.start + wait <= retries[k]
      BY <1>a, <2>3, <2>5
    <3> HIDE DEF wait, delay
    <3> QED
      BY <2>1, <2>2, <2>3, <2>4, <2>8, <3>1 DEF Moves
  <2> QED
    BY <2>7, <2>8
<1>4. ASSUME NEW p \in pass.todo, tryTake(p) PROVE InSight(k)'
  <2> DEFINE r == taken(nodeBucket[p.lossy][p.node], globalBucket[p.lossy],
                        PerNode[p.lossy], Global[p.lossy], pass.start)
             wait == retryAfter(pass.requeueAfter, r.wait)
  <2>1. r.wait \in Nat /\ r.ok \in BOOLEAN
    BY InHandType, TakeBuckets DEF InHand
  <2>2. /\ r.ok => Moves(pass.todo \ {p}, {p}, pass.requeueAfter, pass.deferred, pass.blocked)
        /\ ~r.ok => Moves(pass.todo \ {p}, {}, wait, pass.deferred \cup {p.lossy}, pass.blocked)
    BY <1>4, <2>1, TakePass
  <2>3. wait \in Nat /\ (pass.requeueAfter # 0 => wait <= pass.requeueAfter)
    BY <1>a, <2>1, RetryAfter
  <2> HIDE DEF r, wait
  <2>4. /\ pass'.todo = pass.todo \ {p} /\ pass'.node = pass.node /\ pass'.blocked = pass.blocked
        /\ pass'.start = pass.start
        /\ pass'.requeueAfter \in Nat
        /\ pass.requeueAfter # 0 => pass'.requeueAfter <= pass.requeueAfter
    <3>1. CASE r.ok
      BY <1>a, <2>2, <3>1 DEF Moves
    <3>2. CASE ~r.ok
      BY <2>2, <2>3, <3>2 DEF Moves
    <3> QED
      BY <3>1, <3>2
  <2>5. pass.busy /\ UNCHANGED <<queue, class>>
    BY <1>4, JudgingQuiet, InHandType DEF InHand
  <2>6. retries' = retries /\ ~heldBack(p)
    BY <1>4, Zenon DEF tryTake
  <2>7. InSight(k)
    BY <1>c, <2>4, <2>5, <2>6
  <2>8. k # retryKey(p)
    BY <1>a, <2>6, <2>7 DEF heldBack
  <2>9. pass.blocked /\ pass.start + pass.requeueAfter <= retries[k] =>
            pass.start + pass'.requeueAfter <= retries[k]
    BY <1>a, <2>4, <2>6
  <2> QED
    BY <2>4, <2>5, <2>6, <2>7, <2>8, <2>9
<1>5. ASSUME NEW p \in pass.call, Accepted(p) PROVE InSight(k)'
  <2>1. Moves(pass.todo, {}, pass.requeueAfter, pass.deferred, pass.blocked)
    BY <1>5, AcceptedPass
  <2>2. DOMAIN retries' = DOMAIN retries \ {retryKey(p)} /\ Fewer(retries, retries')
    BY <1>5, Forgets DEF InHand
  <2>3. pass.busy /\ UNCHANGED <<queue, class>>
    BY <1>5, JudgingQuiet, InHandType DEF InHand
  <2>4. InSight(k)
    BY <1>c, <2>1, <2>2, <2>3 DEF Moves
  <2> QED
    BY <2>1, <2>2, <2>3, <2>4 DEF Moves, Fewer
<1>6. ASSUME NEW p \in pass.call, NEW hint \in Hints, Refused(p, hint) PROVE InSight(k)'
  <2> DEFINE delay == blockedRetryDelay(retryKey(p), hint)
             wait == retryAfter(pass.requeueAfter, delay)
  <2>1. pass.busy /\ retryKey(p) \in KeyType /\ UNCHANGED <<queue, class>>
    BY <1>6, JudgingQuiet, InHandType DEF InHand
  <2>2. delay \in Nat \ {0} /\ Moves(pass.todo, {}, wait, pass.deferred, TRUE)
    BY <1>6, <2>1, RefusedPass
  <2>3. wait \in Nat /\ wait <= delay /\ (pass.requeueAfter # 0 => wait <= pass.requeueAfter)
    BY <1>a, <2>2, RetryAfter
  <2>4. /\ DOMAIN retries' = DOMAIN retries \cup {retryKey(p)}
        /\ \A j \in DOMAIN retries \ {retryKey(p)} : retries'[j] = retries[j]
        /\ retries'[retryKey(p)] = pass.start + delay
    BY <1>6, Records
  <2>5. pass.start + wait <= pass.start + delay /\ pass.start + delay > pass.start
    BY <1>a, <2>2, <2>3
  <2> HIDE DEF delay, wait
  <2>6. CASE k = retryKey(p)
    BY <2>1, <2>2, <2>4, <2>5, <2>6 DEF Moves
  <2>7. CASE k # retryKey(p)
    <3>1. k \in DOMAIN retries /\ retries'[k] = retries[k]
      BY <2>4, <2>7
    <3>2. InSight(k)
      BY <1>c, <2>1, <2>2, <3>1 DEF Moves
    <3>3. pass.blocked /\ pass.start + pass.requeueAfter <= retries[k]
             => pass.start + wait <= retries[k]
      BY <1>a, <2>3, <3>1
    <3> QED
      BY <2>1, <2>2, <3>1, <3>2, <3>3 DEF Moves
  <2> QED
    BY <2>6, <2>7
<1>7. pass' # NoPass
  BY Idle
<1>8. ASSUME Finish \/ FinishFails \/ Restart PROVE InSight(k)'
  BY <1>7, <1>8, Zenon DEF Finish, FinishFails, Restart
<1>9. ASSUME pass' = pass, retries' = retries, queue \subseteq queue',
             class'[pass.node] = class[pass.node] \/ pass.node \in queue'
      PROVE  InSight(k)'
  BY <1>b, <1>9
<1>10. ASSUME NEW n \in Nodes, FireTimer(n) PROVE InSight(k)'
  <2>1. UNCHANGED <<pass, retries, class>> /\ queue' = queue \cup {n}
    BY <1>10, Zenon DEF FireTimer
  <2> QED
    BY <1>9, <2>1
<1>11. ASSUME NEW n \in Nodes, NEW c \in Classes, Notify(n, c) PROVE InSight(k)'
  <2>1. UNCHANGED <<pass, retries>> /\ queue' = queue \cup {n}
        /\ class' = [class EXCEPT ![n] = c]
    BY <1>11, Zenon DEF Notify
  <2>2. class \in [Nodes -> Classes] /\ pass.node \in Nodes
    BY <2>1 DEF Typed, Listed
  <2>3. class'[pass.node] = class[pass.node] \/ pass.node \in queue'
    BY <2>1, <2>2
  <2> QED
    BY <1>9, <2>1, <2>3
<1>12. ASSUME SyncPods \/ Tick \/ UNCHANGED vars PROVE InSight(k)'
  <2>1. UNCHANGED <<pass, retries, class, queue>>
    BY <1>12, Zenon DEF SyncPods, Tick, vars
  <2> QED
    BY <1>9, <2>1
<1>13. ASSUME NEW x \in Names, NEW p \in PodType, PodWrite(x, p) PROVE InSight(k)'
  <2>1. UNCHANGED <<pass, retries, class, queue>>
    BY <1>13, Zenon DEF PodWrite
  <2> QED
    BY <1>9, <2>1
<1> QED
  BY <1>1, <1>2, <1>3, <1>4, <1>5, <1>6, <1>8, <1>10, <1>11, <1>12, <1>13, Steps

(***************************************************************************)
(* No take brings the moment closer at which a Pod can be called for: a    *)
(* take of this Node was refused, and one of another Node either found the *)
(* global bucket empty or leaves the Node's own bucket the empty one.      *)
(***************************************************************************)
LEMMA StaysRefused ==
    ASSUME Typed, Bounded, Listed, NEW p \in pass.todo, tryTake(p),
           NEW k \in Lossiness, NEW m \in Nodes, NEW t \in Nat, pass.start <= t,
           ~CanTake(k, m, t), m = p.node => ~CanTake(k, m, pass.start)
    PROVE  ~CanTake(k, m, t)'
<1> DEFINE l == p.lossy
           n == p.node
           r == taken(nodeBucket[l][n], globalBucket[l], PerNode[l], Global[l], pass.start)
           own == nodeBucket[l][n]
           all == globalBucket[l]
           o == refill(own, PerNode[l], pass.start)
           g == refill(all, Global[l], pass.start)
<1>1. /\ l \in Lossiness /\ n \in Nodes /\ pass.busy
      /\ pass.start \in Nat \ {0} /\ Time = pass.start
  BY InHandType, TimeType DEF InHand
<1>2. /\ own \in BucketType /\ all \in BucketType
      /\ PerNode[l] \in ClassType /\ Global[l] \in ClassType
      /\ InUse(own, PerNode[l]) /\ InUse(all, Global[l])
  BY <1>1, EvictionAssumption DEF Typed, Bounded
<1>3. /\ o \in BucketType /\ g \in BucketType
      /\ r.ok \in BOOLEAN /\ (r.ok <=> (o.tokens >= 1 /\ g.tokens >= 1))
      /\ ~r.ok => r.own = o /\ r.all = g
  BY <1>1, TakeBuckets
<1>4. /\ nodeBucket' = [nodeBucket EXCEPT ![l][n] = r.own]
      /\ globalBucket' = [globalBucket EXCEPT ![l] = r.all]
  BY Zenon DEF tryTake
<1>5. /\ nodeBucket \in [Lossiness -> [Nodes -> BucketType]]
      /\ globalBucket \in [Lossiness -> BucketType]
  BY DEF Typed
<1>6. /\ globalBucket'[k] = IF k = l THEN r.all ELSE globalBucket[k]
      /\ nodeBucket'[k][m] = IF k = l /\ m = n THEN r.own ELSE nodeBucket[k][m]
  <2> HIDE DEF r, l, n
  <2> QED
    BY <1>1, <1>4, <1>5
<1>7. CASE k # l
  BY <1>6, <1>7 DEF CanTake
<1>8. CASE k = l
  <2>1. /\ refill(own, PerNode[l], t).tokens = 0 => refill(o, PerNode[l], t).tokens = 0
        /\ refill(all, Global[l], t).tokens = 0 =>
              refill(g, Global[l], t).tokens = 0 /\ g.tokens = 0
    BY <1>1, <1>2, StaysEmpty DEF InUse
  <2>2. /\ refill(nodeBucket[l][m], PerNode[l], t) \in BucketType
        /\ refill(all, Global[l], t) \in BucketType
    <3>1. /\ nodeBucket[l][m] \in BucketType /\ InUse(nodeBucket[l][m], PerNode[l])
          /\ t \in Nat \ {0}
      BY <1>1, <1>5 DEF Bounded
    <3>2. nodeBucket[l][m].updated <= t /\ all.updated <= t
      BY <1>1, <1>2, <3>1 DEF InUse, BucketType
    <3> QED
      BY <1>2, <3>1, <3>2, RefillType DEF InUse
  <2>3. \/ refill(nodeBucket[l][m], PerNode[l], t).tokens = 0
        \/ refill(all, Global[l], t).tokens = 0
    BY <1>8, <2>2 DEF CanTake, BucketType
  <2>4. CASE m = n
    <3>1. ~r.ok
      BY <1>3, <1>8, <2>4 DEF CanTake
    <3>2. refill(r.own, PerNode[l], t).tokens = 0 \/ refill(r.all, Global[l], t).tokens = 0
      BY <1>3, <2>1, <2>3, <2>4, <3>1
    <3> HIDE DEF r, l, n
    <3> QED
      BY <1>6, <1>8, <2>4, <3>2 DEF CanTake
  <2>5. CASE m # n
    <3>1. CASE refill(nodeBucket[l][m], PerNode[l], t).tokens = 0
      BY <1>6, <1>8, <2>5, <3>1 DEF CanTake
    <3>2. CASE refill(all, Global[l], t).tokens = 0
      <4>1. ~r.ok /\ refill(r.all, Global[l], t).tokens = 0
        BY <1>3, <2>1, <3>2
      <4> HIDE DEF r, l, n
      <4> QED
        BY <1>6, <1>8, <4>1 DEF CanTake
    <3> QED
      BY <2>3, <3>1, <3>2
  <2> QED
    BY <2>4, <2>5
<1> QED
  BY <1>7, <1>8

(***************************************************************************)
(* Every step keeps the Pods that wait for the budget unable to take a     *)
(* token before the delay of the pass in progress.                         *)
(***************************************************************************)
LEMMA AwaitsNext ==
    ASSUME Jitter, Typed, Bounded, Named, Listed, Awaits, [Next]_vars
    PROVE  Awaits'
<1>a. /\ pass.start \in Nat /\ pass.requeueAfter \in Nat /\ pass.deferred \subseteq Lossiness
      /\ pass.deferred # {} => pass.requeueAfter # 0
      /\ pass.busy => pass.node \in Nodes
  BY DEF Typed, PassType, Listed
<1>1. CASE pass'.deferred = {}
  BY <1>1 DEF Awaits
<1>2. ASSUME UNCHANGED <<nodeBucket, globalBucket>>, pass'.deferred = pass.deferred,
             pass'.node = pass.node, pass'.start = pass.start, pass'.requeueAfter \in Nat,
             pass.requeueAfter # 0 => pass'.requeueAfter <= pass.requeueAfter
      PROVE  Awaits'
  <2>1. ASSUME NEW l \in pass.deferred, NEW t \in pass.start..(pass.start + pass'.requeueAfter - 1)
        PROVE  ~CanTake(l, pass.node, t)
    <3>1. t \in pass.start..(pass.start + pass.requeueAfter - 1)
      BY <1>2, <1>a, <2>1
    <3> QED
      BY <2>1, <3>1 DEF Awaits
  <2> QED
    BY <1>2, <2>1 DEF Awaits, CanTake
<1>3. ASSUME NEW p \in pass.todo, tryTake(p) PROVE Awaits'
  <2> DEFINE l == p.lossy
             r == taken(nodeBucket[l][p.node], globalBucket[l], PerNode[l], Global[l], pass.start)
             wait == retryAfter(pass.requeueAfter, r.wait)
  <2>1. l \in Lossiness /\ p.node \in Nodes /\ p.node = pass.node /\ pass.busy
    BY InHandType DEF InHand
  <2>2. r.wait \in Nat /\ r.ok \in BOOLEAN
    BY <2>1, TakeBuckets
  <2>3. /\ r.ok => Moves(pass.todo \ {p}, {p}, pass.requeueAfter, pass.deferred, pass.blocked)
        /\ ~r.ok => Moves(pass.todo \ {p}, {}, wait, pass.deferred \cup {l}, pass.blocked)
    BY <1>3, <2>2, TakePass
  <2>4. pass'.start = pass.start
    BY <1>3, TakeMoves
  <2>5. ASSUME NEW k \in pass.deferred, NEW t \in pass.start..(pass.start + pass.requeueAfter - 1)
        PROVE  ~CanTake(k, p.node, t)' /\ ~CanTake(k, p.node, pass.start)
    <3>1. ~CanTake(k, p.node, t) /\ ~CanTake(k, p.node, pass.start)
      BY <1>a, <2>1, <2>5 DEF Awaits
    <3>2. t \in Nat /\ pass.start <= t /\ k \in Lossiness
      BY <1>a, <2>5
    <3> QED
      BY <1>3, <2>1, <3>1, <3>2, StaysRefused
  <2>6. CASE r.ok
    <3>1. pass'.deferred = pass.deferred /\ pass'.requeueAfter = pass.requeueAfter
          /\ pass'.node = p.node
      BY <2>1, <2>3, <2>6 DEF Moves
    <3> QED
      BY <2>4, <2>5, <3>1 DEF Awaits
  <2>7. CASE ~r.ok
    <3>1. pass'.deferred = pass.deferred \cup {l} /\ pass'.requeueAfter = wait
          /\ pass'.node = p.node
      BY <2>1, <2>3, <2>7 DEF Moves
    <3>2. r.wait # 0 /\ \A t \in pass.start..(pass.start + r.wait - 1) :
             refill(r.own, PerNode[l], t).tokens = 0 \/ refill(r.all, Global[l], t).tokens = 0
      BY <2>1, <2>7, TakeSome
    <3>3. wait \in Nat /\ wait <= r.wait /\ (pass.requeueAfter # 0 => wait <= pass.requeueAfter)
      BY <1>a, <2>2, <3>2, RetryAfter
    <3>4. nodeBucket'[l][p.node] = r.own /\ globalBucket'[l] = r.all
      <4>1. /\ nodeBucket' = [nodeBucket EXCEPT ![l][p.node] = r.own]
            /\ globalBucket' = [globalBucket EXCEPT ![l] = r.all]
        BY <1>3, Zenon DEF tryTake
      <4>2. /\ nodeBucket \in [Lossiness -> [Nodes -> BucketType]]
            /\ globalBucket \in [Lossiness -> BucketType]
        BY DEF Typed
      <4> HIDE DEF r, l
      <4> QED
        BY <2>1, <4>1, <4>2
    <3> HIDE DEF r, l, wait
    <3>5. ASSUME NEW k \in pass.deferred, NEW t \in pass.start..(pass.start + wait - 1)
          PROVE  ~CanTake(k, p.node, t)'
      <4>1. t \in pass.start..(pass.start + pass.requeueAfter - 1)
        BY <1>a, <3>3, <3>5
      <4> QED
        BY <2>5, <4>1
    <3>6. ASSUME NEW t \in pass.start..(pass.start + wait - 1) PROVE ~CanTake(l, p.node, t)'
      <4>1. t \in pass.start..(pass.start + r.wait - 1)
        BY <1>a, <2>2, <3>3, <3>6
      <4>2. refill(r.own, PerNode[l], t).tokens = 0 \/ refill(r.all, Global[l], t).tokens = 0
        BY <3>2, <4>1
      <4> QED
        BY <3>4, <4>2 DEF CanTake
    <3> QED
      BY <2>4, <3>1, <3>5, <3>6 DEF Awaits
  <2> QED
    BY <2>2, <2>6, <2>7
<1>4. ASSUME NEW n \in Nodes, Begin(n) PROVE Awaits'
  BY <1>1, <1>4, BeginPass
<1>5. ASSUME NEW p \in pass.todo, Skip(p) \/ Audit(p) PROVE Awaits'
  <2>1. Moves(pass.todo \ {p}, pass.call, pass.requeueAfter, pass.deferred, pass.blocked)
    BY <1>5, SkipPass
  <2>2. UNCHANGED <<nodeBucket, globalBucket>>
    BY <1>5, Zenon DEF Skip, Audit, budgets
  <2> QED
    BY <1>2, <1>a, <2>1, <2>2 DEF Moves
<1>6. ASSUME NEW p \in pass.todo, HoldBack(p) PROVE Awaits'
  <2> DEFINE delay == retries[retryKey(p)] - pass.start
             wait == retryAfter(pass.requeueAfter, delay)
  <2>1. delay \in Nat \ {0} /\ Moves(pass.todo \ {p}, pass.call, wait, pass.deferred, TRUE)
    BY <1>6, HoldPass
  <2>2. wait \in Nat /\ (pass.requeueAfter # 0 => wait <= pass.requeueAfter)
    BY <1>a, <2>1, RetryAfter
  <2>3. UNCHANGED <<nodeBucket, globalBucket>>
    BY <1>6, Zenon DEF HoldBack, budgets
  <2> HIDE DEF wait
  <2> QED
    BY <1>2, <2>1, <2>2, <2>3 DEF Moves
<1>7. ASSUME NEW p \in pass.call, Accepted(p) PROVE Awaits'
  <2>1. Moves(pass.todo, {}, pass.requeueAfter, pass.deferred, pass.blocked)
    BY <1>7, AcceptedPass
  <2>2. UNCHANGED <<nodeBucket, globalBucket>>
    BY <1>7, Zenon DEF Accepted, budgets
  <2> QED
    BY <1>2, <1>a, <2>1, <2>2 DEF Moves
<1>8. ASSUME NEW p \in pass.call, NEW hint \in Hints, Refused(p, hint) PROVE Awaits'
  <2> DEFINE delay == blockedRetryDelay(retryKey(p), hint)
             wait == retryAfter(pass.requeueAfter, delay)
  <2>1. retryKey(p) \in KeyType
    BY InHandType DEF InHand
  <2>2. delay \in Nat \ {0} /\ Moves(pass.todo, {}, wait, pass.deferred, TRUE)
    BY <1>8, <2>1, RefusedPass
  <2>3. wait \in Nat /\ (pass.requeueAfter # 0 => wait <= pass.requeueAfter)
    BY <1>a, <2>2, RetryAfter
  <2>4. UNCHANGED <<nodeBucket, globalBucket>>
    BY <1>8, Zenon DEF Refused, budgets
  <2> HIDE DEF wait
  <2> QED
    BY <1>2, <2>2, <2>3, <2>4 DEF Moves
<1>9. ASSUME Finish \/ FinishFails \/ Restart PROVE Awaits'
  <2>1. pass' = NoPass
    BY <1>9, Zenon DEF Finish, FinishFails, Restart
  <2> QED
    BY <1>1, <2>1, Idle
<1>10. ASSUME UNCHANGED <<nodeBucket, globalBucket, pass>> PROVE Awaits'
  BY <1>2, <1>a, <1>10
<1>11. ASSUME NEW n \in Nodes, FireTimer(n) \/ \E c \in Classes : Notify(n, c)
       PROVE  UNCHANGED <<nodeBucket, globalBucket, pass>>
  BY <1>11, Zenon DEF FireTimer, Notify, budgets
<1>12. ASSUME SyncPods \/ Tick \/ UNCHANGED vars
       PROVE  UNCHANGED <<nodeBucket, globalBucket, pass>>
  BY <1>12, Zenon DEF SyncPods, Tick, vars, budgets
<1>13. ASSUME NEW x \in Names, NEW p \in PodType, PodWrite(x, p)
       PROVE  UNCHANGED <<nodeBucket, globalBucket, pass>>
  BY <1>13, Zenon DEF PodWrite, budgets
<1> QED
  BY <1>3, <1>4, <1>5, <1>6, <1>7, <1>8, <1>9, <1>10, <1>10, <1>11, <1>12, <1>13, Steps

----------------------------------------------------------------------------
(***************************************************************************)
(* No pass of n is due or in progress.                                     *)
(***************************************************************************)
Settled(n) == n \notin queue /\ ~(pass.busy /\ pass.node = n)

(***************************************************************************)
(* What the Eviction condition of n and its requeue are about.             *)
(***************************************************************************)
SameFor(n) ==
    /\ class'[n] = class[n] /\ timer'[n] = timer[n] /\ waiting'[n] = waiting[n]
    /\ shown'[n] = shown[n] /\ lasted'[n] = lasted[n] /\ mode' = mode
    /\ \A k \in DOMAIN retries' : k.node = n => k \in DOMAIN retries /\ retries'[k] = retries[k]

(***************************************************************************)
(* A Node with no pass due or in progress had none before either and is as *)
(* it was, unless its pass has just finished.                              *)
(***************************************************************************)
LEMMA SettledBefore ==
    ASSUME Jitter, Typed, Bounded, Named, Listed, [Next]_vars, NEW n \in Nodes, Settled(n)'
    PROVE  (Settled(n) /\ SameFor(n)) \/ (Finish /\ n = pass.node)
<1>a. /\ class \in [Nodes -> Classes] /\ timer \in [Nodes -> Nat]
      /\ waiting \in [Nodes -> SUBSET Lossiness] /\ shown \in [Nodes -> Outcomes]
      /\ lasted \in [Nodes -> Nat]
      /\ pass.busy => pass.node \in Nodes
  BY DEF Typed, Listed
<1>1. ASSUME UNCHANGED <<class, timer, waiting, shown, mode, retries, lasted>> PROVE SameFor(n)
  BY <1>1 DEF SameFor
<1>2. ASSUME NEW m \in Nodes, Begin(m) PROVE Settled(n) /\ SameFor(n)
  <2>1. pass'.busy = TRUE /\ pass'.node = m
    BY <1>2, BeginPass
  <2>2. /\ ~pass.busy /\ queue' = queue \ {m} /\ waiting' = [waiting EXCEPT ![m] = {}]
        /\ UNCHANGED <<class, timer, shown, mode, lasted>>
    BY <1>2, Zenon DEF Begin
  <2>3. n # m
    BY <2>1 DEF Settled
  <2>4. Settled(n)
    BY <2>2, <2>3 DEF Settled
  <2>5. Fewer(retries, retries')
    BY <1>2, BeginLedger
  <2> QED
    BY <1>a, <2>2, <2>3, <2>4, <2>5 DEF SameFor, Fewer
<1>3. ASSUME pass.busy, UNCHANGED <<queue, class, timer, waiting, shown, mode, lasted>>,
             pass'.busy = pass.busy, pass'.node = pass.node,
             \A k \in DOMAIN retries' : k.node = pass.node
                \/ (k \in DOMAIN retries /\ retries'[k] = retries[k])
      PROVE  Settled(n) /\ SameFor(n)
  BY <1>3 DEF Settled, SameFor
<1>4. ASSUME NEW p \in pass.todo, Skip(p) \/ Audit(p) PROVE Settled(n) /\ SameFor(n)
  <2>1. pass'.busy = pass.busy /\ pass'.node = pass.node
    BY <1>4, SkipPass DEF Moves
  <2>2. Fewer(retries, retries') /\ pass.busy
    BY <1>4, Forgets, InHandType DEF InHand
  <2> QED
    BY <1>3, <1>4, <2>1, <2>2, JudgingQuiet DEF Fewer
<1>5. ASSUME NEW p \in pass.todo, HoldBack(p) \/ tryTake(p) PROVE Settled(n) /\ SameFor(n)
  <2>1. pass'.busy = pass.busy /\ pass'.node = pass.node
    BY <1>5, HoldPass, TakeMoves DEF Moves
  <2>2. retries' = retries /\ pass.busy
    BY <1>5, Zenon DEF HoldBack, tryTake, Judging
  <2> QED
    BY <1>3, <1>5, <2>1, <2>2, JudgingQuiet
<1>6. ASSUME NEW p \in pass.call, Accepted(p) PROVE Settled(n) /\ SameFor(n)
  <2>1. pass'.busy = pass.busy /\ pass'.node = pass.node
    BY <1>6, CallMoves
  <2>2. Fewer(retries, retries') /\ pass.busy
    BY <1>6, Forgets, InHandType DEF InHand
  <2> QED
    BY <1>3, <1>6, <2>1, <2>2, JudgingQuiet DEF Fewer
<1>7. ASSUME NEW p \in pass.call, NEW hint \in Hints, Refused(p, hint)
      PROVE  Settled(n) /\ SameFor(n)
  <2>1. pass'.busy = pass.busy /\ pass'.node = pass.node
    BY <1>7, CallMoves
  <2>2. /\ DOMAIN retries' = DOMAIN retries \cup {retryKey(p)}
        /\ \A j \in DOMAIN retries \ {retryKey(p)} : retries'[j] = retries[j]
    BY <1>7, Records
  <2>3. pass.busy /\ retryKey(p).node = pass.node
    BY InHandType DEF InHand, retryKey
  <2> QED
    BY <1>3, <1>7, <2>1, <2>2, <2>3, JudgingQuiet
<1>8. ASSUME Finish, n # pass.node PROVE Settled(n) /\ SameFor(n)
  <2>1. /\ pass.busy /\ UNCHANGED <<queue, class, mode, retries>>
        /\ \/ timer' = timer
           \/ timer' = [timer EXCEPT ![pass.node] = now + pass.requeueAfter]
        /\ waiting' = [waiting EXCEPT ![pass.node] = pass.deferred]
        /\ shown' = [shown EXCEPT ![pass.node] = classify(pass)]
        /\ lasted' = [lasted EXCEPT ![pass.node] = now - pass.start]
    BY <1>8, Zenon DEF Finish, Done
  <2> QED
    BY <1>8, <1>a, <2>1 DEF Settled, SameFor
<1>9. ASSUME FinishFails PROVE Settled(n) /\ SameFor(n)
  <2>1. /\ queue' = queue \cup {pass.node}
        /\ UNCHANGED <<class, timer, waiting, shown, mode, retries, lasted>>
    BY <1>9, Zenon DEF FinishFails
  <2> QED
    BY <1>1, <2>1 DEF Settled
<1>10. ~Restart
  BY DEF Restart, Settled
<1>11. ASSUME pass' = pass, queue \subseteq queue' PROVE Settled(n)
  BY <1>11 DEF Settled
<1>12. ASSUME NEW m \in Nodes, FireTimer(m) PROVE Settled(n) /\ SameFor(n)
  <2>1. /\ pass' = pass /\ queue' = queue \cup {m} /\ timer' = [timer EXCEPT ![m] = 0]
        /\ UNCHANGED <<class, waiting, shown, mode, retries, lasted>>
    BY <1>12, Zenon DEF FireTimer
  <2>2. n # m
    BY <2>1 DEF Settled
  <2> QED
    BY <1>11, <1>a, <2>1, <2>2 DEF SameFor
<1>13. ASSUME NEW m \in Nodes, NEW c \in Classes, Notify(m, c) PROVE Settled(n) /\ SameFor(n)
  <2>1. /\ pass' = pass /\ queue' = queue \cup {m} /\ class' = [class EXCEPT ![m] = c]
        /\ UNCHANGED <<timer, waiting, shown, mode, retries, lasted>>
    BY <1>13, Zenon DEF Notify
  <2>2. n # m
    BY <2>1 DEF Settled
  <2> QED
    BY <1>11, <1>a, <2>1, <2>2 DEF SameFor
<1>14. ASSUME UNCHANGED <<pass, queue, class, timer, waiting, shown, mode, retries, lasted>>
       PROVE  Settled(n) /\ SameFor(n)
  BY <1>1, <1>11, <1>14
<1>15. ASSUME SyncPods \/ Tick \/ UNCHANGED vars PROVE Settled(n) /\ SameFor(n)
  BY <1>14, <1>15, Zenon DEF SyncPods, Tick, vars
<1>16. ASSUME NEW x \in Names, NEW p \in PodType, PodWrite(x, p) PROVE Settled(n) /\ SameFor(n)
  BY <1>14, <1>16, Zenon DEF PodWrite
<1> QED
  BY <1>2, <1>4, <1>5, <1>6, <1>7, <1>8, <1>9, <1>10, <1>12, <1>13, <1>15, <1>16, Steps

(***************************************************************************)
(* The clock and the takes of other passes leave such a Node unable to     *)
(* take a token where it was.                                              *)
(***************************************************************************)
LEMMA SettledRefused ==
    ASSUME Typed, Bounded, Named, Listed, [Next]_vars, NEW n \in Nodes, Settled(n)', Settled(n)
    PROVE  /\ now' \in Nat /\ now' >= now
           /\ \A l \in Lossiness, t \in Nat : now' <= t /\ ~CanTake(l, n, t) => ~CanTake(l, n, t)'
<1>a. now \in Nat
  BY DEF Typed
<1>1. ASSUME UNCHANGED <<nodeBucket, globalBucket>>, now' \in {now, now + 1}
      PROVE  /\ now' \in Nat /\ now' >= now
             /\ \A l \in Lossiness, t \in Nat : now' <= t /\ ~CanTake(l, n, t) => ~CanTake(l, n, t)'
  BY <1>a, <1>1 DEF CanTake
<1>2. ASSUME NEW p \in pass.todo, tryTake(p)
      PROVE  /\ now' \in Nat /\ now' >= now
             /\ \A l \in Lossiness, t \in Nat : now' <= t /\ ~CanTake(l, n, t) => ~CanTake(l, n, t)'
  <2>1. now' = now
    BY <1>2, JudgingQuiet
  <2>2. n # p.node /\ pass.start \in Nat /\ pass.start <= now
    BY InHandType, TimeType DEF InHand, Settled
  <2>3. \A t \in Nat : now' <= t => pass.start <= t
    BY <1>a, <2>1, <2>2
  <2> QED
    BY <1>a, <1>2, <2>1, <2>2, <2>3, StaysRefused
<1>3. ~Restart
  BY DEF Restart, Settled
<1>4. ASSUME NEW m \in Nodes, Begin(m) \/ FireTimer(m) \/ \E c \in Classes : Notify(m, c)
      PROVE  UNCHANGED <<now, nodeBucket, globalBucket>>
  BY <1>4, Zenon DEF Begin, FireTimer, Notify, budgets
<1>5. ASSUME NEW p \in pass.todo, Skip(p) \/ Audit(p) \/ HoldBack(p)
      PROVE  UNCHANGED <<now, nodeBucket, globalBucket>>
  BY <1>5, Zenon DEF Skip, Audit, HoldBack, budgets
<1>6. ASSUME NEW p \in pass.call, Accepted(p) \/ \E hint \in Hints : Refused(p, hint)
      PROVE  UNCHANGED <<now, nodeBucket, globalBucket>>
  BY <1>6, Zenon DEF Accepted, Refused, budgets
<1>7. ASSUME Finish \/ FinishFails \/ SyncPods \/ UNCHANGED vars
      PROVE  UNCHANGED <<now, nodeBucket, globalBucket>>
  BY <1>7, Zenon DEF Finish, FinishFails, SyncPods, vars, budgets
<1>8. ASSUME NEW x \in Names, NEW p \in PodType, PodWrite(x, p)
      PROVE  UNCHANGED <<now, nodeBucket, globalBucket>>
  BY <1>8, Zenon DEF PodWrite, budgets
<1>9. ASSUME Tick PROVE now' = now + 1 /\ UNCHANGED <<nodeBucket, globalBucket>>
  BY <1>9, Zenon DEF Tick, budgets
<1> QED
  BY <1>1, <1>2, <1>3, <1>4, <1>5, <1>6, <1>7, <1>8, <1>9, Steps

(***************************************************************************)
(* The delayed requeue that a finishing pass leaves behind.                *)
(***************************************************************************)
LEMMA FinishTimer ==
    ASSUME Typed, Listed, Finish, pass.requeueAfter # 0
    PROVE  /\ pass.node \in Nodes /\ timer'[pass.node] \in Nat \ {0}
           /\ timer'[pass.node] <= now + pass.requeueAfter
<1>1. pass.node \in Nodes
  BY DEF Finish, Done, Listed
<1>2. now \in Nat /\ pass.requeueAfter \in Nat /\ timer \in [Nodes -> Nat]
  BY DEF Typed, PassType
<1>3. timer' = IF timer[pass.node] # 0 /\ timer[pass.node] <= now + pass.requeueAfter THEN timer
               ELSE [timer EXCEPT ![pass.node] = now + pass.requeueAfter]
  BY DEF Finish
<1> QED
  BY <1>1, <1>2, <1>3

(***************************************************************************)
(* A pass that finishes has met every entry of its Node in time.           *)
(***************************************************************************)
LEMMA FinishMet ==
    ASSUME Typed, Listed, Met, Finish, pass.node \notin queue, class[pass.node] = "game",
           NEW k \in DOMAIN retries, k.node = pass.node
    PROVE  pass.blocked /\ pass.requeueAfter # 0
           /\ pass.start + pass.requeueAfter <= retries[k]
<1>1. pass.todo = {} /\ pass.busy
  BY DEF Finish, Done
<1>2. pass.blocked /\ pass.start + pass.requeueAfter <= retries[k]
  BY <1>1 DEF Met
<1> QED
  BY <1>2 DEF Listed

(***************************************************************************)
(* Every step keeps the requeue of a settled Node early enough.            *)
(***************************************************************************)
LEMMA WokenNext ==
    ASSUME Jitter, Typed, Bounded, Named, Listed, Met, Awaits, WokenInTime, [Next]_vars
    PROVE  WokenInTime'
<1> SUFFICES ASSUME NEW n \in Nodes, Settled(n)'
             PROVE  /\ \A k \in DOMAIN retries' : (k.node = n /\ class'[n] = "game") =>
                          timer'[n] # 0 /\ timer'[n] <= retries'[k] + lasted'[n]
                    /\ \A l \in waiting'[n] : timer'[n] # 0
                          /\ \A t \in now'..(timer'[n] - 1 - lasted'[n]) : ~CanTake(l, n, t)'
  BY DEF WokenInTime, Settled
<1>a. /\ now \in Nat /\ waiting \in [Nodes -> SUBSET Lossiness] /\ timer \in [Nodes -> Nat]
      /\ lasted \in [Nodes -> Nat]
      /\ pass.requeueAfter \in Nat /\ \A k \in DOMAIN retries : retries[k] \in Nat
  BY DEF Typed, PassType
<1>1. CASE Settled(n) /\ SameFor(n)
  <2>1. /\ \A k \in DOMAIN retries : (k.node = n /\ class[n] = "game") =>
               timer[n] # 0 /\ timer[n] <= retries[k] + lasted[n]
        /\ \A l \in waiting[n] :
               timer[n] # 0 /\ \A t \in now..(timer[n] - 1 - lasted[n]) : ~CanTake(l, n, t)
    BY <1>1 DEF WokenInTime, Settled
  <2>2. /\ now' \in Nat /\ now' >= now
        /\ \A l \in Lossiness, t \in Nat : now' <= t /\ ~CanTake(l, n, t) => ~CanTake(l, n, t)'
    BY <1>1, SettledRefused
  <2>3. ASSUME NEW l \in waiting'[n], NEW t \in now'..(timer'[n] - 1 - lasted'[n])
        PROVE  ~CanTake(l, n, t)'
    <3>1. /\ l \in waiting[n] /\ l \in Lossiness /\ timer[n] \in Nat
          /\ lasted[n] \in Nat /\ t \in now'..(timer[n] - 1 - lasted[n])
      BY <1>1, <1>a, <2>3 DEF SameFor
    <3>2. t \in Nat /\ t \in now..(timer[n] - 1 - lasted[n]) /\ now' <= t
      BY <1>a, <2>2, <3>1
    <3>3. ~CanTake(l, n, t)
      BY <2>1, <3>1, <3>2
    <3> QED
      BY <2>2, <3>1, <3>2, <3>3
  <2> QED
    BY <1>1, <2>1, <2>3 DEF SameFor
<1>2. CASE Finish /\ n = pass.node
  <2>1. /\ n \notin queue /\ UNCHANGED <<now, class, retries, nodeBucket, globalBucket>>
        /\ waiting' = [waiting EXCEPT ![n] = pass.deferred]
        /\ lasted' = [lasted EXCEPT ![n] = now - pass.start]
    BY <1>2 DEF Finish, Settled, budgets
  <2>5. /\ pass.start \in Nat /\ pass.start <= now
        /\ lasted'[n] \in Nat /\ now = pass.start + lasted'[n]
    <3>1. pass.start \in Nat /\ pass.start <= now
      BY <1>2, TimeType DEF Finish, Done
    <3> QED
      BY <1>a, <2>1, <3>1
  <2>2. pass.requeueAfter # 0 =>
            timer'[n] \in Nat \ {0} /\ timer'[n] <= now + pass.requeueAfter
    BY <1>2, FinishTimer
  <2>3. ASSUME NEW k \in DOMAIN retries', k.node = n, class'[n] = "game"
        PROVE  timer'[n] # 0 /\ timer'[n] <= retries'[k] + lasted'[n]
    <3>1. pass.requeueAfter # 0 /\ pass.start + pass.requeueAfter <= retries[k]
      BY <1>2, <2>1, <2>3, FinishMet
    <3>2. retries[k] \in Nat
      BY <1>a, <2>1, <2>3
    <3> QED
      BY <1>a, <2>1, <2>2, <2>5, <3>1, <3>2
  <2>4. ASSUME NEW l \in waiting'[n]
        PROVE  timer'[n] # 0 /\ \A t \in now'..(timer'[n] - 1 - lasted'[n]) : ~CanTake(l, n, t)'
    <3>1. l \in pass.deferred
      BY <1>a, <2>1, <2>4
    <3>2. pass.requeueAfter # 0
      BY <3>1 DEF Listed
    <3>3. ASSUME NEW t \in now..(timer'[n] - 1 - lasted'[n]) PROVE ~CanTake(l, n, t)
      <4>1. t \in pass.start..(pass.start + pass.requeueAfter - 1)
        BY <1>a, <2>2, <2>5, <3>2, <3>3
      <4> QED
        BY <1>2, <3>1, <4>1 DEF Awaits
    <3> QED
      BY <2>1, <2>2, <3>2, <3>3 DEF CanTake
  <2> QED
    BY <2>3, <2>4
<1> QED
  BY <1>1, <1>2, SettledBefore

(***************************************************************************)
(* Every step keeps the Eviction condition of a settled Node honest.       *)
(***************************************************************************)
LEMMA HonestNext ==
    ASSUME Jitter, Typed, Bounded, Named, Listed, Ledger, Met, ConditionHonest, [Next]_vars, Ledger'
    PROVE  ConditionHonest'
<1> SUFFICES ASSUME NEW n \in Nodes, Settled(n)'
             PROVE  /\ (class'[n] = "game" /\ \E k \in DOMAIN retries' : k.node = n)
                          => shown'[n] = "Blocked"
                    /\ waiting'[n] # {} => shown'[n] \in {"Blocked", "BudgetWaiting"}
                    /\ shown'[n] \in {"Blocked", "BudgetWaiting"}
                          => (timer'[n] # 0 /\ mode' = "enforce")
                    /\ mode' # "enforce" => retries' = << >>
  BY DEF ConditionHonest, Settled
<1>1. mode' # "enforce" => retries' = << >>
  BY DEF Ledger
<1>2. CASE Settled(n) /\ SameFor(n)
  BY <1>1, <1>2 DEF ConditionHonest, Settled, SameFor
<1>3. CASE Finish /\ n = pass.node
  <2>1. /\ n \notin queue /\ UNCHANGED <<class, mode, retries>> /\ n \in Nodes
        /\ waiting' = [waiting EXCEPT ![n] = pass.deferred]
        /\ shown' = [shown EXCEPT ![n] = classify(pass)]
    BY <1>3 DEF Finish, Settled
  <2>2. waiting'[n] = pass.deferred /\ shown'[n] = classify(pass)
    BY <2>1 DEF Typed
  <2>3. pass.outcome \in {"", "Disabled", "Inactive"}
    BY DEF Typed, PassType
  <2>4. /\ pass.blocked \/ pass.deferred # {} => pass.requeueAfter # 0 /\ mode = "enforce"
        /\ pass.outcome # "" => pass.requeueAfter = 0
    BY DEF Listed
  <2>5. pass.blocked => classify(pass) = "Blocked"
    BY <2>4 DEF classify
  <2>6. pass.deferred # {} => classify(pass) \in {"Blocked", "BudgetWaiting"}
    BY <2>4 DEF classify
  <2>7. classify(pass) \in {"Blocked", "BudgetWaiting"} => pass.blocked \/ pass.deferred # {}
    BY <2>3 DEF classify
  <2>8. pass.requeueAfter # 0 => timer'[n] # 0
    BY <1>3, FinishTimer
  <2>9. ASSUME class'[n] = "game", NEW k \in DOMAIN retries', k.node = n PROVE pass.blocked
    BY <1>3, <2>1, <2>9, FinishMet
  <2> QED
    BY <1>1, <2>1, <2>2, <2>4, <2>5, <2>6, <2>7, <2>8, <2>9
<1> QED
  BY <1>2, <1>3, SettledBefore

----------------------------------------------------------------------------
(***************************************************************************)
(* The inductive invariant holds initially.                                *)
(***************************************************************************)
LEMMA InvInit == Init => IInv
<1> SUFFICES ASSUME Init PROVE IInv
  OBVIOUS
<1>1. Typed /\ Bounded
  BY TypedInit
<1>2. PICK running \in [Names -> PodType] :
         (\A x \in Names : running[x].name = x) /\ InitWith(running)
  BY DEF Init
<1>3. pods = running /\ cpods = running /\ retries = << >> /\ asked = << >>
      /\ queue = Nodes /\ pass = NoPass
  BY <1>2, Zenon DEF InitWith
<1>4. \A k : k \notin DOMAIN retries /\ k \notin DOMAIN asked
  BY <1>3
<1>5. /\ InHand = {} /\ pass.busy = FALSE /\ pass.call = {} /\ pass.deferred = {}
      /\ pass.outcome = "" /\ pass.blocked = FALSE
  BY <1>3 DEF InHand, NoPass
<1>6. Named
  BY <1>2, <1>3, Zenon DEF Named
<1>7. Snapshot
  <2>1. \A q \in PodType : Past(q, q)
    BY DEF Past, PodType
  <2> QED
    BY <1>3, <1>5, <2>1 DEF Snapshot
<1>8. Listed
  BY <1>3, <1>5, Zenon DEF Listed
<1>9. Ledger /\ Backoff
  BY <1>3, <1>4, <1>5, Zenon DEF Ledger, OneEntryPerPod, Backoff
<1>10. Met /\ Awaits
  BY <1>5, Zenon DEF Met, Awaits
<1>11. WokenInTime /\ ConditionHonest
  BY <1>3 DEF WokenInTime, ConditionHonest
<1> QED
  BY <1>1, <1>6, <1>7, <1>8, <1>9, <1>10, <1>11 DEF IInv

(***************************************************************************)
(* Every step keeps the inductive invariant.                               *)
(***************************************************************************)
LEMMA InvNext == ASSUME Jitter PROVE IInv /\ [Next]_vars => IInv'
<1> SUFFICES ASSUME IInv, [Next]_vars PROVE IInv'
  OBVIOUS
<1>1. /\ Typed /\ Bounded /\ Named /\ Snapshot /\ Listed /\ Ledger /\ Backoff /\ Met /\ Awaits
      /\ WokenInTime /\ ConditionHonest
  BY DEF IInv
<1>2. Typed' /\ Bounded'
  BY <1>1, TypedNext, BoundedNext
<1>3. Named' /\ Snapshot' /\ Listed'
  BY <1>1, SnapshotNext, ListedNext
<1>4. Ledger' /\ Backoff'
  BY <1>1, LedgerNext, BackoffNext
<1>5. Met' /\ Awaits'
  BY <1>1, MetNext, AwaitsNext
<1>6. WokenInTime' /\ ConditionHonest'
  BY <1>1, <1>4, WokenNext, HonestNext
<1> QED
  BY <1>2, <1>3, <1>4, <1>5, <1>6 DEF IInv

(***************************************************************************)
(* The inductive invariant implies the checked type invariant.             *)
(***************************************************************************)
LEMMA InvType == IInv => TypeOK
<1> SUFFICES ASSUME Typed PROVE TypeOK
  BY DEF IInv
<1>1. Cardinality(pass.call) <= 1
  <2>1. CASE pass.call = {}
    BY <2>1, FS_EmptySet
  <2>2. CASE pass.call # {}
    <3>1. PICK p \in pass.call : TRUE
      BY <2>2
    <3>2. \A q \in pass.call : q = p
      BY DEF Typed
    <3>3. pass.call = {p}
      BY <3>1, <3>2
    <3>4. Cardinality({p}) = 1
      BY FS_Singleton, Zenon
    <3> QED
      BY <3>3, <3>4
  <2> QED
    BY <2>1, <2>2
<1>2. /\ pass.busy \in BOOLEAN /\ pass.node \in Nodes \cup {NoNode} /\ pass.start \in Nat
      /\ pass.todo \subseteq PodType /\ pass.call \subseteq PodType
      /\ pass.requeueAfter \in Nat /\ pass.deferred \subseteq Lossiness
      /\ pass.audited \in BOOLEAN /\ pass.attempted \in BOOLEAN /\ pass.blocked \in BOOLEAN
      /\ pass.outcome \in Outcomes \cup {""}
  BY DEF Typed, PassType, Outcomes
<1>3. /\ DOMAIN retries \subseteq KeyType /\ \A k \in DOMAIN retries : retries[k] \in Nat
      /\ DOMAIN asked \subseteq KeyType /\ \A k \in DOMAIN asked : asked[k] \in AskType
  BY DEF Typed
<1> QED
  BY <1>1, <1>2, <1>3 DEF Typed, TypeOK, AskType

(***************************************************************************)
(* Every reachable state of Eviction satisfies the inductive invariant,    *)
(* whatever the Pods, Nodes, budgets and hints are.                        *)
(***************************************************************************)
THEOREM EvictionInvariant == ASSUME Jitter PROVE Spec => []IInv
BY InvInit, InvNext, PTL DEF Spec

(***************************************************************************)
(* Every reachable state of Eviction has the declared types.               *)
(***************************************************************************)
THEOREM EvictionType == ASSUME Jitter PROVE Spec => []TypeOK
BY EvictionInvariant, InvType, PTL

(***************************************************************************)
(* The ledger of retries never holds two incarnations of a Pod of a Node.  *)
(***************************************************************************)
THEOREM EvictionLedger == ASSUME Jitter PROVE Spec => []OneEntryPerPod
<1>1. IInv => OneEntryPerPod
  BY DEF IInv, Ledger
<1> QED
  BY <1>1, EvictionInvariant, PTL

(***************************************************************************)
(* The delayed requeue of a Node comes neither after the deadline of a     *)
(* blocked Pod nor after the moment a waiting one can be called for, but   *)
(* for the time that the Node's last pass took.                            *)
(***************************************************************************)
THEOREM EvictionWoken == ASSUME Jitter PROVE Spec => []WokenInTime
<1>1. IInv => WokenInTime
  BY DEF IInv
<1> QED
  BY <1>1, EvictionInvariant, PTL

(***************************************************************************)
(* The Eviction condition of a Node is honest about what is left to do.    *)
(***************************************************************************)
THEOREM EvictionHonest == ASSUME Jitter PROVE Spec => []ConditionHonest
<1>1. IInv => ConditionHonest
  BY DEF IInv
<1> QED
  BY <1>1, EvictionInvariant, PTL

(***************************************************************************)
(* A step that answers an Eviction call and takes a Pod away takes the Pod *)
(* that was judged, unchanged.                                             *)
(***************************************************************************)
LEMMA JudgedStep ==
    ASSUME Jitter, IInv, [Next]_vars, NEW p \in pass.call, pods' # pods, pass'.call = {}
    PROVE  /\ evictionDecision(pods[p.name]) /\ pods[p.name].node = pass.node
           /\ pods[p.name].lossy = p.lossy
<1>a. /\ Typed /\ Bounded /\ Named /\ Snapshot /\ Listed
      /\ \A q \in pass.call : q = p
  BY DEF IInv, Typed
<1>1. ASSUME preconditions(p)
      PROVE  /\ evictionDecision(pods[p.name]) /\ pods[p.name].node = pass.node
             /\ pods[p.name].lossy = p.lossy
  <2>1. /\ pods[p.name].exists /\ pods[p.name].uid = p.uid /\ pods[p.name].version = p.version
        /\ p.exists /\ p.node = pass.node /\ evictionDecision(p) /\ Past(p, pods[p.name])
    BY <1>a, <1>1 DEF preconditions, Listed, Snapshot, InHand
  <2>2. p = pods[p.name]
    BY <2>1 DEF Past
  <2> QED
    BY <2>1, <2>2
<1>2. ASSUME NEW q \in pass.call, Accepted(q) \/ \E hint \in Hints : Refused(q, hint)
      PROVE  preconditions(p)
  <2>1. preconditions(q)
    BY <1>2, Zenon DEF Accepted, Refused
  <2> QED
    BY <1>a, <2>1
<1>3. pass' # pass
  OBVIOUS
<1>4. ASSUME NEW n \in Nodes, Begin(n) \/ FireTimer(n) \/ \E c \in Classes : Notify(n, c)
      PROVE  FALSE
  BY <1>4, Zenon DEF Begin, FireTimer, Notify
<1>5. ASSUME NEW q \in pass.todo, Skip(q) \/ Audit(q) \/ HoldBack(q) \/ tryTake(q) PROVE FALSE
  BY <1>5, Zenon DEF Skip, Audit, HoldBack, tryTake
<1>6. ~(Finish \/ FinishFails \/ Restart \/ SyncPods \/ Tick \/ UNCHANGED vars)
  BY Zenon DEF Finish, FinishFails, Restart, SyncPods, Tick, vars
<1>7. ASSUME NEW x \in Names, NEW q \in PodType, PodWrite(x, q) PROVE FALSE
  BY <1>3, <1>7, Zenon DEF PodWrite
<1> QED
  BY <1>a, <1>1, <1>2, <1>4, <1>5, <1>6, <1>7, Steps

(***************************************************************************)
(* Whatever happens between the cached list and the Eviction call, the Pod *)
(* that is taken away passes every gate at that moment.                    *)
(***************************************************************************)
THEOREM EvictionJudged == ASSUME Jitter PROVE Spec => OnlyJudgedPods
<1> DEFINE Step == \A p \in pass.call : pods' # pods /\ pass'.call = {} =>
                      /\ evictionDecision(pods[p.name]) /\ pods[p.name].node = pass.node
                      /\ pods[p.name].lossy = p.lossy
<1>1. IInv /\ [Next]_vars => [Step]_<<pods, pass>>
  BY JudgedStep
<1>2. [][Step]_<<pods, pass>> => OnlyJudgedPods
  BY DEF OnlyJudgedPods
<1> QED
  BY <1>1, <1>2, EvictionInvariant, PTL DEF Spec

(***************************************************************************)
(* A step that calls for a Pod comes no earlier than the backoff asked     *)
(* for, counted from the start of the pass that was refused.               *)
(***************************************************************************)
LEMMA HonouredStep ==
    ASSUME Jitter, IInv, [Next]_vars, NEW p \in pass'.call, p \notin pass.call,
           retryKey(p) \in DOMAIN asked
    PROVE  now >= asked[retryKey(p)].until - asked[retryKey(p)].ran
<1>a. /\ Typed /\ Bounded /\ Named /\ Listed /\ Backoff
      /\ now \in Nat /\ \A k \in DOMAIN asked : due(asked[k]) \in Int
      /\ \A k \in DOMAIN retries : retries[k] \in Nat
  BY DEF IInv, Typed, AskType, due
<1>1. ASSUME NEW q \in pass.todo, tryTake(q)
      PROVE  now >= asked[retryKey(p)].until - asked[retryKey(p)].ran
  <2>1. p = q
    BY <1>1, <1>a, TakeMoves
  <2>2. ~heldBack(q) /\ pass.busy
    BY <1>1, Zenon DEF tryTake, Judging
  <2>3. Time = pass.start /\ pass.start \in Nat /\ pass.start <= now
    BY <1>a, <2>2, TimeType
  <2>4. ~(due(asked[retryKey(p)]) > pass.start)
    BY <1>a, <2>1, <2>2, <2>3 DEF heldBack, Backoff
  <2>5. due(asked[retryKey(p)]) <= now
    BY <1>a, <2>3, <2>4
  <2> QED
    BY <1>a, <2>5 DEF due
<1>2. pass'.call # {} /\ pass' # pass
  OBVIOUS
<1>3. ASSUME NEW n \in Nodes, Begin(n) PROVE FALSE
  BY <1>2, <1>3, <1>a, BeginPass
<1>4. ASSUME NEW n \in Nodes, FireTimer(n) \/ \E c \in Classes : Notify(n, c) PROVE FALSE
  BY <1>2, <1>4, Zenon DEF FireTimer, Notify
<1>5. ASSUME NEW q \in pass.todo, Skip(q) \/ Audit(q) \/ HoldBack(q) PROVE FALSE
  BY <1>5, <1>a, SkipPass, HoldPass DEF Moves
<1>6. ASSUME NEW q \in pass.call, Accepted(q) \/ \E hint \in Hints : Refused(q, hint) PROVE FALSE
  BY <1>2, <1>6, <1>a, CallMoves
<1>7. pass' # NoPass
  BY <1>2, Idle
<1>8. ~(Finish \/ FinishFails \/ Restart \/ SyncPods \/ Tick \/ UNCHANGED vars)
  BY <1>2, <1>7, Zenon DEF Finish, FinishFails, Restart, SyncPods, Tick, vars
<1>9. ASSUME NEW x \in Names, NEW q \in PodType, PodWrite(x, q) PROVE FALSE
  BY <1>2, <1>9, Zenon DEF PodWrite
<1> QED
  BY <1>a, <1>1, <1>3, <1>4, <1>5, <1>6, <1>8, <1>9, Steps

(***************************************************************************)
(* No Pod is called for again before the backoff and the hint are over,    *)
(* counted from the start of the pass that was refused: however long       *)
(* passes and their calls take, a caller is early by no more than the time *)
(* that pass had been running when it was refused.                         *)
(***************************************************************************)
THEOREM EvictionRetry == ASSUME Jitter PROVE Spec => RetryHonoured
<1> DEFINE Step == \A p \in pass'.call \ pass.call :
                      retryKey(p) \in DOMAIN asked =>
                          now >= asked[retryKey(p)].until - asked[retryKey(p)].ran
<1>1. IInv /\ [Next]_vars => [Step]_pass
  BY HonouredStep
<1>2. [][Step]_pass => RetryHonoured
  BY DEF RetryHonoured
<1> QED
  BY <1>1, <1>2, EvictionInvariant, PTL DEF Spec
=============================================================================
