----------------------------- MODULE BudgetProofs -----------------------------
(***************************************************************************)
(* Proofs about EvictionBudget, for every set of Nodes and every class of  *)
(* node and global buckets: the inductive invariant Covering, the rate     *)
(* bound, the wait a refused caller is given and the refinement of         *)
(* RateLimiter.                                                            *)
(***************************************************************************)
EXTENDS EvictionBudget, BucketProofs

(***************************************************************************)
(* A period is the time a token takes, rounded down.                       *)
(***************************************************************************)
LEMMA PeriodType ==
    ASSUME NEW class \in ClassType
    PROVE  period(class) \in Nat /\ period(class) * class.count <= class.interval
           /\ class.interval < period(class) * class.count + class.count
  BY Division DEF ClassType, period

(***************************************************************************)
(* Each further token costs at least a period.                             *)
(***************************************************************************)
LEMMA ConsumedGrows ==
    ASSUME NEW class \in ClassType, NEW k \in Nat, NEW j \in Nat, k <= j
    PROVE  consumed(k, class) + (j - k) * period(class) <= consumed(j, class)
  <1> DEFINE I == class.interval
             c == class.count
             p == period(class)
             x == consumed(k, class)
             y == consumed(j, class)
  <1>1. I \in Nat \ {0} /\ c \in Nat \ {0}
    BY DEF ClassType
  <1>2. p \in Nat /\ p * c <= I
    BY PeriodType
  <1>3. x \in Nat /\ x * c <= k * I /\ y \in Nat /\ j * I < y * c + c
    BY Consumed
  <1> HIDE DEF I, c, p, x, y
  <1>4. j - k \in Nat
    BY Z3
  <1>5. (p * c) * (j - k) <= I * (j - k)
    BY <1>1, <1>2, <1>4, Monotone
  <1>6. (x + (j - k) * p) * c = x * c + (p * c) * (j - k)
    BY <1>1, <1>2, <1>3, <1>4, Z3
  <1>7. I * (j - k) = j * I - k * I
    BY <1>1, Z3
  <1>8. (y + 1) * c = y * c + c
    BY <1>1, <1>3, Z3
  <1>9. x + (j - k) * p \in Int /\ (j - k) * p \in Int
    BY <1>2, <1>3, <1>4, Z3
  <1>10. (x + (j - k) * p) * c < (y + 1) * c
    BY <1>1, <1>2, <1>3, <1>4, <1>5, <1>6, <1>7, <1>8, Z3
  <1>11. x + (j - k) * p < y + 1
    BY <1>1, <1>3, <1>9, <1>10, Cancel
  <1>12. QED
    BY <1>3, <1>9, <1>11 DEF x, y, p

(***************************************************************************)
(* What is left over when the time is not worth another token is at most   *)
(* one period and one unit of rounding.                                    *)
(***************************************************************************)
LEMMA Leftover ==
    ASSUME NEW class \in ClassType, NEW k \in Nat, NEW e \in Nat,
           e * class.count < (k + 1) * class.interval
    PROVE  e - consumed(k, class) <= period(class) + 1
  <1> DEFINE I == class.interval
             c == class.count
             p == period(class)
             x == consumed(k, class)
  <1>1. I \in Nat \ {0} /\ c \in Nat \ {0}
    BY DEF ClassType
  <1>2. p \in Nat /\ I < p * c + c
    BY PeriodType
  <1>3. x \in Nat /\ k * I < x * c + c
    BY Consumed
  <1>4. e * c < (k + 1) * I
    OBVIOUS
  <1> HIDE DEF I, c, p, x
  <1>5. (x + p + 2) * c = x * c + c + p * c + c
    BY <1>1, <1>2, <1>3, Z3
  <1>6. (k + 1) * I = k * I + I
    BY <1>1, Z3
  <1>7. e * c < (x + p + 2) * c
    BY <1>1, <1>2, <1>3, <1>4, <1>5, <1>6, Z3
  <1>8. e < x + p + 2
    BY <1>1, <1>2, <1>3, <1>7, Cancel
  <1>9. QED
    BY <1>2, <1>3, <1>8 DEF x, p

(***************************************************************************)
(* The worth of a bucket and that of a burst are natural numbers.          *)
(***************************************************************************)
LEMMA WorthType ==
    ASSUME NEW class \in ClassType, NEW b \in BucketType
    PROVE  worth(b, class) \in Nat /\ burst(class) \in Nat
           /\ b.tokens * period(class) \in Nat
  <1>1. period(class) \in Nat
    BY PeriodType
  <1>2. b.tokens \in Nat /\ b.residue \in Nat /\ class.capacity \in Nat
    BY DEF BucketType, ClassType
  <1>3. b.tokens * period(class) \in Nat /\ class.capacity * period(class) \in Nat
    BY <1>1, <1>2, Z3
  <1>4. QED
    BY <1>2, <1>3 DEF worth, burst

(***************************************************************************)
(* A refill never makes a bucket worth more than a burst.                  *)
(***************************************************************************)
LEMMA RefillBurst ==
    ASSUME NEW class \in ClassType, NEW b \in BucketType, NEW t \in Nat \ {0},
           b.tokens <= class.capacity, b.updated <= t, worth(b, class) <= burst(class)
    PROVE  worth(refill(b, class, t), class) <= burst(class)
  <1> DEFINE p == period(class)
  <1>1. p \in Nat
    BY PeriodType
  <1>2. b.tokens \in Nat /\ b.residue \in Nat /\ class.capacity \in Nat
    BY DEF BucketType, ClassType
  <1>3. CASE b.updated = 0
    <2>1. b.tokens * p <= class.capacity * p
      BY <1>1, <1>2, Monotone
    <2>2. worth(refill(b, class, t), class) = b.tokens * p
      BY <1>3, WorthType DEF refill, worth, BucketType
    <2>3. QED
      BY <1>1, <1>2, <2>1, <2>2, WorthType, Z3 DEF burst
  <1>4. CASE b.updated = t
    BY <1>4, RefillNow
  <1>5. CASE b.updated # 0 /\ b.updated < t
    <2> DEFINE e == t - b.updated + b.residue
               room == class.capacity - b.tokens
    <2>1. PICK k \in Nat : Adds(b, class, t, e, room, k)
      BY <1>5, Refilled
    <2>2. e \in Nat /\ consumed(k, class) \in Nat
      BY <1>5, Consumed DEF BucketType
    <2>3. CASE k >= room
      <3>1. refill(b, class, t).tokens = class.capacity /\ refill(b, class, t).residue = 0
        BY <2>1, <2>3, <1>2 DEF Adds
      <3>2. QED
        BY <3>1, <1>1, <1>2, Z3 DEF worth, burst
    <2>4. CASE k < room
      <3>1. /\ refill(b, class, t).tokens = b.tokens + k
            /\ refill(b, class, t).residue = e - consumed(k, class)
        BY <2>1, <2>4, <1>2 DEF Adds
      <3>2. e * class.count < (k + 1) * class.interval
        BY <2>1, <2>4 DEF Adds
      <3>3. e - consumed(k, class) <= p + 1
        BY <2>2, <3>2, Leftover
      <3>4. (b.tokens + k + 1) * p <= class.capacity * p
        BY <1>1, <1>2, <2>4, Monotone
      <3>5. (b.tokens + k + 1) * p = (b.tokens + k) * p + p
        BY <1>1, <1>2, Z3
      <3>6. (b.tokens + k) * p \in Nat /\ class.capacity * p \in Nat
        BY <1>1, <1>2, Z3
      <3>7. QED
        BY <1>1, <1>2, <2>2, <3>1, <3>3, <3>4, <3>5, <3>6 DEF worth, burst
    <2>5. QED
      BY <2>3, <2>4, <1>2
  <1>6. QED
    BY <1>3, <1>4, <1>5 DEF BucketType

(***************************************************************************)
(* A refill makes a bucket worth at most the time since the last one more. *)
(***************************************************************************)
LEMMA RefillGain ==
    ASSUME NEW class \in ClassType, NEW b \in BucketType, NEW t \in Nat \ {0},
           b.tokens <= class.capacity, b.updated # 0, b.updated <= t
    PROVE  worth(refill(b, class, t), class) <= worth(b, class) + t - b.updated
  <1> DEFINE p == period(class)
  <1>1. p \in Nat
    BY PeriodType
  <1>2. b.tokens \in Nat /\ b.residue \in Nat /\ b.updated \in Nat /\ class.capacity \in Nat
    BY DEF BucketType, ClassType
  <1>3. CASE b.updated = t
    BY <1>2, <1>3, RefillNow, WorthType
  <1>4. CASE b.updated < t
    <2> DEFINE e == t - b.updated + b.residue
               room == class.capacity - b.tokens
    <2>1. PICK k \in Nat : Adds(b, class, t, e, room, k)
      BY <1>4, Refilled
    <2>2. e \in Nat /\ consumed(k, class) \in Nat
      BY <1>4, Consumed DEF BucketType
    <2>3. consumed(k, class) <= e
      <3>1. k * class.interval <= e * class.count
        BY <2>1 DEF Adds
      <3>2. QED
        BY <2>2, <3>1, Affordable
    <2>4. k * p <= consumed(k, class)
      <3>1. consumed(0, class) + (k - 0) * p <= consumed(k, class)
        BY ConsumedGrows
      <3>2. consumed(0, class) \in Nat
        BY Consumed
      <3>3. QED
        BY <1>1, <2>2, <3>1, <3>2, Z3
    <2>5. (b.tokens + k) * p = b.tokens * p + k * p /\ b.tokens * p \in Nat /\ k * p \in Nat
      BY <1>1, <1>2, Z3
    <2>6. /\ refill(b, class, t).tokens = b.tokens + k
          /\ refill(b, class, t).residue <= e - consumed(k, class)
          /\ refill(b, class, t).residue \in Nat
      BY <1>2, <2>1, <2>2, <2>3 DEF Adds
    <2>7. QED
      BY <1>1, <1>2, <2>2, <2>4, <2>5, <2>6 DEF worth
  <1>5. QED
    BY <1>2, <1>3, <1>4

(***************************************************************************)
(* Refilling a unit of time later makes a bucket worth at most one more:   *)
(* no moment is worth waiting for beyond the time it takes.                *)
(***************************************************************************)
LEMMA RefillStep ==
    ASSUME NEW class \in ClassType, NEW b \in BucketType, NEW t \in Nat \ {0},
           b.tokens <= class.capacity, b.updated <= t
    PROVE  worth(refill(b, class, t + 1), class) <= worth(refill(b, class, t), class) + 1
  <1> DEFINE p == period(class)
             now1 == refill(b, class, t)
             now2 == refill(b, class, t + 1)
  <1>1. p \in Nat
    BY PeriodType
  <1>2. /\ b.tokens \in Nat /\ b.residue \in Nat /\ b.updated \in Nat
        /\ class.capacity \in Nat /\ class.interval \in Nat \ {0} /\ class.count \in Nat \ {0}
    BY DEF BucketType, ClassType
  <1>3. CASE b.updated = 0
    <2>1. worth(now2, class) = worth(now1, class) /\ now1 \in BucketType
      BY <1>3 DEF refill, worth, BucketType
    <2>2. QED
      BY <2>1, WorthType
  <1>4. CASE b.updated = t
    <2>1. now1 = b
      BY <1>4, RefillNow
    <2>2. worth(now2, class) <= worth(b, class) + (t + 1) - b.updated
      BY <1>2, <1>4, RefillGain
    <2>3. QED
      BY <1>4, <2>1, <2>2, WorthType
  <1>5. CASE b.updated # 0 /\ b.updated < t
    <2> DEFINE e == t - b.updated + b.residue
               room == class.capacity - b.tokens
    <2>1. PICK k \in Nat : Adds(b, class, t, e, room, k)
      BY <1>5, Refilled
    <2>2. e \in Nat /\ room \in Nat /\ (t + 1) - b.updated + b.residue = e + 1
      BY <1>2, <1>5
    <2>3. PICK j \in Nat : Adds(b, class, t + 1, e + 1, room, j)
      BY <1>2, <1>5, <2>2, Refilled
    <2> HIDE DEF e, room
    <2>4. /\ k <= room /\ k * class.interval <= e * class.count
          /\ now1.tokens = b.tokens + k
          /\ now1.residue = IF k >= room THEN 0 ELSE e - consumed(k, class)
      BY <2>1 DEF Adds
    <2>5. /\ j <= room /\ j * class.interval <= (e + 1) * class.count
          /\ j < room => (e + 1) * class.count < (j + 1) * class.interval
          /\ now2.tokens = b.tokens + j
          /\ now2.residue = IF j >= room THEN 0 ELSE e + 1 - consumed(j, class)
      <3>1. now2 = [tokens |-> b.tokens + j,
                    residue |-> IF j >= room THEN 0 ELSE e + 1 - consumed(j, class),
                    updated |-> t + 1]
        BY <1>2, <2>3, <2>2, Consumed DEF Adds
      <3>2. /\ j <= room /\ j * class.interval <= (e + 1) * class.count
            /\ j < room => (e + 1) * class.count < (j + 1) * class.interval
        BY <2>3 DEF Adds
      <3>3. QED
        BY <3>1, <3>2
    <2> HIDE DEF now1, now2
    <2>6. k <= j
      <3>1. ASSUME j < k PROVE FALSE
        <4>1. (e + 1) * class.count < (j + 1) * class.interval
          BY <2>2, <2>4, <2>5, <3>1
        <4>2. (j + 1) * class.interval <= k * class.interval
          BY <1>2, <3>1, Monotone
        <4>3. e * class.count <= (e + 1) * class.count
          BY <1>2, <2>2, Monotone
        <4>4. QED
          BY <1>2, <2>2, <2>4, <4>1, <4>2, <4>3, Z3
      <3>2. QED
        BY <3>1
    <2>7. /\ consumed(k, class) \in Nat /\ consumed(j, class) \in Nat
          /\ consumed(k, class) + (j - k) * p <= consumed(j, class)
          /\ consumed(j, class) <= e + 1
      BY <2>2, <2>5, <2>6, Consumed, ConsumedGrows, Affordable
    <2>8. /\ (b.tokens + j) * p = (b.tokens + k) * p + (j - k) * p
          /\ (b.tokens + k) * p \in Nat
          /\ (j - k) * p \in Nat
      BY <1>1, <1>2, <2>6, Z3
    <2>9. CASE k >= room
      <3>1. j = k
        BY <2>2, <2>4, <2>5, <2>6, <2>9
      <3>2. QED
        BY <1>1, <1>2, <2>4, <2>5, <2>8, <2>9, <3>1 DEF worth, now1, now2
    <2>10. CASE k < room
      <3>1. now1.residue = e - consumed(k, class)
        BY <2>2, <2>4, <2>10
      <3>2. now2.residue <= e + 1 - consumed(j, class) /\ now2.residue \in Int
        BY <2>2, <2>5, <2>7
      <3>3. worth(now1, class) = (b.tokens + k) * p + e - consumed(k, class)
        BY <2>2, <2>4, <2>7, <2>8, <3>1 DEF worth
      <3>4. worth(now2, class) = (b.tokens + k) * p + (j - k) * p + now2.residue
        BY <2>5, <2>8 DEF worth
      <3>5. QED
        BY <2>2, <2>7, <2>8, <3>2, <3>3, <3>4 DEF now1, now2
    <2>11. QED
      BY <2>2, <2>9, <2>10
  <1>6. QED
    BY <1>2, <1>3, <1>4, <1>5

----------------------------------------------------------------------------
(***************************************************************************)
(* Covered at a time t, for an observer who counts from s on. A refill     *)
(* keeps a bucket covered, and so does the grant that follows it.          *)
(***************************************************************************)
CoveredAt(b, class, used, t, s) ==
    /\ b.tokens <= class.capacity /\ b.updated <= t
    /\ worth(b, class) <= burst(class)
    /\ b.updated < s => used = 0
    /\ b.updated >= s =>
          used * period(class) + worth(b, class) <= burst(class) + b.updated - s

spend(b) == [b EXCEPT !.tokens = @ - 1]

(***************************************************************************)
(* A token spent is a period of worth spent.                               *)
(***************************************************************************)
LEMMA SpendWorth ==
    ASSUME NEW class \in ClassType, NEW b \in BucketType, b.tokens >= 1
    PROVE  /\ spend(b) \in BucketType
           /\ spend(b).tokens = b.tokens - 1 /\ spend(b).updated = b.updated
           /\ worth(spend(b), class) = worth(b, class) - period(class)
  <1>1. b.tokens \in Nat /\ b.residue \in Nat /\ period(class) \in Nat
    BY PeriodType DEF BucketType
  <1>2. /\ spend(b) \in BucketType
        /\ spend(b).tokens = b.tokens - 1 /\ spend(b).updated = b.updated
        /\ spend(b).residue = b.residue
    BY DEF spend, BucketType
  <1>3. (b.tokens - 1) * period(class) = b.tokens * period(class) - period(class)
        /\ b.tokens * period(class) \in Nat
    BY <1>1, Z3
  <1>4. QED
    BY <1>1, <1>2, <1>3 DEF worth

(***************************************************************************)
(* A refill keeps a bucket covered, and covers all the time up to now.     *)
(***************************************************************************)
LEMMA RefillCovered ==
    ASSUME NEW class \in ClassType, NEW b \in BucketType, NEW used \in Nat,
           NEW t \in Nat \ {0}, NEW s \in Nat \ {0}, s <= t,
           CoveredAt(b, class, used, t, s)
    PROVE  /\ refill(b, class, t) \in BucketType
           /\ CoveredAt(refill(b, class, t), class, used, t, s)
           /\ used * period(class) + worth(refill(b, class, t), class)
                <= burst(class) + t - s
  <1> DEFINE o == refill(b, class, t)
             u == used * period(class)
  <1>1. /\ b.tokens <= class.capacity /\ b.updated <= t /\ b.updated \in Nat
        /\ worth(b, class) <= burst(class)
    BY DEF CoveredAt, BucketType
  <1>2. o \in BucketType /\ o.tokens <= class.capacity /\ o.updated = t
    BY <1>1, RefillType
  <1>3. worth(o, class) <= burst(class)
    BY <1>1, RefillBurst
  <1>4. worth(o, class) \in Nat /\ worth(b, class) \in Nat /\ burst(class) \in Nat
    BY <1>2, WorthType
  <1>5. u \in Nat /\ (used = 0 => u = 0)
    BY PeriodType, Z3
  <1>6. u + worth(o, class) <= burst(class) + t - s
    <2>1. CASE b.updated < s
      <3>1. used = 0
        BY <2>1 DEF CoveredAt
      <3>2. QED
        BY <1>3, <1>4, <1>5, <3>1
    <2>2. CASE b.updated >= s
      <3>1. u + worth(b, class) <= burst(class) + b.updated - s
        BY <2>2 DEF CoveredAt
      <3>2. worth(o, class) <= worth(b, class) + t - b.updated
        BY <1>1, <2>2, RefillGain
      <3> HIDE DEF u, o
      <3>3. QED
        BY <1>1, <1>4, <1>5, <3>1, <3>2
    <2>3. QED
      BY <1>1, <2>1, <2>2
  <1>7. QED
    BY <1>2, <1>3, <1>6 DEF CoveredAt

(***************************************************************************)
(* A grant out of a bucket that is up to date keeps it covered.            *)
(***************************************************************************)
LEMMA SpendCovered ==
    ASSUME NEW class \in ClassType, NEW b \in BucketType, NEW used \in Nat,
           NEW t \in Nat \ {0}, NEW s \in Nat \ {0}, s <= t, b.updated = t,
           CoveredAt(b, class, used, t, s), b.tokens >= 1
    PROVE  spend(b) \in BucketType /\ CoveredAt(spend(b), class, used + 1, t, s)
  <1>1. /\ spend(b) \in BucketType
        /\ spend(b).tokens = b.tokens - 1 /\ spend(b).updated = t
        /\ worth(spend(b), class) = worth(b, class) - period(class)
    BY SpendWorth
  <1>2. worth(b, class) \in Nat /\ burst(class) \in Nat /\ period(class) \in Nat
    BY WorthType, PeriodType
  <1>3. used * period(class) + worth(b, class) <= burst(class) + t - s
        /\ worth(b, class) <= burst(class) /\ b.tokens <= class.capacity
    BY DEF CoveredAt
  <1>4. (used + 1) * period(class) = used * period(class) + period(class)
        /\ used * period(class) \in Nat
    BY <1>2, Z3
  <1>5. b.tokens \in Nat /\ class.capacity \in Nat
    BY DEF BucketType, ClassType
  <1>6. QED
    BY <1>1, <1>2, <1>3, <1>4, <1>5 DEF CoveredAt

(***************************************************************************)
(* A new bucket is covered, whenever the observer begins to count.         *)
(***************************************************************************)
LEMMA FullCovered ==
    ASSUME NEW class \in ClassType, NEW t \in Nat, NEW s \in Nat \ {0}
    PROVE  full(class) \in BucketType /\ CoveredAt(full(class), class, 0, t, s)
  <1>1. class.capacity \in Nat /\ period(class) \in Nat
    BY PeriodType DEF ClassType
  <1>2. /\ full(class) \in BucketType
        /\ full(class).tokens = class.capacity /\ full(class).residue = 0
        /\ full(class).updated = 0
    BY <1>1 DEF full, BucketType
  <1>3. worth(full(class), class) <= burst(class)
    <2>1. class.capacity * period(class) \in Nat
      BY <1>1, Z3
    <2>2. QED
      BY <1>2, <2>1 DEF worth, burst
  <1>4. QED
    BY <1>1, <1>2, <1>3 DEF CoveredAt

(***************************************************************************)
(* Covering in terms of CoveredAt.                                         *)
(***************************************************************************)
LEMMA CoveringAt ==
    Covering <=>
      /\ since <= now
      /\ \A n \in Nodes : CoveredAt(nodeBucket[n], PerNode, spent[n], now, since)
      /\ CoveredAt(globalBucket, Global, granted, now, since)
  BY DEF Covering, Covered, CoveredAt

(***************************************************************************)
(* The same one step later.                                                *)
(***************************************************************************)
LEMMA CoveringAtNext ==
    Covering' <=>
      /\ since' <= now'
      /\ \A n \in Nodes : CoveredAt(nodeBucket'[n], PerNode, spent'[n], now', since')
      /\ CoveredAt(globalBucket', Global, granted', now', since')
  BY DEF Covering, Covered, CoveredAt

----------------------------------------------------------------------------
(***************************************************************************)
(* The two outcomes of tryTake.                                            *)
(***************************************************************************)
nodeNow(n) == refill(nodeBucket[n], PerNode, now)

globalNow == refill(globalBucket, Global, now)

Granted(n) ==
    /\ nodeNow(n).tokens >= 1 /\ globalNow.tokens >= 1
    /\ nodeBucket' = [nodeBucket EXCEPT ![n] = spend(nodeNow(n))]
    /\ globalBucket' = spend(globalNow)
    /\ refused' = [refused EXCEPT ![n] = 0]
    /\ spent' = [spent EXCEPT ![n] = @ + 1] /\ granted' = granted + 1
    /\ UNCHANGED <<now, since>>

Refused(n) ==
    /\ ~(nodeNow(n).tokens >= 1 /\ globalNow.tokens >= 1)
    /\ nodeBucket' = [nodeBucket EXCEPT ![n] = nodeNow(n)]
    /\ globalBucket' = globalNow
    /\ refused' = [refused EXCEPT ![n] = now + takeWait(nodeNow(n), globalNow, PerNode, Global)]
    /\ UNCHANGED <<now, since, spent, granted>>

(***************************************************************************)
(* tryTake either grants an eviction or refuses it.                        *)
(***************************************************************************)
LEMMA TakeOutcome ==
    ASSUME NEW n \in Nodes, Take(n)
    PROVE  Granted(n) \/ Refused(n)
  <1> DEFINE o == nodeNow(n)
             g == globalNow
             r == taken(nodeBucket[n], globalBucket, PerNode, Global, now)
  <1>1. CASE o.tokens >= 1 /\ g.tokens >= 1
    <2>1. r = [ok |-> TRUE, own |-> spend(o), all |-> spend(g), wait |-> 0]
      BY <1>1, Zenon DEF taken, nodeNow, globalNow, spend
    <2> HIDE DEF r, o, g
    <2>2. r.ok = TRUE /\ r.own = spend(o) /\ r.all = spend(g)
      BY <2>1
    <2>3. QED
      BY <1>1, <2>2, Zenon DEF Take, tryTake, Granted, r, o, g
  <1>2. CASE ~(o.tokens >= 1 /\ g.tokens >= 1)
    <2>1. r = [ok |-> FALSE, own |-> o, all |-> g, wait |-> takeWait(o, g, PerNode, Global)]
      BY <1>2, Zenon DEF taken, nodeNow, globalNow
    <2> HIDE DEF r, o, g
    <2>2. r.ok = FALSE /\ r.own = o /\ r.all = g /\ r.wait = takeWait(o, g, PerNode, Global)
      BY <2>1
    <2>3. QED
      BY <1>2, <2>2, Zenon DEF Take, tryTake, Refused, r, o, g
  <1>3. QED
    BY <1>1, <1>2, Zenon

(***************************************************************************)
(* A refused caller is never told to come back at once.                    *)
(***************************************************************************)
LEMMA TakeWaitType ==
    ASSUME NEW o \in BucketType, NEW g \in BucketType
    PROVE  takeWait(o, g, PerNode, Global) \in Nat \ {0}
  BY WaitType, BudgetAssumption DEF takeWait, longer

----------------------------------------------------------------------------
(***************************************************************************)
(* The inductive invariant.                                                *)
(***************************************************************************)
IInv == TypeOK /\ Covering

(***************************************************************************)
(* The invariant holds at the start, with full buckets.                    *)
(***************************************************************************)
LEMMA InitCovered == Init => IInv
  <1> SUFFICES ASSUME Init PROVE IInv
    OBVIOUS
  <1>1. full(PerNode) \in BucketType /\ CoveredAt(full(PerNode), PerNode, 0, 1, 1)
    BY BudgetAssumption, FullCovered
  <1>2. full(Global) \in BucketType /\ CoveredAt(full(Global), Global, 0, 1, 1)
    BY BudgetAssumption, FullCovered
  <1>3. TypeOK
    BY <1>1, <1>2 DEF Init, TypeOK
  <1>4. Covering
    BY <1>1, <1>2, CoveringAt DEF Init
  <1>5. QED
    BY <1>3, <1>4 DEF IInv

(***************************************************************************)
(* What a pass finds when it has brought its buckets up to date.           *)
(***************************************************************************)
LEMMA UpToDate ==
    ASSUME IInv, NEW n \in Nodes
    PROVE  /\ nodeNow(n) \in BucketType /\ nodeNow(n).updated = now
           /\ CoveredAt(nodeNow(n), PerNode, spent[n], now, since)
           /\ globalNow \in BucketType /\ globalNow.updated = now
           /\ CoveredAt(globalNow, Global, granted, now, since)
  <1>1. /\ nodeBucket[n] \in BucketType /\ globalBucket \in BucketType
        /\ now \in Nat \ {0} /\ since \in Nat \ {0} /\ spent[n] \in Nat /\ granted \in Nat
    BY DEF IInv, TypeOK
  <1>2. /\ since <= now
        /\ CoveredAt(nodeBucket[n], PerNode, spent[n], now, since)
        /\ CoveredAt(globalBucket, Global, granted, now, since)
    BY CoveringAt DEF IInv
  <1>3. /\ nodeBucket[n].tokens <= PerNode.capacity /\ nodeBucket[n].updated <= now
        /\ globalBucket.tokens <= Global.capacity /\ globalBucket.updated <= now
    BY <1>2 DEF CoveredAt
  <1>4. QED
    BY <1>1, <1>2, <1>3, RefillCovered, RefillType, BudgetAssumption DEF nodeNow, globalNow

(***************************************************************************)
(* tryTake keeps the invariant, whether it grants or refuses.              *)
(***************************************************************************)
LEMMA TakeCovered ==
    ASSUME IInv, NEW n \in Nodes, Take(n)
    PROVE  IInv'
  <1>1. /\ nodeNow(n) \in BucketType /\ nodeNow(n).updated = now
        /\ CoveredAt(nodeNow(n), PerNode, spent[n], now, since)
        /\ globalNow \in BucketType /\ globalNow.updated = now
        /\ CoveredAt(globalNow, Global, granted, now, since)
    BY UpToDate
  <1>2. /\ nodeBucket \in [Nodes -> BucketType] /\ refused \in [Nodes -> Nat]
        /\ now \in Nat \ {0} /\ since \in Nat \ {0}
        /\ spent \in [Nodes -> Nat] /\ granted \in Nat
    BY DEF IInv, TypeOK
  <1>3. /\ since <= now
        /\ \A m \in Nodes : CoveredAt(nodeBucket[m], PerNode, spent[m], now, since)
    BY CoveringAt DEF IInv
  <1>4. CASE Granted(n)
    <2>1. /\ spend(nodeNow(n)) \in BucketType
          /\ CoveredAt(spend(nodeNow(n)), PerNode, spent[n] + 1, now, since)
      BY <1>1, <1>2, <1>3, <1>4, SpendCovered, BudgetAssumption DEF Granted
    <2>2. /\ spend(globalNow) \in BucketType
          /\ CoveredAt(spend(globalNow), Global, granted + 1, now, since)
      BY <1>1, <1>2, <1>3, <1>4, SpendCovered, BudgetAssumption DEF Granted
    <2>3. TypeOK'
      BY <1>2, <1>4, <2>1, <2>2 DEF Granted, TypeOK
    <2>4. \A m \in Nodes : CoveredAt(nodeBucket'[m], PerNode, spent'[m], now', since')
      BY <1>2, <1>3, <1>4, <2>1 DEF Granted
    <2>5. QED
      BY <1>3, <1>4, <2>2, <2>3, <2>4, CoveringAtNext DEF Granted, IInv
  <1>5. CASE Refused(n)
    <2>1. takeWait(nodeNow(n), globalNow, PerNode, Global) \in Nat \ {0}
      BY <1>1, TakeWaitType
    <2>2. TypeOK'
      BY <1>1, <1>2, <1>5, <2>1 DEF Refused, TypeOK
    <2>3. \A m \in Nodes : CoveredAt(nodeBucket'[m], PerNode, spent'[m], now', since')
      BY <1>1, <1>2, <1>3, <1>5 DEF Refused
    <2>4. QED
      BY <1>1, <1>3, <1>5, <2>2, <2>3, CoveringAtNext DEF Refused, IInv
  <1>6. QED
    BY <1>4, <1>5, TakeOutcome

(***************************************************************************)
(* Time alone keeps it: it says something of the last refill only.         *)
(***************************************************************************)
LEMMA TickCovered ==
    ASSUME IInv, Tick
    PROVE  IInv'
  <1>1. TypeOK'
    BY DEF IInv, TypeOK, Tick
  <1>2. /\ since' <= now'
        /\ \A n \in Nodes : CoveredAt(nodeBucket'[n], PerNode, spent'[n], now', since')
        /\ CoveredAt(globalBucket', Global, granted', now', since')
    <2>1. now \in Nat /\ since \in Nat /\ globalBucket.updated \in Nat
          /\ \A n \in Nodes : nodeBucket[n].updated \in Nat
      BY DEF IInv, TypeOK, BucketType
    <2>2. /\ since <= now
          /\ \A n \in Nodes : CoveredAt(nodeBucket[n], PerNode, spent[n], now, since)
          /\ CoveredAt(globalBucket, Global, granted, now, since)
      BY CoveringAt DEF IInv
    <2>3. QED
      BY <2>1, <2>2 DEF Tick, CoveredAt
  <1>3. QED
    BY <1>1, <1>2, CoveringAtNext DEF IInv

(***************************************************************************)
(* New buckets and an observer who begins anew keep it.                    *)
(***************************************************************************)
LEMMA RestartCovered ==
    ASSUME IInv, Restart
    PROVE  IInv'
  <1>1. now \in Nat \ {0}
    BY DEF IInv, TypeOK
  <1>2. /\ full(PerNode) \in BucketType /\ CoveredAt(full(PerNode), PerNode, 0, now, now)
        /\ full(Global) \in BucketType /\ CoveredAt(full(Global), Global, 0, now, now)
    BY <1>1, BudgetAssumption, FullCovered
  <1>3. TypeOK'
    BY <1>1, <1>2 DEF Restart, TypeOK
  <1>4. Covering'
    BY <1>1, <1>2, CoveringAtNext DEF Restart
  <1>5. QED
    BY <1>3, <1>4 DEF IInv

(***************************************************************************)
(* An observer may begin to count at any time: a bucket is never worth     *)
(* more than a burst.                                                      *)
(***************************************************************************)
LEMMA ObserveCovered ==
    ASSUME IInv, Observe
    PROVE  IInv'
  <1>1. TypeOK'
    BY DEF IInv, TypeOK, Observe
  <1>2. ASSUME NEW class \in ClassType, NEW b \in BucketType, NEW used,
               CoveredAt(b, class, used, now, since)
        PROVE  CoveredAt(b, class, 0, now, now)
    <2>1. /\ now \in Nat /\ b.updated \in Nat /\ period(class) \in Nat
          /\ worth(b, class) \in Nat /\ burst(class) \in Nat
      BY PeriodType, WorthType DEF IInv, TypeOK, BucketType
    <2>2. 0 * period(class) = 0
      BY <2>1, Z3
    <2>3. QED
      BY <1>2, <2>1, <2>2 DEF CoveredAt
  <1>3. /\ \A n \in Nodes : CoveredAt(nodeBucket[n], PerNode, spent[n], now, since)
        /\ CoveredAt(globalBucket, Global, granted, now, since)
    BY CoveringAt DEF IInv
  <1>4. /\ \A n \in Nodes : CoveredAt(nodeBucket[n], PerNode, 0, now, now)
        /\ CoveredAt(globalBucket, Global, 0, now, now)
    BY <1>2, <1>3, BudgetAssumption DEF IInv, TypeOK
  <1>5. now \in Nat
    BY DEF IInv, TypeOK
  <1>6. Covering'
    BY <1>4, <1>5, CoveringAtNext DEF Observe
  <1>7. QED
    BY <1>1, <1>6 DEF IInv

(***************************************************************************)
(* Every step keeps the invariant.                                         *)
(***************************************************************************)
LEMMA NextCovered == IInv /\ [Next]_vars => IInv'
  <1>1. ASSUME IInv, UNCHANGED vars PROVE IInv'
    BY <1>1 DEF IInv, TypeOK, Covering, Covered, vars
  <1>2. QED
    BY <1>1, TakeCovered, TickCovered, RestartCovered, ObserveCovered DEF Next

(***************************************************************************)
(* The invariant holds in every reachable state.                           *)
(***************************************************************************)
LEMMA Invariant == Spec => []IInv
  BY InitCovered, NextCovered, PTL DEF Spec

(***************************************************************************)
(* The buckets keep their type: in particular a residue and the number of  *)
(* tokens never become negative, whatever refills and grants there were.   *)
(***************************************************************************)
THEOREM BudgetType == Spec => []TypeOK
  <1>1. IInv => TypeOK
    BY DEF IInv
  <1>2. QED
    BY <1>1, Invariant, PTL

(***************************************************************************)
(* What a process granted is covered by a burst and the time its buckets   *)
(* have been refilled for.                                                 *)
(***************************************************************************)
THEOREM BudgetCovering == Spec => []Covering
  <1>1. IInv => Covering
    BY DEF IInv
  <1>2. QED
    BY <1>1, Invariant, PTL

(***************************************************************************)
(* What a covered bucket granted is within its rate.                       *)
(***************************************************************************)
LEMMA CoveredRate ==
    ASSUME NEW class \in ClassType, NEW b \in BucketType, NEW used \in Nat,
           NEW t \in Nat, NEW s \in Nat, s <= t, CoveredAt(b, class, used, t, s)
    PROVE  (used - class.capacity) * period(class) <= t - s + 1
  <1> DEFINE p == period(class)
  <1>1. p \in Nat /\ class.capacity \in Nat \ {0} /\ b.updated \in Nat
    BY PeriodType DEF ClassType, BucketType
  <1>2. worth(b, class) \in Nat
    BY WorthType
  <1>3. /\ (used - class.capacity) * p = used * p - class.capacity * p
        /\ used * p \in Nat /\ class.capacity * p \in Nat
        /\ used = 0 => used * p = 0
    BY <1>1, Z3
  <1>4. CASE b.updated < s
    <2>1. used = 0
      BY <1>4 DEF CoveredAt
    <2>2. QED
      BY <1>3, <2>1
  <1>5. CASE b.updated >= s
    <2>1. /\ used * p + worth(b, class) <= class.capacity * p + 1 + b.updated - s
          /\ b.updated <= t
      BY <1>5 DEF CoveredAt, burst
    <2>2. QED
      BY <1>1, <1>2, <1>3, <2>1
  <1>6. QED
    BY <1>1, <1>4, <1>5

(***************************************************************************)
(* From whatever moment one counts, no Node and not the process as a whole *)
(* is granted more evictions than one burst and the time since then pay    *)
(* for.                                                                    *)
(***************************************************************************)
THEOREM BudgetRate == Spec => []RateBound
  <1>1. ASSUME IInv PROVE RateBound
    <2>1. /\ nodeBucket \in [Nodes -> BucketType] /\ globalBucket \in BucketType
          /\ now \in Nat /\ since \in Nat /\ spent \in [Nodes -> Nat] /\ granted \in Nat
      BY <1>1 DEF IInv, TypeOK
    <2>2. /\ since <= now
          /\ \A n \in Nodes : CoveredAt(nodeBucket[n], PerNode, spent[n], now, since)
          /\ CoveredAt(globalBucket, Global, granted, now, since)
      BY <1>1, CoveringAt DEF IInv
    <2>3. ASSUME NEW n \in Nodes
          PROVE  (spent[n] - PerNode.capacity) * period(PerNode) <= now - since + 1
      <3>1. nodeBucket[n] \in BucketType /\ spent[n] \in Nat
        BY <2>1
      <3>2. QED
        BY <2>1, <2>2, <3>1, CoveredRate, BudgetAssumption
    <2>4. (granted - Global.capacity) * period(Global) <= now - since + 1
      BY <2>1, <2>2, CoveredRate, BudgetAssumption
    <2>5. QED
      BY <2>3, <2>4 DEF RateBound
  <1>2. QED
    BY <1>1, Invariant, PTL

----------------------------------------------------------------------------
(***************************************************************************)
(* At the end of the wait that takeWait gives a refused caller both        *)
(* buckets have a token, and one moment earlier one of them has none.      *)
(***************************************************************************)
LEMMA WaitExact ==
    ASSUME NEW o \in BucketType, NEW g \in BucketType, NEW t \in Nat \ {0},
           o.updated = t, o.tokens <= PerNode.capacity,
           g.updated = t, g.tokens <= Global.capacity,
           ~(o.tokens >= 1 /\ g.tokens >= 1)
    PROVE  LET w == takeWait(o, g, PerNode, Global)
           IN  w \in Nat \ {0} /\ CanTake(o, g, t + w) /\ ~CanTake(o, g, t + w - 1)
  <1> DEFINE w == takeWait(o, g, PerNode, Global)
             wo == waitForOne(o, PerNode)
             wg == waitForOne(g, Global)
  <1> USE BudgetAssumption
  <1>1. w \in Nat \ {0} /\ wo \in Nat /\ wg \in Nat
    BY TakeWaitType, WaitType
  <1>2. wo <= w /\ wg <= w /\ (w = 1 \/ w = wo \/ w = wg)
    BY <1>1 DEF takeWait, longer
  <1>3. /\ o.tokens >= 1 => wo = 0
        /\ g.tokens >= 1 => wg = 0
        /\ o.tokens \in Nat /\ g.tokens \in Nat
    BY DEF waitForOne, BucketType
  <1> HIDE DEF w, wo, wg
  <1>4. refill(o, PerNode, t + w).tokens >= 1
    <2>1. CASE o.tokens >= 1
      <3>1. refill(o, PerNode, t + w).tokens >= o.tokens
            /\ refill(o, PerNode, t + w) \in BucketType
        BY <1>1, RefillType
      <3>2. QED
        BY <1>3, <2>1, <3>1 DEF BucketType
    <2>2. CASE o.tokens = 0
      BY <1>1, <1>2, <2>2, WaitBrings DEF wo
    <2>3. QED
      BY <1>3, <2>1, <2>2
  <1>5. refill(g, Global, t + w).tokens >= 1
    <2>1. CASE g.tokens >= 1
      <3>1. refill(g, Global, t + w).tokens >= g.tokens
            /\ refill(g, Global, t + w) \in BucketType
        BY <1>1, RefillType
      <3>2. QED
        BY <1>3, <2>1, <3>1 DEF BucketType
    <2>2. CASE g.tokens = 0
      BY <1>1, <1>2, <2>2, WaitBrings DEF wg
    <2>3. QED
      BY <1>3, <2>1, <2>2
  <1>6. ~CanTake(o, g, t + w - 1)
    <2>1. CASE w = 1
      <3>1. refill(o, PerNode, t) = o /\ refill(g, Global, t) = g
        BY RefillNow
      <3>2. t + w - 1 = t
        BY <2>1
      <3>3. QED
        BY <3>1, <3>2 DEF CanTake
    <2>2. ASSUME w # 1, w = wo PROVE ~CanTake(o, g, t + w - 1)
      <3>1. o.tokens = 0
        BY <1>1, <1>3, <2>2
      <3>2. w - 1 \in Nat /\ w - 1 < wo /\ t + (w - 1) = t + w - 1
        BY <1>1, <2>2
      <3>3. refill(o, PerNode, t + (w - 1)).tokens = 0
        BY <3>1, <3>2, WaitNeeded DEF wo
      <3>4. QED
        BY <3>2, <3>3 DEF CanTake
    <2>3. ASSUME w # 1, w = wg PROVE ~CanTake(o, g, t + w - 1)
      <3>1. g.tokens = 0
        BY <1>1, <1>3, <2>3
      <3>2. w - 1 \in Nat /\ w - 1 < wg /\ t + (w - 1) = t + w - 1
        BY <1>1, <2>3
      <3>3. refill(g, Global, t + (w - 1)).tokens = 0
        BY <3>1, <3>2, WaitNeeded DEF wg
      <3>4. QED
        BY <3>2, <3>3 DEF CanTake
    <2>4. QED
      BY <1>2, <2>1, <2>2, <2>3
  <1>7. QED
    BY <1>1, <1>4, <1>5, <1>6 DEF CanTake, w

RetryRight ==
    \A n \in Nodes :
      refused'[n] > 0 /\ refused'[n] # refused[n] =>
        /\ refused'[n] > now
        /\ CanTake(nodeBucket'[n], globalBucket', refused'[n])
        /\ ~CanTake(nodeBucket'[n], globalBucket', refused'[n] - 1)

(***************************************************************************)
(* Every refusal of tryTake gives an exact wait.                           *)
(***************************************************************************)
LEMMA TakeRetry ==
    ASSUME IInv, NEW n \in Nodes, Take(n)
    PROVE  RetryRight
  <1>1. /\ nodeNow(n) \in BucketType /\ nodeNow(n).updated = now
        /\ globalNow \in BucketType /\ globalNow.updated = now
        /\ nodeNow(n).tokens <= PerNode.capacity /\ globalNow.tokens <= Global.capacity
    BY UpToDate DEF CoveredAt
  <1>2. /\ nodeBucket \in [Nodes -> BucketType] /\ refused \in [Nodes -> Nat]
        /\ now \in Nat \ {0}
    BY DEF IInv, TypeOK
  <1>3. CASE Granted(n)
    BY <1>2, <1>3 DEF Granted, RetryRight
  <1>4. CASE Refused(n)
    <2> DEFINE w == takeWait(nodeNow(n), globalNow, PerNode, Global)
    <2>1. /\ w \in Nat \ {0} /\ CanTake(nodeNow(n), globalNow, now + w)
          /\ ~CanTake(nodeNow(n), globalNow, now + w - 1)
      BY <1>1, <1>2, <1>4, WaitExact DEF Refused
    <2>2. refused' = [refused EXCEPT ![n] = now + w]
          /\ nodeBucket' = [nodeBucket EXCEPT ![n] = nodeNow(n)] /\ globalBucket' = globalNow
      BY <1>4 DEF Refused
    <2> HIDE DEF w
    <2>3. QED
      BY <1>2, <2>1, <2>2 DEF RetryRight
  <1>5. QED
    BY <1>3, <1>4, TakeOutcome

(***************************************************************************)
(* A refused Node is told to come back at a time later than now at which   *)
(* it can evict, if nothing else is taken until then, and not a moment     *)
(* sooner: the wait is positive and exact although it is computed with     *)
(* roundings of its own.                                                   *)
(***************************************************************************)
THEOREM BudgetRetry == Spec => RetryWhenAvailable
  <1>1. ASSUME IInv, Next PROVE RetryRight
    <2>1. CASE \E n \in Nodes : Take(n)
      BY <1>1, <2>1, TakeRetry
    <2>2. CASE Tick \/ Restart \/ Observe
      BY <2>2 DEF Tick, Restart, Observe, RetryRight
    <2>3. QED
      BY <1>1, <2>1, <2>2 DEF Next
  <1>2. IInv /\ [Next]_vars => [RetryRight]_vars
    BY <1>1
  <1>3. [][RetryRight]_vars => RetryWhenAvailable
    BY DEF RetryRight, RetryWhenAvailable
  <1>4. QED
    BY <1>2, <1>3, Invariant, PTL DEF Spec

----------------------------------------------------------------------------
(***************************************************************************)
(* The refinement of RateLimiter. What a Node and the process hold there   *)
(* is what their buckets are worth when brought up to date.                *)
(***************************************************************************)
nodeCredit == [n \in Nodes |-> upToDate(nodeBucket[n], PerNode)]

allCredit == upToDate(globalBucket, Global)

(***************************************************************************)
(* The credits are what the buckets hold after a refill, within a burst.   *)
(***************************************************************************)
LEMMA Credits ==
    ASSUME IInv
    PROVE  /\ \A n \in Nodes : /\ nodeCredit[n] = worth(nodeNow(n), PerNode)
                               /\ nodeCredit[n] \in Nat /\ nodeCredit[n] <= burst(PerNode)
           /\ allCredit = worth(globalNow, Global)
           /\ allCredit \in Nat /\ allCredit <= burst(Global)
  <1> USE BudgetAssumption
  <1>1. ASSUME NEW n \in Nodes
        PROVE  /\ nodeCredit[n] = worth(nodeNow(n), PerNode)
               /\ nodeCredit[n] \in Nat /\ nodeCredit[n] <= burst(PerNode)
    <2>1. nodeCredit[n] = worth(nodeNow(n), PerNode)
      BY DEF nodeCredit, upToDate, nodeNow
    <2>2. QED
      BY <2>1, UpToDate, WorthType DEF CoveredAt
  <1>2. allCredit = worth(globalNow, Global)
    BY DEF allCredit, upToDate, globalNow
  <1>3. allCredit \in Nat /\ allCredit <= burst(Global)
    <2>1. globalBucket \in BucketType /\ now \in Nat \ {0}
      BY DEF IInv, TypeOK
    <2>2. globalBucket.tokens <= Global.capacity /\ globalBucket.updated <= now
          /\ worth(globalBucket, Global) <= burst(Global)
      BY CoveringAt DEF IInv, CoveredAt
    <2>3. QED
      BY <1>2, <2>1, <2>2, RefillType, RefillBurst, WorthType DEF globalNow
  <1>4. QED
    BY <1>1, <1>2, <1>3

WithinMost ==
    (\A n \in Nodes : nodeCredit[n] <= burst(PerNode)) /\ allCredit <= burst(Global)

(***************************************************************************)
(* Nobody ever holds more than a burst.                                    *)
(***************************************************************************)
LEMMA CreditsWithin == IInv => WithinMost
  BY Credits DEF WithinMost

(***************************************************************************)
(* The credits of the next state, in terms of its buckets.                 *)
(***************************************************************************)
LEMMA CreditsNext ==
    /\ \A n \in Nodes :
         nodeCredit'[n] = worth(refill(nodeBucket'[n], PerNode, now'), PerNode)
    /\ allCredit' = worth(refill(globalBucket', Global, now'), Global)
    /\ nodeCredit' = [n \in Nodes |-> nodeCredit'[n]]
  BY DEF nodeCredit, allCredit, upToDate

(***************************************************************************)
(* A granted eviction is paid for in full out of both credits: a bucket    *)
(* that is up to date, also after a grant, is worth what it is.            *)
(***************************************************************************)
LEMMA GrantedPays ==
    ASSUME IInv, NEW n \in Nodes, Granted(n)
    PROVE  Limiter!Grant(n)
  <1> USE BudgetAssumption
  <1>1. /\ nodeBucket \in [Nodes -> BucketType] /\ now \in Nat \ {0}
        /\ period(PerNode) \in Nat /\ period(Global) \in Nat
    BY PeriodType DEF IInv, TypeOK
  <1>2. /\ nodeNow(n) \in BucketType /\ nodeNow(n).updated = now
        /\ globalNow \in BucketType /\ globalNow.updated = now
    BY UpToDate
  <1>3. /\ spend(nodeNow(n)) \in BucketType /\ spend(nodeNow(n)).updated = now
        /\ worth(spend(nodeNow(n)), PerNode) = worth(nodeNow(n), PerNode) - period(PerNode)
        /\ worth(spend(nodeNow(n)), PerNode) \in Nat
    BY <1>2, SpendWorth, WorthType DEF Granted
  <1>4. /\ spend(globalNow) \in BucketType /\ spend(globalNow).updated = now
        /\ worth(spend(globalNow), Global) = worth(globalNow, Global) - period(Global)
        /\ worth(spend(globalNow), Global) \in Nat
    BY <1>2, SpendWorth, WorthType DEF Granted
  <1>5. nodeCredit[n] >= period(PerNode) /\ allCredit >= period(Global)
    BY <1>1, <1>3, <1>4, Credits
  <1>6. nodeCredit' = [nodeCredit EXCEPT ![n] = @ - period(PerNode)]
    <2>1. nodeBucket'[n] = spend(nodeNow(n)) /\ now' = now
      BY <1>1 DEF Granted
    <2>2. nodeCredit'[n] = nodeCredit[n] - period(PerNode)
      BY <1>1, <1>3, <2>1, Credits, CreditsNext, RefillNow
    <2>3. ASSUME NEW m \in Nodes, m # n
          PROVE  nodeCredit'[m] = nodeCredit[m]
      <3>1. nodeBucket'[m] = nodeBucket[m]
        BY <1>1, <2>3 DEF Granted
      <3>2. QED
        BY <2>1, <3>1, CreditsNext, Credits DEF nodeNow
    <2>4. nodeCredit = [m \in Nodes |-> nodeCredit[m]]
      BY DEF nodeCredit
    <2>5. QED
      BY <2>2, <2>3, <2>4, CreditsNext, Zenon
  <1>7. allCredit' = allCredit - period(Global)
    <2>1. globalBucket' = spend(globalNow) /\ now' = now
      BY DEF Granted
    <2>2. QED
      BY <1>1, <1>4, <2>1, Credits, CreditsNext, RefillNow
  <1>8. QED
    BY <1>5, <1>6, <1>7 DEF Granted, Limiter!Grant, nodeCredit, allCredit

(***************************************************************************)
(* A refusal refills the buckets, which changes nothing in what they are   *)
(* worth when brought up to date.                                          *)
(***************************************************************************)
LEMMA RefusedStutters ==
    ASSUME IInv, NEW n \in Nodes, Refused(n)
    PROVE  UNCHANGED Limiter!vars
  <1>1. nodeBucket \in [Nodes -> BucketType] /\ now \in Nat \ {0}
    BY DEF IInv, TypeOK
  <1>2. /\ nodeNow(n) \in BucketType /\ nodeNow(n).updated = now
        /\ globalNow \in BucketType /\ globalNow.updated = now
    BY UpToDate
  <1>3. /\ nodeBucket' = [nodeBucket EXCEPT ![n] = nodeNow(n)] /\ globalBucket' = globalNow
        /\ now' = now
    BY DEF Refused
  <1>4. allCredit' = allCredit
    BY <1>1, <1>2, <1>3, Credits, CreditsNext, RefillNow
  <1>5. ASSUME NEW m \in Nodes PROVE nodeCredit'[m] = nodeCredit[m]
    <2>1. CASE m = n
      BY <1>1, <1>2, <1>3, <2>1, Credits, CreditsNext, RefillNow
    <2>2. CASE m # n
      <3>1. nodeBucket'[m] = nodeBucket[m]
        BY <1>1, <1>3, <2>2
      <3>2. QED
        BY <1>3, <3>1, Credits, CreditsNext DEF nodeNow
    <2>3. QED
      BY <2>1, <2>2
  <1>6. nodeCredit' = nodeCredit
    <2>1. nodeCredit = [m \in Nodes |-> nodeCredit[m]]
      BY DEF nodeCredit
    <2>2. QED
      BY <1>5, <2>1, CreditsNext, Zenon
  <1>7. QED
    BY <1>4, <1>6 DEF Refused, Limiter!vars, nodeCredit, allCredit

(***************************************************************************)
(* A unit of time earns at most itself.                                    *)
(***************************************************************************)
LEMMA TickWaits ==
    ASSUME IInv, IInv', Tick
    PROVE  Limiter!Wait
  <1> USE BudgetAssumption
  <1>1. /\ nodeBucket \in [Nodes -> BucketType] /\ globalBucket \in BucketType
        /\ now \in Nat \ {0}
    BY DEF IInv, TypeOK
  <1>2. now' = now + 1 /\ nodeBucket' = nodeBucket /\ globalBucket' = globalBucket
    BY DEF Tick
  <1>3. /\ \A n \in Nodes : /\ nodeBucket[n].tokens <= PerNode.capacity
                            /\ nodeBucket[n].updated <= now
        /\ globalBucket.tokens <= Global.capacity /\ globalBucket.updated <= now
    BY CoveringAt DEF IInv, CoveredAt
  <1>4. ASSUME NEW n \in Nodes
        PROVE  nodeCredit'[n] <= nodeCredit[n] + now' - now
    <2>1. worth(refill(nodeBucket[n], PerNode, now + 1), PerNode)
            <= worth(refill(nodeBucket[n], PerNode, now), PerNode) + 1
      BY <1>1, <1>3, RefillStep
    <2>2. nodeCredit'[n] <= nodeCredit[n] + 1
      BY <1>2, <2>1, Credits, CreditsNext DEF nodeNow
    <2>3. QED
      BY <1>1, <1>2, <2>2, Credits
  <1>5. allCredit' <= allCredit + now' - now
    <2>1. worth(refill(globalBucket, Global, now + 1), Global)
            <= worth(refill(globalBucket, Global, now), Global) + 1
      BY <1>1, <1>3, RefillStep
    <2>2. allCredit' <= allCredit + 1
      BY <1>2, <2>1, Credits, CreditsNext DEF globalNow
    <2>3. QED
      BY <1>1, <1>2, <2>2, Credits
  <1>6. WithinMost'
    <2>1. IInv' => WithinMost'
      BY CreditsWithin, PTL
    <2>2. QED
      BY <2>1
  <1>7. QED
    BY <1>1, <1>2, <1>4, <1>5, <1>6
    DEF Tick, Limiter!Wait, Limiter!WithinBurst, WithinMost, nodeCredit, allCredit

(***************************************************************************)
(* A new process starts with what may be held.                             *)
(***************************************************************************)
LEMMA RestartResets ==
    ASSUME IInv', Restart
    PROVE  Limiter!Reset
  <1>1. IInv' => WithinMost'
    BY CreditsWithin, PTL
  <1>2. QED
    BY <1>1
    DEF Restart, Limiter!Reset, Limiter!WithinBurst, Limiter!NothingGiven,
        WithinMost, nodeCredit, allCredit

(***************************************************************************)
(* Counting anew changes no credit.                                        *)
(***************************************************************************)
LEMMA ObserveObserves ==
    ASSUME Observe
    PROVE  Limiter!Observe
  BY DEF Observe, Limiter!Observe, Limiter!NothingGiven, upToDate

(***************************************************************************)
(* The token buckets of tryTake implement the abstract rate limiter: a     *)
(* grant is paid for in full by the Node and by the process, time earns at *)
(* most itself, and nothing is ever held beyond a burst.                   *)
(***************************************************************************)
THEOREM BudgetImplementsLimiter == Spec => ImplementsLimiter
  <1>1. Init => Limiter!Init
    <2> SUFFICES ASSUME Init PROVE Limiter!Init
      OBVIOUS
    <2>1. WithinMost
      BY InitCovered, CreditsWithin
    <2>2. QED
      BY <2>1 DEF Init, Limiter!Init, Limiter!WithinBurst, Limiter!NothingGiven,
                  WithinMost, nodeCredit, allCredit
  <1>2. ASSUME IInv, IInv', Next PROVE Limiter!Next \/ UNCHANGED Limiter!vars
    <2>1. ASSUME NEW n \in Nodes, Take(n)
          PROVE  Limiter!Next \/ UNCHANGED Limiter!vars
      <3>1. CASE Granted(n)
        <4>1. Limiter!Grant(n)
          BY <1>2, <3>1, GrantedPays
        <4>2. QED
          BY <4>1 DEF Limiter!Next
      <3>2. CASE Refused(n)
        BY <1>2, <3>2, RefusedStutters
      <3>3. QED
        BY <2>1, <3>1, <3>2, TakeOutcome
    <2>2. CASE Tick
      <3>1. Limiter!Wait
        BY <1>2, <2>2, TickWaits
      <3>2. QED
        BY <3>1 DEF Limiter!Next
    <2>3. CASE Restart
      <3>1. Limiter!Reset
        BY <1>2, <2>3, RestartResets
      <3>2. QED
        BY <3>1 DEF Limiter!Next
    <2>4. CASE Observe
      <3>1. Limiter!Observe
        BY <2>4, ObserveObserves
      <3>2. QED
        BY <3>1 DEF Limiter!Next
    <2>5. QED
      BY <1>2, <2>1, <2>2, <2>3, <2>4 DEF Next
  <1>3. UNCHANGED vars => UNCHANGED Limiter!vars
    BY DEF vars, Limiter!vars, upToDate
  <1>4. IInv /\ IInv' /\ [Next]_vars => [Limiter!Next]_(Limiter!vars)
    BY <1>2, <1>3
  <1>5. QED
    BY <1>1, <1>4, Invariant, PTL DEF Spec, ImplementsLimiter, Limiter!Spec
=============================================================================
