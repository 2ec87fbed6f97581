----------------------------- MODULE BucketProofs -----------------------------
(***************************************************************************)
(* What the operators of TokenBucket compute, for every class and every    *)
(* bucket: how many tokens a refill adds, that a bucket stays a bucket     *)
(* within its capacity, and that the wait for a token is exact. Used by    *)
(* the proofs about the eviction budget and the eviction loop.             *)
(***************************************************************************)
EXTENDS TokenBucket, TLAPS

----------------------------------------------------------------------------
(***************************************************************************)
(* Quotient and remainder.                                                 *)
(***************************************************************************)
LEMMA Division ==
    ASSUME NEW a \in Nat, NEW b \in Nat \ {0}
    PROVE  /\ a \div b \in Nat /\ a % b \in Nat
           /\ a = (a \div b) * b + (a % b)
           /\ (a \div b) * b <= a /\ a < (a \div b) * b + b
  BY Z3

(***************************************************************************)
(* A product grows with its factor.                                        *)
(***************************************************************************)
LEMMA Monotone ==
    ASSUME NEW a \in Int, NEW b \in Int, NEW c \in Nat, a <= b
    PROVE  a * c <= b * c
  BY Z3

(***************************************************************************)
(* Only a greater factor makes a product greater.                          *)
(***************************************************************************)
LEMMA Cancel ==
    ASSUME NEW a \in Int, NEW b \in Int, NEW c \in Nat \ {0}, a * c < b * c
    PROVE  a < b
  <1>1. ASSUME b <= a PROVE FALSE
    <2>1. b * c <= a * c
      BY <1>1, Monotone
    <2>2. QED
      BY <2>1, Z3
  <1>2. QED
    BY <1>1

----------------------------------------------------------------------------
(***************************************************************************)
(* tokensEarned is the number of whole tokens in the elapsed time, or the  *)
(* limit if that is smaller: splitting the time into whole intervals and a *)
(* remainder to keep the product small loses nothing.                      *)
(***************************************************************************)
LEMMA Earned ==
    ASSUME NEW e \in Nat, NEW class \in ClassType, NEW limit \in Nat
    PROVE  LET k == tokensEarned(e, class, limit)
           IN  /\ k \in Nat /\ k <= limit
               /\ k * class.interval <= e * class.count
               /\ k < limit => e * class.count < (k + 1) * class.interval
  <1> DEFINE I == class.interval
             c == class.count
             q == e \div I
             m == e % I
             d == (m * c) \div I
             raw == q * c + d
             k == tokensEarned(e, class, limit)
  <1>1. I \in Nat \ {0} /\ c \in Nat \ {0}
    BY DEF ClassType
  <1>2. q \in Nat /\ m \in Nat /\ e = q * I + m
    BY <1>1, Division
  <1>3. m * c \in Nat
    BY <1>1, <1>2, Z3
  <1>4. d \in Nat /\ d * I <= m * c /\ m * c < d * I + I
    BY <1>1, <1>3, Division
  <1>5. k = IF q >= limit THEN limit ELSE IF raw <= limit THEN raw ELSE limit
    BY DEF tokensEarned, minimum
  <1> HIDE DEF I, c, q, m, d, k
  <1>6. q * c \in Nat /\ raw \in Nat
    BY <1>1, <1>2, <1>4, Z3
  <1>7. raw * I <= e * c /\ e * c < (raw + 1) * I
    <2>1. e * c = (q * c) * I + m * c
      BY <1>1, <1>2, Z3
    <2>2. raw * I = (q * c) * I + d * I /\ (raw + 1) * I = (q * c) * I + d * I + I
      BY <1>1, <1>2, <1>4, <1>6, Z3
    <2>3. QED
      BY <2>1, <2>2, <1>1, <1>2, <1>3, <1>4, <1>6, Z3
  <1>8. CASE q >= limit
    <2>1. k = limit
      BY <1>5, <1>8
    <2>2. limit * I <= q * I
      BY <1>1, <1>2, <1>8, Monotone
    <2>3. q * I <= e /\ e <= e * c
      BY <1>1, <1>2, Z3
    <2>4. limit * I <= e * c
      BY <1>1, <1>2, <2>2, <2>3, Z3
    <2>5. QED
      BY <2>1, <2>4 DEF I, c, k
  <1>9. CASE q < limit /\ raw <= limit
    <2>1. k = raw
      BY <1>5, <1>9, <1>2
    <2>2. QED
      BY <2>1, <1>7, <1>6, <1>9 DEF I, c, k
  <1>10. CASE q < limit /\ raw > limit
    <2>1. k = limit
      BY <1>5, <1>10, <1>2, <1>6
    <2>2. limit * I <= raw * I
      BY <1>1, <1>6, <1>10, Monotone
    <2>3. limit * I <= e * c
      BY <2>2, <1>7, <1>1, <1>6, Z3
    <2>4. QED
      BY <2>1, <2>3 DEF I, c, k
  <1>11. QED
    BY <1>8, <1>9, <1>10, <1>2, <1>6

----------------------------------------------------------------------------
(***************************************************************************)
(* The time that k tokens cost, as refill rounds it: never less than k     *)
(* periods, also between two numbers of tokens.                            *)
(***************************************************************************)
consumed(k, class) == (k * class.interval) \div class.count

(***************************************************************************)
(* Rounding takes less than one unit off the cost of k tokens.             *)
(***************************************************************************)
LEMMA Consumed ==
    ASSUME NEW class \in ClassType, NEW k \in Nat
    PROVE  /\ consumed(k, class) \in Nat
           /\ consumed(k, class) * class.count <= k * class.interval
           /\ k * class.interval < consumed(k, class) * class.count + class.count
  <1>1. class.interval \in Nat /\ class.count \in Nat \ {0}
    BY DEF ClassType
  <1>2. k * class.interval \in Nat
    BY <1>1, Z3
  <1>3. QED
    BY <1>1, <1>2, Division DEF consumed

(***************************************************************************)
(* Tokens that the elapsed time is worth do not cost more than that time.  *)
(***************************************************************************)
LEMMA Affordable ==
    ASSUME NEW class \in ClassType, NEW k \in Nat, NEW e \in Nat,
           k * class.interval <= e * class.count
    PROVE  consumed(k, class) <= e
  <1>1. class.interval \in Nat /\ class.count \in Nat \ {0}
    BY DEF ClassType
  <1>2. consumed(k, class) \in Nat /\ consumed(k, class) * class.count <= k * class.interval
    BY Consumed
  <1>3. consumed(k, class) * class.count < (e + 1) * class.count
    BY <1>1, <1>2, Z3
  <1>4. QED
    BY <1>1, <1>2, <1>3, Cancel

----------------------------------------------------------------------------
(***************************************************************************)
(* What a refill over a positive time does, in terms of the tokens k it    *)
(* adds: as many as the time is worth and the bucket has room for.         *)
(***************************************************************************)
Adds(b, class, t, e, room, k) ==
    /\ k <= room
    /\ k * class.interval <= e * class.count
    /\ k < room => e * class.count < (k + 1) * class.interval
    /\ refill(b, class, t) =
         [tokens |-> b.tokens + k,
          residue |-> IF k >= room THEN 0 ELSE e - consumed(k, class),
          updated |-> t]

(***************************************************************************)
(* Every refill over a positive time adds some number of tokens that way.  *)
(***************************************************************************)
LEMMA Refilled ==
    ASSUME NEW class \in ClassType, NEW b \in BucketType, NEW t \in Nat,
           b.tokens <= class.capacity, b.updated # 0, b.updated < t,
           NEW e, e = t - b.updated + b.residue,
           NEW room, room = class.capacity - b.tokens
    PROVE  \E k \in Nat : Adds(b, class, t, e, room, k)
  <1> DEFINE k == tokensEarned(e, class, room)
  <1>1. e \in Nat /\ room \in Nat
    BY DEF BucketType, ClassType
  <1>2. /\ k \in Nat /\ k <= room
        /\ k * class.interval <= e * class.count
        /\ k < room => e * class.count < (k + 1) * class.interval
    BY <1>1, Earned
  <1>3. refill(b, class, t) =
             [tokens |-> b.tokens + k,
              residue |-> IF k >= room THEN 0 ELSE e - consumed(k, class),
              updated |-> t]
    BY DEF refill, consumed, BucketType
  <1>4. Adds(b, class, t, e, room, k)
    BY <1>2, <1>3 DEF Adds
  <1>5. QED
    BY <1>2, <1>4

(***************************************************************************)
(* A refill that is not the first and not later than the last changes      *)
(* nothing.                                                                *)
(***************************************************************************)
LEMMA RefillNow ==
    ASSUME NEW class, NEW b \in BucketType, NEW t \in Nat, b.updated = t, t # 0
    PROVE  refill(b, class, t) = b
  BY DEF refill, BucketType

(***************************************************************************)
(* A refill keeps a bucket a bucket within its capacity, takes no token    *)
(* away and brings the bucket up to date.                                  *)
(***************************************************************************)
LEMMA RefillType ==
    ASSUME NEW class \in ClassType, NEW b \in BucketType, NEW t \in Nat \ {0},
           b.tokens <= class.capacity, b.updated <= t
    PROVE  /\ refill(b, class, t) \in BucketType
           /\ refill(b, class, t).tokens <= class.capacity
           /\ refill(b, class, t).tokens >= b.tokens
           /\ refill(b, class, t).updated = t
  <1>1. CASE b.updated = 0
    BY <1>1 DEF refill, BucketType
  <1>2. CASE b.updated = t
    <2>1. refill(b, class, t) = b
      BY <1>2, RefillNow
    <2>2. QED
      BY <1>2, <2>1 DEF BucketType
  <1>3. CASE b.updated # 0 /\ b.updated < t
    <2> DEFINE e == t - b.updated + b.residue
               room == class.capacity - b.tokens
    <2>1. PICK k \in Nat : Adds(b, class, t, e, room, k)
      BY <1>3, Refilled
    <2>2. e \in Nat
      BY <1>3 DEF BucketType
    <2>3. k * class.interval <= e * class.count
      BY <2>1 DEF Adds
    <2>4. consumed(k, class) \in Nat /\ consumed(k, class) <= e
      BY <2>2, <2>3, Consumed, Affordable
    <2>5. QED
      BY <2>1, <2>2, <2>4 DEF Adds, BucketType, ClassType
  <1>4. QED
    BY <1>1, <1>2, <1>3 DEF BucketType

----------------------------------------------------------------------------
(***************************************************************************)
(* waitForOne of an empty bucket that is up to date: its end brings the    *)
(* first token, and no earlier refill does.                                *)
(***************************************************************************)
LEMMA WaitBrings ==
    ASSUME NEW class \in ClassType, NEW b \in BucketType, NEW w \in Nat \ {0},
           b.tokens = 0, b.updated # 0, waitForOne(b, class) <= w
    PROVE  refill(b, class, b.updated + w).tokens >= 1
  <1> DEFINE I == class.interval
             c == class.count
             r == b.residue
             need == I - r * c
  <1>1. /\ I \in Nat \ {0} /\ c \in Nat \ {0} /\ r \in Nat
        /\ class.capacity \in Nat \ {0} /\ b.updated \in Nat
    BY DEF ClassType, BucketType
  <1>2. PICK k \in Nat : Adds(b, class, b.updated + w, w + r, class.capacity, k)
    BY <1>1, Refilled
  <1>3. /\ k < class.capacity => (w + r) * c < (k + 1) * I
        /\ refill(b, class, b.updated + w).tokens = k
    BY <1>2 DEF Adds
  <1>4. waitForOne(b, class) = IF need <= 0 THEN 1 ELSE (need + c - 1) \div c
    BY DEF waitForOne
  <1> HIDE DEF I, c, r
  <1>5. r * c \in Nat /\ need \in Int
    BY <1>1, Z3
  <1>6. (w + r) * c = w * c + r * c /\ w * c \in Nat
    BY <1>1, Z3
  <1>7. w * c + r * c >= I
    <2>1. CASE need <= 0
      BY <1>1, <1>5, <1>6, <2>1
    <2>2. CASE need > 0
      <3> DEFINE v == (need + c - 1) \div c
      <3>1. need + c - 1 \in Nat
        BY <1>1, <1>5, <2>2
      <3>2. v \in Nat /\ need + c - 1 < v * c + c
        <4> HIDE DEF need
        <4>1. QED
          BY <1>1, <3>1, Division
      <3>3. v <= w
        BY <1>4, <1>5, <2>2
      <3> HIDE DEF v
      <3>4. v * c <= w * c /\ v * c \in Nat
        BY <1>1, <3>2, <3>3, Monotone, Z3
      <3>5. QED
        BY <1>1, <1>5, <1>6, <3>2, <3>4
    <2>3. QED
      BY <1>5, <2>1, <2>2
  <1>8. ASSUME k = 0 PROVE FALSE
    <2>1. w * c + r * c < (k + 1) * I
      BY <1>1, <1>3, <1>6, <1>8
    <2>2. (k + 1) * I = I
      BY <1>1, <1>8, Z3
    <2>3. QED
      BY <1>1, <1>5, <1>6, <1>7, <2>1, <2>2
  <1>9. QED
    BY <1>3, <1>8

(***************************************************************************)
(* Before its end there is no token.                                       *)
(***************************************************************************)
LEMMA WaitNeeded ==
    ASSUME NEW class \in ClassType, NEW b \in BucketType, NEW w \in Nat,
           b.tokens = 0, b.updated # 0, w < waitForOne(b, class)
    PROVE  refill(b, class, b.updated + w).tokens = 0
  <1> DEFINE I == class.interval
             c == class.count
             r == b.residue
             need == I - r * c
  <1>1. /\ I \in Nat \ {0} /\ c \in Nat \ {0} /\ r \in Nat
        /\ class.capacity \in Nat \ {0} /\ b.updated \in Nat
    BY DEF ClassType, BucketType
  <1>2. CASE w = 0
    <2>1. refill(b, class, b.updated + w) = b
      BY <1>1, <1>2, RefillNow
    <2>2. QED
      BY <2>1
  <1>3. CASE w # 0
    <2>1. PICK k \in Nat : Adds(b, class, b.updated + w, w + r, class.capacity, k)
      BY <1>1, <1>3, Refilled
    <2>2. k * I <= (w + r) * c /\ refill(b, class, b.updated + w).tokens = k
      BY <2>1 DEF Adds
    <2>3. waitForOne(b, class) = IF need <= 0 THEN 1 ELSE (need + c - 1) \div c
      BY DEF waitForOne
    <2> HIDE DEF I, c, r
    <2>4. r * c \in Nat /\ need \in Int
      BY <1>1, Z3
    <2>5. need > 0
      BY <1>3, <2>3, <2>4
    <2> DEFINE v == (need + c - 1) \div c
    <2>6. need + c - 1 \in Nat
      BY <1>1, <2>4, <2>5
    <2>7. v \in Nat /\ v * c <= need + c - 1
      <3> HIDE DEF need
      <3>1. QED
        BY <1>1, <2>6, Division
    <2>8. w < v
      BY <2>3, <2>4, <2>5
    <2> HIDE DEF v
    <2>9. (w + 1) * c <= v * c
      BY <1>1, <2>7, <2>8, Monotone
    <2>10. (w + 1) * c = w * c + c /\ (w + r) * c = w * c + r * c /\ w * c \in Nat /\ v * c \in Nat
      BY <1>1, <2>7, Z3
    <2>11. k * I < 1 * I
      BY <1>1, <2>2, <2>4, <2>7, <2>9, <2>10, Z3
    <2>12. k < 1
      BY <1>1, <2>11, Cancel
    <2>13. QED
      BY <2>2, <2>12
  <1>4. QED
    BY <1>2, <1>3

(***************************************************************************)
(* A wait is never negative.                                               *)
(***************************************************************************)
LEMMA WaitType ==
    ASSUME NEW class \in ClassType, NEW b \in BucketType
    PROVE  waitForOne(b, class) \in Nat
  <1> DEFINE need == class.interval - b.residue * class.count
  <1>1. class.count \in Nat \ {0} /\ class.interval \in Nat /\ b.residue \in Nat
    BY DEF ClassType, BucketType
  <1>2. need \in Int
    BY <1>1, Z3
  <1>3. waitForOne(b, class) = IF b.tokens >= 1 THEN 0
                               ELSE IF need <= 0 THEN 1 
                               ELSE (need + class.count - 1) \div class.count
    BY DEF waitForOne
  <1>4. CASE need <= 0
    BY <1>3, <1>4
  <1>5. CASE need > 0
    <2>1. need + class.count - 1 \in Nat
      BY <1>1, <1>2, <1>5
    <2> HIDE DEF need
    <2>2. (need + class.count - 1) \div class.count \in Nat
      BY <1>1, <2>1, Division
    <2>3. QED
      BY <1>2, <1>3, <1>5, <2>2
  <1>6. QED
    BY <1>2, <1>4, <1>5

(***************************************************************************)
(* An empty bucket stays empty as long as the time is not worth a token;   *)
(* the refill then only banks the time.                                    *)
(***************************************************************************)
LEMMA EmptyRefill ==
    ASSUME NEW c \in ClassType, NEW b \in BucketType, NEW t \in Nat,
           b.tokens = 0, b.updated # 0, b.updated < t,
           NEW e, e = t - b.updated + b.residue
    PROVE  /\ e * c.count < c.interval =>
                 refill(b, c, t) = [tokens |-> 0, residue |-> e, updated |-> t]
           /\ refill(b, c, t).tokens = 0 => e * c.count < c.interval
<1>1. /\ b.residue \in Nat /\ b.updated \in Nat /\ e \in Nat
      /\ c.capacity \in Nat \ {0} /\ c.count \in Nat \ {0} /\ c.interval \in Nat \ {0}
  BY DEF BucketType, ClassType
<1>2. PICK k \in Nat : Adds(b, c, t, e, c.capacity, k)
  BY <1>1, Refilled
<1>3. refill(b, c, t).tokens = k
  BY <1>1, <1>2 DEF Adds
<1>4. k = 0 => e * c.count < c.interval
  <2>1. (0 + 1) * c.interval = c.interval
    BY <1>1, Z3
  <2> QED
    BY <1>1, <1>2, <2>1 DEF Adds
<1>5. e * c.count < c.interval => k = 0
  <2>1. ASSUME e * c.count < c.interval PROVE k * c.interval < 1 * c.interval
    <3>1. e * c.count \in Nat /\ k * c.interval \in Nat /\ 1 * c.interval = c.interval
      BY <1>1, Z3
    <3> QED
      BY <1>1, <1>2, <2>1, <3>1 DEF Adds
  <2>2. ASSUME e * c.count < c.interval PROVE k < 1
    BY <1>1, <2>1, <2>2, Cancel
  <2> QED
    BY <2>2
<1>6. consumed(0, c) = 0
  <2>1. 0 * c.interval = 0
    BY <1>1, Z3
  <2>2. consumed(0, c) \in Nat /\ consumed(0, c) * c.count <= 0
    BY <2>1, Consumed
  <2> QED
    BY <1>1, <2>2, Z3
<1>7. k = 0 => refill(b, c, t) = [tokens |-> 0, residue |-> e, updated |-> t]
  BY <1>1, <1>2, <1>6 DEF Adds
<1> QED
  BY <1>3, <1>4, <1>5, <1>7

(***************************************************************************)
(* A bucket that would be empty later is empty now, and refilling it now   *)
(* leaves it empty later.                                                  *)
(***************************************************************************)
LEMMA StaysEmpty ==
    ASSUME NEW c \in ClassType, NEW b \in BucketType, NEW s \in Nat \ {0}, NEW t \in Nat,
           b.tokens <= c.capacity, b.updated = 0 => b.tokens >= 1, b.updated <= s, s <= t,
           refill(b, c, t).tokens = 0
    PROVE  /\ refill(b, c, s).tokens = 0
           /\ refill(refill(b, c, s), c, t).tokens = 0
<1>1. /\ b.tokens \in Nat /\ b.residue \in Nat /\ b.updated \in Nat
      /\ c.capacity \in Nat \ {0} /\ c.count \in Nat \ {0} /\ c.interval \in Nat \ {0}
  BY DEF BucketType, ClassType
<1>2. b.updated # 0 /\ b.tokens = 0
  <2>1. refill(b, c, t).tokens >= b.tokens
    BY <1>1, RefillType
  <2>2. b.tokens = 0
    BY <1>1, <2>1, RefillType
  <2> QED
    BY <2>2
<1>3. CASE b.updated = s
  <2>1. refill(b, c, s) = b
    BY <1>3, RefillNow
  <2> QED
    BY <1>2, <2>1
<1>4. CASE b.updated < s
  <2> DEFINE d == s - b.updated + b.residue
             e == t - b.updated + b.residue
             o == refill(b, c, s)
  <2>1. e * c.count < c.interval
    BY <1>1, <1>2, <1>4, EmptyRefill
  <2>2. d \in Nat /\ e \in Nat /\ d <= e
    BY <1>1, <1>4
  <2>3. d * c.count <= e * c.count /\ d * c.count \in Nat /\ e * c.count \in Nat
    BY <1>1, <2>2, Monotone, Z3
  <2>4. d * c.count < c.interval
    BY <1>1, <2>1, <2>3
  <2>5. o = [tokens |-> 0, residue |-> d, updated |-> s]
    BY <1>1, <1>2, <1>4, <2>4, EmptyRefill
  <2>6. CASE s = t
    BY <1>1, <1>2, <2>5, <2>6, RefillType, RefillNow
  <2>7. CASE s < t
    <3>1. o \in BucketType /\ o.tokens = 0 /\ o.updated = s /\ o.residue = d
      BY <2>2, <2>5 DEF BucketType
    <3>2. e = t - o.updated + o.residue
      BY <1>1, <3>1
    <3> HIDE DEF o, e, d
    <3>3. refill(o, c, t) = [tokens |-> 0, residue |-> e, updated |-> t]
      BY <1>1, <2>1, <2>7, <3>1, <3>2, EmptyRefill
    <3>4. refill(o, c, t).tokens = 0
      BY <3>3
    <3> QED
      BY <3>1, <3>4 DEF o
  <2> QED
    BY <2>6, <2>7
<1> QED
  BY <1>1, <1>3, <1>4

(***************************************************************************)
(* A caller that has to wait waits for the emptier of the two buckets:     *)
(* until then they do not both have a token.                               *)
(***************************************************************************)
LEMMA TakeWait ==
    ASSUME NEW p \in ClassType, NEW g \in ClassType, NEW o \in BucketType, NEW a \in BucketType,
           NEW s \in Nat \ {0}, o.updated = s, a.updated = s,
           ~(o.tokens >= 1 /\ a.tokens >= 1)
    PROVE  LET w == takeWait(o, a, p, g)
           IN  /\ w \in Nat \ {0}
               /\ \A t \in s..(s + w - 1) : refill(o, p, t).tokens = 0 \/ refill(a, g, t).tokens = 0
<1> DEFINE wo == waitForOne(o, p)
           wa == waitForOne(a, g)
           w == takeWait(o, a, p, g)
<1>1. wo \in Nat /\ wa \in Nat
  BY WaitType
<1>2. w \in Nat \ {0} /\ (w = 1 \/ w = wo \/ w = wa)
  BY <1>1 DEF takeWait, longer
<1>3. /\ wo # 0 => o.tokens = 0
      /\ wa # 0 => a.tokens = 0
  BY DEF waitForOne, BucketType
<1>4. ASSUME NEW t \in s..(s + w - 1)
      PROVE  refill(o, p, t).tokens = 0 \/ refill(a, g, t).tokens = 0
  <2> DEFINE d == t - s
  <2>1. d \in Nat /\ d < w /\ t = s + d
    BY <1>2, <1>4
  <2>2. CASE t = s
    <3>1. refill(o, p, t) = o /\ refill(a, g, t) = a
      BY <2>2, RefillNow
    <3> QED
      BY <3>1 DEF BucketType
  <2>3. CASE t # s /\ w = wo
    <3>1. o.tokens = 0 /\ d < waitForOne(o, p)
      BY <1>2, <1>3, <2>1, <2>3
    <3> QED
      BY <2>1, <3>1, WaitNeeded
  <2>4. CASE t # s /\ w = wa
    <3>1. a.tokens = 0 /\ d < waitForOne(a, g)
      BY <1>2, <1>3, <2>1, <2>4
    <3> QED
      BY <2>1, <3>1, WaitNeeded
  <2> QED
    BY <1>2, <2>1, <2>2, <2>3, <2>4
<1> HIDE DEF w
<1> QED
  BY <1>2, <1>4 DEF w
=============================================================================
