---------------------------- MODULE TokenBucket ------------------------------
(***************************************************************************)
(* tokenBucket of internal/controller/eviction_budget.go. A bucket is      *)
(* [tokens, residue, updated]: whole tokens, time already waited towards   *)
(* the next one, and the last refill (0 is Go's zero time). Its class is   *)
(* [count, capacity, interval], fixed for the life of the process, so      *)
(* configure only decides the contents of a new bucket. Times are integers *)
(* in the clock's smallest unit; products stay below 2^63 for every policy *)
(* the flags accept, so mulDivFloor is exact.                              *)
(***************************************************************************)
EXTENDS Integers

ClassType == [count : Nat \ {0}, capacity : Nat \ {0}, interval : Nat \ {0}]

BucketType == [tokens : Nat, residue : Nat, updated : Nat]

minimum(a, b) == IF a <= b THEN a ELSE b

(***************************************************************************)
(* A new bucket is full, so the first eligible Pod is not delayed.         *)
(***************************************************************************)
full(class) == [tokens |-> class.capacity, residue |-> 0, updated |-> 0]

(***************************************************************************)
(* Whole tokens that elapsed time is worth, capped at limit.               *)
(***************************************************************************)
tokensEarned(elapsed, class, limit) ==
    LET intervals == elapsed \div class.interval
        earned    == intervals * class.count
                       + ((elapsed % class.interval) * class.count) \div class.interval
    IN  IF intervals >= limit THEN limit ELSE minimum(earned, limit)

TimeBankedWhenFull(b, class, now) ==
    IF b.updated = 0 THEN [tokens |-> b.tokens, residue |-> 0, updated |-> now]
    ELSE IF now <= b.updated THEN b
    ELSE LET elapsed == now - b.updated + b.residue
             earned  == tokensEarned(elapsed, class, class.capacity - b.tokens)
         IN  [tokens  |-> b.tokens + earned,
              residue |-> elapsed - (earned * class.interval) \div class.count,
              updated |-> now]

ElapsedKept(b, class, now) ==
    IF b.updated = 0 THEN [tokens |-> b.tokens, residue |-> 0, updated |-> now]
    ELSE IF now <= b.updated THEN b
    ELSE LET elapsed == now - b.updated + b.residue
             room    == class.capacity - b.tokens
             earned  == tokensEarned(elapsed, class, room)
         IN  [tokens |-> b.tokens + earned, updated |-> now,
              residue |-> IF earned >= room THEN 0 ELSE elapsed]

(***************************************************************************)
(* Refill continuously up to the capacity. Time that did not make a token  *)
(* is kept; time spent with a full bucket is not. The consumed time is     *)
(* rounded down, in favour of the caller, by less than one unit.           *)
(***************************************************************************)
refill(b, class, now) ==
    IF b.updated = 0 THEN [tokens |-> b.tokens, residue |-> 0, updated |-> now]
    ELSE IF now <= b.updated THEN b
    ELSE LET elapsed  == now - b.updated + b.residue
             room     == class.capacity - b.tokens
             earned   == tokensEarned(elapsed, class, room)
             consumed == (earned * class.interval) \div class.count
         IN  [tokens  |-> b.tokens + earned,
              residue |-> IF earned >= room THEN 0 ELSE elapsed - consumed,
              updated |-> now]

(***************************************************************************)
(* The time until the bucket has a token, rounded up.                      *)
(***************************************************************************)
waitForOne(b, class) ==
    IF b.tokens >= 1 THEN 0
    ELSE LET need == class.interval - b.residue * class.count
         IN  IF need <= 0 THEN 1 ELSE (need + class.count - 1) \div class.count

longer(a, b) == IF a >= b THEN a ELSE b

NodeWaitOnly(own, all, perNode, global) == waitForOne(own, perNode)

(***************************************************************************)
(* How long a refused caller waits: until both buckets can spend.          *)
(***************************************************************************)
takeWait(own, all, perNode, global) ==
    longer(1, longer(waitForOne(own, perNode), waitForOne(all, global)))

TakenWithoutGlobal(own, all, perNode, global, now) ==
    LET o == refill(own, perNode, now)
        g == refill(all, global, now)
    IN  IF o.tokens >= 1
        THEN [ok |-> TRUE, own |-> [o EXCEPT !.tokens = @ - 1],
              all |-> [g EXCEPT !.tokens = @ - 1], wait |-> 0]
        ELSE [ok |-> FALSE, own |-> o, all |-> g, wait |-> takeWait(o, g, perNode, global)]

(***************************************************************************)
(* tryTake on the bucket of a Node and the global one: refill both, then   *)
(* spend from both or from neither.                                        *)
(***************************************************************************)
taken(own, all, perNode, global, now) ==
    LET o == refill(own, perNode, now)
        g == refill(all, global, now)
    IN  IF o.tokens >= 1 /\ g.tokens >= 1
        THEN [ok |-> TRUE, own |-> [o EXCEPT !.tokens = @ - 1],
              all |-> [g EXCEPT !.tokens = @ - 1], wait |-> 0]
        ELSE [ok |-> FALSE, own |-> o, all |-> g, wait |-> takeWait(o, g, perNode, global)]
=============================================================================
