--------------------------- MODULE EvictionBudget -----------------------------
(***************************************************************************)
(* The eviction budget of one workload class: evictionBudgets.tryTake in   *)
(* internal/controller/eviction_budget.go. Every eviction spends a token   *)
(* of its Node and a token of the process; passes for different Nodes      *)
(* compete for the latter. The standard and the lossy class have buckets   *)
(* of their own and do not interact.                                       *)
(***************************************************************************)
EXTENDS TokenBucket

CONSTANTS Nodes, PerNode, Global  \* the classes of node and global buckets

ASSUME BudgetAssumption == PerNode \in ClassType /\ Global \in ClassType

VARIABLES now,
          nodeBucket, globalBucket,
          refused,  \* when each Node was told to retry, 0 if not refused
          since,    \* an observer counts from here on
          spent,    \* the evictions granted to each Node
          granted   \* and to all of them

vars == <<now, nodeBucket, globalBucket, refused, since, spent, granted>>

Init ==
    /\ now = 1
    /\ nodeBucket = [n \in Nodes |-> full(PerNode)] /\ globalBucket = full(Global)
    /\ refused = [n \in Nodes |-> 0]
    /\ since = 1 /\ spent = [n \in Nodes |-> 0] /\ granted = 0

(***************************************************************************)
(* tryTake, under the lock, by the pass of one Node.                       *)
(***************************************************************************)
tryTake(n) ==
    LET r == taken(nodeBucket[n], globalBucket, PerNode, Global, now)
    IN  /\ nodeBucket' = [nodeBucket EXCEPT ![n] = r.own]
        /\ globalBucket' = r.all
        /\ refused' = [refused EXCEPT ![n] = IF r.ok THEN 0 ELSE now + r.wait]
        /\ IF r.ok THEN spent' = [spent EXCEPT ![n] = @ + 1] /\ granted' = granted + 1
           ELSE UNCHANGED <<spent, granted>>

Take(n) == tryTake(n) /\ UNCHANGED <<now, since>>

Tick ==
    /\ now' = now + 1
    /\ UNCHANGED <<nodeBucket, globalBucket, refused, since, spent, granted>>

(***************************************************************************)
(* A new process, or a new leader, starts with full buckets; the observer  *)
(* counts what this process grants.                                        *)
(***************************************************************************)
Restart ==
    /\ nodeBucket' = [n \in Nodes |-> full(PerNode)] /\ globalBucket' = full(Global)
    /\ refused' = [n \in Nodes |-> 0]
    /\ since' = now /\ spent' = [n \in Nodes |-> 0] /\ granted' = 0
    /\ UNCHANGED now

(***************************************************************************)
(* The observer begins to count anew, at any time it likes.                *)
(***************************************************************************)
Observe ==
    /\ since' = now /\ spent' = [n \in Nodes |-> 0] /\ granted' = 0
    /\ UNCHANGED <<now, nodeBucket, globalBucket, refused>>

Next == (\E n \in Nodes : Take(n)) \/ Tick \/ Restart \/ Observe

Spec == Init /\ [][Next]_vars

----------------------------------------------------------------------------
TypeOK ==
    /\ now \in Nat \ {0}
    /\ nodeBucket \in [Nodes -> BucketType] /\ globalBucket \in BucketType
    /\ refused \in [Nodes -> Nat]
    /\ since \in Nat \ {0} /\ spent \in [Nodes -> Nat] /\ granted \in Nat

(***************************************************************************)
(* A token takes at least this long, however the time is divided into      *)
(* refills.                                                                *)
(***************************************************************************)
period(class) == class.interval \div class.count

(***************************************************************************)
(* The worth of a bucket: the time its tokens and its residue stand for.   *)
(***************************************************************************)
worth(b, class) == b.tokens * period(class) + b.residue

burst(class) == class.capacity * period(class) + 1

(***************************************************************************)
(* A bucket is never worth more than its capacity and one unit of          *)
(* rounding, and what it granted since the observer began to count is      *)
(* covered by that and the time it has been refilled for since.            *)
(***************************************************************************)
Covered(b, class, used) ==
    LET most == burst(class)
    IN  /\ b.tokens <= class.capacity /\ b.updated <= now
        /\ worth(b, class) <= most
        /\ b.updated < since => used = 0
        /\ b.updated >= since =>
              used * period(class) + worth(b, class) <= most + b.updated - since

Covering ==
    /\ since <= now
    /\ \A n \in Nodes : Covered(nodeBucket[n], PerNode, spent[n])
    /\ Covered(globalBucket, Global, granted)

(***************************************************************************)
(* From whatever moment one counts, the evictions of a process never       *)
(* outrun its budget, neither for one Node nor in all, in whatever order   *)
(* and at whatever distance they are attempted: beyond one burst each of   *)
(* them has waited for its token.                                          *)
(***************************************************************************)
RateBound ==
    /\ \A n \in Nodes : (spent[n] - PerNode.capacity) * period(PerNode) <= now - since + 1
    /\ (granted - Global.capacity) * period(Global) <= now - since + 1

(***************************************************************************)
(* The wait a refused Node is given is right: at its end the Node can      *)
(* evict unless another one took a token in between, and not a moment      *)
(* earlier ("a zero estimate would skip the requeue and leave the          *)
(* candidate waiting for an unrelated event", eviction_budget.go).         *)
(***************************************************************************)
CanTake(own, all, t) ==
    refill(own, PerNode, t).tokens >= 1 /\ refill(all, Global, t).tokens >= 1

RetryWhenAvailable ==
    [][\A n \in Nodes :
         refused'[n] > 0 /\ refused'[n] # refused[n] =>
           /\ refused'[n] > now
           /\ CanTake(nodeBucket'[n], globalBucket', refused'[n])
           /\ ~CanTake(nodeBucket'[n], globalBucket', refused'[n] - 1)]_vars

(***************************************************************************)
(* The buckets implement the limiter: whatever the refills and roundings,  *)
(* what a bucket is worth when brought up to date never grows faster than  *)
(* time and never beyond a burst, and every eviction granted, by whichever *)
(* Node's pass, is paid for out of its Node's bucket and the process's.    *)
(***************************************************************************)
upToDate(b, class) == worth(refill(b, class, now), class)

Limiter ==
    INSTANCE RateLimiter WITH
        nodeCost <- period(PerNode), nodeMost <- burst(PerNode),
        processCost <- period(Global), processMost <- burst(Global),
        clock <- now,
        credit <- [n \in Nodes |-> upToDate(nodeBucket[n], PerNode)],
        processCredit <- upToDate(globalBucket, Global),
        given <- spent, processGiven <- granted

ImplementsLimiter == Limiter!Spec
=============================================================================
