------------------------------ MODULE Eviction -------------------------------
(***************************************************************************)
(* The eviction part of a pass, reconcileEvictions of                      *)
(* internal/controller/eviction.go with the retry ledger of                *)
(* eviction_retry.go and the token buckets of TokenBucket: it judges Pods  *)
(* from a cache, calls the Eviction API for them one by one while others   *)
(* change them, remembers refusals, and asks to be run again. One worker   *)
(* serves all Nodes. A pass reads the clock once, at its start, and counts *)
(* every deadline from there, while its calls may take any time. What a    *)
(* Node may evict is an input (EvictionClass).                             *)
(***************************************************************************)
EXTENDS TokenBucket, FiniteSetsExt

CONSTANTS Nodes, NoNode,      \* Nodes, and where no Pod is
          Names,              \* the names of Pods
          RetryBackoff,       \* EvictionPolicy.RetryBackoff
          retryJitter(_),     \* the stable delay hashed from a retry key
          Hints,              \* Retry-After hints of the API, 0 for none
          PerNode, Global     \* the bucket classes of standard and lossy Pods

Lossiness == BOOLEAN  \* TRUE for the lossy class of Pods

Classes == {"none", "game", "lossyOnly",  \* what a pass may evict
            "duplicate"}                  \* more than one enrollment of the Node

Modes == {"disabled", "audit", "enforce"}  \* EvictionPolicy.Enabled and Audit

Outcomes == {"Disabled", "Inactive", "AuditOnly", "NoEligible", "Blocked", "BudgetWaiting",
             "Completed"}

ASSUME EvictionAssumption ==
    /\ NoNode \notin Nodes
    /\ RetryBackoff \in Nat \ {0} /\ Hints \subseteq Nat
    /\ PerNode \in [Lossiness -> ClassType] /\ Global \in [Lossiness -> ClassType]

(***************************************************************************)
(* The reasons of evictionDecision. A lossy Pod is exempt from three; a    *)
(* bound and shareable claim is a reason for lossy Pods only.              *)
(***************************************************************************)
Gates ==
    {"not-opted-in", "protected-namespace", "terminating", "mirror-static",
     "daemonset-owned", "unmanaged-pod", "direct-pinned", "node-selector",
     "required-node-affinity", "critical-priority", "hostpath-volume",
     "local-emptydir", "pvc-not-bound", "pvc-rwo", "local-pv",
     "pvc-not-allowed", "completed-pod"}

exempt(lossy) ==
    IF lossy THEN {"node-selector", "required-node-affinity", "local-emptydir"}
    ELSE {"pvc-not-allowed"}

(***************************************************************************)
(* A Pod: its place, its identity (uid, and version for resourceVersion)   *)
(* and the gates it fails. A free name keeps the last uid.                 *)
(***************************************************************************)
PodType == [name : Names, uid : Nat, version : Nat, exists : BOOLEAN,
            node : Nodes \cup {NoNode}, lossy : BOOLEAN, gates : SUBSET Gates]

NoPod(x) == [name |-> x, uid |-> 0, version |-> 0, exists |-> FALSE,
             node |-> NoNode, lossy |-> FALSE, gates |-> {}]

evictionDecision(p) == p.gates \subseteq exempt(p.lossy)

retryKey(p) == [node |-> p.node, name |-> p.name, uid |-> p.uid]

KeyType == [node : Nodes, name : Names, uid : Nat]

VARIABLES
    now,          \* the clock
    pods, cpods,  \* the Pods by name, on the server and in the cache
    class,        \* what evictionClass yields for each Node
    nodeBucket, globalBucket,  \* evictionBudgets, by class of Pods
    retries,      \* evictionRetries.deadlines, a function on some keys
    queue, timer, \* the work queue: Nodes due, and delayed requeues, 0 for none
    mode,         \* the policy of this process
    pass,         \* the pass in progress
    shown,        \* the reason of each Node's Eviction condition
    waiting,      \* the classes a Node's last pass left waiting for the budget
    asked,        \* history: what the backoff and the API asked for at a refusal
    lasted        \* history: how long each Node's last pass took

budgets == <<nodeBucket, globalBucket>>
vars == <<now, pods, cpods, class, nodeBucket, globalBucket, retries, queue, timer,
          mode, pass, shown, waiting, asked, lasted>>

(***************************************************************************)
(* todo: the listed Pods still to judge; call: the Pods (at most one) an   *)
(* Eviction call is under way for; start: what reconcileEvictions read     *)
(* from the clock, once; the rest is its evictionSummary:                  *)
(* requeueAfter, 0 for none; deferred, the classes of Pods found           *)
(* rate-limited; whether it audited, attempted or met a blocked eviction;  *)
(* and the outcome of a pass that judges no Pods, or "".                   *)
(***************************************************************************)
NoPass == [busy |-> FALSE, node |-> NoNode, start |-> 0, todo |-> {}, call |-> {},
           requeueAfter |-> 0, deferred |-> {},
           audited |-> FALSE, attempted |-> FALSE, blocked |-> FALSE, outcome |-> ""]

InitWith(running) ==
    /\ now = 1
    /\ pods = running /\ cpods = running
    /\ class \in [Nodes -> Classes]
    /\ nodeBucket = [l \in Lossiness |-> [n \in Nodes |-> full(PerNode[l])]]
    /\ globalBucket = [l \in Lossiness |-> full(Global[l])]
    /\ retries = << >> /\ asked = << >>
    /\ queue = Nodes /\ timer = [n \in Nodes |-> 0]
    /\ mode \in Modes /\ shown = [n \in Nodes |-> "Disabled"]
    /\ pass = NoPass /\ waiting = [n \in Nodes |-> {}] /\ lasted = [n \in Nodes |-> 0]

Init == \E running \in [Names -> PodType] :
            /\ \A x \in Names : running[x].name = x
            /\ InitWith(running)

----------------------------------------------------------------------------
(***************************************************************************)
(* When the wait that was asked for is over, counted from the start of the *)
(* pass that was refused: ran is how long that pass had taken by then.     *)
(***************************************************************************)
due(a) == a.until - a.ran

without(f, keys) == [k \in DOMAIN f \ keys |-> f[k]]

with(f, key, t) == [k \in DOMAIN f \cup {key} |-> IF k = key THEN t ELSE f[k]]

PruneEveryNode(f, n, live) ==
    without(f, {k \in DOMAIN f : f[k] <= now \/ k \notin live})

PruneExpiredOnly(f, n, live) == without(f, {k \in DOMAIN f : f[k] <= now})

(***************************************************************************)
(* Expired entries of all Nodes go, and those of Pods this Node's pass did *)
(* not list.                                                               *)
(***************************************************************************)
prune(f, n, live) ==
    without(f, {k \in DOMAIN f : f[k] <= now \/ (k.node = n /\ k \notin live)})

(***************************************************************************)
(* The outcome of a pass that judges no Pods: eviction is disabled, the    *)
(* enrollment is ambiguous or the class is none.                           *)
(***************************************************************************)
inactive(n) ==
    IF mode = "disabled" THEN "Disabled"
    ELSE IF class[n] \in {"none", "duplicate"} THEN "Inactive" ELSE ""

(***************************************************************************)
(* The pass of a Node reaches eviction. Without a class it only clears the *)
(* Node's retries, and with siblings not even that; otherwise it lists the *)
(* Pods of the Node and judges those the class is about. The order of a    *)
(* cached list is arbitrary.                                               *)
(***************************************************************************)
Begin(n) ==
    LET listed == {p \in {cpods[x] : x \in Names} : p.exists /\ p.node = n}
        live   == IF inactive(n) # "" THEN {} ELSE {retryKey(p) : p \in listed}
        pruned(f) == IF class[n] = "duplicate" THEN f ELSE prune(f, n, live)
    IN  /\ ~pass.busy /\ n \in queue
        /\ queue' = queue \ {n}
        /\ retries' = pruned(retries)
        /\ asked' = IF class[n] = "duplicate" THEN asked
                    ELSE without(asked, {k \in DOMAIN asked :
                                           due(asked[k]) <= now \/ (k.node = n /\ k \notin live)})
        /\ waiting' = [waiting EXCEPT ![n] = {}]
        /\ pass' = [NoPass EXCEPT !.busy = TRUE, !.node = n, !.start = now, !.outcome = inactive(n),
                        !.todo = {p \in listed : inactive(n) = ""
                                                 /\ (class[n] = "game" \/ p.lossy)}]
        /\ UNCHANGED <<now, pods, cpods, class, budgets, timer, mode, shown, lasted>>

Judging(p) == pass.busy /\ pass.call = {} /\ p \in pass.todo

Judged(p) == [pass EXCEPT !.todo = @ \ {p}]

(***************************************************************************)
(* Without a licence to evict an eligible Pod is only counted.             *)
(***************************************************************************)
Audit(p) ==
    /\ Judging(p) /\ evictionDecision(p) /\ mode = "audit"
    /\ retries' = without(retries, {retryKey(p)}) /\ asked' = without(asked, {retryKey(p)})
    /\ pass' = [Judged(p) EXCEPT !.audited = TRUE]
    /\ UNCHANGED <<now, pods, cpods, class, mode, shown, budgets, queue, timer, waiting, lasted>>

heldBack(p) == retryKey(p) \in DOMAIN retries /\ pass.start < retries[retryKey(p)]

(***************************************************************************)
(* A Pod that fails a gate, or whose claim or volume cannot be looked up,  *)
(* is skipped and its retry entry forgotten.                               *)
(***************************************************************************)
Skip(p) ==
    /\ Judging(p)
    /\ ~evictionDecision(p) \/ "pvc-not-allowed" \in p.gates
    /\ retries' = without(retries, {retryKey(p)}) /\ asked' = without(asked, {retryKey(p)})
    /\ pass' = Judged(p)
    /\ UNCHANGED <<now, pods, cpods, class, mode, shown, budgets, queue, timer, waiting, lasted>>

retryAfter(wait, delay) ==
    IF delay > 0 /\ (wait = 0 \/ delay < wait) THEN delay ELSE wait

HeldBackWithoutRequeue(p) ==
    /\ Judging(p) /\ evictionDecision(p) /\ mode = "enforce" /\ heldBack(p)
    /\ pass' = Judged(p)
    /\ UNCHANGED <<now, pods, cpods, class, mode, shown, budgets, retries, queue, timer,
                   waiting, asked, lasted>>

HoldBack(p) ==
    /\ Judging(p) /\ evictionDecision(p) /\ mode = "enforce" /\ heldBack(p)
    /\ pass' = [Judged(p) EXCEPT !.blocked = TRUE,
                             !.requeueAfter = retryAfter(@, retries[retryKey(p)] - pass.start)]
    /\ UNCHANGED <<now, pods, cpods, class, mode, shown, budgets, retries, queue, timer,
                   waiting, asked, lasted>>

(***************************************************************************)
(* tryTake: the Pod is called for, or waits for the budget. (Pods read     *)
(* from the API have a uid and a resourceVersion.)                         *)
(***************************************************************************)
tryTake(p) ==
    LET l == p.lossy
        r == taken(nodeBucket[l][p.node], globalBucket[l], PerNode[l], Global[l], pass.start)
    IN  /\ Judging(p) /\ evictionDecision(p) /\ mode = "enforce" /\ ~heldBack(p)
        /\ nodeBucket' = [nodeBucket EXCEPT ![l][p.node] = r.own]
        /\ globalBucket' = [globalBucket EXCEPT ![l] = r.all]
        /\ pass' = IF r.ok THEN [Judged(p) EXCEPT !.call = {p}, !.attempted = TRUE]
                   ELSE [Judged(p) EXCEPT !.requeueAfter = retryAfter(@, r.wait),
                                          !.deferred = @ \cup {l}]
        /\ UNCHANGED <<now, pods, cpods, class, mode, shown, retries, queue, timer,
                       waiting, asked, lasted>>

UidOnly(p) == pods[p.name].exists /\ pods[p.name].uid = p.uid

(***************************************************************************)
(* The request names the uid and resourceVersion of the Pod it judged.     *)
(***************************************************************************)
preconditions(p) ==
    pods[p.name].exists /\ pods[p.name].uid = p.uid /\ pods[p.name].version = p.version

(***************************************************************************)
(* An accepted eviction (external): the Pod terminates.                    *)
(***************************************************************************)
evicted(p) ==
    [pods EXCEPT ![p.name].gates = @ \cup {"terminating"}, ![p.name].version = @ + 1]

Accepted(p) ==
    /\ p \in pass.call /\ preconditions(p)
    /\ pods' = evicted(p)
    /\ retries' = without(retries, {retryKey(p)}) /\ asked' = without(asked, {retryKey(p)})
    /\ pass' = [pass EXCEPT !.call = {}]
    /\ UNCHANGED <<now, cpods, class, mode, shown, budgets, queue, timer, waiting, lasted>>

blockedRetryDelay(k, hint) == longer(RetryBackoff, hint) + retryJitter(k)

(***************************************************************************)
(* A failed call: the Pod is gone or changed, its disruption budget is     *)
(* used up, or any other error, which may hide an accepted eviction.       *)
(***************************************************************************)
Refused(p, hint) ==
    LET k == retryKey(p)
        delay == blockedRetryDelay(k, hint)
    IN  /\ p \in pass.call
        /\ \/ pods' = pods
           \/ preconditions(p) /\ pods' = evicted(p)
        /\ retries' = with(retries, k, pass.start + delay)
        /\ asked' = with(asked, k, [until |-> now + longer(RetryBackoff, hint),
                                    ran   |-> now - pass.start])
        /\ pass' = [pass EXCEPT !.call = {}, !.blocked = TRUE,
                                !.requeueAfter = retryAfter(@, delay)]
        /\ UNCHANGED <<now, cpods, class, mode, shown, budgets, queue, timer, waiting, lasted>>

CompletedFirst(s) ==
    IF s.outcome # "" THEN s.outcome
    ELSE IF s.attempted THEN "Completed"
    ELSE IF s.blocked THEN "Blocked"
    ELSE IF s.deferred # {} THEN "BudgetWaiting"
    ELSE IF s.audited THEN "AuditOnly"
    ELSE "NoEligible"

(***************************************************************************)
(* A blocked Pod outweighs one that waits for the budget, which outweighs  *)
(* what was done.                                                          *)
(***************************************************************************)
classify(s) ==
    IF s.outcome # "" THEN s.outcome
    ELSE IF s.blocked THEN "Blocked"
    ELSE IF s.deferred # {} THEN "BudgetWaiting"
    ELSE IF s.attempted THEN "Completed"
    ELSE IF s.audited THEN "AuditOnly"
    ELSE "NoEligible"

Done == pass.busy /\ pass.call = {} /\ pass.todo = {}

(***************************************************************************)
(* The Eviction condition is written and the pass ends with the least      *)
(* delay as its RequeueAfter (the policy's own may only be shorter)...     *)
(***************************************************************************)
Finish ==
    /\ Done
    /\ LET n == pass.node
           t == now + pass.requeueAfter
       IN  /\ timer' = IF pass.requeueAfter = 0 \/ (timer[n] # 0 /\ timer[n] <= t) THEN timer
                       ELSE [timer EXCEPT ![n] = t]
           /\ waiting' = [waiting EXCEPT ![n] = pass.deferred]
           /\ shown' = [shown EXCEPT ![n] = classify(pass)]
           /\ lasted' = [lasted EXCEPT ![n] = now - pass.start]
    /\ pass' = NoPass
    /\ UNCHANGED <<now, pods, cpods, class, mode, budgets, retries, queue, asked, lasted>>

(***************************************************************************)
(* ... or that write fails, and the request goes back to the queue.        *)
(***************************************************************************)
FinishFails ==
    /\ Done
    /\ queue' = queue \cup {pass.node}
    /\ pass' = NoPass
    /\ UNCHANGED <<now, pods, cpods, class, mode, shown, budgets, retries, timer, waiting,
                   asked, lasted>>

FireTimer(n) ==
    /\ timer[n] # 0 /\ timer[n] <= now
    /\ timer' = [timer EXCEPT ![n] = 0] /\ queue' = queue \cup {n}
    /\ UNCHANGED <<now, pods, cpods, class, mode, shown, budgets, retries, pass, waiting,
                   asked, lasted>>

(***************************************************************************)
(* A new process or leader, perhaps with other flags: no deadlines, full   *)
(* buckets, everything queued.                                             *)
(***************************************************************************)
Restart ==
    /\ cpods' = pods /\ pass' = NoPass
    /\ nodeBucket' = [l \in Lossiness |-> [n \in Nodes |-> full(PerNode[l])]]
    /\ globalBucket' = [l \in Lossiness |-> full(Global[l])]
    /\ retries' = << >> /\ asked' = << >>
    /\ queue' = Nodes /\ timer' = [n \in Nodes |-> 0] /\ waiting' = [n \in Nodes |-> {}]
    /\ lasted' = [n \in Nodes |-> 0]
    /\ mode' \in Modes
    /\ UNCHANGED <<now, pods, class, shown>>

(***************************************************************************)
(* Time passes, also while a pass is under way or waits for an answer.     *)
(***************************************************************************)
Tick ==
    /\ now' = now + 1
    /\ UNCHANGED <<pods, cpods, class, mode, shown, budgets, retries, queue, timer, pass,
                   waiting, asked, lasted>>

----------------------------------------------------------------------------
(***************************************************************************)
(* Everybody else (external). Pods are not watched: their changes reach    *)
(* the cache and queue nothing. A Node's class changes with a report or a  *)
(* pass of the policy, both of which queue it.                             *)
(***************************************************************************)
PodWrite(x, p) ==
    /\ pods' = [pods EXCEPT ![x] = p]
    /\ UNCHANGED <<now, cpods, class, mode, shown, budgets, retries, queue, timer, pass,
                   waiting, asked, lasted>>

Create(x, n, lossy, gates) ==
    /\ ~pods[x].exists
    /\ PodWrite(x, [name |-> x, uid |-> pods[x].uid + 1, version |-> 0, exists |-> TRUE,
                    node |-> n, lossy |-> lossy, gates |-> gates])

Change(x, lossy, gates) ==
    /\ pods[x].exists
    /\ ("terminating" \in pods[x].gates) => ("terminating" \in gates)
    /\ PodWrite(x, [pods[x] EXCEPT !.lossy = lossy, !.gates = gates, !.version = @ + 1])

Remove(x) == pods[x].exists /\ PodWrite(x, [NoPod(x) EXCEPT !.uid = pods[x].uid])

SyncPods ==
    /\ cpods # pods /\ cpods' = pods
    /\ UNCHANGED <<now, pods, class, mode, shown, budgets, retries, queue, timer, pass,
                   waiting, asked, lasted>>

Notify(n, c) ==
    /\ class' = [class EXCEPT ![n] = c] /\ queue' = queue \cup {n}
    /\ UNCHANGED <<now, pods, cpods, mode, shown, budgets, retries, timer, pass, waiting,
                   asked, lasted>>

----------------------------------------------------------------------------
Work ==
    \/ \E n \in Nodes : Begin(n) \/ FireTimer(n)
    \/ \E p \in pass.todo : Skip(p) \/ Audit(p) \/ HoldBack(p) \/ tryTake(p)
    \/ \E p \in pass.call : Accepted(p) \/ \E hint \in Hints : Refused(p, hint)
    \/ Finish

Environment ==
    \/ \E x \in Names :
         \/ \E n \in Nodes, lossy \in Lossiness, gates \in SUBSET Gates : Create(x, n, lossy, gates)
         \/ \E lossy \in Lossiness, gates \in SUBSET Gates : Change(x, lossy, gates)
         \/ Remove(x)
    \/ \E n \in Nodes, c \in Classes : Notify(n, c)

Next == Work \/ Environment \/ SyncPods \/ FinishFails \/ Restart \/ Tick

Spec == Init /\ [][Next]_vars

----------------------------------------------------------------------------
TypeOK ==
    /\ now \in Nat
    /\ pods \in [Names -> PodType] /\ cpods \in [Names -> PodType]
    /\ class \in [Nodes -> Classes]
    /\ nodeBucket \in [Lossiness -> [Nodes -> BucketType]]
    /\ globalBucket \in [Lossiness -> BucketType]
    /\ DOMAIN retries \subseteq KeyType /\ DOMAIN asked \subseteq KeyType
    /\ \A k \in DOMAIN retries : retries[k] \in Nat
    /\ \A k \in DOMAIN asked : asked[k] \in [until : Nat, ran : Nat]
    /\ queue \subseteq Nodes /\ timer \in [Nodes -> Nat]
    /\ pass.busy \in BOOLEAN /\ pass.node \in Nodes \cup {NoNode} /\ pass.start \in Nat
    /\ pass.todo \subseteq PodType /\ pass.call \subseteq PodType /\ Cardinality(pass.call) <= 1
    /\ pass.requeueAfter \in Nat /\ pass.deferred \subseteq Lossiness
    /\ {pass.audited, pass.attempted, pass.blocked} \subseteq BOOLEAN
    /\ pass.outcome \in Outcomes \cup {""}
    /\ mode \in Modes /\ shown \in [Nodes -> Outcomes]
    /\ waiting \in [Nodes -> SUBSET Lossiness] /\ lasted \in [Nodes -> Nat]

(***************************************************************************)
(* "A replacement or changed Pod is blocked and must pass the safety gates *)
(* again" (docs/controller.md): whatever happened to a Pod between the     *)
(* cached list and the Eviction call, the Pod the API server takes away    *)
(* passes every gate at that moment, on the Node of this pass.             *)
(***************************************************************************)
OnlyJudgedPods ==
    [][\A p \in pass.call : pods' # pods /\ pass'.call = {} =>
          /\ evictionDecision(pods[p.name]) /\ pods[p.name].node = pass.node
          /\ pods[p.name].lossy = p.lossy]_<<pods, pass>>

(***************************************************************************)
(* "Heartbeat and status events continue to reconcile taints, but cannot   *)
(* retry eviction before that deadline" (docs/controller.md): whatever     *)
(* makes passes run, for this Node or another, no Pod is called for again  *)
(* before the backoff and the hint of the API are over, unless it stood    *)
(* back in the meantime. The wait counts from the start of the pass that   *)
(* was refused, for the deadline is now.Add(delay) of a now read before    *)
(* the pass's calls: of what the server asked for when it refused, the     *)
(* time that pass had been running by then may be missing, and no more.    *)
(***************************************************************************)
RetryHonoured ==
    [][\A p \in pass'.call \ pass.call :
          retryKey(p) \in DOMAIN asked =>
              now >= asked[retryKey(p)].until - asked[retryKey(p)].ran]_pass

(***************************************************************************)
(* "Disappeared, replaced, or ineligible Pods ... clear their retry        *)
(* entries": the ledger never holds two incarnations of a Pod of a Node,   *)
(* so it stays as small as the Node's list of Pods.                        *)
(***************************************************************************)
OneEntryPerPod ==
    \A j, k \in DOMAIN retries : (j.node = k.node /\ j.name = k.name) => j = k

(***************************************************************************)
(* "That requeue is sufficient: queued candidates are considered again     *)
(* without a heartbeat, Pod watch, or other unrelated event": between      *)
(* passes a delayed requeue is pending that comes neither after the        *)
(* deadline of a blocked Pod nor after the moment both buckets have a      *)
(* token for a waiting one - but for the time the Node's last pass took:   *)
(* its delays count from its start, and the requeue from its end.          *)
(***************************************************************************)
CanTake(l, n, t) ==
    /\ refill(nodeBucket[l][n], PerNode[l], t).tokens >= 1
    /\ refill(globalBucket[l], Global[l], t).tokens >= 1

WokenInTime ==
    \A n \in Nodes : (n \notin queue /\ ~(pass.busy /\ pass.node = n)) =>
        /\ \A k \in DOMAIN retries : (k.node = n /\ class[n] = "game") =>
              timer[n] # 0 /\ timer[n] <= retries[k] + lasted[n]
        /\ \A l \in waiting[n] :
              timer[n] # 0 /\ \A t \in now..(timer[n] - 1 - lasted[n]) : ~CanTake(l, n, t)

(***************************************************************************)
(* The Eviction condition is honest about what is left to do, whatever     *)
(* passes of this Node or of others came in between: while a Pod of the    *)
(* Node waits for its retry the condition is Blocked, while one waits for  *)
(* the budget it is Blocked or BudgetWaiting, and where it announces a     *)
(* retry a requeue is pending. No failed call is ever summed up as         *)
(* Completed, and only an enforcing policy leaves anything waiting.        *)
(***************************************************************************)
ConditionHonest ==
    \A n \in Nodes : (n \notin queue /\ ~(pass.busy /\ pass.node = n)) =>
        /\ (class[n] = "game" /\ \E k \in DOMAIN retries : k.node = n) => shown[n] = "Blocked"
        /\ waiting[n] # {} => shown[n] \in {"Blocked", "BudgetWaiting"}
        /\ shown[n] \in {"Blocked", "BudgetWaiting"} => (timer[n] # 0 /\ mode = "enforce")
        /\ mode # "enforce" => retries = << >>
=============================================================================
