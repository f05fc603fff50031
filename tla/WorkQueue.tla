----------------------------- MODULE WorkQueue ------------------------------
(***************************************************************************)
(* The sharded work queue of pkg/utils/queue.go over client-go's rate      *)
(* limited queue.  Every layer of AKO (ingestion, graph, fast retry, slow  *)
(* retry, status) is one WorkerQueue: NumWorkers queues, one goroutine per *)
(* queue, a key always going to the queue Bkt(key).  Slow selects the      *)
(* batching worker of the slow retry layer (SlowSyncTime # 0).             *)
(***************************************************************************)
EXTENDS Integers, Sequences, FiniteSets

CONSTANTS Keys, NumWorkers, Hash, Slow

ASSUME WorkQueueAssumption ==
    /\ NumWorkers \in {1, 2, 4, 8}
    /\ Hash \in [Keys -> Nat]
    /\ Slow \in BOOLEAN

Shards == 0 .. NumWorkers - 1

\* Goroutines started by Run, one per shard.
Workers == Shards

\* The initial worker id, 0xffffffff in the code.
NoId == -1

\* utils.Bkt: Hash & (n - 1), with n a power of two.
Bkt(k) == Hash[k] % NumWorkers

VARIABLES
    waiting,       \* keys held back by the rate limiter of their queue
    queue,         \* per shard: FIFO of keys ready to be taken
    dirty,         \* per shard: keys that need processing
    processing,    \* per shard: keys handed out by Get and not yet Done
    shuttingDown,  \* per shard: ShutDown was called
    stopNext,      \* index reached by the loop of StopWorkers
    workerId,      \* ids left in the worker id mask
    pc,            \* per goroutine: new, ready, sync, exit, done
    wid,           \* per goroutine: its worker id
    item,          \* per goroutine: the keys it holds (none or one)
    left           \* per goroutine: items left in the batch (Slow)

qvars == <<waiting, queue, dirty, processing>>
wvars == <<workerId, pc, wid, item, left>>
vars == <<waiting, queue, dirty, processing, shuttingDown, stopNext,
          workerId, pc, wid, item, left>>

\* Mutants of NewWorkQueue: a mask with one bit too many, and one too few.
NewWorkQueueWideMask ==
    /\ waiting = {}
    /\ queue = [s \in Shards |-> <<>>]
    /\ dirty = [s \in Shards |-> {}] /\ processing = dirty
    /\ shuttingDown = [s \in Shards |-> FALSE] /\ stopNext = 0
    /\ workerId = 0 .. NumWorkers

NewWorkQueueShortMask ==
    /\ waiting = {}
    /\ queue = [s \in Shards |-> <<>>]
    /\ dirty = [s \in Shards |-> {}] /\ processing = dirty
    /\ shuttingDown = [s \in Shards |-> FALSE] /\ stopNext = 0
    /\ workerId = 0 .. NumWorkers - 2

NewWorkQueue ==
    /\ waiting = {}
    /\ queue = [s \in Shards |-> <<>>]
    /\ dirty = [s \in Shards |-> {}]
    /\ processing = [s \in Shards |-> {}]
    /\ shuttingDown = [s \in Shards |-> FALSE]
    /\ stopNext = 0
    /\ workerId = Shards

\* Run: one runWorker goroutine per shard, none of them scheduled yet.
Init ==
    /\ NewWorkQueue
    /\ pc = [w \in Workers |-> "new"]
    /\ wid = [w \in Workers |-> NoId]
    /\ item = [w \in Workers |-> {}]
    /\ left = [w \in Workers |-> 0]

-----------------------------------------------------------------------------
(* client-go: AddRateLimited, the delayed Add, ShutDown.                   *)

AddRateLimited(k) ==
    /\ ~shuttingDown[Bkt(k)]
    /\ waiting' = waiting \cup {k}
    /\ UNCHANGED <<queue, dirty, processing, shuttingDown, stopNext>>
    /\ UNCHANGED wvars

\* Mutants of Add: a publisher that hashes into another shard, and one that
\* ignores a key being processed.
AddOtherShard(k) ==
    LET s == (Hash[k] \div 2) % NumWorkers IN
    /\ k \in waiting /\ waiting' = waiting \ {k}
    /\ dirty' = [dirty EXCEPT ![s] = @ \cup {k}]
    /\ queue' = IF k \in dirty[s] \/ k \in processing[s]
                THEN queue ELSE [queue EXCEPT ![s] = Append(@, k)]
    /\ UNCHANGED <<processing, shuttingDown, stopNext>> /\ UNCHANGED wvars

AddIgnoresProcessing(k) ==
    LET s == Bkt(k) IN
    /\ k \in waiting /\ waiting' = waiting \ {k}
    /\ IF shuttingDown[s] \/ k \in dirty[s] \/ k \in processing[s]
       THEN UNCHANGED <<dirty, queue>>
       ELSE /\ dirty' = [dirty EXCEPT ![s] = @ \cup {k}]
            /\ queue' = [queue EXCEPT ![s] = Append(@, k)]
    /\ UNCHANGED <<processing, shuttingDown, stopNext>> /\ UNCHANGED wvars

\* Add, once the delay is over: ignored on a queue that is shutting down, and
\* only marked dirty while the key is being processed.
Add(k) ==
    LET s == Bkt(k) IN
    /\ k \in waiting
    /\ waiting' = waiting \ {k}
    /\ dirty' = IF shuttingDown[s] THEN dirty
                ELSE [dirty EXCEPT ![s] = @ \cup {k}]
    /\ queue' = IF shuttingDown[s] \/ k \in dirty[s] \/ k \in processing[s]
                THEN queue ELSE [queue EXCEPT ![s] = Append(@, k)]
    /\ UNCHANGED <<processing, shuttingDown, stopNext>>
    /\ UNCHANGED wvars

\* Mutant of StopWorkers: the loop misses the last queue.
StopWorkersMissesLast ==
    /\ stopNext < NumWorkers
    /\ shuttingDown' = IF stopNext = NumWorkers - 1 THEN shuttingDown
                       ELSE [shuttingDown EXCEPT ![stopNext] = TRUE]
    /\ stopNext' = stopNext + 1
    /\ UNCHANGED qvars /\ UNCHANGED wvars

\* One turn of the loop in StopWorkers.
StopWorkers ==
    /\ stopNext < NumWorkers
    /\ shuttingDown' = [shuttingDown EXCEPT ![stopNext] = TRUE]
    /\ stopNext' = stopNext + 1
    /\ UNCHANGED qvars
    /\ UNCHANGED wvars

-----------------------------------------------------------------------------
(* runWorker.                                                              *)

LowestFree == IF workerId = {} THEN NoId
              ELSE CHOOSE i \in workerId : \A j \in workerId : i <= j

\* Mutant of PickWorkerId: the bit stays set in the mask.
PickWorkerIdKeepsBit(w) ==
    /\ pc[w] = "new"
    /\ wid' = [wid EXCEPT ![w] = LowestFree]
    /\ pc' = [pc EXCEPT ![w] = "ready"]
    /\ UNCHANGED <<workerId, item, left, shuttingDown, stopNext>>
    /\ UNCHANGED qvars

\* The locked scan of the id mask at the start of runWorker.
PickWorkerId(w) ==
    /\ pc[w] = "new"
    /\ wid' = [wid EXCEPT ![w] = LowestFree]
    /\ workerId' = workerId \ {LowestFree}
    /\ pc' = [pc EXCEPT ![w] = "ready"]
    /\ UNCHANGED <<item, left, shuttingDown, stopNext>>
    /\ UNCHANGED qvars

\* Mutants of TimerFires: a batch one item too long, and one too short.
TimerFiresLong(w) ==
    /\ Slow /\ pc[w] = "ready" /\ wid[w] # NoId /\ left[w] = 0
    /\ left' = [left EXCEPT ![w] = Len(queue[wid[w]]) + 1]
    /\ UNCHANGED <<workerId, pc, wid, item, shuttingDown, stopNext>>
    /\ UNCHANGED qvars

TimerFiresShort(w) ==
    /\ Slow /\ pc[w] = "ready" /\ wid[w] # NoId /\ left[w] = 0
    /\ Len(queue[wid[w]]) > 0
    /\ left' = [left EXCEPT ![w] = Len(queue[wid[w]]) - 1]
    /\ UNCHANGED <<workerId, pc, wid, item, shuttingDown, stopNext>>
    /\ UNCHANGED qvars

\* SlowSyncTime: wait for the timer, then fix the length of the batch.
TimerFires(w) ==
    /\ Slow
    /\ pc[w] = "ready" /\ wid[w] # NoId /\ left[w] = 0
    /\ left' = [left EXCEPT ![w] = Len(queue[wid[w]])]
    /\ UNCHANGED <<workerId, pc, wid, item, shuttingDown, stopNext>>
    /\ UNCHANGED qvars

AtGet(w) == pc[w] = "ready" /\ wid[w] # NoId /\ (Slow => left[w] > 0)

\* Get returns the head of the shard's queue and SyncFunc starts on it.
Get(w) ==
    LET s == wid[w] IN
    /\ AtGet(w)
    /\ queue[s] # <<>>
    /\ item' = [item EXCEPT ![w] = {Head(queue[s])}]
    /\ processing' = [processing EXCEPT ![s] = @ \cup {Head(queue[s])}]
    /\ dirty' = [dirty EXCEPT ![s] = @ \ {Head(queue[s])}]
    /\ queue' = [queue EXCEPT ![s] = Tail(@)]
    /\ pc' = [pc EXCEPT ![w] = "sync"]
    /\ UNCHANGED <<waiting, workerId, wid, left, shuttingDown, stopNext>>

\* Mutant of Done: a key that became dirty meanwhile is not queued again.
DoneForgetsDirty(w) ==
    /\ pc[w] = "sync"
    /\ processing' = [processing EXCEPT ![wid[w]] = @ \ item[w]]
    /\ item' = [item EXCEPT ![w] = {}]
    /\ left' = IF Slow THEN [left EXCEPT ![w] = @ - 1] ELSE left
    /\ pc' = [pc EXCEPT ![w] = "ready"]
    /\ UNCHANGED <<waiting, queue, dirty, workerId, wid, shuttingDown, stopNext>>

\* SyncFunc returned: Forget and the deferred Done, which queues the key again
\* when it became dirty meanwhile, whatever error SyncFunc reported.
Done(w) ==
    LET s == wid[w]
        again == item[w] \cap dirty[s] IN
    /\ pc[w] = "sync"
    /\ processing' = [processing EXCEPT ![s] = @ \ item[w]]
    /\ queue' = IF again = {} THEN queue
                ELSE [queue EXCEPT ![s] = Append(@, CHOOSE k \in again : TRUE)]
    /\ item' = [item EXCEPT ![w] = {}]
    /\ left' = IF Slow THEN [left EXCEPT ![w] = @ - 1] ELSE left
    /\ pc' = [pc EXCEPT ![w] = "ready"]
    /\ UNCHANGED <<waiting, dirty, workerId, wid, shuttingDown, stopNext>>

\* Mutant of GetShutdown: leaves with items still queued.
GetShutdownEarly(w) ==
    /\ AtGet(w) /\ shuttingDown[wid[w]]
    /\ pc' = [pc EXCEPT ![w] = "exit"]
    /\ UNCHANGED <<workerId, wid, item, left, shuttingDown, stopNext>>
    /\ UNCHANGED qvars

\* Get returned shutdown: the loop of runWorker ends.
GetShutdown(w) ==
    /\ AtGet(w)
    /\ queue[wid[w]] = <<>> /\ shuttingDown[wid[w]]
    /\ pc' = [pc EXCEPT ![w] = "exit"]
    /\ UNCHANGED <<workerId, wid, item, left, shuttingDown, stopNext>>
    /\ UNCHANGED qvars

ReturnWorkerId(w) ==
    /\ pc[w] = "exit"
    /\ workerId' = workerId \cup {wid[w]}
    /\ pc' = [pc EXCEPT ![w] = "done"]
    /\ UNCHANGED <<wid, item, left, shuttingDown, stopNext>>
    /\ UNCHANGED qvars

runWorker(w) ==
    \/ PickWorkerId(w)
    \/ TimerFires(w)
    \/ Get(w)
    \/ Done(w)
    \/ GetShutdown(w)
    \/ ReturnWorkerId(w)

Next ==
    \/ \E k \in Keys : AddRateLimited(k) \/ Add(k)
    \/ StopWorkers
    \/ \E w \in Workers : runWorker(w)

\* A goroutine that can run is eventually scheduled and SyncFunc returns; the
\* timers of the delaying queue fire; a StopWorkers that began goes on.
Fairness ==
    /\ \A w \in Workers : WF_vars(runWorker(w))
    /\ \A k \in Keys : WF_vars(Add(k))
    /\ WF_vars(stopNext > 0 /\ StopWorkers)

Spec == Init /\ [][Next]_vars
FairSpec == Spec /\ Fairness

-----------------------------------------------------------------------------
(* Properties.                                                             *)

\* Types; among them, that the ids in the mask are numbers of queues.
TypeOK ==
    /\ waiting \subseteq Keys
    /\ queue \in [Shards -> Seq(Keys)]
    /\ dirty \in [Shards -> SUBSET Keys]
    /\ processing \in [Shards -> SUBSET Keys]
    /\ shuttingDown \in [Shards -> BOOLEAN]
    /\ stopNext \in 0 .. NumWorkers
    /\ workerId \subseteq Shards
    /\ pc \in [Workers -> {"new", "ready", "sync", "exit", "done"}]
    /\ wid \in [Workers -> Shards \cup {NoId}]
    /\ item \in [Workers -> SUBSET Keys]
    /\ left \in [Workers -> Nat]

Active(w) == pc[w] \in {"ready", "sync", "exit"}

\* The id mask of runWorker gives every live goroutine a shard of its own, so
\* no two goroutines ever drain the same queue.
OneWorkerPerShard ==
    \A v, w \in Workers :
        (Active(v) /\ Active(w) /\ v # w) => wid[v] # wid[w] \/ wid[v] = NoId

\* Bkt and the per-queue sets together: two goroutines never sync the same
\* key, and the goroutine that syncs a key owns the key's shard.
KeyExclusion ==
    \A w \in Workers : \A k \in item[w] :
        /\ wid[w] = Bkt(k)
        /\ \A v \in Workers : k \in item[v] => v = w

\* The contract client-go documents for its sets: what is queued is dirty and
\* not being processed, once; what is dirty and not being processed is queued.
QueueMatchesDirty ==
    \A s \in Shards :
        /\ \A i \in 1 .. Len(queue[s]) :
              queue[s][i] \in dirty[s] \ processing[s]
        /\ \A i, j \in 1 .. Len(queue[s]) :
              queue[s][i] = queue[s][j] => i = j
        /\ \A k \in dirty[s] \ processing[s] :
              \E i \in 1 .. Len(queue[s]) : queue[s][i] = k

\* runWorker always finds an id in the mask, so it never indexes Workqueue
\* with 0xffffffff.
IdsSuffice == \A w \in Workers : Active(w) => wid[w] # NoId

\* A batch of the slow worker never asks for more items than are queued, so
\* the worker cannot block in Get in the middle of a batch.
BatchNeverBlocks ==
    \A w \in Workers :
        (pc[w] = "ready" /\ wid[w] # NoId /\ left[w] > 0) =>
            left[w] <= Len(queue[wid[w]])

\* Every set and every goroutine stays within its own shard, a syncing
\* goroutine holds exactly one key, and that key is in processing.
ShardDiscipline ==
    /\ \A s \in Shards : \A k \in dirty[s] \cup processing[s] : Bkt(k) = s
    /\ \A w \in Workers : pc[w] \in {"sync", "exit"} => wid[w] # NoId
    /\ \A w \in Workers : pc[w] # "sync" => item[w] = {}
    /\ \A w \in Workers : pc[w] = "sync" =>
          \E k \in Keys : item[w] = {k} /\ k \in processing[wid[w]]
    /\ \A w \in Workers : pc[w] = "sync" /\ Slow => left[w] > 0

\* A live goroutine's id is out of the mask.
IdsTaken == \A w \in Workers : Active(w) => wid[w] \notin workerId

\* The inductive invariant of the proofs in WorkQueueProofs.
WorkQueueInv ==
    TypeOK /\ IdsTaken /\ OneWorkerPerShard /\ ShardDiscipline
           /\ QueueMatchesDirty

\* A batch that is under way is no longer than the queue, the item in the hands of
\* the worker apart, and only the batching worker has one.
BatchFits ==
    \A w \in Workers :
        /\ Slow \/ left[w] = 0
        /\ pc[w] = "new" => left[w] = 0
        /\ pc[w] = "ready" /\ left[w] > 0 => wid[w] # NoId /\ left[w] <= Len(queue[wid[w]])
        /\ pc[w] = "sync" /\ Slow => left[w] - 1 <= Len(queue[wid[w]])

\* Every id is in the mask or with a goroutine that is in its loop.
IdsCounted ==
    Cardinality(workerId) + Cardinality({w \in Workers : Active(w)}) = NumWorkers

\* What is in processing is in the hands of a goroutine of that shard.
ProcessingHeld ==
    \A s \in Shards : \A k \in processing[s] :
        \E w \in Workers : pc[w] = "sync" /\ wid[w] = s /\ item[w] = {k}

\* The refinement: keys in the delay heap or dirty are requested.
Requested == {k \in Keys : k \in waiting \/ k \in dirty[Bkt(k)]}
Running == UNION {processing[s] : s \in Shards}
Closed == {s \in Shards : shuttingDown[s]}

Abstract == INSTANCE KeyedQueue WITH
    Shard <- [k \in Keys |-> Bkt(k)],
    requested <- Requested, running <- Running, closed <- Closed

\* A key added while it is processed is not lost, and Get, Done and Add keep
\* the promise of KeyedQueue.
ImplementsKeyedQueue == Abstract!Spec

\* A key that Add marked dirty, even while it was being processed, is handed
\* to SyncFunc again (only Get clears the mark) unless its queue is shut down:
\* nothing is lost and no key starves behind the others of its shard.
EventuallySynced ==
    \A k \in Keys :
        k \in dirty[Bkt(k)] ~> (k \notin dirty[Bkt(k)] \/ shuttingDown[Bkt(k)])

\* What is dirty when StopWorkers shuts a queue down is still synced, provided
\* some goroutine owns the shard (one that is first scheduled after another has
\* exited takes the returned id, and its own shard is orphaned).
QueuedIsDrained ==
    \A k \in Keys :
        (/\ k \in dirty[Bkt(k)]
         /\ \E w \in Workers : Active(w) /\ wid[w] = Bkt(k))
        ~> (k \notin dirty[Bkt(k)])
=============================================================================
