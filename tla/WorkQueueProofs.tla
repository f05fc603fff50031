-------------------------- MODULE WorkQueueProofs ---------------------------
(* For any set of keys and any number of workers: runWorker, Get, Done and   *)
(* Add keep the queue, the dirty set and the processing set consistent, and  *)
(* no two goroutines ever work on one shard or on one key.                   *)
EXTENDS WorkQueue, FiniteSetTheorems, TLAPS

\* The shard of a key, computed by Bkt, is one of the shards of the queue.
LEMMA BktInShards == \A k \in Keys : Bkt(k) \in Shards
  BY WorkQueueAssumption DEF Bkt, Shards

\* The id a goroutine starts with is not the number of a shard.
LEMMA NoIdNotShard == NoId \notin Shards
  BY WorkQueueAssumption DEF NoId, Shards

\* The scan of the id mask finds a member of the mask unless it is empty.
LEMMA LowestFreeFound ==
    ASSUME TypeOK, workerId # {} PROVE LowestFree \in workerId
  <1>1. workerId \subseteq 0 .. 7
    BY WorkQueueAssumption DEF TypeOK, Shards
  <1> DEFINE Low(i) == i \in workerId /\ \A j \in 0 .. 7 : j < i => j \notin workerId
  <1>2. \E i \in workerId : i \in 0 .. 7
    BY Zenon, <1>1
  <1>3. Low(0) \/ Low(1) \/ Low(2) \/ Low(3) \/ Low(4) \/ Low(5) \/ Low(6) \/ Low(7)
    <2>1. \/ 0 \in workerId \/ 1 \in workerId \/ 2 \in workerId \/ 3 \in workerId
          \/ 4 \in workerId \/ 5 \in workerId \/ 6 \in workerId \/ 7 \in workerId
      BY <1>2
    <2> QED BY <2>1
  <1>4. \E i \in 0 .. 7 : Low(i)
    BY <1>3
  <1>5. \E i \in workerId : \A j \in workerId : i <= j
    BY <1>1, <1>4
  <1> QED BY Zenon, <1>5 DEF LowestFree

\* ... in which case it leaves the goroutine without one.
LEMMA LowestFreeInMask ==
    ASSUME TypeOK PROVE LowestFree \in workerId \/ LowestFree = NoId
  <1>1. CASE workerId = {}
    BY Zenon, <1>1 DEF LowestFree
  <1> QED BY Zenon, <1>1, LowestFreeFound

\* The state NewWorkQueue and Run leave behind satisfies the invariant.
LEMMA InitInv == Init => WorkQueueInv
  BY WorkQueueAssumption, NoIdNotShard DEF Init, NewWorkQueue, WorkQueueInv, TypeOK,
     IdsTaken, OneWorkerPerShard, ShardDiscipline, QueueMatchesDirty, Active

\* Every action of the queue and of its goroutines preserves the invariant.
LEMMA NextInv == WorkQueueInv /\ [Next]_vars => WorkQueueInv'
  <1> SUFFICES ASSUME WorkQueueInv, [Next]_vars PROVE WorkQueueInv'
    OBVIOUS
  <1> USE BktInShards, NoIdNotShard
  <1>a. TypeOK /\ IdsTaken /\ OneWorkerPerShard /\ ShardDiscipline /\ QueueMatchesDirty
    BY Zenon DEF WorkQueueInv
  <1>1. ASSUME NEW k \in Keys, AddRateLimited(k) PROVE WorkQueueInv'
    BY <1>a, <1>1 DEF AddRateLimited, wvars, WorkQueueInv, TypeOK, IdsTaken,
       OneWorkerPerShard, ShardDiscipline, QueueMatchesDirty, Active
  <1>2. ASSUME NEW k \in Keys, Add(k) PROVE WorkQueueInv'
    <2> DEFINE s == Bkt(k)
    <2>1. TypeOK'
      BY <1>a, <1>2 DEF Add, wvars, TypeOK
    <2>2. IdsTaken' /\ OneWorkerPerShard'
      BY Zenon, <1>a, <1>2 DEF Add, wvars, IdsTaken, OneWorkerPerShard, Active
    <2>3. ShardDiscipline'
      BY <1>a, <1>2 DEF Add, wvars, ShardDiscipline, TypeOK
    <2>4. QueueMatchesDirty'
      <3>1. CASE shuttingDown[s] \/ k \in dirty[s]
        <4>1. dirty' = dirty /\ queue' = queue /\ processing' = processing
          BY <1>a, <1>2, <3>1 DEF Add, TypeOK
        <4> QED BY <1>a, <4>1 DEF QueueMatchesDirty
      <3>2. CASE ~shuttingDown[s] /\ k \notin dirty[s] /\ k \in processing[s]
        <4>1. queue' = queue /\ processing' = processing
              /\ dirty' = [dirty EXCEPT ![s] = @ \cup {k}]
          BY Zenon, <1>2, <3>2 DEF Add
        <4> QED BY <1>a, <4>1, <3>2 DEF QueueMatchesDirty, TypeOK
      <3>3. CASE ~shuttingDown[s] /\ k \notin dirty[s] /\ k \notin processing[s]
        <4>1. queue' = [queue EXCEPT ![s] = Append(@, k)] /\ processing' = processing
              /\ dirty' = [dirty EXCEPT ![s] = @ \cup {k}]
          BY Zenon, <1>2, <3>3 DEF Add
        <4>2. s \in Shards /\ queue[s] \in Seq(Keys)
          BY Zenon, <1>a DEF TypeOK
        <4>3. Len(queue'[s]) = Len(queue[s]) + 1 /\ queue'[s][Len(queue[s]) + 1] = k
              /\ \A i \in 1 .. Len(queue[s]) : queue'[s][i] = queue[s][i]
          BY <1>a, <4>1, <4>2 DEF TypeOK
        <4>4. dirty'[s] = dirty[s] \cup {k} /\ processing'[s] = processing[s]
          BY Zenon, <1>a, <4>1, <4>2 DEF TypeOK
        <4>5. \A t \in Shards : t # s => queue'[t] = queue[t] /\ dirty'[t] = dirty[t]
          BY Zenon, <1>a, <4>1 DEF TypeOK
        <4> HIDE DEF s
        <4> QED BY <1>a, <3>3, <4>1, <4>2, <4>3, <4>4, <4>5 DEF QueueMatchesDirty
      <3> QED BY Zenon, <3>1, <3>2, <3>3
    <2> QED BY Zenon, <2>1, <2>2, <2>3, <2>4 DEF WorkQueueInv
  <1>3. CASE StopWorkers
    <2>1. stopNext \in Shards /\ stopNext + 1 \in 0 .. NumWorkers
      BY <1>a, <1>3, WorkQueueAssumption DEF StopWorkers, TypeOK, Shards
    <2> QED BY <1>a, <1>3, <2>1 DEF StopWorkers, qvars, wvars, WorkQueueInv, TypeOK, IdsTaken,
       OneWorkerPerShard, ShardDiscipline, QueueMatchesDirty, Active
  <1>4. ASSUME NEW w \in Workers, PickWorkerId(w) PROVE WorkQueueInv'
    <2>1. LowestFree \in workerId \/ LowestFree = NoId
      BY Zenon, <1>a, LowestFreeInMask
    <2>2. TypeOK'
      BY Zenon, <1>a, <1>4, <2>1 DEF PickWorkerId, qvars, TypeOK
    <2>3. IdsTaken' /\ OneWorkerPerShard'
      BY Zenon, <1>a, <1>4, <2>1 DEF PickWorkerId, TypeOK, IdsTaken, OneWorkerPerShard, Active
    <2>4. ShardDiscipline' /\ QueueMatchesDirty'
      BY <1>a, <1>4 DEF PickWorkerId, qvars, TypeOK, ShardDiscipline, QueueMatchesDirty
    <2> QED BY Zenon, <2>2, <2>3, <2>4 DEF WorkQueueInv
  <1>5. ASSUME NEW w \in Workers, TimerFires(w) PROVE WorkQueueInv'
    BY <1>a, <1>5 DEF TimerFires, qvars, WorkQueueInv, TypeOK, IdsTaken,
       OneWorkerPerShard, ShardDiscipline, QueueMatchesDirty, Active
  <1>6. ASSUME NEW w \in Workers, Get(w) PROVE WorkQueueInv'
    <2> DEFINE s == wid[w]
               h == Head(queue[s])
    <2>1. s \in Shards /\ queue[s] \in Seq(Keys) /\ queue[s] # <<>> /\ h \in Keys
      BY <1>a, <1>6 DEF Get, AtGet, TypeOK
    <2>2. h = queue[s][1] /\ 1 \in 1 .. Len(queue[s]) /\ h \in dirty[s] \ processing[s]
      BY <1>a, <2>1 DEF QueueMatchesDirty
    <2>3. /\ queue' = [queue EXCEPT ![s] = Tail(@)]
          /\ dirty' = [dirty EXCEPT ![s] = @ \ {h}]
          /\ processing' = [processing EXCEPT ![s] = @ \cup {h}]
          /\ item' = [item EXCEPT ![w] = {h}] /\ pc' = [pc EXCEPT ![w] = "sync"]
          /\ UNCHANGED <<waiting, workerId, wid, left, shuttingDown, stopNext>>
      BY Zenon, <1>6 DEF Get
    <2>4. pc[w] = "ready" /\ wid[w] # NoId
      BY Zenon, <1>6 DEF Get, AtGet
    <2>5. Bkt(h) = s
      BY Zenon, <1>a, <2>1, <2>2 DEF ShardDiscipline
    <2>6. /\ Len(queue'[s]) = Len(queue[s]) - 1
          /\ \A i \in 1 .. Len(queue'[s]) : queue'[s][i] = queue[s][i + 1]
          /\ dirty'[s] = dirty[s] \ {h} /\ processing'[s] = processing[s] \cup {h}
          /\ \A t \in Shards : t # s => /\ queue'[t] = queue[t] /\ dirty'[t] = dirty[t]
                                        /\ processing'[t] = processing[t]
      BY <1>a, <2>1, <2>3 DEF TypeOK
    <2> HIDE DEF s, h
    <2>7. TypeOK'
      BY <1>a, <2>1, <2>3 DEF TypeOK
    <2>8. IdsTaken' /\ OneWorkerPerShard'
      BY <1>a, <2>3, <2>4 DEF TypeOK, IdsTaken, OneWorkerPerShard, Active
    <2>9. ShardDiscipline'
      <3>1. \A v \in Workers : v # w => pc'[v] = pc[v] /\ item'[v] = item[v]
        BY Zenon, <1>a, <2>3 DEF TypeOK
      <3>2. pc'[w] = "sync" /\ item'[w] = {h} /\ wid'[w] = s /\ wid' = wid
        BY Zenon, <1>a, <2>3 DEF TypeOK, s
      <3>3. \A t \in Shards : processing[t] \subseteq processing'[t]
        BY Zenon, <2>6
      <3>4. \A v \in Workers : pc'[v] \in {"sync", "exit"} => wid'[v] # NoId
        BY Zenon, <1>a, <2>4, <3>1, <3>2 DEF ShardDiscipline
      <3>5. \A v \in Workers : pc'[v] # "sync" => item'[v] = {}
        BY Zenon, <1>a, <3>1, <3>2 DEF ShardDiscipline
      <3>6. ASSUME NEW v \in Workers, pc'[v] = "sync"
            PROVE \E k \in Keys : item'[v] = {k} /\ k \in processing'[wid'[v]]
        <4>1. CASE v = w
          BY Zenon, <2>1, <2>6, <3>2, <4>1
        <4>2. CASE v # w
          <5>1. pc[v] = "sync" /\ wid[v] \in Shards
            BY <1>a, <3>1, <3>6, <4>2 DEF ShardDiscipline, TypeOK
          <5> QED BY <1>a, <3>1, <3>2, <3>3, <4>2, <5>1 DEF ShardDiscipline
        <4> QED BY Zenon, <4>1, <4>2
      <3>7. \A t \in Shards : \A k \in dirty'[t] \cup processing'[t] : Bkt(k) = t
        BY <1>a, <2>5, <2>6 DEF ShardDiscipline
      <3>8. \A v \in Workers : pc'[v] = "sync" /\ Slow => left'[v] > 0
        BY Zenon, <1>a, <1>6, <2>3, <3>1 DEF ShardDiscipline, Get, AtGet
      <3> QED BY Zenon, <3>4, <3>5, <3>6, <3>7, <3>8 DEF ShardDiscipline
    <2>10. QueueMatchesDirty'
      <3>1. ASSUME NEW t \in Shards, t # s
            PROVE /\ \A i \in 1 .. Len(queue'[t]) : queue'[t][i] \in dirty'[t] \ processing'[t]
                  /\ \A i, j \in 1 .. Len(queue'[t]) : queue'[t][i] = queue'[t][j] => i = j
                  /\ \A k \in dirty'[t] \ processing'[t] :
                        \E i \in 1 .. Len(queue'[t]) : queue'[t][i] = k
        BY <1>a, <2>6, <3>1 DEF QueueMatchesDirty
      <3>2. Len(queue[s]) \in Nat
        BY <2>1
      <3>3. \A i \in 1 .. Len(queue'[s]) : i + 1 \in 1 .. Len(queue[s]) /\ i + 1 # 1
        BY <2>6, <3>2
      <3>a. \A i \in 1 .. Len(queue[s]) : queue[s][i] \in dirty[s] \ processing[s]
        BY Zenon, <1>a, <2>1 DEF QueueMatchesDirty
      <3>b. \A i, j \in 1 .. Len(queue[s]) : queue[s][i] = queue[s][j] => i = j
        BY Zenon, <1>a, <2>1 DEF QueueMatchesDirty
      <3>4. ASSUME NEW i \in 1 .. Len(queue'[s])
            PROVE queue'[s][i] \in dirty'[s] \ processing'[s]
        <4>1. queue'[s][i] = queue[s][i + 1] /\ queue[s][i + 1] # h
          BY Zenon, <2>2, <2>6, <3>3, <3>b
        <4> QED BY Zenon, <2>6, <3>3, <3>a, <4>1
      <3>5. ASSUME NEW i \in 1 .. Len(queue'[s]), NEW j \in 1 .. Len(queue'[s]),
                   queue'[s][i] = queue'[s][j]
            PROVE i = j
        <4>1. i + 1 = j + 1
          BY <2>6, <3>3, <3>5, <3>b
        <4> QED BY <4>1, <3>2, <2>6
      <3>6. ASSUME NEW k \in dirty'[s] \ processing'[s]
            PROVE \E i \in 1 .. Len(queue'[s]) : queue'[s][i] = k
        <4>1. k \in dirty[s] \ processing[s] /\ k # h
          BY Zenon, <2>6, <3>6
        <4>2. PICK i \in 1 .. Len(queue[s]) : queue[s][i] = k
          BY Zenon, <1>a, <2>1, <4>1 DEF QueueMatchesDirty
        <4>3. i # 1
          BY Zenon, <2>2, <4>1, <4>2
        <4>4. i - 1 \in 1 .. Len(queue'[s]) /\ queue'[s][i - 1] = k
          BY <2>6, <3>2, <4>2, <4>3
        <4> QED BY Zenon, <4>4
      <3> QED BY Zenon, <3>1, <3>4, <3>5, <3>6 DEF QueueMatchesDirty
    <2> QED BY Zenon, <2>7, <2>8, <2>9, <2>10 DEF WorkQueueInv
  <1>7. ASSUME NEW w \in Workers, Done(w) PROVE WorkQueueInv'
    <2> DEFINE s == wid[w]
    <2>1. PICK k \in Keys : item[w] = {k} /\ k \in processing[s]
      BY Zenon, <1>a, <1>7 DEF Done, ShardDiscipline
    <2>2. s \in Shards /\ queue[s] \in Seq(Keys) /\ Bkt(k) = s
      BY <1>a, <1>7, <2>1 DEF Done, ShardDiscipline, TypeOK
    <2>3. /\ queue' = IF k \in dirty[s] THEN [queue EXCEPT ![s] = Append(@, k)] ELSE queue
          /\ processing' = [processing EXCEPT ![s] = @ \ {k}]
      <3>1. item[w] \cap dirty[s] = IF k \in dirty[s] THEN {k} ELSE {}
        BY Zenon, <2>1
      <3>2. (CHOOSE x \in {k} : TRUE) = k
        OBVIOUS
      <3> QED BY Zenon, <1>7, <2>1, <3>1, <3>2 DEF Done
    <2>4. /\ pc[w] = "sync" /\ pc' = [pc EXCEPT ![w] = "ready"]
          /\ item' = [item EXCEPT ![w] = {}]
          /\ UNCHANGED <<waiting, dirty, workerId, wid, shuttingDown, stopNext>>
      BY Zenon, <1>7 DEF Done
    <2>5. left' \in [Workers -> Nat] /\ \A v \in Workers : v # w => left'[v] = left[v]
      BY <1>a, <1>7, <2>4 DEF Done, TypeOK, ShardDiscipline
    <2>6. processing'[s] = processing[s] \ {k} /\ dirty'[s] = dirty[s]
      BY Zenon, <1>a, <2>2, <2>3, <2>4 DEF TypeOK
    <2>7. \A t \in Shards : t # s => /\ queue'[t] = queue[t] /\ dirty'[t] = dirty[t]
                                     /\ processing'[t] = processing[t]
      BY Zenon, <1>a, <2>2, <2>3, <2>4 DEF TypeOK
    <2>8. \A v \in Workers : v # w /\ pc[v] = "sync" => wid[v] # s /\ wid[v] \in Shards
      BY <1>a, <2>2, <2>4 DEF OneWorkerPerShard, Active, ShardDiscipline, TypeOK
    <2> HIDE DEF s
    <2>9. TypeOK'
      <3>1. Append(queue[s], k) \in Seq(Keys)
        BY <2>2
      <3>2. queue' \in [Shards -> Seq(Keys)]
        BY Zenon, <1>a, <2>2, <2>3, <3>1 DEF TypeOK
      <3>3. processing' \in [Shards -> SUBSET Keys]
        BY Zenon, <1>a, <2>3 DEF TypeOK
      <3>4. pc' \in [Workers -> {"new", "ready", "sync", "exit", "done"}]
            /\ item' \in [Workers -> SUBSET Keys]
        BY Zenon, <1>a, <2>4 DEF TypeOK
      <3> QED BY Zenon, <1>a, <2>4, <2>5, <3>2, <3>3, <3>4 DEF TypeOK
    <2>10. IdsTaken' /\ OneWorkerPerShard'
      BY <1>a, <2>4 DEF TypeOK, IdsTaken, OneWorkerPerShard, Active
    <2>11. ShardDiscipline'
      <3>1. \A v \in Workers : v # w => pc'[v] = pc[v] /\ item'[v] = item[v]
        BY Zenon, <1>a, <2>4 DEF TypeOK
      <3>2. pc'[w] = "ready" /\ item'[w] = {} /\ wid' = wid
        BY Zenon, <1>a, <2>4 DEF TypeOK
      <3>3. \A t \in Shards : \A x \in dirty'[t] \cup processing'[t] : Bkt(x) = t
        BY <1>a, <2>6, <2>7 DEF ShardDiscipline
      <3>4. ASSUME NEW v \in Workers, pc'[v] = "sync"
            PROVE /\ \E x \in Keys : item'[v] = {x} /\ x \in processing'[wid'[v]]
                  /\ Slow => left'[v] > 0
        <4>1. v # w /\ pc[v] = "sync"
          BY Zenon, <3>1, <3>2, <3>4
        <4>2. processing'[wid'[v]] = processing[wid[v]]
          BY Zenon, <2>7, <2>8, <3>2, <4>1
        <4> QED BY Zenon, <1>a, <2>5, <3>1, <4>1, <4>2 DEF ShardDiscipline
      <3>5. \A v \in Workers : /\ pc'[v] \in {"sync", "exit"} => wid'[v] # NoId
                               /\ pc'[v] # "sync" => item'[v] = {}
        BY Zenon, <1>a, <3>1, <3>2 DEF ShardDiscipline
      <3> QED BY Zenon, <3>3, <3>4, <3>5 DEF ShardDiscipline
    <2>12. QueueMatchesDirty'
      <3>1. \A i \in 1 .. Len(queue[s]) : queue[s][i] # k
        BY <1>a, <2>1, <2>2 DEF QueueMatchesDirty, s
      <3>2. CASE k \notin dirty[s]
        <4>1. queue' = queue
          BY Zenon, <2>3, <3>2
        <4> QED BY <1>a, <2>2, <2>6, <2>7, <3>1, <3>2, <4>1 DEF QueueMatchesDirty
      <3>3. CASE k \in dirty[s]
        <4>1. Len(queue'[s]) = Len(queue[s]) + 1 /\ queue'[s][Len(queue[s]) + 1] = k
              /\ \A i \in 1 .. Len(queue[s]) : queue'[s][i] = queue[s][i]
          BY <1>a, <2>2, <2>3, <3>3 DEF TypeOK
        <4> DEFINE n == Len(queue[s])
        <4>2. n \in Nat
          BY <2>2
        <4>3. \A i \in 1 .. n : queue[s][i] \in dirty[s] \ processing[s]
          BY Zenon, <1>a, <2>2 DEF QueueMatchesDirty
        <4>4. \A i, j \in 1 .. n : queue[s][i] = queue[s][j] => i = j
          BY Zenon, <1>a, <2>2 DEF QueueMatchesDirty
        <4>5. \A x \in dirty[s] \ processing[s] : \E i \in 1 .. n : queue[s][i] = x
          BY Zenon, <1>a, <2>2 DEF QueueMatchesDirty
        <4>6. \A i \in 1 .. Len(queue'[s]) : i \in 1 .. n \/ i = n + 1
          BY <4>1, <4>2
        <4>7. 1 .. n \subseteq 1 .. Len(queue'[s]) /\ n + 1 \in 1 .. Len(queue'[s])
          BY <4>1, <4>2
        <4>8. queue'[s][n + 1] = k /\ \A i \in 1 .. n : queue'[s][i] = queue[s][i]
          BY Zenon, <4>1
        <4> HIDE DEF n
        <4>9. \A i \in 1 .. Len(queue'[s]) : queue'[s][i] \in dirty'[s] \ processing'[s]
          BY Zenon, <2>6, <3>1, <3>3, <4>3, <4>6, <4>8
        <4>10. \A i, j \in 1 .. Len(queue'[s]) : queue'[s][i] = queue'[s][j] => i = j
          BY Zenon, <3>1, <4>4, <4>6, <4>8 DEF n
        <4>11. \A x \in dirty'[s] \ processing'[s] :
                  \E i \in 1 .. Len(queue'[s]) : queue'[s][i] = x
          BY Zenon, <2>6, <4>5, <4>7, <4>8
        <4> QED BY <1>a, <2>7, <4>9, <4>10, <4>11 DEF QueueMatchesDirty
      <3> QED BY Zenon, <3>2, <3>3
    <2> QED BY Zenon, <2>9, <2>10, <2>11, <2>12 DEF WorkQueueInv
  <1>8. ASSUME NEW w \in Workers, GetShutdown(w) PROVE WorkQueueInv'
    BY SMTT(30), <1>a, <1>8 DEF GetShutdown, AtGet, qvars, WorkQueueInv, TypeOK, IdsTaken,
       OneWorkerPerShard, ShardDiscipline, QueueMatchesDirty, Active
  <1>9. ASSUME NEW w \in Workers, ReturnWorkerId(w) PROVE WorkQueueInv'
    <2>1. wid[w] \in Shards
      BY SMTT(30), <1>a, <1>9 DEF ReturnWorkerId, ShardDiscipline, TypeOK
    <2> QED BY <1>a, <1>9, <2>1 DEF ReturnWorkerId, qvars, WorkQueueInv, TypeOK, IdsTaken,
       OneWorkerPerShard, ShardDiscipline, QueueMatchesDirty, Active
  <1>10. CASE UNCHANGED vars
    BY <1>a, <1>10 DEF vars, WorkQueueInv, TypeOK, IdsTaken,
       OneWorkerPerShard, ShardDiscipline, QueueMatchesDirty, Active
  <1> QED BY Zenon, <1>1, <1>2, <1>3, <1>4, <1>5, <1>6, <1>7, <1>8, <1>9, <1>10
          DEF Next, runWorker

\* runWorker, Get, Done, Add and StopWorkers keep the whole invariant, for any
\* keys and any number of workers the code allows.
THEOREM WorkQueueIsSafe == Spec => []WorkQueueInv
  <1>1. Init => WorkQueueInv
    BY Zenon, InitInv
  <1>2. WorkQueueInv /\ [Next]_vars => WorkQueueInv'
    BY Zenon, NextInv
  <1> QED BY <1>1, <1>2, PTL DEF Spec

\* No two goroutines of a WorkerQueue drain the same shard: the id mask of
\* runWorker works for every interleaving of starts and exits.
THEOREM ShardOwnership == Spec => []OneWorkerPerShard
  <1>1. WorkQueueInv => OneWorkerPerShard
    BY Zenon DEF WorkQueueInv
  <1> QED BY <1>1, WorkQueueIsSafe, PTL

\* The queue, dirty and processing sets agree in every reachable state, so no
\* key is lost and none is handed out twice.
THEOREM QueueConsistency == Spec => []QueueMatchesDirty
  <1>1. WorkQueueInv => QueueMatchesDirty
    BY Zenon DEF WorkQueueInv
  <1> QED BY <1>1, WorkQueueIsSafe, PTL

\* Two goroutines never run SyncFunc on the same key, and the one that does
\* owns the key's shard.
THEOREM KeysAreExclusive == Spec => []KeyExclusion
  <1>1. WorkQueueInv => KeyExclusion
    <2> SUFFICES ASSUME WorkQueueInv, NEW w \in Workers, NEW k \in item[w]
                 PROVE /\ wid[w] = Bkt(k)
                       /\ \A v \in Workers : k \in item[v] => v = w
      BY Zenon DEF KeyExclusion
    <2>1. \A v \in Workers : k \in item[v] =>
             pc[v] = "sync" /\ wid[v] = Bkt(k) /\ wid[v] # NoId
      BY DEF WorkQueueInv, ShardDiscipline, TypeOK
    <2> QED BY Zenon, <2>1 DEF WorkQueueInv, OneWorkerPerShard, Active
  <1> QED BY <1>1, WorkQueueIsSafe, PTL
-----------------------------------------------------------------------------
\* A queue does not get shorter by an append to one of the shards.
LEMMA AppendGrows ==
    ASSUME TypeOK, NEW s \in Shards, NEW k \in Keys,
           queue' = queue \/ queue' = [queue EXCEPT ![s] = Append(@, k)]
    PROVE  \A t \in Shards : Len(queue'[t]) \in Nat /\ Len(queue[t]) <= Len(queue'[t])
  <1> SUFFICES ASSUME NEW t \in Shards
               PROVE  Len(queue'[t]) \in Nat /\ Len(queue[t]) <= Len(queue'[t])
    OBVIOUS
  <1>1. queue[t] \in Seq(Keys) /\ Len(queue[t]) \in Nat
    BY DEF TypeOK
  <1>2. queue'[t] = queue[t] \/ queue'[t] = Append(queue[t], k)
    BY Zenon DEF TypeOK
  <1>3. Len(Append(queue[t], k)) = Len(queue[t]) + 1
    BY <1>1
  <1> QED BY <1>1, <1>2, <1>3

\* The batches stay within their queues: only the owner of a shard takes from it.
LEMMA NextBatch == ASSUME WorkQueueInv, BatchFits, [Next]_vars PROVE BatchFits'
  <1> USE BktInShards, NoIdNotShard
  <1>a. TypeOK /\ OneWorkerPerShard /\ ShardDiscipline
    BY Zenon DEF WorkQueueInv
  <1>b. \A s \in Shards : queue[s] \in Seq(Keys) /\ Len(queue[s]) \in Nat
    BY <1>a DEF TypeOK
  <1>c. \A w \in Workers : left[w] \in Nat /\ wid[w] \in Shards \cup {NoId}
    BY Zenon, <1>a DEF TypeOK
  <1>1. ASSUME NEW k \in Keys, AddRateLimited(k) PROVE BatchFits'
    BY Zenon, <1>1 DEF AddRateLimited, wvars, BatchFits
  <1>2. ASSUME NEW k \in Keys, Add(k) PROVE BatchFits'
    <2>0. queue' = queue \/ queue' = [queue EXCEPT ![Bkt(k)] = Append(@, k)]
      BY Zenon, <1>2 DEF Add
    <2>1. \A s \in Shards : Len(queue'[s]) \in Nat /\ Len(queue[s]) <= Len(queue'[s])
      BY Zenon, <1>a, <2>0, AppendGrows
    <2>2. \A w \in Workers : pc[w] = "sync" => wid[w] # NoId
      BY Zenon, <1>a DEF ShardDiscipline
    <2> QED BY SMTT(30), <1>2, <1>b, <1>c, <2>1, <2>2 DEF Add, wvars, BatchFits
  <1>3. CASE StopWorkers
    BY Zenon, <1>3 DEF StopWorkers, qvars, wvars, BatchFits
  <1>4. ASSUME NEW w \in Workers, PickWorkerId(w) PROVE BatchFits'
    BY <1>4, <1>a DEF PickWorkerId, qvars, BatchFits, TypeOK
  <1>5. ASSUME NEW w \in Workers, TimerFires(w) PROVE BatchFits'
    BY <1>5, <1>a, <1>b, <1>c DEF TimerFires, qvars, BatchFits, TypeOK
  <1>6. ASSUME NEW w \in Workers, Get(w) PROVE BatchFits'
    <2>1. wid[w] \in Shards /\ queue[wid[w]] # <<>> /\ pc[w] = "ready" /\ (Slow => left[w] > 0)
      BY Zenon, <1>6, <1>c DEF Get, AtGet
    <2>2. /\ Len(queue'[wid[w]]) = Len(queue[wid[w]]) - 1
          /\ \A s \in Shards : s # wid[w] => queue'[s] = queue[s]
      BY <1>6, <1>a, <2>1 DEF Get, TypeOK
    <2>3. pc' = [pc EXCEPT ![w] = "sync"] /\ left' = left /\ wid' = wid
      BY Zenon, <1>6 DEF Get
    <2>4. \A v \in Workers : v # w /\ pc[v] \in {"ready", "sync"} => wid[v] # wid[w]
      BY Zenon, <1>a, <2>1 DEF OneWorkerPerShard, Active
    <2>5. \A v \in Workers : pc[v] = "sync" => wid[v] # NoId
      BY Zenon, <1>a DEF ShardDiscipline
    <2> QED BY SMTT(30), <1>a, <1>b, <1>c, <2>1, <2>2, <2>3, <2>4, <2>5 DEF BatchFits, TypeOK
  <1>7. ASSUME NEW w \in Workers, Done(w) PROVE BatchFits'
    <2>1. /\ pc[w] = "sync" /\ pc' = [pc EXCEPT ![w] = "ready"] /\ wid' = wid
          /\ left' = IF Slow THEN [left EXCEPT ![w] = @ - 1] ELSE left
      BY Zenon, <1>7 DEF Done
    <2>2. PICK k \in Keys : item[w] = {k} /\ wid[w] \in Shards
      BY Zenon, <1>a, <1>c, <2>1 DEF ShardDiscipline
    <2>3. queue' = queue \/ queue' = [queue EXCEPT ![wid[w]] = Append(@, k)]
      BY Zenon, <1>7, <2>2 DEF Done
    <2>4. \A s \in Shards : Len(queue'[s]) \in Nat /\ Len(queue[s]) <= Len(queue'[s])
      BY Zenon, <1>a, <2>2, <2>3, AppendGrows
    <2>5. \A v \in Workers : pc[v] = "sync" => wid[v] # NoId
      BY Zenon, <1>a DEF ShardDiscipline
    <2> QED BY SMTT(30), <1>a, <1>b, <1>c, <2>1, <2>2, <2>4, <2>5 DEF BatchFits, TypeOK
  <1>8. ASSUME NEW w \in Workers, GetShutdown(w) \/ ReturnWorkerId(w) PROVE BatchFits'
    BY Zenon, <1>8, <1>a DEF GetShutdown, ReturnWorkerId, qvars, BatchFits, TypeOK
  <1>9. CASE UNCHANGED vars
    BY Zenon, <1>9 DEF vars, BatchFits
  <1> QED BY Zenon, <1>1, <1>2, <1>3, <1>4, <1>5, <1>6, <1>7, <1>8, <1>9 DEF Next, runWorker

\* A batch of the slow worker never asks for more items than are queued: in runWorker
\* the worker that fixed the length of its batch never blocks in Get before its end,
\* whatever is added or shut down meanwhile.
THEOREM BatchesFit == Spec => []BatchNeverBlocks
  <1>1. Init => BatchFits
    BY Zenon DEF Init, BatchFits
  <1>2. BatchFits => BatchNeverBlocks
    BY Zenon DEF BatchFits, BatchNeverBlocks
  <1> QED BY <1>1, <1>2, InitInv, NextInv, NextBatch, PTL DEF Spec
-----------------------------------------------------------------------------
\* There are NumWorkers goroutines.
LEMMA WorkersFinite ==
    IsFiniteSet(Workers) /\ Cardinality(Workers) = NumWorkers /\ NumWorkers \in Nat
  <1>1. NumWorkers \in Nat \ {0}
    BY SMTT(30), WorkQueueAssumption
  <1> QED BY <1>1, FS_Interval DEF Workers, Shards

\* An id leaves the mask as a goroutine enters its loop, and comes back as it exits.
LEMMA NextIds ==
    ASSUME WorkQueueInv, IdsCounted, IdsSuffice, [Next]_vars
    PROVE  IdsCounted' /\ IdsSuffice'
  <1> DEFINE Live == {w \in Workers : Active(w)}
  <1>a. TypeOK /\ IdsTaken /\ ShardDiscipline
    BY Zenon DEF WorkQueueInv
  <1>b. IsFiniteSet(Live) /\ IsFiniteSet(workerId)
    BY Zenon, <1>a, WorkersFinite, FS_Subset DEF TypeOK, Workers
  <1>c. Cardinality(Live) \in Nat /\ Cardinality(workerId) \in Nat
    BY Zenon, <1>b, FS_CardinalityType
  <1>1. ASSUME NEW w \in Workers, PickWorkerId(w) PROVE IdsCounted' /\ IdsSuffice'
    <2>1. w \notin Live /\ pc[w] = "new"
      BY Zenon, <1>1 DEF PickWorkerId, Active
    <2>2. Live \in SUBSET Workers /\ Live # Workers
      BY Zenon, <2>1
    <2>3. Cardinality(Live) # NumWorkers
      BY Zenon, <2>2, WorkersFinite, FS_Subset
    <2>4. workerId # {}
      BY <1>c, <2>3, FS_EmptySet, WorkersFinite DEF IdsCounted
    <2>5. LowestFree \in workerId
      BY Zenon, <1>a, <2>4, LowestFreeFound
    <2>6. Cardinality(workerId') = Cardinality(workerId) - 1
      BY Zenon, <1>1, <1>b, <2>5, FS_RemoveElement DEF PickWorkerId
    <2>7. Live' = Live \cup {w}
      BY Zenon, <1>1, <1>a, <2>1 DEF PickWorkerId, Active, TypeOK
    <2>8. Cardinality(Live') = Cardinality(Live) + 1
      BY Zenon, <1>b, <2>1, <2>7, FS_AddElement
    <2>9. LowestFree # NoId
      BY Zenon, <1>a, <2>5, NoIdNotShard DEF TypeOK
    <2> HIDE DEF Live
    <2>10. IdsCounted'
      <3>1. Cardinality(workerId) + Cardinality(Live) = NumWorkers
        BY Zenon DEF IdsCounted, Live
      <3>2. Cardinality(workerId') + Cardinality(Live') = NumWorkers
        BY <1>c, <2>6, <2>8, <3>1
      <3> QED BY Zenon, <3>2 DEF IdsCounted, Live
    <2> QED BY Zenon, <1>1, <1>a, <2>9, <2>10 DEF PickWorkerId, IdsSuffice, Active, TypeOK
  <1>2. ASSUME NEW w \in Workers, ReturnWorkerId(w) PROVE IdsCounted' /\ IdsSuffice'
    <2>1. w \in Live /\ pc[w] = "exit" /\ wid[w] \notin workerId
      BY Zenon, <1>2, <1>a DEF ReturnWorkerId, Active, IdsTaken
    <2>2. Cardinality(workerId') = Cardinality(workerId) + 1
      BY Zenon, <1>2, <1>b, <2>1, FS_AddElement DEF ReturnWorkerId
    <2>3. Live' = Live \ {w}
      BY Zenon, <1>2, <1>a DEF ReturnWorkerId, Active, TypeOK
    <2>4. Cardinality(Live') = Cardinality(Live) - 1
      BY Zenon, <1>b, <2>1, <2>3, FS_RemoveElement
    <2>5. IdsSuffice'
      BY Zenon, <1>2, <1>a DEF ReturnWorkerId, IdsSuffice, Active, TypeOK
    <2> HIDE DEF Live
    <2>6. Cardinality(workerId) + Cardinality(Live) = NumWorkers
      BY DEF IdsCounted, Live
    <2>7. Cardinality(workerId') + Cardinality(Live') = NumWorkers
      BY <1>c, <2>2, <2>4, <2>6
    <2> QED BY Zenon, <2>5, <2>7 DEF IdsCounted, Live
  <1>3. ASSUME UNCHANGED <<workerId, wid>>, \A w \in Workers : Active(w)' <=> Active(w)
        PROVE  IdsCounted' /\ IdsSuffice'
    <2>1. Live' = Live
      BY Zenon, <1>3
    <2> QED BY Zenon, <1>3, <2>1 DEF IdsCounted, IdsSuffice
  <1>4. ASSUME UNCHANGED wvars PROVE IdsCounted' /\ IdsSuffice'
    BY Zenon, <1>3, <1>4 DEF wvars, Active
  <1>5. ASSUME NEW w \in Workers, TimerFires(w) \/ Get(w) \/ Done(w) \/ GetShutdown(w)
        PROVE  IdsCounted' /\ IdsSuffice'
    <2>1. UNCHANGED <<workerId, wid>>
      BY Zenon, <1>5 DEF TimerFires, Get, Done, GetShutdown
    <2>2. \A v \in Workers : Active(v)' <=> Active(v)
      BY Zenon, <1>5, <1>a DEF TimerFires, Get, AtGet, Done, GetShutdown, Active, TypeOK
    <2> QED BY Zenon, <1>3, <2>1, <2>2
  <1> QED BY Zenon, <1>1, <1>2, <1>4, <1>5
          DEF Next, runWorker, AddRateLimited, Add, StopWorkers, vars, wvars

\* runWorker always finds an id in the mask: the goroutines in their loops and the
\* ids in the mask are NumWorkers together, so none of them indexes Workqueue with
\* 0xffffffff, whatever the order of starts and exits.
THEOREM IdsAlwaysSuffice == Spec => []IdsSuffice
  <1>1. Init => IdsCounted /\ IdsSuffice
    <2> SUFFICES ASSUME Init PROVE IdsCounted /\ IdsSuffice
      OBVIOUS
    <2>1. \A w \in Workers : ~Active(w)
      BY Zenon DEF Init, Active
    <2>2. {w \in Workers : Active(w)} = {}
      BY Zenon, <2>1
    <2>3. Cardinality(workerId) = NumWorkers /\ NumWorkers + 0 = NumWorkers
      BY SMTT(30), WorkersFinite DEF Init, NewWorkQueue, Workers
    <2> QED BY Zenon, <2>1, <2>2, <2>3, FS_EmptySet DEF IdsCounted, IdsSuffice
  <1> QED BY <1>1, InitInv, NextInv, NextIds, PTL DEF Spec
-----------------------------------------------------------------------------
\* Get and Done keep what is in processing in the hands of its goroutine.
LEMMA NextHeld == ASSUME WorkQueueInv, ProcessingHeld, [Next]_vars PROVE ProcessingHeld'
  <1>a. TypeOK /\ OneWorkerPerShard /\ ShardDiscipline
    BY Zenon DEF WorkQueueInv
  <1>1. ASSUME UNCHANGED <<processing, item, wid>>,
               \A w \in Workers : pc[w] = "sync" => pc'[w] = "sync"
        PROVE  ProcessingHeld'
    BY <1>1 DEF ProcessingHeld
  <1>2. ASSUME NEW w \in Workers, Get(w) PROVE ProcessingHeld'
    <2> DEFINE h == Head(queue[wid[w]])
    <2>1. /\ wid[w] \in Shards /\ pc[w] = "ready" /\ wid' = wid
          /\ item' = [item EXCEPT ![w] = {h}] /\ pc' = [pc EXCEPT ![w] = "sync"]
          /\ processing' = [processing EXCEPT ![wid[w]] = @ \cup {h}]
      BY Zenon, <1>2, <1>a DEF Get, AtGet, TypeOK
    <2> HIDE DEF h
    <2>2. SUFFICES ASSUME NEW s \in Shards, NEW k \in processing'[s]
                   PROVE  \E v \in Workers : pc'[v] = "sync" /\ wid'[v] = s /\ item'[v] = {k}
      BY Zenon DEF ProcessingHeld
    <2>3. CASE k \in processing[s]
      <3>1. PICK v \in Workers : pc[v] = "sync" /\ wid[v] = s /\ item[v] = {k}
        BY Zenon, <2>3 DEF ProcessingHeld
      <3> QED BY Zenon, <1>a, <2>1, <3>1 DEF TypeOK
    <2>4. CASE k \notin processing[s]
      BY Zenon, <1>a, <2>1, <2>2, <2>4 DEF TypeOK
    <2> QED BY Zenon, <2>3, <2>4
  <1>3. ASSUME NEW w \in Workers, Done(w) PROVE ProcessingHeld'
    <2>1. /\ pc[w] = "sync" /\ wid' = wid
          /\ item' = [item EXCEPT ![w] = {}] /\ pc' = [pc EXCEPT ![w] = "ready"]
          /\ processing' = [processing EXCEPT ![wid[w]] = @ \ item[w]]
      BY Zenon, <1>3 DEF Done
    <2>2. SUFFICES ASSUME NEW s \in Shards, NEW k \in processing'[s]
                   PROVE  \E v \in Workers : pc'[v] = "sync" /\ wid'[v] = s /\ item'[v] = {k}
      BY DEF ProcessingHeld
    <2>3. k \in processing[s] /\ (wid[w] = s => k \notin item[w])
      BY Zenon, <1>a, <2>1, <2>2 DEF TypeOK
    <2>4. PICK v \in Workers : pc[v] = "sync" /\ wid[v] = s /\ item[v] = {k}
      BY Zenon, <2>3 DEF ProcessingHeld
    <2> QED BY Zenon, <1>a, <2>1, <2>3, <2>4 DEF TypeOK
  <1>4. ASSUME NEW w \in Workers, PickWorkerId(w) PROVE ProcessingHeld'
    <2>1. /\ pc[w] = "new" /\ wid' = [wid EXCEPT ![w] = LowestFree]
          /\ pc' = [pc EXCEPT ![w] = "ready"] /\ UNCHANGED <<processing, item>>
      BY Zenon, <1>4 DEF PickWorkerId, qvars
    <2>2. \A v \in Workers : pc[v] = "sync" => pc'[v] = "sync" /\ wid'[v] = wid[v]
      BY Zenon, <1>a, <2>1 DEF TypeOK
    <2> QED BY <2>1, <2>2 DEF ProcessingHeld
  <1>5. ASSUME NEW w \in Workers, TimerFires(w) \/ GetShutdown(w) \/ ReturnWorkerId(w)
        PROVE  ProcessingHeld'
    <2>1. UNCHANGED <<processing, item, wid>>
      BY Zenon, <1>5 DEF TimerFires, GetShutdown, ReturnWorkerId, qvars
    <2>2. \A v \in Workers : pc[v] = "sync" => pc'[v] = "sync"
      BY Zenon, <1>5, <1>a DEF TimerFires, GetShutdown, AtGet, ReturnWorkerId, TypeOK
    <2> QED BY Zenon, <1>1, <2>1, <2>2
  <1>6. ASSUME UNCHANGED processing, UNCHANGED wvars PROVE ProcessingHeld'
    BY Zenon, <1>1, <1>6 DEF wvars
  <1> QED BY Zenon, <1>2, <1>3, <1>4, <1>5, <1>6
          DEF Next, runWorker, AddRateLimited, Add, StopWorkers, qvars, vars, wvars

\* A step of the queue is a step of KeyedQueue, or none.
LEMMA NextRefines ==
    ASSUME WorkQueueInv, ProcessingHeld, [Next]_vars
    PROVE  [Abstract!Next]_(Abstract!kqvars)
  <1> USE BktInShards
  <1> DEFINE Shard == [k \in Keys |-> Bkt(k)]
  <1>a. TypeOK /\ OneWorkerPerShard /\ ShardDiscipline /\ QueueMatchesDirty
    BY Zenon DEF WorkQueueInv
  <1>1. ASSUME NEW k \in Keys, AddRateLimited(k) PROVE Abstract!Request(k)
    <2>1. Requested' = Requested \cup {k} /\ Running' = Running /\ Closed' = Closed
      BY Zenon, <1>1 DEF AddRateLimited, Requested, Running, Closed
    <2>2. Bkt(k) \notin Closed
      BY Zenon, <1>1 DEF AddRateLimited, Closed
    <2> QED BY Zenon, <2>1, <2>2 DEF Abstract!Request
  <1>2. ASSUME NEW k \in Keys, Add(k) PROVE Abstract!Drop(k) \/ UNCHANGED Abstract!kqvars
    <2>1. Running' = Running /\ Closed' = Closed
      BY Zenon, <1>2 DEF Add, Running, Closed
    <2>2. CASE shuttingDown[Bkt(k)]
      <3>1. Requested' = IF k \in dirty[Bkt(k)] THEN Requested ELSE Requested \ {k}
        BY Zenon, <1>2, <2>2 DEF Add, Requested
      <3>2. Bkt(k) \in Closed
        BY Zenon, <2>2 DEF Closed
      <3> QED BY Zenon, <2>1, <3>1, <3>2 DEF Abstract!Drop, Abstract!kqvars
    <2>3. CASE ~shuttingDown[Bkt(k)]
      <3>1. dirty' = [dirty EXCEPT ![Bkt(k)] = @ \cup {k}] /\ k \in waiting
            /\ waiting' = waiting \ {k}
        BY Zenon, <1>2, <2>3 DEF Add
      <3>2. Requested' = Requested
        BY Zenon, <1>a, <3>1 DEF Requested, TypeOK
      <3> QED BY Zenon, <2>1, <3>2 DEF Abstract!kqvars
    <2> QED BY Zenon, <2>2, <2>3
  <1>3. CASE StopWorkers
    <2>1. stopNext \in Shards
      BY <1>a, <1>3, WorkQueueAssumption DEF StopWorkers, TypeOK, Shards
    <2>2. Requested' = Requested /\ Running' = Running
      BY Zenon, <1>3 DEF StopWorkers, qvars, Requested, Running
    <2>3. Closed' = Closed \cup {stopNext}
      BY Zenon, <1>a, <1>3, <2>1 DEF StopWorkers, Closed, TypeOK
    <2>4. Abstract!Close(stopNext)
      BY Zenon, <2>2, <2>3 DEF Abstract!Close
    <2> QED BY Zenon, <2>1, <2>4 DEF Abstract!Next
  <1>4. ASSUME NEW w \in Workers, Get(w) PROVE \E k \in Keys : Abstract!Start(k)
    <2> DEFINE s == wid[w]
               h == Head(queue[s])
    <2>1. s \in Shards /\ pc[w] = "ready" /\ queue[s] \in Seq(Keys) /\ queue[s] # <<>>
      BY Zenon, <1>4, <1>a DEF Get, AtGet, TypeOK
    <2>2. h = queue[s][1] /\ 1 \in 1 .. Len(queue[s]) /\ h \in Keys
      BY <2>1
    <2>3. h \in dirty[s] /\ Bkt(h) = s
      BY <1>a, <2>1, <2>2 DEF QueueMatchesDirty, ShardDiscipline
    <2>4. /\ processing' = [processing EXCEPT ![s] = @ \cup {h}]
          /\ dirty' = [dirty EXCEPT ![s] = @ \ {h}] /\ UNCHANGED <<waiting, shuttingDown>>
      BY Zenon, <1>4 DEF Get
    <2> HIDE DEF h, s
    <2>5. processing[s] = {}
      <3>1. \A v \in Workers : pc[v] = "sync" => wid[v] # s
        BY Zenon, <1>a, <2>1, NoIdNotShard DEF OneWorkerPerShard, Active, s
      <3> QED BY <2>1, <3>1 DEF ProcessingHeld
    <2>6. \A j \in Running : Bkt(j) # s /\ j \in Keys
      BY <1>a, <2>1, <2>5 DEF Running, ShardDiscipline, TypeOK
    <2>7. Running' = Running \cup {h} /\ Closed' = Closed
      BY <1>a, <2>1, <2>4 DEF Running, Closed, TypeOK
    <2>8. Requested' \in {Requested, Requested \ {h}} /\ h \in Requested
      BY <1>a, <2>1, <2>2, <2>3, <2>4 DEF Requested, TypeOK
    <2>9. Abstract!Start(h)
      BY Zenon, <2>2, <2>3, <2>6, <2>7, <2>8 DEF Abstract!Start
    <2> QED BY Zenon, <2>2, <2>9
  <1>5. ASSUME NEW w \in Workers, Done(w) PROVE \E k \in Keys : Abstract!Finish(k)
    <2>1. PICK k \in Keys : item[w] = {k} /\ k \in processing[wid[w]]
      BY Zenon, <1>a, <1>5 DEF Done, ShardDiscipline
    <2>2. wid[w] \in Shards
      BY SMTT(30), <1>a, <1>5 DEF Done, ShardDiscipline, TypeOK
    <2>3. /\ processing' = [processing EXCEPT ![wid[w]] = @ \ {k}]
          /\ UNCHANGED <<waiting, dirty, shuttingDown>>
      BY Zenon, <1>5, <2>1 DEF Done
    <2>4. \A t \in Shards : t # wid[w] => k \notin processing[t]
      BY <1>a, <2>1, <2>2 DEF ShardDiscipline
    <2>5. Running' = Running \ {k} /\ k \in Running
      BY <1>a, <2>1, <2>2, <2>3, <2>4 DEF Running, TypeOK
    <2>6. Requested' = Requested /\ Closed' = Closed
      BY Zenon, <2>3 DEF Requested, Closed
    <2> QED BY Zenon, <2>5, <2>6 DEF Abstract!Finish
  <1>6. ASSUME UNCHANGED <<waiting, dirty, processing, shuttingDown>>
        PROVE  UNCHANGED Abstract!kqvars
    BY Zenon, <1>6 DEF Abstract!kqvars, Requested, Running, Closed
  <1>7. ASSUME NEW w \in Workers, PickWorkerId(w) \/ TimerFires(w) \/ GetShutdown(w) \/ ReturnWorkerId(w)
        PROVE  UNCHANGED Abstract!kqvars
    BY Zenon, <1>6, <1>7 DEF PickWorkerId, TimerFires, GetShutdown, ReturnWorkerId, qvars
  <1>8. CASE UNCHANGED vars
    BY Zenon, <1>6, <1>8 DEF vars
  <1> QED BY Zenon, <1>1, <1>2, <1>3, <1>4, <1>5, <1>7, <1>8 DEF Next, runWorker, Abstract!Next

\* The sharded queue keeps the promise of KeyedQueue: Add, Get, Done and StopWorkers
\* lose no request, not even one made while its key is processed, never hand out two
\* keys of one shard at a time, and drop a request only once the shard is shut down.
THEOREM QueueRefinesKeyedQueue == Spec => ImplementsKeyedQueue
  <1>1. Init => ProcessingHeld /\ Abstract!Init
    BY BktInShards DEF Init, NewWorkQueue, ProcessingHeld, Abstract!Init, Requested, Running, Closed
  <1> QED BY <1>1, InitInv, NextInv, NextHeld, NextRefines, PTL
          DEF Spec, ImplementsKeyedQueue, Abstract!Spec
=============================================================================
