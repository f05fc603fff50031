------------------------------ MODULE RestLayer ------------------------------
(***************************************************************************)
(* The REST layer for one virtual service key: DequeueNodes compares the   *)
(* model with the object caches, builds a batch of REST operations, runs   *)
(* it on the Avi controller one operation at a time, and brings the caches *)
(* up to date with what happened.  Failed batches go to the fast or to the *)
(* slow retry queue.  An object is known by its checksum, 0 for absent.    *)
(* Not told apart: an object and a later one of the same name (its uuid).  *)
(***************************************************************************)
EXTENDS Naturals, Sequences, FiniteSets, SequencesExt

CONSTANTS
    Vs,          \* the virtual service
    Subs,        \* its pools, pool groups and policy sets
    Kind,        \* the Avi model of every object, a function on Objs
    Graphs,      \* the models Kubernetes may call for: functions Objs -> checksums,
                 \* Nil if it may call for none
    Refs,        \* Refs[o][c]: what object o refers to in its version c
    Rejected,    \* objects the controller will not accept (400)
    FaultKinds,  \* what may fail: 5xx, 401, connection (before the controller did
                 \* the work), lostreply (after it), timeout (of the whole batch)
    Changes,     \* the changes of one model to another that may happen
    RetryCount,  \* value of the retry counter after a save
    MaxEdits,    \* bound: model changes
    MaxFaults,   \* bound: failing requests
    MaxCrashes,  \* bound: restarts
    MaxOutOfBand \* bound: objects deleted by a user of the controller

Objs == Subs \cup {Vs}
Nil == [o \in Objs |-> 0]

ASSUME RestAssumption ==
    /\ Vs \notin Subs /\ IsFiniteSet(Subs)
    /\ \A g \in Graphs : DOMAIN g = Objs /\ (g[Vs] = 0 => g = Nil)
    /\ FaultKinds \subseteq {"5xx", "401", "connection", "lostreply", "timeout"}
    /\ Changes \subseteq Graphs \X Graphs
    /\ {RetryCount, MaxEdits, MaxFaults, MaxCrashes, MaxOutOfBand} \subseteq Nat

VARIABLES
    model,    \* the key's entry in SharedAviGraphLister
    counter,  \* its RetryCount
    queued,   \* the key is in the graph queue
    fast,     \* ... in the fast retry queue
    slow,     \* ... in the slow retry queue
    ctrl,     \* the controller: checksum of every object
    ocache,   \* the object caches: checksum of every object
    vsEntry,  \* VsCacheMeta has an entry for the virtual service
    coll,     \* key collections of that entry
    phase,    \* idle, update, delete (of what an update left over), vsdel
    cur,      \* the copy of the model being worked on
    tries,    \* ... and its RetryCount
    ops,      \* the batch
    at,       \* next operation of the batch
    left,     \* objects to delete after the update
    late,     \* operations of a batch that timed out and is still running
    edits, faults, crashes, oob,
    doubt     \* history, since AKO last started: "none"; "deletion", one broke off
              \* and the caches were not told; "update", so did an update, or an
              \* object was deleted at the controller

cvars == <<ocache, vsEntry, coll>>
qvars == <<queued, fast, slow>>
bvars == <<phase, cur, tries, ops, at, left>>
nvars == <<edits, faults, crashes, oob, doubt>>
vars == <<model, counter, queued, fast, slow, ctrl, ocache, vsEntry, coll,
          phase, cur, tries, ops, at, left, late, edits, faults, crashes, oob,
          doubt>>

Init ==
    /\ model = Nil /\ counter = 0
    /\ queued = FALSE /\ fast = FALSE /\ slow = FALSE
    /\ ctrl = Nil /\ ocache = Nil /\ vsEntry = FALSE /\ coll = {}
    /\ phase = "idle" /\ cur = Nil /\ tries = 0 /\ ops = <<>> /\ at = 1 /\ left = {}
    /\ late = <<>>
    /\ edits = 0 /\ faults = 0 /\ crashes = 0 /\ oob = 0 /\ doubt = "none"

-----------------------------------------------------------------------------
(* Building a batch.                                                       *)

Op(o, method, sum) == [obj |-> o, method |-> method, sum |-> sum, err |-> "none"]

OfKind(S, k) == SetToSeq({o \in S : Kind[o] = k})

\* Mutant: the pool groups before their pools.
CreateKindsSwapped == <<"PoolGroup", "Pool", "HTTPPolicySet">>

\* RestOperation: pools, pool groups, policy sets, and the virtual service last.
CreateKinds == <<"Pool", "PoolGroup", "HTTPPolicySet">>

\* RestOperation and DeleteVSOper: the other way round.
DeleteKinds == <<"HTTPPolicySet", "PoolGroup", "Pool">>

InOrder(S, kinds) ==
    FlattenSeq([i \in DOMAIN kinds |-> OfKind(S, kinds[i])])

\* PoolCU, PoolGroupCU, HTTPPolicyCU for one object: nothing if it is known to
\* be up to date, PUT if any cache knows it, else POST.
SubOps(o, g) ==
    IF vsEntry /\ o \in coll
    THEN IF ocache[o] \in {0, g[o]} THEN <<>> ELSE <<Op(o, "PUT", g[o])>>
    ELSE <<Op(o, IF ocache[o] = 0 THEN "POST" ELSE "PUT", g[o])>>

\* AviVsBuild: an entry without uuid stems from another object, so POST.
VsOps(g) ==
    IF vsEntry /\ ocache[Vs] = g[Vs] THEN <<>>
    ELSE <<Op(Vs, IF vsEntry /\ ocache[Vs] # 0 THEN "PUT" ELSE "POST", g[Vs])>>

UpdateOps(g) ==
    LET subs == InOrder({o \in Subs : g[o] # 0}, CreateKinds)
    IN FlattenSeq([i \in DOMAIN subs |-> SubOps(subs[i], g)]) \o VsOps(g)

\* PoolDelete, PoolGroupDelete, HTTPPolicyDelete: what the caches know of S.
DeleteOps(S) ==
    LET subs == InOrder({o \in S : ocache[o] # 0}, DeleteKinds)
    IN [i \in DOMAIN subs |-> Op(subs[i], "DELETE", 0)]

\* DeleteVSOper: the virtual service, if its uuid is known, and its collections.
VsDeleteOps ==
    (IF ocache[Vs] # 0 THEN <<Op(Vs, "DELETE", 0)>> ELSE <<>>) \o DeleteOps(coll)

-----------------------------------------------------------------------------
(* The controller.                                                         *)

Dangling(o, sum) == \E r \in Refs[o][sum] : ctrl[r] = 0
InUse(o) == \E q \in Objs : ctrl[q] # 0 /\ o \in Refs[q][ctrl[q]]

\* The answer to a request that gets through.
Verdict(op) ==
    CASE op.method = "DELETE" /\ ctrl[op.obj] = 0      -> "404"
      [] op.method = "DELETE" /\ InUse(op.obj)         -> "400"
      [] op.method # "DELETE" /\ op.obj \in Rejected   -> "400"
      [] op.method = "PUT" /\ ctrl[op.obj] = 0         -> "404"
      [] op.method = "POST" /\ ctrl[op.obj] # 0        -> "409"
      [] op.method # "DELETE" /\ Dangling(op.obj, op.sum) -> "404ref"
      [] OTHER                                         -> "ok"

Applied(op) == [ctrl EXCEPT ![op.obj] = op.sum]

-----------------------------------------------------------------------------
(* Bringing the caches up to date.                                         *)

Caches == [o |-> ocache, e |-> vsEntry, c |-> coll]

CacheAdd(op, k) ==
    [o |-> [k.o EXCEPT ![op.obj] = op.sum],
     e |-> TRUE,
     c |-> IF op.obj = Vs THEN k.c ELSE k.c \cup {op.obj}]

CacheDel(op, k) ==
    [o |-> [k.o EXCEPT ![op.obj] = 0],
     e |-> k.e /\ op.obj # Vs,
     c |-> IF op.obj = Vs THEN {} ELSE k.c \ {op.obj}]

\* PopulateOneCache
PopulateOneCache(k, op) ==
    IF op.err = "ok" /\ op.method # "DELETE" THEN CacheAdd(op, k)
    ELSE IF op.err \in {"ok", "404"} /\ op.method = "DELETE" THEN CacheDel(op, k)
    ELSE k

\* What a virtual service on the controller leads to.
Follow(S, c) == S \cup UNION {Refs[o][c[o]] : o \in S}
Referenced(c) == IF c[Vs] = 0 THEN {} ELSE Follow(Follow(Follow({Vs}, c), c), c)

\* A pool group is refused for a missing pool: its cache is refreshed, and if
\* it exists, the wanted pools it does not have yet are forgotten.
PoolNotFound(op, k) ==
    LET lost == Refs[op.obj][op.sum] \ Refs[op.obj][ctrl[op.obj]] IN
    IF ctrl[op.obj] = 0 THEN CacheDel(op, k)
    ELSE [k EXCEPT !.o = [o \in Objs |-> IF o = op.obj THEN ctrl[o]
                                         ELSE IF o \in lost THEN 0 ELSE @[o]],
                   !.c = @ \ lost]

\* Mutant: a conflict leaves the cache as it is.
RefreshIgnoresConflict(k, op) ==
    CASE op.err = "404ref" /\ Kind[op.obj] = "PoolGroup" -> PoolNotFound(op, k)
      [] op.err = "404ref" /\ Kind[op.obj] # "PoolGroup" -> CacheDel(op, k)
      [] op.err = "404" -> CacheDel(op, k)
      [] OTHER -> k

\* RefreshCacheForRetryLayer: forget what is not on the controller, fetch what
\* turned out to be there.
RefreshCacheForRetryLayer(k, op) ==
    CASE op.err = "404ref" /\ Kind[op.obj] = "PoolGroup" -> PoolNotFound(op, k)
      [] op.err = "404ref" /\ Kind[op.obj] # "PoolGroup" -> CacheDel(op, k)
      [] op.err = "404" -> CacheDel(op, k)
      [] op.err = "409" /\ op.obj # Vs -> [k EXCEPT !.o[op.obj] = ctrl[op.obj]]
      [] op.err = "409" /\ op.obj = Vs ->
            [o |-> [k.o EXCEPT ![Vs] = ctrl[Vs]], e |-> TRUE,
             c |-> Referenced(ctrl) \ {Vs}]
      [] OTHER -> k

\* Mutant: the operations that went well before the failure are forgotten.
RefreshForgets(done, k) == FoldLeft(RefreshCacheForRetryLayer, k, Reverse(done))

\* RefreshCacheForPartialOperation with a model, from the last operation tried
\* to the first.
RefreshCacheForPartialOperation(done, k) ==
    FoldLeft(LAMBDA acc, op : IF op.err = "ok" THEN PopulateOneCache(acc, op)
                              ELSE RefreshCacheForRetryLayer(acc, op),
             k, Reverse(done))

SetCaches(k) == ocache' = k.o /\ vsEntry' = k.e /\ coll' = k.c

-----------------------------------------------------------------------------
(* The handler.                                                            *)

\* saveAviModel and PublishKeyToRestLayer, for a change in Kubernetes.
Save(g) ==
    /\ edits < MaxEdits /\ g # model
    /\ edits = 0 \/ <<model, g>> \in Changes
    /\ edits' = edits + 1
    /\ model' = g
    /\ counter' = IF g = Nil THEN 0 ELSE RetryCount
    /\ queued' = TRUE
    /\ UNCHANGED <<fast, slow, ctrl, late, faults, crashes, oob, doubt>>
    /\ UNCHANGED <<cvars, bvars>>

Finish ==
    /\ phase' = "idle" /\ cur' = Nil /\ tries' = 0 /\ ops' = <<>> /\ at' = 1 /\ left' = {}

Run(ph, g, n, batch, rest) ==
    /\ phase' = ph /\ cur' = g /\ tries' = n /\ ops' = batch /\ at' = 1 /\ left' = rest

\* Mutant: a batch is run even if it is empty.
DequeueNodesEmpty ==
    /\ queued /\ phase = "idle"
    /\ queued' = FALSE
    /\ counter' = IF model # Nil /\ counter > 0 THEN counter - 1 ELSE counter
    /\ IF model = Nil THEN Run("vsdel", Nil, 0, VsDeleteOps, {})
       ELSE Run("update", model, counter', UpdateOps(model), {o \in coll : model[o] = 0})
    /\ UNCHANGED <<model, fast, slow, ctrl, late>> /\ UNCHANGED <<cvars, nvars>>

\* DequeueNodes up to the first batch with an operation in it.
DequeueNodes ==
    /\ queued /\ phase = "idle"
    /\ queued' = FALSE
    /\ counter' = IF model # Nil /\ counter > 0 THEN counter - 1 ELSE counter
    /\ LET stale == {o \in coll : model[o] = 0}
       IN CASE model = Nil /\ vsEntry /\ VsDeleteOps # <<>> ->
                  Run("vsdel", Nil, 0, VsDeleteOps, {})
            [] model # Nil /\ UpdateOps(model) # <<>> ->
                  Run("update", model, counter', UpdateOps(model), stale)
            [] model # Nil /\ UpdateOps(model) = <<>> /\ DeleteOps(stale) # <<>> ->
                  Run("delete", model, counter', DeleteOps(stale), {})
            [] OTHER -> Finish
    /\ UNCHANGED <<model, fast, slow, ctrl, late>> /\ UNCHANGED <<cvars, nvars>>

\* AviRestOperate carries on after success, after a DELETE of something that is
\* gone, and after an error it deems not retryable of anything but a POST.  A
\* refused POST of a pool would be skipped if no object of the batch could hold
\* a reference to it; a reference is never removed, since the objects of the
\* batch are not the pointers that RemoveRef expects.
GoesOn(batch, op, err) ==
    \/ err = "ok"
    \/ err = "404" /\ op.method = "DELETE"
    \/ err = "400" /\ op.method # "POST"
    \/ err = "400" /\ Kind[op.obj] = "Pool"
       /\ \A i \in DOMAIN batch : Kind[batch[i].obj] \notin {"PoolGroup", "VirtualService"}

Done == [ops EXCEPT ![at].err = Verdict(ops[at])]

\* One operation, not the last, after which the batch goes on.
ExecuteOne ==
    /\ phase # "idle" /\ at < Len(ops)
    /\ GoesOn(ops, ops[at], Verdict(ops[at]))
    /\ ops' = Done /\ at' = at + 1
    /\ ctrl' = IF Verdict(ops[at]) = "ok" THEN Applied(ops[at]) ELSE ctrl
    /\ UNCHANGED <<model, counter, phase, cur, tries, left, late>>
    /\ UNCHANGED <<cvars, qvars, nvars>>

\* The last operation: ExecuteRestAndPopulateCache updates the caches, and
\* RestOperation goes on with the objects that are no longer wanted.
ExecuteLast ==
    /\ phase # "idle" /\ at = Len(ops)
    /\ GoesOn(ops, ops[at], Verdict(ops[at]))
    /\ ctrl' = IF Verdict(ops[at]) = "ok" THEN Applied(ops[at]) ELSE ctrl
    /\ SetCaches(FoldLeft(PopulateOneCache, Caches, Done))
    /\ LET S == {o \in left : ocache'[o] # 0}
           subs == InOrder(S, DeleteKinds)
       IN IF S = {} THEN Finish
          ELSE Run("delete", cur, tries, [i \in DOMAIN subs |-> Op(subs[i], "DELETE", 0)], {})
    /\ UNCHANGED <<model, counter, late>> /\ UNCHANGED <<qvars, nvars>>

\* PublishKeyToRetryLayer, PublishKeyToSlowRetryLayer
Publish(isFast) == /\ fast' = (fast \/ isFast)
                   /\ slow' = (slow \/ ~isFast)
                   /\ UNCHANGED queued

\* Mutant: no retry once the counter is used up.
AbortGivesUp(err) ==
    /\ LET done == [ops EXCEPT ![at].err = err]
       IN IF cur # Nil
          THEN /\ SetCaches(RefreshCacheForPartialOperation(SubSeq(done, 1, at), Caches))
               /\ IF err = "400" \/ tries = 0 THEN UNCHANGED qvars ELSE Publish(TRUE)
          ELSE UNCHANGED cvars /\ Publish(FALSE)
    /\ doubt' = IF cur = Nil /\ doubt = "none" THEN "deletion" ELSE doubt
    /\ Finish
    /\ UNCHANGED <<model, counter, ctrl, late, edits, crashes, oob>>

\* The controller answers with an error (AviError) that ends the batch.  With a
\* model the caches are refreshed and every code but 400 is retried; without one
\* the caches stay as they were and the deletion is retried.
Abort(err) ==
    /\ LET done == [ops EXCEPT ![at].err = err]
       IN IF cur # Nil
          THEN /\ SetCaches(RefreshCacheForPartialOperation(SubSeq(done, 1, at), Caches))
               /\ IF err = "400" THEN UNCHANGED qvars ELSE Publish(tries # 0)
          ELSE UNCHANGED cvars /\ Publish(FALSE)
    /\ doubt' = IF cur = Nil /\ doubt = "none" THEN "deletion" ELSE doubt
    /\ Finish
    /\ UNCHANGED <<model, counter, ctrl, late, edits, crashes, oob>>

Refused ==
    /\ phase # "idle" /\ ~GoesOn(ops, ops[at], Verdict(ops[at]))
    /\ Abort(Verdict(ops[at]))
    /\ UNCHANGED faults

\* 5xx, or another code that isErrorRetryable knows.
ServerError ==
    /\ "5xx" \in FaultKinds /\ phase # "idle" /\ faults < MaxFaults
    /\ faults' = faults + 1
    /\ Abort("5xx")

\* CheckAndPublishForRetry: 401, or an error of the connection before or after
\* the request took effect.  The caches are left alone.
ConnectionError(f) ==
    /\ f \in FaultKinds /\ phase # "idle" /\ faults < MaxFaults
    /\ f = "lostreply" => Verdict(ops[at]) = "ok"
    /\ faults' = faults + 1 /\ doubt' = "update"
    /\ ctrl' = IF f = "lostreply" THEN Applied(ops[at]) ELSE ctrl
    /\ Publish(f = "401" /\ tries # 0)
    /\ Finish
    /\ UNCHANGED <<model, counter, late, edits, crashes, oob>> /\ UNCHANGED cvars

\* AviRestOperateWrapper gives up waiting; the batch goes on by itself.
TimedOut ==
    /\ "timeout" \in FaultKinds /\ phase # "idle" /\ faults < MaxFaults /\ late = <<>>
    /\ faults' = faults + 1 /\ doubt' = "update"
    /\ late' = SubSeq(ops, at, Len(ops))
    /\ Publish(FALSE)
    /\ Finish
    /\ UNCHANGED <<model, counter, ctrl, edits, crashes, oob>> /\ UNCHANGED cvars

LateStep ==
    /\ late # <<>>
    /\ LET op == Head(late) IN
       /\ late' = IF GoesOn(late, op, Verdict(op)) THEN Tail(late) ELSE <<>>
       /\ ctrl' = IF Verdict(op) = "ok" THEN Applied(op) ELSE ctrl
    /\ UNCHANGED <<model, counter>> /\ UNCHANGED <<cvars, qvars, bvars, nvars>>

\* DequeueFastRetry and DequeueSlowRetry publish the key again.
DequeueFastRetry ==
    /\ fast /\ fast' = FALSE /\ queued' = TRUE
    /\ UNCHANGED <<model, counter, slow, ctrl, late>> /\ UNCHANGED <<cvars, bvars, nvars>>

DequeueSlowRetry ==
    /\ slow /\ slow' = FALSE /\ queued' = TRUE
    /\ UNCHANGED <<model, counter, fast, ctrl, late>> /\ UNCHANGED <<cvars, bvars, nvars>>

\* Mutant: only keys with a model are published after a restart.
RestartModelsOnly ==
    LET kept == [o \in Objs |-> IF o \in Referenced(ctrl) THEN ctrl[o] ELSE 0] IN
    /\ crashes < MaxCrashes
    /\ crashes' = crashes + 1 /\ doubt' = "none"
    /\ ctrl' = kept /\ ocache' = kept
    /\ vsEntry' = (ctrl[Vs] # 0) /\ coll' = Referenced(ctrl) \ {Vs}
    /\ counter' = IF model = Nil THEN 0 ELSE RetryCount
    /\ queued' = (model # Nil)
    /\ fast' = FALSE /\ slow' = FALSE /\ late' = <<>>
    /\ Finish
    /\ UNCHANGED <<model, edits, faults, oob>>

\* AKO restarts: AviObjCachePopulate fills the caches, the key is published if
\* it has a model or is cached, and CleanupStaleVSes deletes what no virtual
\* service refers to, before the workers start.
Restart ==
    LET kept == [o \in Objs |-> IF o \in Referenced(ctrl) THEN ctrl[o] ELSE 0] IN
    /\ crashes < MaxCrashes
    /\ crashes' = crashes + 1 /\ doubt' = "none"
    /\ ctrl' = kept /\ ocache' = kept
    /\ vsEntry' = (ctrl[Vs] # 0) /\ coll' = Referenced(ctrl) \ {Vs}
    /\ counter' = IF model = Nil THEN 0 ELSE RetryCount
    /\ queued' = (model # Nil \/ ctrl[Vs] # 0)
    /\ fast' = FALSE /\ slow' = FALSE /\ late' = <<>>
    /\ Finish
    /\ UNCHANGED <<model, edits, faults, oob>>

\* FullSync: resets the retry counter and, today, nothing else.
FullSync ==
    /\ model # Nil
    /\ counter' = RetryCount
    /\ UNCHANGED <<model, ctrl, late>> /\ UNCHANGED <<cvars, qvars, bvars, nvars>>

\* A user deletes an object that nothing refers to at the controller.
OutOfBandDelete(o) ==
    /\ oob < MaxOutOfBand /\ ctrl[o] # 0 /\ ~InUse(o)
    /\ oob' = oob + 1 /\ doubt' = "update"
    /\ ctrl' = [ctrl EXCEPT ![o] = 0]
    /\ UNCHANGED <<model, counter, late, edits, faults, crashes>>
    /\ UNCHANGED <<cvars, qvars, bvars>>

Batch ==
    \/ DequeueNodes
    \/ ExecuteOne
    \/ ExecuteLast
    \/ Refused

Fault ==
    \/ ServerError
    \/ \E f \in {"401", "connection", "lostreply"} : ConnectionError(f)
    \/ TimedOut

Next ==
    \/ \E g \in Graphs : Save(g)
    \/ Batch
    \/ Fault
    \/ LateStep
    \/ DequeueFastRetry
    \/ DequeueSlowRetry
    \/ Restart
    \/ FullSync
    \/ \E o \in Objs : OutOfBandDelete(o)

\* The worker and the retry workers run, the sync timer fires; edits, faults
\* and restarts are bounded and owe nothing.
FairSpec ==
    /\ Init /\ [][Next]_vars
    /\ WF_vars(Batch) /\ WF_vars(LateStep) /\ WF_vars(FullSync)
    /\ WF_vars(DequeueFastRetry) /\ WF_vars(DequeueSlowRetry)
-----------------------------------------------------------------------------
(* Properties.                                                             *)

\* Types; beyond them, a batch that is under way has an operation to run next:
\* DequeueNodes and ExecuteRestAndPopulateCache never start an empty one.
TypeOK ==
    LET Sums == UNION {DOMAIN Refs[o] : o \in Objs}
        Batches == Seq([obj : Objs, method : {"POST", "PUT", "DELETE"}, sum : Sums,
                        err : {"none", "ok", "400", "404", "404ref", "409", "5xx"}])
    IN /\ model \in Graphs \cup {Nil} /\ cur \in Graphs \cup {Nil}
       /\ counter \in 0..RetryCount /\ tries \in 0..RetryCount
       /\ {queued, fast, slow, vsEntry} \subseteq BOOLEAN
       /\ ctrl \in [Objs -> Sums] /\ ocache \in [Objs -> Sums]
       /\ coll \subseteq Subs /\ left \subseteq Subs
       /\ phase \in {"idle", "update", "delete", "vsdel"}
       /\ ops \in Batches /\ late \in Batches
       /\ IF phase = "idle" THEN ops = <<>> ELSE at \in DOMAIN ops
       /\ edits \in 0..MaxEdits /\ faults \in 0..MaxFaults
       /\ crashes \in 0..MaxCrashes /\ oob \in 0..MaxOutOfBand
       /\ doubt \in {"none", "deletion", "update"}

Settled == ~queued /\ ~fast /\ ~slow /\ phase = "idle" /\ late = <<>>

\* When no queue holds the key and no batch runs, the controller holds the model:
\* every object in its version and nothing left over, whatever server errors
\* came in between, and after a restart (AviObjCachePopulate,
\* publishAllParentVSKeysToRestLayer, CleanupStaleVSes) even if replies were
\* lost, batches ran on after their timeout or a user deleted objects before it.
HoldsModel == Settled /\ doubt = "none" => ctrl = model

\* Then the object caches and the collections of the virtual service, on which
\* every later comparison rests, say what is on the controller.
CacheTruth ==
    Settled /\ doubt = "none" => /\ ocache = ctrl
                                 /\ coll = {o \in Subs : ctrl[o] # 0}

\* No request is refused because of a reference: RestOperation and
\* DeleteVSOper create what is referred to first and delete it last, in
\* retried batches too.
NeverRefusedForReference ==
    phase # "idle" /\ doubt = "none" =>
        /\ Verdict(ops[at]) # "404ref"
        /\ ops[at].method = "DELETE" => ~InUse(ops[at].obj)

\* Once edits and faults are over, the controller comes to hold the model and
\* keeps it, if only server errors happened, in deletions too: no error takes
\* the key out of all queues for good (RefreshCacheForPartialOperation).
EventuallyModel == <>[](doubt # "update" => ctrl = model)

\* After connection errors and lost replies (CheckAndPublishForRetry) everything
\* wanted still arrives and stays, provided that no object returns to a version
\* it had before.
EventuallyWanted == <>[](\A o \in Objs : model[o] # 0 => ctrl[o] = model[o])
=============================================================================
