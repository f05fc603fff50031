# Verification of AKO, the Avi Kubernetes Operator

TLA+ models of the parts of AKO where order, failure and concurrency decide
whether it is right, TLC configurations that check them on small instances, and
TLAPS proofs, for all instances, of what matters most.

## The system

AKO watches Kubernetes (or OpenShift) objects and keeps an Avi controller
configured accordingly.  Its main process is a pipeline of layers that exchange
*keys* through work queues, with caches and object stores beside them:

1. **Ingestion** (`internal/k8s`, `internal/nodes`, `internal/objects`).
   Informer handlers publish `Kind/namespace/name` on the ingestion queue.  One
   worker runs `DequeueIngestion`, which finds the Ingresses, Routes or Services
   an object concerns in the relationship stores and rebuilds their *models*
   (`AviObjectGraph`, one per virtual service).
2. **Graph.** The name of a changed model goes to the graph queue (1, 4 or 8
   shards), whose workers run `DequeueNodes`.
3. **REST** (`internal/rest`, `internal/cache`).  `DequeueNodes` compares the model
   with the caches of controller objects, executes the difference and updates
   the caches.
4. **Retry** (`internal/retry`).  A failed batch publishes the key on the fast or
   slow retry queue, from where it returns to the graph queue.
5. **Status** (`internal/status`).  Results are written back to Kubernetes.

Across the layers run the *configmap handler*, which deletes everything on
request, the *full sync thread*, and the *leader election* between two replicas.
Beside the main process there are others on the same patterns: the *Gateway API
container* (`ako-gateway-api`), the *infra container* (`ako-infra`), the *CRD
operator* (`ako-crd-operator`) and the *AKO operator* (`ako-operator`), which
installs all of them.

`PROJECT.json` lists every part with its source files and what of it is modelled,
the hazards at their lines, and the lines each definition stands for.

## Modules

| Module | Models | Runs | Proofs |
| --- | --- | --- | --- |
| `KeyedQueue` | what a layer expects of its queue (abstract) | `workqueue` | |
| `WorkQueue` | `pkg/utils/queue.go`; client-go as external | `workqueue` | `WorkQueueProofs` |
| `IngressRelations` | handlers, relationship store, ingestion worker | `relations`, `relations_class` | `IngressRelationsProofs` |
| `L7Models` | how the models of virtual services grow and shrink | `relations` | |
| `L4Services` | LoadBalancer Services, shared VIPs, pools, NodePortLocal | `services` | |
| `StatusLayer` | statuses and annotations written back | `services` | |
| `CrdRules` | HostRule, HTTPRule, SSORule, L4Rule, L7Rule, HealthMonitor | `gateway` | |
| `GatewayApi` | the Gateway API container | `gateway` | |
| `RestLayer` | `DequeueNodes` for one key, caches, retries, restart | `rest_safety`, `rest_liveness` | |
| `RestObjects` | every kind of controller object, start-up caches, clean-up | `deleteconfig` | |
| `DeleteConfig` | the delete flag across handler, workers, ingestion, sync | `deleteconfig`, `deleteconfig_doubleclose` | `DeleteConfigProofs` |
| `HighAvailability` | replicas, election, roles, failover | `ha_failover` | `HighAvailabilityProofs` |
| `CrdOperator` | reconcilers of the CRD operator | `operators_safety`, `operators_liveness` | `CrdOperatorProofs` |
| `VksClusters` | the VKS cluster watcher of the infra container | `operators_safety`, `operators_liveness` | `VksClustersProofs` |
| `AkoOperator` | the reconciler of AKOConfig | `operators_safety` | `AkoOperatorProofs` |

The `MC*` modules hold the instances.  Several of them put modules that do not
interact side by side: the variable `part` says which one a behaviour is about, the
variables of the others stay as they are, and each property is restricted to its
part.  `MCOperators` instantiates the proof modules of its three parts, which extend the
components' modules, so that `OperatorsProofs` can cite their lemmas.  A definition whose comment says *Mutant* or *A bug* is a variant of the
code with a plausible mistake, which makes a property fail.

Two conventions run through the modules.  `left` bounds what users and faults may
do, and `happened` is a history variable with what they did: properties that the
code does not keep in all circumstances name the circumstances (`NoneOf({...})`),
and *Known deviations* below explains each.  `AtRest`, `Settled`, `Quiescent` and
`Resting` say that no key, event, request or goroutine is left; what must be true
then is what users rely on, and what must be true before is the business of the
inductive invariants.

### WorkQueue and KeyedQueue

`waiting` is the delay heap of the rate limiter, `queue`, `dirty` and
`processing` are client-go's structures per shard, `workerId` the mask of free
ids.  `runWorker` is split where the code can be interleaved: `PickWorkerId`
(under the lock), `Get`, `Done` (after `SyncFunc`), `GetShutdown`,
`ReturnWorkerId`.  `TimerFires` fixes the length of the batch of the slow worker.
`Bkt` is the hash masked by the number of workers, a power of two.

`KeyedQueue` promises less and is shorter: a requested key is run, a request made
while the key runs is not forgotten, one key of a shard runs at a time, and only
a closed shard drops requests.  `ImplementsKeyedQueue` states that `WorkQueue`
implements it, with the keys in the heap or dirty as the requested ones.

### IngressRelations

The informers' caches change at any time.  A change of a Service, Secret or class,
or an update of an Ingress, queues its key in the same step: the queue may keep the
key for as long as it likes, which covers a handler that runs late.  ADD and DELETE
events of Ingresses wait in `notes`, because their handlers look at the class *when
they run* and drop the event if it is not served.  The worker takes a key
(`DequeueIngestion`), relates the Ingresses (`IngressChanges`, with the helpers of
the store under their own names) and builds or deletes each model
(`HostNameShardAndPublish`); objects may change between all of these.  The store
has its peculiarities: Secrets keep Ingresses that left, a class keeps the
Ingresses it lost, and a missing Secret entry is filled in while the model is
built.  `MapsInverse`, `NoStaleModel` and `KnownIsBuilt` are about events that
were dropped, coalesced or overtaken.  `unrelated` is a history variable: an
Ingress that was built while the store did not know its class is exempt.

### L7Models

One turn of the ingestion worker for an Ingress, down to pools, pool groups,
policies, certificates, redirects and FQDNs, with SNI or EVH children, shared,
dedicated and passthrough virtual services and AviInfraSettings.  Each function of
the builders is an operator on the stores.  Nothing is rebuilt from scratch: what
has to go is worked out from the hosts and paths the last turn stored, which is
where mistakes would be.  `L7AsAsked`: every path has what it needs (`Built`), no
graph holds anything else (`NothingStale`), and no change of a graph is missed by
the checksum comparison (`Published`).  The Strict host name policy is in the model
(`strict`), but the run has it off.

### L4Services and StatusLayer

`L4Services`: the handlers of Services, pods, nodes and namespaces, the stores of
Services with a virtual service of their own or a shared one, and the turns that
build them in ClusterIP, NodePort and NodePortLocal mode.  `ServicesServed` says
that at rest a Service has the virtual service, the address and the servers it
asks for, and that nothing else exists.

`StatusLayer`: workers that read an object, compute its whole status, patch it and
then patch the annotation, two of them at a time for an object with two hosts;
retries, deletions, and the bulk writes after a start or a failover.  Each read may
fail (`error`): the one before the update, which is then skipped, and the one under the
lock, after which the stale status is patched.  `StatusInForce`: at rest objects show
what serves them.  `UpdatesNeverOverlap`: the lock of an Ingress, with the read under it,
keeps updates from overwriting each other.

### GatewayApi and CrdRules

`GatewayApi`: handlers that validate and store statuses, the relations between
Gateways, routes, Secrets and Services, parent and child models.
`GatewaysInForce`, `RoutesServed`: at rest each Gateway and each route is served
as specified, and the controller has the last model.

`CrdRules`: the handlers validate an object against relations that the worker
writes later, and their status writes come back as events.  `RulesInForce`: what
is Accepted is what virtual services carry, and nothing of rules that are gone.

### RestLayer and RestObjects

`RestLayer` is one virtual service with its pools, pool group and policy set; an
object is its checksum.  `DequeueNodes` builds the batches, `ExecuteOne` and
`ExecuteLast` run them one operation at a time, `RefreshCacheForPartialOperation`
and `RefreshCacheForRetryLayer` bring the caches up to date after an error, by its
class.  The controller (`Verdict`, `Applied`) is external: it refuses dangling
references, objects in use, duplicates and missing objects.  Faults: server
errors, expired sessions, connection errors before and after the work is done, and
a timeout after which the batch goes on (`LateStep`).  `RestSound`: at rest the
controller holds the model and the caches know.  `doubt` is a history variable for
what the code leaves open; a restart clears it.

`RestObjects` has all the kinds (VsVip, SSL, PKI and persistence profiles, pools,
groups, string groups, data scripts, policies, virtual services), the listings that
fill the caches at start-up, the removal of what nothing refers to, and the order
of each batch.  `ObjHeld`, `ObjNeverTornDown`: at rest the controller has what the
models call for and nothing else, no virtual service is torn down on the way, and
the controller never has a reason to refuse a deletion.

### DeleteConfig

The handler (`hpc`), the graph workers (`wpc`, one per shard), ingestion (`ingest`)
and the sync thread (`spc`) are processes; a step is what happens between two reads
or writes of what they share: `DisableSync`, the models, the caches, the channel.  A
batch may be answered with an error, before anything or, for a deletion, after the virtual
service (`Fail`), or it times out or loses its connection and goes on by itself (`TimedOut`,
`LateStep`); a creation of what is already there meets a conflict, which fills the cache
(`Conflict`).  `doubt`
is a history variable: the requests whose outcome the caches were not told.
`NoOrphans`, `BroughtBack`: at rest nothing is left without a model, and clearing
the flag restores everything.  `SingleSound`: with one worker the channel is closed
once and the annotation does not lie.  `SingleAllDeleted`: setting the flag empties
the controller.

### HighAvailability

Each replica has its start-up stage, role, callbacks under way, model, cache and
REST operation.  The election of client-go is external: `Acquire`, `Observe`,
`Conflict`, `Expire`, `LoseLease`.  A callback takes three steps (`Lookup` in the
state machine, `Transition`, `Handler`), because callbacks run on goroutines of
their own.  `LeaderOperate` writes, `FollowerOperate` reads.  A leader that shuts down or
cannot renew gives the lease up (`ReleaseOnCancel`) before `OnStoppedLeading` runs, so
another replica may take it and lead meanwhile.  `LeaseSound`, `WritesUnderLease`: who
acts or writes as leader has the lease, or has `OnStoppedLeading` under way and is about
to end; so of two leaders all but one are ending.
`EventuallyServing`: in the end somebody leads and the controller is up to date.

### CrdOperator, VksClusters, AkoOperator

Three reconcilers.  In each, the worker reads through an informer cache (`view`,
`listed`) that lags behind the API server, writes may meet a conflict, and the
process may end between any two steps.

`CrdOperator`: one custom resource with its finalizer, status and generation, the
tenant of its namespace, the Secret a HealthMonitor refers to, and the object on the
controller, which a request may have changed although its answer was lost (`late`).
`CrdSound`: once the resource is gone no object is left (`NothingLeftBehind`), and
when the reconciler rests, status and object are those of the last spec
(`RestIsFinal`).

`VksClusters`: the user, roles, objects and Secret of a cluster, clean-up goroutines
and timers.  Making a user or roles may fail with either of them made, a deletion may be
carried out without an answer, and a role that is not found counts as deleted
(`DeleteClusterRoles`).  `VksSound`: the Secret is that of the cluster, its
credentials work, and what a clean-up has left is still named.

`AkoOperator`: seven kinds of artifacts, and what is only in memory: the reboot flag, the
list of objects to remove, and the CRD the operator wants (`desiredCrd`), which becomes
what it reads back after a write (`FetchCRD`).  A StatefulSet is compared in the fields
that `isSfUpdateRequired` compares; an object whose name was not read back is listed
under the empty name (`Unnamed`, `DeleteUnnamed`).  `AkoSound`: at rest every artifact is as asked
(`Converged`), the pods run with the settings (`PodsRunConfig`), and what is listed
goes with the AKOConfig (`ListedAreRemoved`).

## Runs

| Run | Instance | Shows |
| --- | --- | --- |
| `workqueue` | 2 workers, 3 keys of which two share a shard, plain or batching | the queue's invariants, refinement of `KeyedQueue`, nothing is lost, shutdown drains |
| `deleteconfig` | 2 VS and the VRF, flag set and cleared, 1 batch that fails, loses its answer or times out; 2 workers, passthrough child, events, failed validation, or 1 worker; and the objects of a VS in SNI and EVH mode with 1 mishap | no orphans, everything is deleted and comes back, objects are kept and never torn down |
| `deleteconfig_doubleclose` | 2 workers | **violation**: the channel is closed twice |
| `rest_safety` | 4 objects and the VS, 3 edits, a fault, a restart, an object deleted at the controller | controller and caches agree with the model |
| `rest_liveness` | 2 edits, 2 faults, retry counter 2 | retries converge |
| `ha_failover` | 2 replicas, 2 failures, a VS created, changed, deleted (a second failure only with the first version, `FewEdits`) | roles follow the lease, failover converges |
| `relations` | 2 Ingresses, 2 Services, 1 Secret, 1 class, 4 edits; models of 2 Ingresses and 2 hosts, SNI and EVH, 3 changes | relations consistent, models current at rest and as asked |
| `relations_class` | 1 Ingress | **violation**: an Ingress added before its class is never built |
| `gateway` | 2 Gateways, 1 route, 1 Service, 2 changes; pairs of rules, 3 changes | Gateways, routes and rules in force at rest |
| `services` | 2 Services, 2 VIP keys, 2 pods, 1 node, 3 modes, 3 changes; 4 kinds of status, 1 change | Services served as they ask, statuses true |
| `operators_safety` | 2 disturbances; 3 kinds of CRD and 2 tenants; 2 uids and 2 clean-ups; 5 AKOConfig specs | nothing left behind, credentials valid, installation as configured |
| `operators_liveness` | 2 disturbances, PKIProfile, 1 uid | deletions and clean-ups finish |

**Composition.**  A run with several parts starts in one of them (`part`): its state
space is the sum of the parts, and a property of one is guarded by `part`.  `operators_safety`, the
largest, has 2.6 million distinct states.

**Bounds.**  Two of each kind is where the interesting cases begin: two keys on
one shard, two goroutines for one channel, two Ingresses of one class, a second
replica, a second tenant.  Each fault counter is one or two because a fault is
followed by all recovery steps before it could matter to the next; the retry counter
of two lets it run out.  The numbers of changes are what the longest known scenario
needs: four for the relations (add class, add Ingress, change what it refers to,
remove the class), three for models and rules (build, take over, release).  Ingresses
are symmetric in `relations`, tenants and clean-ups in `operators_safety`; neither has
a liveness property.  The theorems remove the bounds for seven modules.

**Deadlock** is not checked where the system may rest: no keys, no events, and the
bounded environment has used up its steps.  What must be true then is what the
properties with `AtRest`, `Settled`, `Quiescent` and `Resting` say.

**Fairness.**  Weak fairness for goroutines that can run, timers that are set, and
retries and requeued requests: the Go scheduler, client-go and controller-runtime
guarantee these.  None for users, faults, restarts or events.  In `WorkQueue` a
`SyncFunc` returns; the REST layer guarantees this with its timeout.  In
`HighAvailability` the kubelet restarts a replica that ended, and the constant
`Prompt` says that the callbacks a round of the election starts in a replica change its
role before that replica's next round, which is a `RetryPeriod` (2 seconds,
`leader_election.go:61-73`) later; it orders nothing between replicas.  In `CrdOperator` and `VksClusters` the informer catches
up, and a process that ended starts again.

## Proofs

Every theorem holds for all values of the constants that satisfy the named
assumptions; TLC evaluates these on the instances of the runs.  Each module follows
one scheme: an inductive invariant, stated beside the component; one lemma
per action; `Spec => []Inv` by `PTL`; and the properties as its consequences.

### WorkQueueProofs

For any set of keys, any hash, and the numbers of workers the code configures
(`WorkQueueAssumption`: 1, 2, 4 or 8).  `WorkQueueInv` is inductive: types; ids of
live goroutines are out of the mask (`IdsTaken`); `OneWorkerPerShard`; every set and
goroutine keeps to its shard and a syncing goroutine holds one key, which is in
`processing` (`ShardDiscipline`); `QueueMatchesDirty`.  `OneWorkerPerShard` alone is
not inductive: a goroutine that picks an id must find it unused by others, which
is what `IdsTaken` adds; and that two goroutines never hold one key follows from
shard discipline and ownership, not from client-go alone.

- `WorkQueueIsSafe`: `Spec => []WorkQueueInv`
- `ShardOwnership`, `QueueConsistency`, `KeysAreExclusive`: its consequences.
- `BatchesFit`: `Spec => []BatchNeverBlocks`.  `BatchFits` adds that what is left of a
  batch is no longer than the queue: only the owner of a shard takes keys from it.
- `IdsAlwaysSuffice`: `Spec => []IdsSuffice`.  `IdsCounted` adds that the ids in the mask
  and the goroutines in their loops are `NumWorkers` together.
- `QueueRefinesKeyedQueue`: `Spec => Abstract!Spec`, step by step, with
  `ProcessingHeld`: what is in `processing` is in the hands of a goroutine.

### IngressRelationsProofs

For any sets of Ingresses, Services, Secrets and classes, any specifications over
them, and any number of edits (`SpecsAssumption`, `ConstantsAssumption`).

`NoStaleModel` and `KnownIsBuilt` speak of rest, so the invariant has to say what
holds meanwhile.  For an Ingress *i*:

- `Due(i)`: its key is queued, or it is about to be related, or the key of a class
  that lists it is queued;
- `Covered(i)`: an ADD or DELETE event of it waits which the handler, given the
  class as it is now, will accept.

`Sound(i)` then says that unless *i* is due or covered, a served and known Ingress
has the relations its specification calls for (`Related`), and, once it is not
being handled, any model it has (`Current`), and the one it must have
(`Complete`), is built from its specification and from contents that are present
or whose keys are queued (`Good`).  With the types, `MapsInverse` and "the class
recorded for an Ingress lists it" (`ClassMap`) this is the inductive invariant
`IInv`.  The heart of the argument is the change of a class: it may make the
handler drop an event that covered *i*, but then *i* is known under that class,
the class lists it, and the key of the class makes it due.  `Frame` is the lemma
for all Ingresses a step does not touch; one lemma per action does the rest.

- `TypesHold`: `Spec => []TypeOK`
- `RelationsConsistent`: `Spec => []MapsInverse`
- `ModelsCurrent`: `Spec => []NoStaleModel`
- `KnownAreBuilt`: `Spec => []KnownIsBuilt`

### HighAvailabilityProofs

For any finite set of replicas, any sequence of versions and any number of failures
(`HAAssumption`).  `HAInv`: a replica's start-up stage, role and operation are
consistent (`Consistent`), and with `Prompt` its role and the callbacks under way tell
what the lease is (`Elected`): a leader has the lease, or it has `OnStoppedLeading` to
come, whoever has the lease by then; a replica that was elected and is no leader yet has `OnStartedLeading` to come;
`OnNewLeader` is never left to undo a promotion.  `LeaseSound` alone says nothing of
callbacks that are spawned and have not run, and these decide the next role.

- `TypesHold`: `Spec => []TypeOK`, for every order of callbacks
- `LeaseGuardsTheLeader`: `Prompt` gives `Spec => []LeaseSound`
- `WritesAreGuarded`: `Prompt` gives `Spec => WritesUnderLease`, an action property: every
  change of the controller is the end of an operation of a leader that has the lease or has
  `OnStoppedLeading` under way.

`Prompt` is about the goroutines of one replica only.  Other replicas may take a released
lease at any time, so that two leaders at once, one of them ending, are part of what is proved.

### DeleteConfigProofs

For any virtual services and children, any assignment to workers, any events, edits
and failures (`DeleteConfigAssumption`).  `DeleteConfigInv` has five parts beside the
types.  `Workers`: the child goes before the parent and comes after it.  `Told`: the
caches differ from the controller only where a request was carried out without their
being told (`doubt`), and every request still running after its timeout is among these.
`Accounted`: what the caches know and has no model is queued, to be retried, or with a
worker that deletes it.  `Restoring`: with sync enabled and no quick sync to come,
everything Kubernetes calls for is cached or somebody is about to build, publish or create
it (`Restored`), although workers may still be deleting on behalf of the earlier flag.
The argument is thus about the caches, which the code goes by, and `Told` carries it over
to the controller.  `Channels`: every channel belongs to
one edit, so there are no more of them than edits.

- `TypesHold`: `Spec => []TypeOK`
- `NothingIsOrphaned`: `Spec => []NoOrphans`: what is left has a model, or its creation was
  never answered and no conflict has told the cache since (`Unnoticed`)
- `EverythingComesBack`: `Spec => []Recreated`: all is back, except what a deletion
  without an answer removed and the cache still has (`Missed`)
- `OneWorkerIsSound`: with `OneWorker` (one shard for all models, no passthrough child, a
  sync thread) `Spec => [](NoPanic /\ DoneMeansDeleted)`, from `SingleInv`: whenever the
  channel is closed or Done is reported no virtual service is cached and nothing is about
  to be created; so by `Told` what is left then is `Unnoticed`.  Two workers may close the channel twice, which
  `deleteconfig_doubleclose` shows.

### CrdOperatorProofs

For any tenants, kinds, creations, generations, uuids and disturbances
(`CrdOperator!WellFormed`).  The difficulty is that three copies of the resource
(API server, informer, worker) and the object on the controller are all of different
ages.  `CrdInv` says which is which:

- `CopyInv`: a copy that is current equals the resource, any other is an older version;
- `FinalizerInv`: a worker on its way to the controller has the finalizer behind it, and
  one that removes the finalizer has a deletion before it;
- `HomeInv`: while the tenant stays, the only object is in it, the resource has its
  finalizer, and every status that names an object names this one or belongs to a
  resource whose object is deleted;
- `StoredInv`, `StepInv`: between the answer of the controller and the status write, the
  worker knows what was stored;
- `NewsInv`: if no event is to come, the worker has the last generation, tenant and Secret,
  and if it is idle the status is final;
- `SecretInv`: versions of the Secret only grow;
- `CachedInv`: what a reconciler may skip after a restart because the start-up cache has
  not changed since is as new as the status says.

Failures end a turn in many ways; the lemmas `EndKeeps...` treat them together, by what
the turn reported (`Unreported`, `Complaint`, `Success`) and what became of the objects
(`Kept`, `Filled`, `Cleared`).

- `ReconcilersAreSound`: `Spec => []CrdSound`

### AkoOperatorProofs

For any specs, any sets of artifact kinds and any disturbances
(`AkoOperator!WellFormed`).  `AkoInv`: `ConvergedInv` (with no event to come, what
the reconcile under way has dealt with is as desired, and if there is none everything
is: the CRD as the operator wants it by now, the StatefulSet in the fields that are
compared), `MemoryInv` (unless a foreign CRD was adopted, the one the operator wants is that
of the manifest; unless the volume claim was changed, the StatefulSet has that of the
AKOConfig), `ListInv` (what is listed is in the cache until the clean-up has visited it,
and then gone), `PodsInv` (the pods run with the ConfigMap, or are being replaced, or the
operator knows or will notice that they must be).

- `OperatorIsSound`: `Spec => []AkoSound`

### VksClustersProofs

For any tenants, passwords, clean-up goroutines and disturbances
(`VksClusters!WellFormed`: 0 and `None` stand for nothing, and there is always a password
that is not in use, since `generateSecurePassword` does not repeat one).  The worker, the
clean-up goroutines and the informer act on the Secret, the user and the roles of a cluster
with no lock between them, and the worker reads a copy of the Secret that may be old.
`VksInv` has five parts beside the types:

- `ShapeInv`: a Secret or a turn that exists has all its fields;
- `HistoryInv`: before the first cluster there is nothing, and a second one means that the
  first was deleted;
- `SecretInv`: the Secret of a managed cluster is as it should be, or the worker has another
  turn (`AnotherTurn`: the key is queued, a turn for this cluster is under way, or the
  informer has a change to deliver that its handler will act upon);
- `CredentialsInv`: a Secret whose user is gone is one that a clean-up is about to delete,
  and the copies that the informer and the worker hold have the same credentials;
- `LeftoversInv`: without the circumstances in `Untraceable` one clean-up at a time goes
  through its stages in order, and until it has come to the roles the Secret names what is
  left and holds credentials to remove it with.

None of the three conjuncts of `VksSound` is inductive: they are about rest, or about a Secret
that a goroutine is about to delete.

Proving `CredentialsWork` showed that it was too strong and too weak.  Too strong: with three
disturbances, one more than `operators_safety` has, a cluster opts in while an earlier clean-up
runs, and credentials made beside it lose their user (`raced`).  Too weak: it exempted five
circumstances under which it is true.  It now names exactly what leaves a Secret without its
user (`Unfinished`).  `LeftoversAreNamed` likewise names what leaves something that no Secret
leads to (`Untraceable`).

- `WatcherIsSound`: `Spec => [](TypeOK /\ VksSound)`

### OperatorsProofs

For the specification of `MCOperators`, whose behaviours are those of one of the three
reconcilers, and any constants that satisfy their three assumptions.  `OperatorsInv` is the
invariant of the part; its steps are those of the module, so that the lemmas of the three
proof modules carry over.

- `TypesHold`: `Spec => []Types`
- `CrdOperatorIsSound`, `VksWatcherIsSound`, `AkoOperatorIsSound`: `Spec => []CrdSound`,
  `Spec => []VksSound`, `Spec => []AkoSound`

### Only model-checked

- Liveness under fairness and `ENABLED` are out of the prover's reach: `EventuallySynced`,
  `QueuedIsDrained`, `FastWorkersExit`, `SingleAllDeleted`, `EventuallyServed`,
  `EventuallyServing`, `CrdEventuallyDeleted`, `VksEventuallyClean`.  `KeyedQueue` is a
  safety specification, so its refinement is proved in full.
- `RestLayer`, `RestObjects`, `L7Models`, `L4Services` and `GatewayApi` build
  batches and models with folds over sets and sequences: what a fold returns for every
  input needs induction over data.
- `StatusLayer`: `UpdatesNeverOverlap` is about a queue filtered with `SelectSeq`, whose
  operator argument no installed prover instantiates.
- `CrdRules`: in the prover's reach, not done.

`Recreated`, `NoPanic` and `DoneMeansDeleted` are proved of `DeleteConfig`; the composed run
checks them as `BroughtBack` and `SingleSound`, each guarded by `part`.

## Known deviations

The two violation runs show where the code does not do what its comments or
documents say; `PROJECT.json` quotes them under *findings*.  The following were met
while modelling.  Each is a behaviour that a property has to exempt (the exemption is
named in the property's comment or in the history variable it reads), or that other
values of the constants show.

*WorkQueue*: the batching worker looks at the length of its queue and not at its
shutdown, so `FastWorkersExit` is stated of the plain worker only.

*IngressRelations*
- If the class becomes served between `IngressChanges` and `HostNameShardAndPublish`, or
  a Secret that still lists the Ingress changes, the model is built although the store
  does not relate the Ingress to its class; when the class goes, the model stays
  (`unrelated`).
- An Ingress refused by the strict FQDN policy is not looked at again when the host
  becomes free (`controller.go:1262`).
- `ingress_to_service.go:121` makes a new lock on every call, which locks nothing.

*L7Models* (tags in `happened` that the properties exempt): leftovers after a host stops
being dedicated, upgrades or downgrades its TLS, or stops being passthrough; a change of
path drops the Ingress from the host map; the strict policy rejects a single host, not
the Ingress (`docs/ako_fqdnrestriction.md`).

*DeleteConfig*
- A virtual service whose creation was carried out but not answered, or goes on after its
  timeout (`dequeue_nodes.go:899`), is not in the cache.  If the flag is set before a retry
  meets the conflict, the deletion finds nothing cached (`dequeue_nodes.go:91`): it stays on
  the controller, and Done is reported (`Unnoticed`).
- A deletion that was carried out but not answered leaves the cache as it was when there is
  no model (`dequeue_nodes.go:728`).  If the flag is cleared before the retry, the checksums
  agree and the virtual service is not re-created (`Missed`).
- When the GET that precedes an update of the static routes fails, the update is dropped
  without a retry (`avi_obj_vrf.go:30`; `<<"get", Vrf>>` in `doubt`).
- The deletions are published before the channel exists (`ako_init.go:349`): if they
  finish first, Timeout is reported after 30 minutes.
- With no models, Done is reported and overwritten by Timeout (`ako_init.go:1431`).
- With a passthrough child `DeleteNil` of the child closes the channel without looking at
  what is pending.
- With events or a third toggle a model saved after `DisableSync` was read survives.
- `SyncThread = FALSE`: the quick sync is requested of a thread that does not exist.

*RestLayer, RestObjects*
- A deletion broken off by a connection error leaves caches alone
  (`dequeue_nodes.go:240`), and the key rests while objects remain until a restart.
- A batch that goes on after its timeout overwrites a newer one.
- The full sync does not bring back an object deleted at the controller.
- The reference to an object the controller refuses is not removed.
- An entry of `VsCacheMeta` without uuid stays, and counts as a pending deletion.
- Stale objects whose clean-up fails, and orphans of a child deleted before a server
  error, stay until a restart; PKI and persistence profiles stay for good.
- A partial listing of virtual services at start-up makes a wanted child look stale.
- String groups in use are sent a DELETE, which is refused, at every start-up
  (`controller_obj_cache.go:256`).

*HighAvailability*
- `Prompt = FALSE`: a late `OnNewLeader` demotes the holder of the lease, which goes on
  renewing it: nobody leads until it ends.
- An ending leader may finish a request after another replica took over (`trespass`): its PUT
  overwrites what the new leader wrote, whose cache does not tell, and `EventuallySynced`
  exempts this.
- `NoInvalidTransition`: FOLLOWER to FOLLOWER occurs, and ends the process.
- A follower may not notice a change that was changed back.
- `EventuallySynced` exempts a second failure, a deletion after a failure, and a deletion
  between `FullSyncK8s` and `SetupEventHandlers`: each may leave the controller behind.
- What the old leader created last is not cleaned up by the new one (`docs/ako_ha.md:27`).

*CrdRules*
- Two HostRules of one FQDN may both become Accepted in a race
  (`docs/crds/hostrule.md:468` says one is rejected).
- A rejected rule is not validated again when the cause goes, and keeps an earlier
  mapping; a spec that is not validated yet is applied while its status is Accepted.
- `DeleteHostruleFQDNMapping` may drop the entry of another owner; of a wildcard and an
  exact match the order of a Go map decides.
- An L7Rule that becomes invalid does not queue its HostRules; a lost status patch stays lost.

*GatewayApi*
- A child may be carried over although its route is gone (`dequeue_ingestion.go:359`
  says it cannot).
- A status that is nil when a route is validated, and an index into listeners that have
  changed, end the process (`route_validator.go:474`, `gateway_model_rel.go:884`).
- `HTTPRouteToGateway` stops at the first parent that refuses; the Secret of an
  invalid listener is forgotten; a class added after its Gateway, or a host that a
  conflict releases, leads to no new turn; an invalid route keeps its earlier children.
  A restart repairs all of these.
- `AttachedRoutes` in a Gateway's status, which `validateParentReference` counts and writes
  back (`route_validator.go:656-688`), is left out: no code reads the number.

*L4Services* (tags that `ServicesServed` exempts): a Service edited twice before its turn,
a backend that becomes a LoadBalancer, an annotation read before it is written, a member
that leaves a shared virtual service, Nodes that change, rejected and unlisted
AviInfraSettings.  A namespace that the filter does not select is accepted when its tenant
changes (`controller.go:353`), and its Services are then served (`admitted`).  The turn
of an L4Rule passes on its own key (`dequeue_ingestion.go:208`), so a shared virtual service is
built without asking for the NodePortLocal annotation.  With a namespace filter changes of AviInfraSettings do not reach
Services; that members of a shared virtual service have distinct ports is not enforced.

*StatusLayer*
- An object whose GET fails is missing in the map the update goes by
  (`ing_status.go:69`, `route_status.go:140`): the update is skipped and not retried
  (`unread`).
- When the read under the lock fails, the status computed before is patched
  (`ing_status.go:162`), over what another update wrote meanwhile (`unchecked`).
- The annotation step goes by the hosts of the copy read before the patch
  (`ing_status.go:201`, `route_status.go:415`).
- The update for a virtual service that was replaced meanwhile shows the old address
  (`outdated`).
- Statuses of multi-cluster Ingresses are not in `SyncObjectStatuses`; a deletion of their
  or a Service's old virtual service clears the status of the new one.
- A host moved away and back may leave the status missing; a deletion lost in a restart
  leaves an entry; a failed deletion patch is not retried; `deleteObject` takes no lock.
- The bulk write gives every host the UUID of the first virtual service
  (`ing_status.go:58` describes a map from host to UUID); a class change leaves the
  annotation.

*CrdOperator*
- An object is orphaned when its namespace changes tenant, or when a PUT answered 404
  re-creates it, the status write conflicts and the resource is deleted.
- A failed PUT sets `LastUpdated`, so that for an object the start-up cache knows the retry
  does nothing; `UpdateStatusWithNonRetryableError` ignores conflicts; a 401 sets
  `ObservedGeneration` and is not retried (`docs/ako_crd_operator.md:136`).
- A stale copy may PUT an older spec, until the next turn.

*VksClusters*
- Errors wrapped with `%v` are no longer retryable, except for an expired session.
- The informer's Secret is changed in place before the update
  (`vks_cluster_watcher.go:1240`); renewed credentials may be dropped for an old Secret.
- A change of tenant overwrites `tenantName`, and nothing cleans the old tenant; a Secret
  deleted by hand makes a clean-up skip the objects; a failed CNI lookup leaks the user.
- A role or user that was made but cannot be read back (`avi_rbac.go:198`, `:311`) is an error,
  and no Secret names it (`stray`): if the cluster goes before the next turn, it stays.
- Any error of a role lookup counts as "already deleted" (`avi_rbac.go:344`): the clean-up goes
  on, deletes the Secret and leaves the role (`lookupError`).
- A deletion of the user that is carried out without an answer, or an error at the roles, an
  expired session included, ends a clean-up with a Secret whose credentials no longer work, and
  the next one cannot log in (`unanswered`, `rolesError`).
- Overlapping clean-ups may delete the user of the re-created cluster, and a clean-up the
  user that a cluster which opts in again meanwhile is given.

*AkoOperator*
- `rebootRequired` and `objectList` are only in memory: after a crash the pods may keep
  old settings, and cluster-scoped objects may stay.
- The checksum of a ConfigMap hashes sorted values without their keys: exchanging two
  values restarts nothing (`docs/akoconfig.md:100`).
- After an update of a CRD, or when somebody else creates it first, what is read back becomes the
  CRD the operator wants (`crd.go:131`, `:149`): a foreign edit in between is kept for good
  (`adopted`).  Defaults that the API server adds may cause one more update, without effect.
- `isSfUpdateRequired` compares selected fields (`utils.go:220`): a changed volume claim never
  reaches the StatefulSet (`claim`); nor do annotations, affinity or the service account.
- An object that cannot be read back after its creation is listed under an empty name
  (`sa.go:65`): the clean-up of an empty name finds nothing, and the object stays unless a later
  turn lists it.
- The error of deleting a GatewayClass is only logged; a missing Secret leaves the last
  state in the status.

*Static routes* (not modelled): a Node whose CIDR overlaps is not added when the other
goes (`avi_vrf_translator.go:135`).  *Sync thread* (not modelled): `Shutdown` waits for a
sync that may wait for the controller (`full_sync_worker.go:63`).

## Not modelled

The parsing of controller objects, names, checksums and encodings, HTTP sessions and
credentials, CRD field validation, static routes, the life cycle of the sync thread, the
older Gateway APIs, OpenShift Routes (their statuses apart), relations of multi-cluster
Ingresses, NodePortLocal's own annotations, the AI gateway's scripts, the set-up of
clouds and networks by the infra container, its webhook but for the label, generated clients and the
clean-up tool.  `L7Models` has the strict host name policy as a constant; the run has it
off.  `RestLayer` does not tell SNI and EVH children apart, which `RestObjects` does, and
no module has more than one cluster.
