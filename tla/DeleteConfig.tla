---------------------------- MODULE DeleteConfig ----------------------------
(***************************************************************************)
(* deleteConfig: what happens when the user sets or clears the flag in the *)
(* configmap.  The configmap handler disables sync, replaces every model   *)
(* by nil, publishes it and waits on ConfigDeleteSyncChan; the workers of  *)
(* the graph queue delete the virtual services and close the channel when  *)
(* the last one is gone.  Clearing the flag schedules a quick sync.        *)
(* Ingestion and the sync thread build models meanwhile.                   *)
(***************************************************************************)
EXTENDS Naturals, Sequences, FiniteSets

CONSTANTS
    Vs,            \* parent virtual services, each with a model of its own
    Vrf,           \* the model of the VRF context (static routes)
    HasChild,      \* parents that have a passthrough child
    Shard,         \* graph worker of each model, a function on Models
    Events,        \* models that Kubernetes events may rebuild at any time
    SyncThread,    \* the full sync interval is not 0
    CanBeInvalid,  \* ValidateUserInput may fail
    MaxToggles,    \* bound: edits of the flag
    MaxFails       \* bound: failing REST batches

Models == Vs \cup {Vrf}
Child(v) == <<v>>
Children == {Child(v) : v \in HasChild}
AllVs == Vs \cup Children

ASSUME DeleteConfigAssumption ==
    /\ Vrf \notin Vs /\ HasChild \subseteq Vs /\ Events \subseteq Models
    /\ \A v \in HasChild : Child(v) \notin Models
    /\ SyncThread \in BOOLEAN /\ CanBeInvalid \in BOOLEAN
    /\ MaxToggles \in Nat /\ MaxFails \in Nat

VARIABLES
    flag,         \* deleteConfig in the configmap
    toggles,      \* edits so far
    events,       \* configmap updates the handler has not seen yet
    hpc,          \* the configmap handler: idle, delete, chan, select, wait, sync
    todo,         \* models DeleteModels has yet to visit
    wch,          \* channel the handler's select waits on
    disableSync,  \* lib.DisableSync, c.DisableSync
    accepted,     \* the last update passed ValidateUserInput
    annotation,   \* AviObjectDeletionStatus on the statefulset
    chan,         \* ConfigDeleteSyncChan, 0 for nil
    closed,       \* channels that were closed
    k8s,          \* models that Kubernetes objects call for
    model,        \* SharedAviGraphLister: none, graph, nil, empty (VRF only)
    queued,       \* graph queue
    retry,        \* retry queues
    wpc,          \* per model, its worker: idle, post, posting, put, delete,
                  \* pending, close, reset
    target,       \* per model: the virtual service its worker is at
    routes,       \* the VRF model its worker read has static routes
    cache,        \* VsCacheMeta, and Vrf for the routes that VrfCache knows of
    ctrl,         \* on the controller: virtual services, and Vrf for routes
    late,         \* requests of batches that timed out and are still running
    doubt,        \* history: requests that may have been carried out without the
                  \* caches being told; <<"get", Vrf>> for an update that was dropped
    ingest,       \* ingestion worker: a model past the DisableSync check, or {}
    spc,          \* sync thread: idle, build, save
    stodo,        \* models the sync thread has yet to build
    quick,        \* QuickSyncChan holds a request
    fails,        \* failing batches so far
    panicked      \* the process died in a panic

hvars == <<flag, toggles, events, hpc, todo, wch, accepted>>
cvars == <<disableSync, annotation>>
wvars == <<wpc, target, routes, cache, ctrl, late, doubt, fails>>
svars == <<spc, stodo, quick>>
vars == <<flag, toggles, events, hpc, todo, wch, accepted, disableSync,
          annotation, chan, closed, k8s, model, queued, retry, wpc, target,
          routes, cache, ctrl, late, doubt, fails, ingest, spc, stodo, quick, panicked>>

\* AKO is up, either with every model built and synced or with none at all.
Init ==
    /\ flag = FALSE /\ toggles = 0 /\ events = <<>>
    /\ hpc = "idle" /\ todo = {} /\ wch = 0 /\ accepted = TRUE
    /\ disableSync = FALSE /\ annotation = "none"
    /\ chan = 0 /\ closed = {}
    /\ k8s \in {Models, {}}
    /\ model = [m \in Models |-> IF m \in k8s THEN "graph" ELSE "none"]
    /\ ctrl = k8s \cup {c \in Children : c[1] \in k8s}
    /\ cache = ctrl /\ late = {} /\ doubt = {}
    /\ queued = {} /\ retry = {}
    /\ wpc = [m \in Models |-> "idle"]
    /\ target = [m \in Models |-> m] /\ routes = FALSE
    /\ ingest = {} /\ spc = "idle" /\ stodo = {} /\ quick = FALSE
    /\ fails = 0 /\ panicked = FALSE

-----------------------------------------------------------------------------
(* The configmap and its handler.                                          *)

EditConfigMap ==
    /\ toggles < MaxToggles
    /\ flag' = ~flag
    /\ toggles' = toggles + 1
    /\ events' = Append(events, flag')
    /\ UNCHANGED <<hpc, todo, wch, accepted, chan, closed, k8s, model, queued,
                   retry, ingest, panicked>>
    /\ UNCHANGED <<cvars, wvars, svars>>

\* UpdateFunc up to the branch on delModels, and the start of DeleteModels: the
\* annotation and the copy of the model store.
UpdateFunc(valid) ==
    /\ hpc = "idle" /\ events # <<>>
    /\ valid \/ CanBeInvalid
    /\ events' = Tail(events)
    /\ disableSync' = (~valid \/ Head(events))
    /\ accepted' = valid
    /\ IF valid /\ Head(events)
       THEN /\ todo' = {m \in Models : model[m] # "none"}
            /\ annotation' = IF todo' = {} THEN "Done" ELSE "Started"
            /\ hpc' = IF todo' = {} THEN "chan" ELSE "delete"
       ELSE /\ annotation' = IF valid THEN "none" ELSE annotation
            /\ hpc' = IF valid THEN "sync" ELSE "idle"
            /\ UNCHANGED todo
    /\ UNCHANGED <<flag, toggles, wch, chan, closed, k8s, model, queued, retry,
                   ingest, panicked>>
    /\ UNCHANGED <<wvars, svars>>

\* One turn of the loop in DeleteModels (the map's order is arbitrary).
DeleteModels(m) ==
    /\ hpc = "delete" /\ m \in todo
    /\ model' = [model EXCEPT ![m] =
                    IF m = Vrf /\ model[m] # "nil" THEN "empty" ELSE "nil"]
    /\ queued' = queued \cup {m}
    /\ todo' = todo \ {m}
    /\ hpc' = IF todo' = {} THEN "chan" ELSE "delete"
    /\ UNCHANGED <<flag, toggles, events, wch, accepted, chan, closed, k8s,
                   retry, ingest, panicked>>
    /\ UNCHANGED <<cvars, wvars, svars>>

\* SetDeleteSyncChannel: a new channel unless one is left from before.
NewChan == Cardinality(closed) + 1

SetDeleteSyncChannel ==
    /\ hpc = "chan"
    /\ chan' = IF chan = 0 THEN NewChan ELSE chan
    /\ hpc' = "select"
    /\ UNCHANGED <<flag, toggles, events, todo, wch, accepted, closed, k8s,
                   model, queued, retry, ingest, panicked>>
    /\ UNCHANGED <<cvars, wvars, svars>>

\* The select evaluates ConfigDeleteSyncChan once, which may be nil again.
Select ==
    /\ hpc = "select"
    /\ wch' = chan
    /\ hpc' = "wait"
    /\ UNCHANGED <<flag, toggles, events, todo, accepted, chan, closed, k8s,
                   model, queued, retry, ingest, panicked>>
    /\ UNCHANGED <<cvars, wvars, svars>>

Answer(status) ==
    /\ annotation' = status
    /\ hpc' = "idle" /\ wch' = 0
    /\ UNCHANGED <<flag, toggles, events, todo, accepted, disableSync, chan,
                   closed, k8s, model, queued, retry, ingest, panicked>>
    /\ UNCHANGED <<wvars, svars>>

ReportDone == hpc = "wait" /\ wch \in closed /\ Answer("Done")

\* AviObjDeletionTime has passed.
ReportTimeout == hpc = "wait" /\ Answer("Timeout")

\* The send on quickSyncCh, received by the loop of InitController, which
\* calls worker.QuickSync: a nil pointer when there is no sync thread.
QuickSync ==
    /\ hpc = "sync"
    /\ quick' = SyncThread
    /\ panicked' = ~SyncThread
    /\ hpc' = "idle"
    /\ UNCHANGED <<flag, toggles, events, todo, wch, accepted, chan, closed,
                   k8s, model, queued, retry, ingest, spc, stodo>>
    /\ UNCHANGED <<cvars, wvars>>

-----------------------------------------------------------------------------
(* Building models: saveAviModel by the ingestion worker and by FullSyncK8s. *)

\* saveAviModel reads DisableSync ...
IngestCheck(m) ==
    /\ m \in Events /\ ingest = {}
    /\ k8s' = k8s \cup {m}
    /\ ingest' = IF disableSync THEN {} ELSE {m}
    /\ UNCHANGED <<chan, closed, model, queued, retry, panicked>>
    /\ UNCHANGED <<hvars, cvars, wvars, svars>>

\* ... and saves and publishes the changed model afterwards.
IngestSave(m) ==
    /\ m \in ingest
    /\ model' = [model EXCEPT ![m] = "graph"]
    /\ queued' = queued \cup {m}
    /\ ingest' = {}
    /\ UNCHANGED <<chan, closed, k8s, retry, panicked>>
    /\ UNCHANGED <<hvars, cvars, wvars, svars>>

FullSyncK8s ==
    /\ quick /\ spc = "idle"
    /\ quick' = FALSE
    /\ IF disableSync THEN UNCHANGED <<spc, stodo>>
       ELSE spc' = "build" /\ stodo' = k8s
    /\ UNCHANGED <<chan, closed, k8s, model, queued, retry, ingest, panicked>>
    /\ UNCHANGED <<hvars, cvars, wvars>>

\* DequeueIngestion for one object, with the check and the save of
\* saveAviModel apart; the VRF model is published at once.
FullSyncCheck ==
    /\ spc = "build" /\ stodo # {}
    /\ IF disableSync THEN stodo' = {} /\ UNCHANGED spc
       ELSE spc' = "save" /\ UNCHANGED stodo
    /\ UNCHANGED <<chan, closed, k8s, model, queued, retry, ingest, panicked, quick>>
    /\ UNCHANGED <<hvars, cvars, wvars>>

FullSyncSave(m) ==
    /\ spc = "save" /\ m \in stodo
    /\ model' = [model EXCEPT ![m] = "graph"]
    /\ queued' = IF m = Vrf THEN queued \cup {m} ELSE queued
    /\ stodo' = stodo \ {m} /\ spc' = "build"
    /\ UNCHANGED <<chan, closed, k8s, retry, ingest, panicked, quick>>
    /\ UNCHANGED <<hvars, cvars, wvars>>

\* Mutant: newly generated models are not published.
PublishAllCachedOnly ==
    /\ spc = "build" /\ stodo = {}
    /\ queued' = queued \cup (cache \cap Vs)
    /\ spc' = "idle"
    /\ UNCHANGED <<chan, closed, k8s, model, retry, ingest, panicked, stodo, quick>>
    /\ UNCHANGED <<hvars, cvars, wvars>>

\* publishAllParentVSKeysToRestLayer: every cached parent and every model.
PublishAll ==
    /\ spc = "build" /\ stodo = {}
    /\ queued' = queued \cup (cache \cap Vs)
                        \cup {m \in Vs : model[m] # "none"}
    /\ spc' = "idle"
    /\ UNCHANGED <<chan, closed, k8s, model, retry, ingest, panicked, stodo, quick>>
    /\ UNCHANGED <<hvars, cvars, wvars>>

-----------------------------------------------------------------------------
(* The graph workers.                                                      *)

Rest == UNCHANGED <<k8s, model, ingest>> /\ UNCHANGED <<hvars, cvars, svars>>

\* Mutant: the check for an empty PassthroughChildRef is missing.
FirstTargetAlwaysChild(m) == Child(m)

\* DeleteVSOper takes the passthrough child, if any, before the parent.
FirstTarget(m) == IF m \in HasChild THEN Child(m) ELSE m

\* DequeueNodes: look at the model and at the cache.
DequeueNodes(m) ==
    /\ m \in queued
    /\ \A n \in Models : wpc[n] # "idle" => Shard[n] # Shard[m]
    /\ queued' = queued \ {m}
    /\ LET missing == IF m = Vrf THEN {}
                      ELSE ({m} \cup {c \in Children : c[1] = m}) \ cache
       IN \/ /\ m = Vrf
             /\ wpc' = [wpc EXCEPT ![m] =
                    IF model[m] \in {"graph", "empty"}
                       /\ (model[m] = "graph") # (Vrf \in cache)
                    THEN "put" ELSE "idle"]
             /\ routes' = (model[m] = "graph")
             /\ UNCHANGED target
          \/ /\ m # Vrf /\ model[m] = "graph"
             /\ wpc' = [wpc EXCEPT ![m] = IF missing = {} THEN "idle" ELSE "post"]
             /\ UNCHANGED routes
             /\ target' = [target EXCEPT ![m] = 
                    IF m \notin missing /\ missing # {} THEN Child(m) ELSE m]
          \/ /\ m # Vrf /\ model[m] # "graph"
             /\ wpc' = [wpc EXCEPT ![m] = IF m \in cache THEN "delete" ELSE "idle"]
             /\ UNCHANGED routes
             /\ target' = [target EXCEPT ![m] = FirstTarget(m)]
    /\ UNCHANGED <<retry, cache, ctrl, late, doubt, fails, chan, closed, panicked>> /\ Rest

\* AviRestOperate looks at DisableSync before each POST and skips it ...
PostCheck(m) ==
    /\ wpc[m] = "post"
    /\ wpc' = [wpc EXCEPT ![m] = IF disableSync THEN "idle" ELSE "posting"]
    /\ UNCHANGED <<routes, queued, retry, target, cache, ctrl, late, doubt, fails, chan, closed, panicked>>
    /\ Rest

\* ... and otherwise creates the virtual service, the parent before the child.
Post(m) ==
    LET more == target[m] = m /\ m \in HasChild /\ Child(m) \notin cache IN
    /\ wpc[m] = "posting" /\ target[m] \notin ctrl
    /\ ctrl' = ctrl \cup {target[m]}
    /\ cache' = cache \cup {target[m]}
    /\ target' = IF more THEN [target EXCEPT ![m] = Child(m)] ELSE target
    /\ wpc' = [wpc EXCEPT ![m] = IF more THEN "post" ELSE "idle"]
    /\ UNCHANGED <<routes, queued, retry, late, doubt, fails, chan, closed, panicked>>
    /\ Rest

\* Mutant: the conflict is not retried.
ConflictForgets(m) ==
    /\ wpc[m] = "posting" /\ target[m] \in ctrl
    /\ wpc' = [wpc EXCEPT ![m] = "idle"]
    /\ UNCHANGED <<routes, queued, retry, target, cache, ctrl, late, doubt, fails, chan, closed,
                   panicked>>
    /\ Rest

\* The virtual service is there already (409): RefreshCacheForRetryLayer fetches it into
\* the cache and the key is retried.
Conflict(m) ==
    /\ wpc[m] = "posting" /\ target[m] \in ctrl
    /\ cache' = cache \cup {target[m]}
    /\ retry' = retry \cup {m}
    /\ wpc' = [wpc EXCEPT ![m] = "idle"]
    /\ UNCHANGED <<routes, queued, target, ctrl, late, doubt, fails, chan, closed, panicked>>
    /\ Rest

\* What a request makes of a set of objects.
Request(m) ==
    <<IF wpc[m] = "posting" \/ (wpc[m] = "put" /\ routes) THEN "add" ELSE "remove", target[m]>>
CarriedOut(r, S) == IF r[1] = "add" THEN S \cup {r[2]} ELSE S \ {r[2]}

\* vrfCU: a PUT of the static routes, allowed while sync is disabled.
VrfPut(m) ==
    /\ wpc[m] = "put"
    /\ ctrl' = CarriedOut(Request(m), ctrl)
    /\ cache' = CarriedOut(Request(m), cache)
    /\ target' = [target EXCEPT ![m] = m]
    /\ wpc' = [wpc EXCEPT ![m] = "pending"]
    /\ UNCHANGED <<routes, queued, retry, late, doubt, fails, chan, closed, panicked>>
    /\ Rest

\* AviVrfGet fails: AviVrfBuild returns nothing and vrfCU gives up, without a retry.
VrfGetFails(m) ==
    /\ wpc[m] = "put" /\ fails < MaxFails
    /\ fails' = fails + 1
    /\ doubt' = doubt \cup {<<"get", Vrf>>}
    /\ wpc' = [wpc EXCEPT ![m] = "idle"]
    /\ UNCHANGED <<routes, queued, retry, target, cache, ctrl, late, chan, closed, panicked>>
    /\ Rest

\* Mutant: the parent is left alone after the child.
ContinueNot(m) == /\ wpc' = [wpc EXCEPT ![m] = "idle"]
                  /\ target' = [target EXCEPT ![m] = m]

\* DeleteVSOper goes on with the parent once the child is dealt with.
Continue(m) == /\ wpc' = [wpc EXCEPT ![m] = IF target[m] = m THEN "idle" ELSE "delete"]
               /\ target' = [target EXCEPT ![m] = m]

\* DeleteVSOper on a virtual service that is not in the cache: straight to the
\* notification.
DeleteNil(m) ==
    /\ wpc[m] = "delete" /\ target[m] \notin cache
    /\ IF chan # 0 THEN wpc' = [wpc EXCEPT ![m] = "close"] /\ UNCHANGED target
       ELSE Continue(m)
    /\ UNCHANGED <<routes, queued, retry, cache, ctrl, late, doubt, fails, chan, closed, panicked>>
    /\ Rest

\* A deletion under way elsewhere finds nothing any more: it names the uuid.
Outrun(m) == late \ {<<"remove", target[m]>>}

DeleteVSOper(m) ==
    /\ wpc[m] = "delete" /\ target[m] \in cache
    /\ ctrl' = ctrl \ {target[m]}
    /\ cache' = cache \ {target[m]}
    /\ late' = Outrun(m)
    /\ wpc' = [wpc EXCEPT ![m] = "pending"]
    /\ UNCHANGED <<routes, queued, retry, target, doubt, fails, chan, closed, panicked>>
    /\ Rest

\* A batch is being carried out.
Requesting(m) == \/ wpc[m] \in {"posting", "put"}
                 \/ wpc[m] = "delete" /\ target[m] \in cache

\* Mutant: a failed batch is not handed to the retry layer.
FailForgets(m) ==
    /\ fails < MaxFails /\ Requesting(m)
    /\ fails' = fails + 1
    /\ wpc' = [wpc EXCEPT ![m] = "idle"]
    /\ UNCHANGED <<routes, queued, retry, target, cache, ctrl, late, doubt, chan, closed,
                   panicked>>
    /\ Rest

\* The controller answers with an error and the key goes to a retry queue.  A deletion
\* starts with the virtual service, and without a model the caches are not told what was
\* done before the error (RefreshCacheForPartialOperation).
Fail(m) ==
    /\ fails < MaxFails /\ Requesting(m)
    /\ fails' = fails + 1
    /\ \/ UNCHANGED <<ctrl, late, doubt>>
       \/ /\ wpc[m] = "delete"
          /\ ctrl' = ctrl \ {target[m]}
          /\ late' = Outrun(m)
          /\ doubt' = doubt \cup {Request(m)}
    /\ retry' = retry \cup {m}
    /\ wpc' = [wpc EXCEPT ![m] = "idle"]
    /\ UNCHANGED <<routes, queued, target, cache, chan, closed, panicked>>
    /\ Rest

\* AviRestOperateWrapper gives up waiting, or the connection breaks: the key goes to a
\* retry queue, the caches are left alone, and the request goes on by itself.
TimedOut(m) ==
    /\ fails < MaxFails /\ Requesting(m)
    /\ fails' = fails + 1
    /\ late' = late \cup {Request(m)}
    /\ doubt' = doubt \cup {Request(m)}
    /\ retry' = retry \cup {m}
    /\ wpc' = [wpc EXCEPT ![m] = "idle"]
    /\ UNCHANGED <<routes, queued, target, cache, ctrl, chan, closed, panicked>>
    /\ Rest

\* The request is carried out in the end; nobody reads the answer.
LateStep(r) ==
    /\ late' = late \ {r}
    /\ ctrl' = CarriedOut(r, ctrl)
    /\ UNCHANGED <<routes, queued, retry, wpc, target, cache, doubt, fails, chan, closed, panicked>>
    /\ Rest

Retry(m) ==
    /\ m \in retry
    /\ retry' = retry \ {m}
    /\ queued' = queued \cup {m}
    /\ UNCHANGED <<routes, wpc, target, cache, ctrl, late, doubt, fails, chan, closed, panicked>>
    /\ Rest

\* Mutant: the number of pending deletions is not looked at.
CheckPendingNot(m) ==
    /\ wpc[m] = "pending"
    /\ IF chan # 0
       THEN wpc' = [wpc EXCEPT ![m] = "close"] /\ UNCHANGED target
       ELSE Continue(m)
    /\ UNCHANGED <<routes, queued, retry, cache, ctrl, late, doubt, fails, chan, closed, panicked>>
    /\ Rest

\* After a successful batch: vsKeysPending, and the first look at the channel.
CheckPending(m) ==
    /\ wpc[m] = "pending"
    /\ IF cache \ {Vrf} = {} /\ chan # 0
       THEN wpc' = [wpc EXCEPT ![m] = "close"] /\ UNCHANGED target
       ELSE Continue(m)
    /\ UNCHANGED <<routes, queued, retry, cache, ctrl, late, doubt, fails, chan, closed, panicked>>
    /\ Rest

\* close(lib.ConfigDeleteSyncChan): panics on a nil or a closed channel.
CloseChan(m) ==
    /\ wpc[m] = "close"
    /\ IF chan = 0 \/ chan \in closed
       THEN panicked' = TRUE /\ UNCHANGED <<closed, wpc>>
       ELSE /\ closed' = closed \cup {chan}
            /\ wpc' = [wpc EXCEPT ![m] = "reset"]
            /\ UNCHANGED panicked
    /\ UNCHANGED <<routes, queued, retry, target, cache, ctrl, late, doubt, fails, chan>> /\ Rest

\* Mutant: the closed channel stays in place.
ResetChanNot(m) ==
    /\ wpc[m] = "reset"
    /\ Continue(m)
    /\ UNCHANGED <<routes, queued, retry, cache, ctrl, late, doubt, fails, chan, closed, panicked>>
    /\ Rest

ResetChan(m) ==
    /\ wpc[m] = "reset"
    /\ chan' = 0
    /\ Continue(m)
    /\ UNCHANGED <<routes, queued, retry, cache, ctrl, late, doubt, fails, closed, panicked>>
    /\ Rest

Handler ==
    \/ UpdateFunc(TRUE)
    \/ UpdateFunc(FALSE)
    \/ \E m \in Models : DeleteModels(m)
    \/ SetDeleteSyncChannel
    \/ Select
    \/ ReportDone
    \/ ReportTimeout
    \/ QuickSync

SyncStep ==
    \/ FullSyncK8s
    \/ FullSyncCheck
    \/ \E m \in Models : FullSyncSave(m)
    \/ PublishAll

Worker(m) ==
    \/ DequeueNodes(m)
    \/ PostCheck(m)
    \/ Post(m)
    \/ Conflict(m)
    \/ VrfPut(m)
    \/ DeleteNil(m)
    \/ DeleteVSOper(m)
    \/ CheckPending(m)
    \/ CloseChan(m)
    \/ ResetChan(m)

Fault(m) ==
    \/ Fail(m)
    \/ TimedOut(m)
    \/ VrfGetFails(m)

Next ==
    /\ ~panicked
    /\ \/ EditConfigMap
       \/ Handler
       \/ \E m \in Models : IngestCheck(m) \/ IngestSave(m)
       \/ SyncStep
       \/ \E m \in Models : Worker(m) \/ Fault(m) \/ Retry(m)
       \/ \E r \in late : LateStep(r)

\* Goroutines get to run, those of batches that timed out too, timers fire, and a retried
\* key is published again.  REST batches fail at most MaxFails times; users and events owe
\* nothing.
Fairness ==
    /\ WF_vars(~panicked /\ Handler)
    /\ WF_vars(~panicked /\ SyncStep)
    /\ WF_vars(~panicked /\ \E r \in late : LateStep(r))
    /\ \A m \in Models : /\ WF_vars(~panicked /\ Worker(m))
                         /\ WF_vars(~panicked /\ Retry(m))
                         /\ WF_vars(~panicked /\ IngestSave(m))

Spec == Init /\ [][Next]_vars
FairSpec == Spec /\ Fairness

-----------------------------------------------------------------------------
(* Properties.                                                             *)

\* The variables keep their types.
TypeOK ==
    /\ flag \in BOOLEAN /\ toggles \in 0..MaxToggles /\ events \in Seq(BOOLEAN)
    /\ hpc \in {"idle", "delete", "chan", "select", "wait", "sync"}
    /\ todo \subseteq Models /\ accepted \in BOOLEAN
    /\ disableSync \in BOOLEAN
    /\ annotation \in {"none", "Started", "Done", "Timeout"}
    /\ chan \in 0..MaxToggles /\ wch \in 0..MaxToggles
    /\ closed \subseteq 1..MaxToggles
    /\ k8s \subseteq Models
    /\ model \in [Models -> {"none", "graph", "nil", "empty"}]
    /\ queued \subseteq Models /\ retry \subseteq Models
    /\ wpc \in [Models -> {"idle", "post", "posting", "put", "delete",
                           "pending", "close", "reset"}]
    /\ target \in [Models -> AllVs \cup {Vrf}]
    /\ routes \in BOOLEAN
    /\ cache \subseteq AllVs \cup {Vrf} /\ ctrl \subseteq AllVs \cup {Vrf}
    /\ late \subseteq {"add", "remove"} \X (AllVs \cup {Vrf})
    /\ doubt \subseteq {"add", "remove", "get"} \X (AllVs \cup {Vrf})
    /\ ingest \subseteq Events /\ spc \in {"idle", "build", "save"}
    /\ stodo \subseteq Models /\ quick \in BOOLEAN
    /\ fails \in 0..MaxFails /\ panicked \in BOOLEAN

\* Nothing is under way: the handler, the queues and every goroutine are idle.
Quiescent ==
    /\ events = <<>> /\ hpc = "idle" /\ ~quick /\ spc = "idle" /\ ingest = {}
    /\ queued = {} /\ retry = {} /\ late = {} /\ ~panicked
    /\ \A m \in Models : wpc[m] = "idle"

\* The exceptions: an object that was created without the caches being told, one that
\* was deleted so, and static routes whose update was dropped.
Unnoticed(v) == (v \notin cache /\ <<"add", v>> \in doubt) \/ <<"get", v>> \in doubt
Missed(v) == (v \in cache /\ <<"remove", v>> \in doubt) \/ <<"get", v>> \in doubt

\* The model that a virtual service belongs to.
Owner(v) == IF v \in Models THEN v ELSE v[1]

\* No orphans: once everything has settled, a virtual service (or the static
\* routes) on the controller has a model, whatever flag edits, failures, conflicts
\* and stale reads of DisableSync (saveAviModel, AviRestOperate) led there, unless the
\* answer to its creation was lost and no conflict has made up for it since.
NoOrphans == Quiescent => \A v \in ctrl : model[Owner(v)] = "graph" \/ Unnoticed(v)

\* Clearing deleteConfig re-creates everything: once all has settled with sync
\* enabled, what Kubernetes calls for is on the controller, although POSTs and
\* saves were skipped while sync was disabled (FullSyncK8s, QuickSync), unless a
\* deletion broke off after the virtual service and the cache still has it.
Recreated ==
    Quiescent /\ ~disableSync =>
        \A v \in k8s \cup {c \in Children : c[1] \in k8s} : v \in ctrl \/ Missed(v)

\* Setting deleteConfig for good empties the controller in the end, failed
\* batches and the retry queues included (DeleteModels, DeleteVSOper, vrfCU).
AllDeleted ==
    <>[](disableSync /\ accepted /\ events = <<>>) => <>[](\A v \in ctrl : Unnoticed(v))

\* The annotation never says Done while virtual services are left
\* (DeleteVSOper: all VSes got deleted, done with deleteConfig operation).
DoneMeansDeleted ==
    annotation = "Done" => \A v \in ctrl \cap AllVs : Unnoticed(v)

\* The channel is closed once: no worker closes a nil or a closed channel, and
\* the quick sync request finds a thread to take it.
NoPanic == ~panicked

-----------------------------------------------------------------------------
(* The inductive invariants of DeleteConfigProofs.                         *)

\* A worker that deletes, or has yet to report a deletion.
Deleting(m) == wpc[m] \in {"delete", "pending", "close", "reset"}

\* A worker is at a virtual service of its own: the parent first when it creates, the
\* child first when it deletes.
Workers ==
    /\ target[Vrf] = Vrf /\ wpc[Vrf] \notin {"post", "posting", "delete"}
    /\ \A m \in Vs :
          /\ wpc[m] # "put"
          /\ target[m] = m \/ (m \in HasChild /\ target[m] = Child(m))
          /\ wpc[m] \in {"post", "posting"} /\ target[m] # m => m \in cache
    /\ \A m \in HasChild :
          /\ Child(m) \in cache => m \in cache
          /\ wpc[m] = "delete" /\ target[m] = m => Child(m) \notin cache
          /\ wpc[m] \in {"pending", "close", "reset"} /\ target[m] # m => Child(m) \notin cache

\* The caches differ from the controller where a request was carried out without their
\* being told, and nowhere else.
Told ==
    /\ late \subseteq doubt
    /\ \A v \in ctrl \ cache : <<"add", v>> \in doubt
    /\ \A v \in cache \ ctrl : <<"remove", v>> \in doubt

\* An update of the static routes was dropped.
Dropped == <<"get", Vrf>> \in doubt

\* What the caches know and has no model is about to be looked at.
Accounted ==
    /\ \A m \in Vs :
          /\ m \in cache /\ model[m] # "graph" =>
                \/ m \in queued \cup retry \/ wpc[m] = "delete"
                \/ Deleting(m) /\ target[m] # m
          /\ wpc[m] \in {"post", "posting"} => model[m] = "graph" \/ m \in queued
    /\ model[Vrf] # "nil"
    /\ Vrf \in cache \/ wpc[Vrf] = "put" => model[Vrf] # "none"
    /\ Vrf \in cache /\ model[Vrf] # "graph" =>
          Vrf \in queued \cup retry \/ (wpc[Vrf] = "put" /\ ~routes) \/ Dropped
    /\ wpc[Vrf] = "put" /\ routes => model[Vrf] = "graph" \/ Vrf \in queued

Cached(m) == m \in cache /\ (m \in HasChild => Child(m) \in cache)

\* m is there, or somebody is about to build, publish or create it.
Restored(m) ==
    \/ m \in stodo \/ m \in ingest \/ (m = Vrf /\ Dropped)
    \/ /\ model[m] = "graph"
       /\ \/ m \in queued \cup retry \/ Cached(m)
          \/ m \in Vs /\ (spc # "idle" \/ wpc[m] \in {"post", "posting"})
          \/ m = Vrf /\ wpc[m] = "put" /\ routes

\* With sync enabled and no quick sync to come, all that Kubernetes calls for is there
\* or on its way; what a worker deletes although it has a model again will be created
\* anew; and the handler disables sync before it deletes a model.
Restoring ==
    /\ disableSync \/ hpc = "sync" \/ quick \/ panicked \/ \A m \in k8s : Restored(m)
    /\ \A m \in Vs : Deleting(m) /\ model[m] = "graph" => m \in queued \/ spc # "idle"
    /\ wpc[Vrf] = "put" /\ ~routes /\ model[Vrf] = "graph" => Vrf \in queued
    /\ hpc \in {"delete", "chan", "select", "wait"} => disableSync
    /\ spc = "idle" => stodo = {}
    /\ \A m, n \in ingest : m = n

\* Every channel belongs to one edit that set the flag: there are no more channels
\* than edits.
OpenChans == IF chan # 0 /\ chan \notin closed THEN 1 ELSE 0
WantedChans == IF hpc \in {"delete", "chan"} THEN 1 ELSE 0
Channels ==
    /\ closed = 1 .. Cardinality(closed)
    /\ chan # 0 /\ chan \notin closed => chan = NewChan
    /\ \A m, n \in Models : wpc[m] = "reset" /\ wpc[n] = "reset" => m = n
    /\ \A m \in Models : wpc[m] = "reset" => chan \in closed
    /\ Cardinality(closed) + OpenChans + WantedChans + Len(events) <= toggles

DeleteConfigInv ==
    TypeOK /\ Workers /\ Told /\ Accounted /\ Restoring /\ Channels

\* With one graph worker and no passthrough child, no virtual service is cached and
\* nothing is about to be created whenever the channel is closed or the deletion is
\* reported as done; and the channel is closed and forgotten by the same worker.
Clean == cache \cap AllVs = {} /\ \A m \in Models : wpc[m] # "posting"
OneByOne == \A m, n \in Models : wpc[m] # "idle" /\ wpc[n] # "idle" => m = n
SingleInv ==
    /\ OneByOne
    /\ \A m \in Models : wpc[m] \in {"close", "reset"} => cache \cap AllVs = {}
    /\ \A m \in Models : wpc[m] = "close" => chan # 0 /\ chan \notin closed
    /\ chan \in closed => \E m \in Models : wpc[m] = "reset"
    /\ \A m \in Vs : wpc[m] = "delete" => m \in cache
    /\ \A m \in Vs : model[m] = "none" => m \notin cache /\ wpc[m] \notin {"post", "posting"}
    /\ hpc = "wait" /\ wch \in closed => Clean
    /\ annotation = "Done" => disableSync /\ Clean
    /\ ~panicked
=============================================================================
