------------------------- MODULE DeleteConfigProofs -------------------------
(***************************************************************************)
(* For any virtual services, any assignment to graph workers and any       *)
(* number of edits and failures: deleteConfig leaves nothing on the        *)
(* controller without a model, and clearing it brings everything back.     *)
(***************************************************************************)
EXTENDS DeleteConfig, FiniteSetTheorems, TLAPS

\* The child of a virtual service is no parent, and no one else's child.
LEMMA ChildDistinct ==
    /\ \A v \in HasChild : v \in Vs /\ Child(v) \notin Models /\ Child(v) \in Children
    /\ \A v, w : Child(v) = Child(w) => v = w
    /\ Vrf \notin Vs /\ Vrf \in Models /\ Vs \subseteq Models
    /\ \A c \in Children : \E v \in HasChild : c = Child(v) /\ c[1] = v
    /\ \A v : Child(v)[1] = v
  BY DeleteConfigAssumption DEF Child, Children, Models

\* What the workers decide on, and what is known to be in doubt.
known == <<wpc, target, routes, cache, doubt>>

\* What every failing batch has in common: the worker stops and leaves the caches alone,
\* and unless an update of the static routes is dropped the key is retried.
LEMMA FaultSteps ==
    ASSUME NEW m \in Models, Fault(m)
    PROVE  /\ wpc' = [wpc EXCEPT ![m] = "idle"]
           /\ UNCHANGED <<k8s, model, ingest, queued, routes, target, cache, chan, closed, panicked>>
           /\ UNCHANGED <<hvars, cvars, svars>>
           /\ wpc[m] \in {"posting", "put", "delete"} /\ doubt \subseteq doubt'
           /\ retry' = retry \cup {m} \/ (retry' = retry /\ wpc[m] = "put" /\ Dropped')
  <1>1. CASE Fail(m)
    BY Zenon, <1>1 DEF Fail, Rest, Requesting
  <1>2. CASE TimedOut(m)
    BY Zenon, <1>2 DEF TimedOut, Rest, Requesting
  <1>3. CASE VrfGetFails(m)
    BY Zenon, <1>3 DEF VrfGetFails, Rest, Dropped
  <1> QED BY Zenon, <1>1, <1>2, <1>3 DEF Fault

\* A request that is carried out late changes the controller and nothing else.
LEMMA LateSteps ==
    ASSUME NEW r, LateStep(r)
    PROVE  /\ UNCHANGED known /\ UNCHANGED <<hvars, cvars, svars>>
           /\ UNCHANGED <<k8s, model, ingest, queued, retry, chan, closed, panicked, fails>>
  BY Zenon DEF LateStep, Rest, known

\* The steps that leave the workers alone.
LEMMA WorkersAlone ==
    ASSUME [Next]_vars
    PROVE  \/ UNCHANGED known /\ (UNCHANGED wvars \/ \E r \in late : LateStep(r))
           \/ \E m \in Models : Worker(m) \/ Fault(m)
  <1> DEFINE P == UNCHANGED wvars
  <1>1. EditConfigMap => P
    BY Zenon DEF EditConfigMap
  <1>2. UpdateFunc(TRUE) \/ UpdateFunc(FALSE) => P
    BY Zenon DEF UpdateFunc
  <1>3. \A m \in Models : DeleteModels(m) => P
    BY Zenon DEF DeleteModels
  <1>4. SetDeleteSyncChannel \/ Select \/ ReportDone \/ ReportTimeout \/ QuickSync => P
    BY Zenon DEF SetDeleteSyncChannel, Select, ReportDone, ReportTimeout, Answer, QuickSync
  <1>5. \A m \in Models : IngestCheck(m) \/ IngestSave(m) \/ FullSyncSave(m) => P
    BY Zenon DEF IngestCheck, IngestSave, FullSyncSave
  <1>6. FullSyncK8s \/ FullSyncCheck \/ PublishAll => P
    BY Zenon DEF FullSyncK8s, FullSyncCheck, PublishAll
  <1>7. \A m \in Models : Retry(m) => P
    BY Zenon DEF Retry, wvars
  <1>8. UNCHANGED vars => P
    BY Zenon DEF vars, wvars
  <1>9. P => UNCHANGED known
    BY Zenon DEF wvars, known
  <1>10. \A r \in late : LateStep(r) => UNCHANGED known
    BY Zenon, LateSteps
  <1> HIDE DEF P
  <1>11. P \/ (\E r \in late : LateStep(r)) \/ \E m \in Models : Worker(m) \/ Fault(m)
    BY Zenon, <1>1, <1>2, <1>3, <1>4, <1>5, <1>6, <1>7, <1>8 DEF Next, Handler, SyncStep
  <1> QED BY Zenon, <1>9, <1>10, <1>11 DEF P

\* The PUT of the static routes.
LEMMA VrfPutSteps ==
    ASSUME Workers, NEW m \in Models, VrfPut(m)
    PROVE  /\ m = Vrf /\ target[m] = Vrf
           /\ cache' = IF routes THEN cache \cup {Vrf} ELSE cache \ {Vrf}
           /\ ctrl' = IF routes THEN ctrl \cup {Vrf} ELSE ctrl \ {Vrf}
  <1>1. m = Vrf /\ target[m] = Vrf
    BY Zenon DEF VrfPut, Workers, Models
  <1>2. wpc[m] = "put" /\ cache' = CarriedOut(Request(m), cache) /\ ctrl' = CarriedOut(Request(m), ctrl)
    BY Zenon DEF VrfPut
  <1>3. Request(m) = <<IF routes THEN "add" ELSE "remove", Vrf>>
    BY Zenon, <1>1, <1>2 DEF Request
  <1> QED BY <1>1, <1>2, <1>3 DEF CarriedOut

\* The parts of TypeOK: the handler and the channel, the stores and queues, the workers,
\* the controller.
HandlerTypes ==
    /\ flag \in BOOLEAN /\ toggles \in 0..MaxToggles /\ events \in Seq(BOOLEAN)
    /\ hpc \in {"idle", "delete", "chan", "select", "wait", "sync"}
    /\ todo \subseteq Models /\ accepted \in BOOLEAN
    /\ disableSync \in BOOLEAN
    /\ annotation \in {"none", "Started", "Done", "Timeout"}
StoreTypes ==
    /\ k8s \subseteq Models
    /\ model \in [Models -> {"none", "graph", "nil", "empty"}]
    /\ queued \subseteq Models /\ retry \subseteq Models
    /\ ingest \subseteq Events /\ spc \in {"idle", "build", "save"}
    /\ stodo \subseteq Models /\ quick \in BOOLEAN /\ panicked \in BOOLEAN
WorkerTypes ==
    /\ wpc \in [Models -> {"idle", "post", "posting", "put", "delete",
                           "pending", "close", "reset"}]
    /\ target \in [Models -> AllVs \cup {Vrf}]
    /\ routes \in BOOLEAN
    /\ cache \subseteq AllVs \cup {Vrf}
ControllerTypes ==
    /\ ctrl \subseteq AllVs \cup {Vrf} /\ fails \in 0..MaxFails
    /\ late \subseteq {"add", "remove"} \X (AllVs \cup {Vrf})
    /\ doubt \subseteq {"add", "remove", "get"} \X (AllVs \cup {Vrf})
ChannelTypes ==
    /\ chan \in 0..MaxToggles /\ wch \in 0..MaxToggles /\ closed \subseteq 1..MaxToggles

\* Together they are TypeOK.
LEMMA TypeParts ==
    TypeOK <=> /\ HandlerTypes /\ StoreTypes /\ WorkerTypes
               /\ ControllerTypes /\ ChannelTypes
  BY Zenon DEF TypeOK, HandlerTypes, StoreTypes, WorkerTypes, ControllerTypes, ChannelTypes

\* The head and the tail of a queue.
LEMMA HeadTail ==
    ASSUME NEW S, NEW q \in Seq(S), q # <<>>
    PROVE  Head(q) \in S /\ Tail(q) \in Seq(S) /\ Len(q) \in Nat /\ Len(Tail(q)) = Len(q) - 1
  OBVIOUS

\* The handler keeps its types.
LEMMA NextHandlerTypes ==
    ASSUME HandlerTypes, StoreTypes, [Next]_vars PROVE HandlerTypes'
  <1>1. CASE EditConfigMap
    BY <1>1, DeleteConfigAssumption DEF EditConfigMap, cvars, HandlerTypes
  <1>2. ASSUME NEW valid \in BOOLEAN, UpdateFunc(valid) PROVE HandlerTypes'
    <2>1. Head(events) \in BOOLEAN /\ Tail(events) \in Seq(BOOLEAN)
      BY Zenon, <1>2, HeadTail DEF UpdateFunc, HandlerTypes
    <2>2. disableSync' \in BOOLEAN
      BY Zenon, <1>2 DEF UpdateFunc
    <2> QED BY Zenon, <1>2, <2>1, <2>2 DEF UpdateFunc, HandlerTypes
  <1>3. ASSUME NEW m \in Models, DeleteModels(m) PROVE HandlerTypes'
    BY Zenon, <1>3 DEF DeleteModels, cvars, HandlerTypes
  <1>4. CASE SetDeleteSyncChannel \/ Select \/ QuickSync
    BY Zenon, <1>4 DEF SetDeleteSyncChannel, Select, QuickSync, cvars, HandlerTypes
  <1>5. CASE ReportDone \/ ReportTimeout
    BY Zenon, <1>5 DEF ReportDone, ReportTimeout, Answer, HandlerTypes
  <1>6. CASE UNCHANGED <<hvars, cvars>>
    BY Zenon, <1>6 DEF hvars, cvars, HandlerTypes
  <1>7. ASSUME NEW m \in Models, IngestCheck(m) \/ IngestSave(m) \/ FullSyncSave(m)
        PROVE  UNCHANGED <<hvars, cvars>>
    BY Zenon, <1>7 DEF IngestCheck, IngestSave, FullSyncSave
  <1>8. CASE FullSyncK8s \/ FullSyncCheck \/ PublishAll
    <2>1. UNCHANGED <<hvars, cvars>>
      BY Zenon, <1>8 DEF FullSyncK8s, FullSyncCheck, PublishAll
    <2> QED BY Zenon, <1>6, <2>1
  <1>9. ASSUME NEW m \in Models, Worker(m) \/ Fault(m) \/ Retry(m)
        PROVE  UNCHANGED <<hvars, cvars>>
    BY Zenon, <1>9, FaultSteps DEF Worker, DequeueNodes, PostCheck, Post, Conflict, VrfPut, DeleteNil,
       DeleteVSOper, CheckPending, CloseChan, ResetChan, Retry, Rest
  <1>10. CASE UNCHANGED vars
    BY Zenon, <1>6, <1>10 DEF vars, hvars, cvars
  <1>11. ASSUME NEW r \in late, LateStep(r) PROVE HandlerTypes'
    BY Zenon, <1>6, <1>11, LateSteps
  <1> QED BY Zenon, <1>1, <1>2, <1>3, <1>4, <1>5, <1>6, <1>7, <1>8, <1>9, <1>10, <1>11
          DEF Next, Handler, SyncStep

\* The model store, the queues and the sync thread keep their types.
LEMMA NextStoreTypes ==
    ASSUME HandlerTypes, StoreTypes, WorkerTypes, [Next]_vars PROVE StoreTypes'
  <1> USE DeleteConfigAssumption
  <1>1. ASSUME UNCHANGED <<k8s, model, queued, retry, ingest, panicked>>, UNCHANGED svars
        PROVE  StoreTypes'
    BY Zenon, <1>1 DEF svars, StoreTypes
  <1>2. CASE EditConfigMap \/ UpdateFunc(TRUE) \/ UpdateFunc(FALSE) \/ SetDeleteSyncChannel
             \/ Select \/ ReportDone \/ ReportTimeout
    BY Zenon, <1>1, <1>2 DEF EditConfigMap, UpdateFunc, SetDeleteSyncChannel, Select, ReportDone,
       ReportTimeout, Answer
  <1>3. ASSUME NEW m \in Models, DeleteModels(m) PROVE StoreTypes'
    BY Zenon, <1>3 DEF DeleteModels, svars, StoreTypes
  <1>4. CASE QuickSync
    BY Zenon, <1>4 DEF QuickSync, StoreTypes
  <1>5. ASSUME NEW m \in Models, IngestCheck(m) \/ IngestSave(m) PROVE StoreTypes'
    BY Zenon, <1>5 DEF IngestCheck, IngestSave, svars, StoreTypes
  <1>6. CASE FullSyncK8s \/ FullSyncCheck
    BY Zenon, <1>6 DEF FullSyncK8s, FullSyncCheck, StoreTypes
  <1>7. CASE PublishAll
    BY Zenon, <1>7 DEF PublishAll, StoreTypes, Models
  <1>8. ASSUME NEW m \in Models, FullSyncSave(m) PROVE StoreTypes'
    BY Zenon, <1>8 DEF FullSyncSave, StoreTypes
  <1>9. ASSUME NEW m \in Models, DequeueNodes(m) \/ Conflict(m) \/ Fault(m) \/ Retry(m)
        PROVE  StoreTypes'
    BY Zenon, <1>9, FaultSteps DEF DequeueNodes, Conflict, Retry, Rest, svars, StoreTypes
  <1>10. ASSUME NEW m \in Models,
                PostCheck(m) \/ Post(m) \/ VrfPut(m) \/ DeleteNil(m) \/ DeleteVSOper(m)
                \/ CheckPending(m) \/ ResetChan(m)
         PROVE  StoreTypes'
    <2>1. UNCHANGED <<k8s, model, queued, retry, ingest, panicked>> /\ UNCHANGED svars
      BY Zenon, <1>10 DEF PostCheck, Post, VrfPut, DeleteNil, DeleteVSOper, CheckPending, ResetChan, Rest
    <2> QED BY Zenon, <1>1, <2>1
  <1>11. ASSUME NEW m \in Models, CloseChan(m) PROVE StoreTypes'
    BY Zenon, <1>11 DEF CloseChan, Rest, svars, StoreTypes
  <1>12. CASE UNCHANGED vars
    BY Zenon, <1>1, <1>12 DEF vars, svars
  <1>13. ASSUME NEW r \in late, LateStep(r) PROVE StoreTypes'
    BY Zenon, <1>1, <1>13, LateSteps
  <1> QED BY Zenon, <1>2, <1>3, <1>4, <1>5, <1>6, <1>7, <1>8, <1>9, <1>10, <1>11, <1>12, <1>13
          DEF Next, Handler, SyncStep, Worker
\* The workers keep their types.
LEMMA NextWorkerTypes ==
    ASSUME HandlerTypes, StoreTypes, WorkerTypes, Workers, [Next]_vars PROVE WorkerTypes'
  <1> USE DeleteConfigAssumption, ChildDistinct
  <1>1. CASE UNCHANGED known
    BY Zenon, <1>1 DEF known, WorkerTypes
  <1>2. ASSUME NEW m \in Models, DequeueNodes(m) PROVE WorkerTypes'
    <2>1. routes' \in BOOLEAN
      BY Zenon, <1>2 DEF DequeueNodes, WorkerTypes
    <2>2. m # Vrf => m \in AllVs /\ (m \in HasChild => Child(m) \in AllVs)
      BY Zenon DEF AllVs, Models
    <2>3. cache' = cache
      BY Zenon, <1>2 DEF DequeueNodes
    <2>4. wpc' \in [Models -> {"idle", "post", "posting", "put", "delete",
                               "pending", "close", "reset"}]
      BY <1>2 DEF DequeueNodes, WorkerTypes
    <2>5. target' \in [Models -> AllVs \cup {Vrf}]
      <3> DEFINE missing == ({m} \cup {c \in Children : c[1] = m}) \ cache
      <3>1. m \notin missing /\ missing # {} => m \in HasChild
        OBVIOUS
      <3>2. \/ target' = target
            \/ /\ m # Vrf
               /\ target' = [target EXCEPT ![m] =
                               IF m \notin missing /\ missing # {} THEN Child(m) ELSE m]
            \/ m # Vrf /\ target' = [target EXCEPT ![m] = FirstTarget(m)]
        BY Zenon, <1>2 DEF DequeueNodes
      <3> HIDE DEF missing
      <3> QED BY <2>2, <3>1, <3>2 DEF FirstTarget, WorkerTypes
    <2> QED BY Zenon, <2>1, <2>3, <2>4, <2>5 DEF WorkerTypes
  <1>3. ASSUME NEW m \in Models, PostCheck(m) \/ VrfPut(m) PROVE WorkerTypes'
    <2>1. CASE PostCheck(m)
      BY Zenon, <2>1 DEF PostCheck, WorkerTypes
    <2>2. CASE VrfPut(m)
      <3>1. m = Vrf /\ cache' \subseteq cache \cup {Vrf}
        BY Zenon, <2>2, VrfPutSteps
      <3> QED BY Zenon, <2>2, <3>1 DEF VrfPut, WorkerTypes
    <2> QED BY Zenon, <1>3, <2>1, <2>2
  <1>4. ASSUME NEW m \in Models, Post(m) \/ Conflict(m) PROVE WorkerTypes'
    <2>1. m # Vrf /\ target[m] \in AllVs /\ (m \in HasChild => Child(m) \in AllVs)
      BY <1>4 DEF Post, Conflict, Workers, Models, AllVs
    <2>2. CASE Post(m)
      BY Zenon, <2>1, <2>2 DEF Post, WorkerTypes
    <2>3. CASE Conflict(m)
      BY Zenon, <2>1, <2>3 DEF Conflict, WorkerTypes
    <2> QED BY Zenon, <1>4, <2>2, <2>3
  <1>5. ASSUME NEW m \in Models, Continue(m),
               UNCHANGED <<routes, cache>>
        PROVE  WorkerTypes'
    BY Zenon, <1>5 DEF Continue, WorkerTypes, Models, AllVs
  <1>6. ASSUME NEW m \in Models, NEW to \in {"close", "pending", "reset", "idle"},
               wpc' = [wpc EXCEPT ![m] = to], UNCHANGED <<target, routes>>,
               cache' \subseteq cache
        PROVE  WorkerTypes'
    BY Zenon, <1>6 DEF WorkerTypes
  <1>7. ASSUME NEW m \in Models, DeleteNil(m) \/ CheckPending(m) PROVE WorkerTypes'
    <2>1. UNCHANGED <<routes, cache>>
      BY Zenon, <1>7 DEF DeleteNil, CheckPending
    <2>2. Continue(m) \/ (wpc' = [wpc EXCEPT ![m] = "close"] /\ UNCHANGED target)
      BY Zenon, <1>7 DEF DeleteNil, CheckPending
    <2> QED BY Zenon, <1>5, <1>6, <2>1, <2>2
  <1>8. ASSUME NEW m \in Models, DeleteVSOper(m) PROVE WorkerTypes'
    BY Zenon, <1>6, <1>8 DEF DeleteVSOper, WorkerTypes
  <1>9. ASSUME NEW m \in Models, CloseChan(m) PROVE WorkerTypes'
    BY <1>9 DEF CloseChan, WorkerTypes
  <1>10. ASSUME NEW m \in Models, ResetChan(m) PROVE WorkerTypes'
    BY Zenon, <1>5, <1>10 DEF ResetChan
  <1>11. ASSUME NEW m \in Models, Fault(m) PROVE WorkerTypes'
    BY Zenon, <1>6, <1>11, FaultSteps
  <1> QED BY Zenon, <1>1, <1>2, <1>3, <1>4, <1>7, <1>8, <1>9, <1>10, <1>11, WorkersAlone DEF Worker

\* The controller and the requests under way keep their types.
LEMMA NextControllerTypes ==
    ASSUME WorkerTypes, ControllerTypes, Workers, [Next]_vars PROVE ControllerTypes'
  <1> USE DeleteConfigAssumption, ChildDistinct
  <1>1. CASE UNCHANGED <<ctrl, late, doubt, fails>>
    BY Zenon, <1>1 DEF ControllerTypes
  <1>2. ASSUME ctrl' \subseteq AllVs \cup {Vrf}, fails' \in 0..MaxFails,
               late' \subseteq late, doubt' = doubt
        PROVE  ControllerTypes'
    BY Zenon, <1>2 DEF ControllerTypes
  <1>3. \A m \in Models : target[m] \in AllVs \cup {Vrf}
    BY Zenon DEF WorkerTypes
  <1>4. \A m \in Models : Request(m) \in {"add", "remove"} \X (AllVs \cup {Vrf})
    BY <1>3 DEF Request
  <1>5. ASSUME NEW m \in Models, Worker(m) PROVE ControllerTypes'
    <2>1. /\ late' \subseteq late /\ UNCHANGED <<doubt, fails>>
      BY Zenon, <1>5 DEF Worker, DequeueNodes, PostCheck, Post, Conflict, VrfPut, DeleteNil,
         DeleteVSOper, Outrun, CheckPending, CloseChan, ResetChan
    <2>2. VrfPut(m) \/ ctrl' \subseteq ctrl \cup {target[m]}
      BY Zenon, <1>5 DEF Worker, DequeueNodes, PostCheck, Post, Conflict, DeleteNil,
         DeleteVSOper, CheckPending, CloseChan, ResetChan
    <2>3. VrfPut(m) => ctrl' \subseteq ctrl \cup {Vrf}
      BY Zenon, VrfPutSteps
    <2>4. ctrl' \subseteq AllVs \cup {Vrf}
      BY <1>3, <2>2, <2>3 DEF ControllerTypes
    <2> QED BY Zenon, <1>2, <2>1, <2>4 DEF ControllerTypes
  <1>6. ASSUME NEW m \in Models, Fault(m) PROVE ControllerTypes'
    <2>1. fails' \in 0 .. MaxFails
      BY <1>6 DEF Fault, Fail, TimedOut, VrfGetFails, ControllerTypes
    <2>2. /\ ctrl' \subseteq ctrl /\ late' \subseteq late \cup {Request(m)}
          /\ doubt' \subseteq doubt \cup {Request(m), <<"get", Vrf>>}
      BY Zenon, <1>6 DEF Fault, Fail, TimedOut, VrfGetFails, Outrun
    <2>3. <<"get", Vrf>> \in {"add", "remove", "get"} \X (AllVs \cup {Vrf})
      OBVIOUS
    <2>4. Request(m) \in {"add", "remove", "get"} \X (AllVs \cup {Vrf})
      BY <1>4
    <2> QED BY <1>4, <2>1, <2>2, <2>3, <2>4 DEF ControllerTypes
  <1>7. ASSUME NEW r \in late, LateStep(r) PROVE ControllerTypes'
    <2>1. r[2] \in AllVs \cup {Vrf}
      BY DEF ControllerTypes
    <2>2. ctrl' \subseteq ctrl \cup {r[2]}
      BY Zenon, <1>7 DEF LateStep, CarriedOut
    <2> QED BY Zenon, <1>2, <1>7, <2>1, <2>2 DEF LateStep, ControllerTypes
  <1> QED BY Zenon, <1>1, <1>5, <1>6, <1>7, WorkersAlone DEF wvars

\* The caches and the controller differ only where a request is in doubt.
LEMMA NextTold ==
    ASSUME WorkerTypes, ControllerTypes, Workers, Told, [Next]_vars PROVE Told'
  <1> USE ChildDistinct
  <1>1. CASE UNCHANGED <<cache, ctrl, late, doubt>>
    BY Zenon, <1>1 DEF Told
  <1>2. ASSUME NEW m \in Models, Worker(m) PROVE Told'
    <2>1. late' \subseteq late /\ doubt' = doubt
      BY Zenon, <1>2 DEF Worker, DequeueNodes, PostCheck, Post, Conflict, VrfPut, DeleteNil,
         DeleteVSOper, Outrun, CheckPending, CloseChan, ResetChan
    <2>2. CASE UNCHANGED <<cache, ctrl>>
      BY Zenon, <2>1, <2>2 DEF Told
    <2>3. ASSUME NEW v, \/ cache' = cache \cup {v} /\ ctrl' = ctrl \cup {v}
                        \/ cache' = cache \cup {v} /\ ctrl' = ctrl /\ v \in ctrl
                        \/ cache' = cache \ {v} /\ ctrl' = ctrl \ {v}
          PROVE  Told'
      BY <2>1, <2>3 DEF Told
    <2>4. CASE VrfPut(m)
      BY Zenon, <2>3, <2>4, VrfPutSteps
    <2>5. CASE Post(m) \/ Conflict(m) \/ DeleteVSOper(m)
      BY Zenon, <2>3, <2>5 DEF Post, Conflict, DeleteVSOper
    <2>6. CASE \/ DequeueNodes(m) \/ PostCheck(m) \/ DeleteNil(m)
               \/ CheckPending(m) \/ CloseChan(m) \/ ResetChan(m)
      BY Zenon, <2>2, <2>6 DEF DequeueNodes, PostCheck, DeleteNil, CheckPending, CloseChan, ResetChan
    <2> QED BY Zenon, <1>2, <2>4, <2>5, <2>6 DEF Worker
  <1>3. ASSUME NEW m \in Models, Fault(m) PROVE Told'
    <2>1. CASE Fail(m)
      <3>1. CASE UNCHANGED <<ctrl, late, doubt>>
        BY Zenon, <1>1, <2>1, <3>1 DEF Fail
      <3>2. CASE /\ wpc[m] = "delete" /\ ctrl' = ctrl \ {target[m]} /\ late' = Outrun(m)
                 /\ doubt' = doubt \cup {Request(m)} /\ cache' = cache
        <4>1. Request(m) = <<"remove", target[m]>>
          BY Zenon, <3>2 DEF Request
        <4> QED BY Zenon, <3>2, <4>1 DEF Told, Outrun
      <3> QED BY Zenon, <2>1, <3>1, <3>2 DEF Fail
    <2>2. CASE TimedOut(m) \/ VrfGetFails(m)
      BY Zenon, <2>2 DEF TimedOut, VrfGetFails, Told
    <2> QED BY Zenon, <1>3, <2>1, <2>2 DEF Fault
  <1>4. ASSUME NEW r \in late, LateStep(r) PROVE Told'
    <2>1. /\ late' \subseteq late /\ UNCHANGED <<cache, doubt>> /\ ctrl' = CarriedOut(r, ctrl)
      BY Zenon, <1>4 DEF LateStep
    <2>2. r \in doubt /\ r = <<r[1], r[2]>> /\ r[1] \in {"add", "remove"}
      BY DEF Told, ControllerTypes
    <2>3. \/ r = <<"add", r[2]>> /\ ctrl' = ctrl \cup {r[2]}
          \/ r = <<"remove", r[2]>> /\ ctrl' = ctrl \ {r[2]}
      BY <2>1, <2>2 DEF CarriedOut
    <2> QED BY <2>1, <2>2, <2>3 DEF Told
  <1> QED BY Zenon, <1>1, <1>2, <1>3, <1>4, WorkersAlone DEF wvars

\* A worker stays at its own virtual services, and keeps their order.
LEMMA NextWorkers ==
    ASSUME StoreTypes, WorkerTypes, Workers, [Next]_vars PROVE Workers'
  <1> USE ChildDistinct
  <1>1. CASE UNCHANGED known
    BY Zenon, <1>1 DEF known, Workers
  <1>2. ASSUME NEW m \in Models, DequeueNodes(m) PROVE Workers'
    <2>1. cache' = cache /\ \A n \in Models : n # m => wpc'[n] = wpc[n] /\ target'[n] = target[n]
      BY <1>2 DEF DequeueNodes, WorkerTypes
    <2>2. CASE m = Vrf
      <3>1. target' = target /\ wpc'[Vrf] \in {"put", "idle"}
        BY Zenon, <1>2, <2>2 DEF DequeueNodes, WorkerTypes
      <3> QED BY Zenon, <2>1, <2>2, <3>1 DEF Workers
    <2>3. CASE m # Vrf /\ model[m] = "graph"
      <3> DEFINE missing == ({m} \cup {c \in Children : c[1] = m}) \ cache
      <3>1. /\ wpc'[m] \in {"post", "idle"}
            /\ target'[m] = IF m \notin missing /\ missing # {} THEN Child(m) ELSE m
        BY <1>2, <2>3 DEF DequeueNodes, WorkerTypes
      <3>2. m \notin missing /\ missing # {} => m \in HasChild /\ m \in cache
        OBVIOUS
      <3> HIDE DEF missing
      <3> QED BY <2>1, <2>3, <3>1, <3>2 DEF Workers, Models
    <2>4. CASE m # Vrf /\ model[m] # "graph"
      <3>1. wpc'[m] \in {"delete", "idle"} /\ target'[m] = FirstTarget(m)
        BY <1>2, <2>4 DEF DequeueNodes, WorkerTypes
      <3> QED BY <2>1, <2>4, <3>1 DEF Workers, FirstTarget, Models
    <2> QED BY Zenon, <2>2, <2>3, <2>4
  <1>3. ASSUME NEW m \in Models, PostCheck(m) PROVE Workers'
    BY Zenon, <1>3 DEF PostCheck, Workers, WorkerTypes, Models
  <1>4. ASSUME NEW m \in Models, Post(m) \/ Conflict(m) PROVE Workers'
    <2>1. m \in Vs /\ m # Vrf /\ wpc[m] = "posting"
      BY Zenon, <1>4 DEF Post, Conflict, Workers, Models
    <2>2. /\ cache' = cache \cup {target[m]} /\ wpc'[m] \in {"post", "idle"}
          /\ target'[m] = target[m] \/ (target[m] = m /\ m \in HasChild /\ target'[m] = Child(m))
          /\ \A n \in Models : n # m => wpc'[n] = wpc[n] /\ target'[n] = target[n]
      BY SMTT(30), <1>4 DEF Post, Conflict, WorkerTypes
    <2>3. target[m] = m \/ (m \in HasChild /\ target[m] = Child(m) /\ m \in cache)
      BY Zenon, <2>1 DEF Workers
    <2>5. target'[Vrf] = Vrf /\ wpc'[Vrf] \notin {"post", "posting", "delete"}
      BY Zenon, <2>1, <2>2 DEF Workers
    <2>6. \A n \in Vs : /\ wpc'[n] # "put"
                        /\ target'[n] = n \/ (n \in HasChild /\ target'[n] = Child(n))
                        /\ wpc'[n] \in {"post", "posting"} /\ target'[n] # n => n \in cache'
      BY <2>1, <2>2, <2>3 DEF Workers
    <2>7. \A n \in HasChild : n # m => (Child(n) \in cache' <=> Child(n) \in cache)
      BY SMTT(30), <2>1, <2>2, <2>3
    <2>8. \A n \in HasChild :
             /\ Child(n) \in cache' => n \in cache'
             /\ wpc'[n] = "delete" /\ target'[n] = n => Child(n) \notin cache'
             /\ wpc'[n] \in {"pending", "close", "reset"} /\ target'[n] # n => Child(n) \notin cache'
      BY Zenon, <2>1, <2>2, <2>3, <2>7 DEF Workers
    <2> QED BY Zenon, <2>5, <2>6, <2>8 DEF Workers
  <1>5. ASSUME NEW m \in Models, VrfPut(m) PROVE Workers'
    <2>1. m = Vrf /\ \A x : x # Vrf => (x \in cache' <=> x \in cache)
      BY <1>5, VrfPutSteps
    <2>2. /\ wpc'[Vrf] = "pending" /\ target'[Vrf] = Vrf
          /\ \A n \in Models : n # Vrf => wpc'[n] = wpc[n] /\ target'[n] = target[n]
      BY <1>5, <2>1 DEF VrfPut, WorkerTypes
    <2>3. \A n \in Vs : n # Vrf /\ n \in Models
      OBVIOUS
    <2>4. \A n \in HasChild : Child(n) # Vrf
      OBVIOUS
    <2> QED BY <2>1, <2>2, <2>3, <2>4 DEF Workers
  <1>6. ASSUME NEW m \in Models, Continue(m), cache' = cache,
               wpc[m] \in {"pending", "close", "reset"} \/ (wpc[m] = "delete" /\ target[m] \notin cache)
        PROVE  Workers'
    <2>1. /\ target'[m] = m /\ wpc'[m] = IF target[m] = m THEN "idle" ELSE "delete"
          /\ \A n \in Models : n # m => wpc'[n] = wpc[n] /\ target'[n] = target[n]
      BY <1>6 DEF Continue, WorkerTypes
    <2>2. m = Vrf => wpc'[m] = "idle"
      BY Zenon, <2>1 DEF Workers
    <2>3. m \in HasChild /\ target[m] # m => Child(m) \notin cache
      BY <1>6 DEF Workers
    <2> QED BY <1>6, <2>1, <2>2, <2>3 DEF Workers, Models
  <1>7. ASSUME NEW m \in Models, NEW to \in {"close", "reset", "idle"},
               wpc' = [wpc EXCEPT ![m] = to], UNCHANGED <<target, cache>>,
               wpc[m] \in {"pending", "close"} \/ (wpc[m] = "delete" /\ target[m] \notin cache) \/ to = "idle"
        PROVE  Workers'
    BY SMTT(30), <1>7 DEF WorkerTypes, Workers, Models
  <1>8. ASSUME NEW m \in Models, DeleteNil(m) \/ CheckPending(m) PROVE Workers'
    <2>1. cache' = cache /\ (wpc[m] = "pending" \/ (wpc[m] = "delete" /\ target[m] \notin cache))
      BY Zenon, <1>8 DEF DeleteNil, CheckPending
    <2>2. Continue(m) \/ (wpc' = [wpc EXCEPT ![m] = "close"] /\ UNCHANGED target)
      BY Zenon, <1>8 DEF DeleteNil, CheckPending
    <2> QED BY Zenon, <1>6, <1>7, <2>1, <2>2
  <1>9. ASSUME NEW m \in Models, DeleteVSOper(m) PROVE Workers'
    <2>1. m \in Vs /\ wpc[m] = "delete" /\ target[m] \in cache
      BY Zenon, <1>9 DEF DeleteVSOper, Workers, Models
    <2>2. /\ cache' = cache \ {target[m]} /\ target' = target /\ wpc'[m] = "pending"
          /\ \A n \in Models : n # m => wpc'[n] = wpc[n]
      BY <1>9 DEF DeleteVSOper, WorkerTypes
    <2>3. target[m] = m \/ (m \in HasChild /\ target[m] = Child(m))
      BY Zenon, <2>1 DEF Workers
    <2>4. \A n \in HasChild : n # m => Child(n) # target[m]
      BY <2>1, <2>3
    <2>5. \A n \in Vs : n # m => n # target[m]
      BY Zenon, <2>1, <2>3
    <2> QED BY SMTT(30), <2>1, <2>2, <2>3, <2>4, <2>5 DEF Workers, Models
  <1>10. ASSUME NEW m \in Models, CloseChan(m) PROVE Workers'
    <2>1. CASE UNCHANGED wpc
      BY Zenon, <1>10, <2>1 DEF CloseChan, Workers
    <2>2. CASE wpc' = [wpc EXCEPT ![m] = "reset"]
      BY Zenon, <1>7, <1>10, <2>2 DEF CloseChan
    <2> QED BY Zenon, <1>10, <2>1, <2>2 DEF CloseChan
  <1>11. ASSUME NEW m \in Models, ResetChan(m) PROVE Workers'
    BY Zenon, <1>6, <1>11 DEF ResetChan
  <1>12. ASSUME NEW m \in Models, Fault(m) PROVE Workers'
    BY Zenon, <1>7, <1>12, FaultSteps
  <1> QED BY Zenon, <1>1, <1>2, <1>3, <1>4, <1>5, <1>8, <1>9, <1>10, <1>11, <1>12, WorkersAlone DEF Worker
\* The steps that change nothing an orphan could come from.
LEMMA AccountedAlone ==
    ASSUME [Next]_vars
    PROVE  \/ UNCHANGED known /\ UNCHANGED <<model, retry>> /\ queued \subseteq queued'
           \/ \E m \in Models : DeleteModels(m) \/ IngestSave(m) \/ FullSyncSave(m) \/ Retry(m)
           \/ \E m \in Models : Worker(m) \/ Fault(m)
  <1> DEFINE P == UNCHANGED known /\ UNCHANGED <<model, retry>> /\ queued \subseteq queued'
  <1>1. EditConfigMap => P
    BY Zenon DEF EditConfigMap, wvars, known
  <1>2. UpdateFunc(TRUE) \/ UpdateFunc(FALSE) => P
    BY Zenon DEF UpdateFunc, wvars, known
  <1>3. SetDeleteSyncChannel \/ Select \/ ReportDone \/ ReportTimeout \/ QuickSync => P
    BY Zenon DEF SetDeleteSyncChannel, Select, ReportDone, ReportTimeout, Answer, QuickSync,
       wvars, known
  <1>4. \A m \in Models : IngestCheck(m) => P
    BY Zenon DEF IngestCheck, wvars, known
  <1>5. FullSyncK8s \/ FullSyncCheck \/ PublishAll => P
    BY Zenon DEF FullSyncK8s, FullSyncCheck, PublishAll, wvars, known
  <1>6. UNCHANGED vars => P
    BY Zenon DEF vars, known
  <1>7. \A r \in late : LateStep(r) => P
    BY Zenon, LateSteps
  <1> HIDE DEF P
  <1> QED BY Zenon, <1>1, <1>2, <1>3, <1>4, <1>5, <1>6, <1>7 DEF Next, Handler, SyncStep, P

\* A virtual service without a model stays within somebody's sight.
LEMMA NextAccounted ==
    ASSUME StoreTypes, WorkerTypes, Workers, Accounted, [Next]_vars PROVE Accounted'
  <1> USE ChildDistinct
  <1>1. CASE UNCHANGED known /\ UNCHANGED <<model, retry>> /\ queued \subseteq queued'
    BY Zenon, <1>1 DEF known, Accounted, Dropped, Deleting
  <1>2. ASSUME NEW m \in Models, DeleteModels(m) PROVE Accounted'
    <2>1. /\ model' = [model EXCEPT ![m] = IF m = Vrf /\ model[m] # "nil" THEN "empty" ELSE "nil"]
          /\ queued' = queued \cup {m} /\ retry' = retry /\ UNCHANGED known
      BY Zenon, <1>2 DEF DeleteModels, wvars, known
    <2> QED BY Zenon, <2>1 DEF known, Accounted, Dropped, Deleting, StoreTypes
  <1>3. ASSUME NEW m \in Models, IngestSave(m) \/ FullSyncSave(m) PROVE Accounted'
    <2>1. /\ model' = [model EXCEPT ![m] = "graph"] /\ queued \subseteq queued' /\ retry' = retry
          /\ UNCHANGED known
      BY Zenon, <1>3 DEF IngestSave, FullSyncSave, wvars, known
    <2> QED BY Zenon, <2>1 DEF known, Accounted, Dropped, Deleting, StoreTypes
  <1>4. ASSUME NEW m \in Models, Retry(m) PROVE Accounted'
    BY Zenon, <1>4 DEF Retry, Rest, Accounted, Dropped, Deleting
  <1>5. ASSUME NEW m \in Models, DequeueNodes(m) PROVE Accounted'
    <2>1. /\ UNCHANGED <<cache, doubt, model, retry>> /\ queued' = queued \ {m}
          /\ \A n \in Models : n # m => wpc'[n] = wpc[n] /\ target'[n] = target[n]
          /\ wpc[m] = "idle"
      BY <1>5 DEF DequeueNodes, Rest, WorkerTypes
    <2>2. CASE m = Vrf
      <3>1. /\ wpc'[m] = IF model[m] \in {"graph", "empty"} /\ (model[m] = "graph") # (Vrf \in cache)
                         THEN "put" ELSE "idle"
            /\ routes' = (model[m] = "graph")
        BY Zenon, <1>5, <2>2 DEF DequeueNodes, WorkerTypes
      <3>2. \A n \in Vs : n # m /\ n \in Models
        BY Zenon, <2>2
      <3>3. model[Vrf] \in {"none", "graph", "nil", "empty"}
        BY Zenon DEF StoreTypes
      <3> QED BY Zenon, <2>1, <2>2, <3>1, <3>2, <3>3 DEF Accounted, Dropped, Deleting
    <2>3. CASE m # Vrf
      <3>1. /\ routes' = routes
            /\ model[m] = "graph" => wpc'[m] \in {"post", "idle"}
            /\ model[m] # "graph" => wpc'[m] = IF m \in cache THEN "delete" ELSE "idle"
        BY SMTT(30), <1>5, <2>3 DEF DequeueNodes, WorkerTypes
      <3> QED BY ZenonT(40), <2>1, <2>3, <3>1 DEF Accounted, Dropped, Deleting
    <2> QED BY Zenon, <2>2, <2>3
  <1>6. ASSUME NEW m \in Models, PostCheck(m) PROVE Accounted'
    <2>1. /\ UNCHANGED <<cache, doubt, model, queued, retry, target, routes>> /\ wpc[m] = "post"
          /\ wpc'[m] \in {"idle", "posting"}
          /\ \A n \in Models : n # m => wpc'[n] = wpc[n]
      BY <1>6 DEF PostCheck, Rest, WorkerTypes
    <2> QED BY Zenon, <2>1 DEF Accounted, Dropped, Deleting, Workers
  <1>7. ASSUME NEW m \in Models, Post(m) PROVE Accounted'
    <2>1. /\ UNCHANGED <<model, queued, retry, routes, doubt>> /\ wpc[m] = "posting"
          /\ cache' = cache \cup {target[m]}
          /\ wpc'[m] \in {"idle", "post"}
          /\ \A n \in Models : n # m => wpc'[n] = wpc[n] /\ target'[n] = target[n]
      BY <1>7 DEF Post, Rest, WorkerTypes
    <2>2. m \in Vs /\ target[m] \notin Models \ {m}
      BY <2>1 DEF Workers, Models
    <2> QED BY <2>1, <2>2 DEF Accounted, Dropped, Deleting
  <1>8. ASSUME NEW m \in Models, VrfPut(m) PROVE Accounted'
    <2>1. m = Vrf /\ cache' = IF routes THEN cache \cup {Vrf} ELSE cache \ {Vrf}
      BY Zenon, <1>8, VrfPutSteps
    <2>2. /\ UNCHANGED <<model, queued, retry, routes, doubt>> /\ wpc[Vrf] = "put" /\ wpc'[Vrf] = "pending"
          /\ \A n \in Models : n # Vrf => wpc'[n] = wpc[n] /\ target'[n] = target[n]
      BY <1>8, <2>1 DEF VrfPut, Rest, WorkerTypes
    <2> QED BY Zenon, <2>1, <2>2 DEF Accounted, Dropped, Deleting
  <1>9. ASSUME NEW m \in Models, Continue(m), UNCHANGED <<model, queued, retry, routes, cache, doubt>>,
               wpc[m] \in {"pending", "close", "reset"} \/ (wpc[m] = "delete" /\ target[m] \notin cache)
        PROVE  Accounted'
    <2>1. /\ target'[m] = m /\ wpc'[m] = IF target[m] = m THEN "idle" ELSE "delete"
          /\ \A n \in Models : n # m => wpc'[n] = wpc[n] /\ target'[n] = target[n]
      BY <1>9 DEF Continue, WorkerTypes
    <2>2. m # Vrf /\ wpc[m] = "delete" /\ target[m] = m => m \notin cache
      BY Zenon, <1>9 DEF Workers
    <2>3. target[Vrf] = Vrf /\ wpc[Vrf] # "delete"
      BY Zenon DEF Workers
    <2> QED BY <1>9, <2>1, <2>2, <2>3 DEF Accounted, Dropped, Deleting
  <1>10. ASSUME NEW m \in Models, DeleteNil(m) \/ CheckPending(m) PROVE Accounted'
    <2>1. /\ UNCHANGED <<model, queued, retry, routes, cache, doubt>>
          /\ wpc[m] = "pending" \/ (wpc[m] = "delete" /\ target[m] \notin cache)
          /\ Continue(m) \/ (wpc' = [wpc EXCEPT ![m] = "close"] /\ UNCHANGED target)
      BY Zenon, <1>10 DEF DeleteNil, CheckPending, Rest
    <2>2. CASE wpc' = [wpc EXCEPT ![m] = "close"] /\ UNCHANGED target
      <3>1. wpc'[m] = "close" /\ \A n \in Models : n # m => wpc'[n] = wpc[n]
        BY Zenon, <2>2 DEF WorkerTypes
      <3>2. m # Vrf /\ wpc[m] = "delete" /\ target[m] = m => m \notin cache
        BY Zenon, <2>1 DEF Workers
      <3>3. wpc[Vrf] # "delete"
        BY Zenon DEF Workers
      <3> QED BY Zenon, <2>1, <2>2, <3>1, <3>2, <3>3 DEF Accounted, Dropped, Deleting
    <2> QED BY Zenon, <1>9, <2>1, <2>2
  <1>11. ASSUME NEW m \in Models, DeleteVSOper(m) PROVE Accounted'
    <2>1. /\ UNCHANGED <<model, queued, retry, routes, target, doubt>> /\ wpc[m] = "delete"
          /\ wpc'[m] = "pending" /\ cache' = cache \ {target[m]}
          /\ \A n \in Models : n # m => wpc'[n] = wpc[n]
      BY <1>11 DEF DeleteVSOper, Rest, WorkerTypes
    <2>2. m # Vrf
      BY Zenon, <2>1 DEF Workers
    <2> QED BY Zenon, <2>1, <2>2 DEF Accounted, Dropped, Deleting
  <1>12. ASSUME NEW m \in Models, CloseChan(m) PROVE Accounted'
    <2>1. /\ UNCHANGED <<model, queued, retry, routes, cache, target, doubt>> /\ wpc[m] = "close"
          /\ wpc' = wpc \/ wpc' = [wpc EXCEPT ![m] = "reset"]
      BY Zenon, <1>12 DEF CloseChan, Rest
    <2>2. wpc'[m] \in {"close", "reset"} /\ \A n \in Models : n # m => wpc'[n] = wpc[n]
      BY ZenonT(40), <2>1 DEF WorkerTypes
    <2> QED BY Zenon, <2>1, <2>2 DEF Accounted, Dropped, Deleting
  <1>13. ASSUME NEW m \in Models, ResetChan(m) PROVE Accounted'
    BY Zenon, <1>9, <1>13 DEF ResetChan, Rest
  <1>14. ASSUME NEW m \in Models, Fault(m) PROVE Accounted'
    <2>1. /\ UNCHANGED <<model, queued, routes, cache, target>> /\ doubt \subseteq doubt'
          /\ wpc'[m] = "idle" /\ \A n \in Models : n # m => wpc'[n] = wpc[n]
      BY <1>14, FaultSteps DEF WorkerTypes
    <2>2. CASE retry' = retry \cup {m}
      BY Zenon, <2>1, <2>2 DEF Accounted, Dropped, Deleting
    <2>3. CASE retry' = retry /\ wpc[m] = "put" /\ Dropped'
      <3>1. m = Vrf
        BY Zenon, <2>3 DEF Workers, Models
      <3> QED BY Zenon, <2>1, <2>3, <3>1 DEF Accounted, Deleting
    <2> QED BY Zenon, <1>14, <2>2, <2>3, FaultSteps
  <1>15. ASSUME NEW m \in Models, Conflict(m) PROVE Accounted'
    <2>1. /\ UNCHANGED <<model, queued, routes, target, doubt>> /\ retry' = retry \cup {m}
          /\ cache' = cache \cup {target[m]} /\ wpc[m] = "posting"
          /\ wpc'[m] = "idle" /\ \A n \in Models : n # m => wpc'[n] = wpc[n]
      BY ZenonT(40), <1>15 DEF Conflict, Rest, WorkerTypes
    <2>2. m \in Vs /\ target[m] \notin Models \ {m}
      BY <2>1 DEF Workers, Models
    <2> QED BY <2>1, <2>2 DEF Accounted, Dropped, Deleting
  <1> QED BY Zenon, <1>1, <1>2, <1>3, <1>4, <1>5, <1>6, <1>7, <1>8, <1>10, <1>11, <1>12, <1>13, <1>14,
             <1>15, AccountedAlone DEF Worker

\* The steps of the handler and of the goroutines that build models.
LEMMA BuildersRestore ==
    ASSUME HandlerTypes, StoreTypes, WorkerTypes, Workers, Restoring,
           \/ EditConfigMap \/ Handler \/ SyncStep
           \/ \E m \in Models : IngestCheck(m) \/ IngestSave(m)
    PROVE  Restoring'
  <1> USE ChildDistinct
  <1>1. CASE EditConfigMap
    BY Zenon, <1>1 DEF EditConfigMap, cvars, wvars, svars, Restoring, Restored, Dropped, Cached, Deleting
  <1>2. ASSUME NEW valid \in BOOLEAN, UpdateFunc(valid) PROVE Restoring'
    <2>1. /\ disableSync' \/ hpc' = "sync"
          /\ hpc' \in {"delete", "chan", "select", "wait"} => disableSync'
      BY Zenon, <1>2 DEF UpdateFunc
    <2>2. UNCHANGED <<wpc, model, queued, spc, stodo, routes, ingest>>
      BY Zenon, <1>2 DEF UpdateFunc, wvars, svars
    <2> QED BY Zenon, <2>1, <2>2 DEF Restoring, Deleting
  <1>3. ASSUME NEW m \in Models, DeleteModels(m) PROVE Restoring'
    <2>1. /\ hpc = "delete" /\ hpc' \in {"delete", "chan"} /\ disableSync' = disableSync
          /\ UNCHANGED <<wpc, spc, stodo, routes, ingest>> /\ queued \subseteq queued'
          /\ model'[m] # "graph" /\ \A n \in Models : n # m => model'[n] = model[n]
      BY Zenon, <1>3 DEF DeleteModels, cvars, wvars, svars, StoreTypes
    <2> QED BY Zenon, <2>1 DEF Restoring, Deleting
  <1>4. CASE SetDeleteSyncChannel \/ Select \/ ReportDone \/ ReportTimeout
    <2>1. /\ hpc \in {"chan", "select", "wait"} /\ disableSync' = disableSync
          /\ UNCHANGED <<wpc, model, queued, spc, stodo, routes, ingest>>
      BY Zenon, <1>4 DEF SetDeleteSyncChannel, Select, ReportDone, ReportTimeout, Answer,
         cvars, wvars, svars
    <2> QED BY Zenon, <2>1 DEF Restoring, Deleting
  <1>5. CASE QuickSync
    <2>1. quick' \/ panicked'
      BY Zenon, <1>5 DEF QuickSync
    <2>2. hpc' = "idle" /\ UNCHANGED <<wpc, model, queued, spc, stodo, routes, ingest>>
      BY Zenon, <1>5 DEF QuickSync, wvars
    <2> QED BY Zenon, <2>1, <2>2 DEF Restoring, Deleting
  <1>6. ASSUME NEW m \in Models, IngestCheck(m) PROVE Restoring'
    BY Zenon, <1>6 DEF IngestCheck, hvars, cvars, wvars, svars, Restoring, Restored, Dropped, Cached, Deleting
  <1>7. ASSUME NEW m \in Models, IngestSave(m) PROVE Restoring'
    <2>1. /\ m \in ingest /\ ingest' = {} /\ m \in queued' /\ queued \subseteq queued'
          /\ model'[m] = "graph" /\ \A n \in Models : n # m => model'[n] = model[n]
          /\ UNCHANGED <<k8s, retry, panicked, hpc, disableSync, quick, spc, stodo>>
          /\ UNCHANGED <<wpc, routes, cache, doubt>>
      BY <1>7 DEF IngestSave, hvars, cvars, wvars, svars, StoreTypes
    <2>2. ASSUME NEW n \in Models, Restored(n) PROVE Restored(n)'
      <3>1. n # m => n \notin ingest
        BY Zenon, <2>1 DEF Restoring
      <3> QED BY Zenon, <2>1, <2>2, <3>1 DEF Restored, Dropped, Cached
    <2> QED BY Zenon, <2>1, <2>2 DEF Restoring, Deleting, StoreTypes
  <1>8. CASE FullSyncK8s
    <2>1. /\ quick /\ spc = "idle"
          /\ disableSync' = disableSync /\ hpc' = hpc /\ k8s' = k8s
          /\ UNCHANGED <<wpc, model, queued, routes, ingest>>
          /\ disableSync => UNCHANGED <<spc, stodo>>
          /\ ~disableSync => spc' = "build" /\ stodo' = k8s
      BY Zenon, <1>8 DEF FullSyncK8s, hvars, cvars, wvars
    <2>2. \A m \in k8s : ~disableSync => Restored(m)'
      BY Zenon, <2>1 DEF Restored, Dropped
    <2> QED BY Zenon, <2>1, <2>2 DEF Restoring, Deleting
  <1>9. CASE FullSyncCheck
    <2>1. /\ spc = "build" /\ spc' \in {"build", "save"}
          /\ UNCHANGED <<k8s, model, queued, retry, ingest, panicked, quick, hpc, disableSync>>
          /\ UNCHANGED <<wpc, routes, cache, doubt>>
          /\ ~disableSync => stodo' = stodo
      BY Zenon, <1>9 DEF FullSyncCheck, hvars, cvars, wvars
    <2>2. ASSUME NEW m \in k8s, ~disableSync, Restored(m) PROVE Restored(m)'
      BY <2>1, <2>2 DEF Restored, Dropped, Cached
    <2> QED BY Zenon, <2>1, <2>2 DEF Restoring, Deleting
  <1>10. ASSUME NEW m \in Models, FullSyncSave(m) PROVE Restoring'
    <2>1. /\ spc = "save" /\ spc' = "build" /\ queued \subseteq queued' /\ (m = Vrf => m \in queued')
          /\ model'[m] = "graph" /\ \A n \in Models : n # m => model'[n] = model[n]
          /\ UNCHANGED <<k8s, retry, panicked, hpc, disableSync, quick, ingest>>
          /\ UNCHANGED <<wpc, routes, cache, doubt>> /\ stodo' = stodo \ {m}
      BY Zenon, <1>10 DEF FullSyncSave, hvars, cvars, wvars, StoreTypes
    <2>2. ASSUME NEW n \in Models, Restored(n) PROVE Restored(n)'
      BY Zenon, <2>1, <2>2 DEF Restored, Dropped, Cached, Models
    <2> QED BY Zenon, <2>1, <2>2 DEF Restoring, Deleting, StoreTypes
  <1>11. CASE PublishAll
    <2>1. /\ spc' = "idle" /\ queued \subseteq queued' /\ stodo = {} /\ stodo' = {}
          /\ \A m \in Vs : model[m] # "none" => m \in queued'
          /\ UNCHANGED <<k8s, model, retry, panicked, hpc, disableSync, quick, ingest>>
          /\ UNCHANGED <<wpc, routes, cache, doubt>>
      BY Zenon, <1>11 DEF PublishAll, hvars, cvars, wvars
    <2>2. ASSUME NEW n \in Models, Restored(n) PROVE Restored(n)'
      BY Zenon, <2>1, <2>2 DEF Restored, Dropped, Cached
    <2> QED BY Zenon, <2>1, <2>2 DEF Restoring, Deleting, StoreTypes
  <1> QED BY Zenon, <1>1, <1>2, <1>3, <1>4, <1>5, <1>6, <1>7, <1>8, <1>9, <1>10, <1>11
          DEF Handler, SyncStep

\* The steps of the workers.
LEMMA WorkersRestore ==
    ASSUME StoreTypes, WorkerTypes, Workers, Restoring,
           NEW m \in Models, Worker(m) \/ Fault(m) \/ Retry(m)
    PROVE  Restoring'
  <1> USE ChildDistinct
  <1>0. UNCHANGED <<k8s, model, ingest, hpc, disableSync, quick, spc, stodo>>
    BY Zenon, FaultSteps DEF Worker, DequeueNodes, PostCheck, Post, Conflict, VrfPut, DeleteNil,
       DeleteVSOper, CheckPending, CloseChan, ResetChan, Retry, Rest, hvars, cvars, svars
  <1>1. ASSUME \A n \in Models : Restored(n) => Restored(n)',
               \A n \in Vs : Deleting(n)' /\ model[n] = "graph" => n \in queued' \/ spc # "idle",
               (wpc'[Vrf] = "put" /\ ~routes' /\ model[Vrf] = "graph") => Vrf \in queued',
               panicked => panicked'
        PROVE  Restoring'
    BY Zenon, <1>0, <1>1 DEF Restoring, StoreTypes
  <1>2. CASE DequeueNodes(m)
    <2>1. /\ UNCHANGED <<cache, doubt, retry, panicked>> /\ queued' = queued \ {m} /\ wpc[m] = "idle"
          /\ \A n \in Models : n # m => wpc'[n] = wpc[n]
          /\ m # Vrf => routes' = routes
      BY Zenon, <1>2 DEF DequeueNodes, Rest, WorkerTypes
    <2>2. m = Vrf => /\ routes' = (model[m] = "graph")
                     /\ model[m] = "graph" /\ Vrf \notin cache => wpc'[m] = "put"
                     /\ wpc'[m] \in {"put", "idle"}
      BY Zenon, <1>2 DEF DequeueNodes, WorkerTypes
    <2>3. m # Vrf /\ model[m] = "graph" => /\ wpc'[m] \in {"post", "idle"}
                                            /\ (Cached(m) \/ wpc'[m] = "post")
      <3> SUFFICES ASSUME m # Vrf, model[m] = "graph"
                   PROVE  wpc'[m] \in {"post", "idle"} /\ (Cached(m) \/ wpc'[m] = "post")
        OBVIOUS
      <3> DEFINE missing == ({m} \cup {c \in Children : c[1] = m}) \ cache
      <3>1. wpc'[m] = IF missing = {} THEN "idle" ELSE "post"
        BY <1>2 DEF DequeueNodes, WorkerTypes
      <3>2. missing = {} => m \in cache /\ (m \in HasChild => Child(m) \in cache)
        OBVIOUS
      <3> HIDE DEF missing
      <3> QED BY Zenon, <3>1, <3>2 DEF Cached, Workers
    <2>4. m # Vrf => m \in Vs
      BY Zenon DEF Models
    <2>5. Restored(m) => Restored(m)'
      BY Zenon, <1>0, <2>1, <2>2, <2>3, <2>4 DEF Restored, Dropped, Cached, Models
    <2>6. \A n \in Models : n # m /\ Restored(n) => Restored(n)'
      BY Zenon, <1>0, <2>1 DEF Restored, Dropped, Cached
    <2>7. \A n \in Vs : Deleting(n)' /\ model[n] = "graph" => n \in queued' \/ spc # "idle"
      BY Zenon, <2>1, <2>2, <2>3 DEF Restoring, Deleting
    <2>8. (wpc'[Vrf] = "put" /\ ~routes' /\ model[Vrf] = "graph") => Vrf \in queued'
      <3>1. CASE m = Vrf
        BY Zenon, <2>2, <3>1
      <3>2. CASE m # Vrf
        BY <2>1, <3>2 DEF Restoring
      <3> QED BY Zenon, <3>1, <3>2
    <2> QED BY Zenon, <1>1, <2>1, <2>5, <2>6, <2>7, <2>8
  <1>3. CASE PostCheck(m)
    <2>1. /\ UNCHANGED <<cache, doubt, retry, panicked, queued, routes>> /\ wpc[m] = "post"
          /\ \A n \in Models : n # m => wpc'[n] = wpc[n]
          /\ wpc'[m] = IF disableSync THEN "idle" ELSE "posting"
      BY <1>3 DEF PostCheck, Rest, WorkerTypes
    <2>2. \A n \in Models : ~disableSync /\ Restored(n) => Restored(n)'
      BY Zenon, <1>0, <2>1 DEF Restored, Dropped, Cached
    <2> QED BY Zenon, <1>0, <2>1, <2>2 DEF Restoring, Deleting, StoreTypes
  <1>4. CASE Post(m)
    <2>1. /\ UNCHANGED <<doubt, retry, panicked, queued, routes>> /\ wpc[m] = "posting"
          /\ cache' = cache \cup {target[m]}
          /\ \A n \in Models : n # m => wpc'[n] = wpc[n]
          /\ wpc'[m] = IF target[m] = m /\ m \in HasChild /\ Child(m) \notin cache
                       THEN "post" ELSE "idle"
      BY SMTT(30), <1>4 DEF Post, Rest, WorkerTypes
    <2>2. m \in Vs /\ (target[m] = m \/ (m \in HasChild /\ target[m] = Child(m) /\ m \in cache))
      BY Zenon, <2>1 DEF Workers, Models
    <2>3. wpc'[m] = "post" \/ Cached(m)'
      BY Zenon, <2>1, <2>2 DEF Cached, Workers
    <2>4. \A n \in Models : Cached(n) => Cached(n)'
      BY Zenon, <2>1 DEF Cached
    <2>5. \A n \in Models : Restored(n) => Restored(n)'
      BY Zenon, <1>0, <2>1, <2>2, <2>3, <2>4 DEF Restored, Dropped
    <2> QED BY Zenon, <1>1, <2>1, <2>5 DEF Restoring, Deleting
  <1>5. CASE VrfPut(m)
    <2>1. m = Vrf /\ cache' = IF routes THEN cache \cup {Vrf} ELSE cache \ {Vrf}
      BY Zenon, <1>5, VrfPutSteps
    <2>2. /\ UNCHANGED <<doubt, retry, panicked, queued, routes>> /\ wpc[Vrf] = "put" /\ wpc'[Vrf] = "pending"
          /\ \A n \in Models : n # Vrf => wpc'[n] = wpc[n]
      BY Zenon, <1>5, <2>1 DEF VrfPut, Rest, WorkerTypes
    <2>3. Restored(Vrf) => Restored(Vrf)'
      BY Zenon, <1>0, <2>1, <2>2 DEF Restored, Dropped, Cached, Restoring
    <2>4. \A n \in Vs : Cached(n) => Cached(n)'
      BY <2>1, <2>2 DEF Cached
    <2>5. \A n \in Vs : Restored(n) => Restored(n)'
      BY Zenon, <1>0, <2>2, <2>4 DEF Restored, Dropped
    <2> QED BY Zenon, <1>1, <2>2, <2>3, <2>5 DEF Restoring, Deleting, Models
  <1>6. ASSUME UNCHANGED <<cache, doubt, retry, queued, routes>>, Deleting(m), panicked => panicked',
               wpc'[m] \notin {"post", "posting", "put"},
               \A n \in Models : n # m => wpc'[n] = wpc[n]
        PROVE  Restoring'
    <2>1. \A n \in Models : Restored(n) => Restored(n)'
      BY Zenon, <1>0, <1>6 DEF Restored, Dropped, Cached, Deleting
    <2>2. \A n \in Vs : Deleting(n)' => Deleting(n)
      BY Zenon, <1>6 DEF Deleting
    <2> QED BY Zenon, <1>1, <1>6, <2>1, <2>2 DEF Restoring
  <1>7. CASE DeleteNil(m) \/ CheckPending(m) \/ ResetChan(m) \/ CloseChan(m)
    <2>1. /\ UNCHANGED <<cache, doubt, retry, queued, routes>> /\ Deleting(m)
          /\ panicked => panicked'
      BY Zenon, <1>7 DEF DeleteNil, CheckPending, ResetChan, CloseChan, Rest, Deleting
    <2>2. /\ wpc'[m] \notin {"post", "posting", "put"}
          /\ \A n \in Models : n # m => wpc'[n] = wpc[n]
      BY SMTT(30), <1>7 DEF DeleteNil, CheckPending, ResetChan, CloseChan, Continue, WorkerTypes
    <2> QED BY Zenon, <1>6, <2>1, <2>2
  <1>8. CASE DeleteVSOper(m)
    <2>1. /\ UNCHANGED <<doubt, retry, panicked, queued, routes>> /\ wpc[m] = "delete"
          /\ wpc'[m] = "pending" /\ cache' = cache \ {target[m]}
          /\ \A n \in Models : n # m => wpc'[n] = wpc[n]
      BY SMTT(30), <1>8 DEF DeleteVSOper, Rest, WorkerTypes
    <2>2. m \in Vs /\ (target[m] = m \/ (m \in HasChild /\ target[m] = Child(m)))
      BY Zenon, <2>1 DEF Workers, Models
    <2>3. \A n \in Models : n # m => n # target[m] /\ (n \in HasChild => Child(n) # target[m])
      BY <2>2
    <2>4. \A n \in Models : n # m /\ Cached(n) => Cached(n)'
      BY Zenon, <2>1, <2>3 DEF Cached
    <2>5. \A n \in Models : n # m /\ Restored(n) => Restored(n)'
      BY Zenon, <1>0, <2>1, <2>4 DEF Restored, Dropped
    <2>6. Restored(m) => Restored(m)'
      BY Zenon, <1>0, <2>1, <2>2 DEF Restored, Dropped, Restoring, Deleting
    <2> QED BY Zenon, <1>1, <2>1, <2>5, <2>6 DEF Restoring, Deleting
  <1>9. CASE Fault(m)
    <2>1. /\ UNCHANGED <<cache, panicked, queued, routes>> /\ wpc'[m] = "idle"
          /\ \A n \in Models : n # m => wpc'[n] = wpc[n]
      BY <1>9, FaultSteps DEF WorkerTypes
    <2>2. /\ doubt \subseteq doubt'
          /\ retry' = retry \cup {m} \/ (retry' = retry /\ m = Vrf /\ Dropped')
      BY Zenon, <1>9, FaultSteps DEF Workers, Models
    <2>3. \A n \in Models : Restored(n) => Restored(n)'
      BY Zenon, <1>0, <2>1, <2>2 DEF Restored, Dropped, Cached
    <2> QED BY Zenon, <1>1, <2>1, <2>3 DEF Restoring, Deleting
  <1>11. CASE Conflict(m)
    <2>1. /\ UNCHANGED <<doubt, panicked, queued, routes>> /\ wpc'[m] = "idle"
          /\ cache \subseteq cache' /\ retry' = retry \cup {m}
          /\ \A n \in Models : n # m => wpc'[n] = wpc[n]
      BY ZenonT(40), <1>11 DEF Conflict, Rest, WorkerTypes
    <2>2. \A n \in Models : Restored(n) => Restored(n)'
      BY Zenon, <1>0, <2>1 DEF Restored, Dropped, Cached
    <2> QED BY Zenon, <1>1, <2>1, <2>2 DEF Restoring, Deleting
  <1>10. CASE Retry(m)
    <2>1. /\ UNCHANGED <<cache, doubt, panicked, wpc, routes>>
          /\ retry' = retry \ {m} /\ queued' = queued \cup {m}
      BY Zenon, <1>10 DEF Retry, Rest
    <2>2. \A n \in Models : Restored(n) => Restored(n)'
      BY Zenon, <1>0, <2>1 DEF Restored, Dropped, Cached
    <2> QED BY Zenon, <1>1, <2>1, <2>2 DEF Restoring, Deleting
  <1> QED BY Zenon, <1>2, <1>3, <1>4, <1>5, <1>7, <1>8, <1>9, <1>10, <1>11 DEF Worker

\* Whatever happens, what Kubernetes calls for is there or on its way.
LEMMA NextRestoring ==
    ASSUME HandlerTypes, StoreTypes, WorkerTypes, Workers, Restoring, [Next]_vars
    PROVE  Restoring'
  <1>1. CASE UNCHANGED vars
    BY Zenon, <1>1 DEF vars, Restoring, Restored, Dropped, Cached, Deleting
  <1>2. ASSUME NEW r \in late, LateStep(r) PROVE Restoring'
    <2>1. /\ UNCHANGED <<wpc, target, routes, cache, doubt, spc, stodo, quick, hpc, disableSync>>
          /\ UNCHANGED <<k8s, model, ingest, queued, retry, panicked>>
      BY Zenon, <1>2, LateSteps DEF known, hvars, cvars, svars
    <2> QED BY Zenon, <2>1 DEF Restoring, Restored, Dropped, Cached, Deleting
  <1> QED BY Zenon, <1>1, <1>2, BuildersRestore, WorkersRestore DEF Next

\* A channel is made for an edit, closed once and forgotten by the worker that closed it.
LEMMA NextChannels ==
    ASSUME HandlerTypes, WorkerTypes, ChannelTypes, Channels, HandlerTypes', [Next]_vars
    PROVE  ChannelTypes' /\ Channels'
  <1> DEFINE n == Cardinality(closed)
  <1>1. n \in Nat /\ IsFiniteSet(closed)
    <2>1. IsFiniteSet(1 .. MaxToggles)
      BY FS_Interval, DeleteConfigAssumption
    <2>2. IsFiniteSet(closed)
      BY Zenon, <2>1, FS_Subset DEF ChannelTypes
    <2> QED BY Zenon, <2>2, FS_CardinalityType
  <1>2. /\ closed = 1 .. n /\ n + OpenChans + WantedChans + Len(events) <= toggles
        /\ chan # 0 /\ chan \notin closed => chan = n + 1
        /\ toggles \in Nat /\ toggles <= MaxToggles /\ MaxToggles \in Nat
        /\ chan \in Nat /\ wch \in 0 .. MaxToggles /\ Len(events) \in Nat
        /\ OpenChans \in {0, 1} /\ WantedChans \in {0, 1}
    BY DeleteConfigAssumption
    DEF Channels, ChannelTypes, HandlerTypes, NewChan, OpenChans, WantedChans
  <1>3. ASSUME UNCHANGED <<chan, closed>>, wch' \in {wch, chan, 0},
               \A m \in Models : wpc'[m] = "reset" => wpc[m] = "reset",
               WantedChans' + Len(events') + toggles <= WantedChans + Len(events) + toggles',
               Len(events') \in Nat
        PROVE  ChannelTypes' /\ Channels'
    <2>1. OpenChans' = OpenChans /\ WantedChans' \in {0, 1} /\ toggles' \in Nat
      BY <1>3 DEF OpenChans, WantedChans, HandlerTypes
    <2>2. Cardinality(closed') + OpenChans' + WantedChans' + Len(events') <= toggles'
      <3>1. Cardinality(closed') = n
        BY Zenon, <1>3
      <3> HIDE DEF n
      <3> QED BY SMTT(30), <1>1, <1>2, <1>3, <2>1, <3>1
    <2>3. ChannelTypes'
      BY <1>2, <1>3 DEF ChannelTypes
    <2>4. NewChan' = NewChan
      BY Zenon, <1>3 DEF NewChan
    <2> QED BY Zenon, <1>3, <2>2, <2>3, <2>4 DEF Channels
  <1>4. CASE EditConfigMap
    <2>1. /\ UNCHANGED <<chan, closed, wch, wpc, hpc>> /\ toggles' = toggles + 1
          /\ Len(events') = Len(events) + 1
      BY <1>4 DEF EditConfigMap, wvars, HandlerTypes
    <2>2. WantedChans' = WantedChans
      BY Zenon, <2>1 DEF WantedChans
    <2> QED BY <1>2, <1>3, <2>1, <2>2
  <1>5. ASSUME NEW valid \in BOOLEAN, UpdateFunc(valid) PROVE ChannelTypes' /\ Channels'
    <2>1. /\ UNCHANGED <<chan, closed, wch, wpc, toggles>>
          /\ hpc = "idle" /\ events # <<>> /\ events' = Tail(events)
      BY Zenon, <1>5 DEF UpdateFunc, wvars
    <2>2. Len(events') = Len(events) - 1 /\ Len(events') \in Nat
      BY <2>1, HeadTail DEF HandlerTypes
    <2>3. WantedChans = 0 /\ WantedChans' \in {0, 1}
      BY Zenon, <2>1 DEF WantedChans
    <2> QED BY <1>2, <1>3, <2>1, <2>2, <2>3
  <1>6. ASSUME UNCHANGED <<chan, closed, toggles, events, wpc>>, wch' \in {wch, chan, 0},
               WantedChans' <= WantedChans, WantedChans' \in {0, 1}
        PROVE  ChannelTypes' /\ Channels'
    BY <1>2, <1>3, <1>6
  <1>7. ASSUME NEW m \in Models, DeleteModels(m) PROVE ChannelTypes' /\ Channels'
    BY SMTT(30), <1>6, <1>7 DEF DeleteModels, wvars, WantedChans
  <1>8. CASE Select \/ ReportDone \/ ReportTimeout \/ QuickSync
    BY <1>6, <1>8 DEF Select, ReportDone, ReportTimeout, Answer, QuickSync, wvars, WantedChans
  <1>9. CASE SetDeleteSyncChannel
    <2>1. CASE chan # 0
      BY SMTT(30), <1>6, <1>9, <2>1 DEF SetDeleteSyncChannel, wvars, WantedChans
    <2>2. CASE chan = 0
      <3>1. /\ chan' = n + 1 /\ UNCHANGED <<closed, wch, events, toggles, wpc>>
            /\ hpc = "chan" /\ hpc' = "select"
        BY Zenon, <1>9, <2>2 DEF SetDeleteSyncChannel, wvars, NewChan
      <3>2. OpenChans = 0 /\ OpenChans' = 1 /\ WantedChans = 1 /\ WantedChans' = 0
        <4> HIDE DEF n
        <4> QED BY <1>1, <1>2, <2>2, <3>1 DEF OpenChans, WantedChans
      <3>3. Cardinality(closed') = n /\ NewChan' = n + 1
        BY Zenon, <3>1 DEF NewChan
      <3>4. \A m \in Models : wpc[m] # "reset"
        <4> HIDE DEF n
        <4>1. 0 \notin closed
          BY <1>1, <1>2
        <4> QED BY Zenon, <2>2, <4>1 DEF Channels
      <3> HIDE DEF n
      <3> QED BY <1>1, <1>2, <3>1, <3>2, <3>3, <3>4 DEF ChannelTypes, Channels
    <2> QED BY Zenon, <2>1, <2>2
  <1>10. CASE UNCHANGED <<hvars, chan, closed>> /\ \A m \in Models : wpc'[m] = "reset" => wpc[m] = "reset"
    BY SMTT(30), <1>2, <1>3, <1>10 DEF hvars, WantedChans
  <1>11. ASSUME NEW m \in Models, IngestCheck(m) \/ IngestSave(m) \/ FullSyncSave(m)
         PROVE  ChannelTypes' /\ Channels'
    BY Zenon, <1>10, <1>11 DEF IngestCheck, IngestSave, FullSyncSave, wvars
  <1>12. CASE FullSyncK8s \/ FullSyncCheck \/ PublishAll
    BY Zenon, <1>10, <1>12 DEF FullSyncK8s, FullSyncCheck, PublishAll, wvars
  <1>13. ASSUME NEW m \in Models,
                \/ DequeueNodes(m) \/ PostCheck(m) \/ Post(m) \/ Conflict(m) \/ VrfPut(m)
                \/ DeleteVSOper(m) \/ DeleteNil(m) \/ CheckPending(m) \/ Fault(m) \/ Retry(m)
         PROVE  ChannelTypes' /\ Channels'
    <2>1. UNCHANGED <<hvars, chan, closed>>
      BY Zenon, <1>13, FaultSteps DEF DequeueNodes, PostCheck, Post, Conflict, VrfPut, DeleteVSOper,
         DeleteNil, CheckPending, Retry, Rest
    <2>2. \A k \in Models : wpc'[k] = "reset" => wpc[k] = "reset"
      <3>1. Fault(m) => \A k \in Models : wpc'[k] = "reset" => wpc[k] = "reset"
        BY Zenon, FaultSteps DEF WorkerTypes
      <3> QED BY Zenon, <1>13, <3>1 DEF DequeueNodes, PostCheck, Post, Conflict, VrfPut, DeleteVSOper,
              DeleteNil, CheckPending, Continue, Retry, Rest, WorkerTypes
    <2> QED BY Zenon, <1>10, <2>1, <2>2
  <1>14. ASSUME NEW m \in Models, CloseChan(m) PROVE ChannelTypes' /\ Channels'
    <2>1. CASE chan = 0 \/ chan \in closed
      BY Zenon, <1>10, <1>14, <2>1 DEF CloseChan, Rest
    <2>2. CASE chan # 0 /\ chan \notin closed
      <3>1. /\ closed' = closed \cup {n + 1} /\ chan' = n + 1 /\ chan = n + 1
            /\ UNCHANGED <<wch, events, toggles, hpc>> /\ wpc'[m] = "reset"
            /\ \A k \in Models : k # m => wpc'[k] = wpc[k]
        BY Zenon, <1>2, <1>14, <2>2 DEF CloseChan, Rest, hvars, WorkerTypes
      <3>2. \A k \in Models : wpc[k] # "reset"
        BY Zenon, <2>2 DEF Channels
      <3>3. Cardinality(closed') = n + 1
        BY Zenon, <1>1, <2>2, <3>1, FS_AddElement
      <3>4. OpenChans = 1 /\ OpenChans' = 0 /\ WantedChans' = WantedChans
        BY Zenon, <2>2, <3>1 DEF OpenChans, WantedChans
      <3>5. n + 1 <= MaxToggles /\ closed' = 1 .. (n + 1)
        <4> HIDE DEF n
        <4> QED BY <1>1, <1>2, <3>1, <3>4
      <3>6. n + 1 + OpenChans' + WantedChans' + Len(events') <= toggles'
        <4> HIDE DEF n
        <4> QED BY <1>1, <1>2, <3>1, <3>4
      <3> HIDE DEF n
      <3>7. ChannelTypes'
        BY SMTT(30), <1>1, <1>2, <3>1, <3>5 DEF ChannelTypes
      <3> QED BY Zenon, <1>1, <3>1, <3>2, <3>3, <3>5, <3>6, <3>7 DEF Channels
    <2> QED BY Zenon, <2>1, <2>2
  <1>15. ASSUME NEW m \in Models, ResetChan(m) PROVE ChannelTypes' /\ Channels'
    <2>1. /\ chan' = 0 /\ UNCHANGED <<closed, wch, events, toggles, hpc>> /\ wpc[m] = "reset"
          /\ wpc'[m] # "reset" /\ \A k \in Models : k # m => wpc'[k] = wpc[k]
      BY Zenon, <1>15 DEF ResetChan, Continue, Rest, hvars, WorkerTypes
    <2>2. chan \in closed /\ \A k \in Models : wpc'[k] # "reset"
      BY Zenon, <2>1 DEF Channels
    <2>3. OpenChans' = 0 /\ OpenChans = 0 /\ WantedChans' = WantedChans /\ Cardinality(closed') = n
      BY Zenon, <2>1, <2>2 DEF OpenChans, WantedChans
    <2> HIDE DEF n
    <2> QED BY SMTT(30), <1>1, <1>2, <2>1, <2>2, <2>3 DEF ChannelTypes, Channels
  <1>16. CASE UNCHANGED vars
    BY Zenon, <1>10, <1>16 DEF vars, hvars
  <1>17. ASSUME NEW r \in late, LateStep(r) PROVE ChannelTypes' /\ Channels'
    BY Zenon, <1>10, <1>17, LateSteps DEF known
  <1> QED BY ZenonT(40), <1>4, <1>5, <1>7, <1>8, <1>9, <1>11, <1>12, <1>13, <1>14, <1>15, <1>16, <1>17
          DEF Next, Handler, SyncStep, Worker

\* AKO starts with everything in place, or with nothing at all.
LEMMA InitInv == Init => DeleteConfigInv
  <1> SUFFICES ASSUME Init PROVE DeleteConfigInv
    OBVIOUS
  <1> USE ChildDistinct, DeleteConfigAssumption
  <1>1. k8s \subseteq Models /\ (Vrf \in k8s <=> k8s = Models)
    BY Zenon DEF Init
  <1>2. \A m \in Models : /\ m \in cache <=> m \in k8s
                          /\ model[m] = IF m \in k8s THEN "graph" ELSE "none"
                          /\ wpc[m] = "idle" /\ target[m] = m
    BY Zenon DEF Init
  <1>3. \A m \in HasChild : Child(m) \in cache <=> m \in k8s
    BY Zenon, <1>1 DEF Init
  <1>4. HandlerTypes /\ StoreTypes
    <2>1. events \in Seq(BOOLEAN) /\ toggles \in 0 .. MaxToggles
      BY DEF Init
    <2>2. model \in [Models -> {"none", "graph", "nil", "empty"}]
      BY Zenon DEF Init
    <2>3. ingest = {} /\ stodo = {} /\ queued = {} /\ retry = {}
      BY Zenon DEF Init
    <2>4. HandlerTypes
      BY Zenon, <2>1 DEF Init, HandlerTypes
    <2>5. StoreTypes
      BY Zenon, <1>1, <2>2, <2>3 DEF Init, StoreTypes
    <2> QED BY Zenon, <2>4, <2>5
  <1>5. WorkerTypes /\ ControllerTypes
    <2>1. wpc \in [Models -> {"idle", "post", "posting", "put", "delete",
                              "pending", "close", "reset"}]
      BY Zenon DEF Init
    <2>2. target \in [Models -> AllVs \cup {Vrf}]
      BY Zenon DEF Init, AllVs, Models
    <2>3. cache \subseteq AllVs \cup {Vrf} /\ ctrl = cache
      <3>1. cache = k8s \cup {c \in Children : c[1] \in k8s} /\ ctrl = cache
        BY Zenon DEF Init
      <3> QED BY Zenon, <1>1, <3>1 DEF AllVs, Models
    <2>4. routes \in BOOLEAN
      BY Zenon DEF Init
    <2>5. fails \in 0 .. MaxFails /\ late = {} /\ doubt = {}
      BY DEF Init
    <2>6. ControllerTypes
      BY Zenon, <2>3, <2>5 DEF ControllerTypes
    <2> QED BY Zenon, <2>1, <2>2, <2>3, <2>4, <2>6 DEF WorkerTypes
  <1>6. ChannelTypes /\ Channels
    <2>1. Cardinality(closed) = 0 /\ closed = 1 .. 0
      BY FS_EmptySet DEF Init
    <2> QED BY <2>1 DEF Init, ChannelTypes, Channels, OpenChans, WantedChans
  <1>7. Workers
    BY Zenon, <1>2, <1>3 DEF Init, Workers
  <1>8. Accounted
    BY Zenon, <1>2 DEF Init, Accounted, Dropped
  <1>9. Restoring
    BY Zenon, <1>1, <1>2, <1>3 DEF Init, Restoring, Restored, Dropped, Cached, Deleting
  <1>10. Told
    BY Zenon DEF Init, Told
  <1> QED BY Zenon, <1>4, <1>5, <1>6, <1>7, <1>8, <1>9, <1>10, TypeParts DEF DeleteConfigInv

\* Every step keeps the invariant.
LEMMA NextInv == DeleteConfigInv /\ [Next]_vars => DeleteConfigInv'
  <1> SUFFICES ASSUME DeleteConfigInv, [Next]_vars PROVE DeleteConfigInv'
    OBVIOUS
  <1>1. /\ HandlerTypes /\ StoreTypes /\ WorkerTypes /\ ControllerTypes /\ ChannelTypes
        /\ Workers /\ Told /\ Accounted /\ Restoring /\ Channels
    BY Zenon, TypeParts DEF DeleteConfigInv
  <1>2. /\ HandlerTypes' /\ StoreTypes' /\ WorkerTypes' /\ ControllerTypes'
        /\ Workers' /\ Told' /\ Accounted' /\ Restoring'
    BY Zenon, <1>1, NextHandlerTypes, NextStoreTypes, NextWorkerTypes, NextControllerTypes,
       NextWorkers, NextTold, NextAccounted, NextRestoring
  <1>3. ChannelTypes' /\ Channels'
    BY Zenon, <1>1, <1>2, NextChannels
  <1>4. TypeOK'
    BY Zenon, <1>2, <1>3
       DEF TypeOK, HandlerTypes, StoreTypes, WorkerTypes, ControllerTypes, ChannelTypes
  <1> QED BY Zenon, <1>2, <1>3, <1>4 DEF DeleteConfigInv

\* The invariant holds throughout.
THEOREM DeleteConfigIsSafe == Spec => []DeleteConfigInv
  BY InitInv, NextInv, PTL DEF Spec

\* The variables keep their types; in particular there are never more channels than
\* edits of the flag (SetDeleteSyncChannel).
THEOREM TypesHold == Spec => []TypeOK
  <1>1. DeleteConfigInv => TypeOK
    BY Zenon DEF DeleteConfigInv
  <1> QED BY <1>1, DeleteConfigIsSafe, PTL

\* deleteConfig leaves no orphans: whatever flag edits, failing and timed-out batches,
\* conflicts and stale reads of DisableSync happen, for any virtual services and any
\* assignment to workers, what is on the controller once all has settled has a model,
\* unless the answer to its creation was lost and the caches never learned of it, or the
\* update of the static routes was dropped (DeleteModels, DeleteVSOper, vrfCU).
THEOREM NothingIsOrphaned == Spec => []NoOrphans
  <1>1. DeleteConfigInv => NoOrphans
    <2> SUFFICES ASSUME DeleteConfigInv, Quiescent, NEW v \in ctrl
                 PROVE  model[Owner(v)] = "graph" \/ Unnoticed(v)
      BY Zenon DEF NoOrphans
    <2>1. /\ Workers /\ Accounted /\ Told /\ v \in AllVs \cup {Vrf}
          /\ \A m \in Models : wpc[m] = "idle"
      BY Zenon DEF DeleteConfigInv, TypeOK, Quiescent
    <2>2. queued = {} /\ retry = {}
      BY Zenon DEF Quiescent
    <2>3. \A m \in Models : ~Deleting(m)
      BY Zenon, <2>1 DEF Deleting
    <2>4. \A m \in cache \cap Vs : model[m] = "graph"
      BY Zenon, <2>1, <2>2, <2>3, ChildDistinct DEF Accounted
    <2>5. Vrf \in cache => model[Vrf] = "graph" \/ Dropped
      BY Zenon, <2>1, <2>2, ChildDistinct DEF Accounted
    <2>6. CASE v \notin cache
      BY Zenon, <2>1, <2>6 DEF Told, Unnoticed
    <2>7. CASE v \in cache /\ v \in Models
      BY Zenon, <2>4, <2>5, <2>7 DEF Owner, Unnoticed, Dropped, Models
    <2>8. CASE v \in cache /\ v \notin Models
      <3>1. v \in Children
        BY Zenon, <2>1, <2>8, ChildDistinct DEF AllVs
      <3>2. PICK m \in HasChild : v = Child(m) /\ v[1] = m
        BY Zenon, <3>1, ChildDistinct
      <3>3. m \in cache /\ m \in Vs
        BY Zenon, <2>1, <2>8, <3>2, ChildDistinct DEF Workers
      <3> QED BY Zenon, <2>4, <2>8, <3>2, <3>3 DEF Owner
    <2> QED BY Zenon, <2>6, <2>7, <2>8
  <1> QED BY <1>1, DeleteConfigIsSafe, PTL

\* Clearing deleteConfig brings everything back: once all has settled with sync enabled,
\* what Kubernetes calls for is on the controller, unless a deletion was carried out
\* without the caches being told and they still have the virtual service (FullSyncK8s,
\* QuickSync, AviRestOperate).
THEOREM EverythingComesBack == Spec => []Recreated
  <1>1. DeleteConfigInv => Recreated
    <2> SUFFICES ASSUME DeleteConfigInv, Quiescent, ~disableSync,
                        NEW v \in k8s \cup {c \in Children : c[1] \in k8s}
                 PROVE  v \in ctrl \/ Missed(v)
      BY Zenon DEF Recreated
    <2>1. /\ Restoring /\ Told /\ k8s \subseteq Models /\ \A m \in Models : wpc[m] = "idle"
          /\ queued = {} /\ retry = {} /\ ingest = {} /\ spc = "idle" /\ hpc = "idle"
          /\ ~quick /\ ~panicked
      BY Zenon DEF DeleteConfigInv, TypeOK, Quiescent
    <2>2. stodo = {} /\ \A m \in k8s : Restored(m)
      BY Zenon, <2>1 DEF Restoring
    <2>3. \A m \in k8s : Cached(m) \/ (m = Vrf /\ Dropped)
      BY Zenon, <2>1, <2>2, ChildDistinct DEF Restored
    <2>4. v \in cache \/ (v = Vrf /\ Dropped)
      <3>1. CASE v \in k8s
        BY Zenon, <2>3, <3>1 DEF Cached
      <3>2. CASE v \in Children /\ v[1] \in k8s
        <4>1. PICK m \in HasChild : v = Child(m) /\ v[1] = m
          BY Zenon, <3>2, ChildDistinct
        <4> QED BY Zenon, <2>3, <3>2, <4>1, ChildDistinct DEF Cached
      <3> QED BY Zenon, <3>1, <3>2
    <2> QED BY Zenon, <2>1, <2>4 DEF Told, Missed, Dropped
  <1> QED BY <1>1, DeleteConfigIsSafe, PTL

-----------------------------------------------------------------------------
(* One graph worker, and no passthrough children.                          *)

OneWorker == HasChild = {} /\ SyncThread = TRUE /\ \A m, n \in Models : Shard[m] = Shard[n]

\* Without children a worker is at the parent.
LEMMA SingleTargets ==
    ASSUME OneWorker, WorkerTypes, Workers
    PROVE  AllVs = Vs /\ \A m \in Models : target[m] = m
  BY ChildDistinct DEF OneWorker, WorkerTypes, Workers, AllVs, Children, Models

\* The handler and the builders keep the invariant of the single worker.
LEMMA BuildersSingle ==
    ASSUME OneWorker, HandlerTypes, StoreTypes, WorkerTypes, ChannelTypes, Workers, Channels,
           Restoring, SingleInv,
           \/ EditConfigMap \/ Handler \/ SyncStep
           \/ \E m \in Models : IngestCheck(m) \/ IngestSave(m) \/ Retry(m)
    PROVE  SingleInv'
  <1>1. ASSUME UNCHANGED wvars, UNCHANGED <<chan, closed, panicked>>,
               \A m \in Vs : model'[m] = "none" => model[m] = "none",
               hpc' = "wait" /\ wch' \in closed => Clean,
               annotation' = "Done" => disableSync' /\ Clean
        PROVE  SingleInv'
    <2>1. UNCHANGED <<wpc, cache>>
      BY Zenon, <1>1 DEF wvars
    <2>2. Clean => Clean'
      BY Zenon, <2>1 DEF Clean
    <2> QED BY Zenon, <1>1, <2>1, <2>2 DEF SingleInv, OneByOne
  <1>2. ASSUME UNCHANGED wvars, UNCHANGED <<chan, closed, panicked, hpc, wch>>, UNCHANGED cvars,
               \A m \in Vs : model'[m] = "none" => model[m] = "none"
        PROVE  SingleInv'
    BY Zenon, <1>1, <1>2 DEF cvars, SingleInv
  <1>3. CASE EditConfigMap \/ FullSyncK8s \/ FullSyncCheck \/ PublishAll
    BY Zenon, <1>2, <1>3 DEF EditConfigMap, FullSyncK8s, FullSyncCheck, PublishAll, hvars
  <1>4. ASSUME NEW m \in Models, IngestCheck(m) PROVE SingleInv'
    BY Zenon, <1>2, <1>4 DEF IngestCheck, hvars
  <1>5. ASSUME NEW m \in Models, IngestSave(m) \/ FullSyncSave(m) PROVE SingleInv'
    <2>1. \A n \in Models : model'[n] = "none" => model[n] = "none"
      BY Zenon, <1>5 DEF IngestSave, FullSyncSave, StoreTypes
    <2> QED BY Zenon, <1>2, <1>5, <2>1, ChildDistinct DEF IngestSave, FullSyncSave, hvars
  <1>6. ASSUME NEW m \in Models, Retry(m) PROVE SingleInv'
    BY Zenon, <1>2, <1>6 DEF Retry, Rest, hvars, wvars
  <1>7. ASSUME NEW m \in Models, DeleteModels(m) PROVE SingleInv'
    <2>1. \A n \in Models : model'[n] = "none" => model[n] = "none"
      BY Zenon, <1>7 DEF DeleteModels, StoreTypes
    <2>2. hpc' # "wait"
      BY Zenon, <1>7 DEF DeleteModels
    <2> QED BY Zenon, <1>1, <1>7, <2>1, <2>2, ChildDistinct DEF DeleteModels, cvars, SingleInv
  <1>8. ASSUME NEW valid \in BOOLEAN, UpdateFunc(valid) PROVE SingleInv'
    <2>1. /\ UNCHANGED wvars /\ UNCHANGED <<chan, closed, panicked, model>> /\ hpc' # "wait"
      BY Zenon, <1>8 DEF UpdateFunc
    <2>2. CASE ~valid
      <3>1. disableSync' /\ annotation' = annotation
        BY Zenon, <1>8, <2>2 DEF UpdateFunc
      <3> QED BY Zenon, <1>1, <2>1, <3>1 DEF SingleInv
    <2>3. CASE valid /\ ~Head(events)
      <3>1. annotation' = "none"
        BY Zenon, <1>8, <2>3 DEF UpdateFunc
      <3> QED BY Zenon, <1>1, <2>1, <3>1
    <2>4. CASE valid /\ Head(events)
      <3>1. /\ disableSync'
            /\ annotation' = "Done" => \A m \in Models : model[m] = "none"
        BY Zenon, <1>8, <2>4 DEF UpdateFunc
      <3>2. ASSUME annotation' = "Done" PROVE Clean
        <4>1. \A m \in Vs : m \notin cache /\ wpc[m] # "posting"
          BY Zenon, <3>1, <3>2 DEF SingleInv, Models
        <4>2. wpc[Vrf] # "posting"
          BY Zenon DEF Workers
        <4> QED BY Zenon, <4>1, <4>2, SingleTargets DEF Clean, Models
      <3> QED BY Zenon, <1>1, <2>1, <3>1, <3>2
    <2> QED BY Zenon, <2>2, <2>3, <2>4
  <1>9. CASE Select
    <2>1. /\ UNCHANGED wvars /\ UNCHANGED cvars /\ UNCHANGED <<chan, closed, panicked, model>>
          /\ wch' = chan
      BY Zenon, <1>9 DEF Select
    <2>2. chan \in closed => Clean
      BY Zenon, SingleTargets DEF SingleInv, OneByOne, Clean
    <2> QED BY Zenon, <1>1, <2>1, <2>2 DEF cvars, SingleInv
  <1>10. CASE ReportDone \/ ReportTimeout
    <2>1. /\ UNCHANGED wvars /\ UNCHANGED <<chan, closed, panicked, model, disableSync>>
          /\ hpc = "wait" /\ hpc' = "idle"
          /\ annotation' = "Done" => wch \in closed
      BY Zenon, <1>10 DEF ReportDone, ReportTimeout, Answer
    <2>2. disableSync
      BY Zenon, <2>1 DEF Restoring
    <2>3. hpc' # "wait" /\ \A m \in Vs : model'[m] = "none" => model[m] = "none"
      BY Zenon, <2>1
    <2>4. annotation' = "Done" => disableSync' /\ Clean
      BY Zenon, <2>1, <2>2 DEF SingleInv
    <2> QED BY Zenon, <1>1, <2>1, <2>3, <2>4
  <1>11. CASE QuickSync
    <2>1. ~panicked'
      BY Zenon, <1>11 DEF QuickSync, OneWorker
    <2>2. panicked' = panicked
      BY Zenon, <1>11, <2>1 DEF QuickSync, SingleInv, StoreTypes, OneWorker
    <2> QED BY Zenon, <1>1, <1>11, <2>2 DEF QuickSync, cvars, SingleInv
  <1>12. CASE SetDeleteSyncChannel
    <2>1. CASE chan # 0
      BY Zenon, <1>1, <1>12, <2>1 DEF SetDeleteSyncChannel, cvars, SingleInv
    <2>2. CASE chan = 0
      <3>1. /\ chan' = NewChan /\ UNCHANGED <<wpc, cache, closed, panicked, model>>
            /\ UNCHANGED cvars /\ hpc' = "select"
        BY Zenon, <1>12, <2>2 DEF SetDeleteSyncChannel, wvars
      <3>2. NewChan \notin closed /\ NewChan # 0
        <4> DEFINE n == Cardinality(closed)
        <4>1. IsFiniteSet(1 .. MaxToggles)
          BY FS_Interval, DeleteConfigAssumption
        <4>2. n \in Nat
          BY Zenon, <4>1, FS_Subset, FS_CardinalityType DEF ChannelTypes
        <4>3. closed = 1 .. n /\ NewChan = n + 1
          BY Zenon DEF Channels, NewChan
        <4> HIDE DEF n
        <4> QED BY <4>2, <4>3
      <3>3. \A m \in Models : wpc[m] # "close"
        BY Zenon, <2>2 DEF SingleInv
      <3>4. Clean => Clean'
        BY Zenon, <3>1 DEF Clean
      <3>5. OneByOne' /\ chan' \notin closed' /\ hpc' # "wait"
        BY Zenon, <3>1, <3>2 DEF SingleInv, OneByOne
      <3>6. annotation' = "Done" => disableSync' /\ Clean'
        BY Zenon, <3>1, <3>4 DEF SingleInv, cvars
      <3>7. \A m \in Vs : /\ wpc'[m] = "delete" => m \in cache'
                         /\ model'[m] = "none" => m \notin cache' /\ wpc'[m] \notin {"post", "posting"}
        BY Zenon, <3>1 DEF SingleInv
      <3>8. \A m \in Models : wpc'[m] # "close" /\ (wpc'[m] = "reset" => cache' \cap AllVs = {})
        BY Zenon, <3>1, <3>3 DEF SingleInv
      <3> QED BY Zenon, <3>1, <3>5, <3>6, <3>7, <3>8 DEF SingleInv
    <2> QED BY Zenon, <2>1, <2>2
  <1> QED BY Zenon, <1>3, <1>4, <1>5, <1>6, <1>7, <1>8, <1>9, <1>10, <1>11, <1>12 DEF Handler, SyncStep

\* So does the worker.
LEMMA WorkerSingle ==
    ASSUME OneWorker, StoreTypes, WorkerTypes, ChannelTypes, Workers, Restoring, SingleInv,
           NEW m \in Models, Worker(m) \/ Fault(m)
    PROVE  SingleInv'
  <1> USE ChildDistinct
  <1>1. /\ UNCHANGED <<model, hpc, wch, disableSync, annotation>>
        /\ hpc = "wait" => disableSync
    BY Zenon, FaultSteps DEF Worker, DequeueNodes, PostCheck, Post, Conflict, VrfPut, DeleteNil,
       DeleteVSOper, CheckPending, CloseChan, ResetChan, Rest, hvars, cvars, Restoring
  <1>2. AllVs = Vs /\ target[m] = m
    BY Zenon, SingleTargets
  <1>3. \A n \in Models : n # m => wpc[n] = "idle"
    <2>1. wpc[m] # "idle" \/ DequeueNodes(m)
      BY Zenon, FaultSteps DEF Worker, PostCheck, Post, Conflict, VrfPut, DeleteNil, DeleteVSOper,
         CheckPending, CloseChan, ResetChan
    <2> QED BY Zenon, <2>1 DEF DequeueNodes, SingleInv, OneByOne, OneWorker
  <1>4. ASSUME NEW to, wpc' = [wpc EXCEPT ![m] = to] PROVE
               wpc'[m] = to /\ \A n \in Models : n # m => wpc'[n] = "idle"
    BY SMTT(30), <1>3, <1>4 DEF WorkerTypes
  <1>5. ASSUME wpc'[m] \in {"idle", "post", "put", "delete", "pending"},
               \A n \in Models : n # m => wpc'[n] = "idle",
               UNCHANGED <<chan, closed, panicked>>, chan \notin closed,
               cache' \cap Vs \subseteq cache \cap Vs,
               wpc'[m] = "delete" => m \in cache', wpc'[m] = "post" => model[m] # "none"
        PROVE  SingleInv'
    <2>1. Clean => Clean'
      BY Zenon, <1>2, <1>5 DEF Clean
    <2>2. OneByOne'
      BY Zenon, <1>5 DEF OneByOne
    <2>3. \A n \in Models : wpc'[n] \notin {"close", "reset", "posting"}
      BY Zenon, <1>5
    <2>4. \A n \in Vs : model[n] = "none" => n \notin cache' /\ wpc'[n] \notin {"post", "posting"}
      BY Zenon, <1>5 DEF SingleInv
    <2> QED BY Zenon, <1>1, <1>5, <2>1, <2>2, <2>3, <2>4 DEF SingleInv
  <1>6. wpc[m] # "reset" => chan \notin closed
    BY Zenon, <1>3 DEF SingleInv
  <1>7. CASE DequeueNodes(m)
    <2>1. UNCHANGED <<cache, chan, closed, panicked>> /\ wpc[m] = "idle"
      BY Zenon, <1>7 DEF DequeueNodes
    <2>2. \A n \in Models : n # m => wpc'[n] = "idle"
      BY SMTT(30), <1>3, <1>7 DEF DequeueNodes, WorkerTypes
    <2>3. /\ wpc'[m] \in {"idle", "post", "put", "delete", "pending"}
          /\ wpc'[m] = "delete" => m \in cache
          /\ wpc'[m] = "post" => model[m] # "none"
      BY SMTT(30), <1>7 DEF DequeueNodes, WorkerTypes
    <2> QED BY Zenon, <1>2, <1>5, <1>6, <2>1, <2>2, <2>3
  <1>8. CASE PostCheck(m)
    <2>1. /\ UNCHANGED <<cache, chan, closed, panicked>> /\ wpc[m] = "post"
          /\ wpc'[m] = (IF disableSync THEN "idle" ELSE "posting")
          /\ \A n \in Models : n # m => wpc'[n] = "idle"
      BY Zenon, <1>4, <1>8 DEF PostCheck
    <2>2. disableSync /\ Clean => Clean'
      BY Zenon, <2>1 DEF Clean
    <2>3. OneByOne'
      BY Zenon, <2>1 DEF OneByOne
    <2>4. chan \notin closed /\ \A n \in Models : wpc'[n] \in {"idle", "posting"}
      BY Zenon, <1>6, <2>1
    <2>5. \A n \in Vs : model[n] = "none" => n \notin cache' /\ wpc'[n] \notin {"post", "posting"}
      BY Zenon, <2>1 DEF SingleInv
    <2> QED BY Zenon, <1>1, <2>1, <2>2, <2>3, <2>4, <2>5 DEF SingleInv
  <1>9. CASE Post(m) \/ Conflict(m)
    <2>1. /\ UNCHANGED <<chan, closed, panicked>> /\ wpc[m] = "posting" /\ wpc'[m] = "idle"
          /\ cache' = cache \cup {m} /\ \A n \in Models : n # m => wpc'[n] = "idle"
      <3>1. m \notin HasChild
        BY Zenon DEF OneWorker
      <3>2. /\ UNCHANGED <<chan, closed, panicked>> /\ wpc[m] = "posting"
            /\ wpc' = [wpc EXCEPT ![m] = "idle"] /\ cache' = cache \cup {target[m]}
        BY Zenon, <1>9, <3>1 DEF Post, Conflict
      <3> QED BY Zenon, <1>2, <1>4, <3>2
    <2>2. ~Clean /\ chan \notin closed
      BY Zenon, <1>6, <2>1 DEF Clean
    <2>3. \A n \in Models : wpc'[n] = "idle"
      BY Zenon, <2>1
    <2>4. m \in Vs /\ model[m] # "none"
      BY Zenon, <2>1 DEF Workers, Models, SingleInv
    <2>5. OneByOne'
      BY Zenon, <2>3 DEF OneByOne
    <2> QED BY Zenon, <1>1, <2>1, <2>2, <2>3, <2>4, <2>5 DEF SingleInv
  <1>10. CASE VrfPut(m)
    <2>1. cache' = IF routes THEN cache \cup {Vrf} ELSE cache \ {Vrf}
      BY Zenon, <1>10, VrfPutSteps
    <2>2. /\ UNCHANGED <<chan, closed, panicked>> /\ wpc[m] = "put"
          /\ wpc'[m] = "pending" /\ \A n \in Models : n # m => wpc'[n] = "idle"
      BY Zenon, <1>4, <1>10 DEF VrfPut
    <2>3. cache' \cap Vs \subseteq cache \cap Vs
      BY <2>1
    <2> QED BY Zenon, <1>2, <1>5, <1>6, <2>2, <2>3
  <1>11. CASE DeleteNil(m)
    <2>1. wpc[m] = "delete" /\ m \notin cache
      BY Zenon, <1>2, <1>11 DEF DeleteNil
    <2>2. m \in Vs
      BY Zenon, <2>1 DEF Workers, Models
    <2> QED BY Zenon, <2>1, <2>2 DEF SingleInv
  <1>12. CASE DeleteVSOper(m)
    <2>1. /\ UNCHANGED <<chan, closed, panicked>> /\ wpc[m] = "delete"
          /\ wpc'[m] = "pending" /\ \A n \in Models : n # m => wpc'[n] = "idle"
          /\ cache' = cache \ {m}
      BY Zenon, <1>2, <1>4, <1>12 DEF DeleteVSOper
    <2> QED BY Zenon, <1>2, <1>5, <1>6, <2>1
  <1>13. CASE Fault(m)
    <2>1. /\ UNCHANGED <<cache, chan, closed, panicked>> /\ wpc[m] # "reset"
          /\ wpc'[m] = "idle" /\ \A n \in Models : n # m => wpc'[n] = "idle"
      BY Zenon, <1>4, <1>13, FaultSteps
    <2> QED BY Zenon, <1>2, <1>5, <1>6, <2>1
  <1>14. CASE CheckPending(m)
    <2>1. UNCHANGED <<cache, chan, closed, panicked>> /\ wpc[m] = "pending"
      BY Zenon, <1>14 DEF CheckPending
    <2>2. CASE cache \ {Vrf} = {} /\ chan # 0
      <3>1. wpc'[m] = "close" /\ \A n \in Models : n # m => wpc'[n] = "idle"
        BY Zenon, <1>4, <1>14, <2>2 DEF CheckPending
      <3>2. OneByOne' /\ (Clean => Clean')
        BY Zenon, <2>1, <3>1 DEF OneByOne, Clean
      <3>3. \A n \in Models : wpc'[n] \in {"idle", "close"}
        BY Zenon, <3>1
      <3>4. cache \cap AllVs = {}
        BY <1>2, <2>2
      <3> QED BY Zenon, <1>1, <1>6, <2>1, <2>2, <3>2, <3>3, <3>4 DEF SingleInv
    <2>3. CASE ~(cache \ {Vrf} = {} /\ chan # 0)
      <3>1. wpc'[m] = "idle" /\ \A n \in Models : n # m => wpc'[n] = "idle"
        BY Zenon, <1>2, <1>4, <1>14, <2>3 DEF CheckPending, Continue
      <3> QED BY Zenon, <1>2, <1>5, <1>6, <2>1, <3>1
    <2> QED BY Zenon, <2>2, <2>3
  <1>15. CASE CloseChan(m)
    <2>1. wpc[m] = "close" /\ chan # 0 /\ chan \notin closed /\ cache \cap AllVs = {}
      BY Zenon, <1>15 DEF CloseChan, SingleInv
    <2>2. /\ closed' = closed \cup {chan} /\ UNCHANGED <<cache, chan, panicked>>
          /\ wpc'[m] = "reset" /\ \A n \in Models : n # m => wpc'[n] = "idle"
      BY Zenon, <1>4, <1>15, <2>1 DEF CloseChan
    <2>3. OneByOne' /\ Clean'
      BY Zenon, <1>2, <2>1, <2>2 DEF OneByOne, Clean
    <2>4. \A n \in Models : wpc'[n] \in {"idle", "reset"}
      BY Zenon, <2>2
    <2> QED BY Zenon, <1>1, <2>1, <2>2, <2>3, <2>4 DEF SingleInv
  <1>16. CASE ResetChan(m)
    <2>1. /\ chan' = 0 /\ UNCHANGED <<cache, closed, panicked>>
          /\ wpc'[m] = "idle" /\ \A n \in Models : n # m => wpc'[n] = "idle"
      BY Zenon, <1>2, <1>4, <1>16 DEF ResetChan, Continue
    <2>2. OneByOne' /\ (Clean => Clean') /\ \A n \in Models : wpc'[n] = "idle"
      BY Zenon, <2>1 DEF OneByOne, Clean
    <2>3. chan' \notin closed'
      BY <2>1, DeleteConfigAssumption DEF ChannelTypes
    <2> QED BY Zenon, <1>1, <2>1, <2>2, <2>3 DEF SingleInv
  <1> QED BY Zenon, <1>7, <1>8, <1>9, <1>10, <1>11, <1>12, <1>13, <1>14, <1>15, <1>16 DEF Worker

\* With one graph worker, no passthrough child and a sync thread, the channel is closed
\* once and the quick sync request finds its thread, so that nothing panics; and the
\* annotation says Done only when no virtual service is left, but for one whose creation
\* was carried out without the caches being told (DeleteVSOper, vsKeysPending,
\* NotifyDeleteConfig).  With two workers it may be closed twice: see NoPanic.
THEOREM OneWorkerIsSound ==
    ASSUME OneWorker PROVE Spec => [](NoPanic /\ DoneMeansDeleted)
  <1>1. Init => SingleInv
    <2> SUFFICES ASSUME Init PROVE SingleInv
      OBVIOUS
    <2>1. closed = {} /\ ~panicked /\ annotation = "none" /\ hpc = "idle"
      BY Zenon DEF Init
    <2>2. \A m \in Models : wpc[m] = "idle"
      BY Zenon DEF Init
    <2>3. \A m \in Models : model[m] = "none" => m \notin cache
      BY Zenon, ChildDistinct DEF Init
    <2> QED BY Zenon, <2>1, <2>2, <2>3, ChildDistinct DEF SingleInv, OneByOne
  <1>2. DeleteConfigInv /\ SingleInv /\ [Next]_vars => SingleInv'
    <2> SUFFICES ASSUME DeleteConfigInv, SingleInv, [Next]_vars PROVE SingleInv'
      OBVIOUS
    <2>1. /\ HandlerTypes /\ StoreTypes /\ WorkerTypes /\ ChannelTypes
          /\ Workers /\ Restoring /\ Channels
      BY Zenon, TypeParts DEF DeleteConfigInv
    <2>2. CASE UNCHANGED vars
      BY Zenon, <2>2 DEF vars, SingleInv, OneByOne, Clean
    <2>3. ASSUME NEW r \in late, LateStep(r) PROVE SingleInv'
      <3>1. UNCHANGED <<wpc, cache, model, chan, closed, panicked, hpc, wch, disableSync, annotation>>
        BY Zenon, <2>3, LateSteps DEF known, hvars, cvars
      <3> QED BY Zenon, <3>1 DEF SingleInv, OneByOne, Clean
    <2> QED BY Zenon, <2>1, <2>2, <2>3, BuildersSingle, WorkerSingle DEF Next
  <1>3. DeleteConfigInv /\ SingleInv => NoPanic /\ DoneMeansDeleted
    BY Zenon DEF DeleteConfigInv, Told, SingleInv, NoPanic, DoneMeansDeleted, Unnoticed, Clean
  <1> QED BY <1>1, <1>2, <1>3, DeleteConfigIsSafe, PTL DEF Spec
=============================================================================
