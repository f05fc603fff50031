----------------------------- MODULE CrdOperator -----------------------------
(***************************************************************************)
(* The reconcilers of ako-crd-operator for HealthMonitor,                  *)
(* ApplicationProfile and PKIProfile: one custom resource, its copy in the *)
(* informer cache, the namespace that says in which tenant its object      *)
(* belongs, the object on the Avi controller, and the worker that          *)
(* reconciles them one request at a time.  A spec is its generation.       *)
(***************************************************************************)
EXTENDS Naturals, FiniteSets

CONSTANTS
    Kinds,      \* the custom resource is of one of these kinds
    Tenants,    \* tenants of the Avi controller
    None,
    Disturbances,  \* kinds of events, next to edits and deletions, that may happen
    MaxDisturbances, MaxCreates, MaxGen, MaxUuid

VARIABLES
    kind,       \* the kind of the custom resource
    api,        \* the resource in the API server
    view,       \* its copy in the informer cache
    current,    \* the copies, of "view" and "worker", that are of the last version
    tenant,     \* GetTenantInNamespace
    secret,     \* version of the Secret a HealthMonitor refers to; 0: none
    avi,        \* object with the name of the resource, by tenant
    inUse,      \* tenants whose object other objects refer to
    cache,      \* PopulateCache: uuid to "modified after LastUpdated"
    queued,     \* the work queue holds the request
    worker,     \* what the worker does
    creates,    \* how often the resource has been created
    left,       \* how many disturbances may still happen
    happened    \* which have: a history variable

vars == <<kind, api, view, current, tenant, secret, avi, inUse, cache, queued,
          worker, creates, left, happened>>
disturbance == <<left, happened>>
environment == <<kind, tenant, secret, inUse, creates, left, happened>>

Uuids == 1..MaxUuid
Empty == [uuid |-> 0, tenant |-> None, observed |-> 0, dependency |-> 0,
          condition |-> "none", updated |-> "never"]
Absent == [there |-> FALSE, uid |-> 0, deleting |-> FALSE, finalizer |-> FALSE,
           generation |-> 0, status |-> Empty]
Idle == [at |-> "idle", obj |-> Absent, tenant |-> None, uuid |-> 0,
         secret |-> 0, moving |-> FALSE]
NoObject == [uuid |-> 0, spec |-> 0, secret |-> 0, late |-> FALSE]

Init ==
    /\ kind \in Kinds
    /\ api = Absent /\ view = Absent /\ current = {"view"}
    /\ tenant \in Tenants
    /\ secret = 1
    /\ avi = [t \in Tenants |-> NoObject]
    /\ inUse = {}
    /\ cache = [u \in Uuids |-> "absent"]
    /\ queued = FALSE
    /\ worker = Idle
    /\ creates = 0
    /\ left = MaxDisturbances /\ happened = {}

HasSecret == kind = "healthmonitor"
Exists(t) == avi[t].uuid # 0
Used == {avi[t].uuid : t \in Tenants} \cup {api.status.uuid, view.status.uuid,
         worker.obj.status.uuid, worker.uuid} \cup {u \in Uuids : cache[u] # "absent"}

Disturb(d) ==
    /\ d \in Disturbances /\ left > 0
    /\ left' = left - 1
    /\ happened' = happened \cup {d}

-----------------------------------------------------------------------------
(* The API server.                                                         *)

\* Somebody else writes: neither copy is of the last version any more.
Written(new) == api' = new /\ current' = {}

Create ==
    /\ ~api.there /\ creates < MaxCreates
    /\ creates' = creates + 1
    /\ Written([Absent EXCEPT !.there = TRUE, !.uid = creates', !.generation = 1])
    /\ UNCHANGED <<kind, view, tenant, secret, avi, inUse, cache, queued, worker, disturbance>>

Edit ==
    /\ api.there /\ ~api.deleting /\ api.generation < MaxGen
    /\ Written([api EXCEPT !.generation = @ + 1])
    /\ UNCHANGED <<environment, view, avi, cache, queued, worker>>

\* A deletion waits for the finalizer, and counts as a new generation.
Delete ==
    /\ api.there /\ ~api.deleting
    /\ Written(IF api.finalizer THEN [api EXCEPT !.deleting = TRUE, !.generation = @ + 1]
                                ELSE Absent)
    /\ UNCHANGED <<environment, view, avi, cache, queued, worker>>

\* The informer delivers the last version; GenerationChangedPredicate passes on
\* creations, deletions and new generations.
Deliver ==
    /\ "view" \notin current
    /\ view' = api
    /\ current' = current \cup {"view"}
    /\ queued' = (queued \/ view.uid # api.uid \/ view.generation # api.generation)
    /\ UNCHANGED <<environment, api, avi, cache, worker>>

\* Status().Update(obj) is refused unless obj is of the last version.  objects
\* are those the controller holds when LastUpdated is set.
Writable == api.there /\ "worker" \in current
Update(obj, objects) ==
    IF Writable
    THEN /\ api' = [api EXCEPT !.status = obj.status]
         /\ current' = {"worker"}
         /\ avi' = [t \in Tenants |->
                      IF objects[t].uuid # 0 /\ objects[t].uuid = obj.status.uuid
                      THEN [objects[t] EXCEPT !.late = FALSE] ELSE objects[t]]
    ELSE avi' = objects /\ UNCHANGED <<api, current>>

-----------------------------------------------------------------------------
(* Namespace, Secret and the controller change.                            *)

\* CreateGenericNamespaceHandler with TenantAnnotationNamespacePredicate.
NamespaceHandler(t) ==
    /\ t # tenant /\ Disturb("move")
    /\ tenant' = t
    /\ queued' = (queued \/ view.there)
    /\ UNCHANGED <<kind, api, view, current, secret, avi, inUse, cache, worker, creates>>

\* healthMonitorSecretHandler; a new version is one never seen before.
SecretHandler ==
    /\ HasSecret /\ Disturb("secret")
    /\ secret' \in {0, 1 + MaxDisturbances - left'} \ {secret}
    /\ queued' = (queued \/ view.there)
    /\ UNCHANGED <<kind, api, view, current, tenant, avi, inUse, cache, worker, creates>>

\* A pool or a virtual service refers to the object, and ceases to.
Refer(t) ==
    /\ \/ Exists(t) /\ t \notin inUse /\ Disturb("use") /\ inUse' = inUse \cup {t}
       \/ t \in inUse /\ inUse' = inUse \ {t} /\ UNCHANGED disturbance
    /\ UNCHANGED <<kind, api, view, current, tenant, secret, avi, cache, queued, worker, creates>>

\* Somebody changes or deletes the object on the controller.
OutOfBand(t) ==
    /\ Exists(t) /\ Disturb("outOfBand")
    /\ \/ avi' = [avi EXCEPT ![t].spec = 0, ![t].late = TRUE]
       \/ t \notin inUse /\ avi' = [avi EXCEPT ![t] = NoObject]
    /\ UNCHANGED <<kind, api, view, current, tenant, secret, inUse, cache, queued, worker, creates>>

\* The objects of every tenant, with their time of modification.  LastUpdated is
\* kept in whole seconds: a modification in the second of the status seems late.
PopulateCache ==
    {c \in [Uuids -> {"absent", "before", "late"}] :
        \A u \in Uuids :
           LET objects == {avi[t] : t \in {x \in Tenants : avi[x].uuid = u}}
           IN /\ c[u] = "absent" <=> objects = {}
              /\ (\E o \in objects : o.late) => c[u] = "late"}

\* The operator ends and starts again: main calls PopulateCache, and the
\* informer lists the resource.
Restart ==
    /\ Disturb("crash")
    /\ cache' \in PopulateCache
    /\ LET old == [api EXCEPT !.status.updated = IF @ = "never" THEN @ ELSE "before"]
       IN api' = old /\ view' = old
    /\ current' = {"view"}
    /\ queued' = api.there
    /\ worker' = Idle
    /\ UNCHANGED <<kind, tenant, secret, avi, inUse, creates>>

-----------------------------------------------------------------------------
(* Reconcile                                                               *)

\* The worker is done, and asks for another turn if again.
Done(again) == worker' = Idle /\ queued' = (queued \/ again)
Continue(w) == worker' = w /\ queued' = queued
AtStep(s) == worker.at = s
Goto(s) == [worker EXCEPT !.at = s]
ReadOnly == UNCHANGED <<api, view, current, avi, cache>>

\* Reconcile up to ReconcileIfRequired or DeleteObject: the resource is read from
\* the informer cache.
Reconcile ==
    /\ AtStep("idle") /\ queued
    /\ queued' = FALSE
    /\ worker' = [Idle EXCEPT !.obj = view,
                     !.at = IF ~view.there THEN "idle"
                            ELSE IF view.deleting THEN "delete"
                            ELSE IF ~view.finalizer THEN "addFinalizer" ELSE "tenant"]
    /\ current' = IF "view" \in current THEN {"view", "worker"} ELSE {}
    /\ UNCHANGED <<environment, api, view, avi, cache>>

\* Patch carries no version; its answer replaces the worker's copy.
AddFinalizer ==
    /\ AtStep("addFinalizer")
    /\ IF api.there
       THEN /\ api' = [api EXCEPT !.finalizer = TRUE]
            /\ current' = {"worker"}
            /\ Continue([Goto("tenant") EXCEPT !.obj = api'])
       ELSE UNCHANGED <<api, current>> /\ Done(TRUE)
    /\ UNCHANGED <<environment, view, avi, cache>>

RemoveFinalizer ==
    /\ AtStep("removeFinalizer")
    /\ IF api.there
       THEN Written(IF api.deleting THEN Absent ELSE [api EXCEPT !.finalizer = FALSE])
       ELSE UNCHANGED <<api, current>>
    /\ Done(~api.there)
    /\ UNCHANGED <<environment, view, avi, cache>>

-----------------------------------------------------------------------------
(* Requests to the controller and what becomes of their errors.            *)

\* "ok"; "error": nothing done, to be retried (5xx); "lost": done, but the
\* answer is an error to be retried; "refused": nothing done, not to be retried
\* (401, as after a change of the credentials).
Answers == {"ok", "error", "lost", "refused"}
Answer(a) ==
    /\ IF a = "ok" THEN UNCHANGED disturbance ELSE Disturb(a)
    /\ UNCHANGED <<kind, tenant, secret, inUse, creates>>

\* A bug: a condition of no reason the readers of the status know.
FailedForNoReason(obj) == [obj EXCEPT !.status.condition = "", !.status.updated = "now"]

\* SetStatus with ConditionFalse
Failed(obj) == [obj EXCEPT !.status.condition = "failed", !.status.updated = "now"]

\* UpdateStatusWithNonRetryableError
Rejected(obj) ==
    [obj EXCEPT !.status.condition = "rejected", !.status.updated = "now",
                !.status.observed = obj.generation]

\* The status is written.  If that is refused, the request returns to the queue;
\* otherwise IsRetryableError decides whether it does.
IsRetryableError(a) == a # "refused"
Fail(a, objects) ==
    /\ Update(IF IsRetryableError(a) THEN Failed(worker.obj) ELSE Rejected(worker.obj), objects)
    /\ Done(IsRetryableError(a) \/ ~Writable)

\* A request that leaves the controller with these objects: next follows if it
\* is answered.
Request(a, objects, next) ==
    \/ /\ a = "ok"
       /\ avi' = objects /\ Continue(next) /\ UNCHANGED <<api, current>>
    \/ a # "ok" /\ Fail(a, IF a = "lost" THEN objects ELSE avi)

-----------------------------------------------------------------------------
(* DeleteObject                                                            *)

\* A bug: no search by name.
TargetOfStatus == [uuid |-> worker.obj.status.uuid, tenant |-> tenant]

\* The object to delete is the one of the status; without a uuid there,
\* GetObjectUUIDFromAvi looks for the name in the tenant of the status or of
\* the namespace.
Target ==
    LET st == worker.obj.status
    IN IF st.uuid # 0 THEN [uuid |-> st.uuid, tenant |-> st.tenant]
       ELSE LET t == IF st.tenant # None THEN st.tenant ELSE tenant
            IN [uuid |-> avi[t].uuid, tenant |-> t]

\* What Reconcile, or ReconcileIfRequired when the tenant has changed, does next.
AfterDelete ==
    IF worker.moving THEN [Goto("refs") EXCEPT !.obj.status = Empty]
                     ELSE Goto("removeFinalizer")

\* A bug: no other turn is asked for.
SkipForGood ==
    /\ Update(Failed(worker.obj), avi)
    /\ IF worker.moving /\ Writable THEN Continue(AfterDelete) ELSE Done(FALSE)

\* 403: the object is in use.  Reconcile keeps the finalizer and asks for another
\* turn; ReconcileIfRequired goes on, and leaves the object behind.
Skip ==
    /\ Update(Failed(worker.obj), avi)
    /\ IF worker.moving /\ Writable THEN Continue(AfterDelete) ELSE Done(TRUE)

\* Reconcile returns every error of DeleteObject, ReconcileIfRequired those it may
\* retry.  An error of the search by name is not written to the status.
DeleteObject ==
    /\ AtStep("delete")
    /\ LET o == Target
           there == o.uuid # 0 /\ avi[o.tenant].uuid = o.uuid
           gone == [avi EXCEPT ![o.tenant] = NoObject]
       IN \E a \in Answers :
             /\ Answer(a)
             /\ \/ /\ there /\ o.tenant \in inUse
                   /\ a = "ok" /\ Skip
                \/ /\ ~(there /\ o.tenant \in inUse) /\ (a = "ok" \/ worker.moving)
                   /\ Request(a, IF there THEN gone ELSE avi, AfterDelete)
                \/ /\ ~worker.moving /\ a # "ok"
                   /\ IF worker.obj.status.uuid # 0
                      THEN Update(Failed(worker.obj),
                                  IF a = "lost" /\ there /\ o.tenant \notin inUse THEN gone ELSE avi)
                      ELSE UNCHANGED <<api, current, avi>>
                   /\ Done(TRUE)
    /\ UNCHANGED <<view, cache>>

-----------------------------------------------------------------------------
(* ReconcileIfRequired                                                     *)

\* GetTenantInNamespace, and the comparison with the tenant of the status.
TenantUpdate ==
    /\ AtStep("tenant")
    /\ LET old == worker.obj.status.tenant
           move == old # None /\ old # tenant
       IN Continue([worker EXCEPT !.tenant = tenant, !.moving = move,
                                  !.at = IF move THEN "delete" ELSE "refs"])
    /\ ReadOnly
    /\ UNCHANGED environment

\* resolveRefsAndCheckDependencies of a HealthMonitor; the other kinds compare
\* the generation alone.
Dependency == IF HasSecret THEN secret ELSE 0
Changed(obj) ==
    \/ obj.generation # obj.status.observed
    \/ HasSecret /\ obj.status.dependency # Dependency

\* The object has not been modified since the status was written, as far as the
\* cache, filled at the start, knows.
KnownUnmodified(st) ==
    /\ st.updated # "never"
    /\ \/ cache[st.uuid] = "before"
       \/ cache[st.uuid] = "late" /\ st.updated = "now"

\* An unresolved Secret is an error that is not retried, and neither is the
\* attempt to say so in the status.
ResolveRefs ==
    /\ AtStep("refs")
    /\ LET st == worker.obj.status
       IN \/ /\ HasSecret /\ secret = 0
             /\ Update([Rejected(worker.obj) EXCEPT !.status.dependency = 0], avi)
             /\ Done(FALSE)
          \/ /\ ~(HasSecret /\ secret = 0)
             /\ IF st.uuid # 0 /\ ~Changed(worker.obj) /\ KnownUnmodified(st)
                THEN Done(FALSE)
                ELSE Continue([worker EXCEPT !.secret = Dependency,
                                             !.at = IF st.uuid = 0 THEN "post" ELSE "put"])
             /\ UNCHANGED <<api, current, avi>>
    /\ UNCHANGED <<environment, view, cache>>

Stored(t, u) ==
    [avi EXCEPT ![t] = [uuid |-> u, spec |-> worker.obj.generation, secret |-> worker.secret,
                        late |-> TRUE]]

\* AviSessionPut of the uuid in the status; 404 means to create it again.
Put ==
    /\ AtStep("put")
    /\ LET t == worker.tenant
           u == worker.obj.status.uuid
       IN \E a \in Answers :
             /\ Answer(a)
             /\ IF avi[t].uuid = u
                THEN Request(a, Stored(t, u), [Goto("status") EXCEPT !.uuid = u])
                ELSE Request(a, avi, Goto("post"))
    /\ UNCHANGED <<view, cache>>

\* handle...Creation: POST; if the name exists (409), GET the uuid and PUT.
Post ==
    /\ AtStep("post")
    /\ LET t == worker.tenant
       IN \E a \in Answers, u \in Uuids :
             /\ Answer(a)
             /\ IF Exists(t) THEN u = avi[t].uuid
                ELSE u \notin Used /\ \A v \in Uuids : v < u => v \in Used
             /\ Request(a, Stored(t, u), [Goto("status") EXCEPT !.uuid = u])
    /\ UNCHANGED <<view, cache>>

\* A bug: the error of the status update is dropped.
SetStatusUnchecked ==
    /\ AtStep("status")
    /\ Update([worker.obj EXCEPT
                 !.status = [uuid |-> worker.uuid, tenant |-> worker.tenant,
                             observed |-> worker.obj.generation,
                             dependency |-> worker.secret,
                             condition |-> "programmed", updated |-> "now"]], avi)
    /\ Done(FALSE)
    /\ UNCHANGED <<environment, view, cache>>

\* SetStatus with ConditionTrue.  If the copy is an old version the request
\* returns to the queue, and the uuid is forgotten.
SetStatus ==
    /\ AtStep("status")
    /\ Update([worker.obj EXCEPT
                 !.status = [uuid |-> worker.uuid, tenant |-> worker.tenant,
                             observed |-> worker.obj.generation,
                             dependency |-> worker.secret,
                             condition |-> "programmed", updated |-> "now"]], avi)
    /\ Done(~Writable)
    /\ UNCHANGED <<environment, view, cache>>
-----------------------------------------------------------------------------
\* The reconcilers of the three kinds are copies of one another; only that of
\* HealthMonitor has a dependency.
Reconciling == Reconcile \/ AddFinalizer \/ DeleteObject \/ RemoveFinalizer
Programming == TenantUpdate \/ ResolveRefs \/ Put \/ Post \/ SetStatus

HealthMonitorReconciler == kind = "healthmonitor" /\ (Reconciling \/ Programming)
ApplicationProfileReconcile == kind = "applicationprofile" /\ Reconciling
ApplicationProfileReconcileIfRequired == kind = "applicationprofile" /\ Programming
PKIProfileReconcile == kind = "pkiprofile" /\ Reconciling
PKIProfileReconcileIfRequired == kind = "pkiprofile" /\ Programming

Operator ==
    \/ HealthMonitorReconciler
    \/ ApplicationProfileReconcile \/ ApplicationProfileReconcileIfRequired
    \/ PKIProfileReconcile \/ PKIProfileReconcileIfRequired

Environment ==
    \/ Create \/ Edit \/ Delete \/ Restart \/ SecretHandler
    \/ \E t \in Tenants : NamespaceHandler(t) \/ Refer(t) \/ OutOfBand(t)

Next == Operator \/ Deliver \/ Environment
Spec == Init /\ [][Next]_vars

\* The informers deliver, and the work queue serves its requests.
Fairness == WF_vars(Deliver) /\ WF_vars(Operator)

-----------------------------------------------------------------------------
Status ==
    [uuid : 0..MaxUuid, tenant : Tenants \cup {None}, observed : 0..MaxGen + 1,
     dependency : 0..MaxDisturbances + 1,
     condition : {"none", "programmed", "failed", "rejected"},
     updated : {"never", "before", "now"}]
Resource ==
    [there : BOOLEAN, uid : 0..MaxCreates, deleting : BOOLEAN, finalizer : BOOLEAN,
     generation : 0..MaxGen + 1, status : Status]

\* Every variable has its type.
TypeOK ==
    /\ kind \in Kinds /\ {api, view} \subseteq Resource
    /\ current \subseteq {"view", "worker"} /\ tenant \in Tenants
    /\ secret \in 0..MaxDisturbances + 1
    /\ avi \in [Tenants -> [uuid : 0..MaxUuid, spec : 0..MaxGen + 1,
                            secret : 0..MaxDisturbances + 1, late : BOOLEAN]]
    /\ inUse \subseteq Tenants
    /\ cache \in [Uuids -> {"absent", "before", "late"}] /\ queued \in BOOLEAN
    /\ worker \in [at : {"idle", "addFinalizer", "tenant", "delete", "refs", "put",
                         "post", "status", "removeFinalizer"},
                   obj : Resource, tenant : Tenants \cup {None}, uuid : 0..MaxUuid,
                   secret : 0..MaxDisturbances + 1, moving : BOOLEAN]

Resting == worker.at = "idle" /\ ~queued /\ "view" \in current
Untouched == "outOfBand" \notin happened
Unmoved == "move" \notin happened

\* A resource that is gone has left no object on the controller, whatever answers
\* were lost, whatever copies were old and wherever the operator ended, as long as
\* its namespace keeps its tenant and nobody else deletes its object: DeleteObject
\* looks for the name where the status holds no uuid.
NothingLeftBehind ==
    ~api.there /\ Unmoved /\ Untouched => \A t \in Tenants : ~Exists(t)

\* When the operator has come to rest, the status speaks of the last spec, and the
\* object of a resource that says Programmed is the one it names, with that spec
\* and the last version of its Secret, in the tenant of its namespace.  A failure
\* to be retried is the last word only on an object that the operator found when
\* it started.
RestIsFinal ==
    /\ Resting /\ api.there /\ ~api.deleting
    /\ Untouched /\ ~({"move", "crash"} \subseteq happened)
    /\ ~(HasSecret /\ secret = 0)
    =>
       LET st == api.status
       IN /\ st.observed = api.generation
          /\ \/ st.condition = "rejected"
             \/ st.condition = "failed" /\ cache[st.uuid] # "absent"
             \/ /\ st.condition = "programmed" /\ st.tenant = tenant
                /\ avi[tenant].uuid = st.uuid /\ avi[tenant].spec = api.generation
                /\ HasSecret => avi[tenant].secret = secret

\* Both: what the reconcilers leave behind, and what they come to rest on.
CrdSound == NothingLeftBehind /\ RestIsFinal

\* A resource that is being deleted goes, once nothing refers to its object.
EventuallyDeleted == <>[](inUse = {}) => (api.deleting ~> ~api.there)
-----------------------------------------------------------------------------
(* The inductive invariants of CrdOperatorProofs.                          *)

\* The constants are what they stand for.
WellFormed ==
    /\ None \notin Tenants
    /\ MaxDisturbances \in Nat /\ MaxCreates \in Nat /\ MaxUuid \in Nat /\ MaxGen \in Nat \ {0}

\* The worker is on its way to the controller, or to the removal of the finalizer.
Programs ==
    \/ worker.at \in {"addFinalizer", "tenant", "refs", "put", "post", "status"}
    \/ worker.at = "delete" /\ worker.moving
Guarded == Programs /\ worker.at # "addFinalizer"
Removes == worker.at = "removeFinalizer" \/ (worker.at = "delete" /\ ~worker.moving)
Going(x) == x.deleting \/ ~x.finalizer

\* A version of the resource is one the API server may have held.
Version(x) ==
    /\ ~x.there => x = Absent
    /\ x.there => x.uid \in 1..creates /\ x.generation >= 1
    /\ x.deleting => x.finalizer
    /\ ~x.finalizer => x.status = Empty
    /\ ~x.deleting => x.generation <= MaxGen
    /\ x.status.condition = "none" => x.status.observed = 0
    /\ x.status.uuid # 0 => x.status.tenant # None

\* The copies: what is of the last version is equal to it, and the others are older.
CopyInv ==
    /\ Version(api) /\ Version(view) /\ Version(worker.obj)
    /\ left \in 0..MaxDisturbances /\ creates \in 0..MaxCreates
    /\ "view" \in current => view = api
    /\ "worker" \in current /\ worker.at # "idle" =>
          /\ worker.obj = [api EXCEPT !.status = worker.obj.status]
          /\ ~worker.moving => worker.obj = api
    /\ worker.at = "idle" => worker = Idle
    /\ worker.moving => worker.at \in {"delete", "refs", "put", "post", "status"}
    /\ Removes /\ "worker" \in current => "view" \in current
    /\ view.uid = api.uid => view.generation <= api.generation /\ (view.deleting => api.deleting)

\* The finalizer outlives the work on the controller.
FinalizerInv ==
    /\ view.finalizer /\ ~view.deleting => api.finalizer /\ view.uid = api.uid
    /\ view.deleting => Going(api)
    /\ Programs /\ view.deleting => api.deleting
    /\ worker.at = "addFinalizer" => ~worker.obj.finalizer
    /\ Guarded => /\ api.finalizer /\ worker.obj.finalizer /\ worker.obj.uid = api.uid
                  /\ worker.obj.generation <= api.generation
    /\ Removes => /\ Going(api) /\ Going(view) /\ (api.finalizer => view.deleting)
                  /\ worker.obj.deleting
                  /\ worker.obj.uid = api.uid => api.deleting
    /\ worker.at \in {"refs", "put", "post", "status"} \/ (Guarded /\ worker.moving) =>
          worker.tenant \in Tenants

\* While the tenant stays, the objects are in it and the statuses name them, except
\* for those of a resource whose object is deleted already.
AtHome(x) ==
    /\ x.status.tenant \in {None, tenant}
    /\ x.status.uuid # 0 => x.status.tenant = tenant
Named(x) ==
    x.status.uuid # 0 => \/ x.status.uuid = avi[tenant].uuid
                         \/ ~Exists(tenant) /\ x.deleting /\ ~Programs
HomeInv ==
    Unmoved /\ Untouched =>
        /\ ~worker.moving
        /\ AtHome(api) /\ AtHome(view) /\ AtHome(worker.obj)
        /\ worker.at \in {"refs", "put", "post", "status"} => worker.tenant = tenant
        /\ \A t \in Tenants : Exists(t) => t = tenant /\ api.finalizer
        /\ worker.at = "removeFinalizer" => ~Exists(tenant)
        /\ Named(api) /\ Named(view) /\ Named(worker.obj)
        /\ api.status.uuid # 0 => api.status.uuid = avi[tenant].uuid \/ view.deleting

\* What was stored last is what the status will say.
StoredInv ==
    worker.at = "status" /\ Untouched =>
        /\ worker.uuid # 0 /\ avi[worker.tenant].uuid = worker.uuid
        /\ avi[worker.tenant].spec = worker.obj.generation
        /\ avi[worker.tenant].secret = worker.secret
StepInv == worker.at = "put" => worker.obj.status.uuid # 0

\* No event is to come that would ask for another turn.
NoNews == ~queued /\ api.there /\ ~api.deleting /\ view.uid = api.uid /\ view.generation = api.generation
Final ==
    LET st == api.status
    IN /\ st.observed = api.generation
       /\ \/ st.condition = "rejected"
          \/ st.condition = "failed" /\ cache[st.uuid] # "absent"
          \/ /\ st.condition = "programmed" /\ st.tenant = tenant
             /\ avi[tenant].uuid = st.uuid /\ avi[tenant].spec = api.generation
             /\ HasSecret => avi[tenant].secret = secret
NewsInv ==
    NoNews =>
        /\ worker.at # "idle" =>
              worker.obj.uid = api.uid /\ worker.obj.generation = api.generation
        /\ worker.at \in {"refs", "put", "post", "status"} \/ (Guarded /\ worker.moving) =>
              worker.tenant = tenant
        /\ worker.at \in {"put", "post", "status"} /\ HasSecret => worker.secret = secret
        /\ /\ worker.at = "idle" /\ Untouched
           /\ ~({"move", "crash"} \subseteq happened) /\ ~(HasSecret /\ secret = 0)
           => Final

\* The versions of the Secret grow.
Versions ==
    {worker.secret, api.status.dependency, view.status.dependency, worker.obj.status.dependency}
        \cup {avi[t].secret : t \in Tenants}
SecretInv ==
    HasSecret =>
        /\ \A v \in Versions \cup {secret} : v <= 1 + MaxDisturbances - left
        /\ secret # 0 => \A v \in Versions : v <= secret
        /\ worker.at \in {"put", "post", "status"} => \A v \in Versions : v <= worker.secret

\* An older copy of the status knows no more than the last one.
Knows(x) ==
    x.uid = api.uid /\ x.there =>
        /\ x.generation = api.generation /\ x.status.observed = x.generation =>
              api.status.observed = api.generation
        /\ x.status.uuid # 0 => api.status.uuid # 0
        /\ x.status.updated = "now" => api.status.updated = "now"
        /\ HasSecret /\ secret # 0 /\ x.status.dependency = secret => api.status.dependency = secret
Reflected ==
    api.status.condition = "programmed" =>
        /\ api.status.observed <= avi[tenant].spec
        /\ HasSecret => api.status.dependency <= avi[tenant].secret
CachedInv ==
    /\ (\E u \in Uuids : cache[u] # "absent") => "crash" \in happened
    /\ Unmoved /\ Untouched =>
          /\ Knows(view) /\ Knows(worker.obj)
          /\ Exists(tenant) =>
                /\ avi[tenant].spec <= api.generation
                /\ ~avi[tenant].late => Reflected
          /\ Exists(tenant) /\ cache[avi[tenant].uuid] # "absent" =>
                /\ view.finalizer /\ view.uid = api.uid /\ worker.at # "addFinalizer"
                /\ avi[tenant].spec <= view.generation
                /\ Guarded => /\ avi[tenant].spec <= worker.obj.generation
                              /\ worker.obj.generation <= view.generation
                /\ cache[avi[tenant].uuid] = "before" \/ api.status.updated = "now" => Reflected

CrdInv ==
    TypeOK /\ CopyInv /\ FinalizerInv /\ HomeInv /\ StoredInv /\ StepInv /\ NewsInv /\ SecretInv /\ CachedInv
=============================================================================
