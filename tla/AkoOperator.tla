---------------------------- MODULE AkoOperator -----------------------------
(***************************************************************************)
(* The AKO operator (ako-operator): one reconciler that keeps the          *)
(* artifacts of an AKO installation (ConfigMap, ServiceAccount,            *)
(* ClusterRole, ClusterRoleBinding, CRDs, GatewayClass, StatefulSet) equal *)
(* to what the AKOConfig object asks for, and removes them with it.        *)
(*                                                                         *)
(* The reconciler reads through a cache (view) that follows the API server *)
(* (api) with a delay, so a write may meet a newer object or one that is   *)
(* already there.  A reconcile is a sequence of steps, one per artifact;   *)
(* users, the garbage collector and the kubelet act between any two of     *)
(* them.  What the process keeps in memory only is rebootRequired, the     *)
(* list of objects to remove on deletion and the CRD it compares with.     *)
(***************************************************************************)
EXTENDS Integers, Sequences, FiniteSets

CONSTANTS
    Specs,            \* the AKOConfig specs: [rhi, evh, log, image, gw, pvc, ok]
    KindSets,         \* the artifacts to look at, several choices of them
    None,
    Disturbances,     \* what users and failures may do
    MaxDisturbances

VARIABLES
    kinds,            \* the artifacts of this behaviour: a member of KindSets
    ako,              \* the AKOConfig: None or [spec, deleting, state]
    api,              \* the artifacts, per kind
    view,             \* the reconciler's cache of them
    dirty,            \* the kinds with a change the watch has not delivered
    secret,           \* the credentials Secret exists
    queue,            \* a reconcile is requested
    job,              \* the reconcile under way: None or [step, ako, todo]
    rebootRequired, objectList,
    desiredCrd,       \* the global copy of the CRD, at first that of the manifest
    pods,             \* what the AKO pods run with: None or [cfg, image]
    rolling,          \* the StatefulSet controller is to restart the pods
    left, happened

vars == <<kinds, ako, api, view, dirty, secret, queue, job, rebootRequired, objectList,
          desiredCrd, pods, rolling, left, happened>>

Kinds == {"cm", "sa", "cr", "crb", "crd", "gwclass", "sf"}
Owned == {"cm", "sa", "sf"}             \* with a controller reference
Listed == kinds \ {"crd"}               \* what CleanupArtifacts looks up
Unnamed == "unnamed"                    \* the key of an object with an empty name
Steps == <<"cm", "sa", "cr", "crb", "crd", "gwclass", "sf", "ready">>

\* What the Build functions make of a spec: two settings that need a reboot and
\* one that does not; the parts of a pod template, with its volume claim.  The
\* other artifacts do not depend on the spec.
BuildConfigMap(spec) == [rhi |-> spec.rhi, evh |-> spec.evh, log |-> spec.log]
BuildStatefulSet(spec) == [image |-> spec.image, gw |-> spec.gw, pvc |-> spec.pvc]

Desired(spec, k) ==
    CASE k = "cm" -> BuildConfigMap(spec)
      [] k = "sf" -> BuildStatefulSet(spec)
      [] OTHER -> "built"

\* Images, containers and the like are compared; volumes, annotations of the
\* template, affinity and the service account are not.
isSfUpdateRequired(existing, desired) ==
    existing.image # desired.image \/ existing.gw # desired.gw

\* getChecksum: a hash of the sorted values, without their keys and without
\* logLevel and deleteConfig.  The values are 0, 1 and, for a foreign edit, 4,
\* whose sums tell multisets of two apart.
Checksum(cm) == cm.rhi + cm.evh

-----------------------------------------------------------------------------
Spend(kind) == /\ kind \in Disturbances /\ left > 0
               /\ left' = left - 1
               /\ happened' = happened \cup {kind}
SpendAnd(kind, more) == /\ kind \in Disturbances /\ left > 0
                        /\ left' = left - 1
                        /\ happened' = happened \cup {kind} \cup more
Calm == UNCHANGED <<left, happened>>

Init ==
    /\ kinds \in KindSets
    /\ ako \in {[spec |-> spec, deleting |-> FALSE, state |-> ""] : spec \in Specs}
    /\ api = [k \in kinds |-> None]
    /\ view = api
    /\ dirty = {}
    /\ secret \in BOOLEAN
    /\ queue = TRUE
    /\ job = None
    /\ rebootRequired = FALSE
    /\ objectList = {}
    /\ desiredCrd = "built"
    /\ pods = None
    /\ rolling = FALSE
    /\ left = MaxDisturbances
    /\ happened = {}

\* The rest of a reconcile: its next step, its end, or its failure, after
\* which controller-runtime queues it again.
Following(step) ==
    LET at == IF step = "secret" THEN 0 ELSE CHOOSE i \in 1..7 : Steps[i] = step
        here == {i \in (at + 1)..8 : Steps[i] \in kinds \cup {"ready"}}
    IN  Steps[CHOOSE i \in here : \A j \in here : i <= j]
GoOn(event) ==
    /\ job' = [job EXCEPT !.step = Following(@)]
    /\ queue' = (queue \/ event)
    /\ UNCHANGED ako
Fail == /\ job' = None
        /\ queue' = TRUE
        /\ ako' = IF ako = None THEN None ELSE [ako EXCEPT !.state = "Error"]
Listing(k) == objectList' = objectList \cup {k}

Change(k, data) ==
    /\ api' = [api EXCEPT ![k] = data]
    /\ dirty' = dirty \cup {k}

\* Writes an artifact; the cache may or may not have followed when the code
\* reads it back.
Written(k, data, fresh) ==
    /\ api' = [api EXCEPT ![k] = data]
    /\ dirty' = IF fresh THEN dirty \ {k} ELSE dirty \cup {k}
    /\ view' = IF fresh THEN [view EXCEPT ![k] = data] ELSE view

At(step) == job # None /\ job.step = step
Keep == UNCHANGED <<secret, pods, desiredCrd>>

-----------------------------------------------------------------------------
\* Reconcile up to the artifacts.
StartReconcile ==
    /\ queue /\ job = None
    /\ queue' = FALSE
    /\ \/ /\ ako = None
          /\ UNCHANGED <<ako, job, objectList>> /\ Calm
       \/ /\ ako # None /\ ako.deleting
          /\ objectList' = IF objectList = {} THEN {k \in Listed : view[k] # None}
                           ELSE objectList
          /\ job' = [step |-> "cleanup", spec |-> ako.spec, todo |-> objectList']
          /\ UNCHANGED ako /\ Calm
       \/ /\ ako # None /\ ~ako.deleting
          /\ ako' = [ako EXCEPT !.state = IF @ = "Ready" THEN @ ELSE "Processing"]
          /\ job' = [step |-> "secret", spec |-> ako.spec, todo |-> {}]
          /\ UNCHANGED objectList /\ Calm
    /\ Keep /\ UNCHANGED <<api, dirty, view, rebootRequired, rolling>>

\* A missing Secret fails the reconcile without a word in the status.
ReadSecret ==
    /\ At("secret")
    /\ IF secret THEN GoOn(FALSE)
       ELSE job' = None /\ queue' = TRUE /\ UNCHANGED ako
    /\ Calm /\ Keep
    /\ UNCHANGED <<api, dirty, view, rebootRequired, objectList, rolling>>

\* A write that the API server refuses: the object is there already, or it is
\* newer than the cache, or the call fails.
Refused(k) == view[k] # api[k]
WriteFails(k) == (Refused(k) /\ Calm) \/ Spend("error")

\* Mutant: the need for a reboot is that of the last comparison.
SetRebootFromLast(old, new) == rebootRequired' = (Checksum(old) # Checksum(new))

SetIfRebootRequired(old, new) ==
    rebootRequired' = (rebootRequired \/ Checksum(old) # Checksum(new))

createOrUpdateConfigMap ==
    LET new == BuildConfigMap(job.spec) IN
    /\ At("cm")
    /\ IF view["cm"] = None THEN UNCHANGED rebootRequired
       ELSE SetIfRebootRequired(view["cm"], new)
    /\ \/ /\ view["cm"] = new
          /\ Listing("cm") /\ GoOn(FALSE) /\ Calm /\ UNCHANGED <<api, dirty, view>>
       \/ /\ view["cm"] # new
          /\ WriteFails("cm") /\ Fail /\ UNCHANGED <<api, dirty, view, objectList>>
       \/ /\ view["cm"] # new /\ ~Refused("cm")
          /\ \E fresh \in BOOLEAN :
                /\ Written("cm", new, fresh)
                /\ IF fresh \/ view["cm"] # None THEN Listing("cm") /\ GoOn(fresh)
                   ELSE Fail /\ UNCHANGED objectList
          /\ Calm
    /\ Keep /\ UNCHANGED rolling

\* A ServiceAccount is created, never updated; a failure to read it back is
\* only logged, and then the empty object is listed.
createOrUpdateServiceAccount ==
    /\ At("sa")
    /\ \/ /\ view["sa"] # None
          /\ Listing("sa") /\ GoOn(FALSE) /\ Calm /\ UNCHANGED <<api, dirty, view>>
       \/ /\ view["sa"] = None
          /\ WriteFails("sa") /\ Fail /\ UNCHANGED <<api, dirty, view, objectList>>
       \/ /\ view["sa"] = None /\ ~Refused("sa")
          /\ \E fresh \in BOOLEAN :
                /\ Written("sa", "built", fresh)
                /\ IF fresh THEN Listing("sa") ELSE Listing(Unnamed)
                /\ GoOn(fresh)
          /\ Calm
    /\ Keep /\ UNCHANGED <<rebootRequired, rolling>>

\* Mutant: a role that exists is left as it is.
CreateRoleOnce(k) ==
    /\ At(k)
    /\ \/ /\ view[k] # None
          /\ Listing(k) /\ GoOn(FALSE) /\ Calm /\ UNCHANGED <<api, dirty, view>>
       \/ /\ view[k] = None /\ api[k] = None
          /\ Written(k, "built", TRUE) /\ Listing(k) /\ GoOn(TRUE) /\ Calm
    /\ Keep /\ UNCHANGED <<rebootRequired, rolling>>

\* The roles: created or updated, and read back.
CreateOrUpdateRole(k) ==
    /\ At(k)
    /\ \/ /\ view[k] = "built"
          /\ Listing(k) /\ GoOn(FALSE) /\ Calm /\ UNCHANGED <<api, dirty, view>>
       \/ /\ view[k] # "built"
          /\ WriteFails(k) /\ Fail /\ UNCHANGED <<api, dirty, view, objectList>>
       \/ /\ view[k] # "built" /\ ~Refused(k)
          /\ \E fresh \in BOOLEAN :
                /\ Written(k, "built", fresh)
                /\ IF fresh \/ view[k] # None THEN Listing(k) /\ GoOn(fresh)
                   ELSE Fail /\ UNCHANGED objectList
          /\ Calm
    /\ Keep /\ UNCHANGED <<rebootRequired, rolling>>

createOrUpdateClusterRole == CreateOrUpdateRole("cr")
createOrUpdateClusterroleBinding == CreateOrUpdateRole("crb")

\* The CRDs are read from the API server itself and are not listed.  The spec is
\* compared with that of the global copy; the defaults which the API server adds
\* may make them differ when nobody has changed it.
createCRD ==
    \/ /\ api["crd"] = desiredCrd
       /\ GoOn(FALSE) /\ Calm /\ UNCHANGED <<api, dirty, desiredCrd>>
    \/ /\ api["crd"] # None
       /\ IF api["crd"] = desiredCrd THEN UNCHANGED <<api, dirty>> ELSE Change("crd", desiredCrd)
       /\ job' = [job EXCEPT !.step = "crdRead"]
       /\ Calm /\ UNCHANGED <<ako, queue, desiredCrd>>
    \/ /\ api["crd"] = None
       /\ Change("crd", desiredCrd)
       /\ GoOn(FALSE) /\ Calm /\ UNCHANGED desiredCrd
    \/ /\ api["crd"] = None                        \* somebody else creates it first
       /\ Change("crd", "edited")
       /\ \/ desiredCrd' = "edited" /\ SpendAnd("edit", {"adopted"})
          \/ UNCHANGED desiredCrd /\ Spend("edit")
       /\ GoOn(FALSE)

createCRDs ==
    /\ At("crd")
    /\ \/ Spend("error") /\ Fail /\ UNCHANGED <<api, dirty, desiredCrd>>
       \/ createCRD
    /\ UNCHANGED <<secret, pods, view, rebootRequired, objectList, rolling>>

\* After an update the global copy becomes what the API server has by then.
FetchCRD ==
    /\ At("crdRead")
    /\ \/ /\ api["crd"] # None
          /\ desiredCrd' = api["crd"]
          /\ happened' = happened \cup (IF api["crd"] = desiredCrd THEN {} ELSE {"adopted"})
          /\ UNCHANGED left
       \/ api["crd"] = None /\ UNCHANGED desiredCrd /\ Calm
       \/ UNCHANGED desiredCrd /\ Spend("error")
    /\ job' = [job EXCEPT !.step = Following("crd")]
    /\ UNCHANGED <<ako, api, dirty, queue, secret, pods, view, rebootRequired, objectList, rolling>>

\* With the feature gate off, the GatewayClass is deleted, once: a failure to
\* delete it is only logged.
createOrUpdateGatewayClass ==
    LET gw == job.spec.gw IN
    /\ At("gwclass")
    /\ \/ /\ view["gwclass"] # None /\ gw
          /\ Listing("gwclass") /\ GoOn(FALSE) /\ Calm /\ UNCHANGED <<api, dirty, view>>
       \/ /\ view["gwclass"] # None /\ ~gw
          /\ \/ Change("gwclass", None) /\ Calm
             \/ UNCHANGED <<api, dirty>> /\ Spend("error")
          /\ GoOn(FALSE) /\ UNCHANGED <<view, objectList>>
       \/ /\ view["gwclass"] = None /\ ~gw
          /\ GoOn(FALSE) /\ Calm /\ UNCHANGED <<api, dirty, view, objectList>>
       \/ /\ view["gwclass"] = None /\ gw
          /\ WriteFails("gwclass") /\ Fail /\ UNCHANGED <<api, dirty, view, objectList>>
       \/ /\ view["gwclass"] = None /\ gw /\ ~Refused("gwclass")
          /\ \E fresh \in BOOLEAN :
                /\ Written("gwclass", "built", fresh)
                /\ IF fresh THEN Listing("gwclass") ELSE Listing(Unnamed)
                /\ GoOn(fresh)
          /\ Calm
    /\ Keep /\ UNCHANGED <<rebootRequired, rolling>>

\* The pods restart when the template changes.  An update for the sake of a
\* reboot changes nothing but the order of the environment, which is the order
\* of a map: it may be the same.
getEnvVars(sameTemplate) ==
    \/ rolling' = TRUE /\ Calm
    \/ sameTemplate /\ UNCHANGED rolling /\ Spend("sameOrder")

createOrUpdateStatefulSet ==
    LET new == BuildStatefulSet(job.spec)
        write == rebootRequired \/ (view["sf"] # None => isSfUpdateRequired(view["sf"], new))
    IN
    /\ At("sf")
    /\ \/ /\ job.spec.ok /\ ~write
          /\ Listing("sf") /\ GoOn(FALSE) /\ Calm
          /\ UNCHANGED <<api, dirty, view, rebootRequired, rolling>>
       \/ /\ ~job.spec.ok
          /\ Fail /\ Calm /\ UNCHANGED <<api, dirty, view, rebootRequired, objectList, rolling>>
       \/ /\ job.spec.ok /\ write
          /\ WriteFails("sf") /\ Fail
          /\ UNCHANGED <<api, dirty, view, rebootRequired, objectList, rolling>>
       \/ /\ job.spec.ok /\ write /\ ~Refused("sf")
          /\ rebootRequired' = (rebootRequired /\ view["sf"] = None)
          /\ getEnvVars(view["sf"] = new)
          /\ \E fresh \in BOOLEAN :
                /\ Written("sf", new, fresh)
                /\ IF fresh \/ view["sf"] # None THEN Listing("sf") /\ GoOn(fresh)
                   ELSE Fail /\ UNCHANGED objectList
    /\ Keep

\* The end of Reconcile.
PatchReady ==
    /\ At("ready")
    /\ job' = None
    /\ \/ ako # None /\ ako' = [ako EXCEPT !.state = "Ready"] /\ UNCHANGED queue /\ Calm
       \/ ako = None /\ UNCHANGED <<ako, queue>> /\ Calm
       \/ queue' = TRUE /\ UNCHANGED ako /\ Spend("error")
    /\ Keep /\ UNCHANGED <<api, dirty, view, rebootRequired, objectList, rolling>>

-----------------------------------------------------------------------------
\* Mutant: a failed deletion does not keep the finalizer.
DeleteAndForget(k) ==
    /\ At("cleanup") /\ k \in job.todo
    /\ job' = [job EXCEPT !.todo = @ \ {k}]
    /\ \/ Change(k, None) /\ Calm
       \/ UNCHANGED <<api, dirty>> /\ Spend("error")
    /\ Keep /\ UNCHANGED <<ako, view, queue, rebootRequired, objectList, rolling>>

\* CleanupArtifacts: one listed object at a time, in any order.
deleteIfExists(k) ==
    /\ At("cleanup") /\ k \in job.todo
    /\ \/ /\ view[k] = None
          /\ job' = [job EXCEPT !.todo = @ \ {k}] /\ Calm /\ UNCHANGED <<api, dirty, queue>>
       \/ /\ view[k] # None /\ api[k] # None
          /\ Change(k, None)
          /\ job' = [job EXCEPT !.todo = @ \ {k}] /\ Calm /\ UNCHANGED queue
       \/ /\ view[k] # None
          /\ (api[k] = None /\ Calm) \/ Spend("error")
          /\ job' = None /\ queue' = TRUE /\ UNCHANGED <<api, dirty>>
    /\ Keep /\ UNCHANGED <<ako, view, rebootRequired, objectList, rolling>>

\* There is no object with an empty name.
DeleteUnnamed ==
    /\ At("cleanup") /\ Unnamed \in job.todo
    /\ job' = [job EXCEPT !.todo = @ \ {Unnamed}]
    /\ Calm /\ Keep
    /\ UNCHANGED <<ako, api, dirty, queue, view, rebootRequired, objectList, rolling>>

RemoveCRDs ==
    IF "crd" \in kinds /\ api["crd"] # None THEN Change("crd", None)
    ELSE UNCHANGED <<api, dirty>>

\* The CRDs, and then the finalizer: the AKOConfig is gone.
deleteCRDs ==
    /\ At("cleanup") /\ job.todo = {}
    /\ job' = None
    /\ \/ RemoveCRDs /\ ako' = None /\ UNCHANGED queue /\ Calm
       \/ RemoveCRDs /\ UNCHANGED ako /\ queue' = TRUE /\ Spend("error")
       \/ UNCHANGED <<api, dirty, ako>> /\ queue' = TRUE /\ Spend("error")
    /\ Keep /\ UNCHANGED <<view, rebootRequired, objectList, rolling>>

-----------------------------------------------------------------------------
\* The cache follows, and the watch queues a reconcile.
Watch(k) ==
    /\ k \in dirty
    /\ view' = [view EXCEPT ![k] = api[k]]
    /\ dirty' = dirty \ {k}
    /\ queue' = TRUE
    /\ Calm /\ Keep
    /\ UNCHANGED <<ako, api, job, rebootRequired, objectList, rolling>>

\* The StatefulSet controller: pods start with the ConfigMap as it is then.
PodsStart ==
    /\ rolling /\ {"cm", "sf"} \subseteq kinds /\ api["sf"] # None /\ api["cm"] # None
    /\ rolling' = FALSE
    /\ pods' = [cfg |-> [rhi |-> api["cm"].rhi, evh |-> api["cm"].evh],
                image |-> api["sf"].image]
    /\ Calm /\ UNCHANGED <<ako, api, dirty, view, secret, queue, job, rebootRequired, objectList,
                             desiredCrd>>

PodsStop ==
    /\ "sf" \in kinds /\ api["sf"] = None /\ (pods # None \/ rolling)
    /\ pods' = None /\ rolling' = FALSE
    /\ Calm /\ UNCHANGED <<ako, api, dirty, view, secret, queue, job, rebootRequired, objectList,
                             desiredCrd>>

GarbageCollect(k) ==
    /\ ako = None /\ k \in Owned /\ api[k] # None
    /\ Change(k, None)
    /\ Calm /\ Keep
    /\ UNCHANGED <<ako, view, queue, job, rebootRequired, objectList, rolling>>

\* Users and failures.  Swapped: two settings exchange their values, compared with
\* the ConfigMap or with the spec that is being reconciled.
Exchanged(old, new) == old.rhi # new.rhi /\ Checksum(old) = Checksum(new)
Swapped(spec) ==
    \/ "cm" \in kinds /\ api["cm"] # None /\ Exchanged(api["cm"], BuildConfigMap(spec))
    \/ job # None /\ Exchanged(BuildConfigMap(job.spec), BuildConfigMap(spec))

ChangeSpec ==
    /\ ako # None /\ ~ako.deleting
    /\ \E spec \in Specs \ {ako.spec} :
          /\ ako' = [ako EXCEPT !.spec = spec]
          /\ SpendAnd(IF Swapped(spec) THEN "swap" ELSE "spec",
                      IF spec.pvc = ako.spec.pvc THEN {} ELSE {"claim"})
    /\ queue' = TRUE
    /\ Keep
    /\ UNCHANGED <<api, dirty, view, job, rebootRequired, objectList, rolling>>

DeleteAKOConfig ==
    /\ ako # None /\ ~ako.deleting
    /\ ako' = [ako EXCEPT !.deleting = TRUE]
    /\ queue' = TRUE
    /\ Spend("delete") /\ Keep
    /\ UNCHANGED <<api, dirty, view, job, rebootRequired, objectList, rolling>>

EditArtifact(k) ==
    /\ api[k] # None
    /\ \/ Spend("remove") /\ Change(k, None)
       \/ k \in {"cr", "crb", "crd"} /\ Spend("edit") /\ Change(k, "edited")
       \/ k = "cm" /\ Spend("edit") /\ Change(k, [api[k] EXCEPT !.rhi = 4])
       \/ k = "sf" /\ Spend("edit") /\ Change(k, [api[k] EXCEPT !.image = 0])
       \/ k = "sf" /\ SpendAnd("edit", {"claim"}) /\ Change(k, [api[k] EXCEPT !.pvc = 0])
    /\ rolling' = (rolling \/ (k = "sf" /\ api'[k] # None))
    /\ Keep /\ UNCHANGED <<ako, view, queue, job, rebootRequired, objectList>>

ChangeSecret ==
    /\ secret' = ~secret
    /\ Spend("secret")
    /\ UNCHANGED <<ako, api, dirty, view, queue, job, rebootRequired, objectList, desiredCrd,
                   pods, rolling>>

\* The operator dies and starts again: its memory is lost, its cache is read
\* afresh and every AKOConfig is reconciled.
Restart ==
    /\ Spend("crash")
    /\ view' = api /\ dirty' = {}
    /\ job' = None /\ queue' = TRUE
    /\ rebootRequired' = FALSE
    /\ objectList' = {}
    /\ desiredCrd' = "built"
    /\ UNCHANGED <<secret, pods, ako, api, rolling>>

Next ==
    UNCHANGED kinds /\ (
    \/ StartReconcile \/ ReadSecret
    \/ createOrUpdateConfigMap \/ createOrUpdateServiceAccount
    \/ createOrUpdateClusterRole \/ createOrUpdateClusterroleBinding
    \/ createCRDs \/ FetchCRD \/ createOrUpdateGatewayClass \/ createOrUpdateStatefulSet
    \/ PatchReady \/ DeleteUnnamed \/ deleteCRDs
    \/ \E k \in kinds : deleteIfExists(k) \/ Watch(k) \/ GarbageCollect(k) \/ EditArtifact(k)
    \/ PodsStart \/ PodsStop
    \/ ChangeSpec \/ DeleteAKOConfig \/ ChangeSecret \/ Restart)

Spec == Init /\ [][Next]_vars

-----------------------------------------------------------------------------
NoneOf(S) == S \cap happened = {}
AtRest ==
    /\ ~queue /\ job = None /\ dirty = {} /\ ~rolling
    /\ ako = None => \A k \in Owned \cap kinds : api[k] = None
Installed == AtRest /\ ako # None

\* What the variables hold.
AkoConfigs == [spec : Specs, deleting : BOOLEAN, state : {"", "Processing", "Ready", "Error"}]
Jobs == [step : Kinds \cup {"secret", "crdRead", "ready", "cleanup"}, spec : Specs,
         todo : SUBSET (Kinds \cup {Unnamed})]
ConfigMaps == [rhi : {0, 1, 4}, evh : {0, 1}, log : {s.log : s \in Specs}]
StatefulSets == [image : {s.image : s \in Specs} \cup {0}, gw : BOOLEAN,
                 pvc : {s.pvc : s \in Specs} \cup {0}]
Pods == [cfg : [rhi : {0, 1, 4}, evh : {0, 1}], image : {s.image : s \in Specs} \cup {0}]
Artifacts(k) ==
    CASE k = "cm" -> ConfigMaps
      [] k = "sf" -> StatefulSets
      [] k \in {"sa", "gwclass"} -> {"built"}
      [] OTHER -> {"built", "edited"}

\* The constants are what they stand for: settings of two values, artifacts by their
\* kind, and None unlike any object.
WellFormed ==
    /\ \A s \in Specs : s.rhi \in {0, 1} /\ s.evh \in {0, 1} /\ s.gw \in BOOLEAN /\ s.ok \in BOOLEAN
    /\ KindSets \subseteq SUBSET Kinds
    /\ None \notin AkoConfigs \cup Jobs \cup ConfigMaps \cup StatefulSets \cup Pods
    /\ None \notin {"built", "edited"}
    /\ MaxDisturbances \in Nat

Reading == IF "crd" \in kinds THEN {"crdRead"} ELSE {}

\* The state has its type: every artifact is of its kind, a clean-up visits listed
\* objects only.
TypeOK ==
    /\ kinds \in KindSets
    /\ ako \in AkoConfigs \cup {None} /\ job \in Jobs \cup {None}
    /\ api = [k \in kinds |-> api[k]] /\ view = [k \in kinds |-> view[k]]
    /\ \A k \in kinds : api[k] \in Artifacts(k) \cup {None} /\ view[k] \in Artifacts(k) \cup {None}
    /\ dirty \subseteq kinds /\ secret \in BOOLEAN /\ queue \in BOOLEAN
    /\ rebootRequired \in BOOLEAN /\ rolling \in BOOLEAN
    /\ objectList \subseteq Listed \cup {Unnamed}
    /\ job # None => job.todo \subseteq objectList
    /\ job # None => job.step \in kinds \cup {"secret", "ready", "cleanup"} \cup Reading
    /\ desiredCrd \in {"built", "edited"}
    /\ pods \in Pods \cup {None}
    /\ left \in 0..MaxDisturbances

\* When nothing is left to reconcile, every artifact is what the AKOConfig
\* asks for and its state says Ready, whatever was edited, removed or changed
\* and at whatever step of a reconcile the operator died or a call failed.
\* The exceptions are a GatewayClass whose deletion failed, which
\* createOrUpdateGatewayClass only logs; a CRD that somebody changed between
\* the operator's write and its read, which is from then on what the operator
\* wants; and the volume claim of the StatefulSet once it was changed, which
\* isSfUpdateRequired does not look at.
Converged ==
    Installed =>
        /\ ako.state = "Ready"
        /\ \A k \in kinds \ {"gwclass", "crd", "sf"} : api[k] = Desired(ako.spec, k)
        /\ "crd" \in kinds => api["crd"] = IF NoneOf({"adopted"}) THEN "built" ELSE desiredCrd
        /\ "sf" \in kinds => /\ api["sf"] # None
                             /\ api["sf"].image = ako.spec.image /\ api["sf"].gw = ako.spec.gw
                             /\ NoneOf({"claim"}) => api["sf"].pvc = ako.spec.pvc
        /\ "gwclass" \in kinds /\ NoneOf({"error"}) =>
               api["gwclass"] = IF ako.spec.gw THEN "built" ELSE None

\* When nothing is left to reconcile, the pods run with the configuration and
\* the image of the AKOConfig, unless the operator died between the ConfigMap
\* and the StatefulSet (rebootRequired is only in memory), the ConfigMap was
\* removed (its creation asks for no reboot), two settings exchanged their
\* values (the checksum is of the values only) or the environment of the new
\* template came out in the same order as before.
PodsRunConfig ==
    Installed /\ {"cm", "sf"} \subseteq kinds /\ NoneOf({"crash", "remove", "swap", "sameOrder"}) =>
        /\ pods # None
        /\ pods.image = ako.spec.image
        /\ pods.cfg = [rhi |-> ako.spec.rhi, evh |-> ako.spec.evh]

\* Once the AKOConfig is gone, nothing that CleanupArtifacts had listed is
\* left, nor are the CRDs: the finalizer outlives every object it stands for,
\* through failed calls and restarts.  (An object that was removed and created
\* again may be missing in the cache when CleanupArtifacts looks for it; the
\* operator itself removes the GatewayClass when a spec asks for none.)
ListedAreRemoved ==
    AtRest /\ ako = None /\ NoneOf({"remove"}) =>
        \A k \in kinds : \/ api[k] = None
                         \/ k \in Listed \ objectList
                         \/ k = "gwclass" /\ ~NoneOf({"spec", "swap"})

\* The reconciler does its work: the three together.
AkoSound == Converged /\ PodsRunConfig /\ ListedAreRemoved

-----------------------------------------------------------------------------
(* The inductive invariants of AkoOperatorProofs.                          *)

\* The artifacts that a reconcile has dealt with before it comes to a step.
Earlier(step) ==
    CASE step = "sa" -> {"cm"}
      [] step = "cr" -> {"cm", "sa"}
      [] step = "crb" -> {"cm", "sa", "cr"}
      [] step = "crd" -> {"cm", "sa", "cr", "crb"}
      [] step \in {"crdRead", "gwclass"} -> {"cm", "sa", "cr", "crb", "crd"}
      [] step = "sf" -> {"cm", "sa", "cr", "crb", "crd", "gwclass"}
      [] step = "ready" -> Kinds
      [] OTHER -> {}

AsDesired(spec, k) ==
    CASE k = "gwclass" -> NoneOf({"error"}) => api[k] = IF spec.gw THEN "built" ELSE None
      [] k = "crd" -> api[k] = desiredCrd
      [] k = "sf" -> api[k] # None /\ ~isSfUpdateRequired(api[k], BuildStatefulSet(spec))
      [] OTHER -> api[k] = Desired(spec, k)
Handled(spec, S) ==
    /\ \A k \in kinds \cap S : AsDesired(spec, k)
    /\ "sf" \in kinds \cap S => ~rebootRequired

\* With no event to come, what the reconcile under way has dealt with is as desired,
\* and if there is none everything is.
ConvergedInv ==
    /\ \A k \in kinds : k \notin dirty => view[k] = api[k]
    /\ ~queue /\ dirty = {} /\ job # None /\ job.step # "cleanup" =>
          ako # None /\ ~ako.deleting /\ job.spec = ako.spec /\ Handled(job.spec, Earlier(job.step))
    /\ ~queue /\ dirty = {} /\ job = None /\ ako # None =>
          ~ako.deleting /\ ako.state = "Ready" /\ Handled(ako.spec, Kinds)
    /\ ako = None => job = None
    /\ job # None /\ job.step = "cleanup" => ako.deleting

\* The operator wants the CRD of the manifest unless it has adopted another, and the
\* StatefulSet has the volume claim that was never changed.
MemoryInv ==
    /\ NoneOf({"adopted"}) => desiredCrd = "built"
    /\ NoneOf({"claim"}) /\ ako # None =>
          /\ job # None => job.spec.pvc = ako.spec.pvc
          /\ "sf" \in kinds /\ api["sf"] # None => api["sf"].pvc = ako.spec.pvc

\* The operator may still create artifacts.
Installing == ako # None /\ (~ako.deleting \/ (job # None /\ job.step # "cleanup"))

Exempt(k) == k = "gwclass" /\ ~NoneOf({"spec", "swap"})

\* What is listed is in the cache until it is removed; what the clean-up has visited
\* is gone.
ListInv ==
    /\ ako = None /\ "crd" \in kinds => api["crd"] = None
    /\ NoneOf({"spec", "swap"}) /\ Installing =>
          /\ job # None => job.spec = ako.spec
          /\ "gwclass" \in kinds /\ ~ako.spec.gw => api["gwclass"] = None /\ view["gwclass"] = None
    /\ NoneOf({"remove"}) =>
          /\ Installing => \A k \in kinds \ {"crd"} :
                ~Exempt(k) => /\ view[k] # None => api[k] # None
                              /\ k \in objectList => view[k] # None
          /\ ~Installing => \A k \in objectList \cap kinds :
                ~Exempt(k) => view[k] # None \/ api[k] = None
          /\ job # None /\ job.step = "cleanup" => \A k \in (objectList \cap kinds) \ job.todo :
                ~Exempt(k) => api[k] = None
          /\ ako = None => \A k \in objectList \cap kinds : ~Exempt(k) => api[k] = None

\* The pods run with the ConfigMap, or they are to restart, or the operator knows or
\* will notice that they must.
Settings(cm) == [rhi |-> cm.rhi, evh |-> cm.evh]
PodsInv ==
    {"cm", "sf"} \subseteq kinds /\ Installing /\ NoneOf({"crash", "remove", "swap", "sameOrder"}) =>
        /\ api["sf"] # None => api["cm"] # None
        /\ job # None /\ job.step \notin {"secret", "cm"} => api["cm"] # None
        /\ api["sf"] # None => rolling \/ (pods # None /\ pods.image = api["sf"].image)
        /\ api["sf"] # None => \/ rolling \/ rebootRequired \/ api["cm"].rhi = 4
                               \/ pods.cfg = Settings(api["cm"])
        /\ api["cm"] # None => /\ ~Exchanged(api["cm"], BuildConfigMap(ako.spec))
                               /\ job # None => ~Exchanged(api["cm"], BuildConfigMap(job.spec))
        /\ job # None => ~Exchanged(BuildConfigMap(job.spec), BuildConfigMap(ako.spec))

AkoInv == TypeOK /\ ConvergedInv /\ MemoryInv /\ ListInv /\ PodsInv
=============================================================================
