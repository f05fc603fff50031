------------------------- MODULE CrdOperatorProofs --------------------------
(***************************************************************************)
(* That the reconcilers of the CRD operator leave nothing behind and come  *)
(* to rest on the last spec only, for any number of tenants, creations,    *)
(* generations, objects and disturbances.                                  *)
(***************************************************************************)
EXTENDS CrdOperator, TLAPS

Workers ==
    [at : {"idle", "addFinalizer", "tenant", "delete", "refs", "put", "post", "status", "removeFinalizer"},
     obj : Resource, tenant : Tenants \cup {None}, uuid : 0..MaxUuid,
     secret : 0..MaxDisturbances + 1, moving : BOOLEAN]
Objects ==
    [uuid : 0..MaxUuid, spec : 0..MaxGen + 1, secret : 0..MaxDisturbances + 1, late : BOOLEAN]

\* The values a variable starts with have their types.
LEMMA Constants ==
    ASSUME WellFormed
    PROVE  /\ Empty \in Status /\ Absent \in Resource /\ Idle \in Workers /\ NoObject \in Objects
           /\ Absent.uid = 0 /\ ~Absent.there /\ ~Absent.deleting /\ ~Absent.finalizer
           /\ Absent.generation = 0 /\ Absent.status = Empty
           /\ Empty.uuid = 0 /\ Empty.tenant = None /\ Empty.observed = 0 /\ Empty.dependency = 0
           /\ Empty.condition = "none" /\ Empty.updated = "never"
           /\ Idle.at = "idle" /\ Idle.obj = Absent /\ Idle.secret = 0 /\ ~Idle.moving
<1>1. Empty \in Status
  BY DEF Empty, Status, WellFormed
<1>2. Absent \in Resource
  BY <1>1 DEF Absent, Resource, WellFormed
<1>3. Idle \in Workers
  BY <1>2 DEF Idle, Workers, WellFormed
<1>4. NoObject \in Objects
  BY DEF NoObject, Objects, WellFormed
<1> QED BY Zenon, <1>1, <1>2, <1>3, <1>4 DEF Empty, Absent, Idle

\* What TypeOK says of the records.
LEMMA Shapes ==
    ASSUME WellFormed, TypeOK
    PROVE  /\ api \in Resource /\ view \in Resource /\ worker \in Workers /\ worker.obj \in Resource
           /\ avi \in [Tenants -> Objects] /\ tenant \in Tenants /\ tenant # None
           /\ api.status \in Status /\ view.status \in Status /\ worker.obj.status \in Status
<1>1. /\ api \in Resource /\ view \in Resource /\ worker \in Workers /\ tenant \in Tenants
      /\ avi \in [Tenants -> Objects]
  BY Zenon DEF TypeOK, Workers, Objects
<1>2. worker.obj \in Resource
  BY Zenon, <1>1 DEF Workers
<1> QED BY Zenon, <1>1, <1>2 DEF Resource, WellFormed

\* Generations and versions are numbers.
LEMMA Numbers ==
    ASSUME WellFormed, TypeOK
    PROVE  /\ worker.secret \in Nat /\ worker.obj.generation \in Nat /\ api.generation \in Nat
           /\ view.generation \in Nat /\ api.status.observed \in Nat
           /\ api.status.dependency \in Nat /\ secret \in Nat
           /\ \A o \in Objects : o.spec \in Nat /\ o.secret \in Nat
<1>1. 0..MaxGen + 1 \subseteq Nat /\ 0..MaxDisturbances + 1 \subseteq Nat
  BY DEF WellFormed
<1>2. worker.secret \in 0..MaxDisturbances + 1
  BY Zenon, Shapes DEF Workers
<1>3. \A x \in Resource : x.generation \in 0..MaxGen + 1
  BY Zenon DEF Resource
<1>4. \A x \in Status : x.observed \in 0..MaxGen + 1 /\ x.dependency \in 0..MaxDisturbances + 1
  BY Zenon DEF Status
<1>5. \A o \in Objects : o.spec \in 0..MaxGen + 1 /\ o.secret \in 0..MaxDisturbances + 1
  BY Zenon DEF Objects
<1>6. secret \in 0..MaxDisturbances + 1
  BY Zenon DEF TypeOK
<1> QED BY Zenon, <1>1, <1>2, <1>3, <1>4, <1>5, <1>6, Shapes

\* A disturbance adds to the history and is counted.
LEMMA Disturbing ==
    ASSUME WellFormed, CopyInv
    PROVE  /\ UNCHANGED disturbance => happened' = happened /\ left' = left /\ left' \in 0..MaxDisturbances
           /\ \A d : Disturb(d) => /\ happened' = happened \cup {d} /\ left' = left - 1
                                   /\ left' \in 0..MaxDisturbances
BY DEF WellFormed, CopyInv, disturbance, Disturb

\* The worker's copy of a resource that is not being deleted is an older one, or has
\* no status yet.
LEMMA OldCopy ==
    ASSUME WellFormed, CrdInv, ~api.deleting, worker.obj.uid = api.uid, worker.obj.there
    PROVE  \/ worker.obj.generation <= api.generation
           \/ worker.obj.status = Empty /\ worker.obj.generation >= 1 /\ Empty.observed = 0
              /\ Empty.uuid = 0 /\ Empty.updated = "never" /\ Empty.dependency = 0
<1> USE DEF CrdInv
<1>1. worker.at # "idle"
  BY Zenon, Constants DEF CopyInv
<1>2. CASE Guarded
  BY Zenon, <1>2 DEF FinalizerInv
<1>3. CASE Removes
  BY Zenon, <1>3 DEF FinalizerInv
<1>4. CASE worker.at = "addFinalizer"
  BY Zenon, <1>4, Constants DEF CopyInv, Version, FinalizerInv
<1> QED BY Zenon, <1>1, <1>2, <1>3, <1>4, Shapes DEF Guarded, Programs, Removes, Workers

-----------------------------------------------------------------------------
\* The resource is created.
LEMMA CreateKeeps ==
    ASSUME WellFormed, CrdInv, Create
    PROVE  CrdInv'
<1> USE DEF CrdInv
<1>1. /\ view' = view /\ tenant' = tenant /\ secret' = secret /\ avi' = avi /\ inUse' = inUse
      /\ cache' = cache /\ queued' = queued /\ worker' = worker /\ kind' = kind
      /\ left' = left /\ happened' = happened /\ creates' = creates + 1 /\ creates < MaxCreates
      /\ current' = {} /\ ~api.there /\ api = Absent
  BY Zenon DEF Create, Written, disturbance, CopyInv, Version
<1>2. /\ api' \in Resource /\ api'.there /\ api'.uid = creates + 1 /\ ~api'.deleting /\ ~api'.finalizer
      /\ api'.generation = 1 /\ api'.status = Empty
  <2>1. creates + 1 \in 0..MaxCreates /\ 1 \in 0..MaxGen + 1
    BY <1>1 DEF CopyInv, WellFormed
  <2>2. api' = [Absent EXCEPT !.there = TRUE, !.uid = creates + 1, !.generation = 1]
    BY Zenon, <1>1 DEF Create, Written
  <2> QED BY Zenon, <2>1, <2>2, Constants DEF Resource
<1>3. /\ view.uid # creates + 1 /\ worker.obj.uid # creates + 1 /\ creates \in Nat
  BY Constants DEF CopyInv, Version
<1>4. ~Guarded /\ ~(view.finalizer /\ ~view.deleting) /\ ~(Programs /\ view.deleting)
  BY Zenon, <1>1, Constants DEF FinalizerInv
<1>5. /\ (Programs' <=> Programs) /\ (Guarded' <=> Guarded) /\ (Removes' <=> Removes)
      /\ (HasSecret' <=> HasSecret) /\ (Unmoved' <=> Unmoved) /\ (Untouched' <=> Untouched)
      /\ \A t : Exists(t)' <=> Exists(t)
  BY Zenon, <1>1 DEF Programs, Guarded, Removes, HasSecret, Unmoved, Untouched, Exists
<1>6. TypeOK'
  BY Zenon, <1>1, <1>2 DEF TypeOK
<1>7. CopyInv'
  BY <1>1, <1>2, <1>3, <1>5, Constants DEF CopyInv, Version, WellFormed
<1>8. FinalizerInv'
  BY Zenon, <1>1, <1>2, <1>3, <1>4, <1>5 DEF FinalizerInv, Going
<1>9. HomeInv'
  BY Zenon, <1>1, <1>2, <1>5, Constants DEF HomeInv, AtHome, Named
<1>10. StoredInv' /\ StepInv'
  BY Zenon, <1>1, <1>5 DEF StoredInv, StepInv
<1>11. NewsInv'
  BY Zenon, <1>1, <1>2, <1>3 DEF NewsInv, NoNews
<1>12. SecretInv'
  BY SMTT(30), <1>1, <1>2, <1>5, Constants DEF SecretInv, Versions, CopyInv, WellFormed
<1>13. CachedInv'
  BY Zenon, <1>1, <1>2, <1>3, <1>5, Constants, Shapes DEF CachedInv, Knows, HomeInv
<1> QED BY Zenon, <1>6, <1>7, <1>8, <1>9, <1>10, <1>11, <1>12, <1>13

\* The spec changes.
LEMMA EditKeeps ==
    ASSUME WellFormed, CrdInv, Edit
    PROVE  CrdInv'
<1> USE DEF CrdInv
<1>1. /\ view' = view /\ tenant' = tenant /\ secret' = secret /\ avi' = avi /\ inUse' = inUse
      /\ cache' = cache /\ queued' = queued /\ worker' = worker /\ kind' = kind
      /\ left' = left /\ happened' = happened /\ creates' = creates
      /\ current' = {} /\ api.there /\ ~api.deleting /\ api.generation < MaxGen
  BY Zenon DEF Edit, Written, environment
<1>2. /\ api' \in Resource /\ api'.there = api.there /\ api'.uid = api.uid
      /\ api'.deleting = api.deleting /\ api'.finalizer = api.finalizer
      /\ api'.generation = api.generation + 1 /\ api'.status = api.status
  <2>1. api.generation + 1 \in 0..MaxGen + 1 /\ api \in Resource
    BY <1>1, Shapes DEF Resource, WellFormed
  <2> QED BY Zenon, <2>1 DEF Edit, Written, Resource
<1>3. api.generation \in Nat /\ view.generation \in Nat /\ worker.obj.generation \in Nat
  BY Shapes DEF Resource, WellFormed
<1>5. /\ (Programs' <=> Programs) /\ (Guarded' <=> Guarded) /\ (Removes' <=> Removes)
      /\ (HasSecret' <=> HasSecret) /\ (Unmoved' <=> Unmoved) /\ (Untouched' <=> Untouched)
      /\ \A t : Exists(t)' <=> Exists(t)
  BY Zenon, <1>1 DEF Programs, Guarded, Removes, HasSecret, Unmoved, Untouched, Exists
<1>6. TypeOK'
  BY Zenon, <1>1, <1>2 DEF TypeOK
<1>7. CopyInv'
  BY <1>1, <1>2, <1>3, <1>5 DEF CopyInv, Version, WellFormed
<1>8. FinalizerInv'
  BY <1>1, <1>2, <1>3, <1>5 DEF FinalizerInv, Going
<1>9. HomeInv'
  BY Zenon, <1>1, <1>2, <1>5 DEF HomeInv, AtHome, Named
<1>10. StoredInv' /\ StepInv'
  BY Zenon, <1>1, <1>5 DEF StoredInv, StepInv
<1>11. NewsInv'
  BY <1>1, <1>2, <1>3 DEF NewsInv, NoNews, CopyInv
<1>12. SecretInv'
  BY <1>1, <1>2, <1>5 DEF SecretInv, Versions
<1>13. CachedInv'
  <2>1. view.uid = api.uid => view.generation <= api.generation
    BY Zenon DEF CopyInv
  <2>3. avi[tenant].spec \in Nat
    BY Shapes DEF Objects, WellFormed
  <2>4. Unmoved /\ Untouched => Knows(view)'
    BY SMTT(30), <1>1, <1>2, <1>3, <1>5, <2>1 DEF CachedInv, Knows
  <2>5. Unmoved /\ Untouched => Knows(worker.obj)'
    BY <1>1, <1>2, <1>3, <1>5, OldCopy DEF CachedInv, Knows
  <2> QED BY <1>1, <1>2, <1>3, <1>5, <2>3, <2>4, <2>5 DEF CachedInv, Reflected
<1> QED BY <1>6, <1>7, <1>8, <1>9, <1>10, <1>11, <1>12, <1>13

\* The resource is deleted: at once, or when the finalizer goes.
LEMMA DeleteKeeps ==
    ASSUME WellFormed, CrdInv, Delete
    PROVE  CrdInv'
<1> USE DEF CrdInv
<1>1. /\ view' = view /\ tenant' = tenant /\ secret' = secret /\ avi' = avi /\ inUse' = inUse
      /\ cache' = cache /\ queued' = queued /\ worker' = worker /\ kind' = kind
      /\ left' = left /\ happened' = happened /\ creates' = creates
      /\ current' = {} /\ api.there /\ ~api.deleting
  BY Zenon DEF Delete, Written, environment
<1>2. api.generation \in Nat /\ view.generation \in Nat /\ worker.obj.generation \in Nat
  BY Shapes DEF Resource, WellFormed
<1>5. /\ (Programs' <=> Programs) /\ (Guarded' <=> Guarded) /\ (Removes' <=> Removes)
      /\ (HasSecret' <=> HasSecret) /\ (Unmoved' <=> Unmoved) /\ (Untouched' <=> Untouched)
      /\ \A t : Exists(t)' <=> Exists(t)
  BY Zenon, <1>1 DEF Programs, Guarded, Removes, HasSecret, Unmoved, Untouched, Exists
<1>6. CASE api.finalizer
  <2>1. /\ api' \in Resource /\ api'.there = api.there /\ api'.uid = api.uid
        /\ api'.deleting /\ api'.finalizer
        /\ api'.generation = api.generation + 1 /\ api'.status = api.status
    <3>1. api.generation + 1 \in 0..MaxGen + 1 /\ api \in Resource
      BY <1>1, Shapes DEF Resource, WellFormed, CopyInv, Version
    <3> QED BY Zenon, <3>1, <1>6 DEF Delete, Written, Resource
  <2>2. TypeOK'
    BY Zenon, <1>1, <2>1 DEF TypeOK
  <2>3. CopyInv'
    BY <1>1, <1>2, <2>1, <1>5 DEF CopyInv, Version, WellFormed
  <2>4. FinalizerInv'
    BY <1>1, <1>2, <1>6, <2>1, <1>5 DEF FinalizerInv, Going
  <2>5. HomeInv'
    BY Zenon, <1>1, <2>1, <1>5, <1>6 DEF HomeInv, AtHome, Named
  <2>6. StoredInv' /\ StepInv'
    BY Zenon, <1>1, <1>5 DEF StoredInv, StepInv
  <2>7. NewsInv'
    BY Zenon, <2>1 DEF NewsInv, NoNews
  <2>8. SecretInv'
    BY <1>1, <2>1, <1>5 DEF SecretInv, Versions
  <2>9. CachedInv'
    <3>1. view.uid = api.uid => view.generation <= api.generation
      BY DEF CopyInv
    <3>3. avi[tenant].spec \in Nat
      BY Shapes DEF Objects, WellFormed
    <3>4. Unmoved /\ Untouched => Knows(view)'
      BY SMTT(30), <1>1, <1>2, <2>1, <1>5, <3>1 DEF CachedInv, Knows
    <3>5. Unmoved /\ Untouched => Knows(worker.obj)'
      BY <1>1, <1>2, <2>1, <1>5, OldCopy DEF CachedInv, Knows
    <3> QED BY SMTT(30), <1>1, <1>2, <2>1, <1>5, <3>3, <3>4, <3>5 DEF CachedInv, Reflected
  <2> QED BY <2>2, <2>3, <2>4, <2>5, <2>6, <2>7, <2>8, <2>9
<1>7. CASE ~api.finalizer
  <2>1. /\ api' = Absent /\ api' \in Resource /\ ~api'.there /\ api'.uid = 0
        /\ ~api'.deleting /\ ~api'.finalizer /\ api'.generation = 0 /\ api'.status = Empty
    BY Zenon, <1>7, Constants DEF Delete, Written
  <2>2. TypeOK'
    BY Zenon, <1>1, <2>1 DEF TypeOK
  <2>3. view.uid = 0 => view = Absent
    BY DEF CopyInv, Version
  <2>4. CopyInv'
    BY <1>1, <1>2, <2>1, <2>3, <1>5, Constants DEF CopyInv, Version, WellFormed
  <2>5. FinalizerInv'
    <3>1. worker.obj.deleting => worker.obj.uid # 0
      BY SMTT(30), Constants DEF CopyInv, Version
    <3> QED BY Zenon, <1>1, <1>2, <1>7, <2>1, <1>5, <3>1 DEF FinalizerInv, Going
  <2>6. HomeInv'
    BY Zenon, <1>1, <2>1, <1>5, <1>7, Constants DEF HomeInv, AtHome, Named
  <2>7. StoredInv' /\ StepInv'
    BY <1>1, <1>5 DEF StoredInv, StepInv
  <2>8. NewsInv'
    BY Zenon, <2>1 DEF NewsInv, NoNews
  <2>9. SecretInv'
    <3>1. worker.secret \in Nat /\ secret \in Nat /\ 0 <= 1 + MaxDisturbances - left
      BY Shapes DEF TypeOK, Workers, CopyInv, WellFormed
    <3>2. Versions' \subseteq Versions \cup {0}
      BY SMTT(30), <1>1, <2>1, Constants DEF Versions
    <3> QED BY <1>1, <1>5, <3>1, <3>2 DEF SecretInv
  <2>10. CachedInv'
    <3>1. Knows(view)' /\ Knows(worker.obj)'
      BY <1>1, <2>1 DEF Knows, CopyInv, Version
    <3>2. Unmoved /\ Untouched => ~Exists(tenant)
      BY Zenon, <1>7, Shapes DEF HomeInv
    <3> QED BY Zenon, <1>1, <1>5, <2>1, <3>1, <3>2 DEF CachedInv
  <2> QED BY <2>2, <2>4, <2>5, <2>6, <2>7, <2>8, <2>9, <2>10
<1> QED BY Zenon, <1>6, <1>7

\* The informer delivers the last version.
LEMMA DeliverKeeps ==
    ASSUME WellFormed, CrdInv, Deliver
    PROVE  CrdInv'
<1> USE DEF CrdInv
<1>1. /\ api' = api /\ tenant' = tenant /\ secret' = secret /\ avi' = avi /\ inUse' = inUse
      /\ cache' = cache /\ worker' = worker /\ kind' = kind
      /\ left' = left /\ happened' = happened /\ creates' = creates
      /\ view' = api /\ current' = current \cup {"view"}
      /\ (~queued' => ~queued /\ view.uid = api.uid /\ view.generation = api.generation)
  BY Zenon DEF Deliver, environment
<1>5. /\ (Programs' <=> Programs) /\ (Guarded' <=> Guarded) /\ (Removes' <=> Removes)
      /\ (HasSecret' <=> HasSecret)
  BY Zenon, <1>1 DEF Programs, Guarded, Removes, HasSecret
<1>6. /\ (Unmoved' <=> Unmoved) /\ (Untouched' <=> Untouched) /\ \A t : Exists(t)' <=> Exists(t)
  BY Zenon, <1>1 DEF Unmoved, Untouched, Exists
<1>7. TypeOK'
  BY Zenon, <1>1, Shapes DEF TypeOK, Deliver
<1>8. CopyInv'
  <2>1. api.generation \in Nat
    BY Shapes DEF Resource, WellFormed
  <2> QED BY <1>1, <1>5, <2>1 DEF CopyInv, Version
<1>9. FinalizerInv'
  BY Zenon, <1>1, <1>5 DEF FinalizerInv, Going
<1>10. HomeInv'
  BY Zenon, <1>1, <1>5, <1>6 DEF HomeInv, AtHome, Named
<1>11. StoredInv' /\ StepInv'
  BY Zenon, <1>1, <1>6 DEF StoredInv, StepInv
<1>12. NewsInv'
  <2>1. NoNews' => NoNews
    BY Zenon, <1>1 DEF NoNews
  <2>2. Final' <=> Final
    BY Zenon, <1>1, <1>5 DEF Final
  <2> QED BY Zenon, <1>1, <1>5, <1>6, <2>1, <2>2 DEF NewsInv
<1>13. SecretInv'
  BY Zenon, <1>1, <1>5 DEF SecretInv, Versions
<1>14. CachedInv'
  <2>1. Knows(view)'
    BY Zenon, <1>1 DEF Knows
  <2>2. (Knows(worker.obj)' <=> Knows(worker.obj)) /\ (Reflected' <=> Reflected)
    BY Zenon, <1>1, <1>5 DEF Knows, Reflected
  <2>3. Unmoved /\ Untouched /\ Exists(tenant) => api.finalizer
    BY Zenon, Shapes DEF HomeInv
  <2>4. Guarded => worker.obj.generation <= api.generation
    BY Zenon DEF FinalizerInv
  <2> QED BY Zenon, <1>1, <1>5, <1>6, <2>1, <2>2, <2>3, <2>4 DEF CachedInv
<1> QED BY <1>7, <1>8, <1>9, <1>10, <1>11, <1>12, <1>13, <1>14

\* The namespace is given to another tenant.
LEMMA NamespaceKeeps ==
    ASSUME WellFormed, CrdInv, NEW t \in Tenants, NamespaceHandler(t)
    PROVE  CrdInv'
<1> USE DEF CrdInv
<1>1. /\ api' = api /\ view' = view /\ current' = current /\ secret' = secret /\ avi' = avi
      /\ inUse' = inUse /\ cache' = cache /\ worker' = worker /\ kind' = kind
      /\ creates' = creates /\ tenant' = t /\ left' = left - 1 /\ left' \in 0..MaxDisturbances
      /\ happened' = happened \cup {"move"} /\ (~queued' => ~view.there)
  BY Zenon, Disturbing DEF NamespaceHandler
<1>5. /\ (Programs' <=> Programs) /\ (Guarded' <=> Guarded) /\ (Removes' <=> Removes)
      /\ (HasSecret' <=> HasSecret)
  BY Zenon, <1>1 DEF Programs, Guarded, Removes, HasSecret
<1>6. ~Unmoved' /\ (Untouched' <=> Untouched)
  BY Zenon, <1>1 DEF Unmoved, Untouched
<1>7. TypeOK'
  BY <1>1 DEF TypeOK, NamespaceHandler
<1>8. CopyInv'
  BY <1>1, <1>5 DEF CopyInv, Version
<1>9. FinalizerInv'
  BY Zenon, <1>1, <1>5 DEF FinalizerInv, Going
<1>10. HomeInv' /\ StoredInv' /\ StepInv'
  BY Zenon, <1>1, <1>6 DEF HomeInv, StoredInv, StepInv
<1>11. NewsInv'
  <2>1. api.there => api.uid # 0
    BY DEF CopyInv, Version
  <2>2. ~view.there => view.uid = 0
    BY Zenon, Constants DEF CopyInv, Version
  <2> QED BY Zenon, <1>1, <2>1, <2>2 DEF NewsInv, NoNews
<1>12. SecretInv'
  <2>1. Versions' = Versions
    BY Zenon, <1>1 DEF Versions
  <2>2. \A v \in Versions \cup {secret} : v \in Nat
    BY Shapes DEF Versions, TypeOK, Objects, Workers, Status, WellFormed
  <2>3. left \in Nat /\ left' \in Nat /\ MaxDisturbances \in Nat
    BY <1>1 DEF CopyInv, WellFormed
  <2>4. HasSecret => \A v \in Versions \cup {secret} : v <= 1 + MaxDisturbances - left'
    BY SMTT(30), <1>1, <2>2, <2>3 DEF SecretInv
  <2> QED BY Zenon, <1>1, <1>5, <2>1, <2>4 DEF SecretInv
<1>13. CachedInv'
  BY Zenon, <1>1, <1>6 DEF CachedInv
<1> QED BY Zenon, <1>7, <1>8, <1>9, <1>10, <1>11, <1>12, <1>13

\* The Secret changes, is deleted or comes back.
LEMMA SecretKeeps ==
    ASSUME WellFormed, CrdInv, SecretHandler
    PROVE  CrdInv'
<1> USE DEF CrdInv
<1>1. /\ api' = api /\ view' = view /\ current' = current /\ tenant' = tenant /\ avi' = avi
      /\ inUse' = inUse /\ cache' = cache /\ worker' = worker /\ kind' = kind
      /\ creates' = creates /\ left' = left - 1 /\ left' \in 0..MaxDisturbances
      /\ happened' = happened \cup {"secret"} /\ (~queued' => ~view.there)
      /\ secret' \in {0, 1 + MaxDisturbances - left'} /\ HasSecret
  BY Zenon, Disturbing DEF SecretHandler
<1>5. /\ (Programs' <=> Programs) /\ (Guarded' <=> Guarded) /\ (Removes' <=> Removes)
      /\ (HasSecret' <=> HasSecret)
  BY Zenon, <1>1 DEF Programs, Guarded, Removes, HasSecret
<1>6. /\ (Unmoved' <=> Unmoved) /\ (Untouched' <=> Untouched) /\ \A t : Exists(t)' <=> Exists(t)
      /\ ("crash" \in happened' <=> "crash" \in happened)
  BY Zenon, <1>1 DEF Unmoved, Untouched, Exists
<1>7. TypeOK'
  <2>1. secret' \in 0..MaxDisturbances + 1
    BY <1>1 DEF WellFormed
  <2> QED BY <1>1, <2>1 DEF TypeOK, SecretHandler
<1>8. CopyInv'
  BY <1>1, <1>5 DEF CopyInv, Version
<1>9. FinalizerInv'
  BY Zenon, <1>1, <1>5 DEF FinalizerInv, Going
<1>10. HomeInv'
  BY Zenon, <1>1, <1>5, <1>6 DEF HomeInv, AtHome, Named
<1>11. StoredInv' /\ StepInv'
  BY Zenon, <1>1, <1>6 DEF StoredInv, StepInv
<1>12. NewsInv'
  <2>1. api.there => api.uid # 0
    BY DEF CopyInv, Version
  <2>2. ~view.there => view.uid = 0
    BY Zenon, Constants DEF CopyInv, Version
  <2> QED BY Zenon, <1>1, <2>1, <2>2 DEF NewsInv, NoNews
<1>13. Versions' = Versions /\ \A v \in Versions \cup {secret} : v \in Nat
  BY <1>1, Shapes DEF Versions, TypeOK, Objects, Workers, Status, WellFormed
<1>14. \A v \in Versions \cup {secret} : v <= MaxDisturbances - left'
  <2>1. left \in Nat /\ left' \in Nat /\ MaxDisturbances \in Nat
    BY <1>1 DEF CopyInv, WellFormed
  <2> QED BY <1>1, <1>13, <2>1 DEF SecretInv
<1>15. SecretInv'
  <2>1. left' \in Nat /\ MaxDisturbances \in Nat /\ left' <= MaxDisturbances
    BY <1>1 DEF WellFormed
  <2>2. \A v \in Versions' : v <= 1 + MaxDisturbances - left'
    BY <1>13, <1>14, <2>1
  <2>3. secret' <= 1 + MaxDisturbances - left'
    BY <1>1, <2>1
  <2>4. worker'.at \in {"put", "post", "status"} => \A v \in Versions' : v <= worker'.secret
    BY Zenon, <1>1, <1>13 DEF SecretInv
  <2> QED BY Zenon, <1>1, <2>2, <2>3, <2>4 DEF SecretInv
<1>16. CachedInv'
  <2>1. left' \in Nat /\ MaxDisturbances \in Nat
    BY <1>1 DEF WellFormed
  <2>2. /\ view.status.dependency \in Versions /\ worker.obj.status.dependency \in Versions
    BY Zenon DEF Versions
  <2>3. secret' # 0 => view.status.dependency # secret' /\ worker.obj.status.dependency # secret'
    BY SMTT(30), <1>1, <1>13, <1>14, <2>1, <2>2
  <2>4. (Knows(view) => Knows(view)') /\ (Knows(worker.obj) => Knows(worker.obj)')
    BY Zenon, <1>1, <2>3 DEF Knows
  <2>5. Reflected' <=> Reflected
    BY Zenon, <1>1, <1>5 DEF Reflected
  <2> QED BY Zenon, <1>1, <1>5, <1>6, <2>4, <2>5 DEF CachedInv
<1> QED BY <1>7, <1>8, <1>9, <1>10, <1>11, <1>12, <1>15, <1>16

\* No step of the operator brings a version of the Secret that was not seen.
LEMMA SecretStays ==
    ASSUME WellFormed, CrdInv, secret' = secret, kind' = kind, left' \in 0..MaxDisturbances,
           left' <= left, Versions' \subseteq Versions \cup {0},
           worker'.at \in {"put", "post", "status"} =>
              worker.at \in {"put", "post", "status"} /\ worker'.secret = worker.secret
    PROVE  SecretInv'
<1> USE DEF CrdInv
<1>1. \A v \in Versions \cup {secret} : v \in Nat
  BY Shapes DEF Versions, TypeOK, Objects, Workers, Status, WellFormed
<1>2. left \in Nat /\ left' \in Nat /\ MaxDisturbances \in Nat /\ left' <= MaxDisturbances
  BY SMTT(30) DEF CopyInv, WellFormed
<1>3. (HasSecret' <=> HasSecret) /\ worker.secret \in Versions
  BY Zenon DEF HasSecret, Versions
<1>4. HasSecret => \A v \in Versions' \cup {secret'} : v <= 1 + MaxDisturbances - left'
  BY <1>1, <1>2 DEF SecretInv
<1>5. HasSecret /\ secret' # 0 => \A v \in Versions' : v <= secret'
  BY <1>1 DEF SecretInv
<1>6. HasSecret /\ worker'.at \in {"put", "post", "status"} => \A v \in Versions' : v <= worker'.secret
  BY <1>1, <1>3 DEF SecretInv
<1> QED BY Zenon, <1>3, <1>4, <1>5, <1>6 DEF SecretInv

\* Another object begins or ceases to refer to the object.
LEMMA ReferKeeps ==
    ASSUME WellFormed, CrdInv, NEW t \in Tenants, Refer(t)
    PROVE  CrdInv'
<1> USE DEF CrdInv
<1>1. /\ api' = api /\ view' = view /\ current' = current /\ secret' = secret /\ avi' = avi
      /\ cache' = cache /\ worker' = worker /\ kind' = kind /\ queued' = queued
      /\ creates' = creates /\ tenant' = tenant
  BY Zenon DEF Refer
<1>2. /\ happened' \in {happened, happened \cup {"use"}} /\ left' \in 0..MaxDisturbances
      /\ left' \in {left, left - 1}
  BY Zenon, Disturbing DEF Refer
<1>5. /\ (Programs' <=> Programs) /\ (Guarded' <=> Guarded) /\ (Removes' <=> Removes)
      /\ (HasSecret' <=> HasSecret)
  BY Zenon, <1>1 DEF Programs, Guarded, Removes, HasSecret
<1>6. /\ (Unmoved' <=> Unmoved) /\ (Untouched' <=> Untouched) /\ \A x : Exists(x)' <=> Exists(x)
      /\ ("crash" \in happened' <=> "crash" \in happened)
  BY Zenon, <1>1, <1>2 DEF Unmoved, Untouched, Exists
<1>7. TypeOK'
  BY Zenon, <1>1 DEF TypeOK, Refer
<1>8. CopyInv'
  BY SMTT(30), <1>1, <1>2, <1>5 DEF CopyInv, Version
<1>9. FinalizerInv'
  BY Zenon, <1>1, <1>5 DEF FinalizerInv, Going
<1>10. HomeInv'
  BY Zenon, <1>1, <1>5, <1>6 DEF HomeInv, AtHome, Named
<1>11. StoredInv' /\ StepInv'
  BY Zenon, <1>1, <1>6 DEF StoredInv, StepInv
<1>12. NewsInv'
  <2>1. (NoNews' <=> NoNews) /\ (Final' <=> Final)
    BY Zenon, <1>1, <1>5 DEF NoNews, Final
  <2>2. ({"move", "crash"} \subseteq happened') <=> ({"move", "crash"} \subseteq happened)
    BY Zenon, <1>2
  <2> QED BY Zenon, <1>1, <1>5, <1>6, <2>1, <2>2 DEF NewsInv
<1>13. SecretInv'
  <2>1. left' <= left /\ Versions' = Versions
    BY SMTT(30), <1>1, <1>2 DEF CopyInv, WellFormed, Versions
  <2> QED BY Zenon, <1>1, <1>2, <2>1, SecretStays
<1>14. CachedInv'
  <2>1. /\ (Knows(view)' <=> Knows(view)) /\ (Knows(worker.obj)' <=> Knows(worker.obj))
        /\ (Reflected' <=> Reflected)
    BY Zenon, <1>1, <1>5 DEF Knows, Reflected
  <2> QED BY Zenon, <1>1, <1>5, <1>6, <2>1 DEF CachedInv
<1> QED BY Zenon, <1>7, <1>8, <1>9, <1>10, <1>11, <1>12, <1>13, <1>14

\* Somebody changes or deletes the object.
LEMMA OutOfBandKeeps ==
    ASSUME WellFormed, CrdInv, NEW t \in Tenants, OutOfBand(t)
    PROVE  CrdInv'
<1> USE DEF CrdInv
<1>1. /\ api' = api /\ view' = view /\ current' = current /\ secret' = secret /\ inUse' = inUse
      /\ cache' = cache /\ worker' = worker /\ kind' = kind /\ queued' = queued
      /\ creates' = creates /\ tenant' = tenant /\ left' = left - 1
      /\ left' \in 0..MaxDisturbances /\ happened' = happened \cup {"outOfBand"}
  BY Zenon, Disturbing DEF OutOfBand
<1>2. avi' \in [Tenants -> Objects] /\ \A x \in Tenants : avi'[x].secret \in {avi[x].secret, 0}
  <2>1. avi \in [Tenants -> Objects] /\ 0 \in 0..MaxGen + 1
    BY Shapes DEF WellFormed
  <2>2. CASE avi' = [avi EXCEPT ![t].spec = 0, ![t].late = TRUE]
    BY Zenon, <2>1, <2>2 DEF Objects
  <2>3. CASE avi' = [avi EXCEPT ![t] = NoObject]
    <3>1. NoObject \in Objects /\ NoObject.secret = 0
      BY Zenon, Constants DEF NoObject
    <3> QED BY Zenon, <2>1, <2>3, <3>1
  <2> QED BY Zenon, <2>2, <2>3 DEF OutOfBand
<1>5. /\ (Programs' <=> Programs) /\ (Guarded' <=> Guarded) /\ (Removes' <=> Removes)
      /\ (HasSecret' <=> HasSecret)
  BY Zenon, <1>1 DEF Programs, Guarded, Removes, HasSecret
<1>6. /\ ~Untouched' /\ ("crash" \in happened' <=> "crash" \in happened)
  BY Zenon, <1>1 DEF Untouched
<1>7. TypeOK'
  BY Zenon, <1>1, <1>2 DEF TypeOK, Objects
<1>8. CopyInv'
  BY <1>1, <1>5 DEF CopyInv, Version
<1>9. FinalizerInv'
  BY Zenon, <1>1, <1>5 DEF FinalizerInv, Going
<1>10. HomeInv' /\ StoredInv' /\ StepInv' /\ CachedInv'
  BY Zenon, <1>1, <1>6 DEF HomeInv, StoredInv, StepInv, CachedInv
<1>11. NewsInv'
  <2>1. (NoNews' <=> NoNews)
    BY Zenon, <1>1 DEF NoNews
  <2> QED BY Zenon, <1>1, <1>5, <1>6, <2>1 DEF NewsInv
<1>12. SecretInv'
  <2>1. left' <= left
    BY <1>1 DEF CopyInv, WellFormed
  <2>2. Versions' \subseteq Versions \cup {0}
    BY Zenon, <1>1, <1>2 DEF Versions
  <2> QED BY Zenon, <1>1, <2>1, <2>2, SecretStays
<1> QED BY Zenon, <1>7, <1>8, <1>9, <1>10, <1>11, <1>12

\* The operator ends and starts again.
LEMMA RestartKeeps ==
    ASSUME WellFormed, CrdInv, Restart
    PROVE  CrdInv'
<1> USE DEF CrdInv
<1>1. /\ secret' = secret /\ inUse' = inUse /\ avi' = avi /\ kind' = kind
      /\ creates' = creates /\ tenant' = tenant /\ left' = left - 1
      /\ left' \in 0..MaxDisturbances /\ happened' = happened \cup {"crash"}
      /\ current' = {"view"} /\ queued' = api.there /\ worker' = Idle /\ cache' \in PopulateCache
      /\ view' = api'
  BY Zenon, Disturbing DEF Restart
<1>2. /\ api' \in Resource /\ api'.there = api.there /\ api'.uid = api.uid
      /\ api'.deleting = api.deleting /\ api'.finalizer = api.finalizer
      /\ api'.generation = api.generation /\ api'.status \in Status
      /\ api'.status.uuid = api.status.uuid /\ api'.status.tenant = api.status.tenant
      /\ api'.status.observed = api.status.observed /\ api'.status.condition = api.status.condition
      /\ api'.status.dependency = api.status.dependency /\ api'.status.updated # "now"
      /\ (api.status.updated = "never" => api' = api)
  <2>1. PICK u \in {"never", "before"} :
           /\ api' = [api EXCEPT !.status.updated = u]
           /\ api.status.updated = "never" => u = "never"
    BY Zenon DEF Restart
  <2>2. api \in Resource /\ api.status \in Status
    BY Zenon, Shapes
  <2>3. [api.status EXCEPT !.updated = u] \in Status
    BY Zenon, <2>2 DEF Status
  <2>4. api' = [api EXCEPT !.status = [api.status EXCEPT !.updated = u]]
    BY Zenon, <2>1
  <2>5. ASSUME api.status.updated = "never" PROVE api' = api
    <3>1. api.status.updated = u
      BY Zenon, <2>1, <2>5
    <3>2. [api.status EXCEPT !.updated = u] = api.status
      BY Zenon, <2>2, <3>1 DEF Status
    <3> QED BY Zenon, <2>2, <2>4, <3>2 DEF Resource
  <2> QED BY <2>1, <2>2, <2>3, <2>4, <2>5 DEF Resource, Status
<1>3. Idle.at = "idle" /\ Idle.obj = Absent /\ ~Idle.moving
  BY Zenon, Constants
<1>5. /\ ~Programs' /\ ~Guarded' /\ ~Removes' /\ (HasSecret' <=> HasSecret)
  BY Zenon, <1>1, <1>3 DEF Programs, Guarded, Removes, HasSecret
<1>6. /\ (Unmoved' <=> Unmoved) /\ (Untouched' <=> Untouched) /\ \A x : Exists(x)' <=> Exists(x)
      /\ "crash" \in happened'
  BY Zenon, <1>1 DEF Unmoved, Untouched, Exists
<1>7. TypeOK'
  <2>1. cache' \in [Uuids -> {"absent", "before", "late"}] /\ Idle \in Workers
    BY Zenon, <1>1, Constants DEF PopulateCache
  <2> QED BY SMTT(30), <1>1, <1>2, <2>1 DEF TypeOK, Workers, Resource
<1>8. CopyInv'
  <2>1. Version(api)'
    <3>1. api.status = Empty => api' = api
      BY Zenon, <1>2, Constants
    <3>2. api = Absent => api' = api
      BY Zenon, <1>2, Constants
    <3> QED BY Zenon, <1>1, <1>2, <3>1, <3>2 DEF CopyInv, Version
  <2>2. Version(view)' /\ Version(worker.obj)'
    <3>1. Version(Absent)'
      BY <1>1, Constants DEF Version, WellFormed
    <3> QED BY <1>1, <1>3, <2>1, <3>1 DEF Version
  <2>3. api'.generation \in Nat
    BY SMTT(30), <1>2 DEF Resource, WellFormed
  <2> QED BY <1>1, <1>3, <1>5, <2>1, <2>2, <2>3 DEF CopyInv
<1>9. FinalizerInv'
  BY Zenon, <1>1, <1>2, <1>3, <1>5 DEF FinalizerInv, Going
<1>10. HomeInv'
  BY Zenon, <1>1, <1>2, <1>3, <1>5, <1>6, Constants DEF HomeInv, AtHome, Named
<1>11. StoredInv' /\ StepInv' /\ NewsInv'
  BY Zenon, <1>1, <1>2, <1>3 DEF StoredInv, StepInv, NewsInv, NoNews
<1>12. SecretInv'
  <2>1. left' <= left
    BY <1>1 DEF CopyInv, WellFormed
  <2>2. Versions' \subseteq Versions \cup {0}
    BY SMTT(30), <1>1, <1>2, <1>3, Constants DEF Versions
  <2> QED BY Zenon, <1>1, <1>3, <2>1, <2>2, SecretStays
<1>13. CachedInv'
  <2>1. Knows(view)' /\ Knows(worker.obj)' /\ (Reflected => Reflected')
    BY Zenon, <1>1, <1>2, <1>3, <1>5, Constants DEF Knows, Reflected
  <2>2. Exists(tenant) /\ cache'[avi[tenant].uuid] = "before" => ~avi[tenant].late
    <3>1. tenant \in Tenants /\ avi[tenant].uuid \in 0..MaxUuid
      BY Zenon, Shapes DEF Objects
    <3>2. Exists(tenant) => avi[tenant].uuid \in Uuids
      BY <3>1 DEF Exists, Uuids, WellFormed
    <3> QED BY Zenon, <1>1, <3>1, <3>2 DEF PopulateCache
  <2>3. Unmoved /\ Untouched /\ Exists(tenant) => api.finalizer
    BY Shapes DEF HomeInv
  <2> QED BY Zenon, <1>1, <1>2, <1>3, <1>5, <1>6, <2>1, <2>2, <2>3 DEF CachedInv
<1> QED BY Zenon, <1>7, <1>8, <1>9, <1>10, <1>11, <1>12, <1>13

-----------------------------------------------------------------------------
\* The worker takes the request and reads the resource.
LEMMA ReconcileKeeps ==
    ASSUME WellFormed, CrdInv, Reconcile
    PROVE  CrdInv'
<1> USE DEF CrdInv
<1>1. /\ api' = api /\ view' = view /\ tenant' = tenant /\ secret' = secret /\ avi' = avi
      /\ inUse' = inUse /\ cache' = cache /\ kind' = kind /\ left' = left /\ happened' = happened
      /\ creates' = creates /\ ~queued' /\ queued' \in BOOLEAN /\ worker.at = "idle"
      /\ current' = IF "view" \in current THEN {"view", "worker"} ELSE {}
  BY Zenon DEF Reconcile, environment, AtStep
<1>2. /\ worker' \in Workers /\ worker'.obj = view /\ worker'.tenant = None /\ ~worker'.moving
      /\ worker'.secret = 0
      /\ worker'.at \in {"idle", "delete", "addFinalizer", "tenant"}
      /\ (worker'.at = "idle" <=> ~view.there)
      /\ (worker'.at = "delete" <=> view.there /\ view.deleting)
      /\ (worker'.at = "addFinalizer" <=> view.there /\ ~view.deleting /\ ~view.finalizer)
      /\ (worker'.at = "tenant" <=> view.there /\ ~view.deleting /\ view.finalizer)
      /\ worker' = [Idle EXCEPT !.obj = view, !.at = worker'.at]
  <2>1. PICK s \in {"idle", "delete", "addFinalizer", "tenant"} :
           /\ worker' = [Idle EXCEPT !.obj = view, !.at = s]
           /\ s = "idle" <=> ~view.there
           /\ s = "delete" <=> view.there /\ view.deleting
           /\ s = "addFinalizer" <=> view.there /\ ~view.deleting /\ ~view.finalizer
           /\ s = "tenant" <=> view.there /\ ~view.deleting /\ view.finalizer
    BY Zenon DEF Reconcile
  <2>2. Idle \in Workers /\ view \in Resource
    BY Zenon, Constants, Shapes
  <2>3. worker' \in Workers /\ worker'.obj = view /\ worker'.at = s
    BY Zenon, <2>1, <2>2 DEF Workers
  <2>4. worker'.tenant = None /\ ~worker'.moving /\ worker'.secret = 0
    BY Zenon, <2>1 DEF Idle
  <2> QED BY Zenon, <2>1, <2>3, <2>4
<1>3. /\ ~Programs /\ ~Guarded /\ ~Removes
      /\ (Programs' <=> view.there /\ ~view.deleting)
      /\ (Guarded' <=> view.there /\ ~view.deleting /\ view.finalizer)
      /\ (Removes' <=> view.there /\ view.deleting)
  <2>1. ~Programs /\ ~Guarded /\ ~Removes
    BY Zenon, <1>1 DEF Programs, Guarded, Removes
  <2>2. Programs' <=> view.there /\ ~view.deleting
    BY Zenon, <1>2 DEF Programs
  <2>3. Removes' <=> view.there /\ view.deleting
    BY Zenon, <1>2 DEF Removes
  <2> QED BY Zenon, <1>2, <2>1, <2>2, <2>3 DEF Guarded
<1>4. /\ (Unmoved' <=> Unmoved) /\ (Untouched' <=> Untouched) /\ (\A x : Exists(x)' <=> Exists(x))
      /\ (HasSecret' <=> HasSecret)
  BY Zenon, <1>1 DEF Unmoved, Untouched, Exists, HasSecret
<1>5. view.generation \in Nat /\ api.generation \in Nat
  BY Shapes DEF Resource, WellFormed
<1>6. TypeOK'
  BY Zenon, <1>1, <1>2 DEF TypeOK, Workers
<1>7. CopyInv'
  <2>1. ASSUME ~view.there PROVE worker' = Idle
    <3>1. worker' = [Idle EXCEPT !.obj = Absent, !.at = "idle"]
      BY Zenon, <1>2, <2>1 DEF CopyInv, Version
    <3> QED BY Zenon, <3>1 DEF Idle
  <2>2. "view" \in current => view = [api EXCEPT !.status = view.status]
    BY Zenon, Shapes DEF CopyInv, Resource
  <2> QED BY <1>1, <1>2, <1>3, <1>5, <2>1, <2>2 DEF CopyInv, Version
<1>8. FinalizerInv'
  BY Zenon, <1>1, <1>2, <1>3, <1>5 DEF FinalizerInv, Going, CopyInv
<1>9. HomeInv'
  <2>1. Unmoved /\ Untouched /\ api.status.uuid # 0 /\ ~view.deleting =>
           api.status.uuid = avi[tenant].uuid
    BY Zenon DEF HomeInv
  <2> QED BY Zenon, <1>1, <1>2, <1>3, <1>4, <2>1 DEF HomeInv, AtHome, Named
<1>10. StoredInv' /\ StepInv'
  BY Zenon, <1>1, <1>2 DEF StoredInv, StepInv
<1>11. NewsInv'
  <2>1. (api.there => api.uid # 0) /\ (~view.there => view.uid = 0)
    BY Constants DEF CopyInv, Version
  <2> QED BY Zenon, <1>1, <1>2, <1>3, <2>1 DEF NewsInv, NoNews
<1>12. SecretInv'
  <2>1. Versions' \subseteq Versions \cup {0}
    BY Zenon, <1>1, <1>2 DEF Versions
  <2>2. left' \in 0..MaxDisturbances /\ left' <= left
    BY <1>1 DEF CopyInv, WellFormed
  <2> QED BY Zenon, <1>1, <1>2, <2>1, <2>2, SecretStays
<1>13. CachedInv'
  <2>1. /\ (Knows(view)' <=> Knows(view)) /\ (Knows(worker.obj)' <=> Knows(view))
        /\ (Reflected' <=> Reflected)
    BY Zenon, <1>1, <1>2, <1>4 DEF Knows, Reflected
  <2> QED BY <1>1, <1>2, <1>3, <1>4, <1>5, <2>1 DEF CachedInv
<1> QED BY <1>6, <1>7, <1>8, <1>9, <1>10, <1>11, <1>12, <1>13

\* The worker compares the tenants.
LEMMA TenantKeeps ==
    ASSUME WellFormed, CrdInv, TenantUpdate
    PROVE  CrdInv'
<1> USE DEF CrdInv
<1>1. /\ api' = api /\ view' = view /\ tenant' = tenant /\ secret' = secret /\ avi' = avi
      /\ inUse' = inUse /\ cache' = cache /\ kind' = kind /\ left' = left /\ happened' = happened
      /\ creates' = creates /\ queued' = queued /\ current' = current /\ worker.at = "tenant"
  BY Zenon DEF TenantUpdate, environment, AtStep, ReadOnly, Continue
<1>2. /\ worker' \in Workers /\ worker'.obj = worker.obj /\ worker'.tenant = tenant
      /\ worker'.secret = worker.secret /\ worker'.at \in {"delete", "refs"}
      /\ (worker'.moving <=> worker.obj.status.tenant \notin {None, tenant})
      /\ (worker'.at = "delete" <=> worker'.moving)
  <2>1. PICK m \in BOOLEAN, s \in {"delete", "refs"} :
           /\ worker' = [worker EXCEPT !.tenant = tenant, !.moving = m, !.at = s]
           /\ m <=> worker.obj.status.tenant \notin {None, tenant}
           /\ s = "delete" <=> m
    BY Zenon DEF TenantUpdate, Continue
  <2> QED BY Zenon, <2>1, Shapes DEF Workers
<1>3. Programs /\ Guarded /\ ~Removes /\ Programs' /\ Guarded' /\ ~Removes' /\ ~worker.moving
  BY Zenon, <1>1, <1>2 DEF Programs, Guarded, Removes, CopyInv
<1>4. /\ (Unmoved' <=> Unmoved) /\ (Untouched' <=> Untouched) /\ (\A x : Exists(x)' <=> Exists(x))
      /\ (HasSecret' <=> HasSecret)
  BY Zenon, <1>1 DEF Unmoved, Untouched, Exists, HasSecret
<1>6. TypeOK'
  BY Zenon, <1>1, <1>2 DEF TypeOK, Workers
<1>7. CopyInv'
  BY SMTT(30), <1>1, <1>2, <1>3 DEF CopyInv, Version
<1>8. FinalizerInv'
  BY Zenon, <1>1, <1>2, <1>3, Shapes DEF FinalizerInv, Going
<1>9. HomeInv'
  BY Zenon, <1>1, <1>2, <1>3, <1>4 DEF HomeInv, AtHome, Named
<1>10. StoredInv' /\ StepInv'
  BY Zenon, <1>1, <1>2 DEF StoredInv, StepInv
<1>11. NewsInv'
  BY Zenon, <1>1, <1>2, <1>3 DEF NewsInv, NoNews
<1>12. SecretInv'
  <2>1. Versions' = Versions
    BY Zenon, <1>1, <1>2 DEF Versions
  <2>2. left' \in 0..MaxDisturbances /\ left' <= left
    BY SMTT(30), <1>1 DEF CopyInv, WellFormed
  <2> QED BY Zenon, <1>1, <1>2, <2>1, <2>2, SecretStays
<1>13. CachedInv'
  <2>1. /\ (Knows(view)' <=> Knows(view)) /\ (Knows(worker.obj)' <=> Knows(worker.obj))
        /\ (Reflected' <=> Reflected)
    BY Zenon, <1>1, <1>2, <1>4 DEF Knows, Reflected
  <2> QED BY Zenon, <1>1, <1>2, <1>3, <1>4, <2>1 DEF CachedInv
<1> QED BY <1>6, <1>7, <1>8, <1>9, <1>10, <1>11, <1>12, <1>13

\* The finalizer is added to the last version, and the worker goes on with that.
LEMMA AddFinalizerKeeps ==
    ASSUME WellFormed, CrdInv, AddFinalizer, api.there
    PROVE  CrdInv'
<1> USE DEF CrdInv
<1>1. /\ view' = view /\ tenant' = tenant /\ secret' = secret /\ avi' = avi
      /\ inUse' = inUse /\ cache' = cache /\ kind' = kind /\ left' = left /\ happened' = happened
      /\ creates' = creates /\ queued' = queued /\ current' = {"worker"} /\ worker.at = "addFinalizer"
  BY Zenon DEF AddFinalizer, environment, AtStep, Continue
<1>0. /\ api' = [api EXCEPT !.finalizer = TRUE]
      /\ worker' = [worker EXCEPT !.at = "tenant", !.obj = api']
  BY Zenon, Shapes DEF AddFinalizer, Continue, Goto, Workers
<1>2. /\ api' \in Resource /\ api'.there /\ api'.uid = api.uid /\ api'.finalizer
      /\ api'.deleting = api.deleting /\ api'.generation = api.generation /\ api'.status = api.status
  BY Zenon, <1>0, Shapes DEF Resource
<1>3. /\ worker' \in Workers /\ worker'.obj = api' /\ worker'.at = "tenant"
      /\ worker'.tenant = worker.tenant /\ worker'.secret = worker.secret
      /\ ~worker'.moving /\ ~worker.moving
  BY Zenon, <1>0, <1>1, <1>2, Shapes DEF Workers, CopyInv
<1>4. Programs /\ ~Guarded /\ ~Removes /\ Programs' /\ Guarded' /\ ~Removes'
  BY Zenon, <1>1, <1>3 DEF Programs, Guarded, Removes
<1>5. /\ (Unmoved' <=> Unmoved) /\ (Untouched' <=> Untouched) /\ (\A x : Exists(x)' <=> Exists(x))
      /\ (HasSecret' <=> HasSecret)
  BY Zenon, <1>1 DEF Unmoved, Untouched, Exists, HasSecret
<1>6. api.generation \in Nat
  BY Shapes DEF Resource, WellFormed
<1>7. TypeOK'
  BY Zenon, <1>1, <1>2, <1>3 DEF TypeOK, Workers
<1>8. CopyInv'
  <2>1. api' = [api' EXCEPT !.status = api'.status]
    BY Zenon, <1>2 DEF Resource
  <2> QED BY <1>1, <1>2, <1>3, <1>4, <1>6, <2>1 DEF CopyInv, Version
<1>9. FinalizerInv'
  BY SMTT(30), <1>1, <1>2, <1>3, <1>4, <1>6 DEF FinalizerInv, Going
<1>10. HomeInv'
  BY Zenon, <1>1, <1>2, <1>3, <1>4, <1>5 DEF HomeInv, AtHome, Named
<1>11. StoredInv' /\ StepInv'
  BY Zenon, <1>1, <1>3 DEF StoredInv, StepInv
<1>12. NewsInv'
  BY Zenon, <1>1, <1>2, <1>3 DEF NewsInv, NoNews
<1>13. SecretInv'
  <2>1. Versions' \subseteq Versions
    BY Zenon, <1>1, <1>2, <1>3 DEF Versions
  <2>2. left' \in 0..MaxDisturbances /\ left' <= left
    BY SMTT(30), <1>1 DEF CopyInv, WellFormed
  <2> QED BY Zenon, <1>1, <1>3, <2>1, <2>2, SecretStays
<1>14. CachedInv'
  <2>1. (Knows(view)' <=> Knows(view)) /\ Knows(worker.obj)' /\ (Reflected' <=> Reflected)
    BY Zenon, <1>1, <1>2, <1>3, <1>5 DEF Knows, Reflected
  <2> QED BY Zenon, <1>1, <1>2, <1>3, <1>4, <1>5, <2>1 DEF CachedInv
<1> QED BY Zenon, <1>7, <1>8, <1>9, <1>10, <1>11, <1>12, <1>13, <1>14

\* The finalizer is removed, and the resource goes.
LEMMA RemoveFinalizerKeeps ==
    ASSUME WellFormed, CrdInv, RemoveFinalizer, api.there
    PROVE  CrdInv'
<1> USE DEF CrdInv
<1>1. /\ view' = view /\ tenant' = tenant /\ secret' = secret /\ avi' = avi
      /\ inUse' = inUse /\ cache' = cache /\ kind' = kind /\ left' = left /\ happened' = happened
      /\ creates' = creates /\ queued' \in BOOLEAN /\ (~queued' => ~queued)
      /\ current' = {} /\ worker.at = "removeFinalizer" /\ worker' = Idle
  BY Zenon DEF RemoveFinalizer, Written, environment, AtStep, Done, TypeOK
<1>2. Idle.at = "idle" /\ Idle.obj = Absent /\ ~Idle.moving /\ Idle.secret = 0 /\ Idle \in Workers
  BY Zenon, Constants
<1>3. ~Programs /\ Removes /\ ~Guarded /\ ~Programs' /\ ~Guarded' /\ ~Removes'
  BY Zenon, <1>1, <1>2 DEF Programs, Guarded, Removes
<1>4. \/ api.deleting /\ api' = Absent
      \/ ~api.deleting /\ api' = api
  <2>1. CASE api.deleting
    BY Zenon, <2>1 DEF RemoveFinalizer, Written
  <2>2. CASE ~api.deleting
    <3>1. ~api.finalizer /\ api.finalizer \in BOOLEAN
      BY Zenon, <1>3, <2>2, Shapes DEF FinalizerInv, Going, Resource
    <3>2. api' = [api EXCEPT !.finalizer = FALSE]
      BY Zenon, <2>2 DEF RemoveFinalizer, Written
    <3> QED BY Zenon, <2>2, <3>1, <3>2, Shapes DEF Resource
  <2> QED BY Zenon, <2>1, <2>2
<1>5. /\ (Unmoved' <=> Unmoved) /\ (Untouched' <=> Untouched) /\ (\A x : Exists(x)' <=> Exists(x))
      /\ (HasSecret' <=> HasSecret)
  BY Zenon, <1>1 DEF Unmoved, Untouched, Exists, HasSecret
<1>6. view.there => view.uid # 0
  BY SMTT(30) DEF CopyInv, Version
<1>7. TypeOK'
  BY <1>1, <1>2, <1>4, Constants DEF TypeOK, Workers
<1>8. CopyInv'
  <2>1. Version(Absent)' /\ view.generation \in Nat
    BY Constants, Shapes DEF Version, Resource, WellFormed
  <2>2. view.uid = 0 => view = Absent
    BY Zenon, <1>6 DEF CopyInv, Version
  <2> QED BY SMTT(30), <1>1, <1>2, <1>3, <1>4, <2>1, <2>2, Constants DEF CopyInv, Version
<1>9. FinalizerInv'
  BY Zenon, <1>1, <1>2, <1>3, <1>4, Constants DEF FinalizerInv, Going
<1>10. HomeInv'
  <2>1. view.status.uuid # 0 => view.deleting
    BY Zenon, <1>3, Constants DEF FinalizerInv, Going, CopyInv, Version
  <2>2. ~api.deleting => api.status = Empty
    BY Zenon, <1>3 DEF FinalizerInv, Going, CopyInv, Version
  <2> QED BY Zenon, <1>1, <1>2, <1>3, <1>4, <1>5, <2>1, <2>2, Constants DEF HomeInv, AtHome, Named
<1>11. StoredInv' /\ StepInv'
  BY Zenon, <1>1, <1>2 DEF StoredInv, StepInv
<1>12. NewsInv'
  <2>1. ~NoNews'
    BY Zenon, <1>1, <1>3, <1>4, Constants DEF NewsInv, NoNews, FinalizerInv
  <2> QED BY Zenon, <2>1 DEF NewsInv
<1>13. SecretInv'
  <2>1. Versions' \subseteq Versions \cup {0}
    BY <1>1, <1>2, <1>4, Constants DEF Versions
  <2>2. left' \in 0..MaxDisturbances /\ left' <= left
    BY SMTT(30), <1>1 DEF CopyInv, WellFormed
  <2> QED BY Zenon, <1>1, <1>2, <2>1, <2>2, SecretStays
<1>14. CachedInv'
  <2>1. Unmoved /\ Untouched => ~Exists(tenant)
    BY Zenon, <1>1 DEF HomeInv
  <2>2. (Knows(view) => Knows(view)') /\ Knows(worker.obj)'
    BY Zenon, <1>1, <1>2, <1>4, <1>5, <1>6, Constants DEF Knows
  <2> QED BY Zenon, <1>1, <1>2, <1>3, <1>5, <2>1, <2>2 DEF CachedInv
<1> QED BY <1>7, <1>8, <1>9, <1>10, <1>11, <1>12, <1>13, <1>14

-----------------------------------------------------------------------------
(* How a turn of the worker ends.                                          *)

\* What a request to the controller leaves alone.
Quiet ==
    /\ kind' = kind /\ view' = view /\ tenant' = tenant /\ secret' = secret /\ inUse' = inUse
    /\ creates' = creates /\ cache' = cache
    /\ left' \in 0..MaxDisturbances /\ left' <= left
    /\ (Unmoved' <=> Unmoved) /\ (Untouched' <=> Untouched)
    /\ ("crash" \in happened' <=> "crash" \in happened)
Ends == worker.at # "idle" /\ worker' = Idle /\ queued' \in BOOLEAN

\* What becomes of the objects: they stay, the one of the worker's tenant is stored, or
\* one is deleted.
Same(t) ==
    avi'[t].uuid = avi[t].uuid /\ avi'[t].spec = avi[t].spec /\ avi'[t].secret = avi[t].secret
Kept == \A t \in Tenants : Same(t)
Filled ==
    /\ worker.at \in {"put", "post"}
    /\ \A t \in Tenants : t # worker.tenant => Same(t)
    /\ avi'[worker.tenant].spec = worker.obj.generation
    /\ avi'[worker.tenant].secret = worker.secret
    /\ \/ Exists(worker.tenant) /\ avi'[worker.tenant].uuid = avi[worker.tenant].uuid
       \/ ~Exists(worker.tenant) /\ avi'[worker.tenant].uuid \in Uuids \ Used
Cleared ==
    /\ worker.at = "delete"
    /\ \A t \in Tenants : Same(t) \/ (avi'[t].uuid = 0 /\ avi'[t].secret = 0)

\* What becomes of the status: it stays, tells of an error, or of the success.
Unreported ==
    /\ api' = api /\ current' = current
    /\ \A t \in Tenants : avi'[t] = avi[t] \/ avi'[t].late \/ avi'[t].uuid = 0
Reported ==
    /\ Writable /\ current' = {"worker"} /\ api' \in Resource
    /\ api'.there = api.there /\ api'.uid = api.uid /\ api'.deleting = api.deleting
    /\ api'.finalizer = api.finalizer /\ api'.generation = api.generation
    /\ api'.status.updated = "now"
Complaint ==
    /\ Reported /\ worker.at \in {"delete", "refs", "put", "post"}
    /\ api'.status.uuid = worker.obj.status.uuid /\ api'.status.tenant = worker.obj.status.tenant
    /\ api'.status.condition \in {"failed", "rejected"}
    /\ api'.status.observed \in {worker.obj.status.observed, worker.obj.generation}
    /\ \/ api'.status.dependency = worker.obj.status.dependency
       \/ api'.status.dependency = 0 /\ HasSecret /\ secret = 0
Success ==
    /\ Reported /\ worker.at = "status" /\ Kept
    /\ api'.status.uuid = worker.uuid /\ api'.status.tenant = worker.tenant
    /\ api'.status.condition = "programmed"
    /\ api'.status.observed = worker.obj.generation
    /\ api'.status.dependency = worker.secret

\* A report is of the last version, which has the finalizer.
LEMMA ReportIsCurrent ==
    ASSUME WellFormed, CrdInv, Complaint \/ Success
    PROVE  api.finalizer /\ (~worker.moving => worker.obj = api)
<1> USE DEF CrdInv
<1>1. "worker" \in current /\ worker.at \in {"delete", "refs", "put", "post", "status"}
  BY Zenon DEF Complaint, Success, Reported, Writable
<1>2. ~worker.moving => worker.obj = api
  BY Zenon, <1>1 DEF CopyInv
<1>3. CASE Guarded
  BY Zenon, <1>2, <1>3 DEF FinalizerInv
<1>4. CASE Removes
  <2>1. ~worker.moving
    BY Zenon, <1>1, <1>4 DEF Removes
  <2> QED BY Zenon, <1>2, <1>4, <2>1 DEF FinalizerInv, CopyInv, Version
<1> QED BY Zenon, <1>1, <1>2, <1>3, <1>4 DEF Guarded, Programs, Removes

\* The end of a turn keeps the types and the copies.
LEMMA EndKeepsCopies ==
    ASSUME WellFormed, CrdInv, Quiet, Ends, avi' \in [Tenants -> Objects],
           Unreported \/ Complaint \/ Success
    PROVE  TypeOK' /\ CopyInv' /\ FinalizerInv' /\ StoredInv' /\ StepInv'
<1> USE DEF CrdInv
<1>1. Idle.at = "idle" /\ Idle.obj = Absent /\ ~Idle.moving /\ Idle.secret = 0 /\ Idle \in Workers
  BY Zenon, Constants
<1>2. ~Programs' /\ ~Guarded' /\ ~Removes'
  BY Zenon, <1>1 DEF Programs, Guarded, Removes, Ends
<1>3. /\ api' \in Resource /\ api'.there = api.there /\ api'.uid = api.uid
      /\ api'.deleting = api.deleting /\ api'.finalizer = api.finalizer
      /\ api'.generation = api.generation
      /\ current' = {"worker"} \/ (current' = current /\ api' = api)
  BY Zenon, Shapes DEF Unreported, Complaint, Success, Reported
<1>4. TypeOK'
  BY Zenon, <1>1, <1>3 DEF TypeOK, Quiet, Ends, Objects, Workers
<1>5. Version(api)'
  <2>1. CASE api' = api
    BY Zenon, <2>1 DEF CopyInv, Version, Quiet
  <2>2. CASE Complaint \/ Success
    <3>1. api.there /\ api.finalizer
      BY Zenon, <2>2, ReportIsCurrent DEF Complaint, Success, Reported, Writable
    <3>2. api'.status.condition # "none"
      BY Zenon, <2>2 DEF Complaint, Success
    <3>3. api'.status.uuid # 0 => api'.status.tenant # None
      <4>1. CASE Complaint
        BY Zenon, <4>1 DEF Complaint, CopyInv, Version
      <4>2. CASE Success
        BY Zenon, <4>2 DEF Success, FinalizerInv, WellFormed
      <4> QED BY Zenon, <2>2, <4>1, <4>2
    <3> QED BY Zenon, <1>3, <3>1, <3>2, <3>3 DEF CopyInv, Version, Quiet
  <2> QED BY Zenon, <2>1, <2>2 DEF Unreported
<1>6. CopyInv'
  <2>1. Version(view)' /\ Version(Absent)'
    BY Constants DEF CopyInv, Version, Quiet, WellFormed
  <2>2. creates' \in 0..MaxCreates /\ left' \in 0..MaxDisturbances
    BY Zenon DEF CopyInv, Quiet
  <2> QED BY Zenon, <1>1, <1>2, <1>3, <1>5, <2>1, <2>2 DEF CopyInv, Quiet, Ends
<1>7. FinalizerInv'
  BY Zenon, <1>1, <1>2, <1>3 DEF FinalizerInv, Going, Quiet, Ends
<1>8. StoredInv' /\ StepInv'
  BY Zenon, <1>1 DEF StoredInv, StepInv, Ends
<1> QED BY Zenon, <1>4, <1>6, <1>7, <1>8

\* The end of a turn keeps the objects at home and the statuses true.
LEMMA EndKeepsHome ==
    ASSUME WellFormed, CrdInv, Quiet, Ends, avi' \in [Tenants -> Objects],
           Unreported \/ Complaint \/ Success, Kept \/ Filled \/ Cleared
    PROVE  HomeInv'
<1> USE DEF CrdInv
<1> SUFFICES ASSUME Unmoved, Untouched PROVE HomeInv'
  BY Zenon DEF HomeInv, Quiet
<1>1. Idle.at = "idle" /\ Idle.obj = Absent /\ ~Idle.moving /\ Absent.status = Empty
      /\ Empty.uuid = 0 /\ Empty.tenant = None
  BY Zenon, Constants
<1>2. ~Programs' /\ worker'.at = "idle" /\ worker'.obj = Absent /\ ~worker'.moving
      /\ view' = view /\ tenant' = tenant /\ tenant \in Tenants
  BY Zenon, <1>1, Shapes DEF Programs, Ends, Quiet
<1>3. ~worker.moving /\ AtHome(api) /\ AtHome(view) /\ Named(api) /\ Named(view)
  BY Zenon DEF HomeInv
<1>4. api'.finalizer = api.finalizer /\ api'.deleting = api.deleting
  BY Zenon DEF Unreported, Complaint, Success, Reported
<1>5. \/ api'.status.uuid = api.status.uuid /\ api'.status.tenant = api.status.tenant
      \/ /\ worker.at = "status" /\ Kept /\ api'.status.tenant = tenant
         /\ api'.status.uuid = avi[tenant].uuid
  <2>1. CASE Complaint
    BY Zenon, <1>3, <2>1, ReportIsCurrent DEF Complaint
  <2>2. CASE Success
    BY Zenon, <2>2 DEF Success, HomeInv, StoredInv
  <2> QED BY Zenon, <2>1, <2>2 DEF Unreported
<1>6. AtHome(api)' /\ AtHome(view)' /\ AtHome(worker.obj)'
  BY Zenon, <1>1, <1>2, <1>3, <1>5 DEF AtHome
<1>7. Filled => Programs /\ worker.tenant = tenant /\ api.finalizer
  <2>1. Filled => Guarded
    BY Zenon DEF Filled, Guarded, Programs
  <2> QED BY Zenon, <2>1 DEF Filled, HomeInv, FinalizerInv, Guarded
<1>8. \A t \in Tenants : Exists(t)' => t = tenant /\ api'.finalizer
  BY Zenon, <1>4, <1>7 DEF HomeInv, Exists, Kept, Filled, Cleared, Same
<1>9. Cleared => Removes
  BY Zenon, <1>3 DEF Cleared, Removes
<1>10. (Exists(tenant)' <=> avi'[tenant].uuid # 0) /\ (Exists(tenant) <=> avi[tenant].uuid # 0)
  BY Zenon, <1>2 DEF Exists
<1>11. Named(view)' /\ Named(worker.obj)'
  <2>1. CASE Kept
    BY Zenon, <1>1, <1>2, <1>3, <1>10, <2>1 DEF Named, Kept, Same
  <2>2. CASE Filled
    BY Zenon, <1>1, <1>2, <1>3, <1>7, <1>10, <2>2 DEF Named, Filled
  <2>3. CASE Cleared
    <3>1. view.status.uuid # 0 => view.deleting
      BY Zenon, <1>1, <1>9, <2>3 DEF FinalizerInv, Going, CopyInv, Version
    <3> QED BY Zenon, <1>1, <1>2, <1>3, <1>10, <2>3, <3>1 DEF Named, Cleared, Same
  <2> QED BY Zenon, <2>1, <2>2, <2>3
<1>12. Named(api)' /\ (api'.status.uuid # 0 => api'.status.uuid = avi'[tenant].uuid \/ view.deleting)
  <2>1. CASE Kept
    BY Zenon, <1>2, <1>3, <1>4, <1>5, <1>10, <2>1 DEF Named, Kept, Same, HomeInv
  <2>2. CASE Filled
    BY Zenon, <1>2, <1>3, <1>4, <1>5, <1>7, <1>10, <2>2 DEF Named, Filled
  <2>3. CASE Cleared
    <3>1. api.status.uuid # 0 => api.deleting /\ view.deleting
      BY Zenon, <1>1, <1>9, <2>3 DEF FinalizerInv, Going, CopyInv, Version
    <3> QED BY Zenon, <1>2, <1>3, <1>4, <1>5, <1>10, <2>3, <3>1 DEF Named, Cleared, Same
  <2> QED BY Zenon, <2>1, <2>2, <2>3
<1> QED BY Zenon, <1>2, <1>6, <1>8, <1>11, <1>12 DEF HomeInv

\* The end of a turn brings no new version of the Secret.
LEMMA EndKeepsSecret ==
    ASSUME WellFormed, CrdInv, Quiet, Ends,
           Unreported \/ Complaint \/ Success, Kept \/ Filled \/ Cleared
    PROVE  SecretInv'
<1> USE DEF CrdInv
<1>1. worker'.at = "idle" /\ worker'.secret = 0 /\ worker'.obj.status.dependency = 0 /\ view' = view
  BY Zenon, Constants DEF Ends, Quiet
<1>2. \A t \in Tenants : avi'[t].secret \in {avi[t].secret, worker.secret, 0}
  BY Zenon DEF Kept, Filled, Cleared, Same
<1>3. api'.status.dependency \in
         {api.status.dependency, worker.obj.status.dependency, worker.secret, 0}
  BY Zenon DEF Unreported, Complaint, Success
<1>4. Versions' \subseteq Versions \cup {0}
  BY Zenon, <1>1, <1>2, <1>3 DEF Versions
<1> QED BY Zenon, <1>1, <1>4, SecretStays DEF Quiet

\* The end of a turn forgets nothing: the last status knows at least what the copies
\* know, and the object is as new as it says.
LEMMA EndKeepsCached ==
    ASSUME WellFormed, CrdInv, Quiet, Ends, avi' \in [Tenants -> Objects],
           Unreported \/ Complaint \/ Success, Kept \/ Filled \/ Cleared
    PROVE  CachedInv'
<1> USE DEF CrdInv
<1>1. \A u \in Uuids : cache'[u] # "absent" => "crash" \in happened'
  BY Zenon DEF CachedInv, Quiet
<1> SUFFICES ASSUME Unmoved, Untouched PROVE CachedInv'
  BY Zenon, <1>1 DEF CachedInv, Quiet
<1>2. worker'.at = "idle" /\ ~worker'.obj.there /\ ~Guarded'
  BY Zenon, Constants DEF Ends, Guarded, Programs
<1>3. /\ ~worker.moving /\ tenant' = tenant /\ view' = view /\ cache' = cache /\ tenant \in Tenants
      /\ secret' = secret /\ (HasSecret' <=> HasSecret)
  BY Zenon, Shapes DEF HomeInv, Quiet, HasSecret
<1>4. /\ api'.there = api.there /\ api'.uid = api.uid /\ api'.finalizer = api.finalizer
      /\ api'.generation = api.generation
  BY Zenon DEF Unreported, Complaint, Success, Reported
<1>5. /\ avi[tenant].spec \in Nat /\ avi[tenant].secret \in Nat /\ worker.secret \in Nat
      /\ worker.obj.generation \in Nat /\ api.generation \in Nat /\ view.generation \in Nat
      /\ api.status.observed \in Nat /\ api.status.dependency \in Nat /\ secret \in Nat
      /\ avi'[tenant].spec \in Nat /\ avi'[tenant].secret \in Nat
  <2>1. avi[tenant] \in Objects /\ avi'[tenant] \in Objects
    BY Zenon, <1>3, Shapes
  <2> QED BY Zenon, <2>1, Numbers
<1>6. Knows(view)' /\ Knows(worker.obj)'
  <2>1. Knows(view)
    BY Zenon DEF CachedInv
  <2>2. CASE Unreported
    <3>1. api' = api
      BY Zenon, <2>2 DEF Unreported
    <3> QED BY Zenon, <1>2, <1>3, <2>1, <3>1 DEF Knows
  <2>3. CASE Complaint
    <3>1. worker.obj = api
      BY Zenon, <1>3, <2>3, ReportIsCurrent
    <3>2. /\ api'.status.uuid = api.status.uuid /\ api'.status.updated = "now"
          /\ api'.status.observed \in {api.status.observed, api.generation}
          /\ api'.status.dependency = api.status.dependency \/ secret = 0
      BY Zenon, <2>3, <3>1 DEF Complaint, Reported
    <3> QED BY Zenon, <1>2, <1>3, <1>4, <2>1, <3>2 DEF Knows
  <2>4. CASE Success
    <3>1. worker.obj = api /\ worker.uuid # 0
      BY Zenon, <1>3, <2>4, ReportIsCurrent DEF StoredInv, Success
    <3>2. HasSecret /\ secret # 0 /\ view.status.dependency = secret => worker.secret = secret
      <4>1. view.status.dependency \in Versions /\ worker.secret \in Versions
        BY Zenon DEF Versions
      <4> QED BY <1>5, <2>4, <4>1 DEF SecretInv, Success
    <3>3. /\ api'.status.uuid # 0 /\ api'.status.updated = "now"
          /\ api'.status.observed = api.generation /\ api'.status.dependency = worker.secret
      BY Zenon, <2>4, <3>1 DEF Success, Reported
    <3> QED BY Zenon, <1>2, <1>3, <1>4, <2>1, <3>2, <3>3 DEF Knows
  <2> QED BY Zenon, <1>2, <2>2, <2>3, <2>4 DEF Knows
<1>7. Filled => /\ worker.tenant = tenant /\ Guarded /\ worker.obj.generation <= api.generation
                /\ HasSecret => avi[tenant].secret <= worker.secret
  <2>1. Filled => Guarded /\ worker.tenant = tenant
    BY Zenon DEF Filled, Guarded, Programs, HomeInv
  <2>2. avi[tenant].secret \in Versions
    BY Zenon, <1>3 DEF Versions
  <2> QED BY Zenon, <2>1, <2>2 DEF Filled, FinalizerInv, SecretInv
<1>8. avi'[tenant].uuid # 0 => \/ Same(tenant)
                              \/ /\ Filled /\ avi'[tenant].spec = worker.obj.generation
                                 /\ avi'[tenant].secret = worker.secret
                                 /\ \/ Exists(tenant) /\ avi'[tenant].uuid = avi[tenant].uuid
                                    \/ ~Exists(tenant) /\ avi'[tenant].uuid \in Uuids \ Used
  BY Zenon, <1>3, <1>7 DEF Kept, Filled, Cleared
<1>9. avi'[tenant].uuid # 0 => avi'[tenant].spec <= api.generation
  BY Zenon, <1>5, <1>7, <1>8 DEF CachedInv, Same, Exists
<1>10. Complaint => Reflected'
  BY Zenon DEF Complaint, Reflected
<1>11. Success => Reflected'
  <2>1. ASSUME Success PROVE Reflected'
    <3>1. /\ avi'[tenant].spec = worker.obj.generation /\ avi'[tenant].secret = worker.secret
      BY Zenon, <1>3, <2>1 DEF Success, Kept, Same, StoredInv, HomeInv
    <3> QED BY SMTT(30), <1>3, <1>5, <2>1, <3>1 DEF Success, Reflected
  <2> QED BY Zenon, <2>1
<1>12. ASSUME avi'[tenant].uuid # 0, ~avi'[tenant].late PROVE Reflected'
  <2>1. CASE Unreported
    <3>1. avi'[tenant] = avi[tenant]
      BY Zenon, <1>3, <1>12, <2>1 DEF Unreported
    <3>2. Reflected
      BY Zenon, <1>12, <3>1 DEF CachedInv, Exists
    <3> QED BY Zenon, <1>3, <2>1, <3>1, <3>2 DEF Reflected, Unreported
  <2> QED BY Zenon, <1>10, <1>11, <2>1
<1>13. ASSUME avi'[tenant].uuid # 0, cache[avi'[tenant].uuid] # "absent"
       PROVE  /\ avi'[tenant].uuid = avi[tenant].uuid /\ Exists(tenant)
              /\ view.finalizer /\ view.uid = api.uid /\ avi'[tenant].spec <= view.generation
              /\ avi[tenant].spec <= avi'[tenant].spec
              /\ HasSecret => avi[tenant].secret <= avi'[tenant].secret
  <2>1. avi'[tenant].uuid = avi[tenant].uuid
    BY Zenon, <1>8, <1>13 DEF Same, Used
  <2>2. Exists(tenant) /\ cache[avi[tenant].uuid] # "absent"
    BY Zenon, <1>13, <2>1 DEF Exists
  <2>3. /\ view.finalizer /\ view.uid = api.uid /\ avi[tenant].spec <= view.generation
        /\ Guarded => /\ avi[tenant].spec <= worker.obj.generation
                      /\ worker.obj.generation <= view.generation
    BY Zenon, <2>2 DEF CachedInv
  <2>4. CASE Same(tenant)
    BY <1>5, <2>1, <2>2, <2>3, <2>4 DEF Same
  <2>5. CASE Filled /\ avi'[tenant].spec = worker.obj.generation /\ avi'[tenant].secret = worker.secret
    BY Zenon, <1>7, <2>1, <2>2, <2>3, <2>5
  <2> QED BY Zenon, <1>8, <1>13, <2>4, <2>5
<1>14. ASSUME avi'[tenant].uuid # 0, cache[avi'[tenant].uuid] # "absent",
              cache[avi'[tenant].uuid] = "before" \/ api'.status.updated = "now"
       PROVE  Reflected'
  <2>1. CASE Unreported
    <3>1. Reflected
      BY Zenon, <1>13, <1>14, <2>1 DEF CachedInv, Unreported
    <3>2. api' = api
      BY <2>1 DEF Unreported
    <3>3. \A a, b, c \in Nat : a <= b /\ b <= c => a <= c
      OBVIOUS
    <3>4. avi[tenant].spec <= avi'[tenant].spec /\ (HasSecret => avi[tenant].secret <= avi'[tenant].secret)
      BY Zenon, <1>13, <1>14
    <3> QED BY Zenon, <1>3, <1>5, <3>1, <3>2, <3>3, <3>4 DEF Reflected
  <2> QED BY <1>10, <1>11, <2>1
<1>15. Exists(tenant)' <=> avi'[tenant].uuid # 0
  BY Zenon, <1>3 DEF Exists
<1> QED BY Zenon, <1>1, <1>2, <1>3, <1>4, <1>6, <1>9, <1>12, <1>13, <1>14, <1>15 DEF CachedInv

\* The end of a turn as a whole: a request that is not in the queue has had its last
\* word, a rejection or the success.
LEMMA EndKeeps ==
    ASSUME WellFormed, CrdInv, Quiet, Ends, avi' \in [Tenants -> Objects],
           Unreported \/ Complaint \/ Success, Kept \/ Filled \/ Cleared,
           ~queued' => ~queued,
           \/ queued'
           \/ HasSecret /\ secret = 0
           \/ Success
           \/ /\ api'.status.condition = "rejected"
              /\ api'.status.observed = worker.obj.generation
           \/ NoNews /\ Untouched /\ (Unmoved \/ "crash" \notin happened) => Final'
    PROVE  CrdInv'
<1>1. NewsInv'
  <2> USE DEF CrdInv
  <2>1. /\ api'.there = api.there /\ api'.uid = api.uid /\ api'.deleting = api.deleting
        /\ api'.generation = api.generation
    BY Zenon DEF Unreported, Complaint, Success, Reported
  <2>2. worker'.at = "idle" /\ ~Guarded'
    BY Zenon, Constants DEF Ends, Guarded, Programs
  <2>3. ASSUME NoNews', ~(HasSecret /\ secret = 0), Untouched, Unmoved \/ "crash" \notin happened
        PROVE  Final'
    <3>1. NoNews /\ ~queued'
      BY Zenon, <2>1, <2>3 DEF NoNews, Quiet
    <3>2. worker.obj.generation = api.generation
      BY Zenon, <3>1 DEF NewsInv, Ends
    <3>3. CASE Success
      <4>1. /\ worker.tenant = tenant /\ tenant \in Tenants /\ tenant' = tenant /\ secret' = secret
            /\ HasSecret => worker.secret = secret
        BY Zenon, <3>1, <3>3, Shapes DEF NewsInv, Success, Quiet
      <4>2. /\ avi'[tenant].uuid = worker.uuid /\ avi'[tenant].spec = worker.obj.generation
            /\ avi'[tenant].secret = worker.secret
        BY Zenon, <2>3, <3>3, <4>1 DEF Success, Kept, Same, StoredInv
      <4>3. HasSecret' <=> HasSecret
        BY Zenon DEF HasSecret, Quiet
      <4> QED BY Zenon, <2>1, <3>2, <3>3, <4>1, <4>2, <4>3 DEF Final, Success
    <3> QED BY Zenon, <2>1, <2>3, <3>1, <3>2, <3>3 DEF Final
  <2>4. ({"move", "crash"} \subseteq happened') <=> ~(Unmoved \/ "crash" \notin happened)
    BY Zenon DEF Quiet, Unmoved
  <2> QED BY Zenon, <2>2, <2>3, <2>4 DEF NewsInv, Quiet, HasSecret
<1> QED BY Zenon, <1>1, EndKeepsCopies, EndKeepsHome, EndKeepsSecret, EndKeepsCached DEF CrdInv

\* The status of a complaint.
Blames(st) ==
    /\ st \in Status /\ st.uuid = worker.obj.status.uuid /\ st.tenant = worker.obj.status.tenant
    /\ st.condition \in {"failed", "rejected"} /\ st.updated = "now"
    /\ st.observed \in {worker.obj.status.observed, worker.obj.generation}
    /\ \/ st.dependency = worker.obj.status.dependency
       \/ st.dependency = 0 /\ HasSecret /\ secret = 0

\* The statuses that SetStatus and UpdateStatusWithNonRetryableError write are complaints.
LEMMA Blaming ==
    ASSUME WellFormed, CrdInv
    PROVE  /\ Blames(Failed(worker.obj).status) /\ Blames(Rejected(worker.obj).status)
           /\ Rejected(worker.obj).status.condition = "rejected"
           /\ Rejected(worker.obj).status.observed = worker.obj.generation
           /\ HasSecret /\ secret = 0 =>
                 Blames([Rejected(worker.obj) EXCEPT !.status.dependency = 0].status)
<1>1. /\ worker.obj \in Resource /\ worker.obj.status \in Status
      /\ worker.obj.generation \in 0..MaxGen + 1 /\ 0 \in 0..MaxDisturbances + 1
  BY Shapes DEF CrdInv, Resource, WellFormed
<1> DEFINE failed == [worker.obj.status EXCEPT !.condition = "failed", !.updated = "now"]
           rejected == [worker.obj.status EXCEPT !.condition = "rejected", !.updated = "now",
                                                 !.observed = worker.obj.generation]
           missing == [rejected EXCEPT !.dependency = 0]
<1>2. /\ Failed(worker.obj).status = failed /\ Rejected(worker.obj).status = rejected
      /\ Rejected(worker.obj) \in Resource
  BY Zenon, <1>1 DEF Failed, Rejected, Resource, Status
<1>3. [Rejected(worker.obj) EXCEPT !.status.dependency = 0].status = missing
  BY Zenon, <1>2 DEF Resource
<1>4. Blames(failed) /\ Blames(rejected)
  BY Zenon, <1>1 DEF Blames, Status
<1>5. HasSecret /\ secret = 0 => Blames(missing)
  BY Zenon, <1>1 DEF Blames, Status
<1>6. rejected.condition = "rejected" /\ rejected.observed = worker.obj.generation
  BY Zenon, <1>1 DEF Status
<1> HIDE DEF failed, rejected, missing
<1> QED BY Zenon, <1>2, <1>3, <1>4, <1>5, <1>6

\* What Update does.
LEMMA Updating ==
    ASSUME WellFormed, CrdInv, NEW obj, NEW objects \in [Tenants -> Objects],
           obj.status \in Status, Update(obj, objects)
    PROVE  /\ avi' \in [Tenants -> Objects]
           /\ \A t \in Tenants : /\ avi'[t].uuid = objects[t].uuid /\ avi'[t].spec = objects[t].spec
                                 /\ avi'[t].secret = objects[t].secret
           /\ Writable => /\ current' = {"worker"} /\ api' \in Resource /\ api'.there = api.there
                          /\ api'.uid = api.uid /\ api'.deleting = api.deleting
                          /\ api'.finalizer = api.finalizer /\ api'.generation = api.generation
                          /\ api'.status = obj.status
           /\ ~Writable => api' = api /\ current' = current /\ avi' = objects
<1>1. CASE Writable
  <2>1. /\ api' = [api EXCEPT !.status = obj.status] /\ current' = {"worker"}
        /\ avi' = [t \in Tenants |->
                     IF objects[t].uuid # 0 /\ objects[t].uuid = obj.status.uuid
                     THEN [objects[t] EXCEPT !.late = FALSE] ELSE objects[t]]
    BY Zenon, <1>1 DEF Update
  <2>2. /\ api' \in Resource /\ api'.there = api.there
        /\ api'.uid = api.uid /\ api'.deleting = api.deleting
        /\ api'.finalizer = api.finalizer /\ api'.generation = api.generation
        /\ api'.status = obj.status
    BY Zenon, <2>1, Shapes DEF CrdInv, Resource
  <2>3. \A t \in Tenants : /\ avi'[t] \in Objects
                          /\ avi'[t].uuid = objects[t].uuid /\ avi'[t].spec = objects[t].spec
                          /\ avi'[t].secret = objects[t].secret
    BY Zenon, <2>1 DEF Objects
  <2>4. avi' \in [Tenants -> Objects]
    BY Zenon, <2>1, <2>3
  <2> QED BY Zenon, <1>1, <2>1, <2>2, <2>3, <2>4
<1>2. CASE ~Writable
  BY Zenon, <1>2 DEF Update
<1> QED BY Zenon, <1>1, <1>2

\* A complaint is written, or refused because it is not of the last version.
LEMMA Complaining ==
    ASSUME WellFormed, CrdInv, NEW obj, NEW objects \in [Tenants -> Objects],
           Blames(obj.status), worker.at \in {"delete", "refs", "put", "post"},
           Update(obj, objects),
           \A t \in Tenants : objects[t] = avi[t] \/ objects[t].late \/ objects[t].uuid = 0
    PROVE  /\ avi' \in [Tenants -> Objects]
           /\ \A t \in Tenants : /\ avi'[t].uuid = objects[t].uuid /\ avi'[t].spec = objects[t].spec
                                 /\ avi'[t].secret = objects[t].secret
           /\ Writable => Complaint /\ api'.status = obj.status
           /\ ~Writable => Unreported
<1>1. obj.status \in Status
  BY Zenon DEF Blames
<1>2. CASE Writable
  BY Zenon, <1>1, <1>2, Updating DEF Blames, Complaint, Reported
<1>3. CASE ~Writable
  BY Zenon, <1>1, <1>3, Updating DEF Unreported
<1> QED BY Zenon, <1>1, <1>2, <1>3, Updating

\* A turn ends with the error of a request that has left these objects.
LEMMA FailingKeeps ==
    ASSUME WellFormed, CrdInv, Quiet, NEW a \in Answers, NEW objects \in [Tenants -> Objects],
           Fail(a, objects), worker.at \in {"delete", "put", "post"},
           \A t \in Tenants : objects[t] = avi[t] \/ objects[t].late \/ objects[t].uuid = 0,
           (\A t \in Tenants : /\ avi'[t].uuid = objects[t].uuid /\ avi'[t].spec = objects[t].spec
                               /\ avi'[t].secret = objects[t].secret)
              => Kept \/ Filled \/ Cleared
    PROVE  CrdInv'
<1>1. PICK obj : /\ Update(obj, objects) /\ Blames(obj.status)
                 /\ ~IsRetryableError(a) => /\ obj.status.condition = "rejected"
                                            /\ obj.status.observed = worker.obj.generation
  <2>1. CASE IsRetryableError(a)
    <3>1. Update(Failed(worker.obj), objects)
      BY Zenon, <2>1 DEF Fail
    <3> QED BY Zenon, <2>1, <3>1, Blaming
  <2>2. CASE ~IsRetryableError(a)
    <3>1. Update(Rejected(worker.obj), objects)
      BY Zenon, <2>2 DEF Fail
    <3> QED BY Zenon, <2>2, <3>1, Blaming
  <2> QED BY Zenon, <2>1, <2>2
<1>2. /\ avi' \in [Tenants -> Objects] /\ (Kept \/ Filled \/ Cleared)
      /\ Writable => Complaint /\ api'.status = obj.status
      /\ ~Writable => Unreported
  BY Zenon, <1>1, Complaining
<1>3. Ends /\ (~queued' => ~queued /\ ~IsRetryableError(a) /\ Writable)
  BY Zenon DEF Ends, Fail, Done, CrdInv, TypeOK
<1> QED BY Zenon, <1>1, <1>2, <1>3, EndKeeps

-----------------------------------------------------------------------------
\* An answer of the controller is, at most, one more disturbance.
LEMMA Answering ==
    ASSUME WellFormed, CrdInv, NEW a \in Answers, Answer(a), view' = view, cache' = cache
    PROVE  Quiet
<1>1. /\ kind' = kind /\ tenant' = tenant /\ secret' = secret /\ inUse' = inUse /\ creates' = creates
  BY Zenon DEF Answer
<1>2. /\ happened' \in {happened, happened \cup {a}} /\ a \in {"ok", "error", "lost", "refused"}
      /\ left' \in 0..MaxDisturbances /\ left' \in {left, left - 1}
  BY Zenon, Disturbing DEF Answer, Answers, CrdInv
<1>3. left' <= left
  BY <1>2 DEF CrdInv, CopyInv, WellFormed
<1>4. /\ (Unmoved' <=> Unmoved) /\ (Untouched' <=> Untouched)
      /\ ("crash" \in happened' <=> "crash" \in happened)
  BY Zenon, <1>2 DEF Unmoved, Untouched
<1> QED BY Zenon, <1>1, <1>2, <1>3, <1>4 DEF Quiet

\* A step of the worker without a request leaves the environment alone.
LEMMA Undisturbed ==
    ASSUME WellFormed, CrdInv, UNCHANGED environment, view' = view, cache' = cache
    PROVE  Quiet
BY SMTT(30) DEF environment, Quiet, CrdInv, CopyInv, WellFormed, Unmoved, Untouched

\* A resource that is gone is left to the next turn.
LEMMA GoneKeeps ==
    ASSUME WellFormed, CrdInv, AddFinalizer \/ RemoveFinalizer, ~api.there
    PROVE  CrdInv'
<1>1. /\ UNCHANGED environment /\ view' = view /\ cache' = cache /\ avi' = avi
      /\ api' = api /\ current' = current /\ worker' = Idle /\ queued'
      /\ worker.at \in {"addFinalizer", "removeFinalizer"}
  BY Zenon DEF AddFinalizer, RemoveFinalizer, AtStep, Done
<1>2. Quiet /\ avi' \in [Tenants -> Objects]
  BY Zenon, <1>1, Undisturbed, Shapes DEF CrdInv
<1>3. queued' \in BOOLEAN
  BY Zenon DEF AddFinalizer, RemoveFinalizer, Done
<1>4. Ends /\ Unreported /\ Kept
  BY Zenon, <1>1, <1>3 DEF Ends, Unreported, Kept, Same
<1> QED BY Zenon, <1>1, <1>2, <1>4, EndKeeps

\* The status tells of the success, or is refused.
LEMMA SetStatusKeeps ==
    ASSUME WellFormed, CrdInv, SetStatus
    PROVE  CrdInv'
<1>1. /\ UNCHANGED environment /\ view' = view /\ cache' = cache /\ worker' = Idle
      /\ worker.at = "status" /\ queued' = (queued \/ ~Writable)
  BY Zenon DEF SetStatus, AtStep, Done
<1>2. PICK obj : /\ Update(obj, avi)
                 /\ obj.status = [uuid |-> worker.uuid, tenant |-> worker.tenant,
                                  observed |-> worker.obj.generation, dependency |-> worker.secret,
                                  condition |-> "programmed", updated |-> "now"]
  <2>1. worker.obj \in Resource
    BY Zenon, Shapes DEF CrdInv
  <2> QED BY <2>1 DEF SetStatus, Resource
<1>3. obj.status \in Status
  <2>1. /\ worker.uuid \in 0..MaxUuid /\ worker.tenant \in Tenants \cup {None}
        /\ worker.secret \in 0..MaxDisturbances + 1 /\ worker.obj.generation \in 0..MaxGen + 1
    BY Zenon, Shapes DEF CrdInv, Workers, Resource
  <2> QED BY <1>2, <2>1 DEF Status
<1>4. PICK objects \in [Tenants -> Objects] : objects = avi
  BY Zenon, Shapes DEF CrdInv
<1>5. /\ avi' \in [Tenants -> Objects] /\ Kept
      /\ Writable => Success
      /\ ~Writable => Unreported
  <2>0. Update(obj, objects)
    BY Zenon, <1>2, <1>4
  <2>1. avi' \in [Tenants -> Objects] /\ Kept
    <3>1. /\ avi' \in [Tenants -> Objects]
          /\ \A t \in Tenants : /\ avi'[t].uuid = objects[t].uuid /\ avi'[t].spec = objects[t].spec
                                /\ avi'[t].secret = objects[t].secret
      BY Zenon, <1>3, <2>0, Updating
    <3> QED BY Zenon, <1>4, <3>1 DEF Kept, Same
  <2>2. CASE Writable
    <3>1. /\ current' = {"worker"} /\ api' \in Resource /\ api'.there = api.there
          /\ api'.uid = api.uid /\ api'.deleting = api.deleting
          /\ api'.finalizer = api.finalizer /\ api'.generation = api.generation
          /\ api'.status = obj.status
      BY Zenon, <1>3, <2>0, <2>2, Updating
    <3>2. /\ api'.status.uuid = worker.uuid /\ api'.status.tenant = worker.tenant
          /\ api'.status.condition = "programmed" /\ api'.status.observed = worker.obj.generation
          /\ api'.status.dependency = worker.secret /\ api'.status.updated = "now"
      BY <1>2, <3>1
    <3> QED BY Zenon, <1>1, <2>1, <2>2, <3>1, <3>2 DEF Success, Reported
  <2>3. CASE ~Writable
    BY Zenon, <1>3, <1>4, <2>0, <2>1, <2>3, Updating DEF Unreported
  <2> QED BY Zenon, <2>1, <2>2, <2>3
<1>6. queued' \in BOOLEAN /\ (~queued' => ~queued /\ Writable)
  BY Zenon, <1>1
<1>7. Quiet /\ Ends
  BY Zenon, <1>1, <1>6, Undisturbed DEF Ends
<1> QED BY Zenon, <1>5, <1>6, <1>7, EndKeeps

\* The object that is written, as a function of the tenants.
LEMMA Storing ==
    ASSUME WellFormed, CrdInv, worker.at \in {"put", "post"}, NEW u \in Uuids,
           \/ Exists(worker.tenant) /\ u = avi[worker.tenant].uuid
           \/ ~Exists(worker.tenant) /\ u \notin Used,
           NEW objects, objects = Stored(worker.tenant, u)
    PROVE  /\ objects \in [Tenants -> Objects] /\ worker.tenant \in Tenants
           /\ \A t \in Tenants : t # worker.tenant => objects[t] = avi[t]
           /\ objects[worker.tenant].uuid = u /\ objects[worker.tenant].late
           /\ objects[worker.tenant].spec = worker.obj.generation
           /\ objects[worker.tenant].secret = worker.secret
           /\ (\A t \in Tenants : /\ avi'[t].uuid = objects[t].uuid /\ avi'[t].spec = objects[t].spec
                                  /\ avi'[t].secret = objects[t].secret) => Filled
<1>1. worker.tenant \in Tenants
  BY Zenon DEF CrdInv, FinalizerInv
<1> DEFINE new == [uuid |-> u, spec |-> worker.obj.generation, secret |-> worker.secret, late |-> TRUE]
<1>2. new \in Objects
  <2>1. /\ worker.secret \in 0..MaxDisturbances + 1 /\ worker.obj.generation \in 0..MaxGen + 1
        /\ u \in 0..MaxUuid
    BY SMTT(30), Shapes DEF CrdInv, Workers, Resource, Uuids, WellFormed
  <2> QED BY Zenon, <2>1 DEF Objects
<1>3. avi \in [Tenants -> Objects] /\ objects = [avi EXCEPT ![worker.tenant] = new]
  BY Zenon, Shapes DEF CrdInv, Stored
<1>4. /\ objects \in [Tenants -> Objects] /\ objects[worker.tenant] = new
      /\ \A t \in Tenants : t # worker.tenant => objects[t] = avi[t]
  BY Zenon, <1>1, <1>2, <1>3
<1>5. /\ objects[worker.tenant].uuid = u /\ objects[worker.tenant].late
      /\ objects[worker.tenant].spec = worker.obj.generation
      /\ objects[worker.tenant].secret = worker.secret
  BY SMTT(30), <1>4
<1>6. (\A t \in Tenants : /\ avi'[t].uuid = objects[t].uuid /\ avi'[t].spec = objects[t].spec
                          /\ avi'[t].secret = objects[t].secret) => Filled
  <2> HIDE DEF new
  <2> SUFFICES ASSUME \A t \in Tenants : /\ avi'[t].uuid = objects[t].uuid
                                         /\ avi'[t].spec = objects[t].spec
                                         /\ avi'[t].secret = objects[t].secret
               PROVE  Filled
    BY Zenon
  <2>1. \A t \in Tenants : t # worker.tenant => Same(t)
    BY Zenon, <1>4 DEF Same
  <2>2. /\ avi'[worker.tenant].uuid = u /\ avi'[worker.tenant].spec = worker.obj.generation
        /\ avi'[worker.tenant].secret = worker.secret
    BY Zenon, <1>1, <1>5
  <2> QED BY Zenon, <2>1, <2>2 DEF Filled
<1> QED BY Zenon, <1>1, <1>4, <1>5, <1>6

\* The object is written, and the worker goes on to the status.
LEMMA StoringKeeps ==
    ASSUME WellFormed, CrdInv, Quiet, worker.at \in {"put", "post"}, NEW u \in Uuids,
           \/ Exists(worker.tenant) /\ u = avi[worker.tenant].uuid
           \/ ~Exists(worker.tenant) /\ u \notin Used,
           avi' = Stored(worker.tenant, u), api' = api, current' = current, queued' = queued,
           worker' = [Goto("status") EXCEPT !.uuid = u]
    PROVE  CrdInv'
<1> USE DEF CrdInv
<1> DEFINE t0 == worker.tenant
<1>1. PICK objects : objects = Stored(worker.tenant, u)
  OBVIOUS
<1>2. /\ objects \in [Tenants -> Objects] /\ t0 \in Tenants
      /\ \A t \in Tenants : t # t0 => objects[t] = avi[t]
      /\ objects[t0].uuid = u /\ objects[t0].late
      /\ objects[t0].spec = worker.obj.generation
      /\ objects[t0].secret = worker.secret
  BY <1>1, Storing
<1>3. /\ avi' \in [Tenants -> Objects] /\ t0 \in Tenants
      /\ \A t \in Tenants : t # t0 => avi'[t] = avi[t]
      /\ avi'[t0].uuid = u /\ avi'[t0].late
      /\ avi'[t0].spec = worker.obj.generation
      /\ avi'[t0].secret = worker.secret
  BY Zenon, <1>1, <1>2
<1>4. /\ worker' \in Workers /\ worker'.at = "status" /\ worker'.obj = worker.obj
      /\ worker'.tenant = worker.tenant /\ worker'.secret = worker.secret
      /\ worker'.moving = worker.moving /\ worker'.uuid = u
  <2>1. u \in 0..MaxUuid /\ worker \in Workers
    BY Shapes DEF Uuids, WellFormed
  <2> QED BY Zenon, <2>1 DEF Goto, Workers
<1>5. Programs /\ Guarded /\ ~Removes /\ Programs' /\ Guarded' /\ ~Removes'
  BY Zenon, <1>4 DEF Programs, Guarded, Removes
<1>6. /\ kind' = kind /\ view' = view /\ tenant' = tenant /\ secret' = secret /\ inUse' = inUse
      /\ creates' = creates /\ cache' = cache
      /\ left' \in 0..MaxDisturbances /\ left' <= left
      /\ (Unmoved' <=> Unmoved) /\ (Untouched' <=> Untouched)
      /\ ("crash" \in happened' <=> "crash" \in happened)
      /\ (HasSecret' <=> HasSecret)
  BY Zenon DEF Quiet, HasSecret
<1> HIDE DEF t0, Quiet
<1>7. TypeOK'
  BY Zenon, <1>3, <1>4, <1>6 DEF TypeOK, Objects, Workers
<1>8. CopyInv'
  BY SMTT(30), <1>4, <1>5, <1>6 DEF CopyInv, Version
<1>9. FinalizerInv'
  BY Zenon, <1>4, <1>5, <1>6 DEF FinalizerInv, Going
<1>10. HomeInv'
  <2> SUFFICES ASSUME Unmoved, Untouched PROVE HomeInv'
    BY Zenon, <1>6 DEF HomeInv
  <2>1. t0 = tenant /\ api.finalizer
    BY Zenon, <1>5 DEF HomeInv, FinalizerInv, t0
  <2>2. \A t \in Tenants : Exists(t)' => t = tenant
    BY <1>3, <2>1 DEF HomeInv, Exists
  <2>3. \/ ~Exists(tenant)
        \/ avi'[tenant].uuid = avi[tenant].uuid
    BY Zenon, <1>3, <2>1 DEF t0
  <2>4. \A x \in {api, view, worker.obj} : x.status.uuid # 0 => x.status.uuid = avi'[tenant].uuid
    BY Zenon, <1>5, <2>3 DEF HomeInv, Named, Exists
  <2> QED BY Zenon, <1>4, <1>5, <1>6, <2>1, <2>2, <2>4 DEF HomeInv, AtHome, Named, t0
<1>11. StoredInv' /\ StepInv'
  <2>1. u # 0
    BY DEF Uuids
  <2> QED BY Zenon, <1>3, <1>4, <2>1 DEF StoredInv, StepInv, t0
<1>12. NewsInv'
  <2>1. NoNews' <=> NoNews
    BY Zenon, <1>6 DEF NoNews
  <2> QED BY Zenon, <1>4, <1>5, <1>6, <2>1 DEF NewsInv
<1>13. SecretInv'
  <2>1. Versions' \subseteq Versions
    BY SMTT(30), <1>3, <1>4, <1>6 DEF Versions
  <2> QED BY Zenon, <1>4, <1>6, <2>1, SecretStays
<1>14. CachedInv'
  <2>1. \A v \in Uuids : cache'[v] # "absent" => "crash" \in happened'
    BY Zenon, <1>6 DEF CachedInv
  <2> SUFFICES ASSUME Unmoved, Untouched PROVE CachedInv'
    BY Zenon, <1>6, <2>1 DEF CachedInv
  <2>2. t0 = tenant /\ worker.obj.generation <= api.generation
    BY Zenon, <1>5 DEF HomeInv, FinalizerInv, t0
  <2>3. Knows(view)' /\ Knows(worker.obj)'
    BY <1>4, <1>6 DEF Knows, CachedInv
  <2>4. ASSUME cache[u] # "absent"
        PROVE  /\ Exists(tenant) /\ u = avi[tenant].uuid /\ view.finalizer /\ view.uid = api.uid
               /\ avi[tenant].spec <= worker.obj.generation /\ worker.obj.generation <= view.generation
               /\ cache[u] = "before" \/ api.status.updated = "now" => Reflected
    <3>1. u \in Used
      BY Zenon, <2>4 DEF Used
    <3>2. Exists(tenant) /\ u = avi[tenant].uuid
      BY Zenon, <2>2, <3>1 DEF t0
    <3> QED BY Zenon, <1>5, <2>4, <3>2 DEF CachedInv
  <2>5. /\ avi[tenant].spec \in Nat /\ avi[tenant].secret \in Nat /\ worker.secret \in Nat
        /\ worker.obj.generation \in Nat /\ api.status.observed \in Nat
        /\ api.status.dependency \in Nat
    <3>1. avi[tenant] \in Objects
      BY Zenon, Shapes
    <3> QED BY <3>1, Shapes DEF Objects, Workers, Resource, Status, WellFormed
  <2>6. HasSecret => avi[tenant].secret <= worker.secret
    <3>1. avi[tenant].secret \in Versions
      BY Zenon, Shapes DEF Versions
    <3> QED BY Zenon, <3>1 DEF SecretInv
  <2>7. Reflected /\ avi[tenant].spec <= worker.obj.generation => Reflected'
    BY SMTT(30), <1>3, <1>6, <2>2, <2>5, <2>6 DEF Reflected
  <2> QED BY SMTT(30), <1>3, <1>4, <1>5, <1>6, <2>1, <2>2, <2>3, <2>4, <2>5, <2>7 DEF CachedInv
<1> QED BY Zenon, <1>7, <1>8, <1>9, <1>10, <1>11, <1>12, <1>13, <1>14

\* PUT answers 404: the object is to be created again.
LEMMA AbsentKeeps ==
    ASSUME WellFormed, CrdInv, Quiet, worker.at = "put", worker' = Goto("post"),
           api' = api, current' = current, queued' = queued, avi' = avi
    PROVE  CrdInv'
<1> USE DEF CrdInv
<1>1. /\ worker' \in Workers /\ worker'.at = "post" /\ worker'.obj = worker.obj
      /\ worker'.tenant = worker.tenant /\ worker'.secret = worker.secret
      /\ worker'.moving = worker.moving
  BY Zenon, Shapes DEF Goto, Workers
<1>2. Programs /\ Guarded /\ ~Removes /\ Programs' /\ Guarded' /\ ~Removes'
  BY Zenon, <1>1 DEF Programs, Guarded, Removes
<1>3. /\ kind' = kind /\ view' = view /\ tenant' = tenant /\ secret' = secret /\ inUse' = inUse
      /\ creates' = creates /\ cache' = cache
      /\ left' \in 0..MaxDisturbances /\ left' <= left
      /\ (Unmoved' <=> Unmoved) /\ (Untouched' <=> Untouched)
      /\ ("crash" \in happened' <=> "crash" \in happened)
      /\ (HasSecret' <=> HasSecret) /\ (\A t : Exists(t)' <=> Exists(t))
  BY Zenon DEF Quiet, HasSecret, Exists
<1>4. TypeOK'
  BY Zenon, <1>1, <1>3 DEF TypeOK, Workers
<1>5. CopyInv'
  BY SMTT(30), <1>1, <1>2, <1>3 DEF CopyInv, Version
<1>6. FinalizerInv'
  BY Zenon, <1>1, <1>2, <1>3 DEF FinalizerInv, Going
<1>7. HomeInv'
  BY Zenon, <1>1, <1>2, <1>3 DEF HomeInv, AtHome, Named
<1>8. StoredInv' /\ StepInv'
  BY Zenon, <1>1 DEF StoredInv, StepInv
<1>9. NewsInv'
  <2>1. NoNews' <=> NoNews
    BY Zenon, <1>3 DEF NoNews
  <2> QED BY Zenon, <1>1, <1>2, <1>3, <2>1 DEF NewsInv
<1>10. SecretInv'
  <2>1. Versions' = Versions
    BY Zenon, <1>1, <1>3 DEF Versions
  <2> QED BY Zenon, <1>1, <1>3, <2>1, SecretStays
<1>11. CachedInv'
  <2>1. /\ (Knows(view)' <=> Knows(view)) /\ (Knows(worker.obj)' <=> Knows(worker.obj))
        /\ (Reflected' <=> Reflected)
    BY Zenon, <1>1, <1>3 DEF Knows, Reflected
  <2> QED BY Zenon, <1>1, <1>2, <1>3, <2>1 DEF CachedInv
<1> QED BY Zenon, <1>4, <1>5, <1>6, <1>7, <1>8, <1>9, <1>10, <1>11

\* A request fails and leaves the objects as they were.
LEMMA ErrorKeeps ==
    ASSUME WellFormed, CrdInv, Quiet, NEW a \in Answers, Fail(a, avi),
           worker.at \in {"delete", "put", "post"}
    PROVE  CrdInv'
<1>1. PICK objects \in [Tenants -> Objects] : objects = avi
  BY Zenon, Shapes DEF CrdInv
<1>2. Fail(a, objects)
  BY Zenon, <1>1
<1>3. (\A t \in Tenants : /\ avi'[t].uuid = objects[t].uuid /\ avi'[t].spec = objects[t].spec
                          /\ avi'[t].secret = objects[t].secret) => Kept
  BY Zenon, <1>1 DEF Kept, Same
<1>4. \A t \in Tenants : objects[t] = avi[t]
  BY Zenon, <1>1
<1> QED BY Zenon, <1>2, <1>3, <1>4, FailingKeeps

\* The object is written, and the answer is lost.
LEMMA LostKeeps ==
    ASSUME WellFormed, CrdInv, Quiet, NEW a \in Answers, worker.at \in {"put", "post"},
           NEW u \in Uuids,
           \/ Exists(worker.tenant) /\ u = avi[worker.tenant].uuid
           \/ ~Exists(worker.tenant) /\ u \notin Used,
           Fail(a, Stored(worker.tenant, u))
    PROVE  CrdInv'
<1>1. PICK objects : objects = Stored(worker.tenant, u)
  OBVIOUS
<1>2. Fail(a, objects)
  BY Zenon, <1>1
<1>3. /\ objects \in [Tenants -> Objects] /\ worker.tenant \in Tenants
      /\ \A t \in Tenants : t # worker.tenant => objects[t] = avi[t]
      /\ objects[worker.tenant].late
      /\ (\A t \in Tenants : /\ avi'[t].uuid = objects[t].uuid /\ avi'[t].spec = objects[t].spec
                             /\ avi'[t].secret = objects[t].secret) => Filled
  <2>1. /\ objects \in [Tenants -> Objects] /\ worker.tenant \in Tenants
        /\ \A t \in Tenants : t # worker.tenant => objects[t] = avi[t]
        /\ objects[worker.tenant].uuid = u /\ objects[worker.tenant].late
        /\ objects[worker.tenant].spec = worker.obj.generation
        /\ objects[worker.tenant].secret = worker.secret
        /\ (\A t \in Tenants : /\ avi'[t].uuid = objects[t].uuid /\ avi'[t].spec = objects[t].spec
                               /\ avi'[t].secret = objects[t].secret) => Filled
    BY <1>1, Storing
  <2> QED BY Zenon, <2>1
<1>4. \A t \in Tenants : objects[t] = avi[t] \/ objects[t].late \/ objects[t].uuid = 0
  BY Zenon, <1>3
<1> QED BY Zenon, <1>2, <1>3, <1>4, FailingKeeps

\* The request that writes the object, with every answer.
LEMMA RequestKeeps ==
    ASSUME WellFormed, CrdInv, Quiet, NEW a \in Answers, worker.at \in {"put", "post"},
           NEW u \in Uuids,
           \/ Exists(worker.tenant) /\ u = avi[worker.tenant].uuid
           \/ ~Exists(worker.tenant) /\ u \notin Used,
           Request(a, Stored(worker.tenant, u), [Goto("status") EXCEPT !.uuid = u])
    PROVE  CrdInv'
<1>1. CASE a = "ok"
  <2>1. /\ avi' = Stored(worker.tenant, u) /\ api' = api /\ current' = current /\ queued' = queued
        /\ worker' = [Goto("status") EXCEPT !.uuid = u]
    BY Zenon, <1>1 DEF Request, Continue
  <2> QED BY Zenon, <2>1, StoringKeeps
<1>2. CASE a = "lost"
  <2>1. Fail(a, Stored(worker.tenant, u))
    BY Zenon, <1>2 DEF Request
  <2> QED BY Zenon, <2>1, LostKeeps
<1>3. CASE a \notin {"ok", "lost"}
  <2>1. Fail(a, avi)
    BY Zenon, <1>3 DEF Request
  <2> QED BY Zenon, <2>1, ErrorKeeps
<1> QED BY Zenon, <1>1, <1>2, <1>3

\* PUT of the uuid in the status.
LEMMA PutKeeps ==
    ASSUME WellFormed, CrdInv, Put
    PROVE  CrdInv'
<1>1. worker.at = "put" /\ view' = view /\ cache' = cache
  BY Zenon DEF Put, AtStep
<1>2. PICK a \in Answers :
         /\ Answer(a)
         /\ IF avi[worker.tenant].uuid = worker.obj.status.uuid
            THEN Request(a, Stored(worker.tenant, worker.obj.status.uuid),
                         [Goto("status") EXCEPT !.uuid = worker.obj.status.uuid])
            ELSE Request(a, avi, Goto("post"))
  BY Zenon DEF Put
<1>3. Quiet
  BY Zenon, <1>1, <1>2, Answering
<1>4. CASE avi[worker.tenant].uuid = worker.obj.status.uuid
  <2>1. worker.obj.status.uuid \in Uuids
    BY <1>1, Shapes DEF CrdInv, StepInv, Status, Uuids, WellFormed
  <2>2. PICK u \in Uuids : u = worker.obj.status.uuid
    BY Zenon, <2>1
  <2>3. u # 0
    BY DEF Uuids
  <2>4. Exists(worker.tenant) /\ u = avi[worker.tenant].uuid
    BY Zenon, <1>4, <2>2, <2>3 DEF Exists
  <2>5. Request(a, Stored(worker.tenant, u), [Goto("status") EXCEPT !.uuid = u])
    BY Zenon, <1>2, <1>4, <2>2
  <2> QED BY Zenon, <1>1, <1>3, <2>4, <2>5, RequestKeeps
<1>5. CASE avi[worker.tenant].uuid # worker.obj.status.uuid
  <2>1. Request(a, avi, Goto("post"))
    BY Zenon, <1>2, <1>5
  <2>2. CASE a = "ok"
    <3>1. avi' = avi /\ api' = api /\ current' = current /\ queued' = queued /\ worker' = Goto("post")
      BY Zenon, <2>1, <2>2 DEF Request, Continue
    <3> QED BY Zenon, <1>1, <1>3, <3>1, AbsentKeeps
  <2>3. CASE a # "ok"
    <3>1. Fail(a, avi)
      BY Zenon, <2>1, <2>3 DEF Request
    <3> QED BY Zenon, <1>1, <1>3, <3>1, ErrorKeeps
  <2> QED BY Zenon, <2>2, <2>3
<1> QED BY Zenon, <1>4, <1>5

\* POST, or PUT of the object that has the name.
LEMMA PostKeeps ==
    ASSUME WellFormed, CrdInv, Post
    PROVE  CrdInv'
<1>1. worker.at = "post" /\ view' = view /\ cache' = cache
  BY Zenon DEF Post, AtStep
<1>2. PICK a \in Answers, u \in Uuids :
         /\ Answer(a)
         /\ IF Exists(worker.tenant) THEN u = avi[worker.tenant].uuid
            ELSE u \notin Used /\ \A v \in Uuids : v < u => v \in Used
         /\ Request(a, Stored(worker.tenant, u), [Goto("status") EXCEPT !.uuid = u])
  BY Zenon DEF Post
<1>3. Quiet
  BY Zenon, <1>1, <1>2, Answering
<1>4. \/ Exists(worker.tenant) /\ u = avi[worker.tenant].uuid
      \/ ~Exists(worker.tenant) /\ u \notin Used
  BY Zenon, <1>2
<1> QED BY Zenon, <1>1, <1>2, <1>3, <1>4, RequestKeeps

\* The worker knows the version of the Secret and goes on to the request.
LEMMA ResolvedKeeps ==
    ASSUME WellFormed, CrdInv, Quiet, worker.at = "refs", ~(HasSecret /\ secret = 0),
           worker' = [worker EXCEPT !.secret = Dependency,
                                    !.at = IF worker.obj.status.uuid = 0 THEN "post" ELSE "put"],
           api' = api, current' = current, queued' = queued, avi' = avi
    PROVE  CrdInv'
<1> USE DEF CrdInv
<1>1. /\ worker' \in Workers /\ worker'.at \in {"put", "post"} /\ worker'.obj = worker.obj
      /\ worker'.tenant = worker.tenant /\ worker'.secret = Dependency
      /\ worker'.moving = worker.moving
      /\ worker'.at = "put" => worker.obj.status.uuid # 0
  <2>1. Dependency \in 0..MaxDisturbances + 1
    BY DEF Dependency, TypeOK, WellFormed
  <2>2. PICK s \in {"put", "post"} :
           /\ worker' = [worker EXCEPT !.secret = Dependency, !.at = s]
           /\ s = "put" => worker.obj.status.uuid # 0
    BY Zenon
  <2> QED BY Zenon, <2>1, <2>2, Shapes DEF Workers
<1>2. Programs /\ Guarded /\ ~Removes /\ Programs' /\ Guarded' /\ ~Removes'
  BY Zenon, <1>1 DEF Programs, Guarded, Removes
<1>3. /\ kind' = kind /\ view' = view /\ tenant' = tenant /\ secret' = secret /\ inUse' = inUse
      /\ creates' = creates /\ cache' = cache
      /\ left' \in 0..MaxDisturbances /\ left' <= left
      /\ (Unmoved' <=> Unmoved) /\ (Untouched' <=> Untouched)
      /\ ("crash" \in happened' <=> "crash" \in happened)
      /\ (HasSecret' <=> HasSecret) /\ (\A t : Exists(t)' <=> Exists(t))
  BY Zenon DEF Quiet, HasSecret, Exists
<1>4. TypeOK'
  BY Zenon, <1>1, <1>3 DEF TypeOK, Workers
<1>5. CopyInv'
  BY SMTT(30), <1>1, <1>2, <1>3 DEF CopyInv, Version
<1>6. FinalizerInv'
  BY Zenon, <1>1, <1>2, <1>3 DEF FinalizerInv, Going
<1>7. HomeInv'
  BY Zenon, <1>1, <1>2, <1>3 DEF HomeInv, AtHome, Named
<1>8. StoredInv' /\ StepInv'
  BY Zenon, <1>1 DEF StoredInv, StepInv
<1>9. NewsInv'
  <2>1. NoNews' <=> NoNews
    BY Zenon, <1>3 DEF NoNews
  <2> QED BY Zenon, <1>1, <1>2, <1>3, <2>1 DEF NewsInv, Dependency
<1>10. SecretInv'
  <2> SUFFICES ASSUME HasSecret PROVE SecretInv'
    BY Zenon, <1>3 DEF SecretInv
  <2>1. secret # 0 /\ worker'.secret = secret /\ secret \in Nat
    BY <1>1 DEF Dependency, TypeOK, WellFormed
  <2>2. Versions' \subseteq Versions \cup {secret}
    BY Zenon, <1>1, <1>3, <2>1 DEF Versions
  <2>3. \A v \in Versions \cup {secret} : v \in Nat
    BY Shapes DEF Versions, TypeOK, Objects, Workers, Status, WellFormed
  <2>4. left \in Nat /\ left' \in Nat /\ MaxDisturbances \in Nat
    BY <1>3 DEF CopyInv, WellFormed
  <2>5. \A v \in Versions \cup {secret} : v <= secret /\ v <= 1 + MaxDisturbances - left'
    BY <1>3, <2>1, <2>3, <2>4 DEF SecretInv
  <2> QED BY Zenon, <1>3, <2>1, <2>2, <2>5 DEF SecretInv
<1>11. CachedInv'
  <2>1. /\ (Knows(view)' <=> Knows(view)) /\ (Knows(worker.obj)' <=> Knows(worker.obj))
        /\ (Reflected' <=> Reflected)
    BY Zenon, <1>1, <1>3 DEF Knows, Reflected
  <2> QED BY Zenon, <1>1, <1>2, <1>3, <2>1 DEF CachedInv
<1> QED BY Zenon, <1>4, <1>5, <1>6, <1>7, <1>8, <1>9, <1>10, <1>11

\* The object is found as the last status says: no other turn is needed.
LEMMA NothingToDo ==
    ASSUME WellFormed, CrdInv, worker.at = "refs", NoNews, Untouched,
           Unmoved \/ "crash" \notin happened, ~(HasSecret /\ secret = 0),
           worker.obj.status.uuid # 0, ~Changed(worker.obj), KnownUnmodified(worker.obj.status)
    PROVE  Final
<1> USE DEF CrdInv
<1> DEFINE st == worker.obj.status
<1>1. worker.obj.uid = api.uid /\ worker.obj.generation = api.generation /\ api.there
  BY Zenon DEF NewsInv, NoNews
<1>2. st.uuid \in Uuids /\ cache[st.uuid] # "absent"
  <2>1. st.uuid \in Uuids
    BY SMTT(30), Shapes DEF Status, Uuids, WellFormed
  <2> QED BY Zenon, <2>1 DEF KnownUnmodified
<1>3. Unmoved
  BY Zenon, <1>2 DEF CachedInv
<1>4. Programs /\ Guarded
  BY Zenon DEF Programs, Guarded
<1>5. st.uuid = avi[tenant].uuid /\ Exists(tenant)
  BY Zenon, <1>3, <1>4 DEF HomeInv, Named, Exists
<1>6. worker.obj.there
  BY Zenon, <1>4, Constants DEF FinalizerInv, CopyInv, Version
<1>7. /\ st.observed = worker.obj.generation
      /\ HasSecret => st.dependency = secret /\ secret # 0
  BY Zenon DEF Changed, Dependency
<1>8. /\ api.status.observed = api.generation /\ api.status.uuid # 0
      /\ st.updated = "now" => api.status.updated = "now"
      /\ HasSecret => api.status.dependency = secret
  BY Zenon, <1>1, <1>3, <1>6, <1>7 DEF CachedInv, Knows
<1>9. api.status.uuid = avi[tenant].uuid /\ api.status.tenant = tenant
  BY Zenon, <1>3, <1>4, <1>8 DEF HomeInv, Named, AtHome
<1>10. api.status.condition \in {"programmed", "failed", "rejected"}
  BY SMTT(30), <1>1, <1>8, Shapes DEF CopyInv, Version, Status
<1>11. cache[avi[tenant].uuid] = "before" \/ api.status.updated = "now"
  BY Zenon, <1>5, <1>8 DEF KnownUnmodified
<1>12. Reflected /\ avi[tenant].spec <= api.generation
  BY Zenon, <1>2, <1>3, <1>5, <1>11 DEF CachedInv
<1>13. ASSUME api.status.condition = "programmed"
       PROVE  avi[tenant].spec = api.generation /\ (HasSecret => avi[tenant].secret = secret)
  <2>1. /\ avi[tenant].spec \in Nat /\ avi[tenant].secret \in Nat /\ api.generation \in Nat
        /\ secret \in Nat /\ avi[tenant].secret \in Versions
    <3>1. avi[tenant] \in Objects
      BY Zenon, Shapes
    <3>2. avi[tenant].secret \in Versions
      BY Zenon, Shapes DEF Versions
    <3> QED BY Zenon, <3>1, <3>2, Numbers
  <2>2. HasSecret => avi[tenant].secret <= secret
    BY Zenon, <1>7, <2>1 DEF SecretInv
  <2> QED BY SMTT(30), <1>8, <1>12, <1>13, <2>1, <2>2 DEF Reflected
<1> QED BY Zenon, <1>2, <1>5, <1>8, <1>9, <1>10, <1>13 DEF Final

\* The Secret is looked up, and the need of a request decided.
LEMMA ResolveKeeps ==
    ASSUME WellFormed, CrdInv, ResolveRefs
    PROVE  CrdInv'
<1>1. worker.at = "refs" /\ view' = view /\ cache' = cache /\ UNCHANGED environment
  BY Zenon DEF ResolveRefs, AtStep
<1>2. Quiet
  BY Zenon, <1>1, Undisturbed
<1>3. CASE HasSecret /\ secret = 0
  <2>1. Update([Rejected(worker.obj) EXCEPT !.status.dependency = 0], avi) /\ Done(FALSE)
    BY Zenon, <1>3 DEF ResolveRefs
  <2>2. PICK obj : obj = [Rejected(worker.obj) EXCEPT !.status.dependency = 0]
    BY Zenon
  <2>3. PICK objects \in [Tenants -> Objects] : objects = avi
    BY Shapes DEF CrdInv
  <2>4. Update(obj, objects) /\ Blames(obj.status) /\ \A t \in Tenants : objects[t] = avi[t]
    BY Zenon, <1>3, <2>1, <2>2, <2>3, Blaming
  <2>5. /\ avi' \in [Tenants -> Objects]
        /\ \A t \in Tenants : /\ avi'[t].uuid = objects[t].uuid /\ avi'[t].spec = objects[t].spec
                              /\ avi'[t].secret = objects[t].secret
        /\ Unreported \/ Complaint
    BY Zenon, <1>1, <2>4, Complaining
  <2>6. Kept
    BY Zenon, <2>3, <2>5 DEF Kept, Same
  <2>7. Ends /\ (~queued' => ~queued)
    BY Zenon, <1>1, <2>1 DEF Done, Ends, CrdInv, TypeOK
  <2> QED BY Zenon, <1>2, <1>3, <2>5, <2>6, <2>7, EndKeeps
<1>4. CASE ~(HasSecret /\ secret = 0)
  <2>1. api' = api /\ current' = current /\ avi' = avi
    BY Zenon, <1>4 DEF ResolveRefs
  <2>2. CASE worker.obj.status.uuid # 0 /\ ~Changed(worker.obj) /\ KnownUnmodified(worker.obj.status)
    <3>1. worker' = Idle /\ queued' = (queued \/ FALSE)
      BY Zenon, <1>4, <2>2 DEF ResolveRefs, Done
    <3>2. Ends /\ (~queued' => ~queued)
      BY Zenon, <1>1, <3>1 DEF Ends, CrdInv, TypeOK
    <3>3. avi' \in [Tenants -> Objects] /\ Unreported /\ Kept
      BY Zenon, <2>1, Shapes DEF Unreported, Kept, Same, CrdInv
    <3>4. Final' <=> Final
      BY Zenon, <1>1, <2>1 DEF Final, environment, HasSecret
    <3>5. NoNews /\ Untouched /\ (Unmoved \/ "crash" \notin happened) => Final'
      BY Zenon, <1>1, <1>4, <2>2, <3>4, NothingToDo
    <3> QED BY Zenon, <1>2, <3>2, <3>3, <3>5, EndKeeps
  <2>3. CASE ~(worker.obj.status.uuid # 0 /\ ~Changed(worker.obj) /\ KnownUnmodified(worker.obj.status))
    <3>1. /\ worker' = [worker EXCEPT !.secret = Dependency,
                                     !.at = IF worker.obj.status.uuid = 0 THEN "post" ELSE "put"]
          /\ queued' = queued
      BY Zenon, <1>4, <2>3 DEF ResolveRefs, Continue
    <3> QED BY Zenon, <1>1, <1>2, <1>4, <2>1, <3>1, ResolvedKeeps
  <2> QED BY Zenon, <2>2, <2>3
<1> QED BY Zenon, <1>3, <1>4

-----------------------------------------------------------------------------
(* DeleteObject                                                            *)

\* The tenant has changed: the worker leaves the old one and goes on in the new one.
LEMMA LeftKeeps ==
    ASSUME WellFormed, CrdInv, Quiet, worker.at = "delete", worker.moving, worker' = AfterDelete,
           queued' = queued, avi' \in [Tenants -> Objects],
           \A t \in Tenants : avi'[t].secret \in {avi[t].secret, 0},
           (api' = api /\ current' = current) \/ Complaint
    PROVE  CrdInv'
<1> USE DEF CrdInv
<1>1. /\ worker' \in Workers /\ worker'.at = "refs" /\ worker'.tenant = worker.tenant
      /\ worker'.secret = worker.secret /\ worker'.moving
      /\ worker'.obj = [worker.obj EXCEPT !.status = Empty]
  <2>1. worker' = [worker EXCEPT !.at = "refs", !.obj = [worker.obj EXCEPT !.status = Empty]]
    BY Zenon, Shapes DEF AfterDelete, Goto, Workers
  <2>2. [worker.obj EXCEPT !.status = Empty] \in Resource
    BY Zenon, Shapes, Constants DEF Resource
  <2> QED BY Zenon, <2>1, <2>2, Shapes DEF Workers
<1>2. /\ worker'.obj.status = Empty /\ worker'.obj.there = worker.obj.there
      /\ worker'.obj.uid = worker.obj.uid /\ worker'.obj.deleting = worker.obj.deleting
      /\ worker'.obj.finalizer = worker.obj.finalizer
      /\ worker'.obj.generation = worker.obj.generation
  BY Zenon, <1>1, Shapes DEF Resource
<1>3. Programs /\ Guarded /\ ~Removes /\ Programs' /\ Guarded' /\ ~Removes'
  BY Zenon, <1>1 DEF Programs, Guarded, Removes
<1>4. /\ kind' = kind /\ view' = view /\ tenant' = tenant /\ secret' = secret /\ inUse' = inUse
      /\ creates' = creates /\ cache' = cache
      /\ left' \in 0..MaxDisturbances /\ left' <= left
      /\ (Unmoved' <=> Unmoved) /\ (Untouched' <=> Untouched)
      /\ ("crash" \in happened' <=> "crash" \in happened)
      /\ (HasSecret' <=> HasSecret)
  BY Zenon DEF Quiet, HasSecret
<1>5. ~(Unmoved /\ Untouched)
  BY Zenon DEF HomeInv
<1>6. /\ api' \in Resource /\ api'.there = api.there /\ api'.uid = api.uid
      /\ api'.deleting = api.deleting /\ api'.finalizer = api.finalizer
      /\ api'.generation = api.generation
      /\ current' = {"worker"} \/ (current' = current /\ api' = api)
      /\ "worker" \in current' => "worker" \in current
      /\ api'.status.dependency \in Versions \cup {0}
  BY Zenon, Shapes DEF Complaint, Reported, Writable, Versions
<1>7. TypeOK'
  BY Zenon, <1>1, <1>4, <1>6 DEF TypeOK, Objects, Workers
<1>8. CopyInv'
  <2>1. Version(worker.obj)'
    <3>1. worker.obj.there
      BY SMTT(30), <1>3, Constants DEF FinalizerInv, CopyInv, Version
    <3> QED BY SMTT(30), <1>2, <1>4, <3>1, Constants DEF CopyInv, Version
  <2>2. Version(api)'
    <3>1. CASE api' = api
      BY SMTT(30), <1>4, <3>1 DEF CopyInv, Version
    <3>2. CASE Complaint
      <4>1. api'.status.condition # "none" /\ (api'.status.uuid # 0 => api'.status.tenant # None)
        BY Zenon, <3>2 DEF Complaint, CopyInv, Version
      <4>2. api.there /\ api.finalizer
        BY Zenon, <1>3, <3>2 DEF FinalizerInv, Complaint, Reported, Writable
      <4> QED BY SMTT(30), <1>4, <1>6, <4>1, <4>2 DEF CopyInv, Version
    <3> QED BY Zenon, <3>1, <3>2
  <2>3. "worker" \in current' => worker'.obj = [api' EXCEPT !.status = worker'.obj.status]
    <3>1. ASSUME "worker" \in current' PROVE worker'.obj = [api' EXCEPT !.status = Empty]
      <4>1. worker.obj = [api EXCEPT !.status = worker.obj.status]
        BY Zenon, <1>6, <3>1 DEF CopyInv
      <4>2. /\ worker'.obj.there = api'.there /\ worker'.obj.uid = api'.uid
            /\ worker'.obj.deleting = api'.deleting /\ worker'.obj.finalizer = api'.finalizer
            /\ worker'.obj.generation = api'.generation
        BY <1>2, <1>6, <4>1, Shapes DEF Resource
      <4>3. worker'.obj \in Resource
        BY Zenon, <1>1 DEF Workers
      <4> QED BY <1>2, <1>6, <4>2, <4>3 DEF Resource
    <3> QED BY Zenon, <1>2, <3>1
  <2>4. Version(view)' /\ ("view" \in current' => view' = api')
    BY Zenon, <1>4, <1>6 DEF CopyInv, Version
  <2>5. left' \in 0..MaxDisturbances /\ creates' \in 0..MaxCreates
    BY Zenon, <1>4 DEF CopyInv
  <2>6. view'.uid = api'.uid => view'.generation <= api'.generation /\ (view'.deleting => api'.deleting)
    BY Zenon, <1>4, <1>6 DEF CopyInv
  <2> QED BY Zenon, <1>1, <1>3, <2>1, <2>2, <2>3, <2>4, <2>5, <2>6 DEF CopyInv
<1>9. FinalizerInv'
  BY Zenon, <1>1, <1>2, <1>3, <1>4, <1>6 DEF FinalizerInv, Going
<1>10. HomeInv' /\ StoredInv' /\ StepInv'
  BY Zenon, <1>1, <1>4, <1>5 DEF HomeInv, StoredInv, StepInv
<1>11. NewsInv'
  <2>1. NoNews' => NoNews
    BY Zenon, <1>4, <1>6 DEF NoNews
  <2> QED BY Zenon, <1>1, <1>2, <1>3, <1>4, <1>6, <2>1 DEF NewsInv
<1>12. SecretInv'
  <2>1. worker'.obj.status.dependency = 0
    BY Zenon, <1>2, Constants
  <2>2. Versions' \subseteq Versions \cup {0}
    BY SMTT(30), <1>1, <1>4, <1>6, <2>1 DEF Versions
  <2> QED BY Zenon, <1>1, <1>4, <2>2, SecretStays
<1>13. CachedInv'
  BY Zenon, <1>4, <1>5 DEF CachedInv
<1> QED BY Zenon, <1>7, <1>8, <1>9, <1>10, <1>11, <1>12, <1>13

\* The object is gone: the worker goes on to the finalizer.
LEMMA RemovedKeeps ==
    ASSUME WellFormed, CrdInv, Quiet, worker.at = "delete", ~worker.moving,
           worker' = AfterDelete, queued' = queued, avi' \in [Tenants -> Objects],
           api' = api, current' = current,
           \A t \in Tenants : avi'[t] = avi[t] \/ (avi'[t].uuid = 0 /\ avi'[t].secret = 0),
           Unmoved /\ Untouched => avi'[tenant].uuid = 0
    PROVE  CrdInv'
<1> USE DEF CrdInv
<1>1. /\ worker' \in Workers /\ worker'.at = "removeFinalizer" /\ worker'.tenant = worker.tenant
      /\ worker'.secret = worker.secret /\ ~worker'.moving /\ worker'.obj = worker.obj
  BY Zenon, Shapes DEF AfterDelete, Goto, Workers
<1>3. ~Programs /\ ~Guarded /\ Removes /\ ~Programs' /\ ~Guarded' /\ Removes'
  BY Zenon, <1>1 DEF Programs, Guarded, Removes
<1>4. /\ kind' = kind /\ view' = view /\ tenant' = tenant /\ secret' = secret /\ inUse' = inUse
      /\ creates' = creates /\ cache' = cache
      /\ left' \in 0..MaxDisturbances /\ left' <= left
      /\ (Unmoved' <=> Unmoved) /\ (Untouched' <=> Untouched)
      /\ ("crash" \in happened' <=> "crash" \in happened)
      /\ (HasSecret' <=> HasSecret)
  BY Zenon DEF Quiet, HasSecret
<1>5. tenant \in Tenants
  BY Zenon, Shapes
<1>6. TypeOK'
  BY Zenon, <1>1, <1>4 DEF TypeOK, Objects, Workers
<1>7. CopyInv'
  BY SMTT(30), <1>1, <1>3, <1>4 DEF CopyInv, Version
<1>8. FinalizerInv'
  BY Zenon, <1>1, <1>3, <1>4 DEF FinalizerInv, Going
<1>9. HomeInv'
  <2> SUFFICES ASSUME Unmoved, Untouched PROVE HomeInv'
    BY Zenon, <1>4 DEF HomeInv
  <2>1. /\ api.status.uuid # 0 => api.deleting /\ view.deleting
        /\ view.status.uuid # 0 => view.deleting
        /\ worker.obj.deleting
    BY SMTT(30), <1>3, Constants DEF FinalizerInv, Going, CopyInv, Version
  <2>2. \A t \in Tenants : ~Exists(t)'
    BY Zenon DEF Exists, HomeInv
  <2> QED BY Zenon, <1>1, <1>3, <1>4, <1>5, <2>1, <2>2 DEF HomeInv, AtHome, Named
<1>10. StoredInv' /\ StepInv'
  BY Zenon, <1>1 DEF StoredInv, StepInv
<1>11. NewsInv'
  <2>1. ~NoNews'
    BY Zenon, <1>3, <1>4 DEF NewsInv, NoNews, FinalizerInv
  <2> QED BY Zenon, <2>1 DEF NewsInv
<1>12. SecretInv'
  <2>1. Versions' \subseteq Versions \cup {0}
    BY Zenon, <1>1, <1>4 DEF Versions
  <2> QED BY Zenon, <1>1, <1>4, <2>1, SecretStays
<1>13. CachedInv'
  <2>1. (Knows(view)' <=> Knows(view)) /\ (Knows(worker.obj)' <=> Knows(worker.obj))
    BY Zenon, <1>1, <1>4 DEF Knows
  <2> QED BY Zenon, <1>1, <1>4, <1>5, <2>1 DEF CachedInv, Exists
<1> QED BY Zenon, <1>6, <1>7, <1>8, <1>9, <1>10, <1>11, <1>12, <1>13

\* A turn ends with a complaint, and asks for another.
LEMMA ComplaintKeeps ==
    ASSUME WellFormed, CrdInv, Quiet, worker.at = "delete", worker' = Idle, queued' = TRUE,
           NEW objects \in [Tenants -> Objects],
           \A t \in Tenants : objects[t] = avi[t] \/ (objects[t].uuid = 0 /\ objects[t].secret = 0),
           Update(Failed(worker.obj), objects)
    PROVE  CrdInv'
<1>1. PICK obj : obj = Failed(worker.obj)
  OBVIOUS
<1>2. Update(obj, objects) /\ Blames(obj.status)
  BY Zenon, <1>1, Blaming
<1>3. /\ avi' \in [Tenants -> Objects]
      /\ \A t \in Tenants : /\ avi'[t].uuid = objects[t].uuid /\ avi'[t].spec = objects[t].spec
                            /\ avi'[t].secret = objects[t].secret
      /\ Unreported \/ Complaint
  BY Zenon, <1>2, Complaining
<1>4. Cleared
  BY Zenon, <1>3 DEF Cleared, Same
<1>5. Ends
  BY Zenon DEF Ends
<1> QED BY Zenon, <1>3, <1>4, <1>5, EndKeeps

\* Where the object to delete is looked for: while the tenant stays, that is where it is.
LEMMA TargetIsHome ==
    ASSUME WellFormed, CrdInv, worker.at = "delete"
    PROVE  /\ Target.tenant \in Tenants
           /\ Unmoved /\ Untouched => /\ Target.tenant = tenant
                                      /\ Exists(tenant) => Target.uuid = avi[tenant].uuid
<1> USE DEF CrdInv
<1>1. CASE worker.obj.status.uuid # 0
  <2>1. Target.uuid = worker.obj.status.uuid /\ Target.tenant = worker.obj.status.tenant
    BY Zenon, <1>1 DEF Target
  <2>2. worker.obj.status.tenant \in Tenants
    BY Zenon, <1>1, Shapes DEF CopyInv, Version, Status
  <2> QED BY Zenon, <1>1, <2>1, <2>2 DEF HomeInv, AtHome, Named
<1>2. CASE worker.obj.status.uuid = 0
  <2>1. PICK t : t = IF worker.obj.status.tenant # None THEN worker.obj.status.tenant ELSE tenant
    OBVIOUS
  <2>2. Target = [uuid |-> avi[t].uuid, tenant |-> t]
    BY Zenon, <1>2, <2>1 DEF Target
  <2>3. t \in Tenants
    BY Zenon, <2>1, Shapes DEF Status
  <2>4. Unmoved /\ Untouched => t = tenant
    BY Zenon, <2>1 DEF HomeInv, AtHome
  <2> QED BY Zenon, <2>2, <2>3, <2>4
<1> QED BY Zenon, <1>1, <1>2

\* DELETE, with every answer.
LEMMA DeleteObjectKeeps ==
    ASSUME WellFormed, CrdInv, DeleteObject
    PROVE  CrdInv'
<1> DEFINE there(o) == o.uuid # 0 /\ avi[o.tenant].uuid = o.uuid
           gone(o) == [avi EXCEPT ![o.tenant] = NoObject]
<1>1. worker.at = "delete" /\ view' = view /\ cache' = cache
  BY Zenon DEF DeleteObject, AtStep
<1>2. PICK o : o = Target
  OBVIOUS
<1>3. PICK a \in Answers :
         /\ Answer(a)
         /\ \/ there(o) /\ o.tenant \in inUse /\ a = "ok" /\ Skip
            \/ /\ a = "ok" \/ worker.moving
               /\ Request(a, IF there(o) THEN gone(o) ELSE avi, AfterDelete)
            \/ /\ ~worker.moving /\ a # "ok"
               /\ IF worker.obj.status.uuid # 0
                  THEN Update(Failed(worker.obj),
                              IF a = "lost" /\ there(o) /\ o.tenant \notin inUse THEN gone(o) ELSE avi)
                  ELSE UNCHANGED <<api, current, avi>>
               /\ Done(TRUE)
  BY Zenon, <1>2 DEF DeleteObject
<1>4. Quiet
  BY Zenon, <1>1, <1>3, Answering
<1>5. /\ o.tenant \in Tenants
      /\ Unmoved /\ Untouched => /\ o.tenant = tenant
                                 /\ Exists(tenant) => o.uuid = avi[tenant].uuid
  BY Zenon, <1>1, <1>2, TargetIsHome
<1>6. avi \in [Tenants -> Objects] /\ NoObject \in Objects /\ NoObject.uuid = 0 /\ NoObject.secret = 0
  BY Zenon, Shapes, Constants DEF CrdInv, NoObject
<1>7. /\ gone(o) \in [Tenants -> Objects] /\ gone(o)[o.tenant].uuid = 0
      /\ \A t \in Tenants : gone(o)[t] = avi[t] \/ (gone(o)[t].uuid = 0 /\ gone(o)[t].secret = 0)
  BY Zenon, <1>5, <1>6
<1>8. PICK none, some : none = avi /\ some = gone(o)
  BY Zenon
<1>9. /\ none \in [Tenants -> Objects] /\ some \in [Tenants -> Objects] /\ some[o.tenant].uuid = 0
      /\ \A t \in Tenants : none[t] = avi[t]
      /\ \A t \in Tenants : some[t] = avi[t] \/ (some[t].uuid = 0 /\ some[t].secret = 0)
  BY Zenon, <1>6, <1>7, <1>8
<1> HIDE DEF gone
<1>10. CASE Skip
  <2>1. Update(Failed(worker.obj), none)
    BY Zenon, <1>8, <1>10 DEF Skip
  <2>2. CASE worker.moving /\ Writable
    <3>1. worker' = AfterDelete /\ queued' = queued
      BY Zenon, <1>10, <2>2 DEF Skip, Continue
    <3>2. PICK obj : obj = Failed(worker.obj)
      OBVIOUS
    <3>3. Update(obj, none) /\ Blames(obj.status)
      BY Zenon, <2>1, <3>2, Blaming
    <3>4. /\ avi' \in [Tenants -> Objects] /\ Complaint
          /\ \A t \in Tenants : avi'[t].secret = none[t].secret
      BY Zenon, <1>1, <1>9, <2>2, <3>3, Complaining
    <3>5. \A t \in Tenants : avi'[t].secret \in {avi[t].secret, 0}
      BY Zenon, <1>9, <3>4
    <3> QED BY Zenon, <1>1, <1>4, <2>2, <3>1, <3>4, <3>5, LeftKeeps
  <2>3. CASE ~(worker.moving /\ Writable)
    <3>1. worker' = Idle /\ queued' = TRUE
      BY Zenon, <1>10, <2>3 DEF Skip, Done
    <3> QED BY Zenon, <1>1, <1>4, <1>9, <2>1, <3>1, ComplaintKeeps
  <2> QED BY Zenon, <2>2, <2>3
<1>11. CASE /\ a = "ok" \/ worker.moving
            /\ Request(a, IF there(o) THEN gone(o) ELSE avi, AfterDelete)
  <2>1. PICK objects \in {none, some} :
           /\ Request(a, objects, AfterDelete)
           /\ there(o) => objects = some
    BY Zenon, <1>8, <1>11
  <2>2. CASE a = "ok"
    <3>1. avi' = objects /\ worker' = AfterDelete /\ queued' = queued /\ api' = api /\ current' = current
      BY Zenon, <2>1, <2>2 DEF Request, Continue
    <3>2. /\ avi' \in [Tenants -> Objects]
          /\ \A t \in Tenants : avi'[t] = avi[t] \/ (avi'[t].uuid = 0 /\ avi'[t].secret = 0)
      BY Zenon, <1>9, <2>1, <3>1
    <3>3. CASE worker.moving
      BY Zenon, <1>1, <1>4, <3>1, <3>2, <3>3, LeftKeeps
    <3>4. CASE ~worker.moving
      <4>1. Unmoved /\ Untouched => avi'[tenant].uuid = 0
        <5>1. CASE there(o)
          BY Zenon, <1>5, <1>9, <2>1, <3>1, <5>1
        <5>2. CASE ~there(o)
          BY Zenon, <1>5, <3>2, <5>2 DEF Exists
        <5> QED BY Zenon, <5>1, <5>2
      <4> QED BY Zenon, <1>1, <1>4, <3>1, <3>2, <3>4, <4>1, RemovedKeeps
    <3> QED BY Zenon, <3>3, <3>4
  <2>3. CASE a # "ok"
    <3>1. PICK left0 \in {none, some} : Fail(a, left0)
      BY Zenon, <1>8, <2>1, <2>3 DEF Request
    <3>2. /\ left0 \in [Tenants -> Objects]
          /\ \A t \in Tenants : left0[t] = avi[t] \/ (left0[t].uuid = 0 /\ left0[t].secret = 0)
      BY Zenon, <1>9, <3>1
    <3>3. (\A t \in Tenants : /\ avi'[t].uuid = left0[t].uuid /\ avi'[t].spec = left0[t].spec
                              /\ avi'[t].secret = left0[t].secret) => Cleared
      BY Zenon, <1>1, <3>2 DEF Cleared, Same
    <3> QED BY Zenon, <1>1, <1>4, <3>1, <3>2, <3>3, FailingKeeps
  <2> QED BY Zenon, <2>2, <2>3
<1>12. CASE /\ ~worker.moving /\ a # "ok"
            /\ IF worker.obj.status.uuid # 0
               THEN Update(Failed(worker.obj),
                           IF a = "lost" /\ there(o) /\ o.tenant \notin inUse THEN gone(o) ELSE avi)
               ELSE UNCHANGED <<api, current, avi>>
            /\ Done(TRUE)
  <2>1. worker' = Idle /\ queued' = TRUE
    BY Zenon, <1>12 DEF Done
  <2>2. CASE worker.obj.status.uuid # 0
    <3>1. PICK objects \in {none, some} : Update(Failed(worker.obj), objects)
      BY Zenon, <1>8, <1>12, <2>2
    <3>2. /\ objects \in [Tenants -> Objects]
          /\ \A t \in Tenants : objects[t] = avi[t] \/ (objects[t].uuid = 0 /\ objects[t].secret = 0)
      BY Zenon, <1>9, <3>1
    <3> QED BY Zenon, <1>1, <1>4, <2>1, <3>1, <3>2, ComplaintKeeps
  <2>3. CASE worker.obj.status.uuid = 0
    <3>1. api' = api /\ current' = current /\ avi' = avi
      BY Zenon, <1>12, <2>3
    <3>2. Ends /\ Unreported /\ Kept /\ avi' \in [Tenants -> Objects]
      BY Zenon, <1>1, <1>6, <2>1, <3>1 DEF Ends, Unreported, Kept, Same
    <3> QED BY Zenon, <1>4, <2>1, <3>2, EndKeeps
  <2> QED BY Zenon, <2>2, <2>3
<1> QED BY Zenon, <1>3, <1>10, <1>11, <1>12

-----------------------------------------------------------------------------
\* The invariant holds at the start: there is no resource, no object and no copy.
LEMMA InitIsSafe ==
    ASSUME WellFormed, Init
    PROVE  CrdInv
<1>1. /\ api = Absent /\ view = Absent /\ current = {"view"} /\ tenant \in Tenants /\ secret = 1
      /\ avi = [t \in Tenants |-> NoObject] /\ inUse = {} /\ worker = Idle /\ creates = 0
      /\ left = MaxDisturbances /\ happened = {} /\ queued = FALSE /\ kind \in Kinds
      /\ cache = [u \in Uuids |-> "absent"]
  BY Zenon DEF Init
<1>2. ~Programs /\ ~Guarded /\ ~Removes /\ worker.obj = Absent /\ worker.at = "idle" /\ ~worker.moving
  BY Zenon, <1>1, Constants DEF Programs, Guarded, Removes
<1>3. \A t \in Tenants : avi[t].uuid = 0 /\ avi[t].secret = 0
  BY Zenon, <1>1 DEF NoObject
<1>4. TypeOK
  <2>1. 1 \in 0..MaxDisturbances + 1
    BY SMTT(30) DEF WellFormed
  <2>2. avi \in [Tenants -> Objects]
    BY Zenon, <1>1, Constants
  <2> QED BY Zenon, <1>1, <2>1, <2>2, Constants DEF TypeOK, Workers, Objects
<1>5. CopyInv
  <2>1. Version(Absent)
    <3>1. /\ Absent.status.uuid = 0 /\ Absent.status.observed = 0 /\ Absent.generation = 0
          /\ Absent.generation <= MaxGen
      BY Constants DEF WellFormed
    <3> QED BY Zenon, <3>1, Constants DEF Version
  <2>2. left \in 0..MaxDisturbances /\ creates \in 0..MaxCreates
    BY SMTT(30), <1>1 DEF WellFormed
  <2> QED BY SMTT(30), <1>1, <1>2, <2>1, <2>2, Constants DEF CopyInv
<1>6. FinalizerInv
  BY Zenon, <1>1, <1>2, Constants DEF FinalizerInv, Going
<1>7. HomeInv
  BY Zenon, <1>1, <1>2, <1>3, Constants DEF HomeInv, AtHome, Named, Exists
<1>8. StoredInv /\ StepInv
  BY Zenon, <1>2 DEF StoredInv, StepInv
<1>9. NewsInv
  BY Zenon, <1>1, Constants DEF NewsInv, NoNews
<1>10. SecretInv
  <2>1. Versions \subseteq {0}
    BY Zenon, <1>1, <1>3, Constants DEF Versions
  <2> QED BY SMTT(30), <1>1, <1>2, <2>1 DEF SecretInv, WellFormed
<1>11. CachedInv
  BY Zenon, <1>1, <1>2, <1>3, Constants DEF CachedInv, Knows, Exists
<1> QED BY Zenon, <1>4, <1>5, <1>6, <1>7, <1>8, <1>9, <1>10, <1>11 DEF CrdInv

\* Every step keeps the invariant.
LEMMA NextIsSafe ==
    ASSUME WellFormed, CrdInv, [Next]_vars
    PROVE  CrdInv'
<1>1. CASE Reconciling \/ Programming
  <2>1. CASE AddFinalizer
    BY Zenon, <2>1, AddFinalizerKeeps, GoneKeeps
  <2>2. CASE RemoveFinalizer
    BY Zenon, <2>2, RemoveFinalizerKeeps, GoneKeeps
  <2> QED BY Zenon, <1>1, <2>1, <2>2, ReconcileKeeps, DeleteObjectKeeps, TenantKeeps, ResolveKeeps, PutKeeps,
             PostKeeps, SetStatusKeeps DEF Reconciling, Programming
<1>2. CASE Deliver
  BY Zenon, <1>2, DeliverKeeps
<1>3. CASE Environment
  <2>1. ASSUME NEW t \in Tenants, NamespaceHandler(t) \/ Refer(t) \/ OutOfBand(t) PROVE CrdInv'
    <3>1. CASE NamespaceHandler(t)
      BY Zenon, <3>1, NamespaceKeeps
    <3>2. CASE Refer(t)
      BY Zenon, <3>2, ReferKeeps
    <3>3. CASE OutOfBand(t)
      BY Zenon, <3>3, OutOfBandKeeps
    <3> QED BY Zenon, <2>1, <3>1, <3>2, <3>3
  <2>2. CASE Create
    BY Zenon, <2>2, CreateKeeps
  <2>3. CASE Edit
    BY Zenon, <2>3, EditKeeps
  <2>4. CASE Delete
    BY Zenon, <2>4, DeleteKeeps
  <2>5. CASE Restart
    BY Zenon, <2>5, RestartKeeps
  <2>6. CASE SecretHandler
    BY Zenon, <2>6, SecretKeeps
  <2> QED BY Zenon, <1>3, <2>1, <2>2, <2>3, <2>4, <2>5, <2>6 DEF Environment
<1>4. CASE UNCHANGED vars
  BY SMTT(30), <1>4 DEF vars, CrdInv, TypeOK, CopyInv, FinalizerInv, HomeInv, StoredInv, StepInv, NewsInv,
     SecretInv, CachedInv, Version, Going, AtHome, Named, NoNews, Final, Versions, Knows, Reflected,
     Programs, Guarded, Removes, HasSecret, Exists, Unmoved, Untouched
<1> QED BY Zenon, <1>1, <1>2, <1>3, <1>4 DEF Next, Operator, HealthMonitorReconciler,
           ApplicationProfileReconcile, ApplicationProfileReconcileIfRequired, PKIProfileReconcile,
           PKIProfileReconcileIfRequired

\* What the invariant says of a resource that is gone, and of one at rest.
LEMMA InvIsSound ==
    ASSUME WellFormed, CrdInv
    PROVE  CrdSound
<1> USE DEF CrdInv
<1>1. NothingLeftBehind
  <2>1. ~api.there => ~api.finalizer
    BY Zenon, Constants DEF CopyInv, Version
  <2> QED BY Zenon, <2>1 DEF NothingLeftBehind, HomeInv
<1>2. RestIsFinal
  <2>1. Resting /\ api.there /\ ~api.deleting => NoNews /\ worker.at = "idle"
    BY Zenon DEF Resting, NoNews, CopyInv
  <2> QED BY Zenon, <2>1 DEF RestIsFinal, NewsInv, Final
<1> QED BY Zenon, <1>1, <1>2 DEF CrdSound

\* A resource that is gone has left no object on the controller while its namespace keeps
\* its tenant and nobody else touches the object, and the operator comes to rest only on
\* the last spec: whatever answers are lost, whatever copies are old and wherever the
\* operator ends, for any tenants, creations, generations and disturbances (Reconcile,
\* ReconcileIfRequired and DeleteObject of the three reconcilers).
THEOREM ReconcilersAreSound ==
    ASSUME WellFormed
    PROVE  Spec => []CrdSound
<1>1. Init => CrdInv
  BY Zenon, InitIsSafe
<1>2. CrdInv /\ [Next]_vars => CrdInv'
  BY Zenon, NextIsSafe
<1>3. CrdInv => CrdSound
  BY Zenon, InvIsSound
<1> QED BY <1>1, <1>2, <1>3, PTL DEF Spec
=============================================================================
