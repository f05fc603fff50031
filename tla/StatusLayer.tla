---------------------------- MODULE StatusLayer ----------------------------
(***************************************************************************)
(* The status layer (internal/status): what AKO writes back to Kubernetes. *)
(*                                                                         *)
(* The REST layer publishes an item to the status queue whenever a virtual *)
(* service or a pool changes; the item's bucket is chosen by its host      *)
(* name, so two items about one Ingress with two hosts are carried out by  *)
(* two workers at the same time.  A worker reads the object (from the API  *)
(* server or from the informer's lister, depending on the kind and the     *)
(* operation), computes the whole new status, patches it, and then patches *)
(* the annotation that maps a host name to the UUID of its virtual         *)
(* service.  At start-up and after a failover one more thread writes the   *)
(* statuses of everything in the cache (SyncObjectStatuses).               *)
(*                                                                         *)
(* One instance is about one kind of object: "ingress", "route" (OpenShift *)
(* Route), "service" (Service of type LoadBalancer) or "mci"               *)
(* (MultiClusterIngress).  A virtual service is named by its host name and *)
(* knows the objects whose pools it holds.                                 *)
(***************************************************************************)
EXTENDS Naturals, Sequences, FiniteSets, SequencesExt

CONSTANTS
    Objects,     \* the Ingresses, Routes or Services
    Hosts,       \* host names
    Kinds,       \* the kinds of object an instance may be about
    BucketOf,    \* the status worker of a host name or Service (utils.Bkt)
    Worlds,      \* the hosts of each object, at first
    None,        \* no object, no virtual service, no copy
    Changes,     \* what may happen to the system
    MaxChanges,  \* how many such things happen
    VipOf        \* the address of the n-th virtual service created

VARIABLES
    kind,      \* the kind of object this instance is about
    api,       \* the objects in the API server
    view,      \* the informer's lister
    dirty,     \* objects with a watch event under way
    errs,      \* Routes whose handler has an error message to write
    usable,    \* hosts whose Secret and Services exist
    vs,        \* the virtual services in AKO's cache, with their pools
    dying,     \* virtual services deleted, their cache entry not yet
    queue,     \* the status queue, by bucket, and the start-up thread's list
    turn,      \* what each worker is doing
    lock,      \* Ingresses whose status a worker has locked
    role,      \* "leader" or "follower"
    syncing,   \* SyncObjectStatuses is due
    uuids,     \* how many virtual services have been created
    left,      \* how many changes remain
    happened   \* what has happened so far

vars == <<kind, api, view, dirty, errs, usable, vs, dying, queue, turn, lock,
          role, syncing, uuids, left, happened>>

Syncer == "syncer"
Buckets == {BucketOf[x] : x \in Hosts \cup Objects}
Workers == Buckets \cup {Syncer}
Refused == "refused"       \* the entry of a Route AKO does not admit
NoAnn == [h \in Hosts |-> 0]
Vips == {VipOf[n] : n \in DOMAIN VipOf}
MaxUuid == Len(VipOf)      \* the bound on how many are created

(***************************************************************************)
(* An object: the hosts of its spec, whether it is AKO's to serve (its     *)
(* class, its namespace, its back ends), its load-balancer status and its  *)
(* host-to-UUID annotation.                                                *)
(***************************************************************************)
Fresh(hosts) == [hosts |-> hosts, adm |-> "ours", status |-> {}, ann |-> NoAnn]

Admissions ==
    CASE kind = "ingress" -> {"ours", "class", "namespace"}
      [] kind = "route"   -> {"ours", "namespace", "duplicate"}
      [] OTHER            -> {"ours", "namespace"}

\* Only an Ingress lists several hosts.
SpecsOf(k) == {S \in SUBSET Hosts : IF k = "ingress" THEN S # {} ELSE Cardinality(S) = 1}

Happens(tags) == happened' = happened \cup tags

May(what) ==
    /\ what \in Changes
    /\ left > 0
    /\ left' = left - 1

Serves(h, o) == vs[h] # None /\ o \in vs[h].objs

Live(uuid) == \E h \in Hosts : vs[h] # None /\ vs[h].uuid = uuid

-----------------------------------------------------------------------------
(***************************************************************************)
(* The REST layer's side: items published to the status queue.             *)
(***************************************************************************)
Item(op, o, hosts, vip, uuid, vsDel) ==
    [op |-> op, obj |-> o, hosts |-> hosts, vip |-> vip, uuid |-> uuid,
     vsDel |-> vsDel, copy |-> None]

\* One item per pool, each about the object that the pool serves.
ForPools(S, item(_)) == LET s == SetToSeq(S) IN [i \in DOMAIN s |-> item(s[i])]

StatusUpdateForPool(h, v) ==
    IF role = "leader"
    THEN ForPools(v.objs, LAMBDA o : Item("update", o, {h}, v.vip, v.uuid, FALSE))
    ELSE <<>>

StatusUpdateForVS(h, v) == StatusUpdateForPool(h, v)

DeletePoolIngressStatus(h, S, vsDel) ==
    ForPools(S, LAMBDA o : Item("delete", o, {h}, None, 0, vsDel))

\* The bucket: by the name of a Service, by the host name otherwise.
BktOf(it) == IF kind = "service" THEN BucketOf[it.obj]
             ELSE BucketOf[CHOOSE h \in it.hosts : TRUE]

PublishToStatusQueue(items) ==
    queue' = [w \in Workers |->
        queue[w] \o SelectSeq(items, LAMBDA it : BktOf(it) = w)]

\* The objects that the virtual service of h should hold, as the lister shows
\* them.
Wanted(h) ==
    IF h \in usable
    THEN {o \in Objects : view[o] # None /\ view[o].adm = "ours" /\ h \in view[o].hosts}
    ELSE {}

\* AviVsCacheAdd after a POST: the virtual service is in the cache, and one
\* item per pool is published.
CreateVs(h) ==
    /\ vs[h] = None
    /\ Wanted(h) # {}
    /\ uuids < MaxUuid
    /\ LET v == [uuid |-> uuids + 1, vip |-> VipOf[uuids + 1], objs |-> Wanted(h)]
       IN  /\ vs' = [vs EXCEPT ![h] = v]
           /\ PublishToStatusQueue(StatusUpdateForVS(h, v))
    /\ uuids' = uuids + 1
    /\ UNCHANGED <<kind, api, view, dirty, errs, usable, dying, turn, lock, role,
                   syncing, left, happened>>

\* Pools added and the virtual service PUT (AviPoolCacheAdd, AviVsCacheAdd),
\* then the pools of objects that left it deleted (AviPoolCacheDel).
ChangeVs(h) ==
    /\ vs[h] # None /\ h \notin dying
    /\ Wanted(h) \notin {{}, vs[h].objs}
    /\ LET v == [vs[h] EXCEPT !.objs = Wanted(h)]
       IN  /\ vs' = [vs EXCEPT ![h] = v]
           /\ PublishToStatusQueue(StatusUpdateForVS(h, v)
                  \o DeletePoolIngressStatus(h, vs[h].objs \ v.objs, FALSE))
    /\ UNCHANGED <<kind, api, view, dirty, errs, usable, dying, turn, lock, role,
                   syncing, uuids, left, happened>>

\* AviVsCacheDel publishes the deletion of the pools' statuses first ...
DeleteVs(h) ==
    /\ vs[h] # None /\ h \notin dying
    /\ Wanted(h) = {}
    /\ PublishToStatusQueue(DeletePoolIngressStatus(h, vs[h].objs, TRUE))
    /\ dying' = dying \cup {h}
    /\ UNCHANGED <<kind, api, view, dirty, errs, usable, vs, turn, lock, role,
                   syncing, uuids, left, happened>>

\* ... and removes the cache entry last.
ForgetVs(h) ==
    /\ h \in dying
    /\ dying' = dying \ {h}
    /\ vs' = [vs EXCEPT ![h] = None]
    /\ UNCHANGED <<kind, api, view, dirty, errs, usable, queue, turn, lock, role,
                   syncing, uuids, left, happened>>

-----------------------------------------------------------------------------
(***************************************************************************)
(* The new status and annotation an item asks for, given a copy of the     *)
(* object.                                                                 *)
(***************************************************************************)
Entry(h, it) ==
    [host |-> h, vip |-> it.vip, uuid |-> IF kind = "route" THEN it.uuid ELSE 0]

\* Mutant: the entries of the object's other hosts are forgotten.
UpdatedOwnHosts(obj, it) == {Entry(h, it) : h \in it.hosts \cap obj.hosts}

\* updateObject: entries of the item's hosts are replaced, and entries of
\* hosts that the spec does not list are dropped.
UpdatedIngress(obj, it) ==
    {e \in {e \in obj.status : e.host \notin it.hosts} \cup {Entry(h, it) : h \in it.hosts} :
        e.host \in obj.hosts}

UpdatedRoute(obj, it) == UpdatedIngress(obj, it)

UpdatedService(obj, it) == {Entry(h, it) : h \in it.hosts}

UpdatedMci(obj, it) == {Entry(h, it) : h \in obj.hosts}

Updated(obj, it) ==
    CASE kind = "ingress" -> UpdatedIngress(obj, it)
      [] kind = "route"   -> UpdatedRoute(obj, it)
      [] kind = "service" -> UpdatedService(obj, it)
      [] OTHER            -> UpdatedMci(obj, it)

\* deleteObject: an entry goes when the Ingress is no longer AKO's or no
\* longer lists the host, or when its virtual service is not in the cache.
PrunedIngress(obj, it) ==
    {e \in obj.status :
        ~ /\ e.host \in it.hosts
          /\ \/ obj.adm # "ours"
             \/ e.host \notin obj.hosts
             \/ it.vsDel /\ ~Live(obj.ann[e.host])}

\* deleteRouteObject; a Route that is not admitted keeps its error entry.
routeStatusCheck(obj, it) ==
    \E e \in obj.status : e.host \in it.hosts /\ e.vip # Refused

PrunedRoute(obj, it) ==
    {e \in obj.status :
        ~ /\ e.host \in it.hosts
          /\ e.host \notin obj.hosts \/ it.vsDel \/ obj.adm = "namespace"}

Pruned(obj, it) ==
    CASE kind = "ingress" -> PrunedIngress(obj, it)
      [] kind = "route"   -> PrunedRoute(obj, it)
      [] OTHER            -> {}

\* Mutant: what other items wrote of the Ingress is dropped.
AnnotatedOwnHosts(obj, it) ==
    [h \in Hosts |-> IF h \in it.hosts /\ h \in obj.hosts THEN it.uuid ELSE 0]

\* updateIngAnnotations, updateRouteAnnotations: the hosts of the item get the
\* item's UUID, hosts that the spec does not list are dropped.
AnnotatedIngress(obj, it) ==
    [h \in Hosts |-> IF h \notin obj.hosts THEN 0
                     ELSE IF h \in it.hosts THEN it.uuid ELSE obj.ann[h]]

\* updateSvcAnnotations, UpdateMultiClusterIngressAnnotations: one host.
AnnotatedSingle(obj, it) ==
    [h \in Hosts |-> IF h \in it.hosts THEN it.uuid ELSE 0]

Annotated(obj, it) ==
    IF kind \in {"ingress", "route"} THEN AnnotatedIngress(obj, it)
    ELSE AnnotatedSingle(obj, it)

\* deleteIngressAnnotation.  The class of the Ingress is not considered.
UnannotatedIngress(obj, it) ==
    [h \in Hosts |->
        IF /\ h \in it.hosts
           /\ h \notin obj.hosts \/ obj.adm = "namespace" \/ (it.vsDel /\ ~Live(obj.ann[h]))
        THEN 0 ELSE obj.ann[h]]

\* deleteRouteAnnotation.
UnannotatedRoute(obj, it) ==
    [h \in Hosts |->
        IF h \in it.hosts /\ (h \notin obj.hosts \/ it.vsDel \/ obj.adm = "namespace")
        THEN 0 ELSE obj.ann[h]]

Unannotated(obj, it) ==
    CASE kind = "ingress" -> UnannotatedIngress(obj, it)
      [] kind = "route"   -> UnannotatedRoute(obj, it)
      [] OTHER            -> NoAnn

-----------------------------------------------------------------------------
(***************************************************************************)
(* A worker carries out the first item of its queue.  Its turn: the next   *)
(* step, its copy of the object, and the number of retries.                *)
(***************************************************************************)
Turn(pc, copy, retry) == [pc |-> pc, copy |-> copy, retry |-> retry]
Idle == Turn("read", None, 0)

ItemOf(w) == Head(queue[w])
ObjOf(w) == ItemOf(w).obj

\* leader.DequeueStatus: worker w, at step pc of an item that asks for op.
DequeueStatus(w, pc, op) ==
    /\ queue[w] # <<>>
    /\ role = "leader"
    /\ turn[w].pc = pc
    /\ ItemOf(w).op \in op

Done(w) ==
    /\ turn' = [turn EXCEPT ![w] = Idle]
    /\ queue' = [queue EXCEPT ![w] = Tail(@)]

Go(w, pc, copy, retry) ==
    /\ turn' = [turn EXCEPT ![w] = Turn(pc, copy, retry)]
    /\ UNCHANGED queue

\* follower.DequeueStatus.
FollowerDequeueStatus(w) ==
    /\ role = "follower"
    /\ queue[w] # <<>>
    /\ Done(w)
    /\ UNCHANGED <<kind, api, view, dirty, errs, usable, vs, dying, lock, role,
                   syncing, uuids, left, happened>>

\* compareRouteStatus, compareLBStatus, compareIngressLBStatus: the status
\* already says what the item asks for.
compareRouteStatus(obj, it) == obj.status = UpdatedRoute(obj, it)
compareLBStatus(obj, it) == obj.status = UpdatedService(obj, it)
compareIngressLBStatus(obj, it) == obj.status = UpdatedIngress(obj, it)

\* With this copy: nothing to patch in the status, or a status to patch.
Decide(w, copy, retry) ==
    LET it == ItemOf(w)
        same == CASE kind = "ingress" -> compareIngressLBStatus(copy, it)
                  [] kind = "route"   -> compareRouteStatus(copy, it)
                  [] kind = "service" -> compareLBStatus(copy, it)
                  [] OTHER            -> FALSE
        step == IF same THEN "annotate"
                ELSE IF kind = "ingress" THEN "lock" ELSE "patch"
    IN  Go(w, step, copy, retry)

\* The object to start from.  The start-up thread has copies that it took
\* from the lister when it began; an Ingress or a Route is otherwise read from
\* the API server, a Service from the lister.
getIngresses(w) == IF ItemOf(w).copy # None THEN ItemOf(w).copy ELSE api[ObjOf(w)]
getRoutes(w) == IF ItemOf(w).copy # None THEN ItemOf(w).copy ELSE api[ObjOf(w)]
getServices(w) == IF ItemOf(w).copy # None THEN ItemOf(w).copy ELSE view[ObjOf(w)]

ReadToUpdate(w, src, tags) ==
    /\ DequeueStatus(w, "read", {"update"})
    /\ IF src = None THEN Done(w) ELSE Decide(w, src, turn[w].retry)
    /\ Happens(tags)
    /\ UNCHANGED <<kind, api, view, dirty, errs, usable, vs, dying, lock,
                   role, syncing, uuids, left>>

StaleIf(w, src) == IF src # api[ObjOf(w)] THEN {"stale"} ELSE {}

UpdateIngressStatus(w) ==
    /\ kind = "ingress" /\ queue[w] # <<>>
    /\ ReadToUpdate(w, getIngresses(w), {})

UpdateRouteStatus(w) ==
    /\ kind = "route" /\ queue[w] # <<>>
    /\ ReadToUpdate(w, getRoutes(w), {})

\* The API server does not answer the read, nor its repetitions: the update is
\* skipped.
ReadFails(w) ==
    /\ kind \in {"ingress", "route"}
    /\ DequeueStatus(w, "read", {"update"})
    /\ ItemOf(w).copy = None
    /\ May("error")
    /\ Done(w)
    /\ Happens({"error", "unread"})
    /\ UNCHANGED <<kind, api, view, dirty, errs, usable, vs, dying, lock, role,
                   syncing, uuids>>

UpdateL4LBStatus(w) ==
    /\ kind = "service" /\ queue[w] # <<>>
    /\ ReadToUpdate(w, getServices(w), StaleIf(w, getServices(w)))

UpdateMultiClusterIngressStatusAndAnnotation(w) ==
    /\ kind = "mci" /\ queue[w] # <<>>
    /\ ReadToUpdate(w, view[ObjOf(w)], StaleIf(w, view[ObjOf(w)]))

\* Mutant: the lock is taken but the Ingress is not read again.
LockWithoutRead(w) ==
    /\ DequeueStatus(w, "lock", {"update"})
    /\ ObjOf(w) \notin lock
    /\ lock' = lock \cup {ObjOf(w)}
    /\ Go(w, "patch", turn[w].copy, turn[w].retry)
    /\ UNCHANGED <<kind, api, view, dirty, errs, usable, vs, dying, role,
                   syncing, uuids, left, happened>>

\* updateObject takes the Ingress's lock and reads it again: when another
\* worker changed the status meanwhile, it starts over from what it read.
LockIngress(w) ==
    /\ DequeueStatus(w, "lock", {"update"})
    /\ ObjOf(w) \notin lock
    /\ LET o == ObjOf(w)
           latest == api[o]
       IN  IF latest # None /\ latest.status # turn[w].copy.status
           THEN /\ Decide(w, latest, turn[w].retry)
                /\ UNCHANGED lock
           ELSE /\ lock' = lock \cup {o}
                /\ Go(w, "patch", turn[w].copy, turn[w].retry)
    /\ UNCHANGED <<kind, api, view, dirty, errs, usable, vs, dying, role,
                   syncing, uuids, left, happened>>

\* The read under the lock fails: there is nothing to compare the copy with, and
\* it is patched as it is.
LockIngressUnread(w) ==
    /\ DequeueStatus(w, "lock", {"update"})
    /\ ObjOf(w) \notin lock
    /\ May("error")
    /\ lock' = lock \cup {ObjOf(w)}
    /\ Go(w, "patch", turn[w].copy, turn[w].retry)
    /\ LET latest == api[ObjOf(w)]
       IN  Happens({"error"} \cup IF latest # None /\ latest.status # turn[w].copy.status
                                  THEN {"unchecked"} ELSE {})
    /\ UNCHANGED <<kind, api, view, dirty, errs, usable, vs, dying, role, syncing,
                   uuids>>

\* What a patch overwrites that its author did not know of.
Overlap(w, o) == IF api[o].status # turn[w].copy.status THEN {"overlap"} ELSE {}

\* An item that the REST layer has since overtaken: the start-up thread's,
\* or that of another bucket.
Outdated(it) == IF it.uuid # 0 /\ ~Live(it.uuid) THEN {"outdated"} ELSE {}

\* The status is patched as a whole.  The answer is the object as it now is; the
\* hosts that the annotation may name are still those of the copy.
PatchUpdate(w) ==
    /\ DequeueStatus(w, "patch", {"update"})
    /\ LET o == ObjOf(w)
           it == ItemOf(w)
       IN  /\ IF api[o] = None
              THEN Done(w) /\ UNCHANGED <<api, dirty, happened>>
              ELSE /\ api' = [api EXCEPT ![o].status = Updated(turn[w].copy, it)]
                   /\ dirty' = dirty \cup {o}
                   /\ Go(w, "annotate", [api'[o] EXCEPT !.hosts = turn[w].copy.hosts], 0)
                   /\ Happens(Overlap(w, o) \cup (IF w = Syncer THEN Outdated(it) ELSE {}))
           /\ lock' = lock \ {o}
    /\ UNCHANGED <<kind, view, errs, usable, vs, dying, role, syncing, uuids,
                   left>>

\* The patch fails: an Ingress or a Route is read again and retried, at most
\* three times.  For a Service, or when that read fails too, the error is only
\* logged, and the empty answer takes the annotation nowhere.
PatchUpdateFails(w) ==
    /\ DequeueStatus(w, "patch", {"update"})
    /\ May("error")
    /\ LET o == ObjOf(w)
           retry == turn[w].retry + 1
       IN  \E read \in BOOLEAN :
           /\ kind \in {"service", "mci"} => read
           /\ CASE kind = "service" \/ api[o] = None \/ ~read -> Done(w)
                [] kind = "mci" /\ api[o] # None ->
                    Go(w, IF retry < 3 THEN "patch" ELSE "annotate", turn[w].copy, retry)
                [] OTHER -> IF retry < 3 THEN Decide(w, api[o], retry) ELSE Done(w)
           /\ lock' = lock \ {o}
           /\ Happens({"error"} \cup (IF kind = "service" THEN {"unretried"} ELSE {})
                                \cup (IF read THEN {} ELSE {"unread"}))
    /\ UNCHANGED <<kind, api, view, dirty, errs, usable, vs, dying, role,
                   syncing, uuids>>

\* The annotation is patched as a whole, too, from the copy, with no lock.
PatchAnnotation(w) ==
    /\ DequeueStatus(w, "annotate", {"update", "delete"})
    /\ LET o == ObjOf(w)
           it == ItemOf(w)
           new == IF it.op = "update" THEN Annotated(turn[w].copy, it)
                  ELSE Unannotated(turn[w].copy, it)
       IN  IF api[o] = None \/ new = turn[w].copy.ann
           THEN /\ UNCHANGED <<api, dirty>>
                /\ Happens(IF api[o] # None /\ api[o].ann # turn[w].copy.ann
                           THEN {"annOverlap"} ELSE {})
           ELSE /\ api' = [api EXCEPT ![o].ann = new]
                /\ dirty' = dirty \cup {o}
                /\ Happens(IF api[o].ann # turn[w].copy.ann THEN {"annOverlap"} ELSE {})
    /\ Done(w)
    /\ UNCHANGED <<kind, view, errs, usable, vs, dying, lock, role, syncing,
                   uuids, left>>

\* A failed annotation patch: retried with the same copy for a Route's update,
\* if the Route can be read, and an Ingress's deletion, otherwise given up without
\* a trace.
PatchAnnotationFails(w) ==
    /\ DequeueStatus(w, "annotate", {"update", "delete"})
    /\ May("error")
    /\ LET again == \/ kind = "route" /\ ItemOf(w).op = "update"
                    \/ kind = "ingress" /\ ItemOf(w).op = "delete"
           retry == turn[w].retry + 1
       IN  \E read \in BOOLEAN :
           IF again /\ retry < 3 /\ (kind = "route" => read)
           THEN /\ Go(w, "annotate", turn[w].copy, retry)
                /\ Happens({"error"})
           ELSE /\ Done(w)
                /\ Happens({"error", "annLost"})
    /\ UNCHANGED <<kind, api, view, dirty, errs, usable, vs, dying, lock, role,
                   syncing, uuids>>

\* The start-up thread's deletions, and those of Services and of multi-cluster
\* Ingresses, clear the status whichever virtual service it is of.
Wipes(w, o) ==
    IF /\ w = Syncer \/ kind \in {"service", "mci"}
       /\ \E h \in Hosts : Serves(h, o)
    THEN {"outdated"} ELSE {}

\* A deletion reads the lister; when there is something to do for what it finds,
\* it patches the status unless that lacks the entry already.
ReadToDelete(w, relevant, to) ==
    /\ DequeueStatus(w, "read", {"delete"})
    /\ LET o   == ObjOf(w)
           it  == ItemOf(w)
           src == view[o]
       IN  /\ IF relevant THEN Go(w, to, src, turn[w].retry) ELSE Done(w)
           /\ Happens(StaleIf(w, src)
                      \cup (IF it.vsDel /\ it.hosts \cap dying # {} THEN {"early"} ELSE {})
                      \cup Wipes(w, o)
                      \cup (IF relevant /\ to = "patch" THEN {"unlocked"} ELSE {}))
    /\ UNCHANGED <<kind, api, dirty, errs, usable, vs, dying, lock, role,
                   syncing, uuids, left>>

\* "patch", or straight to the annotation.
StepFor(o, pruned) == IF view[o] # None /\ pruned = view[o].status THEN "annotate" ELSE "patch"

\* deleteObject: the Ingress in the lister is not copied, its status is edited
\* in place.
DeleteIngressStatus(w) ==
    /\ kind = "ingress" /\ queue[w] # <<>>
    /\ LET o == ObjOf(w)
           pruned == IF view[o] = None THEN {} ELSE PrunedIngress(view[o], ItemOf(w))
       IN  /\ ReadToDelete(w, view[o] # None, StepFor(o, pruned))
           /\ view' = IF view[o] = None THEN view ELSE [view EXCEPT ![o].status = pruned]

DeleteRouteStatus(w) ==
    /\ kind = "route" /\ queue[w] # <<>>
    /\ LET o == ObjOf(w)
           relevant == view[o] # None /\ routeStatusCheck(view[o], ItemOf(w))
           pruned == IF relevant THEN PrunedRoute(view[o], ItemOf(w)) ELSE {}
       IN  ReadToDelete(w, relevant, StepFor(o, pruned))
    /\ UNCHANGED view

DeleteL4LBStatus(w) ==
    /\ kind = "service" /\ queue[w] # <<>>
    /\ LET o == ObjOf(w)
       IN  ReadToDelete(w, view[o] # None /\ view[o].status # {}, "patch")
    /\ UNCHANGED view

DeleteMultiClusterIngressStatusAndAnnotation(w) ==
    /\ kind = "mci" /\ queue[w] # <<>>
    /\ ReadToDelete(w, view[ObjOf(w)] # None, "patch")
    /\ UNCHANGED view

PatchDelete(w) ==
    /\ DequeueStatus(w, "patch", {"delete"})
    /\ LET o == ObjOf(w)
       IN  IF api[o] = None
           THEN Done(w) /\ UNCHANGED <<api, dirty, happened>>
           ELSE /\ api' = [api EXCEPT ![o].status = Pruned(turn[w].copy, ItemOf(w))]
                /\ dirty' = dirty \cup {o}
                /\ Go(w, "annotate", [api'[o] EXCEPT !.hosts = turn[w].copy.hosts], 0)
                /\ Happens(Overlap(w, o) \cup Wipes(w, o))
    /\ UNCHANGED <<kind, view, errs, usable, vs, dying, lock, role, syncing,
                   uuids, left>>

\* The patch fails: the lister is read again (at most three times), where the
\* Ingress already lacks the entry; DeleteL4LBStatus gives up.
PatchDeleteFails(w) ==
    /\ DequeueStatus(w, "patch", {"delete"})
    /\ May("error")
    /\ LET retry == turn[w].retry + 1
       IN  IF kind = "service" \/ retry >= 3
           THEN Done(w)
           ELSE Go(w, IF kind = "mci" THEN "patch" ELSE "read", turn[w].copy, retry)
    /\ Happens({"error"} \cup IF kind \in {"service", "ingress"} THEN {"unretried"} ELSE {})
    /\ UNCHANGED <<kind, api, view, dirty, errs, usable, vs, dying, lock, role,
                   syncing, uuids>>

-----------------------------------------------------------------------------
(***************************************************************************)
(* The start-up thread.                                                    *)
(***************************************************************************)
\* ParseOptionsFromMetadata: one option per object and address.  Hosts met
\* later are added to the first host's option and so get its UUID; the cache
\* is a Go map, so which host comes first is anybody's guess.
FirstOf == {c \in [SUBSET Hosts \ {{}} -> Hosts] : \A S \in DOMAIN c : c[S] \in S}

HostsAt(o, vip) == {h \in Hosts : vs[h] # None /\ o \in vs[h].objs /\ vs[h].vip = vip}

ParseOptionsFromMetadata(first) ==
    LET keys == {k \in Objects \X Vips : HostsAt(k[1], k[2]) # {}}
        option(k) ==
            LET S == HostsAt(k[1], k[2])
            IN  [Item("update", k[1], S, k[2], vs[first[S]].uuid, FALSE)
                    EXCEPT !.copy = view[k[1]]]
        s == SetToSeq({k \in keys : view[k[1]] # None})
    IN  [i \in DOMAIN s |-> option(s[i])]

\* UpdateL4LBStatus and UpdateGatewayStatusAddress take the options as they are.
ServiceOptions ==
    LET keys == {k \in Hosts \X Objects : vs[k[1]] # None /\ k[2] \in vs[k[1]].objs /\ view[k[2]] # None}
        s == SetToSeq(keys)
    IN  [i \in DOMAIN s |->
            LET h == s[i][1]
                o == s[i][2]
            IN  [Item("update", o, {h}, vs[h].vip, vs[h].uuid, FALSE) EXCEPT !.copy = view[o]]]

\* checkIfVsPresentInCache: the UUID a Route's own entry records.
checkIfVsPresentInCache(obj) ==
    \E e \in obj.status : e.host \in obj.hosts /\ e.vip # Refused /\ Live(e.uuid)

\* Objects that the lister shows as AKO's and that no option names lose their
\* status.
BulkDeletes ==
    LET bulk == {o \in Objects : view[o] # None /\ view[o].adm \in {"ours", "duplicate"}}
        served == {o \in Objects : \E h \in Hosts : vs[h] # None /\ o \in vs[h].objs}
        gone == {o \in bulk \ served : ~(kind = "route" /\ checkIfVsPresentInCache(view[o]))}
        s == SetToSeq(gone)
    IN  [i \in DOMAIN s |-> Item("delete", s[i], view[s[i]].hosts, None, 0, TRUE)]

\* SyncObjectStatuses, once AKO is leader and its cache is filled.
\* MultiClusterIngresses are not part of it.
SyncObjectStatuses ==
    /\ syncing /\ role = "leader"
    /\ queue[Syncer] = <<>>
    /\ syncing' = FALSE
    /\ \E first \in FirstOf :
          queue' = [queue EXCEPT ![Syncer] =
              CASE kind = "mci" -> <<>>
                [] kind = "service" -> ServiceOptions \o BulkDeletes
                [] OTHER -> ParseOptionsFromMetadata(first) \o BulkDeletes]
    /\ Happens(IF /\ kind = "ingress"
                  /\ \E o \in Objects, vip \in Vips : Cardinality(HostsAt(o, vip)) > 1
               THEN {"merged"} ELSE {})
    /\ UNCHANGED <<kind, api, view, dirty, errs, usable, vs, dying, turn, lock, role,
                   uuids, left>>

\* A new process: its lister is filled from the API server, its cache from the
\* controller, and its queues are empty.
Restart ==
    /\ May("restart")
    /\ view' = api
    /\ dirty' = {}
    /\ errs' = {o \in Objects : api[o] # None /\ api[o].adm = "duplicate"}
    /\ vs' = [h \in Hosts |-> IF h \in dying THEN None ELSE vs[h]]
    /\ dying' = {}
    /\ queue' = [w \in Workers |-> <<>>]
    /\ turn' = [w \in Workers |-> Idle]
    /\ lock' = {}
    /\ syncing' = TRUE
    /\ Happens({"restart"})
    /\ UNCHANGED <<kind, api, usable, role, uuids>>

\* OnStartedLeadingAfterFailover: a follower has kept its cache up to date.
Lead ==
    /\ role = "follower"
    /\ role' = "leader"
    /\ syncing' = TRUE
    /\ Happens({"lead"})
    /\ UNCHANGED <<kind, api, view, dirty, errs, usable, vs, dying, queue, turn, lock,
                   uuids, left>>

-----------------------------------------------------------------------------
(***************************************************************************)
(* Kubernetes: users and the informer.                                     *)
(***************************************************************************)
Watch(o) ==
    /\ o \in dirty
    /\ view' = [view EXCEPT ![o] = api[o]]
    /\ dirty' = dirty \ {o}
    /\ errs' = IF api[o] # None /\ api[o].adm = "duplicate" THEN errs \cup {o} ELSE errs
    /\ UNCHANGED <<kind, api, usable, vs, dying, queue, turn, lock, role, syncing,
                   uuids, left, happened>>

\* UpdateRouteStatusWithErrMsg, called by the Route's event handler.  A Route that
\* cannot be read is passed over.
UpdateRouteStatusWithErrMsg(o) ==
    /\ o \in errs
    /\ errs' = errs \ {o}
    /\ \E read \in BOOLEAN :
        /\ LET new == {[host |-> h, vip |-> Refused, uuid |-> 0] : h \in api[o].hosts}
           IN  IF api[o] = None \/ ~read \/ api[o].status = new
               THEN UNCHANGED <<api, dirty>>
               ELSE /\ api' = [api EXCEPT ![o].status = new]
                    /\ dirty' = dirty \cup {o}
        /\ Happens(IF read THEN {} ELSE {"unread"})
    /\ UNCHANGED <<kind, view, usable, vs, dying, queue, turn, lock, role, syncing,
                   uuids, left>>

EditSpec(o) ==
    /\ api[o] # None
    /\ May("host")
    /\ \E S \in SpecsOf(kind) \ {api[o].hosts} : api' = [api EXCEPT ![o].hosts = S]
    /\ dirty' = dirty \cup {o}
    /\ Happens({"host"} \cup IF "host" \in happened THEN {"back"} ELSE {})
    /\ UNCHANGED <<kind, view, errs, usable, vs, dying, queue, turn, lock, role,
                   syncing, uuids>>

Admit(o) ==
    /\ api[o] # None
    /\ May("admit")
    /\ \E a \in Admissions \ {api[o].adm} : api' = [api EXCEPT ![o].adm = a]
    /\ dirty' = dirty \cup {o}
    /\ Happens({api'[o].adm} \cup IF Admissions \cap happened # {} THEN {"back"} ELSE {})
    /\ UNCHANGED <<kind, view, errs, usable, vs, dying, queue, turn, lock, role,
                   syncing, uuids>>

DeleteObject(o) ==
    /\ api[o] # None
    /\ May("delete")
    /\ api' = [api EXCEPT ![o] = None]
    /\ dirty' = dirty \cup {o}
    /\ Happens({"delete"})
    /\ UNCHANGED <<kind, view, errs, usable, vs, dying, queue, turn, lock, role,
                   syncing, uuids>>

\* A Secret or a Service that the host needs comes or goes.
Toggle(h) ==
    /\ May("usable")
    /\ usable' = (usable \ {h}) \cup ({h} \ usable)
    /\ Happens({"usable"})
    /\ UNCHANGED <<kind, api, view, dirty, errs, vs, dying, queue, turn, lock, role,
                   syncing, uuids>>

Init ==
    /\ kind \in Kinds
    /\ \E f \in Worlds : /\ \A o \in Objects : f[o] \in SpecsOf(kind)
                        /\ api = [o \in Objects |-> Fresh(f[o])]
    /\ view = api
    /\ dirty = {}
    /\ errs = {}
    /\ usable = Hosts
    /\ vs = [h \in Hosts |-> None]
    /\ dying = {}
    /\ queue = [w \in Workers |-> <<>>]
    /\ turn = [w \in Workers |-> Idle]
    /\ lock = {}
    /\ role \in {"leader"} \cup (Changes \cap {"follower"})
    /\ syncing = FALSE
    /\ uuids = 0
    /\ left = MaxChanges - IF role = "leader" THEN 0 ELSE 1
    /\ happened = {}

Work(w) ==
    \/ FollowerDequeueStatus(w)
    \/ UpdateIngressStatus(w)
    \/ UpdateRouteStatus(w)
    \/ ReadFails(w)
    \/ UpdateL4LBStatus(w)
    \/ UpdateMultiClusterIngressStatusAndAnnotation(w)
    \/ LockIngress(w)
    \/ LockIngressUnread(w)
    \/ PatchUpdate(w)
    \/ PatchUpdateFails(w)
    \/ DeleteIngressStatus(w)
    \/ DeleteRouteStatus(w)
    \/ DeleteL4LBStatus(w)
    \/ DeleteMultiClusterIngressStatusAndAnnotation(w)
    \/ PatchDelete(w)
    \/ PatchDeleteFails(w)
    \/ PatchAnnotation(w)
    \/ PatchAnnotationFails(w)

Next ==
    \/ \E w \in Workers : Work(w)
    \/ \E h \in Hosts : CreateVs(h) \/ ChangeVs(h) \/ DeleteVs(h) \/ ForgetVs(h) \/ Toggle(h)
    \/ \E o \in Objects : Watch(o) \/ EditSpec(o) \/ Admit(o) \/ DeleteObject(o)
                          \/ UpdateRouteStatusWithErrMsg(o)
    \/ SyncObjectStatuses
    \/ Restart
    \/ Lead

Spec == Init /\ [][Next]_vars

-----------------------------------------------------------------------------
(***************************************************************************)
(* Properties.                                                             *)
(***************************************************************************)
Entries == [host : Hosts, vip : Vips \cup {Refused}, uuid : 0 .. MaxUuid]
ObjectType == [hosts : SUBSET Hosts, adm : {"ours", "class", "namespace", "duplicate"},
               status : SUBSET Entries, ann : [Hosts -> 0 .. MaxUuid]]

\* Every object has its shape; only a worker that is about to patch an
\* Ingress holds its lock, and no two workers hold the same one.
TypeOK ==
    /\ kind \in Kinds
    /\ \A o \in Objects : /\ api[o] = None \/ api[o] \in ObjectType
                          /\ view[o] = None \/ view[o] \in ObjectType
    /\ dirty \subseteq Objects /\ errs \subseteq Objects /\ lock \subseteq Objects
    /\ usable \subseteq Hosts /\ dying \subseteq Hosts
    /\ \A o \in lock : Cardinality({w \in Workers : DequeueStatus(w, "patch", {"update"}) /\ ObjOf(w) = o}) = 1
    /\ role \in {"leader", "follower"}
    /\ uuids \in 0 .. MaxUuid
    /\ left \in 0 .. MaxChanges

NoneOf(tags) == tags \cap happened = {}

\* Nothing is under way: the virtual services are as the objects want them,
\* every item is carried out, every watch event is delivered.
AtRest ==
    /\ role = "leader" /\ ~syncing
    /\ dirty = {} /\ errs = {} /\ dying = {}
    /\ \A w \in Workers : queue[w] = <<>>
    /\ \A h \in Hosts : IF Wanted(h) = {} THEN vs[h] = None
                        ELSE vs[h] # None /\ vs[h].objs = Wanted(h)

\* Start-up and failover write the statuses of all kinds but this one.
\* Objects that AKO does not admit are not part of them either.
Synced(o) ==
    kind = "mci" \/ api[o].adm \notin {"ours", "duplicate"} => NoneOf({"restart", "lead"})

\* Whatever the order of the status workers, of retries after failed patches,
\* of watch events and of the start-up thread: once all is quiet, an object
\* shows exactly the addresses of the virtual services that serve it, and a
\* Route that AKO refuses shows the refusal.  Not so after the mishaps named
\* in the first line.
StatusShown ==
    AtRest /\ NoneOf({"stale", "overlap", "unread", "unretried", "early", "outdated", "back"}) =>
        \A o \in Objects : api[o] # None /\ Synced(o) => \A h \in Hosts :
            {e.vip : e \in {e \in api[o].status : e.host = h}} =
                IF Serves(h, o) THEN {vs[h].vip}
                ELSE IF api[o].adm = "duplicate" /\ h \in api[o].hosts THEN {Refused}
                ELSE {}

\* Likewise the annotation names the virtual service of each host.
AnnotationShown ==
    AtRest /\ NoneOf({"stale", "overlap", "unread", "unretried", "early", "outdated", "back",
                               "annOverlap", "annLost", "class", "duplicate", "merged"}) =>
        \A o \in Objects : api[o] # None /\ Synced(o) => \A h \in Hosts :
            api[o].ann[h] = IF Serves(h, o) THEN vs[h].uuid ELSE 0

\* Two workers that update one Ingress never overwrite each other's entries:
\* the lock and the second read inside it see to that.  Only a deletion, which
\* takes no lock, can be overwritten or overwrite, and an update whose second
\* read failed after the status had changed.
UpdatesNeverOverlap ==
    kind = "ingress" /\ "overlap" \in happened => ~NoneOf({"unlocked", "unchecked"})
=============================================================================
