----------------------------- MODULE MCL4Services -----------------------------
(***************************************************************************)
(* The two ends of AKO, one of them (`part') in each behaviour: Services   *)
(* of type LoadBalancer and the models built for them (L4Services), and    *)
(* the statuses written back to Kubernetes once the models are on the Avi  *)
(* controller (StatusLayer).  The variables of the other part stay as they *)
(* were.                                                                   *)
(***************************************************************************)
EXTENDS L4Services, TLC

CONSTANTS Parts, s1, s2, k1, k2, p1, p2, n1, o1, o2, A, B,
          StatusKinds, StatusChanges, MaxStatusChanges

VARIABLES part,
          kind, api, view, dirty, errs, usable, vs, dying, statusQueue, turn, lock,
          role, syncing, uuids, statusLeft, statusHappened

statusVars == <<kind, api, view, dirty, errs, usable, vs, dying, statusQueue, turn, lock,
                role, syncing, uuids, statusLeft, statusHappened>>

-----------------------------------------------------------------------------
\* Services alone and with the keys of two shared virtual services, with and
\* without an address of their own, of AKO's class and of another.
ServiceSpec(lb, vip, ip, ours, local, config) ==
    [lb |-> lb, vip |-> vip, ip |-> ip, ours |-> ours, local |-> local, cfg |-> config]
MCSpecs ==
    {ServiceSpec(TRUE, None, 0, TRUE, FALSE, ""), ServiceSpec(FALSE, None, 0, TRUE, FALSE, ""),
     ServiceSpec(TRUE, k1, 0, TRUE, FALSE, ""), ServiceSpec(TRUE, k2, 1, TRUE, TRUE, "rule"),
     ServiceSpec(TRUE, k1, 1, TRUE, FALSE, ""), ServiceSpec(TRUE, None, 2, TRUE, TRUE, "infra"),
     ServiceSpec(TRUE, None, 0, FALSE, FALSE, ""), ServiceSpec(TRUE, k1, 0, FALSE, FALSE, "")}
MCServiceOf == p1 :> s1 @@ p2 :> s2
MCNodeOf == p1 :> n1 @@ p2 :> n1

\* Two objects with a host in common; the fourth virtual service gets the
\* address of the first again.
BucketOf == (A :> "b1") @@ (B :> "b2") @@ (o1 :> "b1") @@ (o2 :> "b2")
StatusWorlds == {(o1 :> {A, B}) @@ (o2 :> {A}), (o1 :> {A}) @@ (o2 :> {A})}
VipOf == <<"v1", "v1", "v2", "v1">>

-----------------------------------------------------------------------------
Status == INSTANCE StatusLayer WITH
    queue <- statusQueue, left <- statusLeft, happened <- statusHappened,
    Objects <- {o1, o2}, Hosts <- {A, B}, Kinds <- StatusKinds, Worlds <- StatusWorlds,
    Changes <- StatusChanges, MaxChanges <- MaxStatusChanges

NoStatus ==
    /\ kind = None /\ api = None /\ view = None /\ dirty = None /\ errs = None
    /\ usable = None /\ vs = None /\ dying = None /\ statusQueue = None /\ turn = None
    /\ lock = None /\ role = None /\ syncing = None /\ uuids = None
    /\ statusLeft = None /\ statusHappened = None

\* One of the initial states of L4Services.
Still == Init /\ mode = "clusterip" /\ ~migration

MCInit ==
    /\ part \in Parts
    /\ \/ part = "l4" /\ Init /\ (migration => mode = "clusterip") /\ NoStatus
       \/ part = "status" /\ Still /\ Status!Init

MCNext ==
    \/ part = "l4" /\ Next /\ UNCHANGED <<part, statusVars>>
    \/ part = "status" /\ Status!Next /\ UNCHANGED <<part, vars>>

MCSpec == MCInit /\ [][MCNext]_<<part, vars, statusVars>>

-----------------------------------------------------------------------------
(***************************************************************************)
(* The properties of StatusLayer, for the behaviours of its part.          *)
(***************************************************************************)
\* Every variable has its type, and the stores of Services agree with each other
\* (TypeOK of the two modules).
Types ==
    /\ TypeOK
    /\ part = "status" => Status!TypeOK

\* At rest every LoadBalancer has its pools and policies (LbServed), Services of one
\* key share one virtual service (VipServed), no virtual service or lister entry
\* is left of Services that are gone (NothingLeft), and an Ingress has the
\* backends its Service can have (IngressPools).
ServicesServed == LbServed /\ VipServed /\ NothingLeft /\ IngressPools

\* At rest every object shows the addresses of the virtual services that serve it
\* (StatusShown of StatusLayer: the updates and deletions of the status workers),
\* and its annotation names them (AnnotationShown).
StatusInForce == part = "status" => Status!StatusShown /\ Status!AnnotationShown

\* Two updates of one Ingress never overwrite each other's entries
\* (UpdatesNeverOverlap of StatusLayer: the lock of updateObject).
UpdatesNeverOverlap == part = "status" => Status!UpdatesNeverOverlap
=============================================================================
