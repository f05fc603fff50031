---------------------------- MODULE MCDeleteConfig ----------------------------
(***************************************************************************)
(* What is on the Avi controller, in three `parts', one in each behaviour: *)
(* "race" is DeleteConfig with two graph workers, a passthrough child,     *)
(* events and failing validations; "single" is DeleteConfig with one graph *)
(* worker and none of these; "avi" is RestObjects, the objects behind the  *)
(* virtual services.  The variables of the other module stay as they were. *)
(***************************************************************************)
EXTENDS DeleteConfig, TLC

CONSTANTS Parts, v1, v2, vrf, None, Mishaps, MaxMishaps

VARIABLES part, mode, ctl, objModel, c, phase, objTodo, queue, job, refused, left, happened

objVars == <<mode, ctl, objModel, c, phase, objTodo, queue, job, refused, left, happened>>

OneChild == {v1}
AllEvents == {v1}

\* One graph worker for every model, or one for each of v1 and v2.
OneWorker == [m \in Models |-> 0]
TwoWorkers == [m \in Models |-> IF m = v2 THEN 1 ELSE 0]

\* A shared virtual service with a child whose content changes, and one for a
\* Service, with every kind of object that hangs on them.
Obj(refs, ver) == [refs |-> refs, ver |-> ver]
ObjKind ==
    "p" :> "vs" @@ "c1" :> "vs" @@ "c2" :> "vs" @@ "v" :> "vs" @@
    "vip" :> "vsvip" @@ "vip2" :> "vsvip" @@ "s1" :> "ssl" @@ "ca" :> "ca" @@
    "k1" :> "pki" @@ "f1" :> "persistence" @@
    "o1" :> "pool" @@ "o2" :> "pool" @@ "o3" :> "pool" @@ "o4" :> "pool" @@
    "g1" :> "pg" @@ "g2" :> "pg" @@ "t1" :> "stringgroup" @@ "d1" :> "ds" @@
    "h1" :> "http" @@ "h2" :> "http" @@ "l1" :> "l4"
SniTop == "p" :> Obj({"vip", "d1"}, 1) @@ "vip" :> Obj({}, 1) @@ "d1" :> Obj({"g2"}, 1)
          @@ "g2" :> Obj({"o4"}, 1) @@ "o4" :> Obj({}, 1)
SniChild1 == "c1" :> Obj({"p", "s1", "h1"}, 1) @@ "s1" :> Obj({"ca"}, 1) @@ "ca" :> Obj({}, 1)
             @@ "h1" :> Obj({"g1", "t1"}, 1) @@ "t1" :> Obj({}, 1)
             @@ "g1" :> Obj({"o1", "o2"}, 1) @@ "o1" :> Obj({"k1"}, 1) @@ "o2" :> Obj({}, 1)
             @@ "k1" :> Obj({}, 1)
SniChild2 == "c1" :> Obj({"p", "s1", "h1"}, 2) @@ "s1" :> Obj({}, 2)
             @@ "h1" :> Obj({"g1"}, 2) @@ "g1" :> Obj({"o2"}, 2) @@ "o2" :> Obj({}, 2)
L4 == "v" :> Obj({"vip2", "l1"}, 1) @@ "vip2" :> Obj({}, 1) @@ "l1" :> Obj({"o3"}, 1)
      @@ "o3" :> Obj({}, 1)
EvhTop == "p" :> Obj({"vip", "s1"}, 1) @@ "vip" :> Obj({}, 1) @@ "s1" :> Obj({"ca"}, 1)
          @@ "ca" :> Obj({}, 1)
EvhChild1 == "c1" :> Obj({"p", "h1"}, 1) @@ "h1" :> Obj({"g1"}, 1)
             @@ "g1" :> Obj({"o1", "o2"}, 1) @@ "o1" :> Obj({"f1"}, 1) @@ "o2" :> Obj({"f1"}, 1)
             @@ "f1" :> Obj({}, 1)
EvhChild2 == "c1" :> Obj({"p", "h1"}, 2) @@ "h1" :> Obj({"g1"}, 2) @@ "g1" :> Obj({"o1"}, 2)
             @@ "o1" :> Obj({"f1"}, 1) @@ "f1" :> Obj({}, 1)
OldRelease == "c2" :> Obj({"p", "h2"}, 1) @@ "h2" :> Obj({"g2"}, 1) @@ "g2" :> Obj({"o4"}, 1)
              @@ "o4" :> Obj({}, 1)
ObjWorlds == [m \in {"sni", "evh"} |->
    IF m = "sni" THEN {<<>>, SniTop @@ SniChild1, SniTop @@ SniChild2 @@ L4}
    ELSE {EvhTop, EvhTop @@ EvhChild1, EvhTop @@ EvhChild2}]
ObjLegacy == [m \in {"sni", "evh"} |-> IF m = "sni" THEN {} ELSE {EvhTop @@ OldRelease}]

-----------------------------------------------------------------------------
Single == INSTANCE DeleteConfig WITH
    HasChild <- {}, Shard <- OneWorker, Events <- {}, CanBeInvalid <- FALSE

Avi == INSTANCE RestObjects WITH
    model <- objModel, todo <- objTodo,
    Kind <- ObjKind, Shared <- {"vip"}, Plain <- {"c2"}, Dummy <- "dummy",
    Worlds <- ObjWorlds, Legacy <- ObjLegacy

NoObj ==
    /\ mode = None /\ ctl = None /\ objModel = None /\ c = None /\ phase = None
    /\ objTodo = None /\ queue = None /\ job = None /\ refused = None
    /\ left = None /\ happened = None

\* One of the initial states of DeleteConfig.
Still == Init /\ k8s = {}

MCInit ==
    /\ part \in Parts
    /\ \/ part = "race" /\ Init /\ NoObj
       \/ part = "single" /\ Single!Init /\ NoObj
       \/ part = "avi" /\ Still /\ Avi!Init

RacePart == part = "race" /\ UNCHANGED <<part, objVars>>
SinglePart == part = "single" /\ UNCHANGED <<part, objVars>>
AviPart == part = "avi" /\ UNCHANGED <<part, vars>>

MCNext ==
    \/ RacePart /\ Next
    \/ SinglePart /\ Single!Next
    \/ AviPart /\ Avi!Next

MCSpec == MCInit /\ [][MCNext]_<<part, vars, objVars>>

\* Fairness of DeleteConfig, for the part whose liveness is checked.
MCFairSpec ==
    /\ MCSpec
    /\ WF_vars(SinglePart /\ ~panicked /\ Single!Handler)
    /\ WF_vars(SinglePart /\ ~panicked /\ Single!SyncStep)
    /\ WF_vars(SinglePart /\ ~panicked /\ \E r \in late : Single!LateStep(r))
    /\ \A m \in Models : /\ WF_vars(SinglePart /\ ~panicked /\ Single!Worker(m))
                          /\ WF_vars(SinglePart /\ ~panicked /\ Single!Retry(m))
                          /\ WF_vars(SinglePart /\ ~panicked /\ Single!IngestSave(m))

-----------------------------------------------------------------------------
(***************************************************************************)
(* The properties of DeleteConfig.  Those named Single hold with one graph *)
(* worker only: with two, the channel may be closed twice.                 *)
(***************************************************************************)
\* Clearing deleteConfig brings back all that Kubernetes calls for (Recreated of
\* DeleteConfig: QuickSync, FullSyncK8s, publishAllParentVSKeysToRestLayer).
BroughtBack == IF part = "single" THEN Single!Recreated ELSE Recreated

\* The channel is closed once and the quick sync request finds a thread to take it
\* (NoPanic: DeleteVSOper, NotifyDeleteConfig), and the annotation never says Done
\* while virtual services are left (DoneMeansDeleted: DeleteVSOper).
SingleSound == part = "single" => NoPanic /\ DoneMeansDeleted

\* Setting deleteConfig for good empties the controller in the end
\* (DeleteModels, DeleteVSOper, vrfCU and the retry queues).
SingleAllDeleted ==
    <>[](part = "single" /\ disableSync /\ accepted /\ events = <<>>) =>
        <>[](part = "single" => \A v \in ctrl : Unnoticed(v))

(***************************************************************************)
(* The properties of RestObjects.                                          *)
(***************************************************************************)
\* At rest the controller has every object that the models call for (Served of
\* RestObjects: RestOperation, ExecuteRestAndPopulateCache, the start-up caches) and
\* none besides (NothingElse: deleteVSOper, CleanupStaleVSes), and it never has a
\* reason to refuse a deletion (NothingRefused: the order of deleteSniVs); the caches
\* know no object that does not exist (TypeOK).
ObjHeld == part = "avi" => Avi!TypeOK /\ Avi!Served /\ Avi!NothingElse /\ Avi!NothingRefused

\* No step deletes a virtual service that the models call for (NeverTornDown of
\* RestObjects: AviObjVSCachePopulate, publishAllParentVSKeysToRestLayer).
ObjNeverTornDown ==
    [][part = "avi" =>
          \A v \in Avi!Of("vs", DOMAIN ctl \cap DOMAIN objModel) :
              v \notin DOMAIN ctl' /\ job.key \notin queue =>
                  ~Avi!NoneOf({"outOfBand", "early"})']_<<part, objVars>>
=============================================================================
