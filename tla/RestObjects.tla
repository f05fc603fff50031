----------------------------- MODULE RestObjects -----------------------------
(***************************************************************************)
(* Every kind of object AKO keeps on the Avi controller, from the start-up *)
(* of a process on: the listings that fill the object caches, the marking  *)
(* and removal of objects no virtual service refers to, and the batches    *)
(* the REST layer sends to make the controller agree with the models, each *)
(* followed by the bookkeeping of the caches.                              *)
(*                                                                         *)
(* A world is a function from the objects that exist to records: what the  *)
(* object refers to and a version.  The record is also its checksum.  An   *)
(* object keeps its identity (uuid) as long as its name.  RestLayer has    *)
(* the retry queues, the timeouts and the workers; here the keys are       *)
(* worked on one after the other.                                          *)
(***************************************************************************)
EXTENDS Naturals, Sequences, FiniteSets, SequencesExt

CONSTANTS
    Kind,             \* kind of every object, a function
    Shared,           \* VsVips of shard virtual services
    Plain,            \* virtual services whose name is not encoded (old releases)
    Dummy,            \* the virtual service of the stale objects
    Worlds,           \* per mode, the worlds the models may call for
    Legacy,           \* per mode, worlds that an older release may have left
    None,
    Mishaps,          \* what may happen
    MaxMishaps        \* bound: how often

VARIABLES
    mode,      \* "sni" or "evh"
    ctl,       \* the controller's world
    model,     \* the world that the models in SharedAviGraphLister call for
    c,         \* the caches: obj, one entry per object; vs, VsCacheMeta
    phase,     \* "list", "vs", "clean", "run"
    todo,      \* kinds still to be listed
    queue,     \* keys of the graph queue and of the retry queues
    job,       \* the key being worked on
    refused,   \* history: kinds of the objects whose DELETE the controller refused
    left,      \* mishaps that may still happen
    happened   \* history: those that did

vars == <<mode, ctl, model, c, phase, todo, queue, job, refused, left, happened>>

Objects == DOMAIN Kind
Of(k, S) == {o \in S : Kind[o] = k}
Without(f, S) == [x \in DOMAIN f \ S |-> f[x]]
With(f, x, v) == [y \in DOMAIN f \cup {x} |-> IF y = x THEN v ELSE f[y]]
Each(S, F(_)) == LET s == SetToSeq(S) IN FlattenSeq([i \in DOMAIN s |-> F(s[i])])

ListedKinds == {"vsvip", "ssl", "pki", "persistence", "pool", "pg", "stringgroup",
                "ds", "http", "l4"}

\* The kinds a VS entry of the cache has a key collection for.
CollectedKinds == {"vsvip", "ssl", "ca", "pool", "pg", "stringgroup", "ds", "http", "l4"}

Parent(w, v) == IF Of("vs", w[v].refs) = {} THEN None
                ELSE CHOOSE p \in Of("vs", w[v].refs) : TRUE
Children(w, p) == {v \in Of("vs", DOMAIN w) : Parent(w, v) = p}
Parents(w) == Children(w, None)

\* What a virtual service is built from in a world.
Below(w, S) == S \cup {r \in UNION {w[o].refs : o \in S \cap DOMAIN w} : Kind[r] # "vs"}
Own(w, v) == Below(w, Below(w, Below(w, Below(w, {v})))) \ {v}

NewVs == [coll |-> {}, ck |-> None, parent |-> None, kids |-> {}]
EmptyCache == [obj |-> <<>>, vs |-> <<>>]
Coll(k, v) == IF v \in DOMAIN k.vs THEN k.vs[v].coll ELSE {}

Idle == [key |-> None, want |-> <<>>, have |-> FALSE, old |-> {}, nodes |-> {},
         drop |-> {}, stage |-> "idle"]

NoneOf(S) == happened \cap S = {}
May(m) == left > 0 /\ m \in Mishaps
Happens(m) == left' = left - 1 /\ happened' = happened \cup {m}

Init ==
    /\ mode \in DOMAIN Worlds
    /\ ctl \in Worlds[mode] \cup Legacy[mode] /\ model \in Worlds[mode]
    /\ c = EmptyCache /\ phase = "list" /\ todo = ListedKinds
    /\ queue = {} /\ job = Idle /\ refused = {}
    /\ left = MaxMishaps /\ happened = {}

-----------------------------------------------------------------------------
(* Listing.  A reference is kept if the object is in its cache already.    *)

Resolve(k, w, o, kinds) == {r \in w[o].refs : Kind[r] \in kinds /\ r \in DOMAIN k.obj}

\* Kinds with the checksum stored on the controller.
Entry(k, w, o, kinds) == [refs |-> Resolve(k, w, o, kinds), ck |-> w[o]]

\* Kinds with a checksum computed from what the listing could resolve.
Computed(k, w, o, kinds) ==
    [refs |-> Resolve(k, w, o, kinds), ck |-> [w[o] EXCEPT !.refs = Resolve(k, w, o, kinds)]]

\* One entry read back from the controller: the AviPopulateOne functions.
Learn(k, o, entry) == IF o \in DOMAIN ctl THEN [k EXCEPT !.obj = With(@, o, entry)] ELSE k

AviPopulateOnePKICache(k, o) == Learn(k, o, Entry(k, ctl, o, {}))
AviPopulateOnePersistenceProfileCache(k, o) == Learn(k, o, Entry(k, ctl, o, {}))
AviPopulateOneSSLCache(k, o) == Learn(k, o, Computed(k, ctl, o, {"ca"}))
AviPopulateOneVsVipCache(k, o) == Learn(k, o, Entry(k, ctl, o, {}))
AviPopulateOnePoolCache(k, o) == Learn(k, o, Entry(k, ctl, o, {"pki", "persistence"}))
AviPopulateOnePGCache(k, o) == Learn(k, o, Entry(k, ctl, o, {"pool"}))
AviPopulateOneVsDSCache(k, o) == Learn(k, o, Computed(k, ctl, o, {"pg"}))
AviPopulateOneVsHttpPolCache(k, o) == Learn(k, o, Entry(k, ctl, o, {"pg", "stringgroup", "pool"}))
AviPopulateOneVsL4PolCache(k, o) == Learn(k, o, Computed(k, ctl, o, {"pool"}))

\* The checksum read back leaves the content out, so that it never agrees.
AviPopulateOneStringGroupCache(k, o) == Learn(k, o, [refs |-> {}, ck |-> None])

\* A listing runs at start-up, into empty caches.  Of the kinds whose cache is
\* replaced whatever the outcome, any part may have been read when a page fails;
\* the others are left empty then.
Listing(kinds, needs, whole, One(_, _)) ==
    LET all == {o \in DOMAIN ctl : Kind[o] \in kinds} IN
    /\ phase = "list" /\ kinds \cap todo # {} /\ needs \cap todo = {}
    /\ todo' = todo \ kinds
    /\ \E got \in IF whole THEN {all, {}} ELSE SUBSET all :
          /\ IF got = all THEN UNCHANGED <<left, happened>>
             ELSE May("listing") /\ Happens("listing")
          /\ c' = FoldLeft(One, c, SetToSeq(got))
    /\ UNCHANGED <<mode, ctl, model, phase, queue, job, refused>>

\* The entries a listing makes.
AviPopulateAllPkiProfiles(k, o) == Learn(k, o, Entry(k, ctl, o, {}))
AviPopulateAllAppPersistenceProfiles(k, o) == Learn(k, o, Entry(k, ctl, o, {}))
AviPopulateAllPools(k, o) == Learn(k, o, Entry(k, ctl, o, {"pki", "persistence"}))
AviPopulateAllPGs(k, o) == Learn(k, o, Entry(k, ctl, o, {"pool"}))
AviPopulateAllStringGroups(k, o) == Learn(k, o, [refs |-> {}, ck |-> None])
AviPopulateAllDSs(k, o) == Learn(k, o, Computed(k, ctl, o, {"pg"}))
AviPopulateAllHttpPolicySets(k, o) == Learn(k, o, Entry(k, ctl, o, {"pg", "stringgroup", "pool"}))
AviPopulateAllL4PolicySets(k, o) == Learn(k, o, Computed(k, ctl, o, {"pool"}))
AviPopulateAllVSVips(k, o) == Learn(k, o, Entry(k, ctl, o, {}))

\* The CA certificate is looked up in the cache that this listing fills, so that
\* the checksum never has it.
AviPopulateAllSSLKeys(k, o) ==
    Learn(k, o, [refs |-> ctl[o].refs, ck |-> [ctl[o] EXCEPT !.refs = {}]])

PopulatePkiProfilesToCache == Listing({"pki"}, {}, FALSE, AviPopulateAllPkiProfiles)
PopulateAppPersistenceProfileToCache ==
    Listing({"persistence"}, {"pki"}, FALSE, AviPopulateAllAppPersistenceProfiles)
PopulatePoolsToCache == Listing({"pool"}, {"pki", "persistence"}, FALSE, AviPopulateAllPools)
PopulatePgDataToCache == Listing({"pg"}, {"pool"}, FALSE, AviPopulateAllPGs)
PopulateStringGroupDataToCache ==
    Listing({"stringgroup"}, {"pg"}, FALSE, AviPopulateAllStringGroups)
PopulateDSDataToCache == Listing({"ds"}, {"stringgroup"}, FALSE, AviPopulateAllDSs)
PopulateHttpPolicySetToCache ==
    Listing({"http"}, {"stringgroup"}, TRUE, AviPopulateAllHttpPolicySets)
PopulateL4PolicySetToCache == Listing({"l4"}, {"stringgroup"}, TRUE, AviPopulateAllL4PolicySets)
PopulateSSLKeyToCache == Listing({"ssl", "ca"}, {}, FALSE, AviPopulateAllSSLKeys)
PopulateVsVipDataToCache == Listing({"vsvip"}, {}, FALSE, AviPopulateAllVSVips)

AviRefreshObjectCache ==
    \/ PopulatePkiProfilesToCache \/ PopulateAppPersistenceProfileToCache
    \/ PopulatePoolsToCache \/ PopulatePgDataToCache \/ PopulateStringGroupDataToCache
    \/ PopulateDSDataToCache \/ PopulateHttpPolicySetToCache
    \/ PopulateL4PolicySetToCache \/ PopulateSSLKeyToCache \/ PopulateVsVipDataToCache

\* The objects a VS refers to on the controller that the caches know, and what
\* their entries refer to; a pool group that is not cached is read back.
AviPGPoolCachePopulate(k, g) ==
    IF g \in DOMAIN k.obj THEN k.obj[g].refs ELSE Resolve(k, ctl, g, {"pool"})

Found(k, v, kinds) ==
    LET direct == {o \in ctl[v].refs : Kind[o] \in kinds /\ o \in DOMAIN k.obj}
        second == UNION {k.obj[o].refs : o \in {d \in direct : Kind[d] \in {"ssl", "ds", "http", "l4"}}}
        groups == Of("pg", direct \cup second)
    IN direct \cup (second \cap DOMAIN k.obj) \cup UNION {AviPGPoolCachePopulate(k, g) : g \in groups}

\* Mutant: the parent of a child is not looked up.
PopulateWithoutParents(got, early) ==
    [v \in got |-> [coll |-> Found(c, v, CollectedKinds), ck |-> ctl[v], parent |-> None, kids |-> {}]]

\* AviObjVSCachePopulate.  "early" are the children that
\* the controller lists before their parent: the parent is not found then.
AviObjVSCachePopulate(got, early) ==
    [v \in got |->
        [coll |-> Found(c, v, CollectedKinds),
         ck |-> ctl[v],
         parent |-> IF v \in early \/ Parent(ctl, v) \notin got THEN None ELSE Parent(ctl, v),
         kids |-> {}]]

\* Children that an older release named in another way are removed.
listEVHChildrenToDelete(metas) ==
    IF mode = "evh" THEN {v \in DOMAIN metas : metas[v].parent # None /\ v \in Plain} ELSE {}

MarkReference(metas) ==
    UNION {{o \in metas[v].coll : Kind[o] # "stringgroup"} :
              v \in DOMAIN metas \ listEVHChildrenToDelete(metas)}

DeleteUnmarked(metas) ==
    [NewVs EXCEPT
       !.coll = {o \in DOMAIN c.obj :
                    /\ Kind[o] \in CollectedKinds /\ o \notin Shared
                    /\ o \notin MarkReference(metas)},
       !.kids = listEVHChildrenToDelete(metas)]

PopulateVsMetaCache(metas) ==
    LET kids(p) == {v \in DOMAIN metas : metas[v].parent = p} \ listEVHChildrenToDelete(metas)
    IN With([v \in DOMAIN metas |-> [metas[v] EXCEPT !.kids = IF metas[v].parent = None THEN kids(v) ELSE {}]],
            Dummy, DeleteUnmarked(metas))

AviObjCachePopulate ==
    LET all == Of("vs", DOMAIN ctl) IN
    /\ phase = "list" /\ todo = {}
    /\ \E got \in SUBSET all, early \in SUBSET {v \in all : Parent(ctl, v) # None} :
          /\ CASE got = all /\ early = {} -> UNCHANGED <<left, happened>>
               [] got = all /\ early # {} -> May("early") /\ Happens("early")
               [] got # all /\ early = {} -> May("listing") /\ Happens("early")
               [] OTHER -> FALSE
          /\ c' = [c EXCEPT !.vs = PopulateVsMetaCache(AviObjVSCachePopulate(got, early))]
    /\ phase' = "clean"
    /\ UNCHANGED <<mode, ctl, model, todo, queue, job, refused>>

-----------------------------------------------------------------------------
(* Requests.                                                               *)

Op(o, method, body) == [obj |-> o, method |-> method, body |-> body, err |-> "ok"]

\* The references of some kinds that a request carries, by name.
Body(w, o, kinds) == [w[o] EXCEPT !.refs = {r \in @ : Kind[r] \in kinds}]

\* PUT if the cache has the object, POST otherwise.
Save(k, o, body) == <<Op(o, IF o \in DOMAIN k.obj THEN "PUT" ELSE "POST", body)>>

AviVsVipBuild(k, w, o) == Save(k, o, Body(w, o, {}))
AviSSLBuild(k, w, o) == Save(k, o, Body(w, o, {"ca"}))
AviPkiProfileBuild(k, w, o) == Save(k, o, Body(w, o, {}))
AviPersistenceProfileBuild(k, w, o) == Save(k, o, Body(w, o, {}))
AviPoolBuild(k, w, o) == Save(k, o, Body(w, o, {"pki", "persistence"}))
AviPoolGroupBuild(k, w, o) == Save(k, o, Body(w, o, {"pool"}))
AviStringGroupBuild(k, w, o) == Save(k, o, Body(w, o, {}))
AviHttpPSBuild(k, w, o) == Save(k, o, Body(w, o, {"pg", "pool", "stringgroup"}))
AviDSBuild(k, w, o) == Save(k, o, Body(w, o, {"pg"}))
AviL4PSBuild(k, w, o) == Save(k, o, Body(w, o, {"pool"}))

VsSave(k, v, body) ==
    <<Op(v, IF v \in DOMAIN k.vs /\ k.vs[v].ck # None THEN "PUT" ELSE "POST", body)>>

\* A shard VS of SNI has no certificates of its own, its children have no VsVip.
AviVsBuild(k, w, v) == VsSave(k, v, Body(w, v, {"vsvip", "pool", "pg", "ds", "http", "l4"}))
AviVsSniBuild(k, w, v) == VsSave(k, v, Body(w, v, {"vs", "ssl", "pool", "pg", "http", "ds"}))
AviVsBuildForEvh(k, w, v) == VsSave(k, v, Body(w, v, {"vsvip", "ssl", "http"}))
AviVsChildEvhBuild(k, w, v) == VsSave(k, v, Body(w, v, {"vs", "pool", "pg", "http", "ds"}))

BuildVs(k, w, v) ==
    CASE mode = "sni" /\ Parent(w, v) = None -> AviVsBuild(k, w, v)
      [] mode = "sni" /\ Parent(w, v) # None -> AviVsSniBuild(k, w, v)
      [] mode = "evh" /\ Parent(w, v) = None -> AviVsBuildForEvh(k, w, v)
      [] mode = "evh" /\ Parent(w, v) # None -> AviVsChildEvhBuild(k, w, v)

\* The objects of a kind that are new to the VS or whose checksum differs.  One that
\* the VS had and that the cache lost is left alone.
Changed(k, w, o) == o \in DOMAIN k.obj /\ k.obj[o].ck # w[o]

\* Mutant: an object that the VS has is not compared.
DueIfNew(k, w, v, kind, coll) == Of(kind, Own(w, v)) \ coll

Due(k, w, v, kind, coll) == {o \in Of(kind, Own(w, v)) : o \notin coll \/ Changed(k, w, o)}

VSVipCU(k, w, v, coll) == Each(Due(k, w, v, "vsvip", coll), LAMBDA o : AviVsVipBuild(k, w, o))
CACertCU(k, w, v, coll) == Each(Due(k, w, v, "ca", coll), LAMBDA o : AviSSLBuild(k, w, o))
SSLKeyCertCU(k, w, v, coll) == Each(Due(k, w, v, "ssl", coll), LAMBDA o : AviSSLBuild(k, w, o))
PoolGroupCU(k, w, v, coll) == Each(Due(k, w, v, "pg", coll), LAMBDA o : AviPoolGroupBuild(k, w, o))
StringGroupVsCU(k, w, v, coll) ==
    Each(Due(k, w, v, "stringgroup", coll), LAMBDA o : AviStringGroupBuild(k, w, o))
HTTPPolicyCU(k, w, v, coll) == Each(Due(k, w, v, "http", coll), LAMBDA o : AviHttpPSBuild(k, w, o))
L4PolicyCU(k, w, v, coll) == Each(Due(k, w, v, "l4", coll), LAMBDA o : AviL4PSBuild(k, w, o))

\* One data script that is new makes it send all of them.
DatascriptCU(k, w, v, coll) ==
    LET all == Of("ds", Own(w, v)) IN
    Each(IF all \subseteq coll THEN {o \in all : o \notin DOMAIN k.obj \/ Changed(k, w, o)} ELSE all,
         LAMBDA o : AviDSBuild(k, w, o))

ApplicationPersistenceProfileCU(k, w, o) ==
    IF o \in DOMAIN k.obj /\ k.obj[o].ck = w[o] THEN <<>> ELSE AviPersistenceProfileBuild(k, w, o)

Delete(k, S) == Each(S \cap DOMAIN k.obj, LAMBDA o : <<Op(o, "DELETE", None)>>)

PkiProfileDelete(k, S) == Delete(k, Of("pki", S))
ApplicationPersistenceProfileDelete(k, S) == Delete(k, Of("persistence", S))

PkiProfileCU(k, w, o, entry) ==
    Each({r \in Of("pki", w[o].refs) : r \notin entry \/ Changed(k, w, r)},
         LAMBDA r : AviPkiProfileBuild(k, w, r))

\* Profiles of the pools the VS had that no pool of the model uses.
GetPersistenceProfilesToDelete(k, w, v, coll) ==
    Of("persistence", UNION {k.obj[o].refs : o \in Of("pool", coll) \cap DOMAIN k.obj}) \ Own(w, v)

PoolCU(k, w, v, coll) ==
    LET one(o) ==
          IF o \in coll /\ o \in DOMAIN k.obj
          THEN PkiProfileCU(k, w, o, k.obj[o].refs)
               \o (IF Changed(k, w, o) THEN AviPoolBuild(k, w, o) ELSE <<>>)
               \o PkiProfileDelete(k, k.obj[o].refs \ w[o].refs)
          ELSE IF o \in coll THEN <<>>
          ELSE PkiProfileCU(k, w, o, {}) \o AviPoolBuild(k, w, o)
    IN Each(Of("persistence", Own(w, v)), LAMBDA o : ApplicationPersistenceProfileCU(k, w, o))
       \o Each(Of("pool", Own(w, v)), one)
       \o ApplicationPersistenceProfileDelete(k, GetPersistenceProfilesToDelete(k, w, v, coll))

\* A profile is kept while another pool of a VS has it: of the key's VS, also when
\* the pools are those of a child (not so for the children of EVH that change).
isPersistenceProfileInUse(k, user, f, S) ==
    \E o \in (Of("pool", Coll(k, user)) \ S) \cap DOMAIN k.obj : f \in k.obj[o].refs

PoolDelete(k, user, S) ==
    LET pools == Of("pool", S) \cap DOMAIN k.obj
        profiles == Of("persistence", UNION {k.obj[o].refs : o \in pools})
    IN Each(pools, LAMBDA o : Delete(k, {o}) \o PkiProfileDelete(k, k.obj[o].refs))
       \o ApplicationPersistenceProfileDelete(k,
             {f \in profiles : ~isPersistenceProfileInUse(k, user, f, S)})

\* The VsVip of a shard VS stays, without its host names.
VSVipDelete(k, S) ==
    Each(Of("vsvip", S) \cap DOMAIN k.obj,
         LAMBDA o : IF o \notin Shared THEN Delete(k, {o})
                    ELSE IF o \in DOMAIN ctl THEN <<Op(o, "PUT", ctl[o])>> ELSE <<>>)

SSLKeyCertDelete(k, S) == Delete(k, Of("ssl", S)) \o Delete(k, Of("ca", S))
HTTPPolicyDelete(k, S) == Delete(k, Of("http", S))
StringGroupDelete(k, S) == Delete(k, Of("stringgroup", S))
L4PolicyDelete(k, S) == Delete(k, Of("l4", S))
DSDelete(k, S) == Delete(k, Of("ds", S))
PoolGroupDelete(k, S) == Delete(k, Of("pg", S))
AviVSDel(k, v) == IF k.vs[v].ck = None THEN <<>> ELSE <<Op(v, "DELETE", None)>>

-----------------------------------------------------------------------------
(* The controller.                                                         *)

Verdict(w, op) ==
    CASE op.method = "POST" /\ op.obj \in DOMAIN w -> "409"
      [] op.method # "POST" /\ op.obj \notin DOMAIN w -> "404"
      [] op.method # "DELETE" /\ ~(op.body.refs \subseteq DOMAIN w) -> "404"
      [] op.method = "DELETE" /\ \E o \in DOMAIN w : op.obj \in w[o].refs -> "refused"
      [] OTHER -> "ok"

Applied(w, op) == IF op.method = "DELETE" THEN Without(w, {op.obj}) ELSE With(w, op.obj, op.body)

GoesOn(op, err) == err = "ok" \/ (op.method = "DELETE" /\ err \in {"404", "refused"})

\* A batch, with request number n failing as the fault says ("lost": the request
\* was carried out, the answer did not arrive).  "last" is the outcome of the batch.
AviRestOperate(ops, n, fault) ==
    FoldLeft(LAMBDA acc, op :
        LET here == Len(acc.done) + 1 = n
            err == IF here THEN fault ELSE Verdict(acc.w, op)
        IN IF acc.last # "ok" THEN acc
           ELSE [w |-> IF Verdict(acc.w, op) = "ok" /\ (~here \/ fault # "5xx")
                       THEN Applied(acc.w, op) ELSE acc.w,
                 done |-> Append(acc.done, [op EXCEPT !.err = err]),
                 last |-> IF GoesOn(op, err) THEN "ok" ELSE err],
        [w |-> ctl, done |-> <<>>, last |-> "ok"], ops)

-----------------------------------------------------------------------------
(* The caches after a batch; v is the VS that the batch is for.            *)

AddObj(k, o, entry) == [k EXCEPT !.obj = With(@, o, entry)]
DelObj(k, o) == [k EXCEPT !.obj = Without(@, {o})]
AddToCollection(k, v, o) ==
    [k EXCEPT !.vs = With(@, v, [(IF v \in DOMAIN @ THEN @[v] ELSE NewVs) EXCEPT !.coll = @ \cup {o}])]
RemoveFromCollection(k, v, o) ==
    IF v \in DOMAIN k.vs THEN [k EXCEPT !.vs[v].coll = @ \ {o}] ELSE k

\* The answer refers to other objects by uuid, which the caches must know.
Answer(k, op, kinds) ==
    [refs |-> {r \in op.body.refs : Kind[r] \in kinds /\ r \in DOMAIN k.obj}, ck |-> op.body]

AviVsVipCacheAdd(k, v, op) == AddToCollection(AddObj(k, op.obj, Answer(k, op, {})), v, op.obj)
AviSSLKeyCertAdd(k, v, op) == AddToCollection(AddObj(k, op.obj, Answer(k, op, {"ca"})), v, op.obj)
AviPkiProfileAdd(k, v, op) == AddObj(k, op.obj, Answer(k, op, {}))
AviPersistenceProfileCacheAdd(k, v, op) == AddObj(k, op.obj, Answer(k, op, {}))
AviPoolCacheAdd(k, v, op) ==
    AddToCollection(AddObj(k, op.obj, Answer(k, op, {"pki", "persistence"})), v, op.obj)
AviPGCacheAdd(k, v, op) == AddToCollection(AddObj(k, op.obj, Answer(k, op, {"pool"})), v, op.obj)
AviStringGroupCacheAdd(k, v, op) == AddToCollection(AddObj(k, op.obj, Answer(k, op, {})), v, op.obj)
AviHTTPPolicyCacheAdd(k, v, op) ==
    AddToCollection(AddObj(k, op.obj, Answer(k, op, {"pg", "pool", "stringgroup"})), v, op.obj)
AviDSCacheAdd(k, v, op) == AddToCollection(AddObj(k, op.obj, Answer(k, op, {"pg"})), v, op.obj)
AviL4PolicyCacheAdd(k, v, op) == AddToCollection(AddObj(k, op.obj, Answer(k, op, {"pool"})), v, op.obj)

AviVsCacheAdd(k, v, op) ==
    LET old == IF op.obj \in DOMAIN k.vs THEN k.vs[op.obj] ELSE NewVs
        p == IF Of("vs", op.body.refs) = {} THEN None ELSE CHOOSE q \in Of("vs", op.body.refs) : TRUE
        known == p \in DOMAIN k.vs /\ k.vs[p].ck # None
        vs == With(k.vs, op.obj, [old EXCEPT !.ck = op.body, !.parent = IF known THEN p ELSE @])
    IN [k EXCEPT !.vs =
           IF p = None THEN vs
           ELSE With(vs, p, [(IF p \in DOMAIN vs THEN vs[p] ELSE NewVs) EXCEPT !.kids = @ \cup {op.obj}])]

AviVsVipCacheDel(k, v, o) == RemoveFromCollection(DelObj(k, o), v, o)
AviSSLCacheDel(k, v, o) == RemoveFromCollection(DelObj(k, o), v, o)
AviPkiProfileCacheDel(k, v, o) == DelObj(k, o)
AviPersistenceProfileCacheDel(k, v, o) == DelObj(k, o)
AviPoolCacheDel(k, v, o) == RemoveFromCollection(DelObj(k, o), v, o)
AviPGCacheDel(k, v, o) == RemoveFromCollection(DelObj(k, o), v, o)
AviStringGroupCacheDel(k, v, o) == RemoveFromCollection(DelObj(k, o), v, o)
AviHTTPPolicyCacheDel(k, v, o) == RemoveFromCollection(DelObj(k, o), v, o)
AviDSCacheDel(k, v, o) == RemoveFromCollection(DelObj(k, o), v, o)
AviL4PolicyCacheDel(k, v, o) == RemoveFromCollection(DelObj(k, o), v, o)

findSNIRefAndRemove(vs, v) ==
    LET p == vs[v].parent IN IF p \in DOMAIN vs THEN [vs EXCEPT ![p].kids = @ \ {v}] ELSE vs

\* The entry goes with its collections, the VsVip's entry with it.
AviVsCacheDel(k, v) ==
    IF v \notin DOMAIN k.vs THEN k
    ELSE [obj |-> Without(k.obj, Of("vsvip", k.vs[v].coll)),
          vs |-> Without(findSNIRefAndRemove(k.vs, v), {v})]

CacheAdd(k, v, op) ==
    CASE Kind[op.obj] = "vs" -> AviVsCacheAdd(k, v, op)
      [] Kind[op.obj] = "vsvip" -> AviVsVipCacheAdd(k, v, op)
      [] Kind[op.obj] \in {"ssl", "ca"} -> AviSSLKeyCertAdd(k, v, op)
      [] Kind[op.obj] = "pki" -> AviPkiProfileAdd(k, v, op)
      [] Kind[op.obj] = "persistence" -> AviPersistenceProfileCacheAdd(k, v, op)
      [] Kind[op.obj] = "pool" -> AviPoolCacheAdd(k, v, op)
      [] Kind[op.obj] = "pg" -> AviPGCacheAdd(k, v, op)
      [] Kind[op.obj] = "stringgroup" -> AviStringGroupCacheAdd(k, v, op)
      [] Kind[op.obj] = "http" -> AviHTTPPolicyCacheAdd(k, v, op)
      [] Kind[op.obj] = "ds" -> AviDSCacheAdd(k, v, op)
      [] Kind[op.obj] = "l4" -> AviL4PolicyCacheAdd(k, v, op)

CacheDel(k, v, o) ==
    CASE Kind[o] = "vs" -> AviVsCacheDel(k, v)
      [] Kind[o] = "vsvip" -> AviVsVipCacheDel(k, v, o)
      [] Kind[o] \in {"ssl", "ca"} -> AviSSLCacheDel(k, v, o)
      [] Kind[o] = "pki" -> AviPkiProfileCacheDel(k, v, o)
      [] Kind[o] = "persistence" -> AviPersistenceProfileCacheDel(k, v, o)
      [] Kind[o] = "pool" -> AviPoolCacheDel(k, v, o)
      [] Kind[o] = "pg" -> AviPGCacheDel(k, v, o)
      [] Kind[o] = "stringgroup" -> AviStringGroupCacheDel(k, v, o)
      [] Kind[o] = "http" -> AviHTTPPolicyCacheDel(k, v, o)
      [] Kind[o] = "ds" -> AviDSCacheDel(k, v, o)
      [] Kind[o] = "l4" -> AviL4PolicyCacheDel(k, v, o)

PopulateOneCache(k, v, op) ==
    IF op.method # "DELETE" THEN (IF op.err = "ok" THEN CacheAdd(k, v, op) ELSE k)
    ELSE IF op.err \in {"ok", "404"} THEN CacheDel(k, v, op.obj) ELSE k

\* One VS read back; unlike the listing it does not look at a default pool.
AviObjOneVSCachePopulate(k, v) ==
    IF v \notin DOMAIN ctl THEN [k EXCEPT !.vs = Without(@, {v})]
    ELSE LET p == Parent(ctl, v)
             known == p \in DOMAIN k.vs /\ k.vs[p].ck # None
             vs == With(k.vs, v, [coll |-> Found(k, v, CollectedKinds \ {"pool"}), ck |-> ctl[v],
                                  parent |-> IF known THEN p ELSE None, kids |-> Children(ctl, v)])
         IN [k EXCEPT !.vs = IF known THEN [vs EXCEPT ![p].kids = @ \cup {v}] ELSE vs]

\* A pool group was refused for a pool that is gone.
PoolNotFound(k, v, op) ==
    LET k2 == AviPopulateOnePGCache(k, op.obj)
        lost == IF op.obj \in DOMAIN k2.obj THEN op.body.refs \ k2.obj[op.obj].refs ELSE {}
    IN IF lost = {} THEN AviPGCacheDel(k2, v, op.obj)
       ELSE FoldLeft(LAMBDA acc, o : AviPoolCacheDel(acc, v, o), k2, SetToSeq(lost))

RefreshMissing(k, v, op) ==
    IF Kind[op.obj] = "pg" /\ ~(op.body.refs \subseteq DOMAIN ctl) THEN PoolNotFound(k, v, op)
    ELSE CacheDel(k, v, op.obj)

RefreshExisting(k, v, op) ==
    CASE Kind[op.obj] = "vs" -> AviObjOneVSCachePopulate(k, v)
      [] Kind[op.obj] = "vsvip" -> AviPopulateOneVsVipCache(k, op.obj)
      [] Kind[op.obj] \in {"ssl", "ca"} -> AviPopulateOneSSLCache(k, op.obj)
      [] Kind[op.obj] = "pki" -> AviPopulateOnePKICache(k, op.obj)
      [] Kind[op.obj] = "persistence" -> AviPopulateOnePersistenceProfileCache(k, op.obj)
      [] Kind[op.obj] = "pool" -> AviPopulateOnePoolCache(k, op.obj)
      [] Kind[op.obj] = "pg" -> AviPopulateOnePGCache(k, op.obj)
      [] Kind[op.obj] = "stringgroup" -> AviPopulateOneStringGroupCache(k, op.obj)
      [] Kind[op.obj] = "http" -> AviPopulateOneVsHttpPolCache(k, op.obj)
      [] Kind[op.obj] = "ds" -> AviPopulateOneVsDSCache(k, op.obj)
      [] Kind[op.obj] = "l4" -> AviPopulateOneVsL4PolCache(k, op.obj)

RefreshCacheForRetryLayer(k, v, op) ==
    CASE op.err = "404" -> RefreshMissing(k, v, op)
      [] op.err = "409" -> RefreshExisting(k, v, op)
      [] OTHER -> k

\* From the last request that was sent back to the first.
RefreshCacheForPartialOperation(k, v, done) ==
    FoldLeft(LAMBDA acc, op : IF op.err = "ok" \/ op.method = "DELETE"
                              THEN PopulateOneCache(acc, v, op)
                              ELSE RefreshCacheForRetryLayer(acc, v, op),
             k, Reverse(done))

\* Nothing is learnt from a batch that lost its connection, nor from a deletion that
\* broke off.
CachesAfter(k, v, r) ==
    IF r.last = "ok" THEN FoldLeft(LAMBDA acc, op : PopulateOneCache(acc, v, op), k, r.done)
    ELSE IF r.last = "lost" \/ job.stage \in {"gonekids", "gone"} THEN k
    ELSE RefreshCacheForPartialOperation(k, v, r.done)

-----------------------------------------------------------------------------
(* The work on a key.                                                      *)

VsOps(k, w, v, have) == IF have /\ k.vs[v].ck = w[v] THEN <<>> ELSE BuildVs(k, w, v)

RestOperation(k, w, v, have) ==
    LET coll == IF have THEN Coll(k, v) ELSE {}
        ds == DatascriptCU(k, w, v, coll)
        l4 == L4PolicyCU(k, w, v, coll)
    IN VSVipCU(k, w, v, coll) \o PoolCU(k, w, v, coll) \o PoolGroupCU(k, w, v, coll)
       \o StringGroupVsCU(k, w, v, coll) \o HTTPPolicyCU(k, w, v, coll)
       \o (IF have THEN ds \o l4 ELSE l4 \o ds) \o VsOps(k, w, v, have)

RestOperationForEvh(k, w, v, have) ==
    LET coll == IF have THEN Coll(k, v) ELSE {} IN
    VSVipCU(k, w, v, coll) \o CACertCU(k, w, v, coll) \o SSLKeyCertCU(k, w, v, coll)
    \o PoolCU(k, w, v, coll) \o PoolGroupCU(k, w, v, coll) \o StringGroupVsCU(k, w, v, coll)
    \o HTTPPolicyCU(k, w, v, coll) \o VsOps(k, w, v, have)

\* What the VS had and the model does not, once the VS no longer refers to it.
PurgeOps(k, key, S) ==
    (IF mode = "evh" THEN SSLKeyCertDelete(k, S) ELSE <<>>)
    \o VSVipDelete(k, S) \o HTTPPolicyDelete(k, S) \o StringGroupDelete(k, S)
    \o L4PolicyDelete(k, S) \o (IF mode = "sni" THEN DSDelete(k, S) ELSE <<>>)
    \o PoolGroupDelete(k, S) \o PoolDelete(k, key, S)

\* A child: its objects, itself, and what it had and the model does not.
ChildOps(k, w, v, user, have) ==
    LET coll == IF have THEN Coll(k, v) ELSE {}
        old == coll \ Own(w, v)
    IN CACertCU(k, w, v, coll) \o SSLKeyCertCU(k, w, v, coll) \o PoolCU(k, w, v, coll)
       \o PoolGroupCU(k, w, v, coll) \o StringGroupVsCU(k, w, v, coll)
       \o HTTPPolicyCU(k, w, v, coll) \o DatascriptCU(k, w, v, coll) \o VsOps(k, w, v, have)
       \o SSLKeyCertDelete(k, old) \o HTTPPolicyDelete(k, old) \o DSDelete(k, old)
       \o StringGroupDelete(k, old) \o PoolGroupDelete(k, old) \o PoolDelete(k, user, old)

SNINodeCU(k, w, v, have) == ChildOps(k, w, v, job.key, have)
EvhNodeCU(k, w, v, have) == ChildOps(k, w, v, IF have THEN v ELSE job.key, have)

\* A child whose entry lacks a collection is read back before it is deleted.
SNINodeRefresh(k, v) ==
    IF v \in DOMAIN k.vs /\ \E kind \in {"http", "pg", "pool"} : Of(kind, Coll(k, v)) = {}
    THEN AviObjOneVSCachePopulate(k, v) ELSE k

\* Mutant: the pools of a child go before the pool groups.
deletePoolsFirst(k, v) ==
    IF v \notin DOMAIN k.vs THEN <<>>
    ELSE AviVSDel(k, v) \o DSDelete(k, Coll(k, v)) \o SSLKeyCertDelete(k, Coll(k, v))
         \o HTTPPolicyDelete(k, Coll(k, v)) \o PoolDelete(k, job.key, Coll(k, v))
         \o PoolGroupDelete(k, Coll(k, v)) \o StringGroupDelete(k, Coll(k, v))

\* Mutant: string groups of a child are left.
deleteWithoutStringGroups(k, v) ==
    IF v \notin DOMAIN k.vs THEN <<>>
    ELSE AviVSDel(k, v) \o DSDelete(k, Coll(k, v)) \o SSLKeyCertDelete(k, Coll(k, v))
         \o HTTPPolicyDelete(k, Coll(k, v)) \o PoolGroupDelete(k, Coll(k, v))
         \o PoolDelete(k, job.key, Coll(k, v))

deleteSniVs(k, v) ==
    IF v \notin DOMAIN k.vs THEN <<>>
    ELSE AviVSDel(k, v) \o DSDelete(k, Coll(k, v)) \o SSLKeyCertDelete(k, Coll(k, v))
         \o HTTPPolicyDelete(k, Coll(k, v)) \o PoolGroupDelete(k, Coll(k, v))
         \o PoolDelete(k, job.key, Coll(k, v)) \o StringGroupDelete(k, Coll(k, v))

DeleteVSOper(k, v) ==
    AviVSDel(k, v) \o VSVipDelete(k, Coll(k, v)) \o DSDelete(k, Coll(k, v))
    \o SSLKeyCertDelete(k, Coll(k, v)) \o HTTPPolicyDelete(k, Coll(k, v))
    \o StringGroupDelete(k, Coll(k, v)) \o L4PolicyDelete(k, Coll(k, v))
    \o PoolGroupDelete(k, Coll(k, v)) \o PoolDelete(k, v, Coll(k, v))

\* DequeueNodes: a key with a model, with a cache entry only, with neither.
DequeueNodes(key) ==
    /\ phase = "run" /\ job = Idle /\ key \in queue
    /\ queue' = queue \ {key}
    /\ job' = CASE key \in Parents(model) ->
                     [Idle EXCEPT !.key = key, !.want = model, !.have = key \in DOMAIN c.vs,
                                  !.nodes = Children(model, key), !.stage = "cu"]
                [] key \notin Parents(model) /\ key \in DOMAIN c.vs ->
                     [Idle EXCEPT !.key = key, !.drop = c.vs[key].kids, !.stage = "gonekids"]
                [] OTHER -> Idle
    /\ UNCHANGED <<mode, ctl, model, c, phase, todo, refused, left, happened>>

\* What a process knows is gone; it starts over.
Restarted(w) ==
    /\ ctl' = w /\ c' = EmptyCache /\ phase' = "list" /\ todo' = ListedKinds
    /\ queue' = {} /\ job' = Idle /\ UNCHANGED <<mode, model>>

Refusals(r) == {Kind[r.done[i].obj] : i \in {j \in DOMAIN r.done : r.done[j].err = "refused"}}

\* Faults whose consequences last until the next start: the stale objects are not
\* retried, and of a child that is gone from the cache the rest is not known.
Mishap(fault, n) ==
    CASE job.key = Dummy -> "unclean"
      [] job.stage = "nodes" /\ job.nodes = {} /\ fault = "5xx" /\ n > 1 -> "halfway"
      [] OTHER -> fault

\* ExecuteRestAndPopulateCache for VS v, then "onward" with the job; if the batch
\* fails the key is queued again, unless it is the stale objects'.
Execute(k, ops, v, onward, survives) ==
    \E n \in 0..Len(ops), fault \in {"none", "5xx", "lost", "crash"} :
       LET r == AviRestOperate(ops, n, IF fault = "crash" THEN "lost" ELSE fault) IN
       /\ (n = 0) <=> (fault = "none")
       /\ n > 0 => Len(r.done) >= n
       /\ IF fault = "none" THEN UNCHANGED <<left, happened>>
          ELSE May(fault) /\ Happens(Mishap(fault, n))
       /\ refused' = refused \cup Refusals(r)
       /\ IF fault = "crash" THEN Restarted(r.w)
          ELSE /\ ctl' = r.w
               /\ c' = CachesAfter(k, v, r)
               /\ IF r.last = "ok" THEN job' = onward /\ UNCHANGED queue
                  ELSE /\ queue' = IF job.key = Dummy THEN queue ELSE queue \cup {job.key}
                       /\ job' = IF r.last \in survives THEN onward ELSE [Idle EXCEPT !.key = job.key]
               /\ UNCHANGED <<mode, model, phase, todo>>

Update ==
    /\ job.stage = "cu"
    /\ LET old == IF job.have THEN Coll(c, job.key) \ Own(job.want, job.key) ELSE {}
       IN Execute(c, IF mode = "sni" THEN RestOperation(c, job.want, job.key, job.have)
                     ELSE RestOperationForEvh(c, job.want, job.key, job.have),
                  job.key, [job EXCEPT !.stage = "purge", !.old = old], {})

Purge ==
    /\ job.stage = "purge"
    /\ Execute(c, PurgeOps(c, job.key, job.old), job.key,
               [job EXCEPT !.stage = "nodes",
                           !.drop = IF job.have /\ job.key \in DOMAIN c.vs
                                    THEN c.vs[job.key].kids \cap DOMAIN c.vs ELSE {}], {})

UpdateChild(v) ==
    /\ job.stage = "nodes" /\ v \in job.nodes
    /\ LET have == v \in job.drop /\ v \in DOMAIN c.vs IN
       Execute(c, IF mode = "sni" THEN SNINodeCU(c, job.want, v, have) ELSE EvhNodeCU(c, job.want, v, have),
               v, [job EXCEPT !.nodes = @ \ {v}, !.drop = @ \ {v}], {"404", "409"})

\* The outcome of these deletions is not looked at.
SNINodeDelete(v) ==
    /\ job.stage = "nodes" /\ job.nodes = {} /\ v \in job.drop
    /\ LET k == SNINodeRefresh(c, v) IN
       Execute(k, deleteSniVs(k, v), v, [job EXCEPT !.drop = @ \ {v}], {"5xx", "lost"})

DeleteChild(v) ==
    /\ job.stage = "gonekids" /\ v \in job.drop
    /\ LET k == SNINodeRefresh(c, v) IN
       Execute(k, deleteSniVs(k, v), v, [job EXCEPT !.drop = @ \ {v}], {})

DeleteVS ==
    /\ job.stage = "gonekids" /\ job.drop = {}
    /\ Execute(c, DeleteVSOper(c, job.key), job.key, [Idle EXCEPT !.key = job.key], {})

Finish ==
    /\ \/ job.stage = "idle" /\ job.key # None /\ job.key # Dummy
       \/ job.stage = "nodes" /\ job.nodes = {} /\ job.drop = {}
       \/ job.key = Dummy /\ job.stage = "idle" /\ phase = "run"
    /\ job' = Idle
    /\ UNCHANGED <<mode, ctl, model, c, phase, todo, queue, refused, left, happened>>

\* CleanupStaleVSes deletes what the dummy VS collects; it gives up if the tenants
\* cannot be read.
CleanupStaleVSes(ok) ==
    /\ phase = "clean" /\ job = Idle
    /\ IF ok THEN job' = [Idle EXCEPT !.key = Dummy, !.drop = c.vs[Dummy].kids, !.stage = "gonekids"]
       ELSE job' = [Idle EXCEPT !.key = Dummy, !.have = TRUE]
    /\ IF ok THEN UNCHANGED <<left, happened>> ELSE May("tenants") /\ Happens("tenants")
    /\ UNCHANGED <<mode, ctl, model, c, phase, todo, queue, refused>>

\* The entry of the dummy VS is dropped whatever became of its objects (it stays
\* when the tenants could not be read, and is published like any other).
publishAllParentVSKeysToRestLayer ==
    /\ phase = "clean" /\ job.key = Dummy /\ job.stage = "idle"
    /\ LET kept == IF job.have THEN c.vs ELSE Without(c.vs, {Dummy}) IN
       /\ c' = [c EXCEPT !.vs = kept]
       /\ queue' = {v \in DOMAIN kept : kept[v].parent = None} \cup Parents(model)
    /\ phase' = "run" /\ job' = Idle
    /\ UNCHANGED <<mode, ctl, model, todo, refused, left, happened>>

\* A model changes and its key is published.
Change(w) ==
    /\ phase = "run" /\ May("change") /\ w # model
    /\ Happens("change")
    /\ model' = w
    /\ queue' = queue \cup {p \in Parents(w) \cup Parents(model) :
                   \/ p \notin DOMAIN w \/ p \notin DOMAIN model
                   \/ \E o \in {p} \cup Children(w, p) \cup Children(model, p) :
                         \E q \in Own(w, o) \cup Own(model, o) \cup {o} :
                            q \notin DOMAIN w \/ q \notin DOMAIN model \/ w[q] # model[q]}
    /\ UNCHANGED <<mode, ctl, c, phase, todo, job, refused>>

\* A user of the controller deletes an object.
OutOfBand(o) ==
    /\ phase = "run" /\ job = Idle /\ May("outOfBand")
    /\ Verdict(ctl, Op(o, "DELETE", None)) = "ok"
    /\ Happens("outOfBand")
    /\ ctl' = Without(ctl, {o})
    /\ UNCHANGED <<mode, model, c, phase, todo, queue, job, refused>>

Restart ==
    /\ May("restart") /\ phase = "run" /\ job = Idle
    /\ Happens("restart") /\ Restarted(ctl)
    /\ UNCHANGED refused

Next ==
    \/ AviRefreshObjectCache \/ AviObjCachePopulate
    \/ \E ok \in BOOLEAN : CleanupStaleVSes(ok)
    \/ publishAllParentVSKeysToRestLayer
    \/ \E key \in queue : DequeueNodes(key)
    \/ Update \/ Purge \/ DeleteVS \/ Finish
    \/ \E v \in job.nodes : UpdateChild(v)
    \/ \E v \in job.drop : SNINodeDelete(v) \/ DeleteChild(v)
    \/ \E w \in Worlds[mode] : Change(w)
    \/ \E o \in DOMAIN ctl : OutOfBand(o)
    \/ Restart

Spec == Init /\ [][Next]_vars

-----------------------------------------------------------------------------
(* Properties.                                                             *)

\* What was created by a batch that failed is not known to the cache, or not as part
\* of its VS, if the model goes before the retry; the next start finds it.
Forgotten == "change" \in happened /\ happened \cap {"5xx", "lost"} # {}

Resting == phase = "run" /\ queue = {} /\ job = Idle

\* Every VS entry of the cache keeps collections and children of known objects.
TypeOK ==
    /\ DOMAIN ctl \subseteq Objects /\ DOMAIN c.obj \subseteq Objects
    /\ \A v \in DOMAIN c.vs : c.vs[v].coll \subseteq Objects /\ c.vs[v].kids \subseteq Of("vs", Objects)

\* When nothing is left to do the controller has every object the models call for,
\* as they call for it.
Served ==
    Resting /\ NoneOf({"outOfBand", "early"}) /\ ~Forgotten =>
       \A o \in DOMAIN model : o \in DOMAIN ctl /\ ctl[o] = model[o]

\* ... and none besides, but the VsVips of shard virtual services; a request that
\* fails may leave a PKI or persistence profile, which no start-up looks for.
NothingElse ==
    Resting /\ NoneOf({"outOfBand", "listing", "early", "unclean", "halfway"})
            /\ ~Forgotten =>
       \A o \in DOMAIN ctl \ (DOMAIN model \cup Shared) :
          Kind[o] \in {"pki", "persistence"} /\ ~NoneOf({"5xx", "lost", "crash"})

\* No step deletes a virtual service that the models call for, unless the model
\* changed while its key was being worked on.
NeverTornDown ==
    [][\A v \in Of("vs", DOMAIN ctl \cap DOMAIN model) :
          v \notin DOMAIN ctl' /\ job.key \notin queue => ~NoneOf({"outOfBand", "early"})']_vars

\* The order of a batch is such that the controller has no reason to refuse a
\* deletion.
NothingRefused == NoneOf({"listing", "early", "tenants"}) /\ ~Forgotten => refused \subseteq {"stringgroup", "persistence"}

=============================================================================
