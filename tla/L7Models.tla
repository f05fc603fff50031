------------------------------ MODULE L7Models ------------------------------
(***************************************************************************)
(* The layer 7 models: how the ingestion worker turns Ingresses into       *)
(* graphs of Avi objects.  Host names are sharded over virtual services; a *)
(* turn for one Ingress changes the graphs of all the hosts it has and had *)
(* in place, compares each with its checksum and hands the names of the    *)
(* changed ones to the REST layer.  Nothing is rebuilt from scratch: what  *)
(* has to go is worked out from the hosts and paths stored by the last     *)
(* turn.  Both ways of building are here, SNI children and enhanced        *)
(* virtual hosting (EVH), with shared, dedicated and passthrough virtual   *)
(* services, AviInfraSettings that move an Ingress to another virtual      *)
(* service, and the host name cache with its Strict reuse policy.          *)
(*                                                                         *)
(* An Ingress is [set, pass, secure, rules]: the AviInfraSetting of its    *)
(* class ("" for none, "ded" for one with dedicated virtual services),     *)
(* whether it is annotated passthrough, its TLS hosts, and for each host   *)
(* the pairs <<path, service>>.  There is one ingestion worker, so a turn  *)
(* is one step.                                                            *)
(***************************************************************************)
EXTENDS Naturals, FiniteSets, FiniteSetsExt

CONSTANTS
    Ingresses,
    NamespaceOf,    \* the namespace of each Ingress
    Hosts,
    Specs,          \* what a user may put into an Ingress
    Settings,       \* the AviInfraSettings
    Modes,          \* "sni", "evh"
    Policies,       \* whether the host name reuse policy is Strict
    None,
    Changes,        \* what the environment may do
    MaxChanges

VARIABLES
    mode,       \* how this AKO builds hosts
    strict,     \* its host name reuse policy is Strict
    ing,        \* Ingresses in the lister
    secret,     \* Ingresses whose TLS Secret exists
    accepted,   \* AviInfraSettings that exist and are Accepted
    queue,      \* ingestion keys
    stored,     \* SvcLister: hosts and paths of each Ingress at its last turn
    infra,      \* InfraSettingL7Lister: the AviInfraSetting of that turn
    hostmap,    \* SharedHostNameLister: Ingresses of a host
    hostpath,   \* its host and path store
    models,     \* SharedAviGraphLister
    pub,        \* model names handed to the REST layer
    avi,        \* what the REST layer has made of them
    left,       \* changes the environment may still make
    happened    \* the kinds of change so far

vars == <<mode, strict, ing, secret, accepted, queue, stored, infra, hostmap, hostpath,
          models, pub, avi, left, happened>>

Names == {<<"shared", x, None>> : x \in Settings \cup {""}}
            \cup {<<"pass", x, None>> : x \in Settings \cup {""}}
            \cup {<<k, "ded", h>> : k \in {"dedicated", "pass"}, h \in Hosts}
Dedicated(n) == n[1] = "dedicated"
PathsOf(ps) == {q[1] : q \in ps}

EmptyNode == [pools |-> {}, pgs |-> {}, http |-> {}]

NoHosts == CHOOSE f \in [Hosts -> {None}] : TRUE

\* The certificate and the redirect of a host sit on its SNI child and on
\* the parent, or on the EVH parent and on the child.  `child' are the hosts
\* that the insecure companion of a passthrough virtual service redirects.
EmptyGraph(n) ==
    [fqdns |-> {}, redirect |-> {}, certs |-> {}, pools |-> {}, members |-> {},
     kids |-> IF Dedicated(n) THEN [NoHosts EXCEPT ![n[3]] = EmptyNode] ELSE NoHosts,
     pass |-> NoHosts, child |-> {}]

-----------------------------------------------------------------------------
(***************************************************************************)
(* Which virtual service a host belongs to.                                *)
(***************************************************************************)
GetShardVSName(set, h) ==
    IF set = "ded" THEN <<"dedicated", set, h>> ELSE <<"shared", set, None>>

GetPassthroughShardVSName(set, h) ==
    IF set = "ded" THEN <<"pass", set, h>> ELSE <<"pass", set, None>>

\* The Ingress is not found, or its class names an AviInfraSetting that is
\* missing or rejected: it is treated as having none.
getL7IngressInfraSetting(i) ==
    IF ing[i] = None \/ ing[i].set \notin accepted THEN "" ELSE ing[i].set
GetK8sIngressModel(i) ==
    IF ing[i] = None THEN "notfound"
    ELSE IF ing[i].set # "" /\ ing[i].set \notin accepted THEN "error" ELSE "ok"

DeriveShardVS(i, h) ==
    [old |-> GetShardVSName(infra[i], h),
     new |-> GetShardVSName(getL7IngressInfraSetting(i), h)]
DeriveShardVSForEvh(i, h) ==
    [old |-> GetShardVSName(infra[i], h),
     new |-> GetShardVSName(getL7IngressInfraSetting(i), h)]
DerivePassthroughVS(i, h) ==
    [old |-> GetPassthroughShardVSName(infra[i], h),
     new |-> GetPassthroughShardVSName(getL7IngressInfraSetting(i), h)]

\* ParseHostPathForIngress: the hosts of an Ingress by the way they are served.
Insecure(spec) == IF spec.pass THEN {} ELSE DOMAIN spec.rules \ spec.secure
Secure(spec) == IF spec.pass THEN {} ELSE DOMAIN spec.rules \cap spec.secure
Passthrough(spec) == IF spec.pass THEN DOMAIN spec.rules ELSE {}

\* Mutant: the difference taken the wrong way round.
DiffOfNew(old, new, checkSvc) ==
    {q \in new : IF checkSvc THEN q \notin old ELSE q[1] \notin PathsOf(old)}

\* The stored paths that the Ingress does not have any more.  Under EVH a
\* pool is named after its service too, so a changed service counts.
GetDiffPathSvc(old, new, checkSvc) ==
    {q \in old : IF checkSvc THEN q \notin new ELSE q[1] \notin PathsOf(new)}

-----------------------------------------------------------------------------
(***************************************************************************)
(* The host name cache.  A turn works on a record t of the stores it       *)
(* changes; each function is an operator from t to t.                      *)
(***************************************************************************)
\* Mutant: the wrong one of two names of the same type.
MapHostToItself(t, i, h) == [t EXCEPT !.hostmap[h] = @ \cup {h}]

PopulateIngHostMap(t, i, h) == [t EXCEPT !.hostmap[h] = @ \cup {i}]

Forget(t, i, h) == [t EXCEPT !.hostmap[h] = @ \ {i}]

hostnameExistInDifferentNamespace(t, i, h) ==
    \E j \in t.hostmap[h] : NamespaceOf[j] # NamespaceOf[i]

EnqueueIng(t, i, h) == strict => ~hostnameExistInDifferentNamespace(t, i, h)

\* An Ingress that is already listed replaces the whole list.
SaveHostPathStore(ings, i) == IF ings # {} /\ i \notin ings THEN ings \cup {i} ELSE {i}

RemoveHostPathStore(ings, i) == ings \ {i}

updateHostPathCache(store, i, old, new) ==
    [h \in Hosts |-> [p \in DOMAIN store[h] |->
        LET kept == IF old[h] # None /\ p \in PathsOf(old[h].ps)
                    THEN RemoveHostPathStore(store[h][p], i) ELSE store[h][p]
        IN  IF new[h] # None /\ p \in PathsOf(new[h].ps)
            THEN SaveHostPathStore(kept, i) ELSE kept]]

-----------------------------------------------------------------------------
(***************************************************************************)
(* Nodes and graphs.  A pool of a child is [ing, path, svc]; its pool      *)
(* group is known by its members, and http holds the rules that send a     *)
(* path to its pool group.                                                 *)
(***************************************************************************)
PoolNodes(i, ps) == {[ing |-> i, path |-> q[1], svc |-> q[2]] : q \in ps}
Rules(i, ps) == {[ing |-> i, path |-> p] : p \in PathsOf(ps)}
RuleOf(p) == [ing |-> p.ing, path |-> p.path]

ReplaceSniPoolInSNINode(pools, new) ==
    {p \in pools : RuleOf(p) \notin {RuleOf(q) : q \in new}} \cup new

ReplaceSniPGInSNINode(pgs, new) ==
    {p \in pgs : RuleOf(p) \notin {RuleOf(q) : q \in new}} \cup new

ReplaceSniHTTPRefInSNINode(http, new) == http \cup new

\* A pool named after another service is another pool.
ReplaceEvhPoolInEVHNode(pools, new) == pools \cup new

ReplaceEvhPGInEVHNode(pgs, new) ==
    {p \in pgs : RuleOf(p) \notin {RuleOf(q) : q \in new}} \cup new

ReplaceHTTPRefInNodeForEvh(http, new) == http \cup new

AddFQDNsToModel(g, h) == [g EXCEPT !.fqdns = @ \cup {h}]

RemoveFQDNsFromModel(g, h) == [g EXCEPT !.fqdns = @ \ {h}]

RemoveRedirectHTTPPolicyInModel(g, h) == [g EXCEPT !.redirect = @ \ {h}]

RemoveRedirectHTTPPolicyInModelForEvh(g, h) == [g EXCEPT !.redirect = @ \ {h}]

BuildPolicyRedirectForVS(g, h) == [g EXCEPT !.redirect = @ \cup {h}]

BuildPolicyRedirectForVSForEvh(g, h) == [g EXCEPT !.redirect = @ \cup {h}]

\* The certificate of an SNI child goes with it.
RemoveSniInModel(g, h) == [g EXCEPT !.kids[h] = None, !.certs = @ \ {h}]

\* The redirect of an EVH child goes with it.
RemoveEvhInModel(g, h) == [g EXCEPT !.kids[h] = None, !.redirect = @ \ {h}]

DeleteDedicatedVSNode(g, h) ==
    [g EXCEPT !.kids[h] = EmptyNode, !.redirect = @ \ {h}, !.fqdns = @ \ {h},
              !.certs = @ \ {h}]

DeleteDedicatedEvhVSNode(g, h) ==
    [g EXCEPT !.kids[h] = EmptyNode, !.redirect = @ \ {h}, !.fqdns = @ \ {h},
              !.certs = @ \ {h}]

Kid(g, h) == IF g.kids[h] = None THEN EmptyNode ELSE g.kids[h]

\* A new graph exists in the store only once it is saved.
ConstructAviL7VsNode(t, n) ==
    IF t.models[n] = None THEN [t EXCEPT !.models[n] = EmptyGraph(n)] ELSE t

ConstructAviL7SharedVsNodeForEvh(t, n) ==
    IF t.models[n] = None THEN [t EXCEPT !.models[n] = EmptyGraph(n)] ELSE t

BuildVSForPassthrough(t, n, h) ==
    IF t.models[n] = None
    THEN [t EXCEPT !.models[n] = AddFQDNsToModel(EmptyGraph(n), h)] ELSE t

\* Mutant: a graph without virtual hosts is not worth a request.
SaveIfServing(t, n) ==
    IF t.models[n] = t.sum[n] \/ t.models[n].fqdns = {} THEN t
    ELSE [t EXCEPT !.sum[n] = t.models[n], !.pub = @ \cup {n}]

\* sum is the graph as of its last checksum.
saveAviModel(t, n) ==
    IF t.models[n] = t.sum[n] THEN t
    ELSE [t EXCEPT !.sum[n] = t.models[n], !.pub = @ \cup {n}]

\* A dedicated virtual service that serves nothing any more.
SaveNil(t, n) == [t EXCEPT !.models[n] = None, !.sum[n] = None, !.pub = @ \cup {n}]

SaveOrNil(r, n) == IF r.del THEN SaveNil(r.t, n) ELSE saveAviModel(r.t, n)

-----------------------------------------------------------------------------
(***************************************************************************)
(* Building a host, SNI.                                                   *)
(***************************************************************************)
\* Insecure paths are pools of the shared virtual service, all members of
\* its one pool group.
BuildL7VSGraphHostNameShard(t, n, i, h, ps) ==
    LET g == t.models[n]
        new == {[ing |-> i, host |-> h, path |-> q[1], svc |-> q[2]] : q \in ps}
        pools == {p \in g.pools : ~(p.ing = i /\ p.host = h /\ p.path \in PathsOf(ps))}
                    \cup new
    IN  [t EXCEPT !.models[n] =
            [AddFQDNsToModel(g, h) EXCEPT !.pools = pools, !.members = pools]]

BuildPoolPGPolicyForDedicatedVS(g, i, h, ps) ==
    [g EXCEPT !.kids[h] =
        [pools |-> ReplaceSniPoolInSNINode(@.pools, PoolNodes(i, ps)),
         pgs |-> ReplaceSniPGInSNINode(@.pgs, PoolNodes(i, ps)),
         http |-> ReplaceSniHTTPRefInSNINode(@.http, Rules(i, ps))]]

BuildDedicatedL7VSGraphHostNameShard(t, n, i, h, ps) ==
    LET g == RemoveRedirectHTTPPolicyInModel(AddFQDNsToModel(t.models[n], h), h)
        bare == [g EXCEPT !.certs = @ \ {h}]
    IN  [PopulateIngHostMap(t, i, h) EXCEPT
            !.models[n] = BuildPoolPGPolicyForDedicatedVS(bare, i, h, ps)]

BuildTlsCertNode(i) == i \in secret

BuildPolicyPGPoolsForSNI(g, i, h, ps) ==
    LET node == Kid(g, h)
    IN  [AddFQDNsToModel(g, h) EXCEPT
            !.kids[h] = [pools |-> ReplaceSniPoolInSNINode(node.pools, PoolNodes(i, ps)),
                         pgs |-> ReplaceSniPGInSNINode(node.pgs, PoolNodes(i, ps)),
                         http |-> ReplaceSniHTTPRefInSNINode(node.http, Rules(i, ps))]]

\* Without a certificate the child goes once no Ingress is known for the host.
BuildModelGraphForSNI(t, n, i, h, ps) ==
    LET g == t.models[n]
        built == [BuildPolicyPGPoolsForSNI(g, i, h, ps) EXCEPT !.certs = @ \cup {h}]
        gone == IF Dedicated(n) THEN DeleteDedicatedVSNode(g, h)
                ELSE RemoveRedirectHTTPPolicyInModel(RemoveSniInModel(g, h), h)
        out == Forget(t, i, h)
    IN  IF BuildTlsCertNode(i)
        THEN [t EXCEPT !.models[n] = BuildPolicyRedirectForVS(
                                        RemoveRedirectHTTPPolicyInModel(built, h), h)]
        ELSE IF out.hostmap[h] # {} THEN out
        ELSE [out EXCEPT !.models[n] = RemoveFQDNsFromModel(gone, h)]

sniNodeHostName(t, i, h, ps) ==
    LET n == DeriveShardVS(i, h).new
    IN  saveAviModel(BuildModelGraphForSNI(
            ConstructAviL7VsNode(PopulateIngHostMap(t, i, h), n), n, i, h, ps), n)

-----------------------------------------------------------------------------
(***************************************************************************)
(* Building a host, EVH: secure or not, it is a child of the shared        *)
(* virtual service.                                                        *)
(***************************************************************************)
BuildPolicyPGPoolsForEVH(g, i, h, ps) ==
    LET node == Kid(g, h)
    IN  [AddFQDNsToModel(g, h) EXCEPT
            !.kids[h] = [pools |-> ReplaceEvhPoolInEVHNode(node.pools, PoolNodes(i, ps)),
                         pgs |-> ReplaceEvhPGInEVHNode(node.pgs, PoolNodes(i, ps)),
                         http |-> ReplaceHTTPRefInNodeForEvh(node.http, Rules(i, ps))]]

BuildModelGraphForInsecureEVH(t, n, i, h, ps) ==
    LET g == [t.models[n] EXCEPT !.certs = @ \ {h}]
    IN  [PopulateIngHostMap(t, i, h) EXCEPT
            !.models[n] = BuildPolicyPGPoolsForEVH(
                            RemoveRedirectHTTPPolicyInModelForEvh(g, h), i, h, ps)]

BuildTlsCertNodeForEvh(i) == i \in secret

BuildModelGraphForSecureEVH(t, n, i, h, ps) ==
    LET g == t.models[n]
        built == [BuildPolicyPGPoolsForEVH(g, i, h, ps) EXCEPT !.certs = @ \cup {h}]
        gone == IF Dedicated(n) THEN DeleteDedicatedEvhVSNode(g, h)
                ELSE RemoveEvhInModel([g EXCEPT !.certs = @ \ {h}], h)
        out == Forget(t, i, h)
    IN  IF BuildTlsCertNodeForEvh(i)
        THEN [t EXCEPT !.models[n] = BuildPolicyRedirectForVSForEvh(
                                        RemoveRedirectHTTPPolicyInModelForEvh(built, h), h)]
        ELSE IF out.hostmap[h] # {} THEN out
        ELSE [out EXCEPT !.models[n] = RemoveFQDNsFromModel(gone, h)]

evhNodeHostName(t, i, h, ps) ==
    LET n == DeriveShardVSForEvh(i, h).new
    IN  saveAviModel(BuildModelGraphForSecureEVH(
            ConstructAviL7SharedVsNodeForEvh(PopulateIngHostMap(t, i, h), n), n, i, h, ps), n)

-----------------------------------------------------------------------------
(***************************************************************************)
(* Passthrough.  Pools are named after host and service: the Ingress whose *)
(* turn comes last owns the host.                                          *)
(***************************************************************************)
BuildGraphForPassthrough(g, i, h, ps) ==
    [AddFQDNsToModel(g, h) EXCEPT
        !.pass[h] = {[ing |-> i, svc |-> q[2]] : q \in ps},
        !.child = @ \cup {h}]

DeleteObjectsForPassthroughHost(t, n, h) ==
    LET g == t.models[n]
    IN  IF g.pass[h] = None THEN t
        ELSE [t EXCEPT !.models[n] =
                [RemoveFQDNsFromModel(g, h) EXCEPT !.pass[h] = None, !.child = @ \ {h}]]

-----------------------------------------------------------------------------
(***************************************************************************)
(* Taking a host's paths out of a graph.                                   *)
(***************************************************************************)
\* Mutant: the rule that sends a path to its pool group stays.
KeepRules(node, i, ps) ==
    [node EXCEPT !.pools = {p \in @ : RuleOf(p) \notin Rules(i, ps)},
                 !.pgs = {p \in @ : RuleOf(p) \notin Rules(i, ps)}]

manipulateVsNode(node, i, ps) ==
    LET gone == {r \in Rules(i, ps) : \E p \in node.pgs : RuleOf(p) = r}
    IN  [pools |-> {p \in node.pools : RuleOf(p) \notin Rules(i, ps)},
         pgs |-> {p \in node.pgs : RuleOf(p) \notin Rules(i, ps)},
         http |-> node.http \ gone]

\* A pool group with members of another service stays.
manipulateEVHVsNode(node, i, ps) ==
    LET out == PoolNodes(i, ps)
        pgs == node.pgs \ out
        gone == {RuleOf(p) : p \in node.pgs} \ {RuleOf(p) : p \in pgs}
    IN  [pools |-> node.pools \ out, pgs |-> pgs, http |-> node.http \ gone]

\* keep: the node still serves a path, or was not there.
ManipulateSniNode(t, n, i, h, ps) ==
    LET g == t.models[n]
        node == manipulateVsNode(g.kids[h], i, ps)
        kept == [t EXCEPT !.models[n].kids[h] = node]
    IN  IF g.kids[h] = None THEN [t |-> t, keep |-> TRUE]
        ELSE IF node.pools # {} THEN [t |-> kept, keep |-> TRUE]
        ELSE [t |-> [kept EXCEPT
                        !.models[n] = IF Dedicated(n) THEN [@ EXCEPT !.certs = @ \ {h}]
                                      ELSE RemoveSniInModel(@, h),
                        !.hostmap[h] = {}],
              keep |-> FALSE]

ManipulateEvhNode(t, n, i, h, ps) ==
    LET g == t.models[n]
        node == manipulateEVHVsNode(g.kids[h], i, ps)
        kept == [t EXCEPT !.models[n].kids[h] = node]
    IN  IF g.kids[h] = None THEN [t |-> t, keep |-> TRUE]
        ELSE IF node.pgs # {} THEN [t |-> kept, keep |-> TRUE]
        ELSE [t |-> [kept EXCEPT
                        !.models[n] = IF Dedicated(n) THEN [@ EXCEPT !.certs = @ \ {h}]
                                      ELSE RemoveEvhInModel(@, h),
                        !.hostmap[h] = {}],
              keep |-> FALSE]

\* The insecure paths on the shared virtual service.
RemovePoolNodeRefs(t, n, i, h, ps) ==
    LET pools == {p \in t.models[n].pools :
                    ~(p.ing = i /\ p.host = h /\ p.path \in PathsOf(ps))}
    IN  [t EXCEPT !.models[n].pools = pools, !.models[n].members = pools]

\* The FQDN and the redirect of a host go with its last path.
WithoutHost(g, h, removeFqdn, removeRedir) ==
    LET f == IF removeFqdn THEN RemoveFQDNsFromModel(g, h) ELSE g
    IN  IF removeRedir THEN RemoveRedirectHTTPPolicyInModel(f, h) ELSE f

WithoutHostForEvh(g, h, removeFqdn, removeRedir) ==
    LET f == IF removeFqdn THEN RemoveFQDNsFromModel(g, h) ELSE g
    IN  IF removeRedir THEN RemoveRedirectHTTPPolicyInModelForEvh(f, h) ELSE f

Shorn(m, n, h, removeFqdn, removeRedir) ==
    IF m.keep THEN [t |-> m.t, del |-> FALSE]
    ELSE [t |-> [m.t EXCEPT !.models[n] = WithoutHost(@, h, removeFqdn, removeRedir)],
          del |-> Dedicated(n)]

ShornForEvh(m, n, h, removeFqdn, removeRedir) ==
    IF m.keep THEN [t |-> m.t, del |-> FALSE]
    ELSE [t |-> [m.t EXCEPT !.models[n] = WithoutHostForEvh([@ EXCEPT !.certs = @ \ {h}],
                                                    h, removeFqdn, removeRedir)],
          del |-> Dedicated(n)]

\* del: a dedicated virtual service may go.  The redirect of a passthrough
\* virtual service is not on the virtual service itself.
DeletePoolForHostname(t, n, i, h, ps, removeFqdn, removeRedir, secure) ==
    Shorn(IF ~secure /\ ~Dedicated(n)
          THEN [t |-> RemovePoolNodeRefs(t, n, i, h, ps), keep |-> FALSE]
          ELSE ManipulateSniNode(Forget(t, i, h), n, i, h, ps),
          n, h, removeFqdn, removeRedir)

DeletePoolForHostnameForEvh(t, n, i, h, ps, removeFqdn, removeRedir) ==
    ShornForEvh(ManipulateEvhNode(Forget(t, i, h), n, i, h, ps), n, h, removeFqdn, removeRedir)

\* Take the stored paths d of a host out of virtual service n; ins are the
\* insecure policies that the caller looks at.
RemoveInsecure(s, n, i, h, d, removeFqdn, removeRedir, ins) ==
    IF d.ins \in ins
    THEN DeletePoolForHostname(s.t, n, i, h, d.ps, removeFqdn, removeRedir, FALSE)
    ELSE s

RemoveStored(t, n, i, h, d, removeFqdn, removeRedir, ins) ==
    RemoveInsecure(
        IF d.sec = "edge"
        THEN DeletePoolForHostname(t, n, i, h, d.ps, removeFqdn, removeRedir, TRUE)
        ELSE [t |-> IF d.sec = "pass" THEN DeleteObjectsForPassthroughHost(t, n, h) ELSE t,
              del |-> FALSE],
        n, i, h, d, removeFqdn, removeRedir, ins)

RemoveInsecureForEvh(s, n, i, h, d, removeFqdn, removeRedir, ins) ==
    IF d.ins \notin ins THEN s
    ELSE IF d.sec = "pass"
    THEN DeletePoolForHostname(s.t, n, i, h, d.ps, TRUE, TRUE, FALSE)
    ELSE DeletePoolForHostnameForEvh(s.t, n, i, h, d.ps, removeFqdn, removeRedir)

RemoveStoredForEvh(t, n, i, h, d, removeFqdn, removeRedir, ins) ==
    RemoveInsecureForEvh(
        IF d.sec = "edge"
        THEN DeletePoolForHostnameForEvh(t, n, i, h, d.ps, removeFqdn, removeRedir)
        ELSE [t |-> IF d.sec = "pass" THEN DeleteObjectsForPassthroughHost(t, n, h) ELSE t,
              del |-> FALSE],
        n, i, h, d, removeFqdn, removeRedir, ins)

-----------------------------------------------------------------------------
(***************************************************************************)
(* A turn of the ingestion worker.                                         *)
(***************************************************************************)
Both == {"allow", "redirect"}
Old(i, h, d) == IF d.sec = "pass" THEN DerivePassthroughVS(i, h).old ELSE DeriveShardVS(i, h).old
New(i, h, d) == IF d.sec = "pass" THEN DerivePassthroughVS(i, h).new ELSE DeriveShardVS(i, h).new
Stored(t) == {h \in Hosts : t.old[h] # None}

\* Another AviInfraSetting: the hosts leave their old virtual service.  A
\* dedicated one stays, empty.
DeleteStaleDataForModelChange(t, i) ==
    LET Step(h, a) ==
            LET d == a.old[h]
                n == Old(i, h, d)
            IN  IF n = New(i, h, d) \/ a.models[n] = None THEN a
                ELSE saveAviModel(RemoveStored(a, n, i, h, d, TRUE, TRUE, Both).t, n)
    IN  FoldSet(Step, t, Stored(t))

DeleteStaleDataForModelChangeForEvh(t, i) ==
    LET Step(h, a) ==
            LET d == a.old[h]
                n == Old(i, h, d)
            IN  IF n = New(i, h, d) \/ a.models[n] = None THEN a
                ELSE saveAviModel(RemoveStoredForEvh(a, n, i, h, d, TRUE, TRUE, Both).t, n)
    IN  FoldSet(Step, t, Stored(t))

ProcessInsecureHosts(t, i) ==
    LET Step(h, a) ==
            LET d == a.old[h]
                n == DeriveShardVS(i, h).new
                ps == ing[i].rules[h]
                diff == GetDiffPathSvc(d.ps, ps, FALSE)
                old == IF d = None \/ d.ins = "none" THEN d
                       ELSE IF diff # {} THEN [d EXCEPT !.ps = diff]
                       ELSE [d EXCEPT !.ins = "none",
                                      !.sec = IF Dedicated(n) THEN "none" ELSE @]
                c == ConstructAviL7VsNode(a, n)
                b == IF Dedicated(n) THEN BuildDedicatedL7VSGraphHostNameShard(c, n, i, h, ps)
                     ELSE BuildL7VSGraphHostNameShard(c, n, i, h, ps)
            IN  [saveAviModel(b, n) EXCEPT
                    !.old[h] = old, !.new[h] = [sec |-> "none", ins |-> "allow", ps |-> ps]]
    IN  FoldSet(Step, t, Insecure(ing[i]))

ProcessInsecureHostsForEVH(t, i) ==
    LET Step(h, a) ==
            LET d == a.old[h]
                n == DeriveShardVSForEvh(i, h).new
                ps == ing[i].rules[h]
                diff == GetDiffPathSvc(d.ps, ps, TRUE)
                old == IF d = None \/ d.ins = "none" THEN d
                       ELSE IF diff # {} THEN [d EXCEPT !.ps = diff]
                       ELSE [d EXCEPT !.ins = "none", !.sec = "none"]
                b == BuildModelGraphForInsecureEVH(
                        ConstructAviL7SharedVsNodeForEvh(a, n), n, i, h, ps)
            IN  IF ~EnqueueIng(a, i, h) THEN a
                ELSE [saveAviModel(b, n) EXCEPT
                        !.old[h] = old, !.new[h] = [sec |-> "none", ins |-> "allow", ps |-> ps]]
    IN  FoldSet(Step, t, Insecure(ing[i]))

ProcessSecureHosts(t, i) ==
    LET Step(h, a) ==
            LET ded == Dedicated(DeriveShardVS(i, h).new)
                d == IF a.old[h] # None /\ ded /\ a.old[h].ins = "allow"
                     THEN [a.old[h] EXCEPT !.ins = "none"] ELSE a.old[h]
                ps == ing[i].rules[h]
                diff == GetDiffPathSvc(d.ps, ps, FALSE)
                old == IF d = None \/ d.sec # "edge" THEN d
                       ELSE IF diff # {} THEN [d EXCEPT !.ps = diff]
                       ELSE [d EXCEPT !.sec = "none", !.ins = IF ded THEN "none" ELSE @]
            IN  [sniNodeHostName(a, i, h, ps) EXCEPT
                    !.old[h] = old, !.new[h] = [sec |-> "edge", ins |-> "redirect", ps |-> ps]]
    IN  FoldSet(Step, t, Secure(ing[i]))

ProcessSecureHostsForEVH(t, i) ==
    LET Step(h, a) ==
            LET d == IF a.old[h] # None /\ a.old[h].ins = "allow"
                     THEN [a.old[h] EXCEPT !.ins = "none"] ELSE a.old[h]
                ps == ing[i].rules[h]
                diff == GetDiffPathSvc(d.ps, ps, TRUE)
                old == IF d = None \/ d.sec # "edge" THEN d
                       ELSE IF diff # {} THEN [d EXCEPT !.ps = diff]
                       ELSE [d EXCEPT !.sec = "none", !.ins = "none"]
            IN  IF ~EnqueueIng(a, i, h) THEN a
                ELSE [evhNodeHostName(a, i, h, ps) EXCEPT
                    !.old[h] = old, !.new[h] = [sec |-> "edge", ins |-> "redirect", ps |-> ps]]
    IN  FoldSet(Step, t, Secure(ing[i]))

ProcessPassthroughHosts(t, i) ==
    LET Step(h, a) ==
            LET d == a.old[h]
                n == DerivePassthroughVS(i, h).new
                c == BuildVSForPassthrough(a, n, h)
                b == BuildGraphForPassthrough(c.models[n], i, h, ing[i].rules[h])
            IN  [saveAviModel([c EXCEPT !.models[n] = b], n) EXCEPT
                    !.old[h] = IF d # None /\ d.sec = "pass" THEN [d EXCEPT !.sec = "none"] ELSE d,
                    !.new[h] = [sec |-> "pass", ins |-> "redirect", ps |-> {}]]
    IN  FoldSet(Step, t, Passthrough(ing[i]))

\* What is left in the stored hosts after the builders have struck out what
\* the Ingress still has.
DeleteStaleData(t, i) ==
    LET Step(h, a) ==
            LET d == a.old[h]
                n == New(i, h, d)
                same == a.new[h] # None /\ d.sec # "pass" /\ a.new[h].sec # "pass"
                redir == ~(same /\ a.new[h].ins = "redirect")
            IN  IF a.models[n] = None THEN a
                ELSE saveAviModel(RemoveStored(a, n, i, h, d, ~same, redir, Both).t, n)
    IN  FoldSet(Step, t, Stored(t))

DeleteStaleDataForEvh(t, i) ==
    LET Step(h, a) ==
            LET d == a.old[h]
                n == New(i, h, d)
                same == a.new[h] # None /\ d.sec # "pass" /\ a.new[h].sec # "pass"
                redir == ~(same /\ a.new[h].ins = "redirect")
            IN  IF a.models[n] = None THEN a
                ELSE SaveOrNil(RemoveStoredForEvh(a, n, i, h, d, ~same, redir, Both), n)
    IN  FoldSet(Step, t, Stored(t))

-----------------------------------------------------------------------------
\* The Ingress is gone: everything stored for it goes.
RouteIngrDeletePoolsByHostname(t, i) ==
    LET Step(h, a) ==
            LET d == a.old[h]
                n == Old(i, h, d)
                f == Forget(a, i, h)
            IN  IF a.models[n] = None THEN f
                ELSE SaveOrNil(RemoveStored(f, n, i, h, d, TRUE, TRUE, {"allow"}), n)
    IN  FoldSet(Step, t, Stored(t))

RouteIngrDeletePoolsByHostnameForEvh(t, i) ==
    LET Step(h, a) ==
            LET d == a.old[h]
                n == Old(i, h, d)
                f == Forget(a, i, h)
            IN  IF a.models[n] = None THEN f
                ELSE SaveOrNil(RemoveStoredForEvh(f, n, i, h, d, TRUE, TRUE, {"allow"}), n)
    IN  FoldSet(Step, t, Stored(t))

\* What a turn is about, for the properties: a host changes from insecure to
\* secure (or back) and loses paths in the same update; a host leaves a
\* dedicated virtual service; an Ingress without an AviInfraSetting gets one
\* that cannot be used.
Signs(i) ==
    LET spec == ing[i]
        Loses(h) == stored[i][h] # None /\ ing[i] # None /\ h \in DOMAIN spec.rules
                    /\ GetDiffPathSvc(stored[i][h].ps, spec.rules[h], TRUE) # {}
    IN  {"upgrade" : h \in {x \in Hosts : Loses(x) /\ x \in Secure(spec)
                                            /\ stored[i][x].ins = "allow"}}
        \cup {"downgrade" : h \in {x \in Hosts : Loses(x) /\ x \in Insecure(spec)
                                            /\ stored[i][x].sec = "edge"}}
        \cup {"undedicate" : h \in {x \in Hosts : stored[i][x] # None /\ infra[i] = "ded"
                                        /\ ing[i] # None
                                        /\ (getL7IngressInfraSetting(i) = "ded" => x \notin DOMAIN spec.rules)}}
        \cup {"unpass" : h \in {x \in Hosts : stored[i][x] # None /\ stored[i][x].sec = "pass"
                                        /\ ing[i] # None /\ x \in Insecure(spec)}}
        \cup {"refused" : h \in {x \in Hosts : stored[i][x] # None /\ infra[i] = ""
                                        /\ GetK8sIngressModel(i) = "error"}}

Begin(i) ==
    [models |-> models, sum |-> models, pub |-> pub, hostmap |-> hostmap,
     old |-> stored[i], new |-> NoHosts]

\* What the turn makes of the stores, by what GetK8sIngressModel has found.
TurnForEvh(t, i, got) ==
    IF got = "ok"
    THEN DeleteStaleDataForEvh(ProcessPassthroughHosts(ProcessSecureHostsForEVH(
            ProcessInsecureHostsForEVH(t, i), i), i), i)
    ELSE IF got = "notfound" THEN RouteIngrDeletePoolsByHostnameForEvh(t, i) ELSE t

Turn(t, i, got) ==
    IF got = "ok"
    THEN DeleteStaleData(ProcessPassthroughHosts(ProcessSecureHosts(
            ProcessInsecureHosts(t, i), i), i), i)
    ELSE IF got = "notfound" THEN RouteIngrDeletePoolsByHostname(t, i) ELSE t

Finish(i, t, got) ==
    /\ models' = t.models /\ pub' = t.pub /\ hostmap' = t.hostmap
    /\ IF got = "error" THEN UNCHANGED <<stored, hostpath>>
       ELSE /\ stored' = [stored EXCEPT ![i] = t.new]
            /\ hostpath' = updateHostPathCache(hostpath, i, t.old, t.new)

HostNameShardAndPublish(i) ==
    /\ i \in queue
    /\ queue' = queue \ {i}
    /\ \E got \in {GetK8sIngressModel(i)} :
        Finish(i, IF mode = "evh"
                  THEN TurnForEvh(DeleteStaleDataForModelChangeForEvh(Begin(i), i), i, got)
                  ELSE Turn(DeleteStaleDataForModelChange(Begin(i), i), i, got), got)
    /\ infra' = [infra EXCEPT ![i] = getL7IngressInfraSetting(i)]
    /\ happened' = happened \cup Signs(i)
    /\ UNCHANGED <<mode, strict, ing, secret, accepted, avi, left>>

\* The REST layer brings the controller to the model (module RestObjects).
Sync(n) ==
    /\ n \in pub
    /\ pub' = pub \ {n}
    /\ avi' = [avi EXCEPT ![n] = models[n]]
    /\ UNCHANGED <<mode, strict, ing, secret, accepted, queue, stored, infra, hostmap,
                   hostpath, models, left, happened>>

-----------------------------------------------------------------------------
(***************************************************************************)
(* The environment.  The Ingresses that a Secret or an AviInfraSetting     *)
(* concerns are queued through the relations of module IngressRelations.   *)
(***************************************************************************)
Change(c, keys) ==
    /\ c \in Changes
    /\ left > 0
    /\ left' = left - 1
    /\ queue' = queue \cup keys
    /\ UNCHANGED <<mode, strict, stored, infra, hostmap, hostpath, models, pub, avi>>

Put(i, spec) ==
    /\ ing[i] # spec
    /\ ing' = [ing EXCEPT ![i] = spec]
    /\ Change("put", {i})
    /\ happened' = happened \cup
        {"common" : j \in {x \in Ingresses \ {i} : \E h \in DOMAIN spec.rules :
                                \/ stored[x][h] # None
                                \/ ing[x] # None /\ h \in DOMAIN ing[x].rules}}
    /\ UNCHANGED <<secret, accepted>>

Delete(i) ==
    /\ ing[i] # None
    /\ ing' = [ing EXCEPT ![i] = None]
    /\ Change("delete", {i})
    /\ UNCHANGED <<secret, accepted, happened>>

SecretChange(i) ==
    /\ secret' = IF i \in secret THEN secret \ {i} ELSE secret \cup {i}
    /\ Change("secret", IF ing[i] # None /\ Secure(ing[i]) # {} THEN {i} ELSE {})
    /\ happened' = happened \cup {"secret"}
    /\ UNCHANGED <<ing, accepted>>

SettingChange(x) ==
    /\ accepted' = IF x \in accepted THEN accepted \ {x} ELSE accepted \cup {x}
    /\ Change("setting", {i \in Ingresses : ing[i] # None /\ ing[i].set = x})
    /\ UNCHANGED <<ing, secret, happened>>

AllPaths == UNION {UNION {PathsOf(spec.rules[h]) : h \in DOMAIN spec.rules} : spec \in Specs}

Init ==
    /\ mode \in Modes
    /\ strict \in Policies
    /\ ing = [i \in Ingresses |-> None]
    /\ secret = Ingresses
    /\ accepted = Settings
    /\ queue = {}
    /\ stored = [i \in Ingresses |-> NoHosts]
    /\ infra = [i \in Ingresses |-> ""]
    /\ hostmap = [h \in Hosts |-> {}]
    /\ hostpath = [h \in Hosts |-> [p \in AllPaths |-> {}]]
    /\ models = [n \in Names |-> None]
    /\ pub = {}
    /\ avi = [n \in Names |-> None]
    /\ left = MaxChanges
    /\ happened = {}

Next ==
    \/ \E i \in Ingresses :
        \/ HostNameShardAndPublish(i)
        \/ \E spec \in Specs : Put(i, spec)
        \/ Delete(i)
        \/ SecretChange(i)
    \/ \E n \in Names : Sync(n)
    \/ \E x \in Settings : SettingChange(x)

Spec == Init /\ [][Next]_vars

-----------------------------------------------------------------------------
(***************************************************************************)
(* The properties.  What `happened' names are the updates that the code is *)
(* known not to follow up: a host with Ingresses of different kinds        *)
(* ("common"), and the signs of a turn defined above.                      *)
(***************************************************************************)
NoneOf(kinds) == happened \cap kinds = {}
Settled == queue = {}

\* The stores hold what their readers expect: names of known virtual
\* services, and children with pools, pool groups and rules.

TypeOK ==
    /\ queue \subseteq Ingresses
    /\ \A i \in Ingresses : infra[i] \in Settings \cup {""}
    /\ \A h \in Hosts : hostmap[h] \subseteq Ingresses
    /\ pub \subseteq Names
    /\ \A n \in Names : models[n] # None =>
        /\ models[n].fqdns \subseteq Hosts
        /\ \A h \in Hosts : models[n].kids[h] # None =>
            DOMAIN models[n].kids[h] = {"pools", "pgs", "http"}

\* The Ingresses whose host h belongs to virtual service n, and those of them
\* that can be served: a TLS host needs its Secret.
Usable(i) == ing[i] # None /\ (ing[i].set = "" \/ ing[i].set \in accepted)
Of(n, h) ==
    {i \in Ingresses :
        /\ Usable(i)
        /\ h \in DOMAIN ing[i].rules
        /\ n = IF ing[i].pass THEN GetPassthroughShardVSName(ing[i].set, h)
               ELSE GetShardVSName(ing[i].set, h)}
On(n, h) == {i \in Of(n, h) : h \in Secure(ing[i]) => i \in secret}
AsChild(i, h) == mode = "evh" \/ ing[i].set = "ded" \/ h \in Secure(ing[i])

\* Once the worker has nothing to do, every path of every Ingress that can be
\* served has its pool, pool group and rule in the graph of its virtual
\* service, and the host has its FQDN, certificate and redirect: taking away
\* what an update drops (DeleteStaleData and its kin) takes nothing else.
Built ==
    Settled /\ ~({"common", "secret"} \subseteq happened) =>
      \A n \in Names, h \in Hosts : \A i \in On(n, h) :
        LET g == models[n]
            ps == ing[i].rules[h]
        IN  /\ g # None
            /\ n[1] # "pass" /\ AsChild(i, h) =>
                /\ g.kids[h] # None
                /\ PoolNodes(i, ps) \subseteq g.kids[h].pools \cap g.kids[h].pgs
                /\ Rules(i, ps) \subseteq g.kids[h].http
            /\ n[1] # "pass" /\ ~AsChild(i, h) =>
                {[ing |-> i, host |-> h, path |-> q[1], svc |-> q[2]] : q \in ps}
                    \subseteq g.pools \cap g.members
            /\ NoneOf({"common"}) =>
                /\ h \in g.fqdns
                /\ h \in Secure(ing[i]) => h \in g.certs /\ h \in g.redirect
                /\ ing[i].pass => g.pass[h] # None /\ h \in g.child

\* Once the worker has nothing to do, a graph holds no child, pool, pool
\* group, rule, FQDN, certificate or redirect that no Ingress asks for: what
\* the turns store is enough to find all that an update or a deletion drops.
NothingStale ==
    /\ Settled
    /\ NoneOf({"refused", "unpass", "upgrade", "downgrade"})
    /\ ~({"common", "secret"} \subseteq happened)
    => \A n \in Names, h \in Hosts : models[n] # None =>
        LET g == models[n]
            Kids(ings) == {i \in ings : n[1] # "pass" /\ AsChild(i, h)}
            pools == UNION {PoolNodes(i, ing[i].rules[h]) : i \in Kids(Of(n, h))}
        IN  /\ NoneOf({"common"}) /\ Kids(On(n, h)) = {} => g.kids[h] \in {None, EmptyNode}
            /\ g.kids[h] # None => /\ g.kids[h].pools \subseteq pools
                                   /\ g.kids[h].pgs \subseteq pools
                                   /\ g.kids[h].http \subseteq {RuleOf(p) : p \in pools}
            /\ ~Dedicated(n) => g.kids[h] # EmptyNode
            /\ \A p \in g.pools \cup g.members : p.host = h =>
                \E i \in On(n, h) : p.ing = i /\ <<p.path, p.svc>> \in ing[i].rules[h]
            /\ NoneOf({"common"}) /\ On(n, h) = {} => h \notin g.fqdns \cup g.redirect \cup g.certs \cup g.child
                                /\ g.pass[h] = None
            /\ NoneOf({"common"}) /\ (\A i \in On(n, h) : h \notin Secure(ing[i])) => h \notin g.redirect \cup g.certs
            /\ Dedicated(n) /\ n[3] = h /\ NoneOf({"undedicate"}) => Of(n, h) # {}

\* saveAviModel compares a graph that was changed in place: no change is
\* missed, so once the REST layer is through, the controller has the graphs.
Published == Settled /\ pub = {} => avi = models
=============================================================================
