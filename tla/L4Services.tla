----------------------------- MODULE L4Services -----------------------------
(***************************************************************************)
(* Services of type LoadBalancer: from the informers' events to the layer  *)
(* 4 virtual services.  A Service has a virtual service of its own, or it  *)
(* shares one with the Services whose `enable-shared-vip' annotation names *)
(* the same key.  The same Services may be backends of Ingresses, and the  *)
(* servers of their pools are endpoints, nodes (NodePort) or NodePortLocal *)
(* annotations of pods (`mode').                                           *)
(*                                                                         *)
(* One worker turns keys into models (DequeueIngestion).  Its stores are   *)
(* the fields of `st':                                                     *)
(*   lb, vips, vipOf   lbLister: the Services with a virtual service, the  *)
(*                     Services of a shared key in order, and the key of a *)
(*                     Service                                             *)
(*   cip               SharedClusterIpLister                               *)
(*   tenantOf          SharedNamespaceTenantLister                         *)
(*   npl, podLb, podSvc, nodes   the pod and node stores                   *)
(*   models, pub       the model store and the keys for the REST layer     *)
(*   l7                the servers of the Ingress pool of a Service        *)
(*   ask               Services that the status layer is to annotate       *)
(* `svc', `pods', `nodes' and the namespace (`label', whether the filter   *)
(* selects it, and `tenant') are what the listers show; `accepted' is its  *)
(* place in the list of accepted namespaces.  A key waits in `queue' for   *)
(* any time: every item has a rate limiter of its own.                     *)
(***************************************************************************)
EXTENDS Naturals, Sequences, FiniteSets, SequencesExt

CONSTANTS Services, VipKeys,
          Pods, ServiceOf,      \* the pods, and the Service that selects each
          Nodes, NodeOf,        \* the nodes, and the node of each pod
          Specs,                \* the Service specs that users write
          Referenced,           \* the Services that an Ingress refers to
          Modes, Tenants, Default,
          None, Nil,            \* no entry, and an entry with a nil model
          Changes, MaxChanges

VARIABLES mode, migration, svc, annotated, pods, nodes, label, accepted, tenant, cfg,
          queue, st, avi, left, happened

vars == <<mode, migration, svc, annotated, pods, nodes, label, accepted, tenant, cfg,
          queue, st, avi, left, happened>>

ModelNames == (Tenants \X Services) \cup ({Default} \X VipKeys)

-----------------------------------------------------------------------------
(***************************************************************************)
(* The servers of a pool.                                                  *)
(***************************************************************************)
Selected(s) == {p \in pods : ServiceOf[p] = s}

GetPodsFromService(s) == IF svc[s] = None THEN {} ELSE Selected(s)

PopulateServersForNPL(t, s, ingress) ==
    IF ingress /\ s \notin t.cip THEN {} ELSE GetPodsFromService(s) \cap t.npl

checkIfEndpointSliceExistsForNode(s, n) == \E p \in Selected(s) : NodeOf[p] = n

PopulateServersForNodePort(t, s) ==
    IF svc[s] = None \/ ~svc[s].lb THEN {}
    ELSE {n \in t.nodes : svc[s].local => checkIfEndpointSliceExistsForNode(s, n)}

PopulateServers(t, s, ingress) ==
    IF svc[s] = None \/ (ingress /\ s \notin t.cip) THEN {} ELSE Selected(s)

Servers(t, s, ingress) ==
    CASE mode = "npl" -> PopulateServersForNPL(t, s, ingress)
      [] mode = "nodeport" -> PopulateServersForNodePort(t, s)
      [] mode = "clusterip" -> PopulateServers(t, s, ingress)

-----------------------------------------------------------------------------
(***************************************************************************)
(* The stores.                                                             *)
(***************************************************************************)
UpdateSharedVipKeyServiceMappings(t, k, s) ==
    [t EXCEPT !.vipOf[s] = k,
              !.vips[k] = IF Contains(@, s) THEN @ ELSE Append(@, s)]

\* Mutant: the Service stays in the list of its key.
RemoveKeyOnly(t, s) == [t EXCEPT !.vipOf[s] = None]

RemoveSharedVipKeyServiceMappings(t, s) ==
    IF t.vipOf[s] = None THEN t
    ELSE [t EXCEPT !.vipOf[s] = None,
                   !.vips[t.vipOf[s]] = SelectSeq(@, LAMBDA x : x # s)]

SharedlbListerSave(t, s) == [t EXCEPT !.lb = @ \cup {s}]
SharedlbListerDelete(t, s) == [t EXCEPT !.lb = @ \ {s}]

GetTenantInNamespace(t, s) == IF t.tenantOf[s] = None THEN Default ELSE t.tenantOf[s]

PublishKeyToRestLayer(t, m) == [t EXCEPT !.pub = @ \cup {m}]

SaveNil(t, m) == PublishKeyToRestLayer([t EXCEPT !.models[m] = Nil], m)

\* A model with the checksum of the stored one is neither stored nor
\* published.
saveAviModel(t, m, g) ==
    IF t.models[m] = g THEN t
    ELSE PublishKeyToRestLayer([t EXCEPT !.models[m] = g], m)

NoStaleTenant(t, s) == t

\* The model of a Service in the tenant that its namespace had before.
DeleteStaleTenantModelData(t, s) ==
    LET old == GetTenantInNamespace(t, s)
    IN  IF old = tenant \/ t.models[<<old, s>>] = None THEN t
        ELSE SaveNil(t, <<old, s>>)

\* The status layer annotates a Service so that the NodePortLocal agent
\* serves its pods; the update event resumes the work.
AskForAnnotation(t, s) == [t EXCEPT !.ask = @ \cup {s}]
CheckNPLSvcAnnotation(s) == svc[s] # None /\ svc[s].npl
AutoAnnotateNPLSvc == mode = "npl"

-----------------------------------------------------------------------------
(***************************************************************************)
(* Models.  A Service names an L4Rule or an AviInfraSetting (`cfg'); the   *)
(* shared virtual service follows the first Service of its key.            *)
(***************************************************************************)
getL4Rule(x) == IF x.cfg = "rule" THEN cfg["rule"] ELSE 0
getL4InfraSetting(x) == IF x.cfg = "infra" THEN cfg["infra"] ELSE 0

Graph(first, pools) ==
    [ip |-> svc[first].ip,
     rule |-> getL4Rule(svc[first]),
     infra |-> getL4InfraSetting(svc[first]),
     pools |-> pools]

ConstructAviL4PolPoolNodes(t, s) == [x \in {s} |-> Servers(t, x, FALSE)]

ConstructSharedVipPolPoolNodes(t, k) ==
    [s \in ToSet(t.vips[k]) |-> Servers(t, s, FALSE)]

ConstructAviL4VsNode(t, s) ==
    [DeleteStaleTenantModelData(t, s) EXCEPT !.tenantOf[s] = tenant]

BuildL4LBGraph(t, s) ==
    LET n == ConstructAviL4VsNode(t, s)
    IN  saveAviModel(n, <<tenant, s>>, Graph(s, ConstructAviL4PolPoolNodes(n, s)))

ConstructSharedVipSvcLBNode(t, k) ==
    IF t.vips[k] = <<>> \/ \E s \in ToSet(t.vips[k]) : svc[s] = None THEN None
    ELSE Graph(t.vips[k][1], ConstructSharedVipPolPoolNodes(t, k))

-----------------------------------------------------------------------------
(***************************************************************************)
(* From a Service to its Ingresses.                                        *)
(***************************************************************************)
SvcToIng(t, s) ==
    CASE svc[s] = None ->
            [t |-> t, found |-> TRUE, ingresses |-> {s} \cap Referenced]
      [] svc[s] # None /\ s \notin Referenced ->
            [t |-> t, found |-> FALSE, ingresses |-> {}]
      [] svc[s] # None /\ s \in Referenced ->
            IF AutoAnnotateNPLSvc /\ ~CheckNPLSvcAnnotation(s)
            THEN [t |-> AskForAnnotation(t, s), found |-> FALSE, ingresses |-> {}]
            ELSE [t |-> t, found |-> TRUE, ingresses |-> {s}]

\* HostNameShardAndPublish of the Ingresses of a Service (module L7Models),
\* reduced to the servers of the pool for that Service.
handleIngress(t, ingresses) ==
    [t EXCEPT !.l7 = [s \in Services |->
        IF s \in ingresses THEN Servers(t, s, TRUE) ELSE @[s]]]

KeepClusterIp(t, s) == t

\* A Service that is served at layer 4 is no backend of an Ingress.
LeaveIngresses(t, s) ==
    IF s \notin t.cip THEN t
    ELSE LET u == SvcToIng([t EXCEPT !.cip = @ \ {s}], s)
         IN  handleIngress(u.t, u.ingresses)

-----------------------------------------------------------------------------
(***************************************************************************)
(* The turns of the worker.                                                *)
(***************************************************************************)
isServiceDelete(s) == svc[s] = None \/ svc[s].vip # None

handleL4Service(t, s) ==
    IF ~isServiceDelete(s) /\ accepted
    THEN IF AutoAnnotateNPLSvc /\ ~CheckNPLSvcAnnotation(s) THEN AskForAnnotation(t, s)
         ELSE IF svc[s].lb /\ ~svc[s].ours THEN t
         ELSE LeaveIngresses(SharedlbListerSave(BuildL4LBGraph(t, s), s), s)
    ELSE [SaveNil(t, <<GetTenantInNamespace(t, s), s>>) EXCEPT !.tenantOf[s] = None]

\* The Services of a key cannot share a virtual service: one is gone or not
\* AKO's, or disagrees with the first about the address or the settings.
Conflict(members) ==
    \/ members = <<>>
    \/ \E i \in DOMAIN members :
        LET x == svc[members[i]]
            first == svc[members[1]]
        IN  \/ x = None \/ first = None
            \/ ~x.ours
            \/ x.ip # 0 /\ x.ip # first.ip
            \/ x.cfg # first.cfg

\* s is the Service that the worker's key names, None for the key of an L4Rule.
handleL4SharedVipService(t, k, s) ==
    IF Conflict(t.vips[k])
    THEN IF t.models[<<Default, k>>] = None THEN t ELSE SaveNil(t, <<Default, k>>)
    ELSE IF AutoAnnotateNPLSvc /\ s # None /\ svc[s] # None /\ ~CheckNPLSvcAnnotation(s)
    THEN AskForAnnotation(t, s)
    ELSE LeaveIngresses(saveAviModel(t, <<Default, k>>, ConstructSharedVipSvcLBNode(t, k)), s)

NewKeyOnly(t, s) ==
    LET old == t.vipOf[s]
        key == IF svc[s] = None THEN None ELSE svc[s].vip
        removed == RemoveSharedVipKeyServiceMappings(t, s)
    IN  [keys |-> {key} \ {None},
         t |-> IF key = None THEN removed
               ELSE UpdateSharedVipKeyServiceMappings(removed, key, s)]

\* The keys that a Service concerns: the one it had and the one it has.  The
\* Service goes to the end of its key's list.
ServiceChanges(t, s) ==
    LET old == t.vipOf[s]
        key == IF svc[s] = None THEN None ELSE svc[s].vip
        removed == RemoveSharedVipKeyServiceMappings(t, s)
    IN  [keys |-> {old, key} \ {None},
         t |-> IF key = None THEN removed
               ELSE UpdateSharedVipKeyServiceMappings(removed, key, s)]

handleSharedVipKeys(t, keys, s) ==
    LET Step(acc, k) == IF k \in keys THEN handleL4SharedVipService(acc, k, s) ELSE acc
    IN  FoldLeft(Step, t, SetToSeq(VipKeys))

DequeueSharedVip(t, s) ==
    LET c == ServiceChanges(t, s)
    IN  IF accepted THEN handleSharedVipKeys(c.t, c.keys, s) ELSE c.t

\* The Service is not of type LoadBalancer (any more): its virtual service,
\* or its part of a shared one, goes.
ForgetL4Service(t, s) ==
    LET a == IF s \notin t.lb THEN t
             ELSE SaveNil(SharedlbListerDelete(t, s), <<GetTenantInNamespace(t, s), s>>)
        b == IF a.vipOf[s] = None THEN a
             ELSE handleL4SharedVipService(RemoveSharedVipKeyServiceMappings(a, s),
                                           a.vipOf[s], s)
    IN  [b EXCEPT !.cip = @ \cup {s}]

DequeueService(t, s) ==
    LET u == SvcToIng(t, s)
        v == ForgetL4Service(u.t, s)
    IN  IF u.found THEN handleIngress(v, u.ingresses) ELSE v

\* An endpoint event builds the model without the checks of the Service's
\* own turn; a Service with an Ingress has its Ingresses served instead.
DequeueEndpointSlices(t, s) ==
    LET u == SvcToIng(t, s)
        x == svc[s]
    IN  IF u.found THEN handleIngress(u.t, u.ingresses)
        ELSE IF ~x.lb \/ ~accepted \/ ~x.ours THEN u.t
        ELSE IF x.vip = None THEN BuildL4LBGraph(u.t, s)
        ELSE LET g == ConstructSharedVipSvcLBNode(u.t, x.vip)
             IN  IF g = None THEN u.t ELSE saveAviModel(u.t, <<Default, x.vip>>, g)

handleLBSvcUpdateForPod(t, lbSvcs) ==
    LET One(acc, s) ==
            LET c == ServiceChanges(acc, s)
            IN  IF c.keys # {} THEN handleSharedVipKeys(c.t, c.keys, s)
                ELSE handleL4Service(c.t, s)
        Step(acc, s) == IF s \in lbSvcs THEN One(acc, s) ELSE acc
    IN  FoldLeft(Step, t, SetToSeq(Services))

GetServicesForPod(p) == {s \in {ServiceOf[p]} : svc[s] # None}

PodDeleted(t, p) ==
    LET u == [t EXCEPT !.npl = @ \ {p}]
        v == IF accepted THEN handleLBSvcUpdateForPod(u, t.podLb[p]) ELSE u
    IN  [v EXCEPT !.podLb[p] = {}]

handlePod(t, p) ==
    LET services == GetServicesForPod(p)
        lbSvcs == {s \in services : svc[s].lb}
        u == [t EXCEPT !.npl = @ \cup {p}]
        v == [u EXCEPT !.podSvc[p] = IF services = {} THEN @ ELSE services,
                       !.podLb[p] = IF lbSvcs = {} THEN @ ELSE lbSvcs]
    IN  IF p \notin pods THEN PodDeleted(t, p)
        ELSE IF accepted THEN handleLBSvcUpdateForPod(v, lbSvcs) ELSE u

PodToIng(t, p) ==
    LET Step(acc, s) ==
            IF s \notin t.podSvc[p] THEN acc
            ELSE LET u == SvcToIng(acc.t, s)
                 IN  [t |-> u.t, ingresses |-> acc.ingresses \cup u.ingresses]
    IN  FoldLeft(Step, [t |-> t, ingresses |-> {}], SetToSeq(Services))

DequeuePod(t, p) ==
    LET u == PodToIng(handlePod(t, p), p) IN handleIngress(u.t, u.ingresses)

ForEach(t, ss) ==
    LET Step(acc, s) == IF s \in ss THEN handleL4Service(acc, s) ELSE acc
    IN  FoldLeft(Step, t, SetToSeq(Services))

NodePortServicesOnly == {s \in Services : svc[s] # None /\ ~svc[s].lb /\ accepted}

\* The LoadBalancer Services of a node event (the static routes of the node
\* are not part of this module).
GetSvcKeysForNodeCRUD == {s \in Services : svc[s] # None /\ svc[s].lb /\ accepted}

DequeueNode(t, n) ==
    LET u == [t EXCEPT !.nodes = IF n \in nodes THEN @ \cup {n} ELSE @ \ {n}]
    IN  IF mode = "nodeport" THEN ForEach(u, GetSvcKeysForNodeCRUD) ELSE u

Naming(kind) == {s \in Services : svc[s] # None /\ svc[s].cfg = kind}
L4RuleToSvc == Naming("rule")
AviSettingToSvc == Naming("infra")

DequeueL4Rule(t) ==
    LET One(acc, s) ==
            LET c == ServiceChanges(acc, s)
            IN  IF svc[s].vip = None THEN handleL4Service(acc, s)
                ELSE handleSharedVipKeys(c.t, c.keys, None)
        Step(acc, s) == IF s \in L4RuleToSvc THEN One(acc, s) ELSE acc
    IN  IF accepted THEN FoldLeft(Step, t, SetToSeq(Services)) ELSE t

\* An AviInfraSetting has no namespace, so with a namespace filter its
\* Services are never looked at.
DequeueAviInfraSetting(t) == IF migration THEN t ELSE ForEach(t, AviSettingToSvc)

Turn(t, key) ==
    CASE key[1] = "Service" -> DequeueService(t, key[2])
      [] key[1] = "L4LBService" -> handleL4Service(t, key[2])
      [] key[1] = "SharedVipService" -> DequeueSharedVip(t, key[2])
      [] key[1] = "Endpointslices" -> DequeueEndpointSlices(t, key[2])
      [] key[1] = "Pod" -> DequeuePod(t, key[2])
      [] key[1] = "Node" -> DequeueNode(t, key[2])
      [] key[1] = "L4Rule" -> DequeueL4Rule(t)
      [] key[1] = "AviInfraSetting" -> DequeueAviInfraSetting(t)

\* What a turn is about, for the properties:
\*   backend    a LoadBalancer Service with an Ingress gets or loses endpoints,
\*              or a pod that was handled before there was such a Service
\*   early      a pod's turn comes before the turn of its Service, which has
\*              left its key
\*   leaver     a Service without its annotation leaves its key, so that the
\*              turn asks for the annotation and ends
\*   unchecked  endpoints change for Services that cannot share
\*   node       a node comes or goes when there are shared virtual services
Signs(key) ==
    LET of == IF key[1] = "Pod" THEN {ServiceOf[key[2]]}
              ELSE IF Len(key) = 2 /\ key[2] \in Services THEN {key[2]} ELSE {}
        is == {s \in of : svc[s] # None}
        lbs == {s \in is : svc[s].lb}
        gone == {s \in of : st.vipOf[s] # None
                             /\ (svc[s] = None \/ ~svc[s].lb \/ svc[s].vip # st.vipOf[s])}
        Tag(name, holds) == IF holds THEN {name} ELSE {}
    IN  CASE key[1] = "Endpointslices" ->
                Tag("backend", mode # "npl" /\ lbs \cap Referenced # {})
                \cup Tag("unchecked", \E s \in lbs : svc[s].vip # None /\ Conflict(st.vips[svc[s].vip]))
          [] key[1] = "Pod" ->
                Tag("backend", key[2] \notin pods /\ (lbs \cap Referenced) \ st.podLb[key[2]] # {})
                \cup Tag("early", gone # {})
          [] key[1] \in {"Service", "SharedVipService"} ->
                Tag("leaver", AutoAnnotateNPLSvc
                                /\ \E s \in gone \cap is : ~CheckNPLSvcAnnotation(s))
          [] key[1] = "Node" -> Tag("node", \E s \in Services : st.vipOf[s] # None)
          [] OTHER -> {}

DequeueIngestion(key) ==
    /\ key \in queue
    /\ queue' = queue \ {key}
    /\ st' = Turn(st, key)
    /\ happened' = happened \cup Signs(key)
    /\ UNCHANGED <<mode, migration, svc, annotated, pods, nodes, label, accepted, tenant, cfg,
                   avi, left>>

\* The REST layer brings the controller to the model (module RestObjects).
Sync(m) ==
    /\ m \in st.pub
    /\ st' = [st EXCEPT !.pub = @ \ {m}]
    /\ avi' = [avi EXCEPT ![m] = IF st.models[m] = Nil THEN None ELSE st.models[m]]
    /\ UNCHANGED <<mode, migration, svc, annotated, pods, nodes, label, accepted, tenant, cfg,
                   queue, left, happened>>

-----------------------------------------------------------------------------
(***************************************************************************)
(* The informers' handlers: the keys that an event puts into the queue.    *)
(***************************************************************************)
isServiceLBType(x) == x.lb

SvcKeyOf(s, x) ==
    CASE isServiceLBType(x) /\ x.vip # None -> {<<"SharedVipService", s>>}
      [] isServiceLBType(x) /\ x.vip = None /\ x.ours -> {<<"L4LBService", s>>}
      [] isServiceLBType(x) /\ x.vip = None /\ ~x.ours -> {}
      [] ~isServiceLBType(x) -> {<<"Service", s>>}

AddSvcKeys(s, new) == IF accepted THEN SvcKeyOf(s, new) ELSE {}

DeleteSvcKeys(s, old) == IF accepted THEN SvcKeyOf(s, old) ELSE {}

UpdateSvcKeys(s, old, new) ==
    IF ~accepted \/ SvcKeyOf(s, new) = {} THEN {}
    ELSE SvcKeyOf(s, new) \cup
         (IF ~isServiceLBType(new) \/ old.vip = new.vip THEN {}
          ELSE {<<IF old.vip # None THEN "SharedVipService" ELSE "L4LBService", s>>})

AddServicesFromNSToIngestionQueue ==
    UNION {SvcKeyOf(s, svc[s]) : s \in {x \in Services : svc[x] # None}}

-----------------------------------------------------------------------------
(***************************************************************************)
(* The environment.                                                        *)
(***************************************************************************)
Change(c, keys) ==
    /\ c \in Changes
    /\ left > 0
    /\ left' = left - 1
    /\ queue' = queue \cup keys
    /\ UNCHANGED <<mode, migration, st, avi>>

\* The type or the sharing of a Service changes again before its last change
\* was worked on: the two keys are handled in any order, and a key that is
\* still queued is not queued again behind the other.
Rapid(s, keys) ==
    {"rapid" : k \in {x \in queue : /\ x[1] \in {"Service", "L4LBService", "SharedVipService"}
                                   /\ x[2] = s /\ keys # {x}}}

\* The handler drops the event of a Service that AKO may have served: the
\* Service has another class now, or its namespace is not accepted.
Ignored(old, keys) == IF old # None /\ keys = {} THEN {"ignored"} ELSE {}

\* A Service stops being a LoadBalancer whose virtual service an endpoint
\* event built before the Service's own turn listed it.
Unlisted(s, new) ==
    IF ~new.lb /\ s \notin st.lb /\ st.models[<<GetTenantInNamespace(st, s), s>>] \notin {None, Nil}
    THEN {"unlisted"} ELSE {}

\* The informer's copy of an update carries the annotation that the API
\* server has.
Put(s, spec) ==
    LET new == [lb |-> spec.lb, vip |-> spec.vip, ip |-> spec.ip, ours |-> spec.ours,
                local |-> spec.local, cfg |-> spec.cfg, npl |-> s \in annotated]
        old == svc[s]
        keys == IF old = None THEN AddSvcKeys(s, new) ELSE UpdateSvcKeys(s, old, new)
    IN  /\ old # new
        /\ svc' = [svc EXCEPT ![s] = new]
        /\ Change("put", keys)
        /\ happened' = happened \cup Rapid(s, keys) \cup Ignored(old, keys) \cup Unlisted(s, new)
        /\ UNCHANGED <<annotated, pods, nodes, label, accepted, tenant, cfg>>

Delete(s) ==
    /\ svc[s] # None
    /\ svc' = [svc EXCEPT ![s] = None]
    /\ annotated' = annotated \ {s}
    /\ Change("delete", DeleteSvcKeys(s, svc[s]))
    /\ happened' = happened \cup Rapid(s, DeleteSvcKeys(s, svc[s]))
                            \cup Ignored(svc[s], DeleteSvcKeys(s, svc[s]))
    /\ UNCHANGED <<pods, nodes, label, accepted, tenant, cfg>>

\* UpdateNPLAnnotation edits the lister's object before it patches: when the
\* patch fails and the Service has annotations, the lister says it is done.
UpdateNPLAnnotation(s, ok) ==
    LET x == svc[s]
        new == [x EXCEPT !.npl = TRUE]
        idle == x = None \/ CheckNPLSvcAnnotation(s)
    IN  /\ s \in st.ask
        /\ st' = [st EXCEPT !.ask = @ \ {s}]
        /\ IF idle THEN ok /\ UNCHANGED <<svc, annotated, queue>>
           ELSE IF ok
           THEN /\ svc' = [svc EXCEPT ![s] = new]
                /\ annotated' = annotated \cup {s}
                /\ queue' = queue \cup UpdateSvcKeys(s, x, new)
           ELSE /\ svc' = IF x.vip # None \/ x.cfg # "" THEN [svc EXCEPT ![s] = new] ELSE svc
                /\ UNCHANGED <<annotated, queue>>
        /\ IF ok THEN UNCHANGED <<left, happened>>
           ELSE /\ "error" \in Changes /\ left > 0 /\ left' = left - 1
                /\ happened' = happened \cup {"unannotated"}
        /\ UNCHANGED <<mode, migration, pods, nodes, label, accepted, tenant, cfg, avi>>

PodChange(p) ==
    /\ pods' = IF p \in pods THEN pods \ {p} ELSE pods \cup {p}
    /\ Change("pod", {<<"Endpointslices", ServiceOf[p]>>}
                     \cup (IF mode = "npl" THEN {<<"Pod", p>>} ELSE {}))
    /\ happened' = happened
    /\ UNCHANGED <<svc, annotated, nodes, label, accepted, tenant, cfg>>

NodeChange(n) ==
    /\ nodes' = IF n \in nodes THEN nodes \ {n} ELSE nodes \cup {n}
    /\ Change("node", {<<"Node", n>>})
    /\ happened' = happened
    /\ UNCHANGED <<svc, annotated, pods, label, accepted, tenant, cfg>>

\* The label or the tenant annotation of the namespace changes.  A change of the tenant
\* accepts the namespace, whatever its label.
UpdateNamespace(new, selected) ==
    /\ <<new, selected>> # <<tenant, label>> /\ (migration \/ selected)
    /\ tenant' = new /\ label' = selected
    /\ accepted' = (selected \/ new # tenant)
    /\ Change("namespace", AddServicesFromNSToIngestionQueue)
    /\ happened' = happened \cup (IF accepted' THEN {} ELSE {"rejected"})
                            \cup (IF accepted' /\ ~selected THEN {"admitted"} ELSE {})
    /\ UNCHANGED <<svc, annotated, pods, nodes, cfg>>

Configure(kind) ==
    /\ cfg' = [cfg EXCEPT ![kind] = 1 - @]
    /\ Change(kind, {<<IF kind = "rule" THEN "L4Rule" ELSE "AviInfraSetting">>})
    /\ happened' = happened
    /\ UNCHANGED <<svc, annotated, pods, nodes, label, accepted, tenant>>

Init ==
    /\ mode \in Modes
    /\ migration \in BOOLEAN
    /\ svc = [s \in Services |-> None]
    /\ annotated = {}
    /\ pods = {}
    /\ nodes = {}
    /\ label = TRUE
    /\ accepted = TRUE
    /\ tenant = Default
    /\ cfg = [rule |-> 0, infra |-> 0]
    /\ queue = {}
    /\ st = [lb |-> {}, vips |-> [k \in VipKeys |-> <<>>], vipOf |-> [s \in Services |-> None],
             cip |-> {}, tenantOf |-> [s \in Services |-> None], npl |-> {},
             podLb |-> [p \in Pods |-> {}], podSvc |-> [p \in Pods |-> {}], nodes |-> {},
             models |-> [m \in ModelNames |-> None], pub |-> {},
             l7 |-> [s \in Services |-> {}], ask |-> {}]
    /\ avi = [m \in ModelNames |-> None]
    /\ left = MaxChanges
    /\ happened = {}

Keys == ({"Service", "L4LBService", "SharedVipService", "Endpointslices"} \X Services)
        \cup ({"Pod"} \X Pods) \cup ({"Node"} \X Nodes) \cup {<<"L4Rule">>, <<"AviInfraSetting">>}

Next ==
    \/ \E key \in Keys : DequeueIngestion(key)
    \/ \E m \in ModelNames : Sync(m)
    \/ \E s \in Services :
        \/ \E spec \in Specs : Put(s, spec)
        \/ Delete(s)
        \/ UpdateNPLAnnotation(s, TRUE)
        \/ UpdateNPLAnnotation(s, FALSE)
    \/ \E p \in Pods : PodChange(p)
    \/ \E n \in Nodes : NodeChange(n)
    \/ \E n \in Tenants, selected \in BOOLEAN : UpdateNamespace(n, selected)
    \/ \E kind \in {"rule", "infra"} : Configure(kind)

Spec == Init /\ [][Next]_vars

-----------------------------------------------------------------------------
(***************************************************************************)
(* The properties.  `happened' names the events that the code is known not *)
(* to follow up; see Signs, Rapid, Ignored and Unlisted.                   *)
(***************************************************************************)
NoneOf(kinds) == happened \cap kinds = {}
AtRest == queue = {} /\ st.pub = {} /\ st.ask = {}

\* The stores agree with each other: a Service is in the list of its key and
\* in no other, and only known Services, pods and nodes are stored.
TypeOK ==
    /\ queue \subseteq Keys
    /\ st.lb \subseteq Services /\ st.cip \subseteq Services
    /\ st.npl \subseteq Pods /\ st.nodes \subseteq Nodes
    /\ \A k \in VipKeys, s \in Services : Contains(st.vips[k], s) <=> st.vipOf[s] = k
    /\ \A k \in VipKeys : IsInjective(st.vips[k])

Alone(s) == svc[s] # None /\ svc[s].lb /\ svc[s].vip = None
Sharing(k) == {s \in Services : svc[s] # None /\ svc[s].lb /\ svc[s].vip = k}

Now(s) ==
    CASE mode = "nodeport" -> {n \in nodes : svc[s].local => \E p \in Selected(s) : NodeOf[p] = n}
      [] mode # "nodeport" -> Selected(s)

\* Once all is quiet, a LoadBalancer Service of AKO's class has a virtual
\* service in the tenant of its namespace, with the address and the settings
\* that it asks for and the servers that there are: whatever the order in
\* which its own event and those of its endpoints, pods, nodes, settings and
\* namespace are worked on (handleL4Service, DequeueIngestion).
LbServed ==
    AtRest /\ accepted /\ NoneOf({"unannotated", "backend", "rapid", "early"}) => \A s \in Services : Alone(s) /\ svc[s].ours =>
        LET g == avi[<<tenant, s>>]
        IN  /\ g # None
            /\ g.ip = svc[s].ip
            /\ g.rule = getL4Rule(svc[s])
            /\ migration \/ g.infra = getL4InfraSetting(svc[s])
            /\ g.pools = [x \in {s} |-> Now(s)]

\* Once all is quiet, the Services of a key that agree share one virtual
\* service, with exactly one pool for each, also after Services moved from
\* key to key (ServiceChanges, handleL4SharedVipService).
VipServed ==
    AtRest /\ accepted /\ NoneOf({"unannotated", "backend", "rapid", "early", "node", "ignored", "leaver",
                               "rejected"}) => \A k \in VipKeys :
        LET ss == Sharing(k)
            g == avi[<<Default, k>>]
        IN  ss # {} /\ (\A s \in ss : svc[s].ours)
            /\ (\A s, r \in ss : svc[s].ip = svc[r].ip /\ svc[s].cfg = svc[r].cfg) =>
                /\ g # None
                /\ \A s \in ss : /\ g.ip = svc[s].ip
                                 /\ g.rule = getL4Rule(svc[s])
                /\ g.pools = [s \in ss |-> Now(s)]

\* Once all is quiet, there is no virtual service of a Service that is gone,
\* not AKO's, of another type or of another tenant, and no shared one whose
\* Services are gone or ask for different addresses.  Nor is there one in a namespace
\* that the filter does not select, unless a change of its tenant has brought it in.
NothingLeft ==
    AtRest /\ NoneOf({"rapid", "ignored", "unlisted"}) =>
        /\ \A s \in Services, n \in Tenants : avi[<<n, s>>] # None =>
            /\ Alone(s) /\ svc[s].ours /\ n = tenant
            /\ label \/ (accepted /\ ~NoneOf({"admitted"}))
        /\ \A k \in VipKeys : avi[<<Default, k>>] # None /\ NoneOf({"rejected", "unchecked"}) =>
            /\ Sharing(k) # {}
            /\ \A s \in Sharing(k) : svc[s].ours
            /\ \A s, r \in Sharing(k) : svc[s].ip = svc[r].ip \/ 0 \in {svc[s].ip, svc[r].ip}

\* A Service is a backend of its Ingresses exactly while it is not a
\* LoadBalancer that AKO serves (SharedClusterIpLister; the cases listed in
\* dequeue_ingestion.go:582-599).
IngressPools ==
    AtRest /\ accepted /\ mode # "nodeport" /\ NoneOf({"rapid", "ignored", "unannotated"}) => \A s \in Referenced :
        /\ svc[s] = None => st.l7[s] = {}
        /\ svc[s] # None /\ ~svc[s].lb => st.l7[s] = Now(s)
        /\ svc[s] # None /\ svc[s].lb /\ svc[s].ours
           /\ (svc[s].vip # None => avi[<<Default, svc[s].vip>>] # None) => st.l7[s] = {}
=============================================================================
