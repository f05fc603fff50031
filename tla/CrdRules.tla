------------------------------ MODULE CrdRules ------------------------------
(***************************************************************************)
(* The custom resources that tune what AKO builds from Ingresses and       *)
(* Services: HostRule (with the L7Rule it may name), HTTPRule, SSORule and *)
(* L4Rule (with the HealthMonitor it may name).  An informer handler       *)
(* validates an object and writes Accepted or Rejected into its status;    *)
(* the key then goes to the ingestion worker, which keeps the relations of *)
(* internal/objects/crdrules.go and rebuilds the virtual services          *)
(* concerned.  Validation reads relations that the worker writes later,    *)
(* status writes come back as events, and two handlers may validate the    *)
(* same L4Rule.                                                            *)
(*                                                                         *)
(* An object is [spec, st].  A spec names the fqdn it is for, another rule *)
(* it refers to (ref), whether its own fields are well formed (ok),        *)
(* whether it refers to an object of the Avi controller (uses), the paths  *)
(* of an HTTPRule and a content number v.  For a HealthMonitor, ok says    *)
(* that the CRD operator reports it ready.                                 *)
(***************************************************************************)
EXTENDS Naturals, Sequences, FiniteSets, SequencesExt

CONSTANTS
    Rules,          \* the objects
    KindOf,         \* the kind of each
    Specs,          \* what a user may put into each
    Worlds,         \* sets of objects that exist together in one instance
    Hosts,          \* host names that Ingresses serve
    Shard,          \* the fqdn of the shared parent virtual service
    Service,        \* a Service of type LoadBalancer
    Annotated,      \* the L4Rule the Service is annotated with
    Paths,          \* path prefixes
    None,
    Changes,        \* what the environment may do
    MaxChanges

VARIABLES
    world,      \* the objects of this instance
    api,        \* objects at the API server
    wire,       \* per kind, changes the watch has not brought yet
    view,       \* the informers' listers
    notes,      \* per kind, notifications the handler has not seen yet
    monitor,    \* the HealthMonitor handler's loop over L4Rules
    queue,      \* ingestion keys
    building,   \* virtual services the worker rebuilds in this turn
    lister,     \* SharedCRDLister
    node,       \* what the models carry
    avi,        \* the Avi object that specs refer to exists
    boot,       \* objects the full sync has still to go through
    left,       \* changes the environment may still make
    happened    \* the kinds of change so far

vars == <<world, api, wire, view, notes, monitor, queue, building, lister, node, avi,
          boot, left, happened>>

Kinds == {"L7Rule", "HostRule", "HTTPRule", "SSORule", "L4Rule", "HealthMonitor"}
Wildcard == "*"
Fqdns == Hosts \cup {Shard, Wildcard}
Of(k) == {r \in Rules : KindOf[r] = k}
Idle == [todo |-> {}, gone |-> None, hm |-> None]
Sync == "ingresses"

\* What one virtual service carries of each kind; 0 is no configuration.
Bare == [hr |-> None, v |-> 0, l7 |-> 0, sso |-> 0, l4 |-> 0,
         http |-> [p \in Paths |-> 0]]

EmptyLister ==
    [fqdnHr |-> [f \in Fqdns |-> None], hrFqdn |-> [r \in Rules |-> None],
     types |-> {},
     http |-> [f \in Fqdns |-> [p \in Paths |-> None]], httpFqdn |-> [r \in Rules |-> None],
     fqdnSso |-> [f \in Fqdns |-> None], ssoFqdn |-> [r \in Rules |-> None],
     l7Hr |-> [r \in Rules |-> {}], hmL4 |-> [r \in Rules |-> {}]]

-----------------------------------------------------------------------------
(***************************************************************************)
(* SharedCRDLister: each operation from lister to lister.                  *)
(***************************************************************************)
DeleteHostruleFQDNMapping(l, r) ==
    IF l.hrFqdn[r] = None THEN l
    ELSE [l EXCEPT !.hrFqdn[r] = None, !.fqdnHr[l.hrFqdn[r]] = None]

UpdateFQDNHostruleMapping(l, f, r) == [l EXCEPT !.fqdnHr[f] = r, !.hrFqdn[r] = f]

UpdateFQDNFQDNTypeMapping(l, f) == [l EXCEPT !.types = @ \cup {f}]

DeleteFQDNFQDNTypeMapping(l, f) == [l EXCEPT !.types = @ \ {f}]

\* A pattern whose type is not recorded counts as an exact name.
Covers(l, f, h) == f = h \/ (f = Wildcard /\ f \in l.types /\ h # Shard)

\* The mapped names that fit a host.  The code takes the first one it meets
\* in a Go map.
GetFQDNToHostruleMappingWithType(l, h) ==
    {f \in Fqdns : l.fqdnHr[f] # None /\ Covers(l, f, h)}

RemoveFqdnHTTPRulesMappings(l, r) ==
    LET f == l.httpFqdn[r] IN
    IF f = None THEN l
    ELSE [l EXCEPT !.httpFqdn[r] = None,
                   !.http[f] = [p \in Paths |-> IF @[p] = r THEN None ELSE @[p]]]

UpdateFqdnHTTPRulesMappings(l, f, ps, r) ==
    IF ps = {} THEN l
    ELSE [l EXCEPT !.httpFqdn[r] = f,
                   !.http[f] = [p \in Paths |-> IF p \in ps THEN r ELSE @[p]]]

DeleteSSORuleFQDNMapping(l, r) ==
    IF l.ssoFqdn[r] = None THEN l
    ELSE [l EXCEPT !.ssoFqdn[r] = None, !.fqdnSso[l.ssoFqdn[r]] = None]

UpdateFQDNSSORuleMapping(l, f, r) == [l EXCEPT !.fqdnSso[f] = r, !.ssoFqdn[r] = f]

UpdateL7RuleToHostRuleMapping(l, l7, r) == [l EXCEPT !.l7Hr[l7] = @ \cup {r}]

DeleteL7RuleToHostRuleMapping(l, l7, r) == [l EXCEPT !.l7Hr[l7] = @ \ {r}]

UpdateHealthMonitorToL4RuleMapping(l, hm, r) == [l EXCEPT !.hmL4[hm] = @ \cup {r}]

DeleteHealthMonitorToL4RuleMapping(l, hm, r) == [l EXCEPT !.hmL4[hm] = @ \ {r}]

-----------------------------------------------------------------------------
(***************************************************************************)
(* The leader's validators.  Each yields the verdict and the lister with   *)
(* the references it recorded on the way.                                  *)
(***************************************************************************)
checkRefsOnController(spec) == spec.uses => avi

Verdict(ok, l) == [ok |-> ok, lister |-> l]

ValidateHostRuleObj(r, spec) ==
    LET owner == lister.fqdnHr[spec.fqdn]
        named == IF spec.ref = None THEN lister
                 ELSE UpdateL7RuleToHostRuleMapping(lister, spec.ref, r)
    IN  IF (owner # None /\ owner # r) \/ ~spec.ok \/ ~checkRefsOnController(spec)
        THEN Verdict(FALSE, lister)
        ELSE Verdict(spec.ref # None => view[spec.ref] # None, named)

ValidateHTTPRuleObj(r, spec) == Verdict(spec.ok /\ checkRefsOnController(spec), lister)

ValidateSSORuleObj(r, spec) ==
    LET owner == lister.fqdnSso[spec.fqdn]
    IN  Verdict(owner \in {None, r} /\ spec.ok /\ checkRefsOnController(spec), lister)

\* The HealthMonitor is read from the API server, not from a lister.
validateHealthMonitorForL4Rule(hm) == api[hm] # None /\ api[hm].spec.ok

\* Mutant: a rule that is refused leaves no mapping to its HealthMonitor.
MapAcceptedOnly(r, spec) ==
    IF spec.ok /\ (spec.ref # None => validateHealthMonitorForL4Rule(spec.ref))
               /\ checkRefsOnController(spec)
    THEN Verdict(TRUE, IF spec.ref = None THEN lister
                       ELSE UpdateHealthMonitorToL4RuleMapping(lister, spec.ref, r))
    ELSE Verdict(FALSE, lister)

ValidateL4RuleObj(r, spec) ==
    IF ~spec.ok THEN Verdict(FALSE, lister)
    ELSE IF spec.ref = None THEN Verdict(checkRefsOnController(spec), lister)
    ELSE Verdict(validateHealthMonitorForL4Rule(spec.ref) /\ checkRefsOnController(spec),
                 UpdateHealthMonitorToL4RuleMapping(lister, spec.ref, r))

ValidateL7RuleObj(r, spec) == Verdict(checkRefsOnController(spec), lister)

Validated(r, obj) ==
    LET k == KindOf[r] IN
    CASE k = "HostRule" -> ValidateHostRuleObj(r, obj.spec)
      [] k = "HTTPRule" -> ValidateHTTPRuleObj(r, obj.spec)
      [] k = "SSORule" -> ValidateSSORuleObj(r, obj.spec)
      [] k = "L4Rule" -> ValidateL4RuleObj(r, obj.spec)
      [] k = "L7Rule" -> ValidateL7RuleObj(r, obj.spec)
\* What a handler does: the lister it leaves, the status it writes ("" is none)
\* and the keys it adds to the ingestion queue.
Effect(l, st, keys) == [lister |-> l, st |-> st, keys |-> keys]

\* An object that already says Accepted is not written again.
Judged(r, obj) ==
    LET verdict == Validated(r, obj) IN
    Effect(verdict.lister,
           IF ~verdict.ok THEN "Rejected"
           ELSE IF obj.st = "Accepted" THEN "" ELSE "Accepted",
           {r})

\* Every change at the API server is sent to the watchers.
Store(r, obj) ==
    /\ api' = [api EXCEPT ![r] = obj]
    /\ wire' = [wire EXCEPT ![KindOf[r]] = Append(@, [r |-> r, new |-> obj])]

\* The status is patched by name, into whatever version is there by then.
UpdateStatus(r, st) ==
    IF st = "" \/ api[r] = None \/ api[r].st = st THEN UNCHANGED <<api, wire>>
    ELSE Store(r, [api[r] EXCEPT !.st = st])

-----------------------------------------------------------------------------
(***************************************************************************)
(* The informer handlers.  A note is [r, old, new].                        *)
(***************************************************************************)
\* Mutant: only a changed content counts as an update, not a changed status.
isUpdatedContent(n) == n.old = None \/ n.new = None \/ n.old.spec # n.new.spec

isUpdated(n) == n.old # n.new

Nothing == Effect(lister, "", {})

\* A HostRule that names another L7Rule than before is taken off the old one.
HostRuleHandler(n) ==
    LET judged == Judged(n.r, n.new)
        left7 == IF n.old = None \/ n.old.spec.ref \in {None, n.new.spec.ref}
                 THEN judged.lister
                 ELSE DeleteL7RuleToHostRuleMapping(judged.lister, n.old.spec.ref, n.r)
    IN  IF n.new = None THEN Effect(lister, "", {n.r})
        ELSE IF isUpdated(n) THEN [judged EXCEPT !.lister = left7] ELSE Nothing

HTTPRuleHandler(n) ==
    IF n.new = None THEN Effect(lister, "", {n.r})
    ELSE IF isUpdated(n) THEN Judged(n.r, n.new) ELSE Nothing

\* Mutant: the handler of a deletion adds no key to the queue.
SSORuleHandlerNoKey(n) ==
    IF n.new # None /\ isUpdated(n) THEN Judged(n.r, n.new) ELSE Nothing

SSORuleHandler(n) ==
    IF n.new = None THEN Effect(lister, "", {n.r})
    ELSE IF isUpdated(n) THEN Judged(n.r, n.new) ELSE Nothing

cleanupHealthMonitorToL4RuleMappings(l, r, spec) ==
    IF spec.ref = None THEN l ELSE DeleteHealthMonitorToL4RuleMapping(l, spec.ref, r)

L4RuleHandler(n) ==
    IF n.new = None
    THEN Effect(cleanupHealthMonitorToL4RuleMappings(lister, n.r, n.old.spec), "", {n.r})
    ELSE IF isUpdated(n) THEN Judged(n.r, n.new) ELSE Nothing

\* An L7Rule has no turn of its own: the HostRules that name it get one, but
\* not when the L7Rule is refused.
L7RuleHandler(n) ==
    LET keys == {r \in lister.l7Hr[n.r] : view[r] # None}
        judged == Judged(n.r, n.new)
    IN  IF n.new = None THEN Effect(lister, "", keys)
        ELSE IF ~isUpdated(n) THEN Nothing
        ELSE [judged EXCEPT !.keys = IF judged.st = "Rejected" THEN {} ELSE keys]

Handled(k, n) ==
    CASE k = "HostRule" -> HostRuleHandler(n)
      [] k = "HTTPRule" -> HTTPRuleHandler(n)
      [] k = "SSORule" -> SSORuleHandler(n)
      [] k = "L4Rule" -> L4RuleHandler(n)
      [] k = "L7Rule" -> L7RuleHandler(n)

-----------------------------------------------------------------------------
(***************************************************************************)
(* Ingestion: how a key changes the relations, and which virtual services  *)
(* the worker rebuilds.                                                    *)
(***************************************************************************)
Turn(l, hosts) == [lister |-> l, hosts |-> hosts]

GetHostsFromHostPathStore(f) == IF f = Wildcard THEN Hosts ELSE Hosts \cap {f}

\* Names of shared parents are left to handleHostRuleForSharedVS.
HostRuleToIng(r) ==
    LET old == lister.hrFqdn[r]
        obj == view[r]
        shared == old = Shard
        off == IF shared THEN lister ELSE DeleteHostruleFQDNMapping(lister, r)
        on == IF obj.spec.fqdn = Shard THEN off
              ELSE UpdateFQDNFQDNTypeMapping(
                       UpdateFQDNHostruleMapping(off, obj.spec.fqdn, r), obj.spec.fqdn)
        before == IF old = None THEN {}
                  ELSE IF old = Wildcard /\ old \notin lister.types THEN {}
                  ELSE GetHostsFromHostPathStore(old)
    IN  IF obj = None
        THEN Turn(IF shared \/ old = None THEN off ELSE DeleteFQDNFQDNTypeMapping(off, old),
                  before)
        ELSE IF obj.st # "Accepted" THEN Turn(lister, {})
        ELSE Turn(on, before \cup GetHostsFromHostPathStore(obj.spec.fqdn))

\* Reached only when no Ingress was concerned.
handleHostRuleForSharedVS(l, r) ==
    LET old == l.hrFqdn[r]
        obj == view[r]
        shared == old = Shard
        off == IF shared THEN DeleteHostruleFQDNMapping(l, r) ELSE l
        now == obj # None /\ obj.st = "Accepted" /\ obj.spec.fqdn = Shard
        on == IF now
              THEN UpdateFQDNFQDNTypeMapping(UpdateFQDNHostruleMapping(off, Shard, r), Shard)
              ELSE off
    IN  IF obj # None /\ obj.st # "Accepted" THEN Turn(l, {})
        ELSE Turn(IF obj = None /\ shared THEN DeleteFQDNFQDNTypeMapping(on, Shard) ELSE on,
                  IF shared \/ now THEN {Shard} ELSE {})

HTTPRuleToIng(r) ==
    LET obj == view[r]
        old == lister.httpFqdn[r]
        off == RemoveFqdnHTTPRulesMappings(lister, r)
        on == UpdateFqdnHTTPRulesMappings(off, obj.spec.fqdn, obj.spec.paths, r)
        had(l, f) == f # None /\ \E p \in Paths : l.http[f][p] # None
        before == IF had(lister, old) THEN {old} \cap Hosts ELSE {}
    IN  IF obj = None THEN Turn(off, before)
        ELSE IF obj.st # "Accepted" THEN Turn(lister, {})
        ELSE Turn(on, before \cup (IF had(on, obj.spec.fqdn) THEN {obj.spec.fqdn} \cap Hosts
                                   ELSE {}))

SSORuleToIng(r) ==
    LET obj == view[r]
        old == lister.ssoFqdn[r]
        off == DeleteSSORuleFQDNMapping(lister, r)
        before == {old} \cap Hosts
    IN  IF obj = None THEN Turn(off, before)
        ELSE IF obj.st # "Accepted" THEN Turn(lister, {})
        ELSE Turn(UpdateFQDNSSORuleMapping(off, obj.spec.fqdn, r),
                  before \cup ({obj.spec.fqdn} \cap Hosts))

\* Services come back even for a refused rule, to be cleaned of it.
L4RuleToSvc(r) == Turn(lister, IF r = Annotated THEN {Service} ELSE {})

DequeueIngestion(r) ==
    LET k == KindOf[r]
        ing == HostRuleToIng(r)
    IN  CASE k = "HostRule" -> IF ing.hosts # {} THEN ing
                               ELSE handleHostRuleForSharedVS(ing.lister, r)
          [] k = "HTTPRule" -> HTTPRuleToIng(r)
          [] k = "SSORule" -> SSORuleToIng(r)
          [] k = "L4Rule" -> L4RuleToSvc(r)

-----------------------------------------------------------------------------
(***************************************************************************)
(* Building a virtual service with the rules that fit it.                  *)
(***************************************************************************)
BuildL7Rule(n, l7) ==
    IF l7 = None \/ view[l7] = None THEN 0
    ELSE IF view[l7].st = "Rejected" THEN n.l7 ELSE view[l7].spec.v

\* The node is the one of the last build: a rejected rule leaves it as it was.
BuildL7HostRule(n, f) ==
    LET r == IF f = None THEN None ELSE lister.fqdnHr[f] IN
    IF r = None \/ view[r] = None THEN [n EXCEPT !.hr = None, !.v = 0, !.l7 = 0]
    ELSE IF view[r].st = "Rejected" THEN n
    ELSE [n EXCEPT !.hr = r, !.v = view[r].spec.v, !.l7 = BuildL7Rule(n, view[r].spec.ref)]

BuildL7SSORule(n, h) ==
    LET r == lister.fqdnSso[h] IN
    IF r = None \/ view[r] = None THEN [n EXCEPT !.sso = 0]
    ELSE IF view[r].st = "Rejected" THEN n ELSE [n EXCEPT !.sso = view[r].spec.v]

\* Pools are built anew, and so carry no rule of an earlier build.
BuildPoolHTTPRule(n, h) ==
    LET rule(p) == lister.http[h][p]
        fits(p) == /\ rule(p) # None
                   /\ view[rule(p)] # None
                   /\ view[rule(p)].st # "Rejected"
                   /\ p \in view[rule(p)].spec.paths
    IN  [n EXCEPT !.http = [p \in Paths |-> IF fits(p) THEN view[rule(p)].spec.v ELSE 0]]

getL4Rule(n) ==
    LET obj == view[Annotated] IN
    [n EXCEPT !.l4 = IF obj = None \/ obj.st # "Accepted" THEN 0 ELSE obj.spec.v]

\* The nodes one build of h may yield.  With its shared parent, a child is
\* only gone over for its HostRule.
Built(h, withParent) ==
    LET hits == GetFQDNToHostruleMappingWithType(lister, h)
        withRule == {BuildL7HostRule(node[h], f) : f \in IF hits = {} THEN {None} ELSE hits}
    IN  IF h = Service THEN {getL4Rule(node[h])}
        ELSE IF h = Shard \/ withParent THEN withRule
        ELSE {BuildPoolHTTPRule(BuildL7SSORule(n, h), h) : n \in withRule}

-----------------------------------------------------------------------------
(***************************************************************************)
(* Actions of AKO.                                                         *)
(***************************************************************************)
\* A status write that fails three times is given up.
Written(r, st) ==
    \/ UpdateStatus(r, st) /\ UNCHANGED <<left, happened>>
    \/ /\ st # "" /\ api[r] # None /\ api[r].st # st
       /\ "patch" \in Changes /\ left > 0
       /\ left' = left - 1 /\ happened' = happened \cup {"patch"}
       /\ UNCHANGED <<api, wire>>

Handle(k) ==
    /\ notes[k] # <<>>
    /\ LET n == Head(notes[k])
           done == Handled(k, n)
       IN  /\ lister' = done.lister
           /\ Written(n.r, done.st)
           /\ queue' = queue \cup done.keys
    /\ notes' = [notes EXCEPT ![k] = Tail(@)]
    /\ UNCHANGED <<world, view, monitor, building, node, avi, boot>>

\* The HealthMonitor handler goes over the L4Rules mapped to the monitor.
HandleMonitor ==
    /\ notes["HealthMonitor"] # <<>>
    /\ monitor = Idle
    /\ LET n == Head(notes["HealthMonitor"]) IN
       monitor' = [todo |-> IF isUpdated(n) THEN lister.hmL4[n.r] ELSE {},
                   gone |-> None, hm |-> n.r]
    /\ notes' = [notes EXCEPT !["HealthMonitor"] = Tail(@)]
    /\ UNCHANGED <<world, api, wire, view, queue, building, lister, node, avi, boot, left, happened>>

\* One L4Rule of the loop.  A rule that is not in the lister is taken off the
\* monitor, in a step of its own.
processL4RulesForHealthMonitor(r) ==
    /\ r \in monitor.todo /\ monitor.gone = None
    /\ monitor' = [monitor EXCEPT !.todo = @ \ {r}, !.gone = IF view[r] = None THEN r ELSE None]
    /\ IF view[r] = None
       THEN UNCHANGED <<api, wire, lister, queue, left, happened>>
       ELSE LET done == Judged(r, view[r]) IN
            /\ lister' = done.lister
            /\ Written(r, done.st)
            /\ queue' = IF done.st = "Rejected" THEN queue ELSE queue \cup {r}
    /\ UNCHANGED <<world, view, notes, building, node, avi, boot>>

DropGoneRule ==
    /\ monitor.gone # None
    /\ lister' = DeleteHealthMonitorToL4RuleMapping(lister, monitor.hm, monitor.gone)
    /\ monitor' = [monitor EXCEPT !.gone = None]
    /\ UNCHANGED <<world, api, wire, view, notes, queue, building, node, avi, boot, left, happened>>

MonitorDone ==
    /\ monitor.hm # None /\ monitor.todo = {} /\ monitor.gone = None
    /\ monitor' = Idle
    /\ UNCHANGED <<world, api, wire, view, notes, queue, building, lister, node, avi, boot, left,
                   happened>>

\* With its parent, every child is gone over.
ToBuild(hosts) ==
    IF Shard \in hosts THEN {<<h, TRUE>> : h \in Hosts \cup {Shard}}
    ELSE {<<h, FALSE>> : h \in hosts}

Ingest(r) ==
    /\ r \in queue /\ building = {} /\ boot = {}
    /\ LET turn == DequeueIngestion(r) IN
       /\ lister' = turn.lister
       /\ building' = ToBuild(turn.hosts)
    /\ queue' = queue \ {r}
    /\ UNCHANGED <<world, api, wire, view, notes, monitor, node, avi, boot, left, happened>>

Build(h, withParent) ==
    /\ <<h, withParent>> \in building
    /\ \E n \in Built(h, withParent) : node' = [node EXCEPT ![h] = n]
    /\ building' = building \ {<<h, withParent>>}
    /\ UNCHANGED <<world, api, wire, view, notes, monitor, queue, lister, avi, boot, left, happened>>

\* The full sync goes over the kinds in order; ingestion of a rule rebuilds
\* nothing yet, as no Ingress has been read.
SyncOrder == <<"L7Rule", "HostRule", "HTTPRule", "SSORule", "L4Rule">>
Rank(r) == CHOOSE i \in 1..Len(SyncOrder) : SyncOrder[i] = KindOf[r]

FullSyncK8s(r) ==
    /\ r \in boot \ {Sync}
    /\ \A q \in boot \ {Sync} : Rank(r) <= Rank(q)
    /\ IF view[r] = None THEN UNCHANGED <<api, wire, lister, left, happened>>
       ELSE LET done == Judged(r, view[r])
                turn == DequeueIngestion(r)
            IN  /\ Written(r, done.st)
                /\ lister' = IF KindOf[r] \in {"L7Rule", "L4Rule"} THEN done.lister
                             ELSE [turn.lister EXCEPT !.l7Hr = done.lister.l7Hr]
    /\ boot' = boot \ {r}
    /\ UNCHANGED <<world, view, notes, monitor, queue, building, node, avi>>

\* Then the Ingresses and Services are read, and everything is built.
FullSyncIngresses ==
    /\ boot = {Sync}
    /\ boot' = {}
    /\ building' = {<<h, FALSE>> : h \in Hosts \cup {Shard, Service}}
    /\ UNCHANGED <<world, api, wire, view, notes, monitor, queue, lister, node, avi, left, happened>>

-----------------------------------------------------------------------------
(***************************************************************************)
(* The environment.                                                        *)
(***************************************************************************)
\* The watch brings a version into the lister and tells the handler.
Watch(k) ==
    /\ wire[k] # <<>>
    /\ LET e == Head(wire[k]) IN
       /\ view' = [view EXCEPT ![e.r] = e.new]
       /\ notes' = [notes EXCEPT ![k] = Append(@, [r |-> e.r, old |-> view[e.r], new |-> e.new])]
    /\ wire' = [wire EXCEPT ![k] = Tail(@)]
    /\ UNCHANGED <<world, api, monitor, queue, building, lister, node, avi, boot, left, happened>>

Change(c) ==
    /\ c \in Changes /\ left > 0
    /\ left' = left - 1 /\ happened' = happened \cup {c}

\* Names a rule stands for, at the API server, in the lister or as mapped.
Claims(r) ==
    {lister.hrFqdn[r], lister.httpFqdn[r], lister.ssoFqdn[r]}
        \cup {o.spec.fqdn : o \in {api[r], view[r]} \ {None}}

\* "move": a HostRule is taken from a host name to the name of a shared
\* parent, or back.  "contend": another rule of the kind has the same name.
KindOfPut(r, f) ==
    IF \E g \in Claims(r) \ {None} : g # f /\ Shard \in {f, g} THEN "move"
    ELSE IF \E q \in Of(KindOf[r]) \ {r} : f # "" /\ f \in Claims(q) THEN "contend"
    ELSE "put"

\* A user writes a rule; its status stays what it was.
Put(r, spec) ==
    /\ Change(KindOfPut(r, spec.fqdn))
    /\ spec # (IF api[r] = None THEN None ELSE api[r].spec)
    /\ Store(r, [spec |-> spec, st |-> IF api[r] = None THEN "" ELSE api[r].st])
    /\ UNCHANGED <<world, view, notes, monitor, queue, building, lister, node, avi, boot>>

Delete(r) ==
    /\ Change("delete") /\ api[r] # None
    /\ Store(r, None)
    /\ UNCHANGED <<world, view, notes, monitor, queue, building, lister, node, avi, boot>>

\* The object on the Avi controller comes or goes; nobody is told.
AviObject ==
    /\ Change("avi")
    /\ avi' = ~avi
    /\ UNCHANGED <<world, api, wire, view, notes, monitor, queue, building, lister, node, boot>>

\* An Ingress of h changes.
Ingress(h) ==
    /\ Change("ingress") /\ building = {} /\ boot = {}
    /\ building' = {<<h, FALSE>>}
    /\ UNCHANGED <<world, api, wire, view, notes, monitor, queue, lister, node, avi, boot>>

Restart ==
    /\ Change("restart")
    /\ view' = api /\ wire' = [k \in Kinds |-> <<>>]
    /\ notes' = [k \in Kinds |->
                    SetToSeq({[r |-> r, old |-> None, new |-> api[r]] :
                              r \in {q \in world : KindOf[q] = k /\ api[q] # None}})]
    /\ monitor' = Idle /\ queue' = {} /\ building' = {}
    /\ lister' = EmptyLister
    /\ node' = [h \in Hosts \cup {Shard, Service} |-> Bare]
    /\ boot' = {r \in world : KindOf[r] # "HealthMonitor"} \cup {Sync}
    /\ UNCHANGED <<world, api, avi>>

-----------------------------------------------------------------------------
Init ==
    /\ world \in Worlds
    /\ api = [r \in Rules |-> None]
    /\ view = api
    /\ notes = [k \in Kinds |-> <<>>]
    /\ wire = notes
    /\ monitor = Idle
    /\ queue = {}
    /\ building = {}
    /\ lister = EmptyLister
    /\ node = [h \in Hosts \cup {Shard, Service} |-> Bare]
    /\ avi = TRUE
    /\ boot = {}
    /\ left = MaxChanges
    /\ happened = {}

Next ==
    \/ \E k \in Kinds \ {"HealthMonitor"} : Handle(k)
    \/ HandleMonitor
    \/ \E r \in Rules : processL4RulesForHealthMonitor(r)
    \/ DropGoneRule
    \/ MonitorDone
    \/ \E r \in Rules : Ingest(r)
    \/ \E h \in Hosts \cup {Shard, Service}, withParent \in BOOLEAN : Build(h, withParent)
    \/ \E r \in Rules : FullSyncK8s(r)
    \/ FullSyncIngresses
    \/ \E k \in Kinds : Watch(k)
    \/ \E r \in world : \E spec \in Specs[r] : Put(r, spec)
    \/ \E r \in world : Delete(r)
    \/ AviObject
    \/ \E h \in Hosts : Ingress(h)
    \/ Restart

Spec == Init /\ [][Next]_vars

-----------------------------------------------------------------------------
Rest ==
    /\ \A k \in Kinds : notes[k] = <<>> /\ wire[k] = <<>>
    /\ monitor = Idle /\ queue = {} /\ building = {} /\ boot = {}

NoneOf(cs) == happened \cap cs = {}

\* Types of the variables.
TypeOK ==
    /\ world \in Worlds
    /\ \A r \in Rules : \A obj \in {api[r], view[r]} \ {None} :
          obj.spec \in Specs[r] /\ obj.st \in {"", "Accepted", "Rejected"}
    /\ \A k \in Kinds : \A i \in 1..Len(notes[k]) : KindOf[notes[k][i].r] = k
    /\ monitor.todo \subseteq Of("L4Rule") /\ monitor.hm \in Of("HealthMonitor") \cup {None}
    /\ queue \subseteq world
    /\ building \subseteq (Hosts \cup {Shard, Service}) \X BOOLEAN
    /\ DOMAIN lister = DOMAIN EmptyLister
    /\ \A h \in DOMAIN node : DOMAIN node[h] = DOMAIN Bare
    /\ boot \subseteq world \cup {Sync}
    /\ happened \subseteq Changes /\ left \in 0..MaxChanges

Accepted(k) == {r \in Of(k) : api[r] # None /\ api[r].st = "Accepted"}

CoveringRules(h) == {r \in Accepted("HostRule") : Covers(lister, api[r].spec.fqdn, h)}

\* When everything has been processed, what a user was told is Accepted is what
\* the virtual services carry: a host has the content of an accepted HostRule
\* that covers it, and of its SSORule and HTTPRules, and the Service has the
\* content of its L4Rule or of none.  Not promised after a status write was
\* given up, for names that two rules claim, beside a refused HostRule (it keeps
\* its earlier mapping), and for a HostRule moved between a host and a shared
\* parent (HostRuleToIng, BuildL7HostRule, getL4Rule).
RulesApplied ==
    Rest /\ NoneOf({"patch", "move", "contend"}) =>
        /\ \A h \in Hosts \cup {Shard} :
              (CoveringRules(h) # {} /\ \A r \in Of("HostRule") \ Accepted("HostRule") : api[r] = None) =>
                  \E r \in CoveringRules(h) : node[h].hr = r /\ node[h].v = api[r].spec.v
        /\ \A r \in Accepted("SSORule") :
              node[api[r].spec.fqdn].sso = api[r].spec.v
        /\ \A r \in Accepted("HTTPRule") : \A p \in api[r].spec.paths :
              node[api[r].spec.fqdn].http[p] = api[r].spec.v
        /\ node[Service].l4 = IF Annotated \in Accepted("L4Rule")
                              THEN api[Annotated].spec.v ELSE 0

\* When everything has been processed, no host carries anything of a rule that
\* is gone (the delete branches of HostRuleToIng, SSORuleToIng, HTTPRuleToIng).
NothingOfGoneRules ==
    Rest /\ NoneOf({"move", "contend"}) =>
        \A h \in Hosts \cup {Shard} :
            /\ node[h].hr # None => api[node[h].hr] # None
            /\ node[h].sso # 0 => \E r \in Of("SSORule") : api[r] # None
            /\ \A p \in Paths : node[h].http[p] # 0 => \E r \in Of("HTTPRule") : api[r] # None

\* When everything has been processed, the verdict on an L4Rule is the one its
\* HealthMonitor deserves now, whichever of the two objects changed last
\* (ValidateL4RuleObj and processL4RulesForHealthMonitor).  The handlers are
\* told of no change of the Avi controller.
L4RuleJudged ==
    Rest /\ NoneOf({"patch", "avi"}) =>
        \A r \in Of("L4Rule") : api[r] # None =>
            (r \in Accepted("L4Rule") <=>
                /\ api[r].spec.ok
                /\ api[r].spec.ref # None => validateHealthMonitorForL4Rule(api[r].spec.ref))
=============================================================================
