----------------------------- MODULE GatewayApi -----------------------------
(***************************************************************************)
(* The Gateway API container (ako-gateway-api): GatewayClass, Gateway,     *)
(* HTTPRoute, Secret and Service events, the relations kept between those  *)
(* objects, and the models (one parent virtual service per Gateway, one    *)
(* child per HTTPRoute rule) that the REST layer sends to the Controller.  *)
(*                                                                         *)
(* The informers change first (class, secret, gw, rt); an event handler    *)
(* runs later, on its own goroutine, validates the object, stores its      *)
(* status and enqueues a key; a single ingestion worker takes the keys.    *)
(* Everything the handlers and the worker keep in memory is the record     *)
(* store, and each function of the code that changes it is an operator     *)
(* from stores to stores.  A nil dereference sets store.panic: the process *)
(* dies, restarts and runs a full sync.                                    *)
(***************************************************************************)
EXTENDS Integers, Sequences, FiniteSets, SequencesExt

CONSTANTS
    Gateways,         \* the names of Gateways
    Routes,           \* the names of HTTPRoutes
    Services,         \* the names of Services
    GatewaySpecs,     \* the specs a Gateway may have
    RouteSpecs,       \* the specs an HTTPRoute may have
    None,             \* an object or an entry that is not there
    NilModel,         \* a model that is to be deleted
    Changes,          \* the kinds of change the users make
    MaxChanges        \* how many of them

VARIABLES
    class,            \* the GatewayClass (of this controller) is in the lister
    secret,           \* version of the certificate Secret; 0 when there is none
    gw,               \* the Gateway lister
    rt,               \* the HTTPRoute lister
    notes,            \* per kind, the notifications its handler has yet to run
    checking,         \* the Gateway handler between its Secret read and Record
    queue,            \* the ingestion queue
    store,            \* what the container keeps in memory
    rest,             \* what the REST layer last applied
    left,             \* how many changes are left
    happened          \* the kinds of change and of mishap so far

vars == <<class, secret, gw, rt, notes, checking, queue, store, rest, left,
          happened>>

Certs(spec) == IF "https" \in spec.listeners THEN {"cert"} ELSE {}
Parents(r) == ToSet(rt[r].parents)

\* A model is absent, nil (to be deleted) or a parent with its children.
NoModel == None
Built(m) == m \notin {NoModel, NilModel}

EmptyStore ==
    [classKnown |-> FALSE, classToGateway |-> {},
     gwStatus |-> [g \in Gateways |-> None],
     rtStatus |-> [r \in Routes |-> None],
     listeners |-> [g \in Gateways |-> {}],
     host |-> [g \in Gateways |-> None],
     gatewayToSecret |-> [g \in Gateways |-> {}], secretToGateway |-> {},
     routeToGateway |-> [r \in Routes |-> {}],
     gatewayToRoute |-> [g \in Gateways |-> {}],
     routeToService |-> [r \in Routes |-> {}],
     serviceToRoute |-> [v \in Services |-> {}],
     gatewayToService |-> [g \in Gateways |-> {}],
     serviceToGateway |-> [v \in Services |-> {}],
     routeToListener |-> [r \in Routes |-> [g \in Gateways |-> {}]],
     hostnames |-> [g \in Gateways |-> [r \in Routes |-> None]],
     routeToChildVS |-> [r \in Routes |-> {}],
     model |-> [g \in Gateways |-> NoModel], published |-> {},
     panic |-> FALSE]

-----------------------------------------------------------------------------
\* objects/gateway_store.go: the relations, each kept in both directions.
UpdateGatewayRouteMappings(s, g, r) ==
    [s EXCEPT !.routeToGateway[r] = @ \cup {g}, !.gatewayToRoute[g] = @ \cup {r}]

DeleteRouteToGatewayMappings(s, r, gs) ==
    [s EXCEPT !.routeToGateway[r] = @ \ gs,
              !.gatewayToRoute = [g \in Gateways |->
                  @[g] \ IF g \in gs THEN {r} ELSE {}]]

\* Mutant: one of the two maps gets the Gateways for the Services.
SwappedServiceMapping(s, gs, svcs) ==
    [s EXCEPT
        !.gatewayToService = [g \in Gateways |->
            @[g] \cup IF g \in gs /\ svcs # {} THEN gs ELSE {}],
        !.serviceToGateway = [v \in Services |->
            @[v] \cup IF v \in svcs THEN gs ELSE {}]]

UpdateGatewayServiceMappings(s, gs, svcs) ==
    [s EXCEPT
        !.gatewayToService = [g \in Gateways |->
            @[g] \cup IF g \in gs THEN svcs ELSE {}],
        !.serviceToGateway = [v \in Services |->
            @[v] \cup IF v \in svcs THEN gs ELSE {}]]

\* A Gateway forgets a Service only when none of its routes still uses it.
DeleteGatewayServiceMappings(s, gs, svcs) ==
    LET unused(g, v) == /\ g \in gs /\ v \in svcs
                        /\ s.gatewayToRoute[g] \cap s.serviceToRoute[v] = {}
    IN [s EXCEPT
           !.gatewayToService = [g \in Gateways |-> {v \in @[g] : ~unused(g, v)}],
           !.serviceToGateway = [v \in Services |-> {g \in @[v] : ~unused(g, v)}]]

UpdateRouteServiceMappings(s, r, svcs) ==
    [s EXCEPT !.routeToService[r] = @ \cup svcs,
              !.serviceToRoute = [v \in Services |->
                  @[v] \cup IF v \in svcs THEN {r} ELSE {}]]

DeleteRouteToServiceMappings(s, r, svcs) ==
    [s EXCEPT !.routeToService[r] = @ \ svcs,
              !.serviceToRoute = [v \in Services |->
                  @[v] \ IF v \in svcs THEN {r} ELSE {}]]

\* The missing Secret of a listener: only ever adds.
UpdateSecretToGateway(s, gs) == [s EXCEPT !.secretToGateway = @ \cup gs]

\* The Secrets of the valid listeners: what is no longer there is removed.
UpdateGatewayToSecret(s, g, certs) ==
    [s EXCEPT !.gatewayToSecret[g] = certs,
              !.secretToGateway =
                  (IF s.gatewayToSecret[g] \ certs # {} THEN @ \ {g} ELSE @)
                      \cup IF certs # {} THEN {g} ELSE {}]

\* What is known of a Gateway, except its listeners, its host names, its
\* status and, per route, its listeners and host names.
DeleteGatewayFromStore(s, g) ==
    [s EXCEPT
        !.secretToGateway = IF s.gatewayToSecret[g] # {} THEN @ \ {g} ELSE @,
        !.gatewayToSecret[g] = {},
        !.serviceToGateway = [v \in Services |->
            @[v] \ IF v \in s.gatewayToService[g] THEN {g} ELSE {}],
        !.gatewayToService[g] = {},
        !.routeToGateway = [r \in Routes |->
            @[r] \ IF r \in s.gatewayToRoute[g] THEN {g} ELSE {}],
        !.gatewayToRoute[g] = {},
        !.classToGateway = @ \ {g}]

\* What is known of an HTTPRoute, except its children and the host names
\* kept for Gateways that are no longer its parents.
DeleteRouteFromStore(s, r) ==
    LET gs == s.routeToGateway[r]
        svcs == s.routeToService[r]
        unmapped == [s EXCEPT
            !.routeToListener[r] = [g \in Gateways |-> {}],
            !.gatewayToRoute = [g \in Gateways |-> @[g] \ {r}],
            !.hostnames = [g \in Gateways |->
                IF g \in gs THEN [@[g] EXCEPT ![r] = None] ELSE @[g]],
            !.routeToGateway[r] = {}]
    IN DeleteGatewayServiceMappings(
           DeleteRouteToServiceMappings(unmapped, r, svcs), gs, svcs)

-----------------------------------------------------------------------------
\* k8s/validator.go: which listeners of a Gateway are not valid.  A host name
\* that another Gateway of the namespace has makes a listener invalid.
InvalidListeners(g, spec) ==
    IF \E o \in Gateways \ {g} :
          gw[o] # None /\ gw[o].host = spec.host /\ spec.host # "*"
    THEN spec.listeners
    ELSE {l \in spec.listeners : l = "https" /\ secret = 0}

\* The status IsValidGateway records: a Gateway with a bad address is refused
\* as a whole, before its listeners are looked at.
GatewayStatus(spec, invalid) ==
    IF ~spec.ok
    THEN [accepted |-> FALSE, names |-> {}, invalid |-> {}]
    ELSE [accepted |-> invalid # spec.listeners, names |-> spec.listeners,
          invalid |-> invalid]

\* ValidateGatewayListenerWithSecret: the Secret came or went; the status of
\* every Gateway known to refer to it is changed in place.
ValidateGatewayListenerWithSecret(s, there) ==
    LET touched == {g \in s.secretToGateway :
                       /\ gw[g] # None /\ s.gwStatus[g] # None
                       /\ "https" \in gw[g].listeners}
        now(g) == LET invalid == IF there THEN s.gwStatus[g].invalid \ {"https"}
                                 ELSE s.gwStatus[g].invalid \cup {"https"}
                  IN [accepted |-> gw[g].listeners \ invalid # {},
                      names |-> s.gwStatus[g].names \cup {"https"},
                      invalid |-> invalid]
    IN [s EXCEPT !.gwStatus = [g \in Gateways |->
                    IF g \in touched THEN now(g) ELSE @[g]]]

-----------------------------------------------------------------------------
\* nodes/route_validator.go: what one parent reference gets in the status (a
\* row, or None) and whether it is an error for the route.
HostMatches(spec, r) ==
    IF spec.host = "*" THEN rt[r].host # "" ELSE rt[r].host \in {"", spec.host}

validateParentReference(s, r, g) ==
    LET status == s.gwStatus[g]
        result(row, err) == [row |-> row, err |-> err, panic |-> FALSE]
    IN CASE gw[g] = None \/ ~s.classKnown -> result(None, TRUE)
         [] status = None -> [row |-> None, err |-> TRUE, panic |-> TRUE]
         [] ~status.accepted -> result(FALSE, TRUE)
         [] ~HostMatches(gw[g], r) -> result(FALSE, s.hostnames[g][r] = None)
         [] ~(gw[g].listeners \subseteq status.names) -> result(FALSE, TRUE)
         [] OTHER -> result(TRUE, FALSE)

Rows(g, result) ==
    IF result.row = None THEN <<>> ELSE <<[gw |-> g, ok |-> result.row]>>

\* validateHTTPRouteRules: an unsupported filter refuses the route for every
\* parent up to the first Gateway that is not there; bad session persistence
\* refuses it without a word in the status.
RuleRows(s, r) ==
    LET ps == rt[r].parents
        n == CHOOSE n \in 0..Len(ps) :
                 /\ \A i \in 1..n : gw[ps[i]] # None
                 /\ n < Len(ps) => gw[ps[n + 1]] = None
    IN IF rt[r].bad = "filter" /\ s.classKnown
       THEN [i \in 1..n |-> [gw |-> ps[i], ok |-> FALSE]] ELSE <<>>

IsHTTPRouteValid(s, r) ==
    LET ok == rt[r].bad = ""
        result(g) == validateParentReference(s, r, g)
        rows == FoldLeft(LAMBDA acc, g : acc \o Rows(g, result(g)),
                         <<>>, rt[r].parents)
    IN [valid |-> ok /\ \E g \in Parents(r) : ~result(g).err,
        store |-> [s EXCEPT
            !.rtStatus[r] = IF ok THEN rows ELSE RuleRows(s, r),
            !.panic = @ \/ (ok /\ \E g \in Parents(r) : result(g).panic)]]

-----------------------------------------------------------------------------
\* nodes/gateway_model_rel.go: from one object to the Gateways and the routes
\* it concerns.
GatewayGetGw(s, g) ==
    IF gw[g] = None
    THEN DeleteGatewayFromStore(s, g)
    ELSE IF s.gwStatus[g] = None
    THEN [s EXCEPT !.panic = TRUE]
    ELSE LET valid == gw[g].listeners \ s.gwStatus[g].invalid
         IN UpdateGatewayToSecret(
                [s EXCEPT !.classToGateway = @ \cup {g},
                          !.listeners[g] = valid, !.host[g] = gw[g].host],
                g, Certs([listeners |-> valid]))

GatewayClassGetGw(s) == [s EXCEPT !.classKnown = class]

\* The host names a route has on a Gateway, and through which listeners.
parentRefGatewayMappings(s, r, g) ==
    LET hosts == IF s.listeners[g] = {} THEN {}
                 ELSE IF rt[r].host = ""
                 THEN {s.host[g]} \ {"*"}
                 ELSE IF s.host[g] \in {"*", rt[r].host} THEN {rt[r].host} ELSE {}
    IN [UpdateGatewayRouteMappings(s, g, r) EXCEPT
           !.hostnames[g][r] = hosts,
           !.routeToListener[r][g] = IF hosts = {} THEN {} ELSE s.listeners[g]]

\* Mutant: the route is mapped to its first parent only.
FirstParentOnly(s, r) ==
    LET g == Head(rt[r].parents)
    IN IF rt[r] = None THEN [store |-> s, gateways |-> s.routeToGateway[r]]
       ELSE IF gw[g] = None \/ s.rtStatus[r] = <<>> \/ ~s.rtStatus[r][1].ok
       THEN [store |-> s, gateways |-> {}]
       ELSE [store |-> parentRefGatewayMappings(s, r, g), gateways |-> {g}]

\* Walks the parent references beside the rows of the status.  A row that was
\* not accepted ends the walk: the parents after it are not looked at.
HTTPRouteToGateway(s, r) ==
    LET walk(acc, g) ==
            IF acc.stop \/ acc.row > Len(s.rtStatus[r])
                        \/ s.rtStatus[r][acc.row].gw # g
            THEN acc
            ELSE IF ~s.rtStatus[r][acc.row].ok
            THEN [acc EXCEPT !.stop = TRUE]
            ELSE IF gw[g] = None
            THEN acc
            ELSE [store |-> parentRefGatewayMappings(acc.store, r, g),
                  gateways |-> acc.gateways \cup {g},
                  row |-> acc.row + 1, stop |-> FALSE]
    IN IF rt[r] = None
       THEN [store |-> s, gateways |-> s.routeToGateway[r]]
       ELSE FoldLeft(walk, [store |-> s, gateways |-> {}, row |-> 1,
                            stop |-> FALSE], rt[r].parents)

\* The mappings a change of the route leaves: the Gateways and the Services it
\* dropped are removed, its Services are mapped to all of its parents.
HTTPRouteChanges(s, r) ==
    IF rt[r] = None
    THEN DeleteRouteFromStore(s, r)
    ELSE LET oldGateways == s.routeToGateway[r] \ Parents(r)
             oldSvcs == s.routeToService[r] \ rt[r].svcs
             dropped == DeleteRouteToServiceMappings(s, r, oldSvcs)
             moved == DeleteRouteToGatewayMappings(dropped, r, oldGateways)
             mapped == UpdateGatewayServiceMappings(
                           UpdateRouteServiceMappings(moved, r, rt[r].svcs),
                           Parents(r), rt[r].svcs)
         IN DeleteGatewayServiceMappings(mapped, oldGateways, oldSvcs)

\* The walk of one Gateway's own turn: a row that was not accepted is skipped.
httpRouteToGatewayOperation(s, r, gateway) ==
    LET walk(acc, g) ==
            IF acc.row > Len(s.rtStatus[r]) \/ s.rtStatus[r][acc.row].gw # g
            THEN acc
            ELSE [store |-> IF s.rtStatus[r][acc.row].ok /\ g = gateway
                            THEN parentRefGatewayMappings(acc.store, r, g)
                            ELSE acc.store,
                  row |-> acc.row + 1]
    IN FoldLeft(walk, [store |-> s, row |-> 1], rt[r].parents).store

\* Revalidates one parent of a route that has been validated before.  The rows
\* of its other parents are copied from the first row of the stored status,
\* whatever that row is about, and the new rows are written from the start.
Revalidate(s, r, gateway) ==
    LET ok == rt[r].bad = ""
        result == validateParentReference(s, r, gateway)
        known(g) == g # gateway /\ gw[g] # None /\ s.classKnown
        over(rows, new) == new \o SubSeq(rows, Len(new) + 1, Len(rows))
        put(rows, g) ==
            IF g = gateway
            THEN over(rows, IF ok THEN Rows(g, result) ELSE RuleRows(s, r))
            ELSE IF known(g) /\ s.rtStatus[r] # <<>>
            THEN Append(rows, s.rtStatus[r][1]) ELSE rows
    IN [attach |-> gateway \in Parents(r) /\ ok /\ ~result.err,
        store |-> [s EXCEPT
            !.rtStatus[r] = FoldLeft(put, <<>>, rt[r].parents),
            !.panic = \/ @
                      \/ gateway \in Parents(r) /\ ok /\ result.panic
                      \/ s.rtStatus[r] = <<>> /\ \E g \in Parents(r) : known(g)]]

\* GatewayToRoutes: the routes of a Gateway, validated and mapped again.
validateReferredHTTPRoute(s, g) ==
    LET validated(acc, r) ==
            IF rt[r] = None \/ acc.store.rtStatus[r] = None THEN acc
            ELSE LET v == Revalidate(acc.store, r, g)
                 IN [store |-> v.store,
                     routes |-> acc.routes \cup IF v.attach THEN {r} ELSE {}]
        all == FoldLeft(validated, [store |-> s, routes |-> {}], SetToSeq(Routes))
        mapped(st, r) ==
            HTTPRouteChanges(httpRouteToGatewayOperation(st, r, g), r)
    IN [routes |-> all.routes,
        store |-> FoldLeft(mapped, all.store, SetToSeq(all.routes))]

-----------------------------------------------------------------------------
\* nodes/: the models.  A child stands for one rule of one route.
updateHostname(s, m, g) ==
    [m EXCEPT !.fqdns = UNION {IF s.hostnames[g][r] = None THEN {}
                               ELSE s.hostnames[g][r] \ {"*"} :
                               r \in s.gatewayToRoute[g]}]

\* Removes children from a model and, when they were there, from the store.
RemoveChildren(b, g, r, rules) ==
    LET gone == {rule \in rules : /\ <<g, rule>> \in b.store.routeToChildVS[r]
                                  /\ \E k \in b.m.kids : k.r = r /\ k.rule = rule}
    IN [m |-> [b.m EXCEPT !.kids = {k \in @ : ~(k.r = r /\ k.rule \in gone)}],
        store |-> [b.store EXCEPT !.routeToChildVS[r] =
                      {c \in @ : ~(c[1] = g /\ c[2] \in gone)}]]

ChildRules(s, g, r) == {c[2] : c \in {x \in s.routeToChildVS[r] : x[1] = g}}

ProcessRouteDeletion(b, g, r) ==
    LET gone == RemoveChildren(b, g, r, ChildRules(b.store, g, r))
    IN [gone EXCEPT !.m = updateHostname(gone.store, @, g)]

\* A route without host names on this Gateway is left alone here; one whose
\* host names do not meet the listeners loses its children.
ProcessL7Routes(b, g, r) ==
    LET hosts == b.store.hostnames[g][r]
        kid(rule) == [r |-> r, rule |-> rule, svcs |-> rt[r].svcs, hosts |-> hosts,
                      ports |-> b.store.routeToListener[r][g]]
        kids == {kid(rule) : rule \in rt[r].rules}
    IN IF hosts = None THEN b
       ELSE IF hosts = {} THEN ProcessRouteDeletion(b, g, r)
       ELSE [m |-> updateHostname(b.store,
                     [b.m EXCEPT !.kids =
                        {k \in @ : ~(k.r = r /\ k.rule \in rt[r].rules)} \cup kids],
                     g),
             store |-> [b.store EXCEPT !.routeToChildVS[r] =
                           @ \cup {<<g, rule>> : rule \in rt[r].rules}]]

DeleteStaleChildVSes(b, g, r) ==
    LET built == IF b.store.hostnames[g][r] = None THEN {} ELSE rt[r].rules
    IN RemoveChildren(b, g, r, ChildRules(b.store, g, r) \ built)

BuildRoutes(b, g, routes) ==
    FoldLeft(LAMBDA acc, r :
                 IF rt[r] = None THEN ProcessRouteDeletion(acc, g, r)
                 ELSE DeleteStaleChildVSes(ProcessL7Routes(acc, g, r), g, r),
             b, SetToSeq(routes))

saveAviModel(s, g, m, publish) ==
    [s EXCEPT !.model[g] = m,
              !.published = IF publish THEN @ \cup {g} ELSE @]

BuildGatewayParent(s, g) ==
    LET valid == gw[g].listeners \ s.gwStatus[g].invalid
    IN [ports |-> valid, kids |-> {}, fqdns |-> {},
        cert |-> IF "https" \in valid THEN secret ELSE 0]

\* (Re)builds the parent of a Gateway; the children it had are carried over,
\* the host names of its VIP are not.
handleGateway(s, g) ==
    IF s.panic THEN s
    ELSE IF gw[g] = None
    THEN IF s.model[g] = NoModel THEN s
         ELSE saveAviModel(DeleteGatewayFromStore(s, g), g, NilModel, TRUE)
    ELSE IF ~s.classKnown THEN saveAviModel(s, g, NilModel, TRUE)
    ELSE IF s.gwStatus[g] = None THEN [s EXCEPT !.panic = TRUE]
    ELSE LET parent == BuildGatewayParent(s, g)
         IN saveAviModel(s, g,
                IF Built(s.model[g])
                THEN [parent EXCEPT !.kids = s.model[g].kids] ELSE parent, FALSE)

\* Mutant: a Secret that is there leaves the certificate as it was.
KeepCertificate(s, g) ==
    [m |-> IF gw[g] # None /\ secret = 0 THEN [s.model[g] EXCEPT !.cert = 0]
           ELSE s.model[g],
     delete |-> gw[g] # None /\ secret = 0 /\ ~s.gwStatus[g].accepted]

\* handleSecrets: the certificate of a built parent is replaced or dropped; a
\* Gateway with no valid listener left is to be deleted.
handleSecrets(s, g) ==
    LET status == s.gwStatus[g]
        valid == gw[g].listeners \ status.invalid
    IN CASE gw[g] = None -> [m |-> s.model[g], delete |-> FALSE]
         [] secret = 0 -> [m |-> [s.model[g] EXCEPT !.cert = 0],
                           delete |-> ~status.accepted]
         [] OTHER -> [m |-> IF "https" \in valid
                            THEN [s.model[g] EXCEPT !.cert = secret]
                            ELSE s.model[g],
                      delete |-> FALSE]

-----------------------------------------------------------------------------
\* Mutant: the model is published only when the Gateway itself changed.
PublishChangedGateway(s, g, routes, changed) ==
    IF s.panic \/ ~Built(s.model[g]) THEN s
    ELSE LET b == BuildRoutes([m |-> s.model[g], store |-> s], g, routes)
         IN saveAviModel(b.store, g, b.m, changed)

\* nodes/dequeue_ingestion.go: one turn of the ingestion worker.
\* The loop body for one Gateway: its routes are built and the model saved.
ProcessGateway(s, g, routes, changed) ==
    IF s.panic \/ ~Built(s.model[g]) THEN s
    ELSE LET b == BuildRoutes([m |-> s.model[g], store |-> s], g, routes)
         IN saveAviModel(b.store, g, b.m, changed \/ b.m # s.model[g])

DequeueGateway(s, g, fullsync) ==
    LET handled == handleGateway(GatewayGetGw(s, g), g)
        routed == IF fullsync THEN [store |-> handled, routes |-> {}]
                  ELSE validateReferredHTTPRoute(handled, g)
    IN IF handled.panic \/ (gw[g] = None /\ ~fullsync) THEN handled
       ELSE ProcessGateway(routed.store, g, routed.routes,
                           handled.model[g] # s.model[g])

\* The children of a route leave the Gateways that are no longer its parents.
CleanOldGateways(s, r, old) ==
    LET cleaned(st, g) ==
            LET b == ProcessRouteDeletion([m |-> st.model[g], store |-> st], g, r)
            IN IF ~Built(st.model[g]) THEN st
               ELSE saveAviModel(b.store, g, b.m, b.m # st.model[g])
    IN FoldLeft(cleaned, s, SetToSeq(old))

DequeueRoute(s, r) ==
    LET check == IsHTTPRouteValid(s, r)
        checked == IF rt[r] = None THEN s ELSE check.store
        old == IF rt[r] = None THEN {} ELSE s.routeToGateway[r] \ Parents(r)
        mapped == HTTPRouteToGateway(checked, r)
        built == FoldLeft(LAMBDA st, g : ProcessGateway(st, g, {r}, FALSE),
                          HTTPRouteChanges(mapped.store, r),
                          SetToSeq(mapped.gateways))
    IN IF rt[r] # None /\ (~check.valid \/ checked.panic) THEN checked
       ELSE CleanOldGateways(built, r, old)

DequeueService(s, v) ==
    FoldLeft(LAMBDA st, g : ProcessGateway(st, g, s.serviceToRoute[v], FALSE),
             s, SetToSeq(s.serviceToGateway[v]))

\* The list of routes is not reset between two Gateways of the loop.
DequeueSecret(s, order) ==
    LET step(acc, g) ==
            LET was == acc.store.model[g]
                handled == handleGateway(acc.store, g)
                routed == validateReferredHTTPRoute(handled, g)
                h == handleSecrets(acc.store, g)
            IN IF acc.store.panic THEN acc
               ELSE IF ~Built(was)
               THEN IF handled.panic \/ ~Built(handled.model[g]) \/ gw[g] = None
                    THEN [acc EXCEPT !.store = handled]
                    ELSE [store |-> ProcessGateway(routed.store, g, routed.routes,
                                                   TRUE),
                          routes |-> routed.routes]
               ELSE IF gw[g] # None /\ acc.store.gwStatus[g] = None
               THEN [acc EXCEPT !.store.panic = TRUE]
               ELSE IF h.delete
               THEN [acc EXCEPT !.store =
                        saveAviModel(acc.store, g, NilModel, TRUE)]
               ELSE [acc EXCEPT !.store = ProcessGateway(
                        [acc.store EXCEPT !.model[g] = h.m], g, acc.routes,
                        h.m # was)]
    IN FoldLeft(step, [store |-> s, routes |-> {}],
                SelectSeq(order, LAMBDA g : g \in s.secretToGateway)).store

Keys == {<<"class">>, <<"secret">>} \cup ({"gateway"} \X Gateways)
        \cup ({"route"} \X Routes) \cup ({"service"} \X Services)

DequeueIngestion(s, key, order) ==
    CASE key[1] = "class" -> GatewayClassGetGw(s)
      [] key[1] = "secret" -> DequeueSecret(s, order)
      [] key[1] = "gateway" -> DequeueGateway(s, key[2], FALSE)
      [] key[1] = "route" -> DequeueRoute(s, key[2])
      [] key[1] = "service" -> DequeueService(s, key[2])

\* FullSyncK8s on a fresh process: classes, valid Gateways, routes.
FullSyncK8s ==
    LET classes == [EmptyStore EXCEPT !.classKnown = class]
        status(g) == GatewayStatus(gw[g], InvalidListeners(g, gw[g]))
        there == {g \in Gateways : gw[g] # None}
        missing == {g \in there : /\ secret = 0 /\ gw[g].ok
                                  /\ "https" \in InvalidListeners(g, gw[g])}
        validated == [UpdateSecretToGateway(classes, missing) EXCEPT
            !.gwStatus = [g \in Gateways |->
                IF g \in there THEN status(g) ELSE None]]
        gateways == FoldLeft(LAMBDA st, g : DequeueGateway(st, g, TRUE), validated,
                             SetToSeq({g \in there : status(g).accepted}))
        routes == FoldLeft(LAMBDA st, r : DequeueRoute(st, r), gateways,
                           SetToSeq({r \in Routes : rt[r] # None}))
    IN [routes EXCEPT !.published = {}]

\* publishAllParentVSKeysToRestLayer: every virtual service the Controller has
\* and every model.
publishAllParentVSKeysToRestLayer(s) ==
    [s EXCEPT !.published =
        {g \in Gateways : s.model[g] # NoModel \/ rest[g] # NilModel}]

Applied(m) == IF Built(m) THEN m ELSE NilModel

-----------------------------------------------------------------------------
\* Two Gateways claim the same host name.
Conflict == \E g, o \in Gateways :
    /\ g # o /\ gw[g] # None /\ gw[o] # None
    /\ gw[g].host # "*" /\ gw[g].host = gw[o].host

\* Some route is not accepted by every one of its parents.
Refused(s) == \E r \in Routes :
    /\ rt[r] # None /\ s.rtStatus[r] # None
    /\ \/ Len(s.rtStatus[r]) < Len(rt[r].parents)
       \/ \E i \in DOMAIN s.rtStatus[r] : ~s.rtStatus[r][i].ok

Mishaps(s) == (IF Conflict THEN {"conflict"} ELSE {})
                  \cup (IF Refused(s) THEN {"refused"} ELSE {})
\* A turn of another key sees a changed route before the route's own turn.
Overtaken(key) ==
    IF /\ key[1] # "route"
       /\ notes["route"] # <<>> \/ \E r \in Routes : <<"route", r>> \in queue
    THEN {"overtaken"} ELSE {}
NoneOf(S) == S \cap happened = {}

Kinds == {"class", "secret", "gateway", "route"}
Spend(kind) == /\ kind \in Changes /\ left > 0
               /\ left' = left - 1
               /\ happened' = happened \cup {kind} \cup
                    IF Conflict' THEN {"conflict"} ELSE {}
Alive == ~store.panic

Init ==
    /\ class \in BOOLEAN
    /\ secret \in {0, 1}
    /\ gw \in [Gateways -> GatewaySpecs \cup {None}]
    /\ rt \in [Routes -> RouteSpecs \cup {None}]
    /\ store = FullSyncK8s
    /\ rest = [g \in Gateways |-> Applied(store.model[g])]
    /\ notes = [k \in Kinds |-> <<>>]
    /\ checking = None
    /\ queue = {}
    /\ left = MaxChanges
    /\ happened = Mishaps(store)

\* The changes of users, as the informers take them.
Note(kind, what) == notes' = [notes EXCEPT ![kind] = Append(@, what)]

ChangeClass ==
    /\ class' = ~class
    /\ Note("class", class')
    /\ UNCHANGED <<secret, gw, rt, checking, queue, store, rest>>
    /\ Spend("class")

ChangeSecret ==
    /\ secret' \in 0..2 \ {secret}
    /\ Note("secret", secret')
    /\ UNCHANGED <<class, gw, rt, checking, queue, store, rest>>
    /\ Spend(IF 0 \in {secret, secret'} THEN "secret" ELSE "rolled")

ChangeGateway(g) ==
    /\ \E spec \in GatewaySpecs \cup {None} :
          /\ spec # gw[g]
          /\ gw' = [gw EXCEPT ![g] = spec]
          /\ Note("gateway", [name |-> g, spec |-> spec])
    /\ UNCHANGED <<class, secret, rt, checking, queue, store, rest>>
    /\ Spend("gateway")

ChangeRoute(r) ==
    /\ \E spec \in RouteSpecs \cup {None} :
          /\ spec # rt[r]
          /\ rt' = [rt EXCEPT ![r] = spec]
          /\ Note("route", r)
    /\ UNCHANGED <<class, secret, gw, checking, queue, store, rest>>
    /\ Spend("route")

\* The endpoints of a Service change.
ChangeService(v) ==
    /\ queue' = queue \cup {<<"service", v>>}
    /\ UNCHANGED <<class, secret, gw, rt, notes, checking, store, rest>>
    /\ Spend("service")

\* The event handlers.
Handled(kind) == /\ Alive
                 /\ notes[kind] # <<>>
                 /\ notes' = [notes EXCEPT ![kind] = Tail(@)]

ClassHandler ==
    /\ Handled("class")
    /\ queue' = queue \cup {<<"class">>}
    /\ UNCHANGED <<class, secret, gw, rt, checking, store, rest, left, happened>>

SecretHandler ==
    /\ Handled("secret")
    /\ store' = ValidateGatewayListenerWithSecret(store, Head(notes["secret"]) # 0)
    /\ queue' = queue \cup {<<"secret">>}
    /\ UNCHANGED <<class, secret, gw, rt, checking, rest, left, happened>>

RouteHandler ==
    /\ Handled("route")
    /\ queue' = queue \cup {<<"route", Head(notes["route"])>>}
    /\ UNCHANGED <<class, secret, gw, rt, checking, store, rest, left, happened>>

\* A deleted Gateway is enqueued and its status dropped; any other is first
\* validated, which reads its Secret from the API server.
GatewayHandler ==
    /\ Handled("gateway")
    /\ checking = None
    /\ LET n == Head(notes["gateway"])
       IN IF n.spec = None
          THEN /\ queue' = queue \cup {<<"gateway", n.name>>}
               /\ store' = [store EXCEPT !.gwStatus[n.name] = None]
               /\ UNCHANGED checking
          ELSE /\ checking' = [name |-> n.name, spec |-> n.spec,
                               invalid |-> InvalidListeners(n.name, n.spec),
                               missing |-> secret = 0]
               /\ UNCHANGED <<queue, store>>
    /\ UNCHANGED <<class, secret, gw, rt, rest, left, happened>>

\* The rest of IsValidGateway: the Gateway waits for a missing Secret, its
\* status is recorded, and a valid one is enqueued.
GatewayRecord ==
    /\ Alive
    /\ checking # None
    /\ LET c == checking
           status == GatewayStatus(c.spec, c.invalid)
           waits == c.spec.ok /\ c.missing /\ "https" \in c.spec.listeners
       IN /\ store' = [UpdateSecretToGateway(store, IF waits THEN {c.name} ELSE {})
                          EXCEPT !.gwStatus[c.name] = status]
          /\ queue' = IF status.accepted THEN queue \cup {<<"gateway", c.name>>}
                      ELSE queue
    /\ checking' = None
    /\ UNCHANGED <<class, secret, gw, rt, notes, rest, left, happened>>

\* One turn of the ingestion worker.
Worker(key, order) ==
    /\ Alive
    /\ key \in queue
    /\ queue' = queue \ {key}
    /\ store' = DequeueIngestion(store, key, order)
    /\ happened' = happened \cup Mishaps(store') \cup Overtaken(key)
    /\ UNCHANGED <<class, secret, gw, rt, notes, checking, rest, left>>

\* The REST layer takes a published model.
RestLayer(g) ==
    /\ Alive
    /\ g \in store.published
    /\ rest' = [rest EXCEPT ![g] = Applied(store.model[g])]
    /\ store' = [store EXCEPT !.published = @ \ {g}]
    /\ UNCHANGED <<class, secret, gw, rt, notes, checking, queue, left, happened>>

\* The process crashed, or dies of a nil dereference, and starts again.
Restart ==
    /\ notes' = [k \in Kinds |-> <<>>]
    /\ checking' = None
    /\ queue' = {}
    /\ store' = publishAllParentVSKeysToRestLayer(FullSyncK8s)
    /\ UNCHANGED <<class, secret, gw, rt, rest>>
    /\ IF store.panic THEN UNCHANGED left
       ELSE /\ "crash" \in Changes /\ left > 0
            /\ left' = left - 1
    /\ happened' = Mishaps(store')

Orders == {o \in [1..Cardinality(Gateways) -> Gateways] : IsInjective(o)}

Next ==
    \/ ChangeClass \/ ChangeSecret
    \/ \E g \in Gateways : ChangeGateway(g) \/ RestLayer(g)
    \/ \E r \in Routes : ChangeRoute(r)
    \/ \E v \in Services : ChangeService(v)
    \/ ClassHandler \/ SecretHandler \/ RouteHandler
    \/ GatewayHandler \/ GatewayRecord
    \/ \E key \in Keys, order \in Orders : Worker(key, order)
    \/ Restart

Spec == Init /\ [][Next]_vars

-----------------------------------------------------------------------------
AtRest == /\ Alive /\ queue = {} /\ checking = None /\ store.published = {}
          /\ \A k \in Kinds : notes[k] = <<>>

\* The listeners of a Gateway that are valid now; the routes that may attach to
\* it; the children that serve a set of routes.
ValidListeners(g) ==
    IF gw[g] = None \/ ~class THEN {}
    ELSE IF gw[g].ok THEN gw[g].listeners \ InvalidListeners(g, gw[g]) ELSE {}
Attached(g) == {r \in Routes : /\ rt[r] # None /\ g \in Parents(r) /\ rt[r].bad = ""
                                /\ ValidListeners(g) # {} /\ HostMatches(gw[g], r)}
Children(rs, g) ==
    UNION {{[r |-> r, rule |-> rule, svcs |-> rt[r].svcs, ports |-> ValidListeners(g),
             hosts |-> {IF rt[r].host = "" THEN gw[g].host ELSE rt[r].host}] :
            rule \in rt[r].rules} : r \in rs}

\* A Gateway with a certificate whose Secret did not come or go.
Settled(g) == gw[g] # None /\ "https" \in gw[g].listeners => NoneOf({"secret"})

\* The types of the state.
TypeOK ==
    /\ class \in BOOLEAN /\ secret \in 0..2
    /\ gw \in [Gateways -> GatewaySpecs \cup {None}]
    /\ rt \in [Routes -> RouteSpecs \cup {None}]
    /\ queue \subseteq Keys
    /\ store.published \subseteq Gateways /\ store.secretToGateway \subseteq Gateways
    /\ \A g \in Gateways : /\ store.gatewayToRoute[g] \subseteq Routes
                            /\ store.gatewayToService[g] \subseteq Services
    /\ \A r \in Routes : store.routeToGateway[r] \subseteq Gateways
    /\ left \in 0..MaxChanges

\* No turn of DequeueIngestion changes a model without publishing it, and a
\* deleted Gateway is always deleted from the Controller: at rest the REST layer
\* has applied exactly the models in memory and nothing of a Gateway that is gone,
\* whatever order the handlers, the worker, the REST layer and restarts ran in.
RestIsModel ==
    AtRest => \A g \in Gateways : /\ rest[g] = Applied(store.model[g])
                                  /\ gw[g] = None => rest[g] = NilModel

\* At rest every valid Gateway has a parent virtual service with exactly its
\* valid listeners and the current version of its certificate (handleGateway,
\* handleSecrets), after any order of Gateway, route and Service events and of
\* certificate renewals, and again after every restart.  Left out are the
\* Gateways the code is known to leave behind: a class that came or went, two
\* Gateways with one host name, a Secret that came or went.
GatewaysServed ==
    AtRest /\ NoneOf({"class", "conflict"}) =>
        \A g \in Gateways : LET valid == ValidListeners(g) IN
            Settled(g) /\ valid # {} =>
                /\ rest[g] # NilModel
                /\ rest[g].ports = valid
                /\ rest[g].cert = IF "https" \in valid THEN secret ELSE 0

\* At rest every route a valid Gateway accepts has a child per rule with its
\* current Services, host name and listeners; and, when no parent ever refused a
\* route, no route was overtaken by another turn and no Service event followed,
\* the Gateway has no other child and its VIP has the children's host names.
RoutesServed ==
    AtRest /\ NoneOf({"class", "conflict"}) =>
        \A g \in Gateways :
            Settled(g) /\ ValidListeners(g) # {} =>
                /\ Children({r \in Attached(g) : Len(rt[r].parents) = 1}, g)
                       \subseteq rest[g].kids
                /\ NoneOf({"service", "overtaken", "refused"}) =>
                     /\ rest[g].kids = Children(Attached(g), g)
                     /\ rest[g].fqdns = UNION {k.hosts : k \in rest[g].kids}
=============================================================================
