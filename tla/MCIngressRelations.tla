-------------------------- MODULE MCIngressRelations -------------------------
(***************************************************************************)
(* What Ingresses become, one question (`part') in each behaviour: which   *)
(* turns rebuild an Ingress (IngressRelations), and what a turn makes of   *)
(* the graphs (L7Models).  The variables of L7Models that IngressRelations *)
(* has too carry a prefix; a part leaves the variables of the other alone. *)
(***************************************************************************)
EXTENDS IngressRelations, FiniteSets, TLC

CONSTANTS Parts, s1, s2, tls1, c1, e1, e2, hostA, hostB, root, sub,
          Modes, Policies, L7Changes, MaxL7Changes

VARIABLES part, mode, strict, ing, l7Secret, accepted, l7Queue, stored, infra, hostmap,
          hostpath, models, pub, avi, left, happened

l7Vars == <<mode, strict, ing, l7Secret, accepted, l7Queue, stored, infra, hostmap,
            hostpath, models, pub, avi, left, happened>>

\* An Ingress names its class and has a Secret, or takes the default class with
\* one Service or two.
MCSpecs == {[svcs |-> {s1}, secret |-> tls1, class |-> c1],
            [svcs |-> {s1, s2}, secret |-> NoSecret, class |-> NoClass],
            [svcs |-> {s2}, secret |-> tls1, class |-> NoClass]}

\* Two Ingresses of two namespaces: several paths and hosts, TLS, a shared or a
\* dedicated AviInfraSetting, passthrough.
L7Spec(set, pass, secure, rules) ==
    [set |-> set, pass |-> pass, secure |-> secure, rules |-> rules]
L7Specs ==
    LET P == <<root, "s1">>
        Q == <<root, "s2">>
        R == <<sub, "s1">>
    IN  {L7Spec("", FALSE, {}, hostA :> {P, R}),
         L7Spec("", FALSE, {}, (hostA :> {Q}) @@ (hostB :> {P})),
         L7Spec("", FALSE, {hostA}, hostA :> {P}),
         L7Spec("", FALSE, {hostA}, (hostA :> {Q, R}) @@ (hostB :> {P})),
         L7Spec("inf", FALSE, {hostA}, hostA :> {P}),
         L7Spec("ded", FALSE, {hostA}, hostA :> {P, R}),
         L7Spec("ded", FALSE, {}, hostA :> {P}),
         L7Spec("", TRUE, {}, hostA :> {P})}

L7 == INSTANCE L7Models WITH
    secret <- l7Secret, queue <- l7Queue,
    Ingresses <- {e1, e2}, NamespaceOf <- (e1 :> "red") @@ (e2 :> "blue"),
    Hosts <- {hostA, hostB}, Specs <- L7Specs, Settings <- {"inf", "ded"},
    Changes <- L7Changes, MaxChanges <- MaxL7Changes

NoL7 ==
    /\ mode = None /\ strict = None /\ ing = None /\ l7Secret = None /\ accepted = None
    /\ l7Queue = None /\ stored = None /\ infra = None /\ hostmap = None /\ hostpath = None
    /\ models = None /\ pub = None /\ avi = None /\ left = None /\ happened = None

\* One of the initial states of IngressRelations.
Still ==
    /\ Init
    /\ service = CHOOSE f \in [Services -> Contents] : TRUE
    /\ secret = CHOOSE f \in [Secrets -> Contents] : TRUE
    /\ class = CHOOSE f \in [Classes -> ClassKinds] : TRUE

MCInit ==
    \/ part = "relations" /\ part \in Parts /\ Init /\ NoL7
    \/ part = "l7" /\ part \in Parts /\ Still /\ L7!Init

MCNext ==
    \/ part = "relations" /\ Next /\ UNCHANGED <<part, l7Vars>>
    \/ part = "l7" /\ L7!Next /\ UNCHANGED <<part, vars>>

MCSpec == MCInit /\ [][MCNext]_<<part, vars, l7Vars>>

MCSymmetry == Permutations(Ingresses)

-----------------------------------------------------------------------------
(***************************************************************************)
(* The properties of L7Models, for the behaviours of its part.             *)
(***************************************************************************)
\* Every path of every Ingress has its pool, pool group and rule, and its host its
\* FQDN, certificate and redirect (Built); no graph holds anything else
\* (NothingStale: DeleteStaleData and its kin); and saveAviModel misses no change
\* of a graph (Published).  The stores name known virtual services only (TypeOK).
L7AsAsked == part = "l7" => L7!TypeOK /\ L7!Built /\ L7!NothingStale /\ L7!Published
=============================================================================
