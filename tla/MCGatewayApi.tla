----------------------------- MODULE MCGatewayApi -----------------------------
(***************************************************************************)
(* Models of objects that refer to one another across several informers,   *)
(* one group (`part') in each behaviour: Gateways and their routes in the  *)
(* container of the Gateway API, or HostRules, HTTPRules, SSORules, L7Rules *)
(* and L4Rules in AKO (CrdRules).  Variables of CrdRules that GatewayApi   *)
(* has too carry a prefix; those of the other part stay as they were.      *)
(***************************************************************************)
EXTENDS GatewayApi, TLC

CONSTANTS Parts, g1, g2, v1, RuleWorlds, RuleChanges, MaxRuleChanges

VARIABLES part, world, api, wire, view, ruleNotes, monitor, ruleQueue, building, lister,
          node, avi, boot, ruleLeft, ruleHappened

ruleVars == <<world, api, wire, view, ruleNotes, monitor, ruleQueue, building, lister,
              node, avi, boot, ruleLeft, ruleHappened>>

\* Gateways with an HTTP and an HTTPS listener.
MCGatewaySpecs ==
    {[listeners |-> {"http"}, host |-> "*", ok |-> TRUE],
     [listeners |-> {"http", "https"}, host |-> "a", ok |-> TRUE],
     [listeners |-> {"https"}, host |-> "a", ok |-> FALSE]}

\* A route of one or two parents with one or two rules, some with a mistake.
MCRouteSpecs ==
    {[parents |-> <<g1, g2>>, host |-> "a", rules |-> {1}, svcs |-> {v1}, bad |-> ""],
     [parents |-> <<g2>>, host |-> "", rules |-> {2}, svcs |-> {v1}, bad |-> ""],
     [parents |-> <<g1>>, host |-> "a", rules |-> {1, 2}, svcs |-> {}, bad |-> "filter"],
     [parents |-> <<g2, g1>>, host |-> "", rules |-> {1}, svcs |-> {v1}, bad |-> "session"]}

\* Rules of two host names, of a shared virtual service and of a Service; some
\* refer to an Avi object (`uses') or to another rule (`ref').
Rules == {"h1", "h2", "h3", "l7", "p1", "p2", "s1", "s2", "l4", "hm"}
KindOf == [r \in Rules |->
    CASE r \in {"h1", "h2", "h3"} -> "HostRule" [] r = "l7" -> "L7Rule"
      [] r \in {"p1", "p2"} -> "HTTPRule" [] r \in {"s1", "s2"} -> "SSORule"
      [] r = "l4" -> "L4Rule" [] r = "hm" -> "HealthMonitor"]
RuleSpec(fqdn, ref, ok, uses, paths, v) ==
    [fqdn |-> fqdn, ref |-> ref, ok |-> ok, uses |-> uses, paths |-> paths, v |-> v]
RuleSpecs == [r \in Rules |->
    CASE r = "h1" -> {RuleSpec("a", None, TRUE, TRUE, {}, 1), RuleSpec("a", "l7", TRUE, FALSE, {}, 2)}
      [] r = "h2" -> {RuleSpec("a", None, TRUE, FALSE, {}, 5), RuleSpec("*", None, TRUE, FALSE, {}, 6)}
      [] r = "h3" -> {RuleSpec("shard", None, TRUE, FALSE, {}, 3), RuleSpec("a", None, FALSE, FALSE, {}, 4),
                      RuleSpec("a", None, TRUE, FALSE, {}, 5)}
      [] r = "l7" -> {RuleSpec("", None, TRUE, TRUE, {}, 1), RuleSpec("", None, TRUE, FALSE, {}, 2)}
      [] r = "p1" -> {RuleSpec("a", None, TRUE, TRUE, {1}, 1), RuleSpec("a", None, TRUE, FALSE, {1, 2}, 2),
                      RuleSpec("b", None, FALSE, FALSE, {2}, 3)}
      [] r = "p2" -> {RuleSpec("a", None, TRUE, FALSE, {2}, 4), RuleSpec("b", None, TRUE, FALSE, {2}, 5)}
      [] r = "s1" -> {RuleSpec("a", None, TRUE, TRUE, {}, 1), RuleSpec("b", None, TRUE, FALSE, {}, 2)}
      [] r = "s2" -> {RuleSpec("a", None, TRUE, FALSE, {}, 4)}
      [] r = "l4" -> {RuleSpec("", "hm", TRUE, FALSE, {}, 1), RuleSpec("", None, TRUE, TRUE, {}, 2),
                      RuleSpec("", "hm", FALSE, FALSE, {}, 3)}
      [] r = "hm" -> {RuleSpec("", None, TRUE, FALSE, {}, 1), RuleSpec("", None, FALSE, FALSE, {}, 1)}]

Crd == INSTANCE CrdRules WITH
    notes <- ruleNotes, queue <- ruleQueue, left <- ruleLeft, happened <- ruleHappened,
    Specs <- RuleSpecs, Worlds <- RuleWorlds, Hosts <- {"a", "b"}, Shard <- "shard",
    Service <- "svc", Annotated <- "l4", Paths <- {1, 2},
    Changes <- RuleChanges, MaxChanges <- MaxRuleChanges

NoRule ==
    /\ world = None /\ api = None /\ wire = None /\ view = None /\ ruleNotes = None
    /\ monitor = None /\ ruleQueue = None /\ building = None /\ lister = None
    /\ node = None /\ avi = None /\ boot = None /\ ruleLeft = None /\ ruleHappened = None

\* One of the initial states of GatewayApi.
Still ==
    /\ class = FALSE /\ secret = 0
    /\ gw = [g \in Gateways |-> None] /\ rt = [r \in Routes |-> None]
    /\ Init

MCInit ==
    \/ part = "gateway" /\ part \in Parts /\ class = TRUE /\ Init /\ NoRule
    \/ part = "rule" /\ part \in Parts /\ Still /\ Crd!Init

MCNext ==
    \/ part = "gateway" /\ Next /\ UNCHANGED <<part, ruleVars>>
    \/ part = "rule" /\ Crd!Next /\ UNCHANGED <<part, vars>>

MCSpec == MCInit /\ [][MCNext]_<<part, vars, ruleVars>>

-----------------------------------------------------------------------------
(***************************************************************************)
(* What the runs check, besides the properties of GatewayApi.              *)
(***************************************************************************)
\* Every variable has its type, in either part; the maps of GatewayStore only
\* hold objects of the kind they are for.
Types == TypeOK /\ (part = "rule" => Crd!TypeOK)

\* At rest every Gateway has the virtual service its listeners call for, with their
\* certificates (GatewaysServed), and the REST layer has the last model
\* (RestIsModel: saveAviModel and the publishing by the turns).
GatewaysInForce == RestIsModel /\ GatewaysServed

\* What is Accepted is what the virtual services carry (RulesApplied of CrdRules:
\* HostRuleToIng, BuildL7HostRule, getL4Rule), no host carries anything of a rule
\* that is gone (NothingOfGoneRules), and an L4Rule is judged by its
\* HealthMonitor as it is now (L4RuleJudged).
RulesInForce ==
    part = "rule" => Crd!RulesApplied /\ Crd!NothingOfGoneRules /\ Crd!L4RuleJudged
=============================================================================
