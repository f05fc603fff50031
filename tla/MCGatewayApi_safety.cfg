SPECIFICATION MCSpec
CONSTANTS
    g1 = g1
    g2 = g2
    v1 = v1
    Parts = {"gateway", "rule"}
    Gateways = {g1, g2}
    Routes = {r1}
    Services = {v1}
    GatewaySpecs <- MCGatewaySpecs
    RouteSpecs <- MCRouteSpecs
    None = None
    NilModel = NilModel
    Changes = {"gateway", "route", "secret", "service", "class", "rolled", "crash"}
    MaxChanges = 2
    RuleWorlds = {{"h1", "h2"}, {"h3"}, {"h1", "l7"}, {"p1", "p2"}, {"s1", "s2"}, {"l4", "hm"}}
    RuleChanges = {"put", "move", "contend", "delete", "avi", "ingress", "patch", "restart"}
    MaxRuleChanges = 3
INVARIANT Types
INVARIANT GatewaysInForce
INVARIANT RoutesServed
INVARIANT RulesInForce
CHECK_DEADLOCK FALSE
