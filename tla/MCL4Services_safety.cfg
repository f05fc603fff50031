SPECIFICATION MCSpec
CONSTANTS
    Parts = {"l4", "status"}
    s1 = s1
    s2 = s2
    k1 = k1
    k2 = k2
    p1 = p1
    p2 = p2
    n1 = n1
    o1 = o1
    o2 = o2
    A = A
    B = B
    Services = {s1, s2}
    VipKeys = {k1, k2}
    Pods = {p1, p2}
    Nodes = {n1}
    Referenced = {s1}
    ServiceOf <- MCServiceOf
    NodeOf <- MCNodeOf
    Specs <- MCSpecs
    Modes = {"clusterip", "nodeport", "npl"}
    Tenants = {t1, t2}
    Default = t1
    None = None
    Nil = Nil
    MaxChanges = 3
    Changes = {"put", "delete", "error", "pod", "node", "namespace", "rule", "infra"}
    StatusKinds = {"ingress", "route", "service", "mci"}
    StatusChanges = {"error", "restart", "follower", "host", "admit", "delete", "usable"}
    MaxStatusChanges = 1
INVARIANT Types
INVARIANT ServicesServed
INVARIANT StatusInForce
INVARIANT UpdatesNeverOverlap
CHECK_DEADLOCK FALSE
