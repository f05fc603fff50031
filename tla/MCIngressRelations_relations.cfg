SPECIFICATION MCSpec
CONSTANTS
    s1 = s1 s2 = s2 tls1 = tls1 c1 = c1
    Ingresses = {i1, i2}
    Services = {s1, s2}
    Secrets = {tls1}
    Classes = {c1}
    Contents = {v0, v1}
    Specs <- MCSpecs
    NoClass = NoClass
    NoSecret = NoSecret
    None = None
    Parts = {"relations", "l7"}
    e1 = e1 e2 = e2
    hostA = hostA hostB = hostB root = root sub = sub
    Modes = {"sni", "evh"}
    Policies = {FALSE}
    L7Changes = {"put", "delete", "secret", "setting"}
    MaxL7Changes = 3
    MaxEdits = 4
SYMMETRY MCSymmetry
INVARIANT TypeOK
INVARIANT MapsInverse
INVARIANT NoStaleModel
INVARIANT KnownIsBuilt
INVARIANT L7AsAsked
CHECK_DEADLOCK FALSE
