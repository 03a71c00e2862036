SPECIFICATION Spec
CONSTANTS
    Ips = {i1, i2}
    PoolSize = 2
    Ttl = 1
    Secrets = {s1, s2}
    Default = d
    MaxNonces = 3
    MaxCuts = 1
SYMMETRY Symmetry
INVARIANT AdminTypeOK
INVARIANT AtMostOnce
INVARIANT LiveNonceServes
INVARIANT SecretKnown
PROPERTY ImplementsPermit
CHECK_DEADLOCK FALSE
