SPECIFICATION Spec
CONSTANTS
    c1 = c1  c2 = c2
    a1 = a1  a2 = a2  a3 = a3  a4 = a4
    k1 = k1  k2 = k2  k3 = k3
    Clients = {c1, c2}
    Addrs = {a1, a2, a3, a4}
    Keys = {k1, k2, k3}
    bucket_key <- ThreePrefixes
    Owner <- TwoOwners
    Scids = {s1}
    NoConn = NoConn
    NoToken = NoToken
    Rate = 1
    Burst = 2
    Cost = 2
    MaxTracked = 2
    EvictSample = 1
    SweepInterval = 1
    IdleCutoff = 2
    RequireRetry = TRUE
    Lifetime = 0
    MaxTotal = 1
    MaxPerIp = 1
    MaxTime = 2
    MaxWall = 1
    MaxEpoch = 1
INVARIANTS RateBounded TableBounded AddressValidated
CHECK_DEADLOCK FALSE
