SPECIFICATION Spec
CONSTANTS
    Scids = {s1, s2}
    Ips = {ip1, ip2, ip3}
    NoSlot = NoSlot
    Anonymous = anonymous
    Named = {alice}
    NoCert = none
    BadCert = bad
    MtlsRequired = TRUE
    Dirs = {d1}
    Ops = {"cd", "rm", "quit"}
    Acl <- TieredAcl
    MaxTotal = 2
    MaxPerIp = 1
    HandlerWorkers = 2
    MaxGen = 2
    MaxRequests = 3
CONSTRAINT FewRequests
SYMMETRY Symmetric
INVARIANTS OneJobPerConnection EveryRequestAccounted RunsInOrder RepliesToOwner
           RunsAsAdmitted CwdInsideHome SlotsExact
CHECK_DEADLOCK FALSE
