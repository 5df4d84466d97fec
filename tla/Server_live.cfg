SPECIFICATION FairSpec
CONSTANTS
    Scids = {s1}
    Ips = {ip1}
    NoSlot = NoSlot
    Anonymous = anonymous
    Named = {}
    NoCert = none
    BadCert = bad
    MtlsRequired = FALSE
    Dirs = {d1}
    Ops = {"stat"}
    Acl <- OpenAcl
    MaxTotal = 1
    MaxPerIp = 1
    HandlerWorkers = 1
    MaxGen = 2
    MaxRequests = 2
PROPERTIES RequestsAnswered ShutdownCompletes
CHECK_DEADLOCK FALSE
