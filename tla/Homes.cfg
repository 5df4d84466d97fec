SPECIFICATION Spec
CONSTANTS
    Nodes <- SmallTree
    Root <- root
    Trees <- OneTree
    Configs <- SomeConfigs
    NoHome = NoHome
    NoSpec = NoSpec
    temp_name <- partial
    Sessions = {s1, s2}
    Certs <- SomeCerts
    Requests <- SomeRequests
    MaxRequests = 2
SYMMETRY Symmetric
INVARIANTS HomesApart HomesStayReal OpsStayInside
PROPERTIES OnlyOwnerWrites
CHECK_DEADLOCK FALSE
