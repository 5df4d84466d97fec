SPECIFICATION Spec
CONSTANTS
    Clients = {c1, c2}
    Servers = {"s1", "s2"}
    Silent = "silent"
    resolved <- TwoAddresses
    Certs <- SomeCerts
    Chained <- AllChained
    San <- SomeSan
    Cn <- SomeCn
    Launches <- FourLaunches
    Renewed = {"wild", "deep"}
    InitialAddrs <- SomeAddrs
    Junk = "junk"
    NoCert = "none"
    NoTicket = NoTicket
    TicketTtl = 0
    SkewGrace = 1
    InitialLines <- SomeLines
    InitialTickets <- OldTickets
    InitialCerts <- SomeServers
    MaxTime = 2
    MaxSkew = 1
    MaxRuns = 2
    MaxChanges = 1
INVARIANTS SessionsHonourPin TicketsBound CaSessionsNamed
PROPERTIES TicketsExpire
CHECK_DEADLOCK FALSE
SYMMETRY Symmetric
