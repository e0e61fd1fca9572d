CONSTANTS
    n1 = n1
    n2 = n2
    n3 = n3
    Node = {n1, n2}
    NoNode = NoNode
    Port <- MCPorts
    Base = 8
    Address <- MCAddress
    Seed <- SeedFirst
    Prober = {n1, n2}
    IndirectPeers = 0
    MaxPiggyback = 8
    MaxTransmissions = 1
    Faults <- AllFaults
    MaxIncarnation = 1
    MaxInFlight = 1
    MaxRelays = 1
SPECIFICATION FairFormedSpec
INVARIANTS
    SelfAlive
    RingFollowsMembers
    DatagramsReadBack
    ViewsReadBack
PROPERTIES
    NoStaleRevival
    CrashedLeaveRings
CHECK_DEADLOCK FALSE
