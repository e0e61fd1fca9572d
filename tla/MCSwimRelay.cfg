CONSTANTS
    n1 = n1
    n2 = n2
    n3 = n3
    Node = {n1, n2, n3}
    NoNode = NoNode
    Port <- MCPorts
    Base = 8
    Address <- MCAddress
    Seed <- SeedFirst
    Prober = {n1}
    IndirectPeers = 1
    MaxPiggyback = 8
    MaxTransmissions = 2
    Faults <- Lossy
    MaxIncarnation = 1
    MaxInFlight = 2
    MaxRelays = 1
SPECIFICATION FormedSpec
INVARIANTS
    TypeOK
    IncarnationsOwned
PROPERTY
    NoStaleRevival
CHECK_DEADLOCK FALSE
SYMMETRY RelaySymmetry
