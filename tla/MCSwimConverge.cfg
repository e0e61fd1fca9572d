CONSTANTS
    n1 = n1
    n2 = n2
    n3 = n3
    Node = {n1, n2}
    NoNode = NoNode
    Port <- MCPorts
    Base = 8
    Address <- MCAddress
    Seed <- SeedFirst
    Prober = {n1, n2}
    IndirectPeers = 3
    MaxPiggyback = 8
    MaxTransmissions = 1
    Faults <- Lossy
    MaxIncarnation = 1
    MaxInFlight = 1
    MaxRelays = 1
SPECIFICATION FairSpec
PROPERTY
    RingsConverge
CHECK_DEADLOCK FALSE
