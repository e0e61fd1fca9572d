CONSTANTS
    n1 = n1
    n2 = n2
    Node = {n1}
    NoNode = NoNode
    Space = 3
    Thread = {t1, t2}
    Background = bg
    Tokens <- MCTokens
    Hash <- MCHash
    MaxRetries = 0
    Threshold = 2
    MaxIdle = 2
    Seed = n1
    Unstable = {n1}
    Lag = {}
SPECIFICATION FairSpec
INVARIANTS ConnectionsOwned DescriptorsBounded
PROPERTIES HealthyNodeReadmitted DeadNodeShunned
