CONSTANTS
    n1 = n1
    n2 = n2
    Node = {n1, n2}
    NoNode = NoNode
    Space = 3
    Thread = {t1}
    Background = bg
    Tokens <- MCTokens
    Hash <- MCHash
    MaxRetries = 1
    Threshold = 2
    MaxIdle = 0
    Seed = n1
    Unstable = {n1, n2}
    Lag = {n1}
SPECIFICATION FairSpec
INVARIANT TypeOK
PROPERTIES ViewCatchesUp
