CONSTANTS
    p1 = p1
    p2 = p2
    Peer = {p1, p2}
    NoPeer = NoPeer
    Call = {c1, c2}
    Request <- MCRequest
    ValueLen = {0, 1, 2}
    HeaderLen = 1
    KeyMod = 4
    Buffers = 1
    BufferSize = 1
    Socket <- MCSocket
    Unstable = {p1}
    Silent = {p2}
SPECIFICATION FairSpec
INVARIANTS ConnectionsOwned BuffersOwned RequestsIntact PoolWithinPeak
PROPERTIES AnswersMatch CallsEnd FailuresCease
