CONSTANTS
  n1 = n1
  n2 = n2
  Node = {n1, n2}
  NoNode = NoNode
  Space = 8
  Key = {k1}
  Value = {v1}
  Absent = Absent
  Client = {c1, c2}
  Tokens <- MCTokens
  HashKey <- MCHashKey
  Workload <- AllRequests
  Unstable = {n2}
SPECIFICATION FairSpec
INVARIANTS TypeOK ForwardingDescends NoCircularWait FetchesCollapse
PROPERTIES EveryRequestAnswered
CHECK_DEADLOCK FALSE
