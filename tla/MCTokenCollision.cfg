CONSTANTS
  n1 = n1
  n2 = n2
  Node = {n1, n2}
  NoNode = NoNode
  Space = 8
  Key = {k1}
  Value = {v1}
  Absent = Absent
  Client = {c1}
  Tokens <- CollidingTokens
  HashKey <- MCHashKey
  Workload <- Gets
  Unstable = {}
SPECIFICATION FairSpec
PROPERTIES EveryRequestAnswered
CHECK_DEADLOCK FALSE
