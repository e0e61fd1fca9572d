CONSTANTS
  n1 = n1
  n2 = n2
  Node = {n1, n2}
  NoNode = NoNode
  Space = 8
  Key = {k1}
  Value = {v1, v2}
  Absent = Absent
  Client = {c1, c2, c3, c4}
  Tokens <- MCTokens
  HashKey <- MCHashKey
  Workload <- ReadWrite
  Unstable = {}
SPECIFICATION FreshSpec
SYMMETRY Interchangeable
INVARIANTS ReadsAreFresh
CHECK_DEADLOCK FALSE
