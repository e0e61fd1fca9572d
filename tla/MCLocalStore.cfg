CONSTANTS
  k1 = k1
  k2 = k2
  k3 = k3
  small = small
  medium = medium
  large = large
  Key = {k1, k2, k3, k4}
  Value = {small, medium, large}
  Absent = Absent
  Thread = {t1, t2}
  Shard = {1, 2}
  ShardFor <- MCShardFor
  RequiredSize <- MCRequiredSize
  Capacity = 9
  PageSize = 4
  MinSlotSize = 2
  NumClasses = 2
  MaxEvictAttempts = 1
  NoPtr = NoPtr
SPECIFICATION Spec
SYMMETRY Interchangeable
INVARIANTS SlotsPartitionPages IndexesAgree
PROPERTIES ImplementsCache SweepFindsVictim SecondChance
