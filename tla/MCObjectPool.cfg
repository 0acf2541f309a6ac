CONSTANTS
  PoolSize = 3
  Counts <- MCCounts
  MaxBlocks = 3
SPECIFICATION Spec
INVARIANTS
  TypeOK
  NoBlockLost
  ObjectsDisjoint
  UsedCountExact
  IteratorInOrder
