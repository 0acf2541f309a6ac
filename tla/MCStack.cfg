CONSTANTS
  a = a
  b = b
  garbage = garbage
  PoolSize = 2
  Value <- MCValue
  Garbage <- garbage
  MaxBlocks = 3
SPECIFICATION Spec
INVARIANTS
  TypeOK
  ChainOK
PROPERTY ImplementsLifo
