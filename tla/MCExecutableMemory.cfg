CONSTANTS
  PageSize = 32
  BlockSize = 12
  Lengths <- MCLengths
  GarbageOffsets <- MCGarbage
  MaxCode = 4
SPECIFICATION Spec
INVARIANTS
  TypeOK
  StaysInPage
  CodeIntact
  OnlyTargetWritable
PROPERTY AllocateReturns
CHECK_DEADLOCK FALSE
