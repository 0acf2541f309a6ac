CONSTANTS
  MaxSize = 4
  Programs <- MCPrograms
  BodySizes <- MCBodySizes
  HeaderSize = 15
  BranchSize = 6
  JumpSize = 5
  Garbage = 65535
SPECIFICATION ProgramSpec
INVARIANTS
  TypeOK
  BuiltIsWellFormed
  SuccessorsFollow
  AsWritten
  StopsOnlyForReturns
PROPERTY
  ReturnsToCaller
CHECK_DEADLOCK FALSE
