CONSTANTS
  MaxSize = 1
  Programs <- RaggedPrograms
  BodySizes <- MCBodySizes
  HeaderSize = 15
  BranchSize = 6
  JumpSize = 5
  Garbage = 65535
SPECIFICATION ProgramSpec
INVARIANT
  AsWritten
CHECK_DEADLOCK FALSE
