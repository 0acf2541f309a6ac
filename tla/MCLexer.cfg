CONSTANTS
  Sources <- MCSources
  MaxTokenLength = 5
SPECIFICATION Spec
INVARIANTS TypeOK TokensHoldMeaning LayoutIrrelevant
PROPERTY LexingEnds
CHECK_DEADLOCK FALSE
