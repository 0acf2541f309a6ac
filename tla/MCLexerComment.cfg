CONSTANTS
  Sources <- MCSources
  MaxTokenLength = 5
SPECIFICATION Spec
INVARIANT CommentsSkipped
CHECK_DEADLOCK FALSE
