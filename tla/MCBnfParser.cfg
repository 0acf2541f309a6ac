CONSTANTS
  Rules <- Scheme
  Nodes <- MCNodes
  Root <- SchemeRoot
  Sources <- MCSeparated
  Followers <- MCFollowers
  MaxSolved = 1
SPECIFICATION Spec
INVARIANTS
  TypeOK
  StateCountsChildren
  FramesJoin
  AcceptsLanguage
  ErrorBehindValidPart
  TreeIsMeant
PROPERTY ParsingEnds
CHECK_DEADLOCK FALSE
