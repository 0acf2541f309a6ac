CONSTANTS
  Rules <- Scheme
  Nodes <- MCNodes
  Root <- SchemeRoot
  Sources <- MCTouching
  Followers = {}
  MaxSolved = 0
SPECIFICATION Spec
INVARIANT AcceptsLanguage
CHECK_DEADLOCK FALSE
