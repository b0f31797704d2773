CONSTANTS
  Dir <- MCDir
  Content <- MCNestedContent
  Trees <- MCNestedTrees
  Broken = Broken
  Gone = Gone
  Unread = Unread
  None = None
  MaxEdits = 0
SPECIFICATION Spec
INVARIANT RootIsCargos
CHECK_DEADLOCK FALSE
