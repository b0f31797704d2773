CONSTANTS
  Dir <- MCDir
  Content <- MCContent
  Trees <- MCTrees
  Broken = Broken
  Gone = Gone
  Unread = Unread
  None = None
  MaxEdits = 1
SPECIFICATION Spec
INVARIANT TypeOK
INVARIANT QuietAnswersAreCorrect
INVARIANT OneVerdictPerRoot
PROPERTY ResolveReturns
CHECK_DEADLOCK FALSE
