CONSTANTS
  ws = ws
  a = a
  b = b
  Unreadable = Unreadable
  Unread = Unread
  None = None
  Manifest <- MCManifest
  Path <- MCPath
  Name <- MCName
  Content <- MCContent
  RootOf <- MCRootOf
  ManifestIn <- MCManifestIn
  MaxCalls = 2
  MaxEdits = 1
SPECIFICATION Spec
INVARIANT TypeOK
INVARIANT ClosureIsLeast
INVARIANT AnswersAgree
PROPERTY ExpandedOnce
PROPERTY CallReturns
PROPERTY ImplementsClosure
CHECK_DEADLOCK FALSE
