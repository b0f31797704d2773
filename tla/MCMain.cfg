CONSTANTS
  None = None
  Radix = 3
  Byte = 4
  Width = 3
  MaxLength = 4
  MaxDepth = 1
  StackDepth = 2
  File <- MCFile
  Rule <- MCRule
  Line <- MCLine
  Inputs <- MCInputs
SPECIFICATION Spec
INVARIANT TypeOK
INVARIANT GuardIsExact
INVARIANT IdsAreDecoded
INVARIANT StatusIsHonest
INVARIANT ReportIsComplete
PROPERTY Ends
CHECK_DEADLOCK FALSE
