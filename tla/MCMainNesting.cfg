CONSTANTS
  None = None
  Radix = 3
  Byte = 4
  Width = 3
  MaxLength = 4
  MaxDepth = 1
  StackDepth = 2
  File <- MCFile
  Rule <- MCRule
  Line <- MCLine
  Inputs <- MCNestings
SPECIFICATION Spec
INVARIANT ProcessSurvives
CHECK_DEADLOCK FALSE
