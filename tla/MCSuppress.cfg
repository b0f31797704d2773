CONSTANTS
  Line <- MCLine
  Sources <- MCSources
SPECIFICATION Spec
INVARIANT TypeOK
INVARIANT SilencedByItsBlock
INVARIANT MarkerIsHonoured
CHECK_DEADLOCK FALSE
