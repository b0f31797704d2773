CONSTANTS
  File <- MCFile
  Order <- MCOrder
  CrateOf <- MCCrateOf
  RootOf <- MCRootOf
  TestPath <- MCTestPath
  Unchecked <- MCUnchecked
  InScan <- MCInScan
  Struct <- MCStruct
  Ident <- MCIdent
  Line <- MCLine
  Content <- MCContent
  Trees <- MCTrees
  Broken = Broken
  Gone = Gone
  None = None
  MaxEdits = 1
SPECIFICATION Spec
INVARIANT TypeOK
INVARIANT NothingVanishes
INVARIANT QuietScanIsExact
INVARIANT FindingsAreExplained
PROPERTY Terminates
CHECK_DEADLOCK FALSE
