CONSTANTS
  File <- MCFile
  Order <- MCOrder
  Crates <- MCCrates
  Fuzz <- MCFuzz
  CrateRoots <- MCCrateRoots
  TestRoots <- MCTestRoots
  Flag <- MCFlag
  Predicate <- MCPredicate
  Trees <- MCTrees
  Gone = Gone
  None = None
SPECIFICATION ScopeSpec
INVARIANT ShippedCodeIsReported
INVARIANT TestModulesAreSilent
CHECK_DEADLOCK FALSE
