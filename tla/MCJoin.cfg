CONSTANTS
  p = p
  q = q
  lib = lib
  ws = ws
  A = A
  B = B
  Unreadable = Unreadable
  Unread = Unread
  None = None
  Manifest <- MCManifest
  Path <- MCPath
  Name <- MCName
  Content <- MCContent
  RootOf <- MCRootOf
  ManifestIn <- MCManifestIn
  File <- MCFile
  Order <- MCOrder
  CrateOf <- MCCrateOf
  Address <- MCAddress
  Trees <- MCTrees
  Sources <- MCSources
SPECIFICATION Spec
INVARIANT MarksAreTrue
INVARIANT SoleDeclarerIsMarked
CHECK_DEADLOCK FALSE
