SPECIFICATION Spec
CONSTANTS
  NULL = NULL
  Half = 4
  MaxDepth = 2
  MaxList = 2
  Names <- SmallNames
  Contents <- SmallContents
  Hashes <- SmallHashes
  Changes <- SmallChanges
  Appended <- SmallAppended
  Foreign <- SmallForeign
INVARIANT ScanAgrees
CHECK_DEADLOCK FALSE
