CONSTANTS
  o1 = o1  o2 = o2  a1 = a1  a2 = a2  x = x  y = y
  Objects <- MCObjects
  Arrays <- MCArrays
  Bins <- MCBins
  Ttls <- MCTtls
  Values <- MCValues
  IntMax = 3
  Methods <- MCMethods
  Hashes <- MCHashes
  Points <- MCPoints
  Geos <- MCGeos
  MaxCalls = 4
  MaxItems = 3
  SYMBOL = SYMBOL  UNSET = UNSET  GARBAGE = GARBAGE  STALE = STALE  NULL = NULL
SPECIFICATION Spec
SYMMETRY Symmetry
CONSTRAINT NothingSent
INVARIANTS TypeOK OperationsAsAsked QueriesAsAsked ShapesAsAsked
CHECK_DEADLOCK FALSE
