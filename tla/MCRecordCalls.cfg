SPECIFICATION Spec
CONSTANTS
  c1 = c1
  c2 = c2
  c3 = c3
  NULL = NULL
  Calls <- Three
  Kinds <- AllKinds
  Options <- SomeOptions
SYMMETRY CallSymmetry
INVARIANTS TypeOK CounterBounds OneCreator SettledReads
CHECK_DEADLOCK FALSE
