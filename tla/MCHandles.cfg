CONSTANTS
  s1 = s1  s2 = s2  s3 = s3  s4 = s4
  Structs <- MCStructs
  NULL = NULL  RUBY = RUBY  CALL = CALL  GONE = GONE
SPECIFICATION Spec
SYMMETRY Symmetry
INVARIANTS OneOwner NothingLost Anchored
CHECK_DEADLOCK FALSE
