SPECIFICATION Spec
CONSTANTS
  n1 = n1
  n2 = n2
  n3 = n3
  s1 = s1
  s2 = s2
  point = point
  area = area
  NULL = NULL
  Nodes <- One
  Bins <- X
  Ints <- Integers
  Strs <- Strings
  Geos <- Shapes
  Matching <- Matches
  Inside <- Insides
  Colls <- AllColls
  Methods <- AllMethods
  Filters <- AllFilters
  MaxLinks = 1
  Wrap = 4
  Long = 6
  Stored <- OneBin
INVARIANTS MeansTheSame IncompleteRaises
