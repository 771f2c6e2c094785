SPECIFICATION Spec
CONSTANTS
  n1 = n1
  n2 = n2
  n3 = n3
  s1 = s1
  s2 = s2
  point = point
  area = area
  NULL = NULL
  Nodes <- Three
  Bins <- None
  Ints <- OnlyOne
  Strs <- None
  Geos <- None
  Matching <- None
  Inside <- None
  Colls <- None
  Methods <- OneMethod
  Filters <- Equal
  MaxLinks = 3
  Wrap = 4
  Long = 6
  Stored <- Updated
SYMMETRY NodeSymmetry
INVARIANTS MeansTheSame IncompleteRaises
