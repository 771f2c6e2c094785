SPECIFICATION FairSpec
CONSTANTS
  t1 = t1
  t2 = t2
  ruby = ruby
  r1 = r1
  r2 = r2
  v1 = v1
  b1 = b1
  Workers <- Pool
  Ruby = ruby
  Records <- TwoRecords
  Values <- OneValue
  Opaque <- OneOpaque
  First = first
  NULL = NULL
INVARIANTS IInv NoResultLost FreedOnce AllReleased
PROPERTIES ImplementsContract Terminates
