SPECIFICATION FairSpec
CONSTANTS
  t1 = t1
  t2 = t2
  t3 = t3
  Ruby = ruby
  Pool <- ThreeThreads
  NULL = NULL
  MaxResults = 3
  MaxCalls = 5
  MaxDepth = 4
INVARIANTS IInv OneInside HoldsBalanced StuckOnlyThen
PROPERTIES StuckForGood CallsEnd
CHECK_DEADLOCK FALSE
