SPECIFICATION BatchSpec
CONSTANTS
  NONE = NONE
  Namespaces <- TwoNamespaces
  Ids <- TwoIds
  MaxKeys = 3
INVARIANTS BatchTypeOK ExistsTells ReadTells
CHECK_DEADLOCK FALSE
