SPECIFICATION FairSpec
CONSTANTS
  Keys <- TwoKeys
  Shrinks <- OneShrink
  Filters <- AllOrOne
  Scheduled = TRUE
  MaxDisturbances = 5
INVARIANTS
  TypeOK
  ToldOnce
PROPERTIES
  NewIsTold
  LoopsGoOn
  ShutdownEnds
CHECK_DEADLOCK FALSE
