SPECIFICATION FairSpec
CONSTANTS
  Users <- TwoPeople
  Manual <- Second
  Providers <- OneProvider
  Externals <- TwoAccounts
  Keyed <- OneProvider
  PersonKeys <- OwnKey
  Faces <- OwnFace
  Concurrent = TRUE
  MaxDisturbances = 3
PROPERTIES
  EverybodyLinked
