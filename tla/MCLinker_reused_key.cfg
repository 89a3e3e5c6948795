SPECIFICATION FairSpec
CONSTANTS
  Users <- TwoPeople
  Manual <- NoOne
  Providers <- OneProvider
  Externals <- TwoAccounts
  Keyed <- OneProvider
  PersonKeys <- EitherKey
  Faces <- OwnFace
  Concurrent = FALSE
  MaxDisturbances = 2
PROPERTY
  EverybodyLinked
