SPECIFICATION Spec
CONSTANTS
  Users <- TwoPeople
  Manual <- NoOne
  Providers <- OneProvider
  Externals <- TwoAccounts
  Keyed <- OneProvider
  PersonKeys <- EitherKey
  Faces <- EitherFace
  Concurrent = FALSE
  MaxDisturbances = 3
PROPERTIES
  NeverRetargets
  NeverGuesses
  SomebodyStays
