SPECIFICATION Spec
CONSTANTS
  Users <- TwoPeople
  Manual <- NoOne
  Providers <- TwoProviders
  Externals <- TwoAccounts
  Keyed <- OneProvider
  PersonKeys <- OwnKey
  Faces <- BySubject
  Concurrent = TRUE
  MaxDisturbances = 2
INVARIANTS
  OnePersonPerAccount
PROPERTIES
  OwnersAgree
  CyclesSettle
