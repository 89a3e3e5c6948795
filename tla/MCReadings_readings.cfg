SPECIFICATION FairSpec
CONSTANTS
  Kilo = 8
  D = 3
  Users <- TwoPeople
  Providers <- TwoServices
  Accounts <- ThreeAccounts
  Lossy <- First
  Bytes <- RoundAndNot
  Uses <- InBetween
  Decisions <- AnyDecision
  Stale = 0
  MaxDisturbances = 3
INVARIANTS
  WritesAreShown
  TotalsAgree
PROPERTIES
  PlannedIsStored
  ProbeAltersNothing
  ShownAgain
CHECK_DEADLOCK FALSE
