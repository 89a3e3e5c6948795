SPECIFICATION FairSpec
CONSTANTS
  Users <- TwoUsers
  Providers <- OneProvider
  Sizes <- Byte2
  Keeps <- Exact
  Statuses <- Gone
  Degraded <- NoProvider
  WriteBudget <- OneWrite
  StartAccounts <- InUse
  StartPolicy <- Wanted
  Interrupts = TRUE
  Unnoticed <- Anything
  MaxDisturbances = 2
PROPERTIES
  StopsAtFirstError
  RunsEnd
  Converges
