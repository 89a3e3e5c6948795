SPECIFICATION Spec
CONSTANTS
  Users <- TwoUsers
  Providers <- TwoProviders
  Sizes <- Bytes0to3
  Keeps <- Rounded
  Statuses <- Gone
  Degraded <- Second
  WriteBudget <- TwoWrites
  StartAccounts <- InUse
  StartPolicy <- RoundedDown
  Interrupts = FALSE
  Unnoticed <- RowsAndEnds
  MaxDisturbances = 2
INVARIANTS
  PlanAgainIsEmpty
PROPERTIES
  ShrinkNeedsConsent
  DryRunForetells
