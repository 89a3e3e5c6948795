SPECIFICATION Spec
CONSTANTS
  Users <- TwoUsers
  Providers <- OneProvider
  Sizes <- Byte2
  Keeps <- Exact
  Statuses <- AnyFate
  Degraded <- NoProvider
  WriteBudget <- TwoWrites
  StartAccounts <- AnyUse
  StartPolicy <- AnyTier
  Interrupts = TRUE
  Unnoticed <- Anything
  MaxDisturbances = 2
INVARIANTS
  Inductive
  HonestReport
  EveryWriteAudited
PROPERTIES
  KeepsPromise
  NeverBlind
