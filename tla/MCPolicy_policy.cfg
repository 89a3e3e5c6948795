SPECIFICATION Spec
CONSTANTS
  Half = 128
  People <- Two
  Providers <- Two
  Groups <- Two
  Ids <- Two
  Names <- AllNames
  Folded <- Fold
  MemberOf <- Members
  Typed <- SomeTyped
  Drafts <- SomeDrafts
  Rows <- SomeRows
  Start <- EmptyOrFurnished
  Norm <- Stored
  Grain = 2
  Coarse = 2
  MaxEdits = 2
INVARIANTS
  TiersHold
  PlanIsPolicy
  NeverInvents
  AdoptedPlanIsEmpty
PROPERTIES
  StricterNeverRestricts
  EditIsLocal
CHECK_DEADLOCK FALSE
