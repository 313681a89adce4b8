SPECIFICATION Spec
CONSTANTS
  Months = 4
  MonthStart <- Calendar
  Accounts <- EveryAccount
  Candidates <- SomeEvents
  Edits <- SomeEdits
  Basis = 4
  FirstRead = 0
  MaxChanges = 3
  None = None
INVARIANTS
  CyclesTile
  InterestIsCountedOnce
PROPERTIES
  PinnedInterestStands
  ClosedStatementsStand
  PaymentsNeverCost
  RateEditsKeepThePast
CHECK_DEADLOCK FALSE
