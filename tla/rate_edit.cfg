SPECIFICATION Spec
CONSTANTS
  Months = 4
  MonthStart <- Calendar
  Accounts <- LateAccount
  Candidates <- SomeEvents
  Edits <- SomeEdits
  Basis = 4
  FirstRead = 5
  MaxChanges = 2
  None = None
PROPERTY RateEditsKeepThePast
CHECK_DEADLOCK FALSE
