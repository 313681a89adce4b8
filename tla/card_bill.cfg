SPECIFICATION Spec
CONSTANTS
  Months = 4
  MonthStart <- Calendar
  FullBps = 8
  Basis = 4
  None = None
  Homes <- LateHomes
  Candidates <- BillsOnTheCard
  Edits <- SomeEdits
  Windows <- SomeWindows
  VoidDates <- SomeDates
  MaxChanges = 8
INVARIANT RecognizedOnce
