SPECIFICATION Spec
CONSTANTS
  Months = 4
  MonthStart <- Calendar
  FullBps = 8
  Basis = 4
  None = None
  Homes <- EarlyHomes
  Candidates <- CardSpending
  Edits <- SwitchesOfMode
  Windows <- SomeWindows
  VoidDates <- SomeDates
  MaxChanges = 8
INVARIANT RecognizedOnce
