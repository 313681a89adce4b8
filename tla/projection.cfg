SPECIFICATION Spec
CONSTANTS
  Months = 4
  MonthStart <- Calendar
  FullBps = 8
  Basis = 4
  None = None
  Homes <- SomeHomes
  Candidates <- SomeEvents
  Edits <- SomeEdits
  Windows <- SomeWindows
  VoidDates <- SomeDates
  MaxChanges = 8
INVARIANTS
  RecognizedOnce
  SavingsAgree
  DrawsAreJudgedByTheBalance
  NothingPaidIsLost
  ArrearsAreWarnedOf
  BreakdownsAddUp
  InterestIsChartedWhereItCounts
  NetWorthIsExplained
PROPERTIES
  AllocationIsLocal
  ReadsAreReproducible
  VoidsAreFinal
