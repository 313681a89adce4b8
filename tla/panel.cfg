SPECIFICATION Spec
CONSTANTS
  None = None
  PageSize = 2
  Stored <- SomeStored
  Candidates <- SomeCandidates
  Filters <- SomeFilters
  MaxFetches = 3
INVARIANTS
  PagesNeitherSkipNorRepeat
  VoidsShowOnTheirTargets
PROPERTIES
  MoreShowsMore
  BusyEnds
CHECK_DEADLOCK FALSE
