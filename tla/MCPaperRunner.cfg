SPECIFICATION FairSpec
CONSTANTS
  NumPortfolios = 2
  Interval <- MCInterval
  CycleTimeout = 2
  Malformed = {}
  MaxFaults = 2
INVARIANTS
  TypeOK
  WaitBounded
  PauseStopsCycles
PROPERTIES
  TradersSurvive
  ActiveAreServed
  PausedAreForgotten
