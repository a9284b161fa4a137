SPECIFICATION FairSpec
CONSTANTS
  NumPortfolios = 2
  Interval <- MCInterval
  CycleTimeout = 2
  Malformed = {1}
  MaxFaults = 0
PROPERTY ActiveAreServed
