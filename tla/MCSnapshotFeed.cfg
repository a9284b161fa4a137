SPECIFICATION Spec
CONSTANTS
  Netuids = {n1, n2}
  BarLength = 2
  Cap = 2
  SeedWindow = 4
  SeedLimit = 3
  NoSample = NoSample
  MaxTime = 6
  MaxFaults = 2
  Excluded = {}
  MinDepth = 2
  Capital = 2
  PriceUnit = 4
  TaoIn <- MCTaoIn
  AlphaPrice <- MCAlphaPrice
CHECK_DEADLOCK FALSE
INVARIANTS
  SamplesInOrder
  NewestPerBarKept
  BenchmarkIsBuyAndHold
PROPERTIES
  NewestNeverGoesBack
  StreamComesBack
