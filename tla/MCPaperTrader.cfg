SPECIFICATION PTSpec
CONSTANTS
  Netuids = {n1, n2}
  NumHotkeys = 2
  Initial = 12
  ReserveTao = 4
  MaxPositions = 2
  Cooldown = 2
  MinTrade = 2
  MinPoolDepth = 5
  PoolPct = 50
  SinglePct = 50
  SlippagePct = 50
  Strengths = {100}
  Snapshots <- MCMarket
  NoSnapshot = NoSnapshot
  NoPosition = NoPosition
  NoRow = NoRow
  MaxFaults = 1
SYMMETRY Symmetry
VIEW View
INVARIANTS
  PTTypeOK
  StatsExplainValue
  MemoryMatchesDatabase
  DurableLimits
  RowsHaveTrades
PROPERTIES
  KeepsPortfolio
  CompleteCycleRepairs
