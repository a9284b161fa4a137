SPECIFICATION LiveSpec
CONSTANTS
  Netuids = {n1, n2}
  NumHotkeys = 1
  Initial = 8
  ReserveTao = 3
  MaxPositions = 2
  Cooldown = 0
  MinTrade = 2
  MinPoolDepth = 5
  PoolPct = 50
  SinglePct = 50
  SlippagePct = 50
  Strengths = {100}
  Snapshots <- MCMarket
  NoSnapshot = NoSnapshot
  NoPosition = NoPosition
  Wallet = 12
  Fee = 1
  FeeBuffer = 1
  LossPct = 20
  Pools <- MCPools
  Lags = {0, 1}
  Faults = {"cache", "rpc", "report", "kill"}
  MaxFaults = 1
  MaxDividends = 1
  Nothing = Nothing
SYMMETRY Symmetry
VIEW View
INVARIANTS
  LiveTypeOK
  
  ClearReadsMatchChain
PROPERTIES
  BookKept
  NothingSentAfterTrip
  KilledUntilRelaunch
