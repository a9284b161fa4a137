SPECIFICATION LiveSpec
CONSTANTS
  Netuids = {n1, n2}
  NumHotkeys = 1
  Initial = 10
  ReserveTao = 4
  MaxPositions = 1
  Cooldown = 0
  MinTrade = 2
  MinPoolDepth = 5
  PoolPct = 50
  SinglePct = 50
  SlippagePct = 50
  Strengths = {100}
  Snapshots <- MCMarket
  NoSnapshot = NoSnapshot
  NoPosition = NoPosition
  Wallet = 16
  Fee = 1
  FeeBuffer = 1
  LossPct = 10
  Pools <- MCPools
  Lags = {0}
  Faults = {"cache"}
  MaxFaults = 1
  MaxDividends = 0
  Nothing = Nothing
SYMMETRY Symmetry
INVARIANT TrackerMatchesChain
