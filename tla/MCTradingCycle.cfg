SPECIFICATION Spec
CONSTANTS
  Netuids = {n1, n2}
  NumHotkeys = 2
  Initial = 12
  ReserveTao = 4
  MaxPositions = 1
  Cooldown = 2
  MinTrade = 2
  MinPoolDepth = 5
  PoolPct = 50
  SinglePct = 50
  SlippagePct = 50
  Strengths = {75, 100}
  Snapshots <- MCMarket
  NoSnapshot = NoSnapshot
  NoPosition = NoPosition
SYMMETRY Symmetry
INVARIANTS
  TypeOK
  LimitsKept
  LogExplainsPositions
  OneTradePerSubnet
  EquityConserved
  HotkeySpacing
PROPERTY ImplementsPortfolio
