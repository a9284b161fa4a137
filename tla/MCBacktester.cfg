SPECIFICATION ReplaySpec
CONSTANTS
  Netuids = {1, 2}
  NumHotkeys = 2
  Initial = 12
  ReserveTao = 4
  MaxPositions = 2
  Cooldown = 2
  MinTrade = 2
  MinPoolDepth = 5
  PoolPct = 50
  SinglePct = 50
  SlippagePct = 50
  Strengths = {100}
  Snapshots <- MCSnapshots
  NoSnapshot = NoSnapshot
  NoPosition = NoPosition
  Ticks = 5
  Histories <- MCHistories
  MinSnapshots = 1
  MaxHold = 4
  RegimeStart = 6
  AnyRegime = AnyRegime
  ShortWindows = {1, 2}
  Day = 1
  ThreeDays = 2
  Week = 2
  Month = 3
  None = None
  EnvCapital = 20
  EnvMinDepth = 5
  EnvMinStake = 5
  EntryPct = 50
  StopLossPct = 20
  StepLimits = {3, 9}
  IdlePenalty = 1
  BarBlocks = 2
INVARIANTS
  RewardsAddUp
  OnlyRankDiffers
  HoldsBounded
  ReplayEndsFlat
PROPERTIES
  ReplayKeepsPortfolio
  DrainNotStarved
