SPECIFICATION Spec
CONSTANTS
  n1 = n1
  n2 = n2
  n3 = n3
  p1 = p1
  p2 = p2
  Netuids = {n1, n2, n3}
  Portfolios = {p1, p2}
  Unknown = Unknown
  Nobody = Nobody
  NoPosition = NoPosition
  TopK = 1
  MinUniverse = 2
  DayBars = 2
  WeekBars = 3
  FlowBars = 3
  MinFlows = 2
  FlowZ = 1
  ShortSpan = 2
  LongSpan = 3
  DrainEpochs = 2
  PoolPct = 2
  Scenarios <- MCScenarios
INVARIANTS
  LeadersSignalled
  RankExitsTrail
  FreshPositionsKept
