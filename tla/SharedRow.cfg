SPECIFICATION SharedSpec
CONSTANTS
  Netuids = {n1, n2}
  NumHotkeys = 1
  Initial = 6
  ReserveTao = 2
  MaxPositions = 1
  Cooldown = 1
  MinTrade = 2
  NoPosition = NoPosition
  Blocks = {1, 2}
  Proceeds = {1, 3}
  Interval = 1
  PaperTradingEnabled = TRUE
INVARIANT FinalStatePersisted
