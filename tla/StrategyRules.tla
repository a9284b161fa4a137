---------------------------- MODULE StrategyRules -----------------------------
(***************************************************************************)
(* When the strategies of trading/strategies/ signal.                      *)
(*                                                                         *)
(* A reading is what a strategy sees of a subnet: its snapshot and the     *)
(* features computed from it.  TAO counts in hundredths, stamps in half    *)
(* hours, returns, volatilities and profits in thousandths, z-scores in    *)
(* tenths, prices in thousandths.  A feature without enough history is     *)
(* Unknown.  Thresholds are the defaults of trading/config.py.             *)
(***************************************************************************)
EXTENDS Amm, FiniteSetsExt, Sequences

CONSTANTS
  Netuids,     \* subnets
  Unknown,     \* a feature without enough history
  TopK,        \* xstmc_top_k, eyc_top_k, xmvb_top_k
  MinUniverse, \* eyc_min_universe, xmvb_min_universe
  DayBars,     \* bars rcb calls 24 hours
  WeekBars,    \* bars rcb calls 7 days, and keeps
  FlowBars,    \* sfb_window_bars, wsi_window_bars
  MinFlows,    \* deltas sfb and wsi ask for before they judge one
  FlowZ,       \* sfb_entry_z
  ShortSpan,   \* rlb_ema_short
  LongSpan,    \* rlb_ema_long
  DrainEpochs  \* dd_consecutive_epochs

ASSUME RulesAssumption ==
  /\ IsFiniteSet(Netuids)
  /\ Unknown \notin Int
  /\ {TopK, MinUniverse, DayBars, WeekBars, FlowBars, MinFlows, FlowZ,
      ShortSpan, LongSpan, DrainEpochs} \subseteq Nat \ {0}
  /\ ShortSpan <= LongSpan

Known(values) == Unknown \notin values

Price(r) == IF LivePool(r.tao, r.alpha) THEN (1000 * r.tao) \div r.alpha ELSE 0

\* A pool holds more than so many TAO.
DeeperThan(r, depth) == r.tao > 100 * depth

\* The guard against entering after the move.
NotChasing(r, limit) == Known({r.pm24}) => r.pm24 <= limit

\* total_stake, or tao_in where the column was never filled.
StakeSignal(r) == IF r.stake > 0 THEN r.stake ELSE r.tao

-------------------------------------------------------------------------------
(* The caches.  They are variables of the strategies' modules: one for all *)
(* portfolios of the process, written while a strategy is asked.           *)

EmptyBoard == [n \in {} |-> 0]
EmptyRanks == [stamp |-> Unknown, board |-> EmptyBoard]

\* A dictionary keeps the place of a key that is written again.
Seat(board, n) == IF n \in DOMAIN board THEN board[n].seat ELSE Cardinality(DOMAIN board) + 1

Put(board, n, score) ==
  [m \in DOMAIN board \cup {n} |->
     IF m = n THEN [score |-> score, seat |-> Seat(board, n)] ELSE board[m]]

\* Faulty: the scores of earlier ticks stay.
PushScoreKeepsOld(c, n, stamp, score) ==
  [stamp |-> stamp,
   board |-> IF Known({score}) THEN Put(c.board, n, score) ELSE c.board]

\* A question at another stamp than the last one empties the board.
PushScore(c, n, stamp, score) ==
  LET board == IF c.stamp = stamp THEN c.board ELSE EmptyBoard
  IN  [stamp |-> stamp,
       board |-> IF Known({score}) THEN Put(board, n, score) ELSE board]

\* Place by score, the highest first; the sort is stable.
Rank(board, n) ==
  1 + Cardinality({m \in DOMAIN board :
        \/ board[m].score > board[n].score
        \/ board[m].score = board[n].score /\ board[m].seat < board[n].seat})

Newest(seq, k) == SubSeq(seq, Max({1, Len(seq) - k + 1}), Len(seq))

NoFlow == [last |-> Unknown, deltas |-> <<>>, delta |-> Unknown]

\* The change since the last question, appended to a bounded buffer.
PushFlow(flow, stake) ==
  IF flow.last = Unknown THEN [NoFlow EXCEPT !.last = stake]
  ELSE [last |-> stake, delta |-> stake - flow.last,
        deltas |-> Newest(Append(flow.deltas, stake - flow.last), FlowBars)]

ColdEma == [n |-> 0, short |-> Unknown, long |-> Unknown]

Smooth(average, price, span) ==
  IF average = Unknown THEN price
  ELSE (2 * price + (span - 1) * average) \div (span + 1)

\* Only whether the averages are warm is asked of the count, so it stops
\* where both are.
EmaStep(ema, price) ==
  [n     |-> Min({ema.n + 1, Max({ShortSpan, LongSpan})}),
   short |-> Smooth(ema.short, price, ShortSpan),
   long  |-> Smooth(ema.long, price, LongSpan)]

\* emission_rate / total_stake
Yield(r) ==
  IF r.stake > 0 /\ r.emission > 0 THEN (1000 * r.emission) \div r.stake ELSE Unknown

\* What each ranking ranks by; xmvb keeps two.
Rankings == {"xstmc", "eyc", "xmvb", "xmvb_vol"}

Score(ranking, r) ==
  CASE ranking = "xstmc"    -> r.pm90
    [] ranking = "eyc"      -> Yield(r)
    [] ranking = "xmvb"     -> r.pm7d
    [] ranking = "xmvb_vol" -> r.vol

RankedBy(strategy) == IF strategy = "xmvb" THEN {"xmvb", "xmvb_vol"} ELSE {strategy}

NoCache ==
  [ranks  |-> [k \in Rankings |-> EmptyRanks],
   prices |-> [n \in Netuids |-> <<>>],
   flows  |-> [s \in {"sfb", "wsi"} |-> [n \in Netuids |-> NoFlow]],
   emas   |-> [n \in Netuids |-> ColdEma]]

\* What the entry questions of the strategies asked leave behind, whether
\* they signal or not.
FedByEntry(c, asked, n, r) ==
  LET ranked == UNION {RankedBy(s) : s \in asked}
  IN  [ranks  |-> [k \in Rankings |->
                     IF k \in ranked THEN PushScore(c.ranks[k], n, r.stamp, Score(k, r))
                     ELSE c.ranks[k]],
       prices |-> IF "rcb" \in asked
                  THEN [c.prices EXCEPT ![n] = Newest(Append(@, Price(r)), WeekBars)]
                  ELSE c.prices,
       flows  |-> [s \in {"sfb", "wsi"} |->
                     IF s \in asked
                     THEN [c.flows[s] EXCEPT ![n] = PushFlow(@, StakeSignal(r))]
                     ELSE c.flows[s]],
       emas   |-> IF "rlb" \in asked /\ Price(r) > 0
                  THEN [c.emas EXCEPT ![n] = EmaStep(@, Price(r))]
                  ELSE c.emas]

-------------------------------------------------------------------------------
(* Entries.                                                                *)

StakeVelocityEntry(r) ==
  /\ Known({r.sv24, r.pm24, r.sv72})
  /\ r.sv24 > 30 /\ r.pm24 < 10
  /\ r.sv24 - r.pm24 > 0
  /\ r.sv72 > 0
  /\ DeeperThan(r, 100)

MeanReversionEntry(r) ==
  /\ Known({r.z, r.vol, r.sv24})
  /\ r.z < -15
  /\ DeeperThan(r, 50)
  /\ r.vol > 10
  /\ r.sv24 >= 0

MomentumEntry(r) ==
  /\ Known({r.pm72, r.sv72, r.vol})
  /\ r.pm72 > 50 /\ r.sv72 > 20
  /\ r.vol < 100
  /\ DeeperThan(r, 50)

LamEntry(r) ==
  /\ Known({r.pm24, r.vol})
  /\ DeeperThan(r, 500)
  /\ r.pm24 > 20 /\ r.vol <= 200
  /\ LivePool(r.tao, r.alpha)

\* pool_depth_change_24h is the 24-hour stake velocity.
PdmrEntry(r) ==
  /\ Known({r.z, r.sv24, r.vol})
  /\ r.z < -20
  /\ DeeperThan(r, 200)
  /\ r.sv24 >= 10
  /\ r.vol > 5

\* xstmc but for the rank.
XstmcGates(r) ==
  /\ Known({r.pm90})
  /\ r.pm90 > 3
  /\ DeeperThan(r, 500)
  /\ NotChasing(r, 150)

XstmcEntry(r, board, n) == XstmcGates(r) /\ Rank(board, n) <= TopK

EycEntry(r, board, n) ==
  /\ Known({Yield(r)})
  /\ DeeperThan(r, 300)
  /\ Rank(board, n) <= TopK
  /\ Cardinality(DOMAIN board) >= MinUniverse
  /\ NotChasing(r, 100)

\* The share of the other volatilities that are lower reaches 0.8.
TooVolatile(vols, n) ==
  10 * Cardinality({m \in DOMAIN vols : vols[m].score < vols[n].score})
    >= 8 * Max({Cardinality(DOMAIN vols) - 1, 1})

XmvbEntry(r, board, vols, n) ==
  /\ Known({r.pm7d, r.vol})
  /\ DeeperThan(r, 300)
  /\ r.pm7d > 0
  /\ Cardinality(DOMAIN board) >= MinUniverse
  /\ Rank(board, n) <= TopK
  /\ ~TooVolatile(vols, n)

Window(prices, bars) == {prices[i] : i \in (Len(prices) - bars + 1) .. Len(prices)}

\* The day's range is at most 0.3 of the week's, and the price within 0.3%
\* of the day's high and above the middle of the week.
RcbEntry(r, prices) ==
  /\ DeeperThan(r, 200) /\ Price(r) > 0
  /\ Len(prices) >= DayBars /\ Len(prices) >= WeekBars
  /\ LET day == Window(prices, DayBars) week == Window(prices, WeekBars)
     IN  /\ Max(week) > Min(week)
         /\ 10 * (Max(day) - Min(day)) <= 3 * (Max(week) - Min(week))
         /\ 1000 * Price(r) >= 997 * Max(day)
         /\ 2 * Price(r) >= Max(week) + Min(week)

\* The newest delta lies FlowZ deviations above the mean of the buffer.
Outlier(flow) ==
  LET d == flow.deltas
      size == Len(d)
      total == MapThenSumSet(LAMBDA i : d[i], DOMAIN d)
      squares == MapThenSumSet(LAMBDA i : d[i] * d[i], DOMAIN d)
      excess == size * flow.delta - total
      spread == size * squares - total * total
  IN  /\ size >= MinFlows
      /\ spread > 0
      /\ excess >= 0 /\ excess * excess >= FlowZ * FlowZ * spread

SfbEntry(r, flow) ==
  /\ Known({flow.delta})
  /\ DeeperThan(r, 200)
  /\ flow.delta > 0
  /\ Outlier(flow)
  /\ NotChasing(r, 200)

\* The newest delta reaches the 97th percentile of the buffer: more deltas
\* than its index lie at or below it.
InTopPercentiles(flow) ==
  LET d == flow.deltas
      index == Min({(97 * Len(d)) \div 100, Len(d) - 1})
  IN  /\ Len(d) >= MinFlows
      /\ Cardinality({i \in DOMAIN d : d[i] <= flow.delta}) > index

WsiEntry(r, flow) ==
  /\ Known({flow.delta})
  /\ DeeperThan(r, 200)
  /\ flow.delta > 0
  /\ InTopPercentiles(flow)
  /\ NotChasing(r, 150)

\* Both averages are warm, the short one leads, and the price has left it
\* by 0.7 of the volatility.
RlbEntry(r, ema) ==
  /\ DeeperThan(r, 300) /\ Price(r) > 0
  /\ Known({r.vol}) /\ r.vol > 0
  /\ ema.n >= ShortSpan /\ ema.n >= LongSpan
  /\ ema.short > ema.long
  /\ 10000 * (Price(r) - ema.short) > 7 * r.vol * Price(r)
  /\ NotChasing(r, 200)

\* The strategies whose last word is a computation left out here: the
\* spread to the best correlated subnet, and the trained policy.
Advised == {"pmr", "rlppo"}

PmrEntry(r, advice) == DeeperThan(r, 200) /\ Price(r) > 0 /\ "pmr" \in advice

RlppoEntry(r, advice) == DeeperThan(r, 300) /\ "rlppo" \in advice

Enters(s, n, r, c, advice) ==
  \/ s = "stake_velocity" /\ StakeVelocityEntry(r)
  \/ s = "mean_reversion" /\ MeanReversionEntry(r)
  \/ s = "momentum"       /\ MomentumEntry(r)
  \/ s = "lam"            /\ LamEntry(r)
  \/ s = "pdmr"           /\ PdmrEntry(r)
  \/ s = "xstmc"          /\ XstmcEntry(r, c.ranks["xstmc"].board, n)
  \/ s = "eyc"            /\ EycEntry(r, c.ranks["eyc"].board, n)
  \/ s = "xmvb" /\ XmvbEntry(r, c.ranks["xmvb"].board, c.ranks["xmvb_vol"].board, n)
  \/ s = "rcb"            /\ RcbEntry(r, c.prices[n])
  \/ s = "sfb"            /\ SfbEntry(r, c.flows["sfb"][n])
  \/ s = "wsi"            /\ WsiEntry(r, c.flows["wsi"][n])
  \/ s = "rlb"            /\ RlbEntry(r, c.emas[n])
  \/ s = "pmr"            /\ PmrEntry(r, advice)
  \/ s = "rlppo"          /\ RlppoEntry(r, advice)

-------------------------------------------------------------------------------
(* Exits.                                                                  *)

\* Hours a strategy holds its positions.
Hold ==
  [xstmc |-> 4, sfb |-> 36, eyc |-> 96, pdmr |-> 48, xmvb |-> 168, lam |-> 24,
   rcb |-> 18, pmr |-> 72, rlb |-> 72, wsi |-> 48]

Stop ==
  [xstmc |-> -30, sfb |-> -50, eyc |-> -60, pdmr |-> -60, xmvb |-> -80, lam |-> -50,
   rcb |-> -40, pmr |-> -60, rlb |-> -40, wsi |-> -60]

TakeProfit ==
  [xstmc |-> 50, sfb |-> 80, eyc |-> 120, lam |-> 100, rcb |-> 80, pmr |-> 100,
   rlb |-> 80, wsi |-> 100]

HeldFor(pos, r, hours) == r.stamp - pos.stamp >= 2 * hours

\* What a sale into the pool of this reading would bring.
Value(pos, r) == SellTao(pos.alpha, r.tao, r.alpha)

AtMost(pos, r, limit)  == 1000 * (Value(pos, r) - pos.tao) <= limit * pos.tao
AtLeast(pos, r, limit) == 1000 * (Value(pos, r) - pos.tao) >= limit * pos.tao

\* Time, stop and target of a strategy, which judges its own positions only.
BracketExit(s, pos, r) ==
  /\ pos.strategy = s
  /\ \/ HeldFor(pos, r, Hold[s])
     \/ LivePool(r.tao, r.alpha) /\ AtMost(pos, r, Stop[s])
     \/ LivePool(r.tao, r.alpha) /\ s \in DOMAIN TakeProfit /\ AtLeast(pos, r, TakeProfit[s])

XstmcExit(pos, r) == BracketExit("xstmc", pos, r)
SfbExit(pos, r)   == BracketExit("sfb", pos, r)
XmvbExit(pos, r)  == BracketExit("xmvb", pos, r)
LamExit(pos, r)   == BracketExit("lam", pos, r)
RcbExit(pos, r)   == BracketExit("rcb", pos, r)
WsiExit(pos, r)   == BracketExit("wsi", pos, r)

PdmrExit(pos, r) ==
  \/ BracketExit("pdmr", pos, r)
  \/ pos.strategy = "pdmr" /\ Known({r.z}) /\ r.z > 0

\* Advised: the spread has closed.
PmrExit(pos, r, advice) ==
  \/ BracketExit("pmr", pos, r)
  \/ pos.strategy = "pmr" /\ "pmr" \in advice

RlppoExit(pos, advice) == pos.strategy = "rlppo" /\ "rlppo" \in advice

\* default_hold_hours; these three judge every position, whoever opened it.
DefaultHold == 168

MomentumExit(pos, r) ==
  \/ HeldFor(pos, r, DefaultHold)
  \/ Known({r.pm24}) /\ r.pm24 < -30

MeanReversionExit(pos, r) ==
  \/ HeldFor(pos, r, DefaultHold)
  \/ Known({r.z}) /\ r.z > 0

StakeVelocityExit(pos, r) ==
  \/ HeldFor(pos, r, DefaultHold)
  \/ Known({r.sv24}) /\ r.sv24 < -20
  \/ Known({r.pm24}) /\ r.pm24 > 100

\* The exit question of eyc registers the yield, unless the bracket or a
\* missing yield answered it before.
EycLooks(pos, r) ==
  pos.strategy = "eyc" /\ ~BracketExit("eyc", pos, r) /\ Known({Yield(r)})

\* Faulty: the exit question reads the board as it stands.
FedByExitNot(c, asked, n, r, pos) == c

FedByExit(c, asked, n, r, pos) ==
  IF "eyc" \in asked /\ EycLooks(pos, r)
  THEN [c EXCEPT !.ranks["eyc"] = PushScore(@, n, r.stamp, Yield(r))]
  ELSE c

RankExit(n, r, c, pos) ==
  /\ EycLooks(pos, r)
  /\ n \in DOMAIN c.ranks["eyc"].board
  /\ Rank(c.ranks["eyc"].board, n) > 2 * TopK

TrendFlipped(ema) == ema.n > 0 /\ ema.short < ema.long

RlbExit(n, pos, r, c) ==
  \/ BracketExit("rlb", pos, r)
  \/ pos.strategy = "rlb" /\ TrendFlipped(c.emas[n])

EycExit(n, pos, r, c) == BracketExit("eyc", pos, r) \/ RankExit(n, r, c, pos)

\* A streak of draining readings, on a position older than six hours.
DrainExit(pos, r, streak) == streak >= DrainEpochs /\ HeldFor(pos, r, 6)

Leaves(s, n, r, c, pos, streak, advice) ==
  \/ s = "drain_exit"     /\ DrainExit(pos, r, streak)
  \/ s = "momentum"       /\ MomentumExit(pos, r)
  \/ s = "mean_reversion" /\ MeanReversionExit(pos, r)
  \/ s = "stake_velocity" /\ StakeVelocityExit(pos, r)
  \/ s = "xstmc" /\ XstmcExit(pos, r)
  \/ s = "sfb"   /\ SfbExit(pos, r)
  \/ s = "eyc"   /\ EycExit(n, pos, r, c)
  \/ s = "pdmr"  /\ PdmrExit(pos, r)
  \/ s = "xmvb"  /\ XmvbExit(pos, r)
  \/ s = "lam"   /\ LamExit(pos, r)
  \/ s = "rcb"   /\ RcbExit(pos, r)
  \/ s = "pmr"   /\ PmrExit(pos, r, advice)
  \/ s = "rlb"   /\ RlbExit(n, pos, r, c)
  \/ s = "rlppo" /\ RlppoExit(pos, advice)
  \/ s = "wsi"   /\ WsiExit(pos, r)

\* stake_velocity runs under the Taoflow regimes only.
CanRun(s, r) == s = "stake_velocity" => r.taoflow

\* DrainDetector.update; the streak is only compared with DrainEpochs.
DrainUpdate(streak, r) ==
  IF ~Known({r.sv24}) THEN streak
  ELSE IF r.sv24 < -30 THEN Min({streak + 1, DrainEpochs})
  ELSE 0
===============================================================================
