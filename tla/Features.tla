-------------------------------- MODULE Features --------------------------------
(***************************************************************************)
(* FeatureEngine.compute (trading/features.py): the indicators of one      *)
(* subnet at index i of a list of its bars.  A bar is a record with        *)
(* tao_in, alpha_in and price.  Means, deviations and ratios stay exact:   *)
(* a ratio is a pair, and a deviation is known by the terms it is computed *)
(* from.  Copies and differences of other features are left out.           *)
(***************************************************************************)
EXTENDS Integers, Sequences, FiniteSets, Functions

CONSTANTS
  ShortWindows,                \* 30 to 120 minutes, in bars
  Day, ThreeDays, Week, Month, \* w_24h, w_72h, w_7d, w_30d, in bars
  None                         \* a feature without enough history

ASSUME WindowsAssumption ==
  /\ ShortWindows \cup {Day, ThreeDays, Week, Month} \subseteq Nat \ {0}
  /\ \A w \in ShortWindows : w < Month
  /\ Day <= ThreeDays /\ ThreeDays <= Week /\ Week < Month
  /\ None \notin Nat \X Nat

PctChange(current, past) == IF past = 0 THEN None ELSE <<current - past, past>>

\* Faulty: the window is counted from the end of the list.
LookbackFromEnd(bars, i, window, attr) ==
  IF i <= window THEN None ELSE PctChange(bars[i][attr], bars[Len(bars) - window][attr])

Lookback(bars, i, window, attr) ==
  IF i <= window THEN None ELSE PctChange(bars[i][attr], bars[i - window][attr])

Squares(values) == [k \in DOMAIN values |-> values[k] * values[k]]

\* n * n times the variance: what _std takes the root of.  Values are a
\* function on the positions they are taken from.
Spread(values) ==
  Cardinality(DOMAIN values) * SumFunction(Squares(values))
    - SumFunction(values) * SumFunction(values)

\* (current - mean) / deviation, by its terms.
ZScore(values, current) ==
  LET count == Cardinality(DOMAIN values)
  IN  IF count < 3 THEN None
      ELSE IF Spread(values) <= 0 THEN <<0, 1>>
      ELSE <<count * current - SumFunction(values), Spread(values)>>

\* The last bars up to i, once there are that many; prices of zero are left out.
PriceZScore(bars, i, window) ==
  LET price(k) == bars[i - window + k].price
      known    == {k \in 1 .. window : price(k) # 0}
  IN  IF known = {} THEN None ELSE ZScore([k \in known |-> price(k)], bars[i].price)

\* _rolling_return_std: returns in hundredths, from every priced bar to the next.
Volatility(bars, i, window) ==
  LET price(k) == bars[i - window + k].price
      priced   == {k \in 1 .. window - 1 : price(k) > 0}
      returns  == [k \in priced |-> (100 * price(k + 1)) \div price(k) - 100]
  IN  IF window < 3 \/ Cardinality(priced) < 2 THEN None
      ELSE <<Cardinality(priced), Spread(returns)>>

\* What compute makes of the subnet's own history.
Indicators(bars, i) ==
  LET over(window, attr) == Lookback(bars, i, window, attr)
  IN  [stake_velocity  |-> <<over(Day, "tao_in"), over(ThreeDays, "tao_in"), over(Week, "tao_in")>>,
       price_momentum  |-> [w \in ShortWindows \cup {Day, ThreeDays, Week} |-> over(w, "price")],
       alpha_in_change |-> over(Day, "alpha_in"),
       price_zscore    |-> [w \in {Week, Month} |->
                              IF i >= w THEN PriceZScore(bars, i, w) ELSE None],
       volatility      |-> [w \in {Week, Month} |->
                              IF i >= w THEN Volatility(bars, i, w) ELSE None]]

\* relative_pool_rank: how many of the pools in sight are shallower, of how
\* many that are not empty.
PoolRank(sight, depth) ==
  LET pools == {n \in DOMAIN sight : sight[n].tao_in > 0}
  IN  IF pools = {} THEN None
      ELSE <<Cardinality({n \in pools : sight[n].tao_in < depth}), Cardinality(pools)>>

\* The context compute goes without when it is given none.
NoSight == <<>>

\* FeatureEngine.compute; sight is all_subnets_at_time, a snapshot by subnet.
FeaturesAt(bars, i, sight) ==
  [indicators |-> Indicators(bars, i), rank |-> PoolRank(sight, bars[i].tao_in)]
=================================================================================
