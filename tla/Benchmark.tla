------------------------------- MODULE Benchmark -------------------------------
(***************************************************************************)
(* compute_benchmark_series (server/api_client.py): the pool-weighted      *)
(* buy-and-hold basket that the history and statistics routes draw beside  *)
(* a portfolio, read from the snapshot buffers of SnapshotFeed.  A sample  *)
(* is its timestamp and no two subnets share one, so its payload is a      *)
(* function of the timestamp.  Every price divides PriceUnit, and a value  *)
(* is a number of 1/Scale parts, so that nothing is rounded.               *)
(***************************************************************************)
EXTENDS SnapshotFeed

CONSTANTS
  Excluded,    \* exclude_netuids
  MinDepth,    \* min_pool_depth_tao; the routes replace 0 by 50
  Capital,     \* initial_capital_tao
  PriceUnit,
  TaoIn,       \* tao_in and alpha_price_tao of the sample
  AlphaPrice   \* at each timestamp

ASSUME BenchmarkAssumption ==
  /\ Excluded \subseteq Netuids
  /\ {MinDepth, Capital, PriceUnit} \subseteq Nat \ {0}
  /\ TaoIn \in [1 .. MaxTime -> Nat] /\ AlphaPrice \in [1 .. MaxTime -> Nat]
  /\ \A t \in 1 .. MaxTime : AlphaPrice[t] # 0 => PriceUnit % AlphaPrice[t] = 0

(* The subnets bought at the anchor: a row that is deep enough, priced.    *)
Qualifies(row) == TaoIn[row] >= MinDepth /\ AlphaPrice[row] > 0

Basket(anchor) ==
  {n \in Netuids \ Excluded :
     buffer[n] # <<>> /\ Qualifies(RowAtOrBefore(buffer[n], anchor))}

Depth(anchor) ==
  SumFunction([n \in Basket(anchor) |-> TaoIn[RowAtOrBefore(buffer[n], anchor)]])

Scale(anchor) == IF Basket(anchor) = {} THEN 1 ELSE Depth(anchor) * PriceUnit

(* alpha bought of a subnet with its share of the capital.                 *)
Holding(n, anchor) ==
  LET row == RowAtOrBefore(buffer[n], anchor)
  IN  Capital * TaoIn[row] * (PriceUnit \div AlphaPrice[row])

BenchmarkValue(anchor, t) ==
  IF Basket(anchor) = {} THEN Capital
  ELSE SumFunction([n \in Basket(anchor) |->
         Holding(n, anchor) * AlphaPrice[RowAtOrBefore(buffer[n], t)]])

-------------------------------------------------------------------------------
(* The row the docstring of _row_at_or_before asks for: the newest at or   *)
(* before a time, and the first row if there is none.                      *)
RowInForce(n, t) ==
  LET past == {s \in Range(buffer[n]) : s <= t}
  IN  IF past = {} THEN buffer[n][1] ELSE Max(past)

\* The benchmark is a basket bought once and held: at the anchor it is worth
\* the capital, and at every later time it has moved by no less than the
\* worst and no more than the best of the subnets whose row in force at the
\* anchor was deep enough.  The buffers it is read from are the feed's: seeded late,
\* with overwritten bars and cut ends, or not seeded at all; the search that
\* finds its rows is the hand-written one.
BenchmarkIsBuyAndHold ==
  \A anchor \in 0 .. now : \A t \in anchor .. now :
    LET bought == {n \in Netuids \ Excluded :
                     buffer[n] # <<>> /\ Qualifies(RowInForce(n, anchor))}
        before(n) == AlphaPrice[RowInForce(n, anchor)]
        after(n) == AlphaPrice[RowInForce(n, t)]
        worth == BenchmarkValue(anchor, t)
        paid == Capital * Scale(anchor)
    IN  IF bought = {} THEN worth = Capital
        ELSE /\ \E n \in bought : worth * before(n) >= paid * after(n)
             /\ \E n \in bought : worth * before(n) <= paid * after(n)
===============================================================================
