---------------------------- MODULE MCTradingCycle ----------------------------
(* A small market for TradingCycle: a pool where TAO is cheap, one where it *)
(* is dear and an empty one.  Two blocks are one cooldown apart, so a trade *)
(* at block 2 is the first a fresh hotkey may make and one at block 4 the   *)
(* first it may make after that.                                            *)
EXTENDS TradingCycle, TLC

Snap(b, x, y) == [block |-> b, tao_in |-> x, alpha_in |-> y]

\* The dear pool stays, the cheap one turns dear, and either may drain.
MCMarket ==
  {Snap(2, 10, 30), Snap(2, 30, 10), Snap(4, 30, 10), Snap(4, 0, 10)}

\* Three blocks: long enough to hold two positions on one hotkey and exit.
MCLongMarket ==
  {Snap(b, x, 10) : b \in {2, 4, 6}, x \in {10, 30}}

Symmetry == Permutations(Netuids)
===============================================================================
