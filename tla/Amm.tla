--------------------------------- MODULE Amm ---------------------------------
(***************************************************************************)
(* The constant-product pool arithmetic of trading/amm.py.  The program    *)
(* computes in floating point; the models count TAO and alpha in whole     *)
(* units and round every amount a trader receives down, which is the       *)
(* direction that never favours the trader.  Percentages are whole         *)
(* numbers of hundredths.                                                  *)
(***************************************************************************)
EXTENDS Integers

\* Both reserves are positive; an empty pool neither buys nor sells.
LivePool(tao_in, alpha_in) == tao_in > 0 /\ alpha_in > 0

\* Alpha received for staking dx TAO: alpha_in - k / (tao_in + dx).
BuyAlpha(dx, tao_in, alpha_in) ==
  IF dx > 0 /\ LivePool(tao_in, alpha_in)
  THEN (alpha_in * dx) \div (tao_in + dx)
  ELSE 0

\* TAO received for unstaking da alpha: tao_in - k / (alpha_in + da).
SellTao(da, tao_in, alpha_in) ==
  IF da > 0 /\ LivePool(tao_in, alpha_in)
  THEN (tao_in * da) \div (alpha_in + da)
  ELSE 0

Percent(pct, amount) == (pct * amount) \div 100

\* The stake whose buy-side slippage, dx / tao_in, is exactly the cap.
MaxTaoForSlippage(pct, tao_in, alpha_in) ==
  IF pct > 0 /\ LivePool(tao_in, alpha_in) THEN Percent(pct, tao_in) ELSE 0
==============================================================================
