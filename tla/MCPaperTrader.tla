---------------------------- MODULE MCPaperTrader -----------------------------
(* A pool that turns dear, seen by two subnets at two blocks one cooldown   *)
(* apart.                                                                   *)
EXTENDS Reports, TLC, SequencesExt

Snap(b, x, y) == [block |-> b, tao_in |-> x, alpha_in |-> y]
MCMarket == {Snap(2, 10, 30), Snap(4, 20, 15)}
Symmetry == Permutations(Netuids)

\* All but what no guard and no property of the run reads: the balances of
\* before the cycle, the trades of earlier cycles in memory, and the order of
\* the trade rows.
Content(db) == [db EXCEPT !.trades = ToSet(@)]
View == <<free, positions, cooldowns, peak, phase, snaps, exits, entries, state,
          Executed, Content(conn), Content(disk), procVars, faultVars>>
===============================================================================
