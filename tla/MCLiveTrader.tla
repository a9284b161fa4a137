---------------------------- MODULE MCLiveTrader -----------------------------
(* Two adjacent blocks, and a chain that may be one block ahead: without a *)
(* cooldown, a hotkey used ahead of the snapshots waits for the next one.  *)
(* Every trade loses, so a few sales trip the switch, with TAO left and,   *)
(* after a resume, a second position: an unguarded trader would go on      *)
(* buying and selling.                                                     *)
EXTENDS LiveTrader, TLC

Snap(b, x, y) == [block |-> b, tao_in |-> x, alpha_in |-> y]
MCMarket == {Snap(2, 10, 30), Snap(3, 10, 30)}
MCPools == {[tao_in |-> 10, alpha_in |-> 30], [tao_in |-> 12, alpha_in |-> 28]}
Symmetry == Permutations(Netuids)

\* All but the log, which nothing but its own type looks at.
View == <<free, positions, cooldowns, peak, phase, snaps, exits, entries, state, aroundVars>>
==============================================================================
