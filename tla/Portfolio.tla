------------------------------- MODULE Portfolio -------------------------------
(***************************************************************************)
(* What a portfolio promises, whatever keeps it and however often it is    *)
(* written down and read back: its free TAO and positions change only by   *)
(* opening or closing one position at a time, within the reserve, the      *)
(* position limit and the hotkeys' cooldowns.                              *)
(***************************************************************************)
EXTENDS Integers, FiniteSets

CONSTANTS Netuids, NumHotkeys, Initial, ReserveTao, MaxPositions, Cooldown,
          MinTrade, NoPosition

VARIABLES free, positions, cooldowns

book == <<free, positions, cooldowns>>

Open(pos) == {n \in Netuids : pos[n] # NoPosition}

AccountInit ==
  /\ free = Initial
  /\ positions = [n \in Netuids |-> NoPosition]
  /\ cooldowns = [h \in 0 .. (NumHotkeys - 1) |-> 0]

\* A hotkey is used at a block one cooldown or more after its last use.
UseHotkey(h, block) ==
  /\ block >= cooldowns[h] + Cooldown
  /\ cooldowns' = [cooldowns EXCEPT ![h] = block]

OpenPosition(n) ==
  LET p == positions'[n]
  IN  /\ n \notin Open(positions)
      /\ n \in Open(positions')
      /\ positions' = [positions EXCEPT ![n] = p]
      /\ p.invested >= MinTrade
      /\ free' = free - p.invested
      /\ free' >= ReserveTao
      /\ Cardinality(Open(positions')) <= MaxPositions
      /\ UseHotkey(p.hotkey, p.block)

ClosePosition(n) ==
  /\ n \in Open(positions)
  /\ positions' = [positions EXCEPT ![n] = NoPosition]
  /\ free' >= free
  /\ UseHotkey(positions[n].hotkey, cooldowns'[positions[n].hotkey])

AccountNext == \E n \in Netuids : OpenPosition(n) \/ ClosePosition(n)

AccountSpec == AccountInit /\ [][AccountNext]_book
================================================================================
