--------------------------- MODULE LiveTraderProofs ---------------------------
(***************************************************************************)
(* The book, the kill switch and the chain of the live trader, for every   *)
(* chain, market and fault.  An extrinsic under way stays one the book     *)
(* allows until it is settled, so every step of the book is one of         *)
(* Portfolio or the relaunch; once the switch has tripped no extrinsic is  *)
(* under way, so none is included, and none is prepared; until then the    *)
(* book has lost less than the limit and the day's first loss, at cost;    *)
(* and what was read before an extrinsic accounts for the chain until it   *)
(* is settled.                                                             *)
(***************************************************************************)
EXTENDS LiveTrader, TradingCycleProofs

\* The switch trips while a sale settles, and a settled sale is not under way.
SwitchIdle == killed => op = Nothing

\* A row that the switch paused stays paused until it is resumed, and the
\* process that does not remember the trip is between two cycles.
PauseHolds == tripped => op = Nothing /\ ~active /\ (killed \/ phase = "idle")

LEMMA SwitchStaysIdle == SwitchIdle /\ [LiveNext]_liveVars => SwitchIdle'
<1> SUFFICES ASSUME SwitchIdle, [LiveNext]_liveVars PROVE SwitchIdle'
  OBVIOUS
<1> USE DEF SwitchIdle
<1>1. ASSUME NEW e \in exits, PrepareSell(e) PROVE SwitchIdle'
  BY <1>1 DEF PrepareSell, MaySell, Refuses, killVars
<1>2. ASSUME NEW sig \in entries, PrepareBuy(sig) PROVE SwitchIdle'
  BY <1>2 DEF PrepareBuy, Refuses, killVars
<1>3. CASE Include
  BY <1>3 DEF Include, killVars
<1>4. CASE Reject \/ SettleNothing \/ SettleBuy \/ SettleSell \/ Relaunch
  BY <1>4 DEF Reject, Sent, SettleNothing, SettleBuy, SettleSell, Relaunch
<1>5. CASE UNCHANGED <<op, killed>>
  BY <1>5
<1>6. \/ UNCHANGED <<op, killed>>
      \/ Include \/ Reject \/ SettleNothing \/ SettleBuy \/ SettleSell \/ Relaunch
      \/ \E e \in exits : PrepareSell(e)
      \/ \E sig \in entries : PrepareBuy(sig)
  BY DEF LiveNext, LiveBegin, LiveEndExits, LiveEndCycle, DropExit, DropEntry,
         AbortSell, Dividend, Operate, liveVars, aroundVars, killVars
<1> QED BY <1>1, <1>2, <1>3, <1>4, <1>5, <1>6

\* Nothing begins while the switch or the pause holds.
LEMMA PausedIdle ==
  ASSUME SwitchIdle, PauseHolds, killed \/ tripped
  PROVE  /\ op = Nothing
         /\ \A e \in exits : ~PrepareSell(e)
         /\ \A sig \in entries : ~PrepareBuy(sig)
         /\ ~Include /\ ~Reject /\ ~SettleNothing /\ ~SettleBuy /\ ~SettleSell
<1>1. op = Nothing
  BY DEF SwitchIdle, PauseHolds
<1>2. killed \/ phase = "idle"
  BY DEF PauseHolds
<1>3. \A e \in exits : ~PrepareSell(e)
  BY <1>2 DEF PrepareSell, MaySell, Refuses
<1>4. \A sig \in entries : ~PrepareBuy(sig)
  BY <1>2 DEF PrepareBuy, Refuses
<1>5. ~Include /\ ~Reject /\ ~SettleNothing /\ ~SettleBuy /\ ~SettleSell
  BY <1>1 DEF Include, Reject, SettleNothing, SettleBuy, SettleSell
<1> QED BY <1>1, <1>3, <1>4, <1>5

LEMMA PauseStaysHeld ==
  SwitchIdle /\ PauseHolds /\ [LiveNext]_liveVars => PauseHolds'
<1> SUFFICES ASSUME SwitchIdle, PauseHolds, [LiveNext]_liveVars, tripped'
             PROVE  PauseHolds'
  BY DEF PauseHolds
<1>1. CASE tripped
  <2>1. op = Nothing /\ ~active /\ (killed \/ phase = "idle")
    BY <1>1 DEF PauseHolds
  <2>2. CASE Relaunch
    BY <2>1, <2>2 DEF Relaunch, LeaveCycle, PauseHolds
  <2>3. CASE Operate
    BY <2>3 DEF Operate
  <2>4. CASE \E e \in exits : AbortSell(e)
    BY <2>1, <2>4 DEF AbortSell, MaySell, Refuses
  <2>5. CASE LiveEndCycle
    BY <2>1, <2>5 DEF LiveEndCycle, EndCycle, killVars, PauseHolds
  <2>6. CASE LiveEndExits
    BY <2>1, <2>6 DEF LiveEndExits, EndExits, aroundVars, killVars, PauseHolds
  <2>7. CASE UNCHANGED <<op, active, killed, phase>>
    BY <2>1, <2>7 DEF PauseHolds
  <2>8. ~LiveBegin
    BY <2>1 DEF LiveBegin
  <2>9. \/ Relaunch \/ Operate \/ LiveEndCycle \/ LiveEndExits
        \/ \E e \in exits : AbortSell(e)
        \/ UNCHANGED <<op, active, killed, phase>>
    BY <1>1, <2>8, PausedIdle DEF LiveNext, DropExit, DropEntry, Dividend, liveVars,
       vars, cycle, aroundVars, killVars
  <2> QED BY <2>2, <2>3, <2>4, <2>5, <2>6, <2>7, <2>9
<1>2. CASE ~tripped
  <2>1. SettleSell
    BY <1>2 DEF LiveNext, LiveBegin, LiveEndExits, LiveEndCycle, DropExit, DropEntry,
       AbortSell, PrepareSell, PrepareBuy, Include, Reject, SettleNothing, SettleBuy,
       Dividend, Operate, Relaunch, liveVars, aroundVars, killVars
  <2>2. op' = Nothing
    BY <2>1 DEF SettleSell
  <2>3. killed' /\ ~active'
    BY <1>2, <2>1 DEF SettleSell, CheckKillSwitch, killVars
  <2> QED BY <2>2, <2>3 DEF PauseHolds
<1> QED BY <1>1, <1>2

LEMMA NothingLeaves ==
  ASSUME SwitchIdle, PauseHolds, LiveNext, killed \/ tripped
  PROVE  op' \in {op, Nothing} /\ balance' = balance
<1>1. \/ UNCHANGED <<op, balance>>
      \/ Relaunch
  BY PausedIdle DEF LiveNext, LiveBegin, LiveEndExits, LiveEndCycle, DropExit,
     DropEntry, AbortSell, Dividend, Operate, aroundVars, chainVars
<1> QED
  BY <1>1 DEF Relaunch, chainVars

LEMMA SwitchInvariant == LiveSpec => [](SwitchIdle /\ PauseHolds)
<1>1. LiveInit => SwitchIdle /\ PauseHolds
  BY DEF LiveInit, SwitchIdle, PauseHolds
<1> QED
  BY <1>1, SwitchStaysIdle, PauseStaysHeld, PTL DEF LiveSpec

\* NothingSentAfterTrip: whatever signals were collected before the sale that
\* tripped the switch, and however often the process is launched again, nothing
\* leaves for the chain until the row is resumed.
THEOREM TrippedSendsNothing == LiveSpec => NothingSentAfterTrip
<1> DEFINE Step == tripped => op' \in {op, Nothing} /\ balance' = balance
<1>1. SwitchIdle /\ PauseHolds /\ [LiveNext]_liveVars => [Step]_liveVars
  BY NothingLeaves
<1> QED
  BY <1>1, SwitchInvariant, PTL DEF LiveSpec, NothingSentAfterTrip

\* KilledUntilRelaunch: a process whose switch has tripped sends nothing, the
\* row resumed or not, and its flag falls only when the process is launched
\* again.
THEOREM KilledStaysOut == LiveSpec => KilledUntilRelaunch
<1> DEFINE Step == killed =>
                     /\ op' \in {op, Nothing} /\ balance' = balance
                     /\ killed' \/ (GoesBack /\ dayBase' = Nothing)
<1>1. ASSUME SwitchIdle, PauseHolds, [LiveNext]_liveVars PROVE [Step]_liveVars
  <2> SUFFICES ASSUME LiveNext, killed
               PROVE  /\ op' \in {op, Nothing} /\ balance' = balance
                      /\ killed' \/ (GoesBack /\ dayBase' = Nothing)
    BY <1>1
  <2>1. op' \in {op, Nothing} /\ balance' = balance
    BY <1>1, NothingLeaves
  <2>2. Relaunch => GoesBack /\ dayBase' = Nothing
    BY DEF Relaunch, GoesBack
  <2>3. killed' = killed \/ Relaunch
    BY <1>1, PausedIdle DEF LiveNext, LiveBegin, LiveEndExits, LiveEndCycle, DropExit,
       DropEntry, AbortSell, Dividend, Operate, aroundVars, killVars
  <2> QED
    BY <2>1, <2>2, <2>3
<1> QED
  BY <1>1, SwitchInvariant, PTL DEF LiveSpec, KilledUntilRelaunch

-------------------------------------------------------------------------------
(* The book.                                                               *)

TrackerTypes(f, pos, cool) ==
  /\ f \in Nat
  /\ pos \in [Netuids -> Position \cup {NoPosition}]
  /\ cool \in [Hotkeys -> Nat]

\* What the chain, the cache and the database hold.
Outside ==
  /\ balance \in Nat
  /\ stake \in [Netuids -> Nat]
  /\ cachedBalance # Nothing => cachedBalance \in Nat
  /\ cachedStake # Nothing => cachedStake \in [Netuids -> Nat]
  /\ TrackerTypes(saved.free, saved.positions, saved.cooldowns)

OpTypes == op \in Extrinsic

\* The extrinsic under way is one the book still allows.
OpKnown ==
  op # Nothing =>
    /\ OpTypes
    /\ Rested(op.hotkey, op.block)
    /\ op.kind = "sell" =>
         phase = "exits" /\ op.netuid \in Held /\ positions[op.netuid].hotkey = op.hotkey
    /\ op.kind = "buy" =>
         /\ phase = "entries" /\ op.netuid \notin Held
         /\ op.amount >= MinTrade /\ op.amount + ReserveTao <= free
         /\ Cardinality(Held) < MaxPositions

LiveInv == Control /\ Outside /\ OpKnown

LEMMA InitLive == LiveInit => LiveInv
<1> SUFFICES ASSUME LiveInit PROVE LiveInv
  OBVIOUS
<1>1. Control
  BY InitControl DEF LiveInit
<1>2. Outside
  BY <1>1, LiveAssumption
     DEF LiveInit, Outside, TrackerTypes, Control, CycleTypes
<1>3. OpKnown
  BY DEF LiveInit, OpKnown
<1> QED
  BY <1>1, <1>2, <1>3 DEF LiveInv

\* What the reads may answer.
LEMMA ReadTypes ==
  ASSUME Outside
  PROVE  /\ \A r \in BalanceReads : r.value \in Nat /\ (r.cached # Nothing => r.cached \in Nat)
         /\ \A n \in Netuids : \A r \in StakeReads(n) :
              r.value \in Nat /\ (r.cached # Nothing => r.cached \in [Netuids -> Nat])
         /\ op # Nothing /\ OpTypes =>
              \A r \in ProceedsReads :
                r.value \in Nat /\ (r.cached # Nothing => r.cached \in Nat)
<1>1. \A b \in Lookup(cachedBalance, balance) : b \in Nat
  BY DEF Outside, Lookup
<1>2. \A s \in Lookup(cachedStake, stake) : s \in [Netuids -> Nat]
  BY DEF Outside, Lookup
<1>3. \A r \in BalanceReads : r.value \in Nat /\ (r.cached # Nothing => r.cached \in Nat)
  BY <1>1 DEF BalanceReads
<1>4. \A n \in Netuids : \A r \in StakeReads(n) :
        r.value \in Nat /\ (r.cached # Nothing => r.cached \in [Netuids -> Nat])
  BY <1>2 DEF StakeReads, Outside
<1>5. ASSUME OpTypes, NEW r \in ProceedsReads
      PROVE  r.value \in Nat /\ (r.cached # Nothing => r.cached \in Nat)
  <2>1. op.before + op.expected \in Nat
    BY <1>5 DEF OpTypes, Extrinsic
  <2> QED
    BY <1>3, <1>5, <2>1 DEF ProceedsReads, Outside
<1> QED
  BY <1>3, <1>4, <1>5

LEMMA ReceivedNat ==
  ASSUME OpTypes, NEW after \in Nat
  PROVE  Received(after) \in Nat
BY DEF OpTypes, Extrinsic, Received

\* Leaving the cycle leaves nothing queued.
LEMMA LeavingKeepsControl ==
  ASSUME LeaveCycle, TrackerTypes(free', positions', cooldowns'),
         trades' \in Seq(Trade), mark' \in 0 .. Len(trades')
  PROVE  Control'
BY DEF LeaveCycle, TrackerTypes, Control, CycleTypes, Queues, Fresh, NoSnaps, NoState

\* A signal is dropped or taken up.
LEMMA QueueShrinks ==
  ASSUME Control, exits' \subseteq exits, entries' \subseteq entries,
         UNCHANGED <<tracker, phase, snaps, mark, state>>
  PROVE  Control'
BY DEF Control, CycleTypes, Queues, Fresh, tracker, Held

\* The trade a settled extrinsic appends.
LEMMA RecordTypes ==
  ASSUME Control, OpTypes, NEW dir \in {"buy", "sell"}, NEW tao \in Nat, NEW alpha \in Nat,
         NEW pnl \in Int, Record(dir, tao, alpha, pnl)
  PROVE  /\ trades' \in Seq(Trade) /\ Len(trades') = Len(trades) + 1
         /\ mark \in 0 .. Len(trades')
         /\ cooldowns' \in [Hotkeys -> Nat]
         /\ cooldowns' = [cooldowns EXCEPT ![op.hotkey] = op.block]
<1> DEFINE t == [dir |-> dir, netuid |-> op.netuid, tao |-> tao, alpha |-> alpha,
                 hotkey |-> op.hotkey, block |-> op.block, pnl |-> pnl,
                 drain |-> op.drain]
<1>1. t \in Trade
  BY DEF OpTypes, Extrinsic, Trade
<1>2. trades' = Append(trades, t)
  BY DEF Record
<1> HIDE DEF t
<1>3. trades' \in Seq(Trade) /\ Len(trades') = Len(trades) + 1 /\ mark \in 0 .. Len(trades')
  BY <1>1, <1>2 DEF Control, CycleTypes
<1>4. /\ cooldowns' = [cooldowns EXCEPT ![op.hotkey] = op.block]
      /\ cooldowns' \in [Hotkeys -> Nat]
  BY DEF Record, OpTypes, Extrinsic, Control, CycleTypes
<1> QED
  BY <1>3, <1>4

\* A settled buy opens the position its extrinsic was sent for.
LEMMA SettledBuy ==
  ASSUME LiveInv, SettleBuy
  PROVE  LiveInv' /\ op.netuid \in Netuids /\ Book!OpenPosition(op.netuid)
<1> DEFINE n == op.netuid
<1>1. /\ op # Nothing /\ OpTypes /\ n \in Netuids /\ n \notin Held /\ phase = "entries"
      /\ op.amount \in Nat /\ op.amount >= MinTrade /\ op.amount + ReserveTao <= free
      /\ Cardinality(Held) < MaxPositions /\ Rested(op.hotkey, op.block)
  BY DEF SettleBuy, LiveInv, OpKnown, OpTypes, Extrinsic
<1>2. Control /\ Outside
  BY DEF LiveInv
<1>3. PICK read \in StakeReads(n) :
        LET alpha == Received(read.value) IN
        /\ cachedStake' = read.cached
        /\ free' = free - op.amount
        /\ positions' = [positions EXCEPT ![n] =
                           [alpha |-> alpha, invested |-> op.amount,
                            hotkey |-> op.hotkey, block |-> op.block]]
        /\ Record("buy", op.amount, alpha, 0)
  BY DEF SettleBuy
<1> DEFINE a == Received(read.value)
           p == [alpha |-> a, invested |-> op.amount,
                 hotkey |-> op.hotkey, block |-> op.block]
<1>4. a \in Nat /\ (cachedStake' # Nothing => cachedStake' \in [Netuids -> Nat])
  BY <1>1, <1>2, <1>3, ReadTypes, ReceivedNat
<1>5. /\ positions' = [positions EXCEPT ![n] = p]
      /\ free' = free - op.amount
      /\ Record("buy", op.amount, a, 0)
  BY <1>3
<1>6. p \in Position /\ p # NoPosition
  BY <1>1, <1>4, ConstantsAssumption DEF OpTypes, Extrinsic, Position
<1>7. p.invested = op.amount /\ p.hotkey = op.hotkey /\ p.block = op.block
  OBVIOUS
<1> HIDE DEF a, p, n
<1>8. /\ trades' \in Seq(Trade) /\ mark \in 0 .. Len(trades')
      /\ cooldowns' \in [Hotkeys -> Nat]
      /\ cooldowns' = [cooldowns EXCEPT ![op.hotkey] = op.block]
  BY <1>1, <1>2, <1>4, <1>5, RecordTypes
<1>9. /\ positions' \in [Netuids -> Position \cup {NoPosition}]
      /\ positions'[n] = p /\ Held' = Held \cup {n}
  BY <1>1, <1>2, <1>5, <1>6 DEF Control, CycleTypes, Held, Holdings
<1>10. free' \in Nat /\ free' >= ReserveTao
  BY <1>1, <1>2, <1>5, ConstantsAssumption DEF Control, CycleTypes
<1>11. /\ state' = StateOf(free', positions', snaps) /\ op' = Nothing
       /\ UNCHANGED <<phase, snaps, exits, entries, mark, balance, stake,
                      cachedBalance, saved>>
  BY DEF SettleBuy, TakeState, chainVars
<1>12. state'.free = free' /\ state'.held = Held'
  BY <1>11 DEF StateOf, Held
<1>13. Control'
  <2>1. CycleTypes'
    <3>1. Held' \subseteq Netuids
      BY DEF Held, Holdings
    <3> QED
      BY <1>2, <1>8, <1>9, <1>10, <1>11, <1>12, <3>1 DEF Control, CycleTypes
  <2> QED
    BY <1>1, <1>2, <1>11, <1>12, <2>1 DEF Control, Queues, Fresh
<1>14. LiveInv'
  BY <1>2, <1>4, <1>11, <1>13 DEF LiveInv, Outside, OpKnown
<1>15. Cardinality(Held') <= MaxPositions
  <2>1. Held \subseteq Netuids /\ IsFiniteSet(Held)
    BY FS_Subset, ConstantsAssumption DEF Held, Holdings
  <2>2. Cardinality(Held \cup {n}) = Cardinality(Held) + 1 /\ Cardinality(Held) \in Nat
    BY <1>1, <2>1, FS_AddElement, FS_CardinalityType DEF n
  <2> QED
    BY <1>1, <1>9, <2>2, ConstantsAssumption
<1>16. Book!Cardinality(Book!Open(positions')) <= MaxPositions
  BY <1>15 DEF Held, Holdings, Book!Open, Cardinality, Book!Cardinality
<1>17. n \notin Book!Open(positions) /\ n \in Book!Open(positions')
  BY <1>1, <1>6, <1>9 DEF Held, Holdings, Book!Open, n
<1>18. /\ positions'[n].invested = op.amount
       /\ positions'[n].hotkey = op.hotkey /\ positions'[n].block = op.block
       /\ positions' = [positions EXCEPT ![n] = positions'[n]]
  BY <1>5, <1>7, <1>9
<1>19. Book!UseHotkey(positions'[n].hotkey, positions'[n].block)
  BY <1>1, <1>8, <1>18 DEF Book!UseHotkey, Rested
<1>20. positions'[n].invested >= MinTrade /\ free' = free - positions'[n].invested
  BY <1>1, <1>5, <1>18
<1> QED
  BY <1>1, <1>10, <1>14, <1>16, <1>17, <1>18, <1>19, <1>20 DEF Book!OpenPosition, n

\* A settled sale closes the position its extrinsic was sent for.
LEMMA SettledSell ==
  ASSUME LiveInv, SettleSell
  PROVE  LiveInv' /\ op.netuid \in Netuids /\ Book!ClosePosition(op.netuid)
<1> DEFINE n == op.netuid
           q == positions[n]
<1>1. /\ op # Nothing /\ OpTypes /\ n \in Netuids /\ n \in Held /\ phase = "exits"
      /\ q.hotkey = op.hotkey /\ Rested(op.hotkey, op.block)
  BY DEF SettleSell, LiveInv, OpKnown, OpTypes, Extrinsic
<1>2. Control /\ Outside
  BY DEF LiveInv
<1>3. q.alpha \in Nat /\ q.invested \in Nat
  BY <1>1, <1>2 DEF Control, CycleTypes, Held, Holdings, Position
<1>4. PICK read \in ProceedsReads :
        LET tao == Received(read.value) IN
        /\ free' = free + tao
        /\ positions' = [positions EXCEPT ![n] = NoPosition]
        /\ Record("sell", tao, q.alpha, tao - q.invested)
        /\ CheckKillSwitch(BookValue(free', positions'))
        /\ phase' # "idle" => cachedBalance' = read.cached
  BY DEF SettleSell
<1> DEFINE tao == Received(read.value)
<1>5. tao \in Nat /\ (read.cached # Nothing => read.cached \in Nat)
  BY <1>1, <1>2, <1>4, ReadTypes, ReceivedNat
<1>6. tao - q.invested \in Int
  BY <1>3, <1>5
<1>7. /\ free' = free + tao
      /\ Record("sell", tao, q.alpha, tao - q.invested)
  BY <1>4
<1> HIDE DEF tao
<1>8. /\ trades' \in Seq(Trade) /\ mark \in 0 .. Len(trades')
      /\ cooldowns' \in [Hotkeys -> Nat]
      /\ cooldowns' = [cooldowns EXCEPT ![op.hotkey] = op.block]
  BY <1>1, <1>2, <1>3, <1>5, <1>6, <1>7, RecordTypes
<1>9. free' \in Nat /\ free' >= free
  BY <1>2, <1>5, <1>7 DEF Control, CycleTypes
<1>10. /\ positions' \in [Netuids -> Position \cup {NoPosition}]
       /\ Held' = Held \ {n}
  BY <1>1, <1>2, <1>4 DEF Control, CycleTypes, Held, Holdings
<1>11. op' = Nothing /\ UNCHANGED <<balance, stake, saved>>
  BY DEF SettleSell, chainVars
<1>12. \/ GoOn
       \/ LeaveCycle /\ mark' = Len(trades')
  BY <1>4 DEF CheckKillSwitch
<1>13. ASSUME GoOn PROVE LiveInv'
  <2>1. /\ UNCHANGED <<phase, snaps, exits, entries, mark, state, cachedStake>>
        /\ cachedBalance' = read.cached
    BY <1>1, <1>4, <1>13 DEF GoOn
  <2>2. Control'
    BY <1>1, <1>2, <1>8, <1>9, <1>10, <2>1 DEF Control, CycleTypes, Queues, Fresh
  <2>3. Outside'
    BY <1>2, <1>5, <1>11, <2>1 DEF Outside, TrackerTypes
  <2>4. OpKnown'
    BY <1>11 DEF OpKnown
  <2> QED
    BY <2>2, <2>3, <2>4 DEF LiveInv
<1>14. ASSUME LeaveCycle, mark' = Len(trades') PROVE LiveInv'
  <2>1. mark' \in 0 .. Len(trades')
    BY <1>8, <1>14
  <2>2. Control'
    BY <1>8, <1>9, <1>10, <1>14, <2>1, LeavingKeepsControl DEF TrackerTypes
  <2>3. cachedBalance' = Nothing /\ cachedStake' = Nothing
    BY <1>14 DEF LeaveCycle, CacheExpires
  <2>4. Outside'
    BY <1>2, <1>11, <2>3 DEF Outside, TrackerTypes
  <2>5. OpKnown'
    BY <1>11 DEF OpKnown
  <2> QED
    BY <2>2, <2>4, <2>5 DEF LiveInv
<1>15. LiveInv'
  BY <1>12, <1>13, <1>14
<1>16. n \in Book!Open(positions)
  BY <1>1 DEF Held, Holdings, Book!Open
<1>17. op.hotkey \in Hotkeys /\ cooldowns'[op.hotkey] = op.block
  BY <1>1, <1>2, <1>8 DEF OpTypes, Extrinsic, Control, CycleTypes
<1>18. Book!UseHotkey(op.hotkey, cooldowns'[op.hotkey])
  BY <1>1, <1>8, <1>17 DEF Book!UseHotkey, Rested
<1> QED
  BY <1>1, <1>4, <1>9, <1>15, <1>16, <1>18 DEF Book!ClosePosition

\* An extrinsic is prepared only as the book allows it.
LEMMA PreparedSell ==
  ASSUME LiveInv, NEW e \in exits, PrepareSell(e)
  PROVE  LiveInv'
<1> DEFINE n == e.netuid
           p == positions[n]
<1>1. /\ phase = "exits" /\ n \in Held /\ Rested(p.hotkey, snaps[n].block)
  BY DEF PrepareSell, MaySell, MayExit
<1>2. Control /\ Outside /\ snaps[n] # NoSnapshot /\ e.drain \in BOOLEAN
  BY DEF LiveInv, Control, Queues, CycleTypes, ExitSignal
<1>3. /\ n \in Netuids /\ p.alpha \in Nat /\ p.hotkey \in Hotkeys /\ snaps[n].block \in Nat
  BY <1>1, <1>2, SoldPosition DEF Control
<1>4. PICK pool \in Pools, lag \in Lags, read \in BalanceReads :
        /\ op' = [kind |-> "sell", sent |-> FALSE, netuid |-> n,
                  drain |-> e.drain, amount |-> p.alpha, hotkey |-> p.hotkey,
                  block |-> snaps[n].block + lag, before |-> read.value,
                  expected |-> SellTao(p.alpha, pool.tao_in, pool.alpha_in)]
        /\ cachedBalance' = read.cached
  BY DEF PrepareSell
<1>5. lag \in Nat /\ pool.tao_in \in Nat /\ pool.alpha_in \in Nat
  BY LiveAssumption
<1>6. /\ SellTao(p.alpha, pool.tao_in, pool.alpha_in) \in Nat
      /\ read.value \in Nat /\ (read.cached # Nothing => read.cached \in Nat)
  BY <1>2, <1>3, <1>5, SellTaoNat, ReadTypes
<1>7. /\ exits' = exits \ {e}
      /\ UNCHANGED <<tracker, phase, snaps, entries, mark, state,
                     balance, stake, cachedStake, saved>>
  BY DEF PrepareSell, chainVars
<1>8. Control'
  BY <1>2, <1>7, QueueShrinks
<1>9. Outside'
  BY <1>2, <1>4, <1>6, <1>7 DEF Outside
<1>10. snaps[n].block + lag \in Nat /\ snaps[n].block + lag >= cooldowns[p.hotkey] + Cooldown
  <2>1. cooldowns[p.hotkey] \in Nat /\ Cooldown \in Nat
    BY <1>2, <1>3, ConstantsAssumption DEF Control, CycleTypes
  <2> QED
    BY <1>1, <1>3, <1>5, <2>1 DEF Rested
<1>11. OpTypes'
  BY <1>2, <1>3, <1>4, <1>6, <1>10 DEF OpTypes, Extrinsic
<1>12. Held' = Held /\ positions' = positions /\ cooldowns' = cooldowns
  BY <1>7 DEF tracker, Held
<1>13. OpKnown'
  BY <1>1, <1>4, <1>7, <1>10, <1>11, <1>12 DEF OpKnown, Rested
<1> QED
  BY <1>8, <1>9, <1>13 DEF LiveInv

LEMMA PreparedBuy ==
  ASSUME LiveInv, NEW sig \in entries, PrepareBuy(sig)
  PROVE  LiveInv'
<1> DEFINE n == sig.netuid
<1>1. phase = "entries" /\ Control /\ Outside
  BY DEF PrepareBuy, LiveInv
<1>2. /\ sig \in EntrySignal /\ n \in Netuids
      /\ snaps[n] \in Snapshots /\ snaps[n].block \in Nat
      /\ state.free = free /\ state.held = Held
  <2>1. sig \in EntrySignal /\ n \in Netuids
    BY <1>1 DEF Control, CycleTypes, EntrySignal
  <2>2. snaps[n] \in Snapshots
    BY <1>1, <2>1 DEF Control, CycleTypes, Queues
  <2> QED
    BY <1>1, <2>1, <2>2, ConstantsAssumption DEF Control, Fresh
<1>3. PICK amount \in MinTrade .. free, h \in Hotkeys, pool \in Pools, lag \in Lags,
           funds \in BalanceReads, read \in StakeReads(n) :
        /\ Accepts(sig, snaps[n], amount)
        /\ FirstAvailable(h, snaps[n].block)
        /\ op' = [kind |-> "buy", sent |-> FALSE, netuid |-> n, drain |-> FALSE,
                  amount |-> amount, hotkey |-> h,
                  block |-> snaps[n].block + lag, before |-> read.value,
                  expected |-> BuyAlpha(amount, pool.tao_in, pool.alpha_in)]
        /\ cachedBalance' = funds.cached
        /\ cachedStake' = read.cached
  BY DEF PrepareBuy
<1>4. /\ amount \in Nat /\ amount >= MinTrade /\ amount + ReserveTao <= free
      /\ n \notin Held /\ Cardinality(Held) < MaxPositions
  <2>1. state.free \in Nat
    BY <1>1 DEF Control, CycleTypes
  <2> QED
    BY <1>2, <1>3, <2>1, AcceptedAmount
<1>5. lag \in Nat /\ pool.tao_in \in Nat /\ pool.alpha_in \in Nat
  BY LiveAssumption
<1>6. /\ BuyAlpha(amount, pool.tao_in, pool.alpha_in) \in Nat
      /\ read.value \in Nat
      /\ funds.cached # Nothing => funds.cached \in Nat
      /\ read.cached # Nothing => read.cached \in [Netuids -> Nat]
  BY <1>1, <1>2, <1>4, <1>5, BuyAlphaNat, ReadTypes
<1>7. /\ entries' = entries \ {sig}
      /\ UNCHANGED <<tracker, phase, snaps, exits, mark, state, balance, stake, saved>>
  BY DEF PrepareBuy, chainVars
<1>8. Control'
  BY <1>1, <1>7, QueueShrinks
<1>9. Outside'
  BY <1>1, <1>3, <1>6, <1>7 DEF Outside
<1>10. snaps[n].block + lag \in Nat /\ snaps[n].block + lag >= cooldowns[h] + Cooldown
  <2>1. cooldowns[h] \in Nat /\ Cooldown \in Nat
    BY <1>1, ConstantsAssumption DEF Control, CycleTypes
  <2> QED
    BY <1>2, <1>3, <1>5, <2>1 DEF FirstAvailable, Rested
<1>11. OpTypes'
  BY <1>2, <1>3, <1>4, <1>6, <1>10 DEF OpTypes, Extrinsic
<1>12. Held' = Held /\ free' = free /\ cooldowns' = cooldowns
  BY <1>7 DEF tracker, Held
<1>13. OpKnown'
  BY <1>1, <1>3, <1>4, <1>7, <1>10, <1>11, <1>12 DEF OpKnown, Rested
<1> QED
  BY <1>8, <1>9, <1>13 DEF LiveInv

\* The chain includes or rejects the extrinsic, or nothing is made of it.
LEMMA ChainStep ==
  ASSUME LiveInv, Include \/ Reject \/ SettleNothing \/ Dividend
  PROVE  LiveInv'
<1>1. /\ op # Nothing /\ OpTypes /\ Control /\ Outside
      /\ UNCHANGED <<free, positions, cooldowns, trades, phase, snaps, exits, entries,
                     mark, state, saved>>
  BY DEF Include, Reject, SettleNothing, Dividend, vars, tracker, cycle, LiveInv, OpKnown
<1>2. Control'
  BY <1>1 DEF Control, CycleTypes, Queues, Fresh, Held
<1>3. op' = op \/ op' = [op EXCEPT !.sent = TRUE] \/ op' = Nothing
  BY DEF Include, Reject, SettleNothing, Dividend, Sent
<1>4. OpKnown'
  <2>1. CASE op' = Nothing
    BY <2>1 DEF OpKnown
  <2>2. CASE op' # Nothing
    <3>1. /\ OpTypes'
          /\ op'.kind = op.kind /\ op'.netuid = op.netuid /\ op'.hotkey = op.hotkey
          /\ op'.amount = op.amount /\ op'.block = op.block
      BY <1>1, <1>3, <2>2 DEF OpTypes, Extrinsic
    <3>2. OpKnown
      BY DEF LiveInv
    <3>3. Held' = Held
      BY <1>1 DEF Held
    <3> QED
      BY <1>1, <3>1, <3>2, <3>3 DEF OpKnown, Rested
  <2> QED
    BY <2>1, <2>2
<1>5. Outside'
  <2>1. CASE Include
    <3>1. UNCHANGED <<cachedBalance, cachedStake, saved>>
      BY <2>1 DEF Include, cacheVars
    <3>2. PICK pool \in Pools :
            IF op.kind = "buy"
            THEN LET alpha == BuyAlpha(op.amount, pool.tao_in, pool.alpha_in)
                 IN  /\ balance >= op.amount + Fee
                     /\ balance' = balance - op.amount - Fee
                     /\ stake' = [stake EXCEPT ![op.netuid] = @ + alpha]
            ELSE LET tao == SellTao(op.amount, pool.tao_in, pool.alpha_in)
                 IN  /\ stake[op.netuid] >= op.amount
                     /\ balance >= Fee
                     /\ balance' = balance + tao - Fee
                     /\ stake' = [stake EXCEPT ![op.netuid] = @ - op.amount]
      BY <2>1 DEF Include
    <3> DEFINE alpha == BuyAlpha(op.amount, pool.tao_in, pool.alpha_in)
               tao == SellTao(op.amount, pool.tao_in, pool.alpha_in)
    <3>3. op.amount \in Nat /\ op.netuid \in Netuids /\ Fee \in Nat
      BY <1>1, LiveAssumption DEF OpTypes, Extrinsic
    <3>4. pool.tao_in \in Nat /\ pool.alpha_in \in Nat
      BY LiveAssumption
    <3>5. alpha \in Nat /\ tao \in Nat
      BY <3>3, <3>4, BuyAlphaNat, SellTaoNat
    <3>6. balance \in Nat /\ stake \in [Netuids -> Nat] /\ stake[op.netuid] \in Nat
      BY <1>1, <3>3 DEF Outside
    <3> HIDE DEF alpha, tao
    <3>7. CASE op.kind = "buy"
      <4>1. /\ balance' = balance - op.amount - Fee /\ balance >= op.amount + Fee
            /\ stake' = [stake EXCEPT ![op.netuid] = stake[op.netuid] + alpha]
        BY <3>2, <3>7 DEF alpha
      <4>2. balance' \in Nat
        BY <3>3, <3>6, <4>1
      <4>3. stake[op.netuid] + alpha \in Nat
        BY <3>5, <3>6
      <4>4. stake' \in [Netuids -> Nat]
        BY <3>3, <3>6, <4>1, <4>3
      <4> QED
        BY <1>1, <3>1, <4>2, <4>4 DEF Outside
    <3>8. CASE op.kind # "buy"
      <4>1. /\ balance' = balance + tao - Fee /\ balance >= Fee
            /\ stake[op.netuid] >= op.amount
            /\ stake' = [stake EXCEPT ![op.netuid] = stake[op.netuid] - op.amount]
        BY <3>2, <3>8 DEF tao
      <4>2. balance' \in Nat
        BY <3>3, <3>5, <3>6, <4>1
      <4>3. stake' \in [Netuids -> Nat]
        BY <3>3, <3>6, <4>1
      <4> QED
        BY <1>1, <3>1, <4>2, <4>3 DEF Outside
    <3> QED
      BY <3>7, <3>8
  <2>2. CASE Reject
    BY <1>1, <2>2 DEF Reject, chainVars, cacheVars, Outside
  <2>3. CASE SettleNothing
    <3>1. UNCHANGED <<balance, stake, saved>>
      BY <2>3 DEF SettleNothing, chainVars
    <3>2. /\ cachedBalance' # Nothing => cachedBalance' \in Nat
          /\ cachedStake' # Nothing => cachedStake' \in [Netuids -> Nat]
      <4>1. CASE \E read \in StakeReads(op.netuid) :
                   cachedStake' = read.cached /\ UNCHANGED cachedBalance
        BY <1>1, <4>1, ReadTypes DEF OpTypes, Extrinsic, Outside
      <4>2. CASE \E read \in ProceedsReads :
                   cachedBalance' = read.cached /\ UNCHANGED cachedStake
        BY <1>1, <4>2, ReadTypes DEF Outside
      <4> QED
        BY <2>3, <4>1, <4>2 DEF SettleNothing
    <3> QED
      BY <1>1, <3>1, <3>2 DEF Outside
  <2>4. CASE Dividend
    BY <1>1, <2>4 DEF Dividend, cacheVars, Outside
  <2> QED
    BY <2>1, <2>2, <2>3, <2>4
<1> QED
  BY <1>2, <1>4, <1>5 DEF LiveInv

\* Without an extrinsic under way the cycle and the world around it go on.
LEMMA IdleStep ==
  ASSUME LiveInv,
         \/ LiveBegin \/ LiveEndExits \/ LiveEndCycle
         \/ \E e \in exits : DropExit(e) \/ AbortSell(e)
         \/ \E sig \in entries : DropEntry(sig)
         \/ Operate \/ Relaunch \/ UNCHANGED liveVars
  PROVE  LiveInv'
<1>1. Control /\ Outside /\ OpKnown
  BY DEF LiveInv
<1>2. CASE LiveBegin \/ LiveEndExits \/ LiveEndCycle
  <2>1. [Next]_vars
    BY <1>2 DEF LiveBegin, LiveEndExits, LiveEndCycle, Next, CycleStep
  <2>2. Control'
    BY <1>1, <2>1, NextTypes, NextQueues DEF Control
  <2>3. op = Nothing /\ op' = Nothing
    BY <1>1, <1>2 DEF LiveBegin, BeginCycle, LiveEndExits, LiveEndCycle, aroundVars,
       OpKnown, OpTypes, Extrinsic
  <2>4. Outside'
    <3>1. CASE LiveBegin \/ LiveEndExits
      BY <1>1, <3>1 DEF LiveBegin, LiveEndExits, aroundVars, chainVars, cacheVars, Outside
    <3>2. CASE LiveEndCycle
      <4>1. /\ cachedBalance' = Nothing /\ cachedStake' = Nothing
            /\ saved'.free = free /\ saved'.positions = positions
            /\ saved'.cooldowns = cooldowns
            /\ UNCHANGED <<balance, stake>>
        BY <3>2 DEF LiveEndCycle, CacheExpires, chainVars
      <4> QED
        BY <1>1, <4>1 DEF Outside, TrackerTypes, Control, CycleTypes
    <3> QED
      BY <1>2, <3>1, <3>2
  <2> QED
    BY <2>2, <2>3, <2>4 DEF LiveInv, OpKnown
<1>3. CASE (\E e \in exits : DropExit(e)) \/ (\E sig \in entries : DropEntry(sig))
  <2>1. /\ op = Nothing /\ UNCHANGED aroundVars
        /\ exits' \subseteq exits /\ entries' \subseteq entries
        /\ UNCHANGED <<tracker, phase, snaps, mark, state>>
    BY <1>3 DEF DropExit, DropEntry
  <2>2. Control'
    BY <1>1, <2>1, QueueShrinks
  <2> QED
    BY <1>1, <2>1, <2>2 DEF LiveInv, aroundVars, chainVars, cacheVars, Outside, OpKnown
<1>4. CASE \E e \in exits : AbortSell(e)
  <2>1. /\ op = Nothing /\ op' = Nothing /\ LeaveCycle
        /\ UNCHANGED <<free, positions, cooldowns, trades, balance, stake, saved>>
        /\ mark' = Len(trades)
    BY <1>4 DEF AbortSell, MaySell, tracker, chainVars
  <2>2. Control'
    <3>1. TrackerTypes(free', positions', cooldowns') /\ trades' \in Seq(Trade)
          /\ mark' \in 0 .. Len(trades')
      BY <1>1, <2>1 DEF Control, CycleTypes, TrackerTypes
    <3> QED
      BY <2>1, <3>1, LeavingKeepsControl
  <2> QED
    BY <1>1, <2>1, <2>2 DEF LiveInv, LeaveCycle, CacheExpires, Outside, OpKnown
<1>5. CASE Relaunch
  <2>1. /\ op' = Nothing /\ LeaveCycle /\ trades' = <<>> /\ mark' = 0
        /\ free' = saved.free /\ positions' = saved.positions /\ cooldowns' = saved.cooldowns
        /\ UNCHANGED <<balance, stake, saved>>
    BY <1>5 DEF Relaunch, chainVars
  <2>2. trades' \in Seq(Trade) /\ mark' \in 0 .. Len(trades')
    BY <2>1
  <2>3. TrackerTypes(free', positions', cooldowns')
    BY <1>1, <2>1 DEF Outside
  <2>4. Control'
    BY <2>1, <2>2, <2>3, LeavingKeepsControl
  <2> QED
    BY <1>1, <2>1, <2>4 DEF LiveInv, LeaveCycle, CacheExpires, Outside, OpKnown
<1>6. CASE Operate \/ UNCHANGED liveVars
  <2>1. /\ UNCHANGED vars
        /\ UNCHANGED <<op, balance, stake, cachedBalance, cachedStake, saved>>
    BY <1>6 DEF Operate, liveVars, aroundVars, chainVars, cacheVars
  <2> QED
    BY <1>1, <2>1 DEF LiveInv, vars, tracker, cycle, Control, CycleTypes, Queues, Fresh,
       Held, Outside, OpKnown, OpTypes, Extrinsic, Rested
<1> QED
  BY <1>2, <1>3, <1>4, <1>5, <1>6

LEMMA LiveInvariant == LiveSpec => []LiveInv
<1>1. LiveInv /\ [LiveNext]_liveVars => LiveInv'
  BY SettledBuy, SettledSell, PreparedSell, PreparedBuy, ChainStep, IdleStep DEF LiveNext
<1> QED
  BY InitLive, <1>1, PTL DEF LiveSpec

\* BookKept: whatever the chain executes, the reads answer and the process
\* forgets, the live book changes only by opening or closing one position
\* within the limits of Portfolio, or by the relaunch that takes it back to
\* what the last complete cycle persisted.
THEOREM LiveKeepsBook == LiveSpec => BookKept
<1> DEFINE book == <<free, positions, cooldowns>>
           Move == Book!AccountNext \/ GoesBack
<1>1. LiveInit => Book!AccountInit
  BY DEF LiveInit, Init, TrackerInit, Book!AccountInit, Hotkeys
<1>2. LiveInv /\ [LiveNext]_liveVars => [Move]_book
  <2> SUFFICES ASSUME LiveInv, [LiveNext]_liveVars PROVE Move \/ UNCHANGED book
    OBVIOUS
  <2>1. CASE SettleBuy
    BY <2>1, SettledBuy DEF Book!AccountNext
  <2>2. CASE SettleSell
    BY <2>2, SettledSell DEF Book!AccountNext
  <2>3. CASE Relaunch
    BY <2>3 DEF Relaunch, GoesBack
  <2>4. CASE ~SettleBuy /\ ~SettleSell /\ ~Relaunch
    BY <2>4 DEF LiveNext, LiveBegin, BeginCycle, LiveEndExits, EndExits, LiveEndCycle,
       EndCycle, DropExit, DropEntry, AbortSell, PrepareSell, PrepareBuy, Include, Reject,
       SettleNothing, Dividend, Operate, liveVars, vars, tracker
  <2> QED
    BY <2>1, <2>2, <2>3, <2>4
<1> QED
  BY <1>1, <1>2, LiveInvariant, PTL DEF LiveSpec, BookKept

-------------------------------------------------------------------------------
(* The types of what is around the cycle, and the loss limit.              *)

SwitchTypes ==
  /\ dividends \in Nat /\ faults \in Nat /\ buys \in Nat
  /\ killed \in BOOLEAN /\ active \in BOOLEAN /\ unseen \in BOOLEAN /\ tripped \in BOOLEAN
  /\ dayBase \in Nat \cup {Nothing} /\ dayStart \in Nat \cup {Nothing}
  /\ dayBase # Nothing => dayStart \in Nat
  /\ phase \in {"idle", "exits", "entries"}

LEMMA BookValueNat ==
  ASSUME Control PROVE BookValue(free, positions) \in Nat
<1>1. Cost(positions) \in Nat /\ free \in Nat
  BY CostIsNat DEF Control, CycleTypes, BookTypes
<1> QED
  BY <1>1 DEF BookValue

LEMMA KillSwitchTypes ==
  ASSUME SwitchTypes, NEW value \in Nat, BookValue(free, positions) \in Nat,
         CheckKillSwitch(value)
  PROVE  /\ killed' \in BOOLEAN /\ active' \in BOOLEAN /\ tripped' \in BOOLEAN
         /\ dayBase' \in Nat \cup {Nothing} /\ dayStart' \in Nat \cup {Nothing}
         /\ dayBase' # Nothing => dayStart' \in Nat
         /\ phase' \in {"idle", "exits", "entries"}
BY DEF CheckKillSwitch, SwitchTypes, GoOn, LeaveCycle, killVars

LEMMA SettledSellTypes ==
  ASSUME LiveInv, SwitchTypes, SettleSell
  PROVE  SwitchTypes'
<1>1. CheckKillSwitch(BookValue(free', positions'))
  BY DEF SettleSell
<1>2. BookValue(free', positions') \in Nat
  <2>1. Control'
    BY SettledSell DEF LiveInv
  <2>2. Cost(positions') \in Nat /\ free' \in Nat
    BY <2>1, CostIsNat DEF Control, CycleTypes, BookTypes
  <2> QED
    BY <2>2 DEF BookValue
<1>3. /\ UNCHANGED <<dividends, unseen, buys>>
      /\ faults' \in Nat
  BY DEF SettleSell, chainVars, Reads, SwitchTypes
<1>4. BookValue(free, positions) \in Nat
  BY BookValueNat DEF LiveInv
<1> QED
  BY <1>1, <1>2, <1>3, <1>4, KillSwitchTypes DEF SwitchTypes

LEMMA SwitchTypesStep ==
  ASSUME LiveInv, SwitchTypes, [LiveNext]_liveVars
  PROVE  SwitchTypes'
<1> USE DEF SwitchTypes
<1>1. CASE LiveBegin \/ LiveEndExits \/ LiveEndCycle
  BY <1>1 DEF LiveBegin, LiveEndExits, LiveEndCycle, BeginCycle, EndExits, EndCycle,
     aroundVars, chainVars, killVars, historyVars
<1>2. CASE \E e \in exits : DropExit(e) \/ AbortSell(e)
  BY <1>2 DEF DropExit, AbortSell, LeaveCycle, aroundVars, chainVars, killVars, historyVars
<1>3. CASE \E sig \in entries : DropEntry(sig)
  BY <1>3 DEF DropEntry, aroundVars, chainVars, killVars, historyVars
<1>4. CASE \E e \in exits : PrepareSell(e)
  BY <1>4 DEF PrepareSell, Reads, chainVars, killVars
<1>5. CASE \E sig \in entries : PrepareBuy(sig)
  BY <1>5 DEF PrepareBuy, Reads, chainVars, killVars
<1>6. CASE Include
  <2>1. UNCHANGED <<dividends, killed, active, tripped, dayBase, dayStart, phase>>
    BY <1>6 DEF Include, vars, cycle, killVars
  <2>2. CASE UNCHANGED historyVars
    BY <2>1, <2>2 DEF historyVars
  <2>3. CASE Reads(FALSE, TRUE) /\ unseen' = TRUE /\ UNCHANGED buys
    <3>1. faults' \in Nat
      BY <2>3 DEF Reads
    <3> QED
      BY <2>1, <2>3, <3>1
  <2> QED
    BY <1>6, <2>2, <2>3 DEF Include
<1>7. CASE Reject
  BY <1>7 DEF Reject, vars, cycle, chainVars, killVars, historyVars
<1>8. CASE SettleNothing
  BY <1>8 DEF SettleNothing, Reads, vars, cycle, chainVars, killVars
<1>9. CASE SettleBuy
  BY <1>9 DEF SettleBuy, Reads, chainVars, killVars
<1>10. CASE SettleSell
  BY <1>10, SettledSellTypes
<1>11. CASE Dividend
  BY <1>11 DEF Dividend, vars, cycle, killVars, historyVars
<1>12. CASE Operate
  BY <1>12 DEF Operate, vars, cycle, chainVars, historyVars
<1>13. CASE Relaunch
  <2>1. /\ killed' = FALSE /\ dayBase' = Nothing /\ dayStart' = Nothing /\ phase' = "idle"
        /\ UNCHANGED <<dividends, active, tripped, buys>>
        /\ faults' \in Nat
    BY <1>13 DEF Relaunch, LeaveCycle, chainVars
  <2>2. unseen' = (unseen \/ Unsaved)
    BY <1>13 DEF Relaunch
  <2>3. unseen' \in BOOLEAN
    BY <2>2, Zenon
  <2> QED
    BY <2>1, <2>3
<1>14. CASE UNCHANGED liveVars
  BY <1>14 DEF liveVars, vars, cycle, aroundVars, chainVars, killVars, historyVars
<1> QED
  BY <1>1, <1>2, <1>3, <1>4, <1>5, <1>6, <1>7, <1>8, <1>9, <1>10, <1>11, <1>12, <1>13,
     <1>14 DEF LiveNext

LEMMA SwitchTyped == LiveSpec => []SwitchTypes
<1>1. ASSUME LiveInit PROVE SwitchTypes
  <2>1. dividends = 0 /\ faults = 0 /\ buys = 0 /\ phase = "idle"
        /\ dayBase = Nothing /\ dayStart = Nothing
    BY <1>1 DEF LiveInit, Init, NoCycle
  <2>2. killed = FALSE /\ active = TRUE /\ unseen = FALSE /\ tripped = FALSE
    BY <1>1 DEF LiveInit
  <2>3. killed \in BOOLEAN /\ active \in BOOLEAN /\ unseen \in BOOLEAN /\ tripped \in BOOLEAN
    BY <2>2
  <2> QED
    BY <2>1, <2>3 DEF SwitchTypes
<1> QED
  BY <1>1, SwitchTypesStep, LiveInvariant, PTL DEF LiveSpec

\* LiveTypeOK: types of the tracker, the chain, the cache and the switch.
THEOREM LiveTypes == LiveSpec => []LiveTypeOK
<1>1. LiveInv /\ SwitchTypes => LiveTypeOK
  BY DEF LiveInv, SwitchTypes, LiveTypeOK, Control, TypeOK, Outside
<1> QED
  BY <1>1, SwitchTyped, LiveInvariant, PTL

\* A purchase moves value from cash to cost and leaves the book value alone.
LEMMA PurchaseKeepsValue ==
  ASSUME LiveInv, SettleBuy
  PROVE  BookValue(free', positions') = BookValue(free, positions)
<1>1. /\ op # Nothing /\ OpTypes /\ op.netuid \in Netuids /\ op.netuid \notin Held
      /\ Control /\ Outside
  BY DEF SettleBuy, LiveInv, OpKnown, OpTypes, Extrinsic
<1>2. PICK read \in StakeReads(op.netuid) :
        /\ free' = free - op.amount
        /\ positions' = [positions EXCEPT ![op.netuid] =
                           [alpha |-> Received(read.value), invested |-> op.amount,
                            hotkey |-> op.hotkey, block |-> op.block]]
  BY DEF SettleBuy
<1> DEFINE p == [alpha |-> Received(read.value), invested |-> op.amount,
                 hotkey |-> op.hotkey, block |-> op.block]
<1>3. Received(read.value) \in Nat
  BY <1>1, <1>2, ReadTypes, ReceivedNat
<1>4. p \in Position /\ p # NoPosition /\ p.invested = op.amount /\ op.amount \in Nat
  BY <1>1, <1>3, ConstantsAssumption DEF OpTypes, Extrinsic, Position
<1>5. positions' = [positions EXCEPT ![op.netuid] = p]
  BY <1>2
<1> HIDE DEF p
<1>6. BookTypes(positions) /\ positions[op.netuid] = NoPosition /\ free \in Nat
  BY <1>1 DEF Control, CycleTypes, BookTypes, Held, Holdings
<1>7. Cost(positions') = Cost(positions) + op.amount /\ Cost(positions) \in Nat
  BY <1>1, <1>4, <1>5, <1>6, CostOfOpening, CostIsNat
<1> QED
  BY <1>2, <1>4, <1>6, <1>7 DEF BookValue

\* A value within the limit of the baseline is within that of the value the day
\* began with, but for what the first sale lost.
LEMMA WithinLimit ==
  ASSUME NEW start \in Nat, NEW base \in Nat, NEW value \in Nat,
         (base - value) * 100 < LossPct * base
  PROVE  (start - value) * 100
           < LossPct * start + (100 - LossPct) * (IF base < start THEN start - base ELSE 0)
<1>1. LossPct \in Nat /\ LossPct <= 100
  BY LiveAssumption
<1>2. \A p, x, y \in Nat : p * (x + y) = p * x + p * y /\ p * x \in Nat
  BY Z3
<1>3. CASE base < start
  <2> DEFINE lost == start - base
  <2>1. lost \in Nat /\ start = base + lost
    BY <1>3
  <2> HIDE DEF lost
  <2>2. LossPct * start = LossPct * base + LossPct * lost /\ LossPct * lost \in Nat
    BY <1>1, <1>2, <2>1
  <2>3. (100 - LossPct) * lost + LossPct * lost = 100 * lost
    <3>1. 100 - LossPct \in Nat /\ (100 - LossPct) + LossPct = 100
      BY <1>1
    <3>2. lost * ((100 - LossPct) + LossPct) = lost * (100 - LossPct) + lost * LossPct
      BY <1>1, <1>2, <2>1, <3>1
    <3>3. \A a, b \in Nat : a * b = b * a
      BY Z3
    <3> QED
      BY <1>1, <2>1, <3>1, <3>2, <3>3
  <2>4. (start - value) * 100 = (base - value) * 100 + 100 * lost
    BY <2>1
  <2>5. LossPct * base \in Nat /\ (100 - LossPct) * lost \in Int
    BY <1>1, <2>1
  <2> QED
    BY <1>1, <1>3, <2>1, <2>2, <2>3, <2>4, <2>5 DEF lost
<1>4. CASE ~(base < start)
  <2> DEFINE won == base - start
  <2>1. won \in Nat /\ base = start + won
    BY <1>4
  <2> HIDE DEF won
  <2>2. LossPct * base = LossPct * start + LossPct * won /\ LossPct * won \in Nat
        /\ LossPct * start \in Nat
    BY <1>1, <1>2, <2>1
  <2>3. LossPct * won <= 100 * won
    <3>1. \A p, x, y \in Nat : x <= y => p * x <= p * y /\ p * x = x * p /\ p * y = y * p
      BY Z3
    <3> QED
      BY <1>1, <2>1, <3>1
  <2>4. (start - value) * 100 = (base - value) * 100 - 100 * won
    BY <2>1
  <2>5. (100 - LossPct) * 0 = 0
    BY <1>1
  <2> QED
    BY <1>4, <2>1, <2>2, <2>3, <2>4, <2>5
<1> QED
  BY <1>3, <1>4

\* A baseline is within its own limit.
LEMMA LossPositive ==
  ASSUME NEW base \in Nat, base # 0
  PROVE  (base - base) * 100 < LossPct * base
<1>1. LossPct \in Nat \ {0}
  BY LiveAssumption
<1>2. LossPct * base > 0
  BY <1>1, Z3
<1> QED
  BY <1>2

LEMMA SaleWithinLoss ==
  ASSUME LiveInv, SwitchTypes, SettleSell, LossBounded
  PROVE  LossBounded'
<1> DEFINE value == BookValue(free', positions')
           begun == BookValue(free, positions)
<1>1. CheckKillSwitch(value)
  BY DEF SettleSell
<1>2. value \in Nat /\ begun \in Nat
  <2>1. Control'
    BY SettledSell DEF LiveInv
  <2>2. Cost(positions') \in Nat /\ free' \in Nat
    BY <2>1, CostIsNat DEF Control, CycleTypes, BookTypes
  <2> QED
    BY <2>2, BookValueNat DEF BookValue, LiveInv
<1>3. CASE dayBase' = value /\ dayStart' = begun
  <2> HIDE DEF value, begun
  <2> SUFFICES ASSUME value # 0
               PROVE  (begun - value) * 100
                        < LossPct * begun
                            + (100 - LossPct) * (IF value < begun THEN begun - value ELSE 0)
    BY <1>3 DEF LossBounded, FirstLoss, value
  <2> QED
    BY <1>2, LossPositive, WithinLimit
<1>4. CASE dayBase # Nothing /\ ~LossReached(value) /\ UNCHANGED killVars
  <2> HIDE DEF value, begun
  <2>1. dayBase \in Nat /\ dayStart \in Nat /\ UNCHANGED <<dayBase, dayStart>>
    BY <1>4 DEF SwitchTypes, killVars
  <2> SUFFICES ASSUME dayBase # 0
               PROVE  (dayStart - value) * 100
                        < LossPct * dayStart
                            + (100 - LossPct)
                                * (IF dayBase < dayStart THEN dayStart - dayBase ELSE 0)
    BY <2>1 DEF LossBounded, FirstLoss, value
  <2>2. ~((dayBase - value) * 100 >= LossPct * dayBase)
    BY <1>4, <2>1 DEF LossReached
  <2>3. (dayBase - value) * 100 \in Int /\ LossPct * dayBase \in Int
    BY <1>2, <2>1, LiveAssumption
  <2>4. (dayBase - value) * 100 < LossPct * dayBase
    BY <2>2, <2>3
  <2> QED
    BY <1>2, <2>1, <2>4, WithinLimit
<1>5. CASE killed' = TRUE
  BY <1>5 DEF LossBounded
<1> QED
  BY <1>1, <1>3, <1>4, <1>5 DEF CheckKillSwitch

\* LossBounded: for every market, every order of sales and days and every end
\* of the process, while the switch has not tripped the book has lost since the
\* day began less than the limit and what lies beyond it of the loss of the
\* day's first sale: _check_kill_switch is asked after each sale, and nothing
\* else makes the book worth less.
THEOREM LossStaysBounded == LiveSpec => []LossBounded
<1>1. LiveInit => LossBounded
  BY DEF LiveInit, LossBounded
<1>2. LiveInv /\ SwitchTypes /\ LossBounded /\ [LiveNext]_liveVars => LossBounded'
  <2> SUFFICES ASSUME LiveInv, SwitchTypes, LossBounded, [LiveNext]_liveVars
               PROVE  LossBounded'
    OBVIOUS
  <2>1. CASE SettleBuy
    <3>1. UNCHANGED <<dayBase, dayStart, killed>>
      BY <2>1 DEF SettleBuy, killVars
    <3> QED
      BY <2>1, <3>1, PurchaseKeepsValue DEF LossBounded, FirstLoss
  <2>2. CASE SettleSell
    BY <2>2, SaleWithinLoss
  <2>3. CASE Relaunch
    BY <2>3 DEF Relaunch, LossBounded
  <2>4. CASE ~SettleBuy /\ ~SettleSell /\ ~Relaunch
    <3>1. UNCHANGED <<free, positions, dayBase, dayStart, killed>>
      BY <2>4 DEF LiveNext, LiveBegin, BeginCycle, LiveEndExits, EndExits, LiveEndCycle,
         EndCycle, DropExit, DropEntry, AbortSell, PrepareSell, PrepareBuy, Include, Reject,
         SettleNothing, Dividend, Operate, liveVars, vars, tracker, aroundVars, killVars
    <3> QED
      BY <3>1 DEF LossBounded, FirstLoss
  <2> QED
    BY <2>1, <2>2, <2>3, <2>4
<1> QED
  BY <1>1, <1>2, SwitchTyped, LiveInvariant, PTL DEF LiveSpec

-------------------------------------------------------------------------------
(* The tracker and the chain.  An extrinsic under way splits what both     *)
(* agree on between two moments: before its inclusion they still match; an *)
(* included buy has left the wallet and not yet the book, an included sale *)
(* is owed what the wallet has grown by since it was read.                 *)
Matches(funds, cash, paidFor) == funds - Wallet = cash - Initial - Fee * paidFor
Backed(S) == \A n \in S : positions[n].alpha <= stake[n]

OnChain ==
  /\ op = Nothing \/ ~op.sent => Matches(balance, free, buys) /\ Backed(Held)
  /\ op # Nothing =>
       /\ ~op.sent /\ op.kind = "sell" => op.before = balance
       /\ op.sent /\ op.kind = "buy" =>
            Matches(balance, free - op.amount, buys + 1) /\ Backed(Held)
       /\ op.sent /\ op.kind = "sell" =>
            Matches(op.before, free, buys) /\ Backed(Held \ {op.netuid})

ChainInv == faults = 0 /\ ~unseen => OnChain

\* Fees are whole.
LEMMA FeesAdd ==
  ASSUME NEW k \in Nat
  PROVE  Fee * k \in Nat /\ Fee * (k + 1) = Fee * k + Fee
<1>1. Fee \in Nat
  BY LiveAssumption
<1> QED
  BY <1>1, Z3

\* A misread chain, a misreported extrinsic, an early end of the process and an
\* extrinsic nobody recorded stay on the history.
LEMMA HistoryGrows ==
  ASSUME LiveInv, SwitchTypes, [LiveNext]_liveVars, faults' = 0, ~unseen'
  PROVE  faults = 0 /\ ~unseen
<1>1. faults' = faults \/ faults' = faults + 1
  <2>1. ASSUME NEW v, NEW a, Reads(v, a) PROVE faults' = faults \/ faults' = faults + 1
    BY <2>1 DEF Reads
  <2>2. CASE \E e \in exits : PrepareSell(e)
    BY <2>1, <2>2 DEF PrepareSell
  <2>3. CASE \E sig \in entries : PrepareBuy(sig)
    BY <2>1, <2>3 DEF PrepareBuy
  <2>4. CASE Include
    BY <2>1, <2>4 DEF Include, historyVars
  <2>5. CASE SettleNothing \/ SettleBuy \/ SettleSell
    BY <2>1, <2>5 DEF SettleNothing, SettleBuy, SettleSell
  <2>6. CASE Relaunch
    BY <2>6 DEF Relaunch
  <2>7. CASE UNCHANGED faults
    BY <2>7
  <2> QED
    BY <2>2, <2>3, <2>4, <2>5, <2>6, <2>7 DEF LiveNext, LiveBegin, LiveEndExits,
       LiveEndCycle, DropExit, DropEntry, AbortSell, Reject, Dividend, Operate, liveVars,
       aroundVars, historyVars
<1>2. unseen => unseen'
  <2>1. CASE Relaunch
    <3>1. unseen' = (unseen \/ Unsaved)
      BY <2>1 DEF Relaunch
    <3> QED
      BY <3>1, Zenon
  <2>2. CASE Include
    BY <2>2 DEF Include, historyVars
  <2>3. CASE SettleNothing
    BY <2>3 DEF SettleNothing
  <2>4. CASE UNCHANGED unseen
    BY <2>4
  <2> QED
    BY <2>1, <2>2, <2>3, <2>4 DEF LiveNext, LiveBegin, LiveEndExits, LiveEndCycle, DropExit,
       DropEntry, AbortSell, PrepareSell, PrepareBuy, Reject, SettleBuy, SettleSell, Dividend,
       Operate, liveVars, aroundVars, historyVars
<1> QED
  BY <1>1, <1>2 DEF SwitchTypes

LEMMA StillBacked ==
  ASSUME Control, Outside, NEW S \in SUBSET Held, Backed(S), UNCHANGED positions,
         \A n \in S : stake'[n] \in Nat /\ stake'[n] >= stake[n]
  PROVE  \A n \in S : positions'[n].alpha <= stake'[n]
<1> TAKE n \in S
<1>1. n \in Netuids /\ positions[n] \in Position
  BY DEF Control, CycleTypes, Held, Holdings
<1>2. positions[n].alpha \in Nat /\ stake[n] \in Nat
  BY <1>1 DEF Position, Outside
<1>3. positions[n].alpha <= stake[n] /\ positions'[n].alpha = positions[n].alpha
  BY DEF Backed
<1> QED
  BY <1>2, <1>3

LEMMA IncludedOnChain ==
  ASSUME LiveInv, SwitchTypes, OnChain, Include, faults' = 0, ~unseen'
  PROVE  OnChain'
<1>1. /\ op # Nothing /\ ~op.sent /\ OpTypes /\ Outside /\ Control
      /\ Matches(balance, free, buys) /\ Backed(Held)
      /\ op.kind = "sell" => op.before = balance
  BY DEF Include, OnChain, LiveInv, OpKnown
<1>2. op' = [op EXCEPT !.sent = TRUE]
  BY DEF Include, Sent
<1>3. UNCHANGED <<free, positions, buys>> /\ Held' = Held
  <2>1. UNCHANGED <<free, positions, buys>>
    BY DEF Include, vars, tracker, historyVars
  <2> QED
    BY <2>1 DEF Held
<1>4. /\ op' # Nothing /\ op'.sent /\ op'.kind = op.kind /\ op'.netuid = op.netuid
      /\ op'.amount = op.amount /\ op'.before = op.before /\ op.netuid \in Netuids
      /\ op.amount \in Nat
  <2>1. op' \in Extrinsic
    BY <1>1, <1>2 DEF OpTypes, Extrinsic
  <2>2. op' # Nothing
    BY <2>1, LiveAssumption
  <2> QED
    BY <1>1, <1>2, <2>1, <2>2 DEF OpTypes, Extrinsic
<1>5. CASE op.kind = "buy"
  <2>1. PICK pool \in Pools :
          /\ BuyAlpha(op.amount, pool.tao_in, pool.alpha_in) > 0
          /\ balance' = balance - op.amount - Fee
          /\ stake' = [stake EXCEPT ![op.netuid] =
                         @ + BuyAlpha(op.amount, pool.tao_in, pool.alpha_in)]
    BY <1>5 DEF Include
  <2>2. BuyAlpha(op.amount, pool.tao_in, pool.alpha_in) \in Nat
    BY <1>4, LiveAssumption, BuyAlphaNat
  <2>3. \A n \in Netuids : stake'[n] \in Nat /\ stake'[n] >= stake[n]
    BY <1>1, <1>4, <2>1, <2>2 DEF Outside
  <2>4. Backed(Held)'
    <3>1. Held \subseteq Netuids
      BY DEF Held, Holdings
    <3> QED
      BY <1>1, <1>3, <2>3, <3>1, StillBacked DEF Backed
  <2>5. /\ balance \in Nat /\ free \in Nat /\ Fee \in Nat /\ Wallet \in Nat
        /\ Initial \in Nat /\ Fee * buys \in Nat /\ Fee * (buys + 1) = Fee * buys + Fee
    BY <1>1, FeesAdd, LiveAssumption, ConstantsAssumption
       DEF SwitchTypes, Outside, Control, CycleTypes
  <2>6. balance - Wallet = free - Initial - Fee * buys
    BY <1>1 DEF Matches
  <2>7. (balance - op.amount - Fee) - Wallet = (free - op.amount) - Initial - Fee * (buys + 1)
    BY <1>4, <2>5, <2>6
  <2>8. Matches(balance, free - op.amount, buys + 1)'
    BY <1>3, <1>4, <2>1, <2>7 DEF Matches
  <2> QED
    BY <1>4, <1>5, <2>4, <2>8 DEF OnChain
<1>6. CASE op.kind = "sell"
  <2>1. \A n \in Netuids \ {op.netuid} : stake'[n] = stake[n]
    BY <1>1, <1>4, <1>6 DEF Include, Outside
  <2>2. Backed(Held \ {op.netuid})'
    BY <1>1, <1>3, <1>4, <2>1 DEF Backed, Held, Holdings
  <2> QED
    BY <1>1, <1>3, <1>4, <1>6, <2>2 DEF OnChain, Matches
<1> QED
  BY <1>1, <1>5, <1>6 DEF OpTypes, Extrinsic

\* A buy read back as it is on chain is booked with what is staked at most; the
\* wallet has paid the amount and a fee.
LEMMA BuyOnChain ==
  ASSUME LiveInv, SwitchTypes, OnChain, SettleBuy, faults = 0, faults' = 0
  PROVE  OnChain'
<1> DEFINE n == op.netuid
<1>1. /\ op # Nothing /\ OpTypes /\ n \in Netuids /\ n \notin Held /\ op.amount \in Nat
      /\ Control /\ Outside /\ Control'
      /\ Matches(balance, free - op.amount, buys + 1) /\ Backed(Held)
  BY SettledBuy DEF SettleBuy, OnChain, LiveInv, OpKnown, OpTypes, Extrinsic
<1>2. PICK read \in StakeReads(n) :
        /\ free' = free - op.amount
        /\ positions' = [positions EXCEPT ![n] =
                           [alpha |-> Received(read.value), invested |-> op.amount,
                            hotkey |-> op.hotkey, block |-> op.block]]
        /\ Reads(read.value, stake[n])
  BY DEF SettleBuy
<1>3. read.value = stake[n]
  BY <1>2 DEF Reads
<1>4. Received(stake[n]) <= stake[n]
  BY <1>1 DEF Received, Outside, OpTypes, Extrinsic
<1>5. op' = Nothing /\ buys' = buys + 1 /\ UNCHANGED <<balance, stake>>
  BY DEF SettleBuy, chainVars
<1>6. \A m \in Netuids \ {n} : positions'[m] = positions[m]
  BY <1>2 DEF n
<1>7. positions'[n].alpha <= stake[n]
  BY <1>1, <1>2, <1>3, <1>4 DEF Control, CycleTypes
<1>8. Backed(Held)'
  BY <1>1, <1>5, <1>6, <1>7 DEF Backed, Held, Holdings
<1> QED
  BY <1>1, <1>2, <1>5, <1>8 DEF OnChain, Matches

\* A sale is booked with what the wallet has grown by since the read before it.
LEMMA SaleOnChain ==
  ASSUME LiveInv, SwitchTypes, OnChain, SettleSell, faults = 0, faults' = 0
  PROVE  OnChain'
<1> DEFINE n == op.netuid
<1>1. /\ op # Nothing /\ OpTypes /\ n \in Netuids /\ op.before \in Nat
      /\ Control /\ Outside
      /\ Matches(op.before, free, buys) /\ Backed(Held \ {n})
  BY DEF SettleSell, OnChain, LiveInv, OpKnown, OpTypes, Extrinsic
<1>2. PICK read \in ProceedsReads :
        /\ Received(read.value) > 0
        /\ free' = free + Received(read.value)
        /\ positions' = [positions EXCEPT ![n] = NoPosition]
        /\ Reads(read.value, balance)
  BY DEF SettleSell
<1>3. read.value = balance
  BY <1>2 DEF Reads
<1>4. Received(read.value) = balance - op.before
  BY <1>1, <1>2, <1>3 DEF Received, Outside
<1>5. op' = Nothing /\ UNCHANGED <<balance, stake, buys>>
  BY DEF SettleSell, chainVars
<1>6. \A m \in Netuids \ {n} : positions'[m] = positions[m]
  BY <1>2 DEF n
<1>7. n \notin Held'
  BY <1>1, <1>2 DEF Held, Holdings, Control, CycleTypes
<1>8. Backed(Held)'
  BY <1>1, <1>5, <1>6, <1>7 DEF Backed, Held, Holdings
<1>9. free \in Nat /\ balance \in Nat /\ Fee * buys \in Nat
  BY <1>1, FeesAdd DEF Control, CycleTypes, Outside, SwitchTypes
<1>10. Matches(balance, free + (balance - op.before), buys)
  BY <1>1, <1>9, LiveAssumption, ConstantsAssumption DEF Matches
<1> QED
  BY <1>2, <1>4, <1>5, <1>8, <1>10 DEF OnChain, Matches

LEMMA ChainInvStep ==
  ASSUME LiveInv, SwitchTypes, ChainInv, [LiveNext]_liveVars
  PROVE  ChainInv'
<1> SUFFICES ASSUME faults' = 0, ~unseen' PROVE OnChain'
  BY DEF ChainInv
<1>1. faults = 0 /\ ~unseen
  BY HistoryGrows
<1>2. OnChain
  BY <1>1 DEF ChainInv
<1>3. ASSUME op = Nothing, UNCHANGED <<free, positions, balance, stake, buys>>,
             op' = Nothing \/ ~op'.sent,
             op' # Nothing /\ op'.kind = "sell" => op'.before = balance
      PROVE  OnChain'
  BY <1>2, <1>3 DEF OnChain, Matches, Backed, Held
<1>4. CASE \E e \in exits : PrepareSell(e)
  <2>1. PICK e \in exits : PrepareSell(e)
    BY <1>4
  <2>2. PICK read \in BalanceReads :
          /\ op'.before = read.value /\ ~op'.sent
          /\ Reads(read.value, balance)
    BY <2>1 DEF PrepareSell
  <2>3. op'.before = balance
    BY <1>1, <2>2 DEF Reads
  <2> QED
    BY <1>3, <2>1, <2>2, <2>3 DEF PrepareSell, MaySell, tracker, chainVars
<1>5. CASE \E sig \in entries : PrepareBuy(sig)
  <2>1. PICK sig \in entries : PrepareBuy(sig)
    BY <1>5
  <2>2. ~op'.sent /\ op'.kind = "buy"
    BY <2>1 DEF PrepareBuy
  <2> QED
    BY <1>3, <2>1, <2>2 DEF PrepareBuy, tracker, chainVars
<1>6. CASE Include
  BY <1>2, <1>6, IncludedOnChain
<1>7. CASE Reject
  <2>1. op # Nothing /\ ~op.sent /\ op' = Nothing
        /\ UNCHANGED <<free, positions, balance, stake, buys>>
    BY <1>7 DEF Reject, Sent, vars, tracker, chainVars, historyVars
  <2> QED
    BY <1>2, <2>1 DEF OnChain, Matches, Backed, Held
<1>8. CASE SettleNothing
  BY <1>8 DEF SettleNothing
<1>9. CASE SettleBuy
  BY <1>1, <1>2, <1>9, BuyOnChain
<1>10. CASE SettleSell
  BY <1>1, <1>2, <1>10, SaleOnChain
<1>11. CASE Dividend
  <2>1. op # Nothing /\ UNCHANGED <<free, positions, balance, op, buys>>
    BY <1>11 DEF Dividend, vars, tracker, historyVars
  <2>2. \A n \in Netuids : stake[n] \in Nat /\ stake'[n] >= stake[n]
    BY <1>11 DEF Dividend, LiveInv, Outside
  <2>3. Held' = Held /\ Held \subseteq Netuids
    BY <2>1 DEF Held, Holdings
  <2>4. \A n \in Held : stake'[n] \in Nat /\ stake'[n] >= stake[n]
    BY <1>11, <2>2, <2>3 DEF Dividend, LiveInv, Outside
  <2>5. Backed(Held) => Backed(Held)'
    BY <2>1, <2>3, <2>4, StillBacked DEF LiveInv, Backed
  <2>6. Backed(Held \ {op.netuid}) => Backed(Held \ {op.netuid})'
    BY <2>1, <2>3, <2>4, StillBacked DEF LiveInv, Backed
  <2> QED
    BY <1>2, <2>1, <2>5, <2>6 DEF OnChain, Matches
<1>12. CASE Relaunch
  <2>1. unseen' = (unseen \/ Unsaved)
    BY <1>12 DEF Relaunch
  <2>2. ~Unsaved
    BY <2>1
  <2>3. op = Nothing /\ free = saved.free /\ positions = saved.positions
    BY <2>2 DEF Unsaved
  <2>4. op' = Nothing /\ UNCHANGED <<free, positions, balance, stake, buys>>
    BY <1>12, <2>3 DEF Relaunch, chainVars
  <2> QED
    BY <1>3, <2>3, <2>4
<1>13. CASE UNCHANGED <<free, positions, balance, stake, op, buys>>
  BY <1>2, <1>13 DEF OnChain, Matches, Backed, Held
<1> QED
  BY <1>4, <1>5, <1>6, <1>7, <1>8, <1>9, <1>10, <1>11, <1>12, <1>13 DEF LiveNext, LiveBegin,
     BeginCycle, LiveEndExits, EndExits, LiveEndCycle, EndCycle, DropExit, DropEntry,
     AbortSell, Operate, liveVars, vars, tracker, aroundVars, chainVars, historyVars

\* ClearReadsMatchChain: as long as the reads and reports were true, every
\* extrinsic left a trace and every cycle came to its end, the alpha of every
\* position is staked and what left the wallet is what left free_tao and a fee
\* for each buy, for every chain, market and loss limit.
THEOREM TrackerMatches == LiveSpec => []ClearReadsMatchChain
<1>1. ASSUME LiveInit PROVE ChainInv
  <2>1. free = Initial /\ balance = Wallet /\ op = Nothing /\ buys = 0 /\ Held = {}
    BY <1>1 DEF LiveInit, Init, TrackerInit, Held, Holdings
  <2>2. Fee * 0 = 0
    BY LiveAssumption
  <2>3. balance - Wallet = free - Initial - Fee * buys
    BY <2>1, <2>2, LiveAssumption, ConstantsAssumption
  <2> QED
    BY <2>1, <2>3 DEF ChainInv, OnChain, Matches, Backed
<1>2. LiveInv /\ ChainInv => ClearReadsMatchChain
  BY DEF ChainInv, OnChain, ClearReadsMatchChain, TrackerMatchesChain, Matches, Backed
<1> QED
  BY <1>1, <1>2, ChainInvStep, SwitchTyped, LiveInvariant, PTL DEF LiveSpec
===============================================================================
