--------------------------- MODULE BacktesterProofs ---------------------------
(***************************************************************************)
(* Proofs about Backtester for every timeline, every set of histories and  *)
(* every choice of signals.  A replay shares its signal handling with the  *)
(* trading cycle, so the lemmas of TradingCycleProofs about one step carry *)
(* over to every step but those of a replay's own: the holding limit, the  *)
(* ticks passed over and the close at the end, which leaves the replay     *)
(* flat with the cash it reports.                                          *)
(*                                                                         *)
(* On the same histories, for every episode the policy is trained in: the  *)
(* rewards add up to what was earned, and the indicators of a bar are      *)
(* those of the same bar in a buffer that holds the longest window before  *)
(* it; only the rank of the pool is observed differently.                  *)
(***************************************************************************)
EXTENDS Training, TradingCycleProofs

\* The hotkey of this position was used too recently to sell it.
Blocked(n) == ~Rested(positions[n].hotkey, snaps[n].block)

\* What has been walked over by the holding limit is young or blocked, and
\* stays so while entries are served.
Walked ==
  /\ phase = "holds" => holds \subseteq Held
  /\ phase \in {"holds", "entries"} =>
       \A n \in Held \cap Seen(snaps) :
         (phase = "holds" => n \notin holds) /\ Overdue(n) => Blocked(n)

\* Until the forced close everything the cycle guarantees holds.
ReplayInv ==
  phase \notin {"closing", "done"} => Control /\ LimitsKept /\ Walked

-------------------------------------------------------------------------------
\* A trade by a rested hotkey blocks every position that hotkey blocked.
LEMMA StaysBlocked ==
  ASSUME CycleTypes,
         NEW h \in Hotkeys, NEW b \in Nat, Rested(h, b),
         cooldowns' = [cooldowns EXCEPT ![h] = b],
         NEW n \in Netuids, positions[n] \in Position,
         positions'[n] = positions[n], snaps[n] \in Snapshots, snaps' = snaps,
         Blocked(n)
  PROVE  Blocked(n)'
<1>1. snaps[n].block \in Nat /\ positions[n].hotkey \in Hotkeys /\ Cooldown \in Nat
  BY ConstantsAssumption DEF Position
<1>2. cooldowns \in [Hotkeys -> Nat]
  BY DEF CycleTypes
<1>. QED
  BY <1>1, <1>2 DEF Blocked, Rested

\* A position just bought at its subnet's snapshot is not overdue.
LEMMA FreshNotOverdue ==
  ASSUME NEW n, snaps[n].block \in Nat, positions[n].block = snaps[n].block
  PROVE  ~Overdue(n)
BY HistoriesAssumption DEF Overdue

\* What a walked position needs to stay walked: it is held and unchanged.
LEMMA OverdueKept ==
  ASSUME NEW n, positions'[n] = positions[n], snaps' = snaps
  PROVE  Overdue(n)' <=> Overdue(n)
BY DEF Overdue

\* The steps of a replay that are steps of the cycle.
LEMMA ControlStep ==
  ASSUME Control, LimitsKept, [Next]_vars
  PROVE  Control' /\ LimitsKept'
BY NextTypes, NextQueues, LimitsStep DEF Control

\* Serving a signal keeps what was walked over walked.
LEMMA SignalKeepsInv ==
  ASSUME ReplayInv, ServeSignal
  PROVE  ReplayInv'
<1>1. phase \in {"exits", "entries"} /\ phase' = phase /\ snaps' = snaps /\ holds' = holds
  BY DEF ServeSignal, ServeExit, SkipExit, ServeEntry, SkipEntry, replay
<1>2. Control /\ LimitsKept /\ Walked
  BY <1>1 DEF ReplayInv
<1>3. [Next]_vars
  BY DEF ServeSignal, Next, CycleStep
<1>4. Control' /\ LimitsKept'
  BY <1>2, <1>3, ControlStep
<1>5. Walked'
  <2>1. CASE phase = "exits"
    BY <1>1, <2>1 DEF Walked
  <2>2. CASE \E sig \in entries : ServeEntry(sig)
    <3>1. PICK sig \in entries : ServeEntry(sig)
      BY <2>2
    <3>. DEFINE m == sig.netuid
    <3>2. /\ Control /\ ServeEntry(sig)
          /\ m \in Netuids /\ snaps[m].block \in Nat
      BY <1>2, <3>1, ServeEntryEffect
    <3>3. PICK amount \in Nat, alpha \in Nat, h \in Hotkeys :
            /\ Rested(h, snaps[m].block)
            /\ positions' = [positions EXCEPT ![m] =
                 [alpha |-> alpha, invested |-> amount,
                  hotkey |-> h, block |-> snaps[m].block]]
            /\ cooldowns' = [cooldowns EXCEPT ![h] = snaps[m].block]
      BY <3>2, EntryUsesHotkey
    <3>4. phase = "entries"
      BY <3>1 DEF ServeEntry
    <3>5. SUFFICES ASSUME NEW n \in (Held \cap Seen(snaps))', Overdue(n)'
                   PROVE  Blocked(n)'
      BY <1>1, <3>4 DEF Walked
    <3>6. n \in Netuids /\ snaps[n] \in Snapshots
      BY <1>1, <1>2 DEF Held, Holdings, Seen, Control, CycleTypes
    <3>7. CASE n = m
      <4>1. positions'[n].block = snaps'[n].block /\ snaps'[n].block \in Nat
        BY <1>1, <1>2, <3>2, <3>3, <3>7 DEF Control, CycleTypes
      <4>. QED
        BY <3>5, <4>1, FreshNotOverdue, HistoriesAssumption DEF Overdue
    <3>8. CASE n # m
      <4>1. positions'[n] = positions[n]
        BY <1>2, <3>3, <3>6, <3>8 DEF Control, CycleTypes
      <4>2. n \in Held \cap Seen(snaps) /\ positions[n] \in Position
        BY <1>1, <1>2, <3>6, <4>1 DEF Held, Holdings, Seen, Control, CycleTypes
      <4>3. Blocked(n)
        BY <1>1, <1>2, <3>4, <3>5, <4>1, <4>2, OverdueKept DEF Walked
      <4>. QED
        BY <1>1, <1>2, <3>2, <3>3, <3>6, <4>1, <4>2, <4>3, StaysBlocked DEF Control
    <3>. QED
      BY <3>7, <3>8
  <2>3. CASE phase = "entries" /\ ~ \E sig \in entries : ServeEntry(sig)
    <3>1. UNCHANGED <<positions, cooldowns>>
      BY <2>3 DEF ServeSignal, ServeExit, SkipExit, SkipEntry, tracker
    <3>. QED
      BY <1>1, <1>2, <3>1 DEF Walked, Held, Seen, Overdue, Blocked, Rested
  <2>. QED
    BY <1>1, <2>1, <2>2, <2>3
<1>. QED
  BY <1>1, <1>4, <1>5 DEF ReplayInv

\* A forced exit is a sale by a rested hotkey.
LEMMA ForcedSale ==
  ASSUME ReplayInv, NEW n \in holds, CloseOverdue(n)
  PROVE  /\ phase = "holds" /\ Control /\ LimitsKept /\ Walked
         /\ n \in Held /\ snaps[n] # NoSnapshot
         /\ Rested(positions[n].hotkey, snaps[n].block)
         /\ Sell(n, snaps[n], FALSE)
<1>1. phase = "holds" /\ Sell(n, snaps[n], FALSE) /\ MustExit(n)
  BY DEF CloseOverdue
<1>. QED
  BY <1>1 DEF ReplayInv, MustExit, MayExit, Seen

LEMMA CloseKeepsInv ==
  ASSUME ReplayInv, NEW n \in holds, CloseOverdue(n)
  PROVE  ReplayInv'
<1>1. /\ phase = "holds" /\ Control /\ LimitsKept /\ Walked
      /\ n \in Held /\ snaps[n] # NoSnapshot
      /\ Rested(positions[n].hotkey, snaps[n].block)
      /\ Sell(n, snaps[n], FALSE)
  BY ForcedSale
<1>2. CycleTypes
  BY <1>1 DEF Control
<1>3. /\ free' \in Nat /\ free' >= free
      /\ positions' \in [Netuids -> Position \cup {NoPosition}]
      /\ Held' = Held \ {n}
      /\ cooldowns' \in [Hotkeys -> Nat]
      /\ trades' \in Seq(Trade)
      /\ Len(trades') = Len(trades) + 1
  BY <1>1, <1>2, SellTypes
<1>4. UNCHANGED cycle /\ holds' = holds \ {n}
  BY DEF CloseOverdue
<1>5. Control'
  <2>1. mark' \in 0 .. Len(trades')
    BY <1>2, <1>3, <1>4 DEF CycleTypes, cycle
  <2>. QED
    BY <1>1, <1>3, <1>4, <2>1 DEF Control, CycleTypes, Queues, Fresh, cycle
<1>6. LimitsKept'
  <2>1. IsFiniteSet(Held) /\ Cardinality(Held) \in Nat
    <3>1. Held \subseteq Netuids
      BY DEF Held, Holdings
    <3>. QED
      BY <3>1, FS_Subset, FS_CardinalityType, ConstantsAssumption
  <2>2. Cardinality(Held') <= Cardinality(Held) /\ Cardinality(Held') \in Nat
    BY <1>3, <2>1, FS_Subset, FS_CardinalityType
  <2>. QED
    BY <1>1, <1>2, <1>3, <2>1, <2>2, ConstantsAssumption
       DEF LimitsKept, ReserveIntact, PositionsBounded, CycleTypes
<1>7. Walked'
  <2>1. SUFFICES ASSUME NEW k \in (Held \cap Seen(snaps))', k \notin holds', Overdue(k)'
                 PROVE  Blocked(k)'
    BY <1>1, <1>3, <1>4 DEF Walked, cycle
  <2>2. k \in Held \cap Seen(snaps) /\ k # n /\ k \notin holds
    BY <1>3, <1>4, <2>1 DEF Seen, cycle
  <2>3. snaps[n].block \in Nat /\ positions[n].hotkey \in Hotkeys /\ n \in Netuids
    BY <1>1, <1>2, SoldPosition
  <2>4. /\ positions' = [positions EXCEPT ![n] = NoPosition]
        /\ cooldowns' = [cooldowns EXCEPT ![positions[n].hotkey] = snaps[n].block]
    BY <1>1, <1>2, SellEffect
  <2>5. /\ k \in Netuids /\ positions[k] \in Position
        /\ positions'[k] = positions[k] /\ snaps[k] \in Snapshots
    BY <1>2, <2>2, <2>4 DEF Held, Holdings, Seen, CycleTypes
  <2>6. snaps' = snaps
    BY <1>4 DEF cycle
  <2>7. Blocked(k)
    BY <1>1, <2>1, <2>2, <2>5, <2>6, OverdueKept DEF Walked
  <2>. QED
    BY <1>1, <1>2, <2>3, <2>4, <2>5, <2>6, <2>7, StaysBlocked
<1>. QED
  BY <1>5, <1>6, <1>7 DEF ReplayInv

LEMMA ReplayInvStep ==
  ASSUME ReplayInv, [ReplayNext]_replayVars
  PROVE  ReplayInv'
<1>1. CASE WarmUp
  BY <1>1 DEF WarmUp, ReplayInv, Walked, vars, tracker, cycle, Control, CycleTypes,
     Queues, Fresh, LimitsKept, ReserveIntact, PositionsBounded, Held, Seen
<1>2. CASE PassOver
  BY <1>2 DEF PassOver, ReplayInv, Walked, cycle, Control, CycleTypes,
     Queues, Fresh, LimitsKept, ReserveIntact, PositionsBounded, Held, Seen
<1>3. CASE BeginTick
  <2>1. BeginCycle /\ phase = "idle" /\ phase' = "exits"
    BY <1>3 DEF BeginTick, BeginCycle
  <2>2. Control' /\ LimitsKept'
    BY <2>1, ControlStep DEF ReplayInv, Next, CycleStep
  <2>. QED
    BY <2>1, <2>2 DEF ReplayInv, Walked
<1>4. CASE ServeSignal
  BY <1>4, SignalKeepsInv
<1>5. CASE BeginHolds
  <2>1. /\ phase = "exits" /\ exits = {} /\ phase' = "holds" /\ holds' = Held
        /\ UNCHANGED <<free, positions, cooldowns, trades, snaps, exits, entries,
                       mark, state>>
    BY <1>5 DEF BeginHolds, tracker
  <2>2. Held' = Held
    BY <2>1 DEF Held
  <2>. QED
    BY <2>1, <2>2 DEF ReplayInv, Walked, Control, CycleTypes, Queues, Fresh,
       LimitsKept, ReserveIntact, PositionsBounded
<1>6. CASE EndHolds
  <2>1. /\ phase = "holds" /\ holds = {} /\ phase' = "entries"
        /\ state' = StateOf(free, positions, snaps)
        /\ UNCHANGED <<free, positions, cooldowns, trades, snaps, exits, entries,
                       mark, holds>>
    BY <1>6 DEF EndHolds, TakeState, replay
  <2>2. state'.free = free /\ state'.held = Held /\ Held' = Held
    BY <2>1 DEF StateOf, Held
  <2>3. Held \subseteq Netuids
    BY DEF Held, Holdings
  <2>4. Control' /\ LimitsKept'
    BY <2>1, <2>2, <2>3 DEF ReplayInv, Control, CycleTypes, Queues, Fresh,
       LimitsKept, ReserveIntact, PositionsBounded
  <2>5. Walked'
    BY <2>1, <2>2 DEF ReplayInv, Walked, Overdue, Blocked, Rested, Seen
  <2>. QED
    BY <2>4, <2>5 DEF ReplayInv
<1>7. CASE EndTick
  <2>1. EndCycle /\ phase = "entries" /\ phase' = "idle"
    BY <1>7 DEF EndTick, EndCycle
  <2>2. Control' /\ LimitsKept'
    BY <2>1, ControlStep DEF ReplayInv, Next
  <2>. QED
    BY <2>1, <2>2 DEF ReplayInv, Walked
<1>8. CASE \E n \in holds : CloseOverdue(n)
  BY <1>8, CloseKeepsInv
<1>9. CASE \E n \in holds : KeepHolding(n)
  <2>1. PICK n \in holds : KeepHolding(n)
    BY <1>9
  <2>2. phase = "holds" /\ ~MustExit(n) /\ holds' = holds \ {n} /\ UNCHANGED vars
    BY <2>1 DEF KeepHolding
  <2>3. n \in Held /\ Walked /\ Control /\ LimitsKept
    BY <2>2 DEF ReplayInv, Walked
  <2>4. n \in Seen(snaps) /\ Overdue(n) => Blocked(n)
    BY <2>2, <2>3 DEF MustExit, MayExit, Blocked
  <2>5. Walked'
    BY <2>2, <2>3, <2>4 DEF Walked, vars, tracker, cycle, Held, Seen, Overdue,
       Blocked, Rested
  <2>6. Control' /\ LimitsKept'
    BY <2>2, <2>3, ControlStep
  <2>. QED
    BY <2>5, <2>6 DEF ReplayInv
<1>10. CASE BeginClose
  BY <1>10 DEF BeginClose, ReplayInv
<1>11. CASE Finish
  BY <1>11 DEF Finish, ReplayInv
<1>12. CASE \E n \in Held : ForceClose(n)
  BY <1>12 DEF ForceClose, ReplayInv, cycle
<1>13. CASE Finished \/ UNCHANGED replayVars
  BY <1>13 DEF Finished, replayVars, replay, ReplayInv, Walked, vars, tracker, cycle,
     Control, CycleTypes, Queues, Fresh, LimitsKept, ReserveIntact,
     PositionsBounded, Held, Seen, Overdue, Blocked, Rested
<1>. QED
  BY <1>1, <1>2, <1>3, <1>4, <1>5, <1>6, <1>7, <1>8, <1>9, <1>10, <1>11, <1>12, <1>13
     DEF ReplayNext, ReplayStep

LEMMA ReplayInvariant == ReplaySpec => []ReplayInv
<1>1. ReplayInit => ReplayInv
  BY InitControl, InitLimits DEF ReplayInit, ReplayInv, Walked, Init, NoCycle
<1>2. ReplayInv /\ [ReplayNext]_replayVars => ReplayInv'
  BY ReplayInvStep
<1>. QED
  BY <1>1, <1>2, PTL DEF ReplaySpec

-------------------------------------------------------------------------------
\* HoldsBounded: whatever is overdue when a tick's entries are served has a
\* hotkey that is cooling down.
THEOREM NoHoldForgotten == ReplaySpec => []HoldsBounded
<1>1. ReplayInv => HoldsBounded
  <2>. SUFFICES ASSUME ReplayInv, phase = "entries",
                       NEW n \in Held \cap Seen(snaps),
                       snaps[n].block >= positions[n].block + MaxHold
                PROVE  Blocked(n)
    BY DEF HoldsBounded, Blocked
  <2>1. Control /\ Walked
    BY DEF ReplayInv
  <2>2. positions[n] \in Position /\ snaps[n] \in Snapshots
    BY <2>1 DEF Control, CycleTypes, Held, Holdings, Seen
  <2>3. positions[n].block \in Nat /\ snaps[n].block \in Nat /\ MaxHold \in Nat
    BY <2>2, ConstantsAssumption, HistoriesAssumption DEF Position
  <2>4. Overdue(n)
    BY <2>3 DEF Overdue
  <2>. QED
    BY <2>1, <2>4 DEF Walked
<1>. QED
  BY ReplayInvariant, <1>1, PTL

\* While exits are served and holds are checked, the tick has only sold.
SellsOnly == phase \in {"exits", "holds"} => NothingBought

\* A sale is one more sell, and opens nothing.
LEMMA SaleAppends ==
  ASSUME CycleTypes, NEW n \in Held, snaps[n] # NoSnapshot, NEW drain \in BOOLEAN,
         Sell(n, snaps[n], drain), mark' = mark, NothingBought
  PROVE  NothingBought'
<1>1. PICK trade : trades' = Append(trades, trade) /\ trade.dir = "sell"
  BY DEF Sell
<1>2. trades \in Seq(Trade) /\ mark \in Nat
  BY DEF CycleTypes
<1>3. \A i \in (mark + 1) .. Len(trades') :
        trades'[i] = IF i = Len(trades) + 1 THEN trade ELSE trades[i]
  BY <1>1, <1>2
<1>4. \A i \in (mark + 1) .. Len(trades') :
        i # Len(trades) + 1 => i \in (mark + 1) .. Len(trades)
  BY <1>1, <1>2
<1> QED
  BY <1>1, <1>3, <1>4 DEF NothingBought

LEMMA SellsOnlyStep ==
  ASSUME ReplayInv, SellsOnly, [ReplayNext]_replayVars
  PROVE  SellsOnly'
<1>1. CASE ServeSignal
  <2>1. phase \in {"exits", "entries"} /\ phase' = phase /\ mark' = mark
    BY <1>1 DEF ServeSignal, ServeExit, SkipExit, ServeEntry, SkipEntry
  <2>2. CASE \E e \in exits : ServeExit(e)
    <3>1. PICK e \in exits : ServeExit(e)
      BY <2>2
    <3>2. phase = "exits" /\ Control
      BY <2>1, <3>1 DEF ServeExit, ReplayInv
    <3>3. /\ e.netuid \in Held /\ snaps[e.netuid] # NoSnapshot /\ e.drain \in BOOLEAN
          /\ Sell(e.netuid, snaps[e.netuid], e.drain)
      BY <3>1, <3>2, ServedExit
    <3>4. NothingBought'
      BY <2>1, <3>2, <3>3, SaleAppends DEF SellsOnly, Control
    <3> QED
      BY <3>4 DEF SellsOnly
  <2>3. CASE phase = "exits" /\ ~ \E e \in exits : ServeExit(e)
    <3>1. UNCHANGED trades
      BY <1>1, <2>3 DEF ServeSignal, SkipExit, ServeEntry, SkipEntry, tracker
    <3> QED
      BY <2>1, <2>3, <3>1 DEF SellsOnly, NothingBought
  <2>4. CASE phase = "entries"
    BY <2>1, <2>4 DEF SellsOnly
  <2> QED
    BY <2>1, <2>2, <2>3, <2>4
<1>2. CASE \E n \in holds : CloseOverdue(n)
  <2>1. PICK n \in holds : CloseOverdue(n)
    BY <1>2
  <2>2. /\ phase = "holds" /\ Control /\ n \in Held /\ snaps[n] # NoSnapshot
        /\ Sell(n, snaps[n], FALSE)
    BY <2>1, ForcedSale
  <2>3. mark' = mark
    BY <2>1 DEF CloseOverdue, cycle
  <2>4. NothingBought'
    BY <2>2, <2>3, SaleAppends DEF SellsOnly, Control
  <2> QED
    BY <2>4 DEF SellsOnly
<1>3. CASE BeginTick
  <2>1. mark' = Len(trades) /\ trades' = trades
    BY <1>3 DEF BeginTick, BeginCycle, tracker
  <2>2. phase = "idle"
    BY <1>3 DEF BeginTick
  <2>3. trades \in Seq(Trade)
    BY <2>2 DEF ReplayInv, Control, CycleTypes
  <2>4. (Len(trades) + 1) .. Len(trades) = {}
    BY <2>3
  <2> QED
    BY <2>1, <2>4 DEF SellsOnly, NothingBought
<1>4. CASE BeginHolds
  BY <1>4 DEF BeginHolds, tracker, SellsOnly, NothingBought
<1>5. CASE UNCHANGED <<phase, trades, mark>>
  BY <1>5 DEF SellsOnly, NothingBought
<1>6. CASE phase' \notin {"exits", "holds"}
  BY <1>6 DEF SellsOnly
<1>7. \/ ServeSignal \/ BeginTick \/ BeginHolds \/ \E n \in holds : CloseOverdue(n)
      \/ UNCHANGED <<phase, trades, mark>> \/ phase' \notin {"exits", "holds"}
  <2>1. CASE WarmUp \/ Finished \/ UNCHANGED replayVars \/ PassOver
             \/ \E n \in holds : KeepHolding(n)
    BY <2>1 DEF WarmUp, Finished, PassOver, KeepHolding, replayVars, vars, tracker, cycle
  <2>2. CASE EndHolds \/ EndTick \/ BeginClose \/ Finish
    BY <2>2 DEF EndHolds, EndTick, EndCycle, BeginClose, Finish
  <2>3. CASE \E n \in Held : ForceClose(n)
    BY <2>3 DEF ForceClose, cycle
  <2> QED
    BY <2>1, <2>2, <2>3 DEF ReplayNext, ReplayStep
<1> QED
  BY <1>1, <1>2, <1>3, <1>4, <1>5, <1>6, <1>7

\* ReplayKeepsPortfolio: until the forced close at the end of the timeline a
\* replay changes its book only by opening or closing one position within
\* the reserve, the position limit and the hotkeys' cooldowns, and a tick sells
\* nothing once it has bought.
THEOREM ReplayIsAPortfolio == ReplaySpec => ReplayKeepsPortfolio
<1>. DEFINE Move == phase # "closing" =>
                      /\ Book!AccountNext \/ UNCHANGED <<free, positions, cooldowns>>
                      /\ Sold => NothingBought
<1>1. ASSUME ReplayInv, ReplayInv', SellsOnly, [ReplayNext]_replayVars
      PROVE  [Move]_replayVars
  <2>. SUFFICES ASSUME ReplayNext, phase # "closing"
                PROVE  /\ Book!AccountNext \/ UNCHANGED <<free, positions, cooldowns>>
                       /\ Sold => NothingBought
    BY <1>1
  <2>1. CASE ServeSignal
    <3>1. phase \in {"exits", "entries"} /\ phase' = phase
      BY <2>1 DEF ServeSignal, ServeExit, SkipExit, ServeEntry, SkipEntry
    <3>2. Control /\ PositionsBounded'
      BY <1>1, <3>1 DEF ReplayInv, LimitsKept
    <3>3. [Next]_vars
      BY <2>1 DEF ServeSignal, Next, CycleStep
    <3>4. CASE phase = "entries"
      <4>1. CASE \E sig \in entries : ServeEntry(sig)
        <5>1. PICK sig \in entries : ServeEntry(sig)
          BY <4>1
        <5>2. PICK amount \in Nat, alpha \in Nat, h \in Hotkeys :
                positions' = [positions EXCEPT ![sig.netuid] =
                  [alpha |-> alpha, invested |-> amount,
                   hotkey |-> h, block |-> snaps[sig.netuid].block]]
          BY <3>2, <5>1, EntryUsesHotkey
        <5>3. sig.netuid \in Netuids /\ snaps[sig.netuid].block \in Nat
          BY <3>2, <5>1, ServeEntryEffect
        <5>4. [alpha |-> alpha, invested |-> amount, hotkey |-> h,
               block |-> snaps[sig.netuid].block] # NoPosition
          BY <5>3, ConstantsAssumption
        <5>5. Held \subseteq Holdings(positions')
          BY <3>2, <5>2, <5>4 DEF Held, Holdings, Control, CycleTypes
        <5>. QED
          BY <3>2, <3>3, <5>5, StepImplements DEF Sold
      <4>2. CASE ~ \E sig \in entries : ServeEntry(sig)
        <5>1. UNCHANGED positions
          BY <2>1, <3>4, <4>2 DEF ServeSignal, ServeExit, SkipExit, SkipEntry, tracker
        <5>. QED
          BY <3>2, <3>3, <5>1, StepImplements DEF Sold, Held
      <4>. QED
        BY <4>1, <4>2
    <3>5. CASE phase = "exits"
      BY <1>1, <3>2, <3>3, <3>5, StepImplements DEF SellsOnly
    <3>. QED
      BY <3>1, <3>4, <3>5
  <2>2. CASE \E n \in holds : CloseOverdue(n)
    <3>1. \E n \in Netuids : Book!ClosePosition(n)
      BY <1>1, <2>2, ForcedSale, SellCloses DEF Control
    <3>2. phase = "holds"
      BY <2>2 DEF CloseOverdue
    <3>. QED
      BY <1>1, <3>1, <3>2 DEF Book!AccountNext, SellsOnly
  <2>3. CASE \E n \in Held : ForceClose(n)
    BY <2>3 DEF ForceClose
  <2>4. CASE UNCHANGED <<free, positions, cooldowns>>
    BY <2>4 DEF Sold, Held
  <2>5. ~ ServeSignal /\ ~ (\E n \in holds : CloseOverdue(n))
        /\ ~ (\E n \in Held : ForceClose(n))
          => UNCHANGED <<free, positions, cooldowns>>
    BY DEF ReplayNext, ReplayStep, WarmUp, PassOver, BeginTick, BeginCycle,
       BeginHolds, EndHolds, EndTick, EndCycle, KeepHolding, BeginClose, Finish,
       Finished, replayVars, vars, tracker
  <2>. QED
    BY <2>1, <2>2, <2>3, <2>4, <2>5
<1>2. ReplayInit => SellsOnly
  BY DEF ReplayInit, Init, NoCycle, SellsOnly
<1>3. ReplayInv /\ SellsOnly /\ [ReplayNext]_replayVars => SellsOnly'
  BY SellsOnlyStep
<1>4. ReplaySpec => []SellsOnly
  BY <1>2, <1>3, ReplayInvariant, PTL DEF ReplaySpec
<1>. QED
  BY <1>1, <1>4, ReplayInvariant, PTL DEF ReplaySpec, ReplayKeepsPortfolio

-------------------------------------------------------------------------------
(* The end of a replay.                                                    *)

\* The subnets that have a sample somewhere.
Sampled == {n \in Netuids : SampledAt(history[n]) # {}}

\* Only a sampled subnet is ever seen, so whatever is held can be sold at the
\* end; the capital is conserved through the forced close too; and with nothing
\* held the last value recorded is the cash in hand.
ClosingInv ==
  /\ history \in [Netuids -> Histories \cup {NoHistory}]
  /\ Seen(snaps) \subseteq Sampled /\ Held \subseteq Sampled
  /\ CycleTypes /\ EquityConserved
  /\ phase = "closing" => snaps = Current(Ticks)
  /\ phase = "entries" /\ Held = {} => state.total = free
  /\ phase = "idle" /\ Held = {} => final = free
  /\ phase = "done" => Held = {} /\ final = free

\* A pointer shows a sample of its own subnet, at the last tick the last one.
LEMMA CurrentSamples ==
  ASSUME history \in [Netuids -> Histories \cup {NoHistory}], NEW t
  PROVE  /\ Current(t) \in [Netuids -> Snapshots \cup {NoSnapshot}]
         /\ Seen(Current(t)) \subseteq Sampled
         /\ Seen(Current(Ticks)) = Sampled
<1> DEFINE Past(n, k) == {u \in SampledAt(history[n]) : u <= k}
<1>1. Ticks \in Nat
  BY HistoriesAssumption
<1>2. ASSUME NEW n \in Netuids, NEW k, Past(n, k) # {}
      PROVE  history[n][Max(Past(n, k))] \in Snapshots \ {NoSnapshot}
  <2>1. Past(n, k) \subseteq 1 .. Ticks
    BY DEF SampledAt
  <2>2. Max(Past(n, k)) \in Past(n, k)
    BY <1>1, <1>2, <2>1, GreatestElement
  <2>3. history[n] \in [1 .. Ticks -> Snapshots \cup {NoSnapshot}]
    BY HistoriesAssumption DEF NoHistory
  <2> QED
    BY <2>1, <2>2, <2>3 DEF SampledAt
<1>3. \A k : Current(k) = [n \in Netuids |->
                 IF Past(n, k) = {} THEN NoSnapshot ELSE history[n][Max(Past(n, k))]]
  BY DEF Current
<1>4. \A n \in Netuids : Past(n, Ticks) = SampledAt(history[n])
  BY <1>1 DEF SampledAt
<1>5. \A n \in Netuids : \A k : Past(n, k) \subseteq SampledAt(history[n])
  OBVIOUS
<1> HIDE DEF Past
<1>6. ASSUME NEW k
      PROVE  /\ Current(k) \in [Netuids -> Snapshots \cup {NoSnapshot}]
             /\ Seen(Current(k)) = {n \in Netuids : Past(n, k) # {}}
  BY <1>2, <1>3 DEF Seen
<1> QED
  BY <1>4, <1>5, <1>6 DEF Sampled

\* With nothing held the total is the cash.
LEMMA TotalOfNothing ==
  ASSUME NEW f \in Nat, NEW pos, Holdings(pos) = {}, NEW s
  PROVE  TotalValue(f, pos, s) = f
<1>1. SumFunction([n \in Holdings(pos) |-> PositionValue(pos[n], s[n])]) = 0
  BY SumOfNone DEF SumFunction
<1> QED
  BY <1>1 DEF TotalValue

\* The steps that trade, and what they keep.
LEMMA ReplaySale ==
  ASSUME ClosingInv, NEW n \in Held, snaps[n] # NoSnapshot, Sell(n, snaps[n], FALSE),
         UNCHANGED <<cycle, history>>
  PROVE  CycleTypes' /\ EquityConserved' /\ Held' \subseteq Held
<1>1. CycleTypes /\ EquityConserved
  BY DEF ClosingInv
<1>2. /\ free' \in Nat
      /\ positions' \in [Netuids -> Position \cup {NoPosition}]
      /\ Held' = Held \ {n} /\ cooldowns' \in [Hotkeys -> Nat]
      /\ trades' \in Seq(Trade) /\ Len(trades') = Len(trades) + 1
  BY <1>1, SellTypes
<1>3. CycleTypes'
  <2>1. mark' \in 0 .. Len(trades')
    BY <1>1, <1>2 DEF CycleTypes, cycle
  <2> QED
    BY <1>1, <1>2, <2>1 DEF CycleTypes, cycle
<1>4. Conserved
  BY <1>1, SaleConserves
<1> QED
  BY <1>1, <1>2, <1>3, <1>4, ConservedKeeps

LEMMA ClosingStep ==
  ASSUME ReplayInv, ClosingInv, [ReplayNext]_replayVars
  PROVE  ClosingInv'
<1>1. /\ CycleTypes /\ EquityConserved /\ free \in Nat
      /\ history \in [Netuids -> Histories \cup {NoHistory}]
      /\ Seen(snaps) \subseteq Sampled /\ Held \subseteq Sampled
  BY DEF ClosingInv, CycleTypes
<1>2. history' = history /\ Sampled' = Sampled
  <2>1. history' = history
    BY DEF ReplayNext, ReplayStep, WarmUp, PassOver, BeginTick, ServeSignal, BeginHolds,
       EndHolds, EndTick, CloseOverdue, KeepHolding, BeginClose, ForceClose, Finish,
       Finished, replayVars, replay
  <2> QED
    BY <2>1 DEF Sampled
<1>3. ASSUME UNCHANGED <<free, positions, trades>> PROVE EquityConserved' /\ Held' = Held
  BY <1>1, <1>3 DEF EquityConserved, Held
<1>4. CASE WarmUp \/ UNCHANGED replayVars \/ Finished
  <2>1. UNCHANGED <<vars, history, final>>
    BY <1>4 DEF WarmUp, Finished, replayVars, replay
  <2>2. CycleTypes'
    BY <1>1, <2>1 DEF CycleTypes, vars, tracker, cycle
  <2> QED
    BY <1>1, <1>2, <1>3, <2>1, <2>2 DEF ClosingInv, vars, tracker, cycle, Seen, Current
<1>5. CASE PassOver
  <2>1. /\ phase = "idle" /\ UNCHANGED <<free, positions, cooldowns, trades, cycle, history>>
        /\ final' = TotalValue(free, positions, Current(tick'))
    BY <1>5 DEF PassOver, RecordValue
  <2>2. CycleTypes'
    BY <1>1, <2>1 DEF CycleTypes, cycle
  <2>3. Held = {} => final' = free
    BY <1>1, <2>1, TotalOfNothing DEF Held
  <2> QED
    BY <1>1, <1>2, <1>3, <2>1, <2>2, <2>3 DEF ClosingInv, cycle, Seen, Current
<1>6. CASE BeginTick
  <2>1. /\ BeginCycle /\ phase = "idle" /\ phase' = "exits" /\ snaps' = Current(tick')
        /\ UNCHANGED <<free, positions, trades>>
    BY <1>6 DEF BeginTick, BeginCycle, tracker
  <2>2. CycleTypes'
    BY <2>1, NextTypes DEF ReplayInv, Next, CycleStep
  <2>3. Seen(snaps)' \subseteq Sampled
    BY <1>1, <2>1, CurrentSamples DEF Seen
  <2> QED
    BY <1>1, <1>2, <1>3, <2>1, <2>2, <2>3 DEF ClosingInv
<1>7. CASE ServeSignal
  <2>1. /\ phase \in {"exits", "entries"} /\ phase' = phase /\ snaps' = snaps
        /\ [Next]_vars
    BY <1>7 DEF ServeSignal, ServeExit, SkipExit, ServeEntry, SkipEntry, Next, CycleStep
  <2>2. Control
    BY <2>1 DEF ReplayInv
  <2>3. CycleTypes' /\ EquityConserved'
    BY <1>1, <2>1, <2>2, NextTypes, StepConserves, ConservedKeeps
  <2>4. Held' \subseteq Sampled
    <3>1. CASE \E e \in exits : ServeExit(e)
      <4>1. PICK e \in exits : ServeExit(e)
        BY <3>1
      <4>2. positions' = [positions EXCEPT ![e.netuid] = NoPosition]
        BY <4>1 DEF ServeExit, Sell
      <4>3. Held' \subseteq Held
        BY <1>1, <4>2 DEF Held, Holdings, CycleTypes
      <4> QED
        BY <1>1, <4>3
    <3>2. CASE \E sig \in entries : ServeEntry(sig)
      <4>1. PICK sig \in entries : ServeEntry(sig)
        BY <3>2
      <4>2. sig.netuid \in Seen(snaps)
        BY <2>2, <4>1, <2>1, ServeEntryEffect DEF Control, Queues, Seen, ServeEntry
      <4>3. PICK p : positions' = [positions EXCEPT ![sig.netuid] = p]
        BY <4>1 DEF ServeEntry, Buy
      <4>4. Held' \subseteq Held \cup {sig.netuid}
        BY <1>1, <4>3 DEF Held, Holdings, CycleTypes
      <4> QED
        BY <1>1, <4>2, <4>4
    <3> QED
      BY <1>1, <1>3, <2>1, <3>1, <3>2, QuietStep
  <2>5. phase = "entries" /\ Held' = {} => state'.total = free'
    <3>1. ASSUME NEW sig \in entries, ServeEntry(sig) PROVE Held' # {}
      <4>1. PICK p : positions' = [positions EXCEPT ![sig.netuid] = p] /\ p # NoPosition
        <5>1. PICK amount \in Nat, alpha \in Nat, h \in Hotkeys :
                /\ Rested(h, snaps[sig.netuid].block)
                /\ positions' = [positions EXCEPT ![sig.netuid] =
                     [alpha |-> alpha, invested |-> amount,
                      hotkey |-> h, block |-> snaps[sig.netuid].block]]
                /\ cooldowns' = [cooldowns EXCEPT ![h] = snaps[sig.netuid].block]
          BY <2>2, <3>1, EntryUsesHotkey
        <5> DEFINE p == [alpha |-> alpha, invested |-> amount, hotkey |-> h,
                         block |-> snaps[sig.netuid].block]
        <5>2. snaps[sig.netuid].block \in Nat
          BY <2>2, <3>1, ServeEntryEffect
        <5>3. p \in Position
          BY <5>2 DEF Position
        <5>4. p # NoPosition
          BY <5>3, ConstantsAssumption DEF Position
        <5> QED
          BY <5>1, <5>4
      <4>2. sig.netuid \in Netuids
        BY <2>2, <3>1, ServeEntryEffect
      <4> QED
        BY <1>1, <4>1, <4>2 DEF Held, Holdings, CycleTypes
    <3>2. ASSUME NEW sig \in entries, SkipEntry(sig)
          PROVE  UNCHANGED <<state, free>> /\ Held' = Held
      BY <3>2 DEF SkipEntry, tracker, Held
    <3>3. phase = "entries" => \E sig \in entries : ServeEntry(sig) \/ SkipEntry(sig)
      BY <1>7 DEF ServeSignal, ServeExit, SkipExit
    <3> QED
      BY <3>1, <3>2, <3>3 DEF ClosingInv
  <2> QED
    BY <1>1, <1>2, <2>1, <2>3, <2>4, <2>5 DEF ClosingInv, Seen
<1>8. CASE BeginHolds
  <2>1. /\ phase' = "holds"
        /\ UNCHANGED <<tracker, snaps, exits, entries, mark, state>>
    BY <1>8 DEF BeginHolds
  <2>2. CycleTypes'
    BY <1>1, <2>1 DEF CycleTypes, tracker
  <2> QED
    BY <1>1, <1>2, <1>3, <2>1, <2>2 DEF ClosingInv, tracker, Seen
<1>9. CASE EndHolds
  <2>1. /\ phase = "holds" /\ phase' = "entries" /\ state' = StateOf(free, positions, snaps)
        /\ UNCHANGED <<free, positions, cooldowns, trades, snaps, exits, entries, mark>>
    BY <1>9 DEF EndHolds, TakeState
  <2>2. /\ state'.free = free /\ state'.held = Held
        /\ state'.total = TotalValue(free, positions, snaps)
    BY <2>1 DEF StateOf, Held
  <2>3. CycleTypes'
    <3>1. Held \subseteq Netuids
      BY DEF Held, Holdings
    <3> QED
      BY <1>1, <2>1, <2>2, <3>1 DEF CycleTypes
  <2>4. Held = {} => state'.total = free
    BY <1>1, <2>2, TotalOfNothing DEF Held
  <2> QED
    BY <1>1, <1>2, <1>3, <2>1, <2>3, <2>4 DEF ClosingInv, Seen
<1>10. CASE EndTick
  <2>1. /\ EndCycle /\ phase = "entries" /\ phase' = "idle" /\ snaps' = NoSnaps
        /\ final' = state.total /\ UNCHANGED <<free, positions, trades>>
    BY <1>10 DEF EndTick, EndCycle, tracker
  <2>2. CycleTypes'
    BY <2>1, NextTypes DEF ReplayInv, Next
  <2>3. Seen(snaps)' = {}
    BY <2>1 DEF Seen, NoSnaps
  <2> QED
    BY <1>1, <1>2, <1>3, <2>1, <2>2, <2>3 DEF ClosingInv
<1>11. CASE \E n \in holds : CloseOverdue(n)
  <2>1. PICK n \in holds : CloseOverdue(n)
    BY <1>11
  <2>2. /\ phase = "holds" /\ n \in Held /\ snaps[n] # NoSnapshot
        /\ Sell(n, snaps[n], FALSE) /\ UNCHANGED cycle
    BY <2>1, ForcedSale DEF CloseOverdue
  <2>3. CycleTypes' /\ EquityConserved' /\ Held' \subseteq Held
    BY <1>2, <2>2, ReplaySale
  <2> QED
    BY <1>1, <1>2, <2>2, <2>3 DEF ClosingInv, cycle, Seen
<1>12. CASE \E n \in holds : KeepHolding(n)
  <2>1. phase = "holds" /\ UNCHANGED vars
    BY <1>12 DEF KeepHolding
  <2>2. CycleTypes'
    BY <1>1, <2>1 DEF CycleTypes, vars, tracker, cycle
  <2> QED
    BY <1>1, <1>2, <1>3, <2>1, <2>2 DEF ClosingInv, vars, tracker, cycle, Seen
<1>13. CASE BeginClose
  <2>1. /\ phase = "idle" /\ phase' = "closing" /\ snaps' = Current(Ticks)
        /\ UNCHANGED <<tracker, exits, entries, mark, state>>
    BY <1>13 DEF BeginClose
  <2>2. CycleTypes' /\ Seen(snaps)' \subseteq Sampled
    BY <1>1, <2>1, CurrentSamples DEF CycleTypes, tracker, Seen
  <2>3. Current(Ticks)' = Current(Ticks)
    BY <1>2 DEF Current
  <2> QED
    BY <1>1, <1>2, <1>3, <2>1, <2>2, <2>3 DEF ClosingInv, tracker
<1>14. CASE \E n \in Held : ForceClose(n)
  <2>1. PICK n \in Held : ForceClose(n)
    BY <1>14
  <2>2. /\ phase = "closing" /\ Sell(n, snaps[n], FALSE) /\ UNCHANGED cycle
    BY <2>1 DEF ForceClose
  <2>3. snaps[n] # NoSnapshot
    BY <1>1, <2>2, CurrentSamples DEF ClosingInv, Seen
  <2>4. CycleTypes' /\ EquityConserved' /\ Held' \subseteq Held
    BY <1>2, <2>2, <2>3, ReplaySale
  <2>5. Current(Ticks)' = Current(Ticks)
    BY <1>2 DEF Current
  <2> QED
    BY <1>1, <1>2, <2>2, <2>4, <2>5 DEF ClosingInv, cycle, Seen
<1>15. CASE Finish
  <2>1. /\ Held = {} /\ phase' = "done" /\ snaps' = NoSnaps
        /\ UNCHANGED <<free, positions, cooldowns, trades, exits, entries, mark, state>>
    BY <1>15 DEF Finish
  <2>2. final' = free
    BY <1>1, <1>15, <2>1, TotalOfNothing DEF Finish, RecordValue, ClosingInv, Held
  <2>3. CycleTypes' /\ Seen(snaps)' = {}
    BY <1>1, <2>1 DEF CycleTypes, NoSnaps, Seen
  <2> QED
    BY <1>1, <1>2, <1>3, <2>1, <2>2, <2>3 DEF ClosingInv
<1> QED
  BY <1>4, <1>5, <1>6, <1>7, <1>8, <1>9, <1>10, <1>11, <1>12, <1>13, <1>14, <1>15
     DEF ReplayNext, ReplayStep

LEMMA ReplayCloses == ReplaySpec => []ClosingInv
<1>1. ReplayInit => ClosingInv
  <2> SUFFICES ASSUME ReplayInit PROVE ClosingInv
    OBVIOUS
  <2>1. Init /\ final = Initial /\ history \in [Netuids -> Histories \cup {NoHistory}]
    BY DEF ReplayInit
  <2>2. CycleTypes /\ EquityConserved
    BY <2>1, InitControl, InitConserves DEF Control
  <2>3. Held = {} /\ Seen(snaps) = {} /\ phase = "idle" /\ free = Initial
    BY <2>1 DEF Init, TrackerInit, NoCycle, NoSnaps, Held, Holdings, Seen
  <2> QED
    BY <2>1, <2>2, <2>3 DEF ClosingInv
<1> QED
  BY <1>1, ClosingStep, ReplayInvariant, PTL DEF ReplaySpec

\* ReplayEndsFlat: for every set of histories, every regime and every choice of
\* signals, a replay that comes to its end holds nothing, and the value it
\* reports is the cash, the initial capital and what its sales realised.
THEOREM ReplayReportsWhatItRealised == ReplaySpec => []ReplayEndsFlat
<1>1. ClosingInv => ReplayEndsFlat
  <2> SUFFICES ASSUME ClosingInv, phase = "done"
               PROVE  Held = {} /\ final = free /\ final = Initial + Realised(trades)
    BY DEF ReplayEndsFlat
  <2>1. Held = {} /\ final = free /\ EquityConserved /\ free \in Nat
    BY DEF ClosingInv, CycleTypes
  <2>2. Cost(positions) = 0
    BY <2>1, SumOfNone DEF Cost, SumFunction, Held
  <2> QED
    BY <2>1, <2>2 DEF EquityConserved
<1> QED
  BY <1>1, ReplayCloses, PTL

-------------------------------------------------------------------------------
(* The bars an episode walks.                                              *)

CourseBars == {BarOf(s) : s \in Snapshots}

Collects(f, h) ==
  f = [t \in 0 .. Ticks |->
         IF t = 0 THEN <<>>
         ELSE IF h[t] = NoSnapshot THEN f[t - 1] ELSE Append(f[t - 1], BarOf(h[t]))]

\* The collection is defined: one more sample extends a collection so far.
LEMMA CollectsDefined ==
  ASSUME NEW h
  PROVE  \E f : Collects(f, h)
<1> DEFINE Upto(f, n) ==
             f = [t \in 0 .. n |->
                    IF t = 0 THEN <<>>
                    ELSE IF h[t] = NoSnapshot THEN f[t - 1] ELSE Append(f[t - 1], BarOf(h[t]))]
           T == {n \in Nat : \E f : Upto(f, n)}
<1>1. 0 \in T
  <2>1. Upto([t \in 0 .. 0 |-> <<>>], 0)
    OBVIOUS
  <2> QED
    BY <2>1
<1>2. ASSUME NEW n \in Nat, n \in T PROVE n + 1 \in T
  <2>1. PICK f : Upto(f, n)
    BY <1>2
  <2> DEFINE last == IF h[n + 1] = NoSnapshot THEN f[n] ELSE Append(f[n], BarOf(h[n + 1]))
             g == [t \in 0 .. (n + 1) |-> IF t <= n THEN f[t] ELSE last]
  <2>2. \A t \in 0 .. n : t \in 0 .. (n + 1) /\ g[t] = f[t]
    BY <1>2
  <2>3. g[n + 1] = last /\ n + 1 # 0 /\ g[n] = f[n] /\ (n + 1) - 1 = n
    BY <1>2
  <2>4. ASSUME NEW t \in 0 .. (n + 1)
        PROVE  g[t] = IF t = 0 THEN <<>>
                      ELSE IF h[t] = NoSnapshot THEN g[t - 1]
                      ELSE Append(g[t - 1], BarOf(h[t]))
    <3>1. CASE t = n + 1
      <4> HIDE DEF g
      <4>1. g[t] = last /\ t # 0 /\ g[t - 1] = f[n]
        BY <2>3, <3>1
      <4> QED
        BY <3>1, <4>1
    <3>2. CASE t \in 0 .. n
      <4>1. f[t] = IF t = 0 THEN <<>>
                   ELSE IF h[t] = NoSnapshot THEN f[t - 1]
                   ELSE Append(f[t - 1], BarOf(h[t]))
        BY <2>1, <3>2
      <4>2. t # 0 => t - 1 \in 0 .. n
        BY <3>2
      <4> HIDE DEF g
      <4> QED
        BY <2>2, <3>2, <4>1, <4>2
    <3> QED
      BY <1>2, <3>1, <3>2
  <2>5. Upto(g, n + 1)
    BY <2>4
  <2> HIDE DEF g
  <2>6. \E k : Upto(k, n + 1)
    BY <2>5
  <2> HIDE DEF Upto
  <2> QED
    BY <1>2, <2>6
<1>3. Ticks \in T
  <2> HIDE DEF T
  <2> QED
    BY <1>1, <1>2, CountingUp, HistoriesAssumption
<1> QED
  BY <1>3 DEF Collects

\* What is collected of a history are bars of its samples, and there is one if
\* it has a sample at all.
LEMMA CourseOfHistory ==
  ASSUME NEW h \in [1 .. Ticks -> Snapshots \cup {NoSnapshot}], SampledAt(h) # {}
  PROVE  BarsOf(h) \in Seq(CourseBars) /\ BarsOf(h) # <<>>
<1> DEFINE f == CHOOSE g : Collects(g, h)
           T == {t \in Nat : t <= Ticks =>
                   /\ f[t] \in Seq(CourseBars)
                   /\ (\E u \in SampledAt(h) : u <= t) => f[t] # <<>>}
<1>1. BarsOf(h) = f[Ticks]
  BY DEF BarsOf, Collects
<1>2. Collects(f, h)
  BY CollectsDefined
<1> HIDE DEF f
<1>3. Ticks \in Nat
  BY HistoriesAssumption
<1>4. \A t \in 0 .. Ticks :
        f[t] = IF t = 0 THEN <<>>
               ELSE IF h[t] = NoSnapshot THEN f[t - 1] ELSE Append(f[t - 1], BarOf(h[t]))
  BY <1>2 DEF Collects
<1>5. 0 \in T
  <2>1. f[0] = <<>> /\ \A u \in SampledAt(h) : ~(u <= 0)
    BY <1>3, <1>4 DEF SampledAt
  <2>2. <<>> \in Seq(CourseBars)
    OBVIOUS
  <2> QED
    BY <2>1, <2>2
<1>6. ASSUME NEW t \in Nat, t \in T PROVE t + 1 \in T
  <2> SUFFICES ASSUME t + 1 <= Ticks
               PROVE  /\ f[t + 1] \in Seq(CourseBars)
                      /\ (\E u \in SampledAt(h) : u <= t + 1) => f[t + 1] # <<>>
    OBVIOUS
  <2>1. /\ f[t] \in Seq(CourseBars)
        /\ (\E u \in SampledAt(h) : u <= t) => f[t] # <<>>
    BY <1>3, <1>6
  <2>2. f[t + 1] = IF h[t + 1] = NoSnapshot THEN f[t] ELSE Append(f[t], BarOf(h[t + 1]))
    <3>1. t + 1 \in 0 .. Ticks /\ t + 1 # 0 /\ (t + 1) - 1 = t
      BY <1>3
    <3> QED
      BY <1>4, <3>1
  <2>3. CASE h[t + 1] = NoSnapshot
    <3>1. \A u \in SampledAt(h) : u <= t + 1 => u <= t
      BY <2>3 DEF SampledAt
    <3> QED
      BY <2>1, <2>2, <2>3, <3>1
  <2>4. CASE h[t + 1] # NoSnapshot
    <3>1. t + 1 \in 1 .. Ticks
      BY <1>3
    <3>2. BarOf(h[t + 1]) \in CourseBars
      BY <2>4, <3>1 DEF CourseBars
    <3> QED
      BY <2>1, <2>2, <2>4, <3>2
  <2> QED
    BY <2>3, <2>4
<1>7. Ticks \in T
  <2> HIDE DEF T
  <2> QED
    BY <1>3, <1>5, <1>6, CountingUp
<1>8. PICK u \in SampledAt(h) : u <= Ticks
  BY <1>3 DEF SampledAt
<1> QED
  BY <1>1, <1>3, <1>7, <1>8

\* A bar is that of a snapshot.
LEMMA BarOfSnapshot ==
  ASSUME NEW bar \in CourseBars
  PROVE  /\ bar.block \in Nat /\ bar.tao_in \in Nat /\ bar.alpha_in \in Nat
         /\ LivePool(bar.tao_in, bar.alpha_in)
              => BuyAlpha(EnvMinStake, bar.tao_in, bar.alpha_in) > 0
<1>1. PICK s \in Snapshots : bar = BarOf(s)
  BY DEF CourseBars
<1>2. bar.block = s.block /\ bar.tao_in = s.tao_in /\ bar.alpha_in = s.alpha_in
  BY <1>1 DEF BarOf
<1>3. s.block \in Nat /\ s.tao_in \in Nat /\ s.alpha_in \in Nat
  BY ConstantsAssumption
<1> QED
  BY <1>2, <1>3, UnitAssumption

-------------------------------------------------------------------------------
(* An episode.                                                             *)

Environment ==
  [limit : Nat, i : Nat, free : Nat, alpha : Nat, cost : Nat, entry : Nat,
   reward : Int, idle : Nat, over : BOOLEAN]

Actions == {Hold, Enter, Exit}

\* The books of an open position say when it was opened and what it cost, and
\* the entry of a closed one is forgotten.
Booked(env) ==
  IF env.alpha = 0 THEN env.entry = 0 ELSE env.entry \in 1 .. env.i /\ env.cost > 0

Earned(env) == env.reward + IdlePenalty * env.idle

LEMMA EnvValueNat ==
  ASSUME NEW env \in Environment, NEW bar \in CourseBars
  PROVE  EnvValue(env, bar) \in Nat /\ (env.alpha = 0 => EnvValue(env, bar) = env.free)
<1>1. env.free \in Nat /\ env.alpha \in Nat /\ bar.tao_in \in Nat /\ bar.alpha_in \in Nat
  BY BarOfSnapshot DEF Environment
<1>2. SellTao(env.alpha, bar.tao_in, bar.alpha_in) \in Nat
  BY <1>1, SellTaoNat
<1>3. env.alpha = 0 => SellTao(env.alpha, bar.tao_in, bar.alpha_in) = 0
  BY DEF SellTao
<1> QED
  BY <1>1, <1>2, <1>3 DEF EnvValue

\* A stake no entry may undercut buys at least a unit.
LEMMA StakeBuys ==
  ASSUME NEW bar \in CourseBars, LivePool(bar.tao_in, bar.alpha_in),
         NEW dx \in Nat, dx >= EnvMinStake
  PROVE  BuyAlpha(dx, bar.tao_in, bar.alpha_in) \in Nat \ {0}
<1> DEFINE x == bar.tao_in
           y == bar.alpha_in
           m == EnvMinStake
<1>1. x \in Nat /\ y \in Nat /\ x > 0 /\ y > 0 /\ m \in Nat \ {0} /\ dx > 0
  BY BarOfSnapshot, EnvAssumption DEF LivePool
<1>2. BuyAlpha(m, x, y) > 0
  BY BarOfSnapshot
<1>3. BuyAlpha(m, x, y) = (y * m) \div (x + m) /\ BuyAlpha(dx, x, y) = (y * dx) \div (x + dx)
  BY <1>1 DEF BuyAlpha
<1> HIDE DEF x, y, m
<1>4. y * m \in Nat /\ y * dx \in Nat /\ x + m \in Nat \ {0} /\ x + dx \in Nat \ {0}
  BY <1>1, ProductNat
<1>5. \A n \in Nat, d \in Nat \ {0} : n \div d > 0 <=> n >= d
  BY Z3
<1>6. y * m >= x + m
  BY <1>2, <1>3, <1>4, <1>5
<1>7. y * dx >= x + dx
  <2>1. dx - m \in Nat /\ dx = m + (dx - m)
    BY <1>1 DEF m
  <2>2. y * dx = y * m + y * (dx - m)
    BY <1>1, <2>1, Z3
  <2>3. y * (dx - m) >= dx - m
    <3>1. \A u \in Nat : y * u >= u
      BY <1>1, Z3
    <3> QED
      BY <2>1, <3>1
  <2>4. y * (dx - m) \in Nat
    BY <1>1, <2>1, ProductNat
  <2> QED
    BY <1>1, <1>4, <1>6, <2>1, <2>2, <2>3, <2>4
<1>8. (y * dx) \div (x + dx) > 0 /\ (y * dx) \div (x + dx) \in Nat
  BY <1>4, <1>5, <1>7, Quotient
<1> QED
  BY <1>3, <1>8 DEF x, y

\* The action changes the money and the books only, and keeps them together.
LEMMA ActedEffect ==
  ASSUME NEW env \in Environment, NEW bar \in CourseBars, NEW action \in Actions,
         Booked(env), env.i >= 1
  PROVE  LET acted == Acted(env, bar, action)
         IN  /\ acted \in Environment /\ Booked(acted)
             /\ acted.limit = env.limit /\ acted.i = env.i /\ acted.reward = env.reward
             /\ acted.idle = env.idle
<1> DEFINE dx == Percent(EntryPct, env.free)
           enters == /\ action = Enter /\ env.alpha = 0
                     /\ LivePool(bar.tao_in, bar.alpha_in)
                     /\ dx >= EnvMinStake /\ bar.tao_in >= EnvMinDepth
           exits_ == action = Exit /\ env.alpha > 0
<1>0. /\ env.limit \in Nat /\ env.i \in Nat /\ env.free \in Nat /\ env.alpha \in Nat
      /\ env.cost \in Nat /\ env.entry \in Nat /\ env.reward \in Int /\ env.idle \in Nat
      /\ env.over \in BOOLEAN
  BY DEF Environment
<1>1. CASE enters
  <2>1. Acted(env, bar, action)
          = [env EXCEPT !.free = @ - dx, !.cost = dx, !.entry = env.i,
                        !.alpha = BuyAlpha(dx, bar.tao_in, bar.alpha_in)]
    BY <1>1 DEF Acted, Exit, Enter
  <2>2. dx \in 0 .. env.free
    BY <1>0, EnvAssumption, PercentBound
  <2>3. BuyAlpha(dx, bar.tao_in, bar.alpha_in) \in Nat \ {0} /\ dx > 0
    BY <1>0, <1>1, <2>2, StakeBuys, EnvAssumption
  <2> HIDE DEF dx, enters
  <2> DEFINE bought == BuyAlpha(dx, bar.tao_in, bar.alpha_in)
  <2>4. bought \in Nat \ {0}
    BY <2>3
  <2>5. Acted(env, bar, action) = [env EXCEPT !.free = env.free - dx, !.cost = dx,
                                              !.entry = env.i, !.alpha = bought]
    BY <2>1
  <2> HIDE DEF bought
  <2>6. env.free - dx \in Nat /\ dx \in Nat
    BY <1>0, <2>2
  <2> DEFINE acted == Acted(env, bar, action)
  <2>7. /\ acted \in Environment /\ acted.alpha = bought /\ acted.cost = dx
        /\ acted.entry = env.i /\ acted.limit = env.limit /\ acted.i = env.i
        /\ acted.reward = env.reward /\ acted.idle = env.idle
    BY <2>4, <2>5, <2>6, <1>0 DEF Environment
  <2> HIDE DEF acted
  <2>8. Booked(acted)
    BY <1>0, <2>3, <2>4, <2>7 DEF Booked
  <2> QED
    BY <2>7, <2>8 DEF acted
<1>2. CASE ~enters /\ exits_
  <2>1. Acted(env, bar, action)
          = [env EXCEPT !.free = EnvValue(env, bar), !.cost = 0, !.entry = 0, !.alpha = 0]
    BY <1>0, <1>2 DEF Acted, Exit, Enter, Environment
  <2>2. EnvValue(env, bar) \in Nat
    BY EnvValueNat
  <2> HIDE DEF exits_, enters
  <2> DEFINE acted == Acted(env, bar, action)
  <2>3. /\ acted \in Environment /\ acted.alpha = 0 /\ acted.entry = 0
        /\ acted.limit = env.limit /\ acted.i = env.i
        /\ acted.reward = env.reward /\ acted.idle = env.idle
    <3> DEFINE value == EnvValue(env, bar)
    <3>1. acted = [env EXCEPT !.free = value, !.cost = 0, !.entry = 0, !.alpha = 0]
          /\ value \in Nat
      BY <2>1, <2>2
    <3> HIDE DEF value, acted
    <3> QED
      BY <3>1 DEF Environment
  <2> HIDE DEF acted
  <2>4. Booked(acted)
    BY <2>3 DEF Booked
  <2> QED
    BY <2>3, <2>4 DEF acted
<1>3. CASE ~enters /\ ~exits_
  <2>1. Acted(env, bar, action) = env
    BY <1>3 DEF Acted
  <2> QED
    BY <2>1
<1> QED
  BY <1>1, <1>2, <1>3

\* One step before the last bar: it advances, what it earns is the change of
\* value, and reaching the last bar ends the episode with nothing open.
LEMMA EnvStepEffect ==
  ASSUME NEW bars \in Seq(CourseBars), NEW env \in Environment, NEW action \in Actions,
         env.i \in 1 .. (Len(bars) - 1), Booked(env),
         Earned(env) = EnvValue(env, bars[env.i]) - EnvCapital
  PROVE  LET next == EnvStep(bars, env, action)
         IN  /\ next \in Environment
             /\ next.i = env.i + 1
             /\ Earned(next) = EnvValue(next, bars[next.i]) - EnvCapital
             /\ next.i = Len(bars) => next.over /\ next.alpha = 0
             /\ ~next.over => Booked(next)
<1> DEFINE last == Len(bars)
           acted == Acted(env, bars[env.i], action)
           further == [acted EXCEPT !.i = @ + 1]
           moved == ClosedAtEnd(further, bars)
           value == EnvValue(moved, IF moved.i > Len(bars) THEN Last(bars) ELSE bars[moved.i])
           idles == action = Hold /\ moved.alpha = 0
           ends == \/ moved.i >= Len(bars)
                   \/ moved.i - 1 >= env.limit
                   \/ (EnvCapital - value) * 100 >= StopLossPct * EnvCapital
           before == EnvValue(env, bars[env.i])
           penalty == IF idles THEN IdlePenalty ELSE 0
           next == EnvStep(bars, env, action)
<1>0. /\ last \in Nat /\ last > 0 /\ env.i \in 1 .. last /\ env.i + 1 \in 1 .. last
      /\ bars[env.i] \in CourseBars /\ bars[env.i + 1] \in CourseBars
      /\ bars[last] \in CourseBars /\ Last(bars) = bars[last]
  BY DEF Last
<1>1. /\ acted \in Environment /\ Booked(acted) /\ acted.i = env.i
      /\ acted.reward = env.reward /\ acted.idle = env.idle
  BY <1>0, ActedEffect
<1> HIDE DEF acted
<1>2. /\ further \in Environment /\ further.i = env.i + 1 /\ further.reward = env.reward
      /\ further.idle = env.idle /\ Booked(further)
  <2>1. further = [acted EXCEPT !.i = env.i + 1] /\ env.i + 1 \in Nat
    BY <1>0, <1>1
  <2> HIDE DEF further
  <2>2. /\ further \in Environment /\ further.i = env.i + 1 /\ further.reward = env.reward
        /\ further.idle = env.idle /\ further.alpha = acted.alpha
        /\ further.entry = acted.entry /\ further.cost = acted.cost
    BY <1>1, <2>1 DEF Environment
  <2>3. Booked(further)
    BY <1>0, <1>1, <2>2 DEF Booked
  <2> QED
    BY <2>2, <2>3
<1> HIDE DEF further
<1>3. /\ moved \in Environment /\ moved.i = env.i + 1 /\ moved.reward = env.reward
      /\ moved.idle = env.idle
      /\ moved.i = last => moved.alpha = 0
      /\ moved.i # last => Booked(moved)
  <2>1. CASE further.i >= last
    <3>1. moved = [further EXCEPT !.free = EnvValue(further, bars[last]), !.alpha = 0]
      BY <1>0, <2>1 DEF ClosedAtEnd
    <3>2. EnvValue(further, bars[last]) \in Nat
      BY <1>0, <1>2, EnvValueNat
    <3>3. further.i = last
      BY <1>0, <1>2, <2>1
    <3> HIDE DEF moved
    <3> QED
      BY <1>2, <3>1, <3>2, <3>3 DEF Environment
  <2>2. CASE ~(further.i >= last)
    <3>1. moved = further
      BY <2>2 DEF ClosedAtEnd
    <3> QED
      BY <1>0, <1>2, <2>2, <3>1
  <2> QED
    BY <2>1, <2>2
<1> HIDE DEF moved
<1>4. value = EnvValue(moved, bars[moved.i]) /\ value \in Nat
  <2>1. value = EnvValue(moved, bars[moved.i])
    BY <1>0, <1>3
  <2>2. bars[moved.i] \in CourseBars
    BY <1>0, <1>3
  <2> QED
    BY <1>3, <2>1, <2>2, EnvValueNat
<1>5. next = [moved EXCEPT !.reward = @ + value - before - penalty,
                           !.idle = @ + (IF idles THEN 1 ELSE 0),
                           !.over = ends]
  BY DEF EnvStep, ValueBefore, moved, further, acted
<1>6. before \in Nat
  BY <1>0, EnvValueNat
<1> HIDE DEF value, before
<1>7. /\ ends \in BOOLEAN /\ IdlePenalty \in Nat
      /\ moved.i = last => ends
  BY <1>0, <1>3, EnvAssumption
<1> HIDE DEF ends
<1>8. \/ penalty = IdlePenalty /\ (IF idles THEN 1 ELSE 0) = 1
      \/ penalty = 0 /\ (IF idles THEN 1 ELSE 0) = 0
  OBVIOUS
<1>9. PICK one \in {0, 1} :
        /\ penalty = IdlePenalty * one /\ penalty \in Nat
        /\ next = [moved EXCEPT !.reward = @ + value - before - penalty,
                                !.idle = @ + one, !.over = ends]
  <2>1. CASE penalty = IdlePenalty /\ (IF idles THEN 1 ELSE 0) = 1
    <3>1. IdlePenalty = IdlePenalty * 1
      BY <1>7
    <3> HIDE DEF penalty, next
    <3> QED
      BY <1>5, <1>7, <2>1, <3>1
  <2>2. CASE penalty = 0 /\ (IF idles THEN 1 ELSE 0) = 0
    <3>1. 0 = IdlePenalty * 0
      BY <1>7
    <3> HIDE DEF penalty, next
    <3> QED
      BY <1>5, <1>7, <2>2, <3>1
  <2> QED
    BY <1>8, <2>1, <2>2
<1> HIDE DEF penalty, next, idles
<1>10. /\ next \in Environment /\ next.i = moved.i /\ next.free = moved.free
       /\ next.alpha = moved.alpha /\ next.entry = moved.entry /\ next.cost = moved.cost
       /\ next.reward = moved.reward + value - before - penalty
       /\ next.idle = moved.idle + one /\ next.over = ends
  <2> DEFINE reward == moved.reward + value - before - penalty
             idle == moved.idle + one
  <2>1. moved.reward \in Int /\ moved.idle \in Nat
    BY <1>3 DEF Environment
  <2>2. reward \in Int /\ idle \in Nat
    BY <1>4, <1>6, <1>9, <2>1
  <2>3. next = [moved EXCEPT !.reward = reward, !.idle = idle, !.over = ends]
    BY <1>9
  <2> HIDE DEF reward, idle
  <2>4. /\ next \in Environment /\ next.i = moved.i /\ next.free = moved.free
        /\ next.alpha = moved.alpha /\ next.entry = moved.entry /\ next.cost = moved.cost
        /\ next.reward = reward /\ next.idle = idle /\ next.over = ends
    BY <1>3, <1>7, <2>2, <2>3 DEF Environment
  <2> QED
    BY <2>4 DEF reward, idle
<1>11. EnvValue(next, bars[next.i]) = value
  BY <1>4, <1>10 DEF EnvValue
<1>12. Earned(next) = value - EnvCapital
  <2>1. \A p, k \in Nat : p * (k + 1) = p * k + p * 1 /\ p * (k + 0) = p * k + p * 0
    BY Z3
  <2>2. env.idle \in Nat /\ env.reward \in Int /\ EnvCapital \in Nat
    BY EnvAssumption DEF Environment
  <2>3. IdlePenalty * (env.idle + one) = IdlePenalty * env.idle + penalty
    BY <1>7, <1>9, <2>1, <2>2
  <2>4. IdlePenalty * env.idle \in Nat
    BY <1>7, <2>2, ProductNat
  <2>5. env.reward + IdlePenalty * env.idle = before - EnvCapital
    BY DEF before, Earned
  <2>6. next.reward = env.reward + value - before - penalty /\ next.idle = env.idle + one
    BY <1>3, <1>10
  <2>7. Earned(next) = next.reward + (IdlePenalty * env.idle + penalty)
    BY <2>3, <2>6 DEF Earned
  <2> DEFINE charged == IdlePenalty * env.idle
  <2>8. charged \in Nat /\ env.reward + charged = before - EnvCapital
        /\ Earned(next) = next.reward + (charged + penalty)
    BY <2>4, <2>5, <2>7
  <2> HIDE DEF charged
  <2> QED
    BY <1>4, <1>6, <1>9, <2>2, <2>6, <2>8
<1>13. ~next.over => Booked(next)
  BY <1>3, <1>7, <1>10 DEF Booked
<1> QED
  BY <1>3, <1>7, <1>10, <1>11, <1>12, <1>13 DEF next

After(bars, env, action) == IF env.over THEN env ELSE EnvStep(bars, env, action)

Walks(run, bars, limit, actions) ==
  run = [k \in 0 .. Len(actions) |->
           IF k = 0 THEN EnvReset(limit) ELSE After(bars, run[k - 1], actions[k])]

\* An episode is defined: one more action extends a walk so far.
LEMMA WalkDefined ==
  ASSUME NEW bars, NEW limit, NEW actions, Len(actions) \in Nat
  PROVE  \E run : Walks(run, bars, limit, actions)
<1> DEFINE Upto(run, n) ==
             run = [k \in 0 .. n |->
                      IF k = 0 THEN EnvReset(limit) ELSE After(bars, run[k - 1], actions[k])]
           T == {n \in Nat : \E run : Upto(run, n)}
<1>1. 0 \in T
  <2>1. Upto([k \in 0 .. 0 |-> EnvReset(limit)], 0)
    OBVIOUS
  <2> QED
    BY <2>1
<1>2. ASSUME NEW n \in Nat, n \in T PROVE n + 1 \in T
  <2>1. PICK run : Upto(run, n)
    BY <1>2
  <2> DEFINE last == After(bars, run[n], actions[n + 1])
             longer == [k \in 0 .. (n + 1) |-> IF k <= n THEN run[k] ELSE last]
  <2>2. \A k \in 0 .. n : k \in 0 .. (n + 1) /\ longer[k] = run[k]
    BY <1>2
  <2>3. /\ longer[n + 1] = last /\ n + 1 # 0 /\ longer[n] = run[n] /\ (n + 1) - 1 = n
    BY <1>2
  <2>4. ASSUME NEW k \in 0 .. (n + 1)
        PROVE  longer[k] = IF k = 0 THEN EnvReset(limit)
                           ELSE After(bars, longer[k - 1], actions[k])
    <3>1. CASE k = n + 1
      <4> HIDE DEF longer
      <4>1. longer[k] = last /\ k # 0 /\ longer[k - 1] = run[n]
        BY <2>3, <3>1
      <4> QED
        BY <3>1, <4>1
    <3>2. CASE k \in 0 .. n
      <4>1. run[k] = IF k = 0 THEN EnvReset(limit) ELSE After(bars, run[k - 1], actions[k])
        BY <2>1, <3>2
      <4>2. k # 0 => k - 1 \in 0 .. n
        BY <3>2
      <4> HIDE DEF longer
      <4> QED
        BY <2>2, <3>2, <4>1, <4>2
    <3> QED
      BY <1>2, <3>1, <3>2
  <2>5. Upto(longer, n + 1)
    BY <2>4
  <2> HIDE DEF longer
  <2>6. \E r : Upto(r, n + 1)
    BY <2>5
  <2> HIDE DEF Upto
  <2> QED
    BY <1>2, <2>6
<1>3. Len(actions) \in T
  <2> HIDE DEF T
  <2> QED
    BY <1>1, <1>2, CountingUp
<1> QED
  BY <1>3 DEF Walks

\* Where an episode is after its actions: while it goes on each has taken it a
\* bar further, short of the last, and at any time what was earned is the change
\* of value so far.
OnCourse(env, bars, steps) ==
  /\ env \in Environment /\ env.i \in 1 .. Len(bars)
  /\ ~env.over => env.i = steps + 1 /\ Booked(env) /\ (steps >= 1 => env.i < Len(bars))
  /\ Earned(env) = EnvValue(env, bars[env.i]) - EnvCapital
  /\ env.over /\ env.i = Len(bars) => env.alpha = 0

LEMMA EpisodeOnCourse ==
  ASSUME NEW bars \in Seq(CourseBars), bars # <<>>, NEW limit \in StepLimits,
         NEW actions \in ActionsUpTo(Len(bars) - 1)
  PROVE  /\ Len(actions) \in 0 .. (Len(bars) - 1)
         /\ OnCourse(Episode(bars, limit, actions), bars, Len(actions))
<1> DEFINE run == CHOOSE r : Walks(r, bars, limit, actions)
           T == {k \in Nat : k <= Len(actions) => OnCourse(run[k], bars, k)}
<1>1. Len(bars) \in Nat \ {0}
  OBVIOUS
<1>2. PICK steps \in 0 .. (Len(bars) - 1) : actions \in [1 .. steps -> Actions]
  BY DEF ActionsUpTo, Actions
<1>3. steps \in Nat /\ Len(actions) = steps
  BY <1>1, <1>2
<1>4. Episode(bars, limit, actions) = run[Len(actions)]
  BY DEF Episode, Walks, After
<1>5. Walks(run, bars, limit, actions)
  BY <1>3, WalkDefined
<1> HIDE DEF run
<1>6. \A k \in 0 .. steps :
        run[k] = IF k = 0 THEN EnvReset(limit) ELSE After(bars, run[k - 1], actions[k])
  BY <1>3, <1>5 DEF Walks
<1>7. 0 \in T
  <2>1. run[0] = EnvReset(limit)
    BY <1>3, <1>6
  <2> DEFINE env == EnvReset(limit)
  <2>2. limit \in Nat /\ EnvCapital \in Nat /\ IdlePenalty \in Nat
    BY EnvAssumption
  <2>3. /\ env \in Environment /\ env.i = 1 /\ env.alpha = 0 /\ env.entry = 0
        /\ env.free = EnvCapital /\ env.reward = 0 /\ env.idle = 0 /\ env.over = FALSE
    BY <2>2 DEF EnvReset, Environment
  <2> HIDE DEF env
  <2>4. bars[1] \in CourseBars /\ EnvValue(env, bars[1]) = EnvCapital
    BY <1>1, <2>3, EnvValueNat
  <2>5. Earned(env) = 0
    BY <2>2, <2>3 DEF Earned
  <2>6. OnCourse(env, bars, 0)
    BY <1>1, <2>2, <2>3, <2>4, <2>5 DEF OnCourse, Booked
  <2> QED
    BY <2>1, <2>6 DEF env
<1>8. ASSUME NEW k \in Nat, k \in T PROVE k + 1 \in T
  <2> SUFFICES ASSUME k + 1 <= steps PROVE OnCourse(run[k + 1], bars, k + 1)
    BY <1>3
  <2> DEFINE env == run[k]
  <2>1. OnCourse(env, bars, k)
    BY <1>3, <1>8
  <2>2. run[k + 1] = After(bars, env, actions[k + 1])
    <3>1. k + 1 \in 0 .. steps /\ k + 1 # 0 /\ (k + 1) - 1 = k
      BY <1>3
    <3> QED
      BY <1>6, <3>1
  <2> HIDE DEF env
  <2>3. CASE env.over
    <3>1. run[k + 1] = env
      BY <2>2, <2>3 DEF After
    <3> QED
      BY <2>1, <2>3, <3>1 DEF OnCourse
  <2>4. CASE ~env.over
    <3> DEFINE next == EnvStep(bars, env, actions[k + 1])
    <3>1. run[k + 1] = next
      BY <2>2, <2>4 DEF After
    <3>2. env \in Environment /\ env.i = k + 1 /\ env.i \in 1 .. (Len(bars) - 1) /\ Booked(env)
          /\ Earned(env) = EnvValue(env, bars[env.i]) - EnvCapital
      BY <1>1, <1>3, <2>1, <2>4 DEF OnCourse
    <3>3. actions[k + 1] \in Actions
      BY <1>2, <1>3
    <3>4. /\ next \in Environment /\ next.i = env.i + 1
          /\ Earned(next) = EnvValue(next, bars[next.i]) - EnvCapital
          /\ next.i = Len(bars) => next.over /\ next.alpha = 0
          /\ ~next.over => Booked(next)
      BY <3>2, <3>3, EnvStepEffect
    <3> HIDE DEF next
    <3>5. next.i = k + 2 /\ next.i \in 1 .. Len(bars)
      BY <1>1, <3>2, <3>4
    <3>6. OnCourse(next, bars, k + 1)
      BY <1>1, <3>4, <3>5 DEF OnCourse
    <3> QED
      BY <3>1, <3>6
  <2> QED
    BY <2>3, <2>4
<1>9. steps \in T
  <2> HIDE DEF T
  <2> QED
    BY <1>3, <1>7, <1>8, CountingUp
<1> QED
  BY <1>1, <1>2, <1>3, <1>4, <1>9

\* The bars of every history of a replay.
LEMMA CoursesHaveBars ==
  ASSUME ClosingInv, NEW bars \in Courses
  PROVE  bars \in Seq(CourseBars) /\ bars # <<>>
<1>1. PICK n \in Netuids : SampledAt(history[n]) # {} /\ bars = BarsOf(history[n])
  BY DEF Courses
<1>2. history[n] \in Histories \cup {NoHistory}
  BY DEF ClosingInv
<1>3. history[n] \in [1 .. Ticks -> Snapshots \cup {NoSnapshot}]
  BY <1>2, HistoriesAssumption DEF NoHistory
<1> QED
  BY <1>1, <1>3, CourseOfHistory

\* RewardsAddUp: for every history, every step limit and every sequence of
\* actions, the rewards of an episode add up to the change of its value, every
\* episode ends, flat at the last bar, and the evaluation of a flat one reports
\* that sum.
THEOREM RewardsAreTheProfit == ReplaySpec => []RewardsAddUp
<1>1. ASSUME ClosingInv PROVE RewardsAddUp
  <2> SUFFICES ASSUME NEW bars \in Courses, NEW limit \in StepLimits,
                      NEW actions \in ActionsUpTo(Len(bars) - 1)
               PROVE  LET env == Episode(bars, limit, actions)
                          earned == env.reward + IdlePenalty * env.idle
                      IN  /\ Len(actions) = Len(bars) - 1 /\ actions # <<>> => env.over
                          /\ earned = EnvValue(env, bars[env.i]) - EnvCapital
                          /\ env.i = Len(bars) /\ env.over => env.alpha = 0
                          /\ env.alpha = 0 => earned = FinalValue(env, bars) - EnvCapital
    BY DEF RewardsAddUp
  <2> DEFINE env == Episode(bars, limit, actions)
             earned == env.reward + IdlePenalty * env.idle
  <2>1. bars \in Seq(CourseBars) /\ bars # <<>> /\ Len(bars) \in Nat \ {0}
    BY <1>1, CoursesHaveBars
  <2>2. Len(actions) \in 0 .. (Len(bars) - 1) /\ OnCourse(env, bars, Len(actions))
    BY <2>1, EpisodeOnCourse
  <2>3. earned = Earned(env)
    BY DEF Earned
  <2> HIDE DEF env, earned
  <2>4. Len(actions) = Len(bars) - 1 /\ actions # <<>> => env.over
    <3>1. actions # <<>> => Len(actions) # 0
      BY DEF ActionsUpTo
    <3> QED
      BY <2>1, <2>2, <3>1 DEF OnCourse
  <2>5. earned = EnvValue(env, bars[env.i]) - EnvCapital
    BY <2>2, <2>3 DEF OnCourse
  <2>6. env.i = Len(bars) /\ env.over => env.alpha = 0
    BY <2>2 DEF OnCourse
  <2>7. env.alpha = 0 => earned = FinalValue(env, bars) - EnvCapital
    <3>1. env \in Environment /\ bars[env.i] \in CourseBars /\ Last(bars) \in CourseBars
      BY <2>1, <2>2 DEF OnCourse, Last
    <3> QED
      BY <2>5, <3>1, EnvValueNat DEF FinalValue
  <2> QED
    BY <2>4, <2>5, <2>6, <2>7 DEF env, earned
<1> QED
  BY <1>1, ReplayCloses, PTL

-------------------------------------------------------------------------------
(* The two observations.                                                   *)

\* A buffer that begins at a bar of the list and ends at bar i.
LEMMA BufferedBars ==
  ASSUME NEW S, NEW bars \in Seq(S), NEW i \in 1 .. Len(bars), NEW first \in 1 .. i
  PROVE  LET buffer == SubSeq(bars, first, i)
             len == i - first + 1
         IN  /\ buffer \in Seq(S) /\ Len(buffer) = len /\ len \in 1 .. i
             /\ \A j \in 1 .. len : buffer[j] = bars[first - 1 + j]
             /\ buffer[len] = bars[i] /\ Last(buffer) = bars[i]
<1> DEFINE buffer == SubSeq(bars, first, i)
           len == i - first + 1
<1>1. /\ i \in Nat /\ first \in Nat /\ len \in 1 .. i /\ Len(bars) \in Nat /\ i <= Len(bars)
      /\ first - 1 + len = i
  OBVIOUS
<1>2. buffer \in Seq(S) /\ Len(buffer) = len
  BY <1>1
<1>3. ASSUME NEW j \in 1 .. len PROVE buffer[j] = bars[first - 1 + j]
  <2>1. buffer[j] = bars[first + j - 1] /\ first + j - 1 = first - 1 + j
    BY <1>1, <1>3
  <2> QED
    BY <2>1
<1> HIDE DEF buffer, len
<1>4. buffer[len] = bars[i]
  BY <1>1, <1>3
<1>5. Last(buffer) = bars[i]
  BY <1>2, <1>4 DEF Last
<1> QED
  BY <1>1, <1>2, <1>3, <1>4, <1>5 DEF buffer, len

\* The indicators of a bar read the last month at most, and a month or all there
\* is of the past is in the buffer.
LEMMA IndicatorsOfBuffer ==
  ASSUME NEW S, NEW bars \in Seq(S), NEW i \in 1 .. Len(bars), NEW first \in 1 .. i,
         first = 1 \/ i - first + 1 >= Month
  PROVE  Indicators(SubSeq(bars, first, i), i - first + 1) = Indicators(bars, i)
<1> DEFINE buffer == SubSeq(bars, first, i)
           len == i - first + 1
<1>1. /\ i \in Nat /\ first \in Nat /\ len \in 1 .. i /\ first - 1 + len = i
      /\ first = 1 => len = i
      /\ \A j \in 1 .. len : buffer[j] = bars[first - 1 + j]
  BY BufferedBars
<1>2. first = 1 \/ len >= Month
  OBVIOUS
<1> HIDE DEF buffer, len
<1>3. /\ Day \in Nat \ {0} /\ ThreeDays \in Nat \ {0} /\ Week \in Nat \ {0} /\ Month \in Nat \ {0}
      /\ Day < Month /\ ThreeDays < Month /\ Week < Month
      /\ \A w \in ShortWindows : w \in Nat \ {0} /\ w < Month
  <2>1. /\ ShortWindows \cup {Day, ThreeDays, Week, Month} \subseteq Nat \ {0}
        /\ \A w \in ShortWindows : w < Month
        /\ Day <= ThreeDays /\ ThreeDays <= Week /\ Week < Month
    BY WindowsAssumption, Zenon
  <2> QED
    BY <2>1
<1>4. ASSUME NEW w \in Nat \ {0}, w <= Month
      PROVE  /\ i >= w <=> len >= w
             /\ w < Month => (i <= w <=> len <= w)
             /\ i >= w => \A k \in 0 .. w :
                  i - w + k >= 1 /\ (w < Month \/ k >= 1) => buffer[len - w + k] = bars[i - w + k]
  <2>1. (i >= w <=> len >= w) /\ (w < Month => (i <= w <=> len <= w))
    BY <1>1, <1>2, <1>3, <1>4
  <2>2. ASSUME i >= w, NEW k \in 0 .. w, i - w + k >= 1, w < Month \/ k >= 1
        PROVE  buffer[len - w + k] = bars[i - w + k]
    <3>1. len - w + k \in 1 .. len
      BY <1>1, <1>2, <1>3, <1>4, <2>2
    <3>2. first - 1 + (len - w + k) = i - w + k
      BY <1>1
    <3> QED
      BY <1>1, <3>1, <3>2
  <2> QED
    BY <2>1, <2>2
<1>5. ASSUME NEW w \in Nat \ {0}, w < Month, NEW attr
      PROVE  Lookback(buffer, len, w, attr) = Lookback(bars, i, w, attr)
  <2>1. i <= w <=> len <= w
    BY <1>1, <1>3, <1>4, <1>5
  <2>2. ASSUME ~(i <= w) PROVE buffer[len - w] = bars[i - w] /\ buffer[len] = bars[i]
    <3>1. i >= w /\ i - w >= 1 /\ w <= Month /\ 0 \in 0 .. w /\ w \in 0 .. w
          /\ i - w + 0 = i - w /\ len - w + 0 = len - w /\ i - w + w = i /\ len - w + w = len
          /\ i >= 1
      BY <1>1, <1>3, <1>5, <2>2
    <3>2. \A k \in 0 .. w : i - w + k >= 1 => buffer[len - w + k] = bars[i - w + k]
      BY <1>4, <1>5, <3>1
    <3>3. buffer[len - w + 0] = bars[i - w + 0] /\ buffer[len - w + w] = bars[i - w + w]
      BY <3>1, <3>2
    <3> QED
      BY <3>1, <3>3
  <2> QED
    BY <2>1, <2>2 DEF Lookback
<1>6. ASSUME NEW w \in Nat \ {0}, w <= Month, i >= w
      PROVE  \A k \in 1 .. w : buffer[len - w + k].price = bars[i - w + k].price
  <2> SUFFICES ASSUME NEW k \in 1 .. w PROVE buffer[len - w + k] = bars[i - w + k]
    OBVIOUS
  <2>1. k \in 0 .. w /\ i - w + k >= 1 /\ k >= 1
    BY <1>1, <1>6
  <2> QED
    BY <1>4, <1>6, <2>1
<1>7. ASSUME NEW w \in Nat \ {0}, w <= Month, i >= w
      PROVE  PriceZScore(buffer, len, w) = PriceZScore(bars, i, w)
  <2> DEFINE here(k) == bars[i - w + k].price
             there(k) == buffer[len - w + k].price
  <2>1. \A k \in 1 .. w : there(k) = here(k)
    BY <1>6, <1>7
  <2>2. buffer[len].price = bars[i].price
    <3>1. w \in 1 .. w /\ len - w + w = len /\ i - w + w = i
      BY <1>1
    <3>2. there(w) = here(w)
      BY <2>1, <3>1
    <3> QED
      BY <3>1, <3>2
  <2>3. PriceZScore(bars, i, w)
          = IF {k \in 1 .. w : here(k) # 0} = {} THEN None
            ELSE ZScore([k \in {j \in 1 .. w : here(j) # 0} |-> here(k)], bars[i].price)
    BY DEF PriceZScore
  <2>4. PriceZScore(buffer, len, w)
          = IF {k \in 1 .. w : there(k) # 0} = {} THEN None
            ELSE ZScore([k \in {j \in 1 .. w : there(j) # 0} |-> there(k)], buffer[len].price)
    BY DEF PriceZScore
  <2> HIDE DEF here, there
  <2>5. {k \in 1 .. w : there(k) # 0} = {k \in 1 .. w : here(k) # 0}
    BY <2>1
  <2>6. [k \in {j \in 1 .. w : there(j) # 0} |-> there(k)]
          = [k \in {j \in 1 .. w : here(j) # 0} |-> here(k)]
    BY <2>1, <2>5
  <2> QED
    BY <2>2, <2>3, <2>4, <2>5, <2>6
<1>8. ASSUME NEW w \in Nat \ {0}, w <= Month, i >= w
      PROVE  Volatility(buffer, len, w) = Volatility(bars, i, w)
  <2> DEFINE here(k) == bars[i - w + k].price
             there(k) == buffer[len - w + k].price
             priced == {k \in 1 .. w - 1 : here(k) > 0}
             pricedToo == {k \in 1 .. w - 1 : there(k) > 0}
             returns == [k \in priced |-> (100 * here(k + 1)) \div here(k) - 100]
             returnsToo == [k \in pricedToo |-> (100 * there(k + 1)) \div there(k) - 100]
  <2>1. \A k \in 1 .. w : there(k) = here(k)
    BY <1>6, <1>8
  <2>2. Volatility(bars, i, w)
          = IF w < 3 \/ Cardinality(priced) < 2 THEN None
            ELSE <<Cardinality(priced), Spread(returns)>>
    BY DEF Volatility
  <2>3. Volatility(buffer, len, w)
          = IF w < 3 \/ Cardinality(pricedToo) < 2 THEN None
            ELSE <<Cardinality(pricedToo), Spread(returnsToo)>>
    BY DEF Volatility
  <2>4. \A k \in 1 .. w - 1 : k \in 1 .. w /\ k + 1 \in 1 .. w
    OBVIOUS
  <2> HIDE DEF here, there
  <2>5. pricedToo = priced
    BY <2>1, <2>4
  <2>6. returnsToo = returns
    <3>1. \A k \in priced : there(k + 1) = here(k + 1) /\ there(k) = here(k)
      BY <2>1, <2>4
    <3> QED
      BY <2>5, <3>1
  <2> HIDE DEF priced, pricedToo, returns, returnsToo
  <2> QED
    BY <2>2, <2>3, <2>5, <2>6
<1>9. \A w \in {Week, Month} :
        /\ (IF len >= w THEN PriceZScore(buffer, len, w) ELSE None)
             = (IF i >= w THEN PriceZScore(bars, i, w) ELSE None)
        /\ (IF len >= w THEN Volatility(buffer, len, w) ELSE None)
             = (IF i >= w THEN Volatility(bars, i, w) ELSE None)
  <2> SUFFICES ASSUME NEW w \in Nat \ {0}, w <= Month
               PROVE  /\ (IF len >= w THEN PriceZScore(buffer, len, w) ELSE None)
                           = (IF i >= w THEN PriceZScore(bars, i, w) ELSE None)
                      /\ (IF len >= w THEN Volatility(buffer, len, w) ELSE None)
                           = (IF i >= w THEN Volatility(bars, i, w) ELSE None)
    BY <1>3
  <2> QED
    BY <1>4, <1>7, <1>8
<1>10. \A w \in ShortWindows \cup {Day, ThreeDays, Week}, attr \in {"tao_in", "alpha_in", "price"} :
         Lookback(buffer, len, w, attr) = Lookback(bars, i, w, attr)
  BY <1>3, <1>5
<1>11. /\ Lookback(buffer, len, Day, "tao_in") = Lookback(bars, i, Day, "tao_in")
       /\ Lookback(buffer, len, ThreeDays, "tao_in") = Lookback(bars, i, ThreeDays, "tao_in")
       /\ Lookback(buffer, len, Week, "tao_in") = Lookback(bars, i, Week, "tao_in")
       /\ Lookback(buffer, len, Day, "alpha_in") = Lookback(bars, i, Day, "alpha_in")
  BY <1>10
<1>12. [w \in ShortWindows \cup {Day, ThreeDays, Week} |-> Lookback(buffer, len, w, "price")]
         = [w \in ShortWindows \cup {Day, ThreeDays, Week} |-> Lookback(bars, i, w, "price")]
  BY <1>10
<1>13. /\ [w \in {Week, Month} |-> IF len >= w THEN PriceZScore(buffer, len, w) ELSE None]
            = [w \in {Week, Month} |-> IF i >= w THEN PriceZScore(bars, i, w) ELSE None]
       /\ [w \in {Week, Month} |-> IF len >= w THEN Volatility(buffer, len, w) ELSE None]
            = [w \in {Week, Month} |-> IF i >= w THEN Volatility(bars, i, w) ELSE None]
  BY <1>9
<1>14. Indicators(buffer, len) = Indicators(bars, i)
  BY <1>11, <1>12, <1>13 DEF Indicators
<1> QED
  BY <1>14 DEF buffer, len

\* Bars without a hole are as many blocks apart as the bars between say.
LEMMA SteadyBlocks ==
  ASSUME NEW bars \in Seq(CourseBars), NEW from \in 1 .. Len(bars), NEW to \in from .. Len(bars),
         Steady(bars, from, to)
  PROVE  bars[to].block - bars[from].block = (to - from) * BarBlocks
<1> DEFINE T == {n \in Nat : from + n <= to =>
                               bars[from + n].block = bars[from].block + n * BarBlocks}
<1>1. /\ from \in Nat /\ to \in Nat /\ from <= to /\ BarBlocks \in Nat /\ to - from \in Nat
      /\ \A j \in from .. to : bars[j].block \in Nat
  BY BarOfSnapshot, EnvAssumption
<1>2. \A n \in Nat : (n + 1) * BarBlocks = n * BarBlocks + BarBlocks /\ n * BarBlocks \in Nat
                     /\ 0 * BarBlocks = 0
  <2>1. \A n, b \in Nat : (n + 1) * b = n * b + b /\ n * b \in Nat /\ 0 * b = 0
    BY Z3
  <2> QED
    BY <1>1, <2>1
<1>3. 0 \in T
  <2>1. bars[from].block \in Nat /\ from \in Nat
    BY <1>1
  <2>2. from + 0 = from /\ bars[from].block + 0 = bars[from].block
    BY <2>1
  <2>3. 0 \in Nat /\ 0 * BarBlocks = 0
    BY <1>2, Zenon
  <2>4. bars[from + 0].block = bars[from].block + 0 * BarBlocks
    BY <2>2, <2>3, Zenon
  <2> QED
    BY <2>3, <2>4, Zenon
<1>4. ASSUME NEW n \in Nat, n \in T PROVE n + 1 \in T
  <2> SUFFICES ASSUME from + (n + 1) <= to
               PROVE  bars[from + (n + 1)].block = bars[from].block + (n + 1) * BarBlocks
    OBVIOUS
  <2>1. from + n \in from .. (to - 1) /\ (from + n) + 1 = from + (n + 1)
    BY <1>1
  <2>2. bars[from + (n + 1)].block = bars[from + n].block + BarBlocks
    BY <2>1 DEF Steady
  <2>3. bars[from + n].block = bars[from].block + n * BarBlocks
    BY <1>1, <1>4
  <2>4. bars[from].block \in Nat
    BY <1>1
  <2>5. n * BarBlocks \in Nat /\ BarBlocks \in Nat
    BY <1>1, <1>2, Zenon
  <2>6. \A a, b, c \in Nat : (a + b) + c = a + (b + c)
    OBVIOUS
  <2>7. bars[from + (n + 1)].block = bars[from].block + (n * BarBlocks + BarBlocks)
    BY <2>2, <2>3, <2>4, <2>5, <2>6
  <2>8. (n + 1) * BarBlocks = n * BarBlocks + BarBlocks
    BY <1>2, Zenon
  <2> QED
    BY <2>7, <2>8, Zenon
<1>5. to - from \in T
  <2> HIDE DEF T
  <2> QED
    BY <1>1, <1>3, <1>4, CountingUp
<1>6. bars[to].block = bars[from].block + (to - from) * BarBlocks
  <2>1. from + (to - from) = to
    BY <1>1
  <2> QED
    BY <1>1, <1>5, <2>1
<1>7. (to - from) * BarBlocks \in Nat /\ bars[from].block \in Nat
  BY <1>1, <1>2
<1> QED
  BY <1>6, <1>7

\* Without a view of other subnets there is no rank.
LEMMA NoRankInTraining ==
  ASSUME NEW depth
  PROVE  Share(PoolRank(NoSight, depth)) = Zero
<1>1. {n \in DOMAIN NoSight : NoSight[n].tao_in > 0} = {}
  BY DEF NoSight
<1>2. PoolRank(NoSight, depth) = None
  BY <1>1 DEF PoolRank
<1> QED
  BY <1>2 DEF Share

\* With one, the rank counts as zero for the shallowest pool only.
LEMMA RankIsZeroOfShallowest ==
  ASSUME NEW sight, IsFiniteSet(DOMAIN sight), \A n \in DOMAIN sight : sight[n].tao_in \in Nat,
         NEW depth \in Nat
  PROVE  Share(PoolRank(sight, depth)) = Zero <=> Shallowest(sight, depth)
<1> DEFINE pools == {n \in DOMAIN sight : sight[n].tao_in > 0}
           shallower == {n \in pools : sight[n].tao_in < depth}
<1>1. shallower = {} <=> Shallowest(sight, depth)
  BY DEF Shallowest
<1>2. pools = {} => shallower = {}
  OBVIOUS
<1>3. /\ IsFiniteSet(pools) /\ IsFiniteSet(shallower)
      /\ Cardinality(pools) \in Nat /\ Cardinality(shallower) \in Nat
  <2>1. pools \subseteq DOMAIN sight /\ shallower \subseteq pools
    OBVIOUS
  <2> HIDE DEF pools, shallower
  <2>2. IsFiniteSet(pools)
    BY <2>1, FS_Subset
  <2>3. IsFiniteSet(shallower)
    BY <2>1, <2>2, FS_Subset
  <2> QED
    BY <2>2, <2>3, FS_CardinalityType
<1>4. PoolRank(sight, depth)
        = IF pools = {} THEN None ELSE <<Cardinality(shallower), Cardinality(pools)>>
  BY DEF PoolRank
<1> HIDE DEF pools, shallower
<1>5. Cardinality(shallower) = 0 <=> shallower = {}
  BY <1>3, FS_EmptySet
<1> DEFINE of == Cardinality(pools)
           below == Cardinality(shallower)
<1>6. below \in Nat /\ of \in Nat /\ (below = 0 <=> shallower = {})
  BY <1>3, <1>5
<1> HIDE DEF of, below
<1>7. CASE pools = {}
  BY <1>1, <1>2, <1>4, <1>7 DEF Share
<1>8. CASE pools # {}
  <2>1. PoolRank(sight, depth) = <<below, of>> /\ <<below, of>> # None
    BY <1>4, <1>6, <1>8, WindowsAssumption DEF of, below
  <2>2. Share(PoolRank(sight, depth)) = IF below = 0 THEN Zero ELSE <<below, of>>
    BY <2>1 DEF Share
  <2>3. below # 0 => <<below, of>> # Zero
    BY DEF Zero
  <2> QED
    BY <1>1, <1>6, <2>2, <2>3
<1> QED
  BY <1>7, <1>8

\* Two observations that agree on everything but the rank.
LEMMA ApartByRank ==
  ASSUME NEW indicators, NEW rank, NEW flag, NEW unrealized, NEW held, NEW trained, NEW shown,
         trained = [indicators |-> indicators, rank |-> Zero, flag |-> flag,
                    unrealized |-> unrealized, held |-> held],
         shown = [indicators |-> indicators, rank |-> rank, flag |-> flag,
                  unrealized |-> unrealized, held |-> held]
  PROVE  /\ trained = [shown EXCEPT !.rank = Zero]
         /\ trained = shown <=> rank = Zero
<1> HIDE DEF Zero
<1> QED
  OBVIOUS

\* What a cycle sees of the pools.
LEMMA SightOfCycle ==
  ASSUME ClosingInv, NEW t
  PROVE  /\ IsFiniteSet(DOMAIN Sight(t))
         /\ \A n \in DOMAIN Sight(t) : Sight(t)[n].tao_in \in Nat
<1>1. Current(t) \in [Netuids -> Snapshots \cup {NoSnapshot}]
  BY CurrentSamples DEF ClosingInv
<1> HIDE DEF Current
<1>2. DOMAIN Sight(t) = Seen(Current(t)) /\ Seen(Current(t)) \subseteq Netuids
  BY DEF Sight, Seen
<1>3. \A n \in Seen(Current(t)) : Current(t)[n] \in Snapshots
  BY <1>1 DEF Seen
<1>4. \A n \in DOMAIN Sight(t) : Sight(t)[n].tao_in \in Nat
  BY <1>2, <1>3, ConstantsAssumption DEF Sight
<1> QED
  BY <1>2, <1>4, FS_Subset, ConstantsAssumption

\* OnlyRankDiffers: for every history, every step limit, every sequence of
\* actions and every view of the other subnets, a policy of the trading process
\* sees of a running episode, its past cut off a month or more ago, what it saw
\* in training but for the rank of the pool, which training shows as zero and
\* the trading process so only for the shallowest pool in sight.
THEOREM OnlyTheRankDiffers == ReplaySpec => []OnlyRankDiffers
<1>1. ASSUME ClosingInv PROVE OnlyRankDiffers
  <2> SUFFICES ASSUME NEW bars \in Courses, NEW limit \in StepLimits,
                      NEW t \in Timeline, NEW actions \in ActionsUpTo(Len(bars) - 1)
               PROVE  LET env == Episode(bars, limit, actions)
                          position == IF env.alpha = 0 THEN None
                                      ELSE [alpha |-> env.alpha, invested |-> env.cost,
                                            block |-> bars[env.entry].block]
                          trained == EnvObservation(bars, env)
                      IN  /\ ~env.over
                          /\ LivePool(bars[env.i].tao_in, bars[env.i].alpha_in)
                          /\ position # None => Steady(bars, env.entry, env.i)
                          => \A first \in 1 .. env.i :
                               first = 1 \/ env.i - first + 1 >= Month
                                 => LET shown == PolicyObservation(SubSeq(bars, first, env.i),
                                                                   position, Sight(t))
                                    IN  /\ trained = [shown EXCEPT !.rank = Zero]
                                        /\ trained = shown
                                             <=> Shallowest(Sight(t), bars[env.i].tao_in)
    BY DEF OnlyRankDiffers
  <2> DEFINE env == Episode(bars, limit, actions)
             position == IF env.alpha = 0 THEN None
                         ELSE [alpha |-> env.alpha, invested |-> env.cost,
                               block |-> bars[env.entry].block]
             i == env.i
             bar == bars[i]
  <2>1. bars \in Seq(CourseBars) /\ bars # <<>> /\ Len(bars) \in Nat \ {0}
    BY <1>1, CoursesHaveBars
  <2>2. OnCourse(env, bars, Len(actions))
    BY <2>1, EpisodeOnCourse
  <2> HIDE DEF env
  <2> SUFFICES ASSUME ~env.over, LivePool(bar.tao_in, bar.alpha_in),
                      position # None => Steady(bars, env.entry, i),
                      NEW first \in 1 .. i, first = 1 \/ i - first + 1 >= Month
               PROVE  LET shown == PolicyObservation(SubSeq(bars, first, i), position, Sight(t))
                      IN  /\ EnvObservation(bars, env) = [shown EXCEPT !.rank = Zero]
                          /\ EnvObservation(bars, env) = shown
                               <=> Shallowest(Sight(t), bar.tao_in)
    BY DEF env
  <2> DEFINE buffer == SubSeq(bars, first, i)
             len == i - first + 1
  <2>3. /\ env \in Environment /\ i \in 1 .. Len(bars) /\ Booked(env)
    BY <2>2 DEF OnCourse
  <2>4. env.alpha \in Nat /\ env.cost \in Nat /\ env.entry \in Nat
    BY <2>3 DEF Environment
  <2> HIDE DEF i
  <2>5. Len(buffer) = len /\ Last(buffer) = bar
    BY <2>1, <2>3, BufferedBars
  <2>6. Indicators(buffer, Len(buffer)) = Indicators(bars, i)
    BY <2>1, <2>3, <2>5, IndicatorsOfBuffer
  <2>11. buffer[Len(buffer)] = bar
    BY <2>1, <2>3, <2>5, BufferedBars
  <2>12. bar.tao_in \in Nat
    BY <2>1, <2>3, BarOfSnapshot DEF bar
  <2> HIDE DEF buffer, len, bar
  <2>9. EnvObservation(bars, env)
          = [indicators |-> Indicators(bars, i),
             rank |-> Zero,
             flag |-> env.alpha > 0,
             unrealized |-> IF env.alpha > 0 /\ LivePool(bar.tao_in, bar.alpha_in) /\ env.cost > 0
                            THEN Gain(env.alpha, env.cost, bar) ELSE Zero,
             held |-> IF env.entry > 0 THEN (i - env.entry) * BarBlocks ELSE 0]
    BY NoRankInTraining DEF EnvObservation, FeaturesAt, i, bar
  <2> DEFINE rank == Share(PoolRank(Sight(t), bar.tao_in))
  <2>13. rank = Zero <=> Shallowest(Sight(t), bar.tao_in)
    BY <1>1, <2>12, SightOfCycle, RankIsZeroOfShallowest
  <2> HIDE DEF rank
  <2>10. PolicyObservation(buffer, position, Sight(t))
          = [indicators |-> Indicators(bars, i),
             rank |-> rank,
             flag |-> position # None,
             unrealized |-> IF position # None /\ LivePool(bar.tao_in, bar.alpha_in)
                            THEN Gain(position.alpha, position.invested, bar) ELSE Zero,
             held |-> IF position # None /\ LivePool(bar.tao_in, bar.alpha_in)
                      THEN bar.block - position.block ELSE 0]
    BY <2>5, <2>6, <2>11 DEF PolicyObservation, FeaturesAt, rank
  <2>7. CASE env.alpha = 0
    <3>1. position = None /\ env.entry = 0 /\ ~(env.alpha > 0) /\ ~(env.entry > 0)
      BY <2>3, <2>7 DEF Booked
    <3>2. (env.alpha > 0) = FALSE /\ (position # None) = FALSE
      BY <3>1
    <3> HIDE DEF position
    <3> QED
      BY <2>9, <2>10, <2>13, <3>1, <3>2 DEF buffer
  <2>8. CASE env.alpha # 0
    <3>1. env.alpha > 0 /\ env.cost > 0 /\ env.entry \in 1 .. i
      BY <2>3, <2>4, <2>8 DEF Booked, i
    <3>2. bars[env.entry].block \in Nat
      BY <2>1, <2>3, <3>1, BarOfSnapshot
    <3>3. /\ position = [alpha |-> env.alpha, invested |-> env.cost,
                         block |-> bars[env.entry].block]
          /\ position \in [alpha : Nat, invested : Nat, block : Nat]
      BY <2>4, <2>8, <3>2
    <3>4. position # None
      BY <3>3, EnvAssumption
    <3>5. /\ position.alpha = env.alpha /\ position.invested = env.cost
          /\ position.block = bars[env.entry].block
      BY <3>3
    <3> HIDE DEF position
    <3>6. bar.block - position.block = (i - env.entry) * BarBlocks
      <4>1. Steady(bars, env.entry, i) /\ env.entry \in 1 .. Len(bars)
            /\ i \in env.entry .. Len(bars)
        BY <2>1, <2>3, <3>1, <3>4
      <4> QED
        BY <2>1, <3>5, <4>1, SteadyBlocks DEF bar
    <3>7. EnvObservation(bars, env)
            = [indicators |-> Indicators(bars, i), rank |-> Zero, flag |-> TRUE,
               unrealized |-> Gain(env.alpha, env.cost, bar),
               held |-> (i - env.entry) * BarBlocks]
      <4>1. (env.alpha > 0) = TRUE /\ env.entry > 0
        BY <3>1
      <4> QED
        BY <2>9, <3>1, <4>1
    <3>8. PolicyObservation(buffer, position, Sight(t))
            = [indicators |-> Indicators(bars, i), rank |-> rank, flag |-> TRUE,
               unrealized |-> Gain(env.alpha, env.cost, bar),
               held |-> (i - env.entry) * BarBlocks]
      <4>1. (position # None) = TRUE
        BY <3>4
      <4> QED
        BY <2>10, <3>5, <3>6, <4>1
    <3>9. /\ EnvObservation(bars, env)
               = [PolicyObservation(buffer, position, Sight(t)) EXCEPT !.rank = Zero]
          /\ EnvObservation(bars, env) = PolicyObservation(buffer, position, Sight(t))
               <=> rank = Zero
      <4> DEFINE indicators == Indicators(bars, i)
                 unrealized == Gain(env.alpha, env.cost, bar)
                 held == (i - env.entry) * BarBlocks
                 flag == TRUE
                 trained == EnvObservation(bars, env)
                 shown == PolicyObservation(buffer, position, Sight(t))
      <4>1. trained = [indicators |-> indicators, rank |-> Zero, flag |-> flag,
                       unrealized |-> unrealized, held |-> held]
        BY <3>7
      <4>2. shown = [indicators |-> indicators, rank |-> rank, flag |-> flag,
                     unrealized |-> unrealized, held |-> held]
        BY <3>8
      <4> HIDE DEF indicators, unrealized, held, flag, trained, shown
      <4>3. trained = [shown EXCEPT !.rank = Zero] /\ (trained = shown <=> rank = Zero)
        BY <4>1, <4>2, ApartByRank
      <4> QED
        BY <4>3, Zenon DEF trained, shown
    <3> QED
      BY <2>13, <3>9, Zenon DEF buffer
  <2> QED
    BY <2>7, <2>8
<1> QED
  BY <1>1, ReplayCloses, PTL
===============================================================================
