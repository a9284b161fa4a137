-------------------------- MODULE TradingCycleProofs --------------------------
(***************************************************************************)
(* Proofs about TradingCycle for every value of its constants.             *)
(***************************************************************************)
EXTENDS TradingCycle, ArithmeticProofs

(* What the cycle's control state says of its data.                        *)
Queues ==
  /\ phase # "exits" => exits = {}
  /\ phase = "idle" => entries = {}
  /\ \A e \in exits : snaps[e.netuid] # NoSnapshot
  /\ \A e \in entries : snaps[e.netuid] # NoSnapshot
  /\ phase = "exits" => \A e \in entries : e.netuid \notin Held

\* While entries are served, the state they are sized against is current.
Fresh == phase = "entries" => state.free = free /\ state.held = Held

\* A hotkey's cooldown counts from the last trade that used it.
CooldownsCurrent ==
  \A i \in DOMAIN trades : trades[i].block <= cooldowns[trades[i].hotkey]

\* What this cycle sold is gone and not signalled again; what it bought is
\* held, and was bought after the exits.
ThisCycle ==
  \A i \in (mark + 1) .. Len(trades) :
    IF trades[i].dir = "sell"
    THEN /\ trades[i].netuid \notin Held
         /\ \A e \in entries : e.netuid # trades[i].netuid
    ELSE /\ trades[i].netuid \in Held
         /\ phase # "exits"

Control == CycleTypes /\ Queues /\ Fresh

-------------------------------------------------------------------------------
(* Arithmetic.                                                             *)

\* A percentage of at most 100 of an amount is at most the amount.
LEMMA PercentBound ==
  ASSUME NEW s \in 1 .. 100, NEW b \in Nat
  PROVE  Percent(s, b) \in 0 .. b
<1>1. s * b <= 100 * b
  OBVIOUS
<1>2. s * b \in Nat
  OBVIOUS
<1>. QED
  BY <1>1, <1>2 DEF Percent

\* A sale never yields a negative amount.
LEMMA SellTaoNat ==
  ASSUME NEW da \in Nat, NEW x \in Nat, NEW y \in Nat
  PROVE  SellTao(da, x, y) \in Nat
<1>1. x * da \in Nat
  OBVIOUS
<1>2. CASE da > 0 /\ LivePool(x, y)
  <2>1. y + da \in Nat \ {0}
    BY <1>2
  <2>. QED
    BY <1>1, <1>2, <2>1 DEF SellTao
<1>3. CASE ~(da > 0 /\ LivePool(x, y))
  BY <1>3 DEF SellTao
<1>. QED
  BY <1>2, <1>3

\* Neither does a purchase.
LEMMA BuyAlphaNat ==
  ASSUME NEW dx \in Nat, NEW x \in Nat, NEW y \in Nat
  PROVE  BuyAlpha(dx, x, y) \in Nat
<1>1. y * dx \in Nat
  OBVIOUS
<1>2. CASE dx > 0 /\ LivePool(x, y)
  <2>1. x + dx \in Nat \ {0}
    BY <1>2
  <2>. QED
    BY <1>1, <1>2, <2>1 DEF BuyAlpha
<1>3. CASE ~(dx > 0 /\ LivePool(x, y))
  BY <1>3 DEF BuyAlpha
<1>. QED
  BY <1>2, <1>3

\* What check_entry accepts, with the state it sizes against current, leaves
\* the reserve and the free TAO intact and respects the position limit.
LEMMA AcceptedAmount ==
  ASSUME state.free \in Nat,
         NEW sig \in EntrySignal, NEW snap, NEW amount,
         Accepts(sig, snap, amount)
  PROVE  /\ amount \in Nat
         /\ amount >= MinTrade
         /\ amount + ReserveTao <= state.free
         /\ sig.netuid \notin state.held
         /\ Cardinality(state.held) < MaxPositions
<1>1. PICK base \in 0 .. FreeAfterReserve : amount = Percent(sig.strength, base)
  BY DEF Accepts
<1>2. FreeAfterReserve \in Nat /\ (FreeAfterReserve > 0 => FreeAfterReserve + ReserveTao = state.free)
  BY ConstantsAssumption DEF FreeAfterReserve
<1>3. amount \in 0 .. base
  <2>1. sig.strength \in 1 .. 100
    BY ConstantsAssumption DEF EntrySignal
  <2>2. base \in Nat
    BY <1>2
  <2>3. Percent(sig.strength, base) \in 0 .. base
    BY <2>1, <2>2, PercentBound
  <2>. QED
    BY <1>1, <2>3
<1>4. amount >= MinTrade
  BY DEF Accepts
<1>5. MinTrade \in Nat \ {0} /\ ReserveTao \in Nat
  BY ConstantsAssumption
<1>6. amount + ReserveTao <= state.free
  BY <1>1, <1>2, <1>3, <1>4, <1>5
<1>. QED
  BY <1>3, <1>4, <1>6, <1>2 DEF Accepts, MayEnter

-------------------------------------------------------------------------------
(* Effects of the two actions that trade.                                  *)

\* What the sale of a held, priced position reads.
LEMMA SoldPosition ==
  ASSUME CycleTypes, NEW n \in Held, snaps[n] # NoSnapshot
  PROVE  /\ n \in Netuids
         /\ positions[n] \in Position
         /\ positions[n].alpha \in Nat
         /\ positions[n].invested \in Nat
         /\ positions[n].hotkey \in Hotkeys
         /\ snaps[n] \in Snapshots
         /\ snaps[n].block \in Nat
         /\ SellTao(positions[n].alpha, snaps[n].tao_in, snaps[n].alpha_in) \in Nat
<1>1. n \in Netuids /\ positions[n] \in Position /\ snaps[n] \in Snapshots
  BY DEF CycleTypes, Held, Holdings
<1>2. /\ snaps[n].block \in Nat
      /\ snaps[n].tao_in \in Nat
      /\ snaps[n].alpha_in \in Nat
  BY <1>1, ConstantsAssumption
<1>3. /\ positions[n].alpha \in Nat
      /\ positions[n].invested \in Nat
      /\ positions[n].hotkey \in Hotkeys
  BY <1>1 DEF Position
<1>. QED
  BY <1>1, <1>2, <1>3, SellTaoNat

\* The trade a sale appends and the position it removes.
LEMMA SellEffect ==
  ASSUME CycleTypes, NEW n \in Held, snaps[n] # NoSnapshot,
         NEW drain \in BOOLEAN, Sell(n, snaps[n], drain)
  PROVE  \E tao \in Nat, pnl \in Int :
           LET p == positions[n]
               b == snaps[n].block
           IN  /\ free' = free + tao
               /\ positions' = [positions EXCEPT ![n] = NoPosition]
               /\ cooldowns' = [cooldowns EXCEPT ![p.hotkey] = b]
               /\ trades' = Append(trades,
                    [dir |-> "sell", netuid |-> n, tao |-> tao,
                     alpha |-> p.alpha, hotkey |-> p.hotkey, block |-> b,
                     pnl |-> pnl, drain |-> drain])
<1>. DEFINE p == positions[n]
            t == SellTao(p.alpha, snaps[n].tao_in, snaps[n].alpha_in)
<1>1. t \in Nat /\ t - p.invested \in Int
  BY SoldPosition
<1>2. /\ free' = free + t
      /\ positions' = [positions EXCEPT ![n] = NoPosition]
      /\ cooldowns' = [cooldowns EXCEPT ![p.hotkey] = snaps[n].block]
      /\ trades' = Append(trades,
           [dir |-> "sell", netuid |-> n, tao |-> t,
            alpha |-> p.alpha, hotkey |-> p.hotkey,
            block |-> snaps[n].block,
            pnl |-> t - p.invested, drain |-> drain])
  BY DEF Sell
<1>. HIDE DEF t
<1>. QED
  BY <1>1, <1>2

\* A sale keeps the tracker's types and only adds to the log.
LEMMA SellTypes ==
  ASSUME CycleTypes, NEW n \in Held, snaps[n] # NoSnapshot,
         NEW drain \in BOOLEAN, Sell(n, snaps[n], drain)
  PROVE  /\ free' \in Nat /\ free' >= free
         /\ positions' \in [Netuids -> Position \cup {NoPosition}]
         /\ Held' = Held \ {n}
         /\ cooldowns' \in [Hotkeys -> Nat]
         /\ trades' \in Seq(Trade)
         /\ Len(trades') = Len(trades) + 1
<1>1. PICK tao \in Nat, pnl \in Int :
        LET p == positions[n]
            b == snaps[n].block
        IN  /\ free' = free + tao
            /\ positions' = [positions EXCEPT ![n] = NoPosition]
            /\ cooldowns' = [cooldowns EXCEPT ![p.hotkey] = b]
            /\ trades' = Append(trades,
                 [dir |-> "sell", netuid |-> n, tao |-> tao,
                  alpha |-> p.alpha, hotkey |-> p.hotkey, block |-> b,
                  pnl |-> pnl, drain |-> drain])
  BY SellEffect
<1>2. /\ n \in Netuids
      /\ positions[n].alpha \in Nat
      /\ positions[n].hotkey \in Hotkeys
      /\ snaps[n].block \in Nat
  BY SoldPosition
<1>3. free' \in Nat /\ free' >= free
  BY <1>1 DEF CycleTypes
<1>4. /\ positions' \in [Netuids -> Position \cup {NoPosition}]
      /\ Held' = Held \ {n}
  BY <1>1, <1>2 DEF CycleTypes, Held, Holdings
<1>5. cooldowns' \in [Hotkeys -> Nat]
  BY <1>1, <1>2 DEF CycleTypes
<1>6. trades' \in Seq(Trade) /\ Len(trades') = Len(trades) + 1
  <2>. DEFINE t == [dir |-> "sell", netuid |-> n, tao |-> tao,
                    alpha |-> positions[n].alpha,
                    hotkey |-> positions[n].hotkey,
                    block |-> snaps[n].block,
                    pnl |-> pnl, drain |-> drain]
  <2>1. t \in Trade
    BY <1>2 DEF Trade
  <2>2. trades' = Append(trades, t)
    BY <1>1
  <2>. HIDE DEF t
  <2>. QED
    BY <2>1, <2>2 DEF CycleTypes
<1>. QED
  BY <1>3, <1>4, <1>5, <1>6

\* A served exit sells a held position at the snapshot it has.
LEMMA ServedExit ==
  ASSUME Control, NEW e \in exits, ServeExit(e)
  PROVE  /\ e.netuid \in Held
         /\ snaps[e.netuid] # NoSnapshot
         /\ e.drain \in BOOLEAN
         /\ Sell(e.netuid, snaps[e.netuid], e.drain)
BY DEF Control, CycleTypes, Queues, ExitSignal, ServeExit, MayExit

\* The trade a served entry appends, the position it opens and why the risk
\* checks allowed it.
LEMMA ServeEntryEffect ==
  ASSUME Control, NEW sig \in entries, ServeEntry(sig)
  PROVE  /\ sig \in EntrySignal
         /\ sig.netuid \in Netuids
         /\ snaps[sig.netuid].block \in Nat
         /\ sig.netuid \notin Held
         /\ Cardinality(Held) < MaxPositions
         /\ state' = StateOf(free', positions', snaps)
         /\ \E amount \in Nat, alpha \in Nat, h \in Hotkeys :
              LET n == sig.netuid
                  b == snaps[n].block
              IN  /\ amount > 0 /\ amount >= MinTrade
                  /\ amount + ReserveTao <= free
                  /\ Rested(h, b)
                  /\ free' = free - amount
                  /\ positions' = [positions EXCEPT ![n] =
                       [alpha |-> alpha, invested |-> amount,
                        hotkey |-> h, block |-> b]]
                  /\ cooldowns' = [cooldowns EXCEPT ![h] = b]
                  /\ trades' = Append(trades,
                       [dir |-> "buy", netuid |-> n, tao |-> amount,
                        alpha |-> alpha, hotkey |-> h, block |-> b,
                        pnl |-> 0, drain |-> FALSE])
<1>1. sig \in EntrySignal /\ sig.netuid \in Netuids
  BY DEF Control, CycleTypes, EntrySignal
<1>2. phase = "entries" /\ state.free = free /\ state.held = Held
  BY DEF Control, Fresh, ServeEntry
<1>3. snaps[sig.netuid] \in Snapshots
  BY <1>1 DEF Control, CycleTypes, Queues
<1>4. /\ snaps[sig.netuid].block \in Nat
      /\ snaps[sig.netuid].tao_in \in Nat
      /\ snaps[sig.netuid].alpha_in \in Nat
  BY <1>3, ConstantsAssumption
<1>5. PICK amount \in MinTrade .. free, h \in Hotkeys :
        /\ Buys(sig, amount, h)
        /\ Buy(sig.netuid, amount, snaps[sig.netuid], h)
  BY DEF ServeEntry
<1>6. Accepts(sig, snaps[sig.netuid], amount) /\ Rested(h, snaps[sig.netuid].block)
  BY <1>5 DEF Buys, FirstAvailable
<1>7. state.free \in Nat
  BY DEF Control, CycleTypes
<1>8. /\ amount \in Nat /\ amount >= MinTrade
      /\ amount + ReserveTao <= free
      /\ sig.netuid \notin Held
      /\ Cardinality(Held) < MaxPositions
  BY <1>1, <1>2, <1>6, <1>7, AcceptedAmount
<1>9. amount > 0
  BY <1>8, ConstantsAssumption
<1>. DEFINE a == BuyAlpha(amount, snaps[sig.netuid].tao_in, snaps[sig.netuid].alpha_in)
<1>10. a \in Nat
  BY <1>4, <1>8, BuyAlphaNat
<1>11. /\ free' = free - amount
       /\ positions' = [positions EXCEPT ![sig.netuid] =
            [alpha |-> a, invested |-> amount, hotkey |-> h,
             block |-> snaps[sig.netuid].block]]
       /\ cooldowns' = [cooldowns EXCEPT ![h] = snaps[sig.netuid].block]
       /\ trades' = Append(trades,
            [dir |-> "buy", netuid |-> sig.netuid, tao |-> amount,
             alpha |-> a, hotkey |-> h, block |-> snaps[sig.netuid].block,
             pnl |-> 0, drain |-> FALSE])
  BY <1>5 DEF Buy
<1>12. state' = StateOf(free', positions', snaps)
  BY DEF ServeEntry, TakeState
<1>. HIDE DEF a
<1>. QED
  BY <1>1, <1>4, <1>6, <1>8, <1>9, <1>10, <1>11, <1>12

\* What a served entry does to the hotkeys.
LEMMA EntryUsesHotkey ==
  ASSUME Control, NEW sig \in entries, ServeEntry(sig)
  PROVE  LET n == sig.netuid
             b == snaps[n].block
         IN  \E amount \in Nat, alpha \in Nat, h \in Hotkeys :
               /\ Rested(h, b)
               /\ positions' = [positions EXCEPT ![n] =
                    [alpha |-> alpha, invested |-> amount,
                     hotkey |-> h, block |-> b]]
               /\ cooldowns' = [cooldowns EXCEPT ![h] = b]
<1>. DEFINE n == sig.netuid
            b == snaps[n].block
<1>1. \E amount \in Nat, alpha \in Nat, h \in Hotkeys :
        /\ amount >= MinTrade
        /\ amount + ReserveTao <= free
        /\ Rested(h, b)
        /\ free' = free - amount
        /\ positions' = [positions EXCEPT ![n] =
             [alpha |-> alpha, invested |-> amount,
              hotkey |-> h, block |-> b]]
        /\ cooldowns' = [cooldowns EXCEPT ![h] = b]
  BY ServeEntryEffect
<1>. HIDE DEF n, b
<1>2. \E amount \in Nat, alpha \in Nat, h \in Hotkeys :
        /\ Rested(h, b)
        /\ positions' = [positions EXCEPT ![n] =
             [alpha |-> alpha, invested |-> amount,
              hotkey |-> h, block |-> b]]
        /\ cooldowns' = [cooldowns EXCEPT ![h] = b]
  BY <1>1
<1>. QED
  BY <1>2 DEF n, b

-------------------------------------------------------------------------------
(* The control invariant: types, the queues, and the freshness of the      *)
(* PortfolioState.                                                         *)

LEMMA InitControl == Init => Control
<1>. SUFFICES ASSUME Init PROVE Control
  OBVIOUS
<1>. USE DEF Init, TrackerInit, NoCycle
<1>1. CycleTypes
  <2>1. NoSnaps \in [Netuids -> Snapshots \cup {NoSnapshot}]
    BY DEF NoSnaps
  <2>2. trades \in Seq(Trade) /\ Len(trades) = 0
    OBVIOUS
  <2>. QED
    BY <2>1, <2>2, ConstantsAssumption DEF CycleTypes, NoState
<1>2. Queues /\ Fresh
  BY DEF Queues, Fresh
<1>. QED
  BY <1>1, <1>2 DEF Control

LEMMA ServeExitTypes ==
  ASSUME Control, NEW e \in exits, ServeExit(e)
  PROVE  CycleTypes'
<1>1. CycleTypes /\ e.netuid \in Held /\ snaps[e.netuid] # NoSnapshot
      /\ e.drain \in BOOLEAN /\ Sell(e.netuid, snaps[e.netuid], e.drain)
  BY ServedExit DEF Control
<1>2. /\ free' \in Nat
      /\ positions' \in [Netuids -> Position \cup {NoPosition}]
      /\ cooldowns' \in [Hotkeys -> Nat]
      /\ trades' \in Seq(Trade) /\ Len(trades') = Len(trades) + 1
  BY <1>1, SellTypes
<1>3. mark' \in 0 .. Len(trades')
  BY <1>2 DEF Control, CycleTypes, ServeExit
<1>. QED
  BY <1>2, <1>3 DEF Control, CycleTypes, ServeExit

LEMMA ServeEntryTypes ==
  ASSUME Control, NEW sig \in entries, ServeEntry(sig)
  PROVE  CycleTypes'
<1>. DEFINE n == sig.netuid
            b == snaps[n].block
<1>1. PICK amount \in Nat, alpha \in Nat, h \in Hotkeys :
        /\ amount > 0
        /\ amount + ReserveTao <= free
        /\ free' = free - amount
        /\ positions' = [positions EXCEPT ![n] =
             [alpha |-> alpha, invested |-> amount, hotkey |-> h, block |-> b]]
        /\ cooldowns' = [cooldowns EXCEPT ![h] = b]
        /\ trades' = Append(trades,
             [dir |-> "buy", netuid |-> n, tao |-> amount, alpha |-> alpha,
              hotkey |-> h, block |-> b, pnl |-> 0, drain |-> FALSE])
  BY ServeEntryEffect
<1>2. n \in Netuids /\ b \in Nat /\ state' = StateOf(free', positions', snaps)
  BY ServeEntryEffect
<1>. HIDE DEF n, b
<1>3. free' \in Nat
  BY <1>1, ConstantsAssumption DEF Control, CycleTypes
<1>4. positions' \in [Netuids -> Position \cup {NoPosition}]
  BY <1>1, <1>2 DEF Control, CycleTypes, Position
<1>5. cooldowns' \in [Hotkeys -> Nat]
  BY <1>1, <1>2 DEF Control, CycleTypes
<1>6. trades' \in Seq(Trade) /\ Len(trades') = Len(trades) + 1
  <2>. DEFINE t == [dir |-> "buy", netuid |-> n, tao |-> amount, alpha |-> alpha,
                    hotkey |-> h, block |-> b, pnl |-> 0, drain |-> FALSE]
  <2>1. t \in Trade
    BY <1>2 DEF Trade
  <2>2. trades' = Append(trades, t)
    BY <1>1
  <2>. HIDE DEF t
  <2>. QED
    BY <2>1, <2>2 DEF Control, CycleTypes
<1>7. mark' \in 0 .. Len(trades')
  BY <1>6 DEF Control, CycleTypes, ServeEntry
<1>8. state'.free \in Nat /\ state'.held \subseteq Netuids
  BY <1>2, <1>3 DEF StateOf, Holdings
<1>. QED
  BY <1>3, <1>4, <1>5, <1>6, <1>7, <1>8 DEF Control, CycleTypes, ServeEntry

LEMMA NextTypes ==
  ASSUME Control, [Next]_vars
  PROVE  CycleTypes'
<1>. USE DEF Control
<1>1. CASE BeginCycle
  BY <1>1 DEF BeginCycle, CycleTypes, tracker, Seen, ExitSignal, EntrySignal, Held, Holdings
<1>2. CASE \E e \in exits : ServeExit(e)
  BY <1>2, ServeExitTypes
<1>3. CASE \E e \in exits : SkipExit(e)
  BY <1>3 DEF SkipExit, CycleTypes, tracker
<1>4. CASE EndExits
  <2>1. state' = StateOf(free, positions, snaps)
    BY <1>4 DEF EndExits, TakeState
  <2>2. state'.free \in Nat /\ state'.held \subseteq Netuids
    BY <2>1 DEF StateOf, Holdings, CycleTypes
  <2>. QED
    BY <1>4, <2>2 DEF EndExits, CycleTypes
<1>5. CASE \E sig \in entries : ServeEntry(sig)
  BY <1>5, ServeEntryTypes
<1>6. CASE \E sig \in entries : SkipEntry(sig)
  BY <1>6 DEF SkipEntry, CycleTypes, tracker
<1>7. CASE EndCycle
  BY <1>7 DEF EndCycle, CycleTypes, tracker, NoSnaps, NoState
<1>8. CASE UNCHANGED vars
  BY <1>8 DEF vars, tracker, cycle, CycleTypes
<1>. QED
  BY <1>1, <1>2, <1>3, <1>4, <1>5, <1>6, <1>7, <1>8 DEF Next, CycleStep

LEMMA NextQueues ==
  ASSUME Control, [Next]_vars
  PROVE  Queues' /\ Fresh'
<1>. USE DEF Control, Queues, Fresh
<1>1. CASE BeginCycle
  BY <1>1 DEF BeginCycle, tracker, Seen, Held
<1>2. CASE \E e \in exits : ServeExit(e)
  <2>1. PICK e \in exits : ServeExit(e)
    BY <1>2
  <2>3. Held' \subseteq Held
    BY <2>1, ServedExit, SellTypes
  <2>. QED
    BY <2>1, <2>3 DEF ServeExit
<1>3. CASE \E e \in exits : SkipExit(e)
  BY <1>3 DEF SkipExit, tracker, Held
<1>4. CASE EndExits
  BY <1>4 DEF EndExits, TakeState, StateOf, Held
<1>5. CASE \E sig \in entries : ServeEntry(sig)
  <2>1. PICK sig \in entries : ServeEntry(sig)
    BY <1>5
  <2>2. state' = StateOf(free', positions', snaps)
    BY <2>1, ServeEntryEffect
  <2>3. state'.free = free' /\ state'.held = Held'
    BY <2>2 DEF StateOf, Held
  <2>. QED
    BY <2>1, <2>3 DEF ServeEntry
<1>6. CASE \E sig \in entries : SkipEntry(sig)
  BY <1>6 DEF SkipEntry, tracker, Held
<1>7. CASE EndCycle
  BY <1>7 DEF EndCycle, tracker
<1>8. CASE UNCHANGED vars
  BY <1>8 DEF vars, tracker, cycle, Held
<1>. QED
  BY <1>1, <1>2, <1>3, <1>4, <1>5, <1>6, <1>7, <1>8 DEF Next, CycleStep

\* In every reachable state the variables have their types, the signals
\* still queued are about subnets with a snapshot, no entry signal is about a
\* held subnet, and while entries are served the PortfolioState is current.
THEOREM ControlInvariant == Spec => []Control
<1>1. Control /\ [Next]_vars => Control'
  BY NextTypes, NextQueues DEF Control
<1>. QED
  BY InitControl, <1>1, PTL DEF Spec

\* Type correctness of the tracker and of the cycle's control state.
THEOREM TypeCorrectness == Spec => []TypeOK
<1>. DEFINE Phases == phase \in {"idle", "exits", "entries"}
<1>1. Init => Phases
  BY DEF Init, NoCycle
<1>2. Phases /\ [Next]_vars => Phases'
  BY DEF Next, CycleStep, BeginCycle, ServeExit, SkipExit, EndExits,
         ServeEntry, SkipEntry, EndCycle, vars, cycle
<1>3. Control /\ Phases => TypeOK
  BY DEF Control, TypeOK
<1>. QED
  BY <1>1, <1>2, <1>3, ControlInvariant, PTL DEF Spec

-------------------------------------------------------------------------------
(* Capital limits.                                                         *)

\* A step that does not trade leaves the log and the tracker alone.
LEMMA QuietStep ==
  ASSUME [Next]_vars,
         ~ \E e \in exits : ServeExit(e),
         ~ \E sig \in entries : ServeEntry(sig)
  PROVE  UNCHANGED <<free, positions, cooldowns, trades>>
BY DEF Next, CycleStep, BeginCycle, SkipExit, EndExits, SkipEntry, EndCycle,
       vars, tracker

\* No step spends the reserve or exceeds the position limit.
LEMMA LimitsStep ==
  ASSUME Control, LimitsKept, [Next]_vars
  PROVE  LimitsKept'
<1>. USE DEF LimitsKept, ReserveIntact, PositionsBounded
<1>1. free \in Nat /\ ReserveTao \in Nat /\ MaxPositions \in Nat
  BY ConstantsAssumption DEF Control, CycleTypes
<1>2. IsFiniteSet(Held) /\ Cardinality(Held) \in Nat
  <2>1. Held \subseteq Netuids
    BY DEF Held, Holdings
  <2>. QED
    BY <2>1, FS_Subset, FS_CardinalityType, ConstantsAssumption
<1>3. CASE \E e \in exits : ServeExit(e)
  <2>1. free' \in Nat /\ free' >= free /\ Held' \subseteq Held
    BY <1>3, ServedExit, SellTypes DEF Control
  <2>2. Cardinality(Held') <= Cardinality(Held) /\ Cardinality(Held') \in Nat
    BY <1>2, <2>1, FS_Subset, FS_CardinalityType
  <2>. QED
    BY <1>1, <1>2, <2>1, <2>2
<1>4. CASE \E sig \in entries : ServeEntry(sig)
  <2>1. PICK sig \in entries : ServeEntry(sig)
    BY <1>4
  <2>2. Cardinality(Held) < MaxPositions /\ sig.netuid \notin Held
    BY <2>1, ServeEntryEffect
  <2>3. \E amount \in Nat : amount + ReserveTao <= free /\ free' = free - amount
    BY <2>1, ServeEntryEffect
  <2>4. Held' \subseteq Held \cup {sig.netuid}
    BY <2>1, ServeEntryEffect DEF Held, Holdings, Control, CycleTypes
  <2>5. /\ IsFiniteSet(Held \cup {sig.netuid})
        /\ Cardinality(Held \cup {sig.netuid}) = Cardinality(Held) + 1
    BY <1>2, <2>2, FS_AddElement
  <2>6. /\ Cardinality(Held') <= Cardinality(Held) + 1
        /\ Cardinality(Held') \in Nat
    BY <2>4, <2>5, FS_Subset, FS_CardinalityType
  <2>. QED
    BY <1>1, <1>2, <2>2, <2>3, <2>6
<1>5. CASE UNCHANGED <<free, positions, cooldowns, trades>>
  BY <1>5 DEF Held, Holdings
<1>. QED
  BY <1>3, <1>4, <1>5, QuietStep

\* A new tracker is within the limits.
LEMMA InitLimits == Init => LimitsKept
<1>. SUFFICES ASSUME Init PROVE LimitsKept
  OBVIOUS
<1>1. Held = {}
  BY DEF Init, TrackerInit, Held, Holdings
<1>. QED
  BY <1>1, FS_EmptySet, ConstantsAssumption
     DEF Init, TrackerInit, LimitsKept, ReserveIntact, PositionsBounded

\* LimitsKept: no sequence of cycles spends the reserve or exceeds
\* max_positions, for any pools, signals and limits.
THEOREM LimitsNeverBroken == Spec => []LimitsKept
BY InitLimits, LimitsStep, ControlInvariant, PTL DEF Spec

-------------------------------------------------------------------------------
(* The sums: what the open positions cost and what the log realised.       *)

BookTypes(pos) == pos \in [Netuids -> Position \cup {NoPosition}]

LEMMA CostIsNat ==
  ASSUME NEW pos, BookTypes(pos)
  PROVE  Cost(pos) \in Nat
<1>. DEFINE paid == [n \in Holdings(pos) |-> pos[n].invested]
<1>1. IsFiniteSet(Holdings(pos))
  BY FS_Subset, ConstantsAssumption DEF Holdings
<1>2. \A n \in Holdings(pos) : paid[n] \in Nat
  BY DEF Holdings, BookTypes, Position
<1>. QED
  BY <1>1, <1>2, SumIsNat DEF Cost, SumFunction

LEMMA CostOfOpening ==
  ASSUME NEW pos, BookTypes(pos), NEW n \in Netuids, pos[n] = NoPosition,
         NEW p \in Position, p # NoPosition
  PROVE  Cost([pos EXCEPT ![n] = p]) = Cost(pos) + p.invested
<1>. DEFINE new == [pos EXCEPT ![n] = p]
            before == [m \in Holdings(pos) |-> pos[m].invested]
            after == [m \in Holdings(new) |-> new[m].invested]
<1>1. /\ Holdings(new) = Holdings(pos) \cup {n} /\ n \notin Holdings(pos)
      /\ \A m \in Holdings(pos) : new[m] = pos[m]
      /\ new[n] = p
  BY DEF Holdings, BookTypes
<1>2. IsFiniteSet(Holdings(pos))
  BY FS_Subset, ConstantsAssumption DEF Holdings
<1>3. /\ \A m \in Holdings(pos) : before[m] \in Int /\ after[m] = before[m]
      /\ after[n] = p.invested /\ p.invested \in Int
  BY <1>1 DEF Holdings, BookTypes, Position
<1>. HIDE DEF before, after, new
<1>4. SumFunctionOnSet(after, Holdings(pos) \cup {n})
        = after[n] + SumFunctionOnSet(after, Holdings(pos))
  BY <1>1, <1>2, <1>3, SumWith
<1>5. SumFunctionOnSet(after, Holdings(pos)) = SumFunctionOnSet(before, Holdings(pos))
  BY <1>2, <1>3, SumsAgree
<1>6. SumFunctionOnSet(before, Holdings(pos)) \in Int
  BY <1>2, <1>3, SumIsInt
<1>7. /\ Cost(pos) = SumFunctionOnSet(before, Holdings(pos))
      /\ Cost(new) = SumFunctionOnSet(after, Holdings(new))
  BY DEF Cost, SumFunction, before, after
<1>8. SumFunctionOnSet(after, Holdings(new)) = after[n] + SumFunctionOnSet(before, Holdings(pos))
  BY <1>1, <1>4, <1>5
<1>9. Cost(new) = p.invested + Cost(pos) /\ Cost(pos) \in Int
  BY <1>3, <1>6, <1>7, <1>8
<1>10. Cost(new) = Cost(pos) + p.invested
  BY <1>3, <1>9
<1>. QED
  BY <1>10 DEF new

LEMMA CostOfClosing ==
  ASSUME NEW pos, BookTypes(pos), NEW n \in Holdings(pos)
  PROVE  /\ Cost([pos EXCEPT ![n] = NoPosition]) = Cost(pos) - pos[n].invested
         /\ BookTypes([pos EXCEPT ![n] = NoPosition])
<1>. DEFINE left == [pos EXCEPT ![n] = NoPosition]
<1>1. /\ n \in Netuids /\ pos[n] \in Position /\ pos[n] # NoPosition
      /\ pos[n].invested \in Nat
  BY DEF Holdings, BookTypes, Position
<1>2. BookTypes(left) /\ left[n] = NoPosition /\ [left EXCEPT ![n] = pos[n]] = pos
  BY <1>1 DEF BookTypes
<1>. HIDE DEF left
<1>3. Cost(pos) = Cost(left) + pos[n].invested
  BY <1>1, <1>2, CostOfOpening
<1>4. Cost(left) \in Nat
  BY <1>2, CostIsNat
<1>. QED
  BY <1>1, <1>2, <1>3, <1>4 DEF left

LEMMA RealisedIsInt ==
  ASSUME NEW log \in Seq(Trade)
  PROVE  Realised(log) \in Int
<1>. DEFINE pnl == [i \in DOMAIN log |-> log[i].pnl]
<1>1. DOMAIN log = 1 .. Len(log) /\ Len(log) \in Nat
  OBVIOUS
<1>2. IsFiniteSet(DOMAIN log)
  BY <1>1, FS_Interval
<1>3. \A i \in DOMAIN log : pnl[i] \in Int
  <2>1. \A i \in DOMAIN log : log[i] \in Trade
    BY <1>1
  <2>. QED
    BY <2>1 DEF Trade
<1>. QED
  BY <1>2, <1>3, SumIsInt DEF Realised, SumFunction

LEMMA RealisedAppends ==
  ASSUME NEW log \in Seq(Trade), NEW t \in Trade
  PROVE  Realised(Append(log, t)) = Realised(log) + t.pnl
<1>. DEFINE longer == Append(log, t)
            last == Len(log) + 1
            before == [i \in DOMAIN log |-> log[i].pnl]
            after == [i \in DOMAIN longer |-> longer[i].pnl]
<1>1. /\ DOMAIN log = 1 .. Len(log) /\ Len(log) \in Nat
      /\ DOMAIN longer = DOMAIN log \cup {last} /\ last \notin DOMAIN log
      /\ \A i \in DOMAIN log : longer[i] = log[i]
      /\ longer[last] = t
  OBVIOUS
<1>2. IsFiniteSet(DOMAIN log)
  BY <1>1, FS_Interval
<1>3. /\ \A i \in DOMAIN log : before[i] \in Int /\ after[i] = before[i]
      /\ after[last] = t.pnl /\ t.pnl \in Int
  <2>1. \A i \in DOMAIN log : log[i] \in Trade
    BY <1>1
  <2>2. \A i \in DOMAIN log : log[i].pnl \in Int
    BY <2>1 DEF Trade
  <2>3. \A i \in DOMAIN log : i \in DOMAIN longer /\ after[i] = log[i].pnl
    BY <1>1
  <2>4. last \in DOMAIN longer /\ after[last] = t.pnl
    BY <1>1
  <2>5. t.pnl \in Int
    BY DEF Trade
  <2>. QED
    BY <2>2, <2>3, <2>4, <2>5
<1>4. /\ Realised(log) = SumFunctionOnSet(before, DOMAIN log)
      /\ Realised(longer) = SumFunctionOnSet(after, DOMAIN longer)
  BY DEF Realised, SumFunction
<1>. HIDE DEF before, after, longer, last
<1>5. SumFunctionOnSet(after, DOMAIN log \cup {last})
        = after[last] + SumFunctionOnSet(after, DOMAIN log)
  BY <1>1, <1>2, <1>3, SumWith
<1>6. SumFunctionOnSet(after, DOMAIN log) = SumFunctionOnSet(before, DOMAIN log)
  BY <1>2, <1>3, SumsAgree
<1>7. SumFunctionOnSet(before, DOMAIN log) \in Int
  BY <1>2, <1>3, SumIsInt
<1>. QED
  BY <1>1, <1>3, <1>4, <1>5, <1>6, <1>7 DEF longer

\* A trade moves capital between cash, cost and result, and makes none.
Conserved ==
  free' + Cost(positions') - Realised(trades') = free + Cost(positions) - Realised(trades)

LEMMA SaleConserves ==
  ASSUME CycleTypes, NEW n \in Held, snaps[n] # NoSnapshot,
         NEW drain \in BOOLEAN, Sell(n, snaps[n], drain)
  PROVE  Conserved
<1>. DEFINE p == positions[n]
            tao == SellTao(p.alpha, snaps[n].tao_in, snaps[n].alpha_in)
            t == [dir |-> "sell", netuid |-> n, tao |-> tao,
                  alpha |-> p.alpha, hotkey |-> p.hotkey, block |-> snaps[n].block,
                  pnl |-> tao - p.invested, drain |-> drain]
<1>1. /\ free' = free + tao
      /\ positions' = [positions EXCEPT ![n] = NoPosition]
      /\ trades' = Append(trades, t)
  BY DEF Sell
<1>2. /\ tao \in Nat /\ n \in Netuids /\ p.alpha \in Nat /\ p.invested \in Nat
      /\ p.hotkey \in Hotkeys /\ snaps[n].block \in Nat
  BY SoldPosition
<1>. HIDE DEF tao
<1>3. t \in Trade /\ t.pnl = tao - p.invested
  BY <1>2 DEF Trade
<1>. HIDE DEF t, p
<1>4. trades \in Seq(Trade) /\ BookTypes(positions) /\ n \in Holdings(positions) /\ free \in Nat
  BY DEF CycleTypes, BookTypes, Held
<1>5. Cost(positions') = Cost(positions) - p.invested /\ Cost(positions) \in Nat
  BY <1>1, <1>4, CostOfClosing, CostIsNat DEF p
<1>6. Realised(trades') = Realised(trades) + t.pnl /\ Realised(trades) \in Int
  BY <1>1, <1>3, <1>4, RealisedAppends, RealisedIsInt
<1>. QED
  BY <1>1, <1>2, <1>3, <1>4, <1>5, <1>6 DEF Conserved

LEMMA PurchaseConserves ==
  ASSUME Control, NEW sig \in entries, ServeEntry(sig)
  PROVE  Conserved
<1>. DEFINE n == sig.netuid
            b == snaps[n].block
<1>1. PICK amount \in Nat, alpha \in Nat, h \in Hotkeys :
        /\ amount + ReserveTao <= free
        /\ free' = free - amount
        /\ positions' = [positions EXCEPT ![n] =
             [alpha |-> alpha, invested |-> amount, hotkey |-> h, block |-> b]]
        /\ trades' = Append(trades,
             [dir |-> "buy", netuid |-> n, tao |-> amount, alpha |-> alpha,
              hotkey |-> h, block |-> b, pnl |-> 0, drain |-> FALSE])
  BY ServeEntryEffect
<1>2. n \in Netuids /\ n \notin Held /\ b \in Nat
  BY ServeEntryEffect
<1>. HIDE DEF n, b
<1>. DEFINE p == [alpha |-> alpha, invested |-> amount, hotkey |-> h, block |-> b]
            t == [dir |-> "buy", netuid |-> n, tao |-> amount, alpha |-> alpha,
                  hotkey |-> h, block |-> b, pnl |-> 0, drain |-> FALSE]
<1>3. p \in Position /\ p # NoPosition /\ p.invested = amount /\ t \in Trade /\ t.pnl = 0
  BY <1>2, ConstantsAssumption DEF Position, Trade
<1>4. positions' = [positions EXCEPT ![n] = p] /\ trades' = Append(trades, t)
  BY <1>1
<1>. HIDE DEF p, t
<1>5. trades \in Seq(Trade) /\ BookTypes(positions) /\ positions[n] = NoPosition /\ free \in Nat
  BY <1>2 DEF Control, CycleTypes, BookTypes, Held, Holdings
<1>6. Cost(positions') = Cost(positions) + amount /\ Cost(positions) \in Nat
  BY <1>2, <1>3, <1>4, <1>5, CostOfOpening, CostIsNat
<1>7. Realised(trades') = Realised(trades) + 0 /\ Realised(trades) \in Int
  BY <1>3, <1>4, <1>5, RealisedAppends, RealisedIsInt
<1>. QED
  BY <1>1, <1>5, <1>6, <1>7 DEF Conserved

LEMMA StepConserves ==
  ASSUME Control, [Next]_vars
  PROVE  Conserved
<1>1. CASE \E e \in exits : ServeExit(e)
  BY <1>1, ServedExit, SaleConserves DEF Control
<1>2. CASE \E sig \in entries : ServeEntry(sig)
  BY <1>2, PurchaseConserves
<1>3. CASE UNCHANGED <<free, positions, cooldowns, trades>>
  BY <1>3 DEF Conserved
<1>. QED
  BY <1>1, <1>2, <1>3, QuietStep

\* What a step conserves, the invariant follows.
LEMMA ConservedKeeps ==
  ASSUME CycleTypes, CycleTypes', Conserved, EquityConserved
  PROVE  EquityConserved'
<1>1. /\ free \in Nat /\ Cost(positions) \in Nat /\ Realised(trades) \in Int
      /\ Initial \in Nat
  BY CostIsNat, RealisedIsInt, ConstantsAssumption DEF CycleTypes, BookTypes
<1>2. free' \in Nat /\ Cost(positions') \in Nat /\ Realised(trades') \in Int
  BY CostIsNat, RealisedIsInt DEF CycleTypes, BookTypes
<1>. QED
  BY <1>1, <1>2 DEF Conserved, EquityConserved

LEMMA InitConserves == Init => EquityConserved
<1>. SUFFICES ASSUME Init PROVE EquityConserved
  OBVIOUS
<1>1. Holdings(positions) = {} /\ DOMAIN trades = {}
  BY DEF Init, TrackerInit, Holdings
<1>2. Cost(positions) = 0 /\ Realised(trades) = 0
  <2>1. /\ Cost(positions) = SumFunctionOnSet([n \in {} |-> positions[n].invested], {})
        /\ Realised(trades) = SumFunctionOnSet([i \in {} |-> trades[i].pnl], {})
    BY <1>1 DEF Cost, Realised, SumFunction
  <2>. QED
    BY <2>1, SumOfNone
<1>. QED
  BY <1>2, ConstantsAssumption DEF Init, TrackerInit, EquityConserved

\* EquityConserved: over any number of cycles, in any market, the cash and
\* the cost of what is open are the initial capital and the result of what
\* was sold; a sale into an empty pool books its whole cost as a loss.
THEOREM CapitalIsConserved == Spec => []EquityConserved
<1>1. Control /\ EquityConserved /\ [Next]_vars => EquityConserved'
  <2>1. Control /\ [Next]_vars => CycleTypes'
    BY NextTypes DEF Control
  <2>. QED
    BY <2>1, StepConserves, ConservedKeeps DEF Control
<1>. QED
  BY InitConserves, <1>1, ControlInvariant, PTL DEF Spec

-------------------------------------------------------------------------------
(* The trade log.                                                          *)

\* The sell trade a served exit logs, and what it does to its position.
IsExitTrade(t, e) ==
  LET p == positions[e.netuid]
  IN  /\ trades' = Append(trades, t)
      /\ t.dir = "sell"
      /\ t.netuid = e.netuid
      /\ t.hotkey = p.hotkey
      /\ t.block = snaps[e.netuid].block
      /\ t.drain = e.drain
      /\ positions' = [positions EXCEPT ![e.netuid] = NoPosition]
      /\ cooldowns' = [cooldowns EXCEPT ![t.hotkey] = t.block]

\* The buy trade a served entry logs, and the position it opens.
IsEntryTrade(t, sig) ==
  /\ trades' = Append(trades, t)
  /\ t.dir = "buy"
  /\ t.netuid = sig.netuid
  /\ t.block = snaps[sig.netuid].block
  /\ Rested(t.hotkey, t.block)
  /\ positions' = [positions EXCEPT ![sig.netuid] =
                     [alpha |-> t.alpha, invested |-> t.tao,
                      hotkey |-> t.hotkey, block |-> t.block]]
  /\ cooldowns' = [cooldowns EXCEPT ![t.hotkey] = t.block]

LEMMA ExitTrade ==
  ASSUME Control, NEW e \in exits, ServeExit(e)
  PROVE  \E t \in Trade : IsExitTrade(t, e)
<1>1. PICK tao \in Nat, pnl \in Int :
        LET n == e.netuid
            p == positions[n]
            b == snaps[n].block
        IN  /\ positions' = [positions EXCEPT ![n] = NoPosition]
            /\ cooldowns' = [cooldowns EXCEPT ![p.hotkey] = b]
            /\ trades' = Append(trades,
                 [dir |-> "sell", netuid |-> n, tao |-> tao,
                  alpha |-> p.alpha, hotkey |-> p.hotkey, block |-> b,
                  pnl |-> pnl, drain |-> e.drain])
  BY ServedExit, SellEffect DEF Control
<1>. DEFINE t == [dir |-> "sell", netuid |-> e.netuid, tao |-> tao,
                  alpha |-> positions[e.netuid].alpha,
                  hotkey |-> positions[e.netuid].hotkey,
                  block |-> snaps[e.netuid].block,
                  pnl |-> pnl, drain |-> e.drain]
<1>2. t \in Trade
  BY ServedExit, SoldPosition DEF Trade, Control
<1>3. IsExitTrade(t, e)
  BY <1>1 DEF IsExitTrade
<1>. HIDE DEF t
<1>. QED
  BY <1>2, <1>3

LEMMA EntryTrade ==
  ASSUME Control, NEW sig \in entries, ServeEntry(sig)
  PROVE  \E t \in Trade : IsEntryTrade(t, sig)
<1>. DEFINE n == sig.netuid
            b == snaps[n].block
<1>1. PICK amount \in Nat, alpha \in Nat, h \in Hotkeys :
        /\ Rested(h, b)
        /\ positions' = [positions EXCEPT ![n] =
             [alpha |-> alpha, invested |-> amount, hotkey |-> h, block |-> b]]
        /\ cooldowns' = [cooldowns EXCEPT ![h] = b]
        /\ trades' = Append(trades,
             [dir |-> "buy", netuid |-> n, tao |-> amount, alpha |-> alpha,
              hotkey |-> h, block |-> b, pnl |-> 0, drain |-> FALSE])
  BY ServeEntryEffect
<1>. DEFINE t == [dir |-> "buy", netuid |-> n, tao |-> amount, alpha |-> alpha,
                  hotkey |-> h, block |-> b, pnl |-> 0, drain |-> FALSE]
<1>2. t \in Trade
  BY ServeEntryEffect DEF Trade
<1>3. IsEntryTrade(t, sig)
  BY <1>1 DEF IsEntryTrade
<1>. HIDE DEF t
<1>. QED
  BY <1>2, <1>3

\* What appending does to the log.
LEMMA LogAppend ==
  ASSUME trades \in Seq(Trade), NEW t, trades' = Append(trades, t)
  PROVE  /\ Len(trades) \in Nat
         /\ DOMAIN trades = 1 .. Len(trades)
         /\ DOMAIN trades' = 1 .. (Len(trades) + 1)
         /\ Len(trades') = Len(trades) + 1
         /\ \A i \in 1 .. Len(trades) : trades'[i] = trades[i]
         /\ trades'[Len(trades) + 1] = t
OBVIOUS

\* A trade that rests its hotkey extends a spaced log to a spaced log.
LEMMA SpacedAppend ==
  ASSUME Control, HotkeySpacing, CooldownsCurrent,
         NEW t \in Trade, trades' = Append(trades, t),
         Rested(t.hotkey, t.block),
         cooldowns' = [cooldowns EXCEPT ![t.hotkey] = t.block]
  PROVE  HotkeySpacing' /\ CooldownsCurrent'
<1>1. trades \in Seq(Trade) /\ cooldowns \in [Hotkeys -> Nat]
  BY DEF Control, CycleTypes
<1>2. /\ Len(trades) \in Nat
      /\ DOMAIN trades = 1 .. Len(trades)
      /\ DOMAIN trades' = 1 .. (Len(trades) + 1)
      /\ \A i \in 1 .. Len(trades) : trades'[i] = trades[i]
      /\ trades'[Len(trades) + 1] = t
  BY <1>1, LogAppend
<1>3. t.hotkey \in Hotkeys /\ t.block \in Nat
  BY DEF Trade
<1>4. \A i \in DOMAIN trades : trades[i].hotkey \in Hotkeys /\ trades[i].block \in Nat
  <2>1. \A i \in DOMAIN trades : trades[i] \in Trade
    BY <1>1, <1>2
  <2>. QED
    BY <2>1 DEF Trade
<1>5. t.block >= cooldowns[t.hotkey] + Cooldown
  BY DEF Rested
<1>6. CooldownsCurrent'
  <2>. SUFFICES ASSUME NEW i \in DOMAIN trades'
                PROVE  trades'[i].block <= cooldowns'[trades'[i].hotkey]
    BY DEF CooldownsCurrent
  <2>1. CASE i \in 1 .. Len(trades)
    <3>1. trades[i].block <= cooldowns[trades[i].hotkey]
      BY <1>2, <2>1 DEF CooldownsCurrent
    <3>2. CASE trades[i].hotkey = t.hotkey
      BY <1>1, <1>2, <1>3, <1>4, <1>5, <2>1, <3>1, <3>2, ConstantsAssumption
    <3>3. CASE trades[i].hotkey # t.hotkey
      BY <1>1, <1>2, <1>4, <2>1, <3>1, <3>3
    <3>. QED
      BY <3>2, <3>3
  <2>2. CASE i = Len(trades) + 1
    BY <1>1, <1>2, <1>3, <2>2
  <2>. QED
    BY <1>2, <2>1, <2>2
<1>7. HotkeySpacing'
  <2>. SUFFICES ASSUME NEW i \in DOMAIN trades', NEW j \in DOMAIN trades', i < j,
                       trades'[i].hotkey = trades'[j].hotkey
                PROVE  trades'[j].block >= trades'[i].block + Cooldown
    BY DEF HotkeySpacing
  <2>1. i \in 1 .. Len(trades)
    BY <1>2
  <2>2. CASE j \in 1 .. Len(trades)
    BY <1>2, <2>1, <2>2 DEF HotkeySpacing
  <2>3. CASE j = Len(trades) + 1
    <3>1. trades[i].block <= cooldowns[t.hotkey] /\ trades[i].block \in Nat
      BY <1>2, <1>4, <2>1, <2>3 DEF CooldownsCurrent
    <3>2. cooldowns[t.hotkey] \in Nat
      BY <1>1, <1>3
    <3>. QED
      BY <1>2, <1>3, <1>5, <2>1, <2>3, <3>1, <3>2, ConstantsAssumption
  <2>. QED
    BY <1>2, <2>2, <2>3
<1>. QED
  BY <1>6, <1>7

\* HotkeySpacing: two trades by one hotkey are a cooldown apart, whichever
\* subnets they are on and however those subnets' blocks are ordered.
THEOREM HotkeysRest == Spec => []HotkeySpacing
<1>. DEFINE IInv == HotkeySpacing /\ CooldownsCurrent
<1>1. Init => IInv
  BY DEF Init, TrackerInit, HotkeySpacing, CooldownsCurrent
<1>2. Control /\ IInv /\ [Next]_vars => IInv'
  <2>. SUFFICES ASSUME Control, IInv, [Next]_vars PROVE IInv'
    OBVIOUS
  <2>1. CASE \E e \in exits : ServeExit(e)
    <3>1. PICK e \in exits : ServeExit(e)
      BY <2>1
    <3>2. PICK t \in Trade : IsExitTrade(t, e)
      BY <3>1, ExitTrade
    <3>3. Rested(t.hotkey, t.block)
      BY <3>1, <3>2 DEF ServeExit, MayExit, IsExitTrade
    <3>. QED
      BY <3>2, <3>3, SpacedAppend DEF IsExitTrade
  <2>2. CASE \E sig \in entries : ServeEntry(sig)
    <3>1. PICK sig \in entries : ServeEntry(sig)
      BY <2>2
    <3>2. PICK t \in Trade : IsEntryTrade(t, sig)
      BY <3>1, EntryTrade
    <3>. QED
      BY <3>2, SpacedAppend DEF IsEntryTrade
  <2>3. CASE UNCHANGED <<free, positions, cooldowns, trades>>
    BY <2>3 DEF HotkeySpacing, CooldownsCurrent
  <2>. QED
    BY <2>1, <2>2, <2>3, QuietStep
<1>3. IInv => HotkeySpacing
  OBVIOUS
<1>. QED
  BY <1>1, <1>2, <1>3, ControlInvariant, PTL DEF Spec

\* Every logged trade is well formed.
LEMMA LoggedTrades ==
  ASSUME Control
  PROVE  /\ trades \in Seq(Trade) /\ Len(trades) \in Nat
         /\ DOMAIN trades = 1 .. Len(trades)
         /\ mark \in 0 .. Len(trades)
         /\ \A i \in 1 .. Len(trades) : trades[i] \in Trade
BY DEF Control, CycleTypes

\* OneTradePerSubnet: no subnet is sold and bought back, or bought twice, in
\* one cycle.
THEOREM AtMostOneTrade == Spec => []OneTradePerSubnet
<1>. DEFINE IInv == OneTradePerSubnet /\ ThisCycle
<1>1. Init => IInv
  BY DEF Init, TrackerInit, NoCycle, OneTradePerSubnet, ThisCycle
<1>2. Control /\ IInv /\ [Next]_vars => IInv'
  <2>. SUFFICES ASSUME Control, IInv, [Next]_vars PROVE IInv'
    OBVIOUS
  <2>. USE LoggedTrades
  <2>1. CASE \E e \in exits : ServeExit(e)
    <3>1. PICK e \in exits : ServeExit(e)
      BY <2>1
    <3>2. PICK t \in Trade : IsExitTrade(t, e)
      BY <3>1, ExitTrade
    <3>3. /\ Len(trades') = Len(trades) + 1
          /\ \A i \in 1 .. Len(trades) : trades'[i] = trades[i]
          /\ trades'[Len(trades) + 1] = t
      BY <3>2, LogAppend DEF IsExitTrade
    <3>4. phase = "exits" /\ mark' = mark /\ entries' = entries /\ phase' = phase
      BY <3>1 DEF ServeExit
    <3>5. /\ e.netuid \in Held
          /\ Held' = Held \ {e.netuid}
          /\ \A sig \in entries : sig.netuid # e.netuid
      <4>1. e.netuid \in Held /\ e.netuid \in Netuids
        BY <3>1, ServedExit DEF Held, Holdings
      <4>2. Held' = Held \ {e.netuid}
        BY <3>2, <4>1 DEF IsExitTrade, Held, Holdings, Control, CycleTypes
      <4>. QED
        BY <3>4, <4>1, <4>2 DEF Control, Queues
    <3>6. \A i \in (mark + 1) .. Len(trades) :
            trades[i].dir = "sell" /\ trades[i].netuid \notin Held
      BY <3>4 DEF ThisCycle
    <3>7. t.dir = "sell" /\ t.netuid = e.netuid
      BY <3>2 DEF IsExitTrade
    <3>8. ThisCycle'
      BY <3>3, <3>4, <3>5, <3>6, <3>7 DEF ThisCycle
    <3>9. OneTradePerSubnet'
      BY <3>3, <3>4, <3>5, <3>6, <3>7 DEF OneTradePerSubnet
    <3>. QED
      BY <3>8, <3>9
  <2>2. CASE \E sig \in entries : ServeEntry(sig)
    <3>1. PICK sig \in entries : ServeEntry(sig)
      BY <2>2
    <3>2. PICK t \in Trade : IsEntryTrade(t, sig)
      BY <3>1, EntryTrade
    <3>3. /\ Len(trades') = Len(trades) + 1
          /\ \A i \in 1 .. Len(trades) : trades'[i] = trades[i]
          /\ trades'[Len(trades) + 1] = t
      BY <3>2, LogAppend DEF IsEntryTrade
    <3>4. /\ phase = "entries" /\ mark' = mark /\ phase' = phase
          /\ entries' \subseteq entries
      BY <3>1 DEF ServeEntry
    <3>5. sig.netuid \notin Held /\ Held' = Held \cup {sig.netuid}
      <4>1. sig.netuid \notin Held /\ sig.netuid \in Netuids
        BY <3>1, ServeEntryEffect
      <4>2. [alpha |-> t.alpha, invested |-> t.tao, hotkey |-> t.hotkey,
             block |-> t.block] # NoPosition
        BY ConstantsAssumption DEF Trade
      <4>3. positions' = [positions EXCEPT ![sig.netuid] =
              [alpha |-> t.alpha, invested |-> t.tao,
               hotkey |-> t.hotkey, block |-> t.block]]
        BY <3>2 DEF IsEntryTrade
      <4>. QED
        BY <4>1, <4>2, <4>3 DEF Held, Holdings, Control, CycleTypes
    <3>6. \A i \in (mark + 1) .. Len(trades) : trades[i].netuid # sig.netuid
      BY <3>5 DEF ThisCycle
    <3>7. t.dir = "buy" /\ t.netuid = sig.netuid
      BY <3>2 DEF IsEntryTrade
    <3>8. ThisCycle'
      BY <3>3, <3>4, <3>5, <3>6, <3>7 DEF ThisCycle
    <3>9. OneTradePerSubnet'
      BY <3>3, <3>4, <3>6, <3>7 DEF OneTradePerSubnet
    <3>. QED
      BY <3>8, <3>9
  <2>3. CASE BeginCycle \/ EndCycle
    <3>1. mark' = Len(trades) /\ trades' = trades
      BY <2>3 DEF BeginCycle, EndCycle, tracker
    <3>. QED
      BY <3>1 DEF OneTradePerSubnet, ThisCycle
  <2>4. CASE \/ \E e \in exits : SkipExit(e)
             \/ EndExits
             \/ \E sig \in entries : SkipEntry(sig)
             \/ UNCHANGED vars
    <3>1. /\ mark' = mark /\ trades' = trades /\ Held' = Held
          /\ entries' \subseteq entries
          /\ phase' = phase \/ phase' = "entries"
      BY <2>4 DEF SkipExit, EndExits, SkipEntry, vars, tracker, cycle, Held
    <3>. QED
      BY <3>1 DEF OneTradePerSubnet, ThisCycle
  <2>. QED
    BY <2>1, <2>2, <2>3, <2>4 DEF Next, CycleStep
<1>3. IInv => OneTradePerSubnet
  OBVIOUS
<1>. QED
  BY <1>1, <1>2, <1>3, ControlInvariant, PTL DEF Spec

\* While a drain signal waits, only drain exits have been served.
DrainsFirst ==
  (\E e \in exits : e.drain)
    => \A i \in (mark + 1) .. Len(trades) : trades[i].drain

\* DrainNotStarved: an ordinary exit never takes the hotkey a drain exit of
\* the same cycle needs.
THEOREM DrainsNeverStarved == Spec => DrainNotStarved
<1>1. Init => DrainsFirst
  BY DEF Init, NoCycle, DrainsFirst
<1>2. Control /\ DrainsFirst /\ [Next]_vars => DrainsFirst'
  <2>. SUFFICES ASSUME Control, DrainsFirst, [Next]_vars PROVE DrainsFirst'
    OBVIOUS
  <2>. USE LoggedTrades
  <2>1. CASE \E e \in exits : ServeExit(e)
    <3>1. PICK e \in exits : ServeExit(e)
      BY <2>1
    <3>2. PICK t \in Trade : IsExitTrade(t, e)
      BY <3>1, ExitTrade
    <3>3. /\ Len(trades') = Len(trades) + 1
          /\ \A i \in 1 .. Len(trades) : trades'[i] = trades[i]
          /\ trades'[Len(trades) + 1] = t
      BY <3>2, LogAppend DEF IsExitTrade
    <3>4. mark' = mark /\ exits' \subseteq exits
      BY <3>1 DEF ServeExit
    <3>5. (\E x \in exits : x.drain) => t.drain
      BY <3>1, <3>2 DEF ServeExit, NextExits, IsExitTrade
    <3>. QED
      BY <3>3, <3>4, <3>5 DEF DrainsFirst
  <2>2. CASE \E sig \in entries : ServeEntry(sig)
    <3>1. exits' = {}
      BY <2>2 DEF ServeEntry, Control, Queues
    <3>. QED
      BY <3>1 DEF DrainsFirst
  <2>3. CASE BeginCycle \/ EndCycle
    <3>1. mark' = Len(trades) /\ trades' = trades
      BY <2>3 DEF BeginCycle, EndCycle, tracker
    <3>. QED
      BY <3>1 DEF DrainsFirst
  <2>4. CASE \/ \E e \in exits : SkipExit(e)
             \/ EndExits
             \/ \E sig \in entries : SkipEntry(sig)
             \/ UNCHANGED vars
    <3>1. mark' = mark /\ trades' = trades /\ exits' \subseteq exits
      BY <2>4 DEF SkipExit, EndExits, SkipEntry, vars, tracker, cycle
    <3>. QED
      BY <3>1 DEF DrainsFirst
  <2>. QED
    BY <2>1, <2>2, <2>3, <2>4 DEF Next, CycleStep
<1>3. DrainsFirst /\ [Next]_vars
        => [\A e \in exits :
              e.drain /\ e \notin exits' /\ e.netuid \in Holdings(positions')
                => \A i \in (mark + 1) .. Len(trades) :
                     trades[i].hotkey = positions[e.netuid].hotkey
                       => trades[i].drain]_vars
  BY DEF DrainsFirst
<1>. QED
  BY <1>1, <1>2, <1>3, ControlInvariant, PTL DEF Spec, DrainNotStarved

\* A trade that closes its subnet's open position, or opens one where there
\* is none, keeps the log in agreement with the positions.
LEMMA LogStep ==
  ASSUME Control, LogExplainsPositions,
         NEW t \in Trade, trades' = Append(trades, t),
         t.netuid \in Held <=> t.dir = "sell",
         t.netuid \in Held' <=> t.dir = "buy",
         \A n \in Netuids \ {t.netuid} : positions'[n] = positions[n],
         t.dir = "buy" =>
           positions'[t.netuid] = [alpha |-> t.alpha, invested |-> t.tao,
                                   hotkey |-> t.hotkey, block |-> t.block]
  PROVE  LogExplainsPositions'
<1>0. PICK L \in Nat : L = Len(trades)
  BY LoggedTrades
<1>1. /\ DOMAIN trades = 1 .. L
      /\ DOMAIN trades' = 1 .. (L + 1)
      /\ \A i \in 1 .. L : trades'[i] = trades[i]
      /\ trades'[L + 1] = t
  BY <1>0, LoggedTrades, LogAppend
<1>2. t.netuid \in Netuids /\ t.dir \in {"buy", "sell"}
  BY DEF Trade
<1>3. \A i \in 1 .. L : IsLastOn(i, t.netuid) =>
        (IF t.dir = "sell" THEN trades[i].dir = "buy" ELSE trades[i].dir = "sell")
  <2>. SUFFICES ASSUME NEW i \in 1 .. L, IsLastOn(i, t.netuid)
                PROVE  IF t.dir = "sell" THEN trades[i].dir = "buy"
                                         ELSE trades[i].dir = "sell"
    OBVIOUS
  <2>1. CASE t.dir = "sell"
    <3>1. PICK k \in 1 .. L : IsLastOn(k, t.netuid) /\ trades[k].dir = "buy"
      BY <1>1, <1>2, <2>1 DEF LogExplainsPositions
    <3>2. k = i
      BY <1>1, <3>1 DEF IsLastOn
    <3>. QED
      BY <2>1, <3>1, <3>2
  <2>2. CASE t.dir = "buy"
    BY <1>1, <1>2, <2>2 DEF LogExplainsPositions
  <2>. QED
    BY <1>2, <2>1, <2>2
<1>4. \A i, j \in DOMAIN trades' :
        /\ i < j
        /\ trades'[i].netuid = trades'[j].netuid
        /\ \A k \in (i + 1) .. (j - 1) : trades'[k].netuid # trades'[i].netuid
        => trades'[i].dir # trades'[j].dir
  <2>. SUFFICES ASSUME NEW i \in 1 .. (L + 1), NEW j \in 1 .. (L + 1), i < j,
                       trades'[i].netuid = trades'[j].netuid,
                       \A k \in (i + 1) .. (j - 1) :
                         trades'[k].netuid # trades'[i].netuid
                PROVE  trades'[i].dir # trades'[j].dir
    BY <1>1
  <2>1. i \in 1 .. L
    BY <1>1
  <2>2. CASE j \in 1 .. L
    <3>1. \A k \in (i + 1) .. (j - 1) : trades[k].netuid # trades[i].netuid
      BY <1>1, <2>1, <2>2
    <3>2. trades[i].netuid = trades[j].netuid
      BY <1>1, <2>1, <2>2
    <3>3. trades[i].dir # trades[j].dir
      BY <1>1, <2>1, <2>2, <3>1, <3>2 DEF LogExplainsPositions
    <3>. QED
      BY <1>1, <2>1, <2>2, <3>3
  <2>3. CASE j = L + 1
    <3>1. trades[i].netuid = t.netuid
      BY <1>1, <2>1, <2>3
    <3>2. \A k \in 1 .. L : k > i => trades[k].netuid # t.netuid
      BY <1>1, <2>1, <2>3, <3>1
    <3>3. IsLastOn(i, t.netuid)
      BY <1>1, <2>1, <3>1, <3>2 DEF IsLastOn
    <3>. QED
      BY <1>1, <1>2, <1>3, <2>1, <2>3, <3>3
  <2>. QED
    BY <1>1, <2>2, <2>3
<1>5. ASSUME NEW n \in Netuids
      PROVE  IF n \in Held'
             THEN \E i \in DOMAIN trades' :
                    /\ IsLastOn(i, n)'
                    /\ trades'[i].dir = "buy"
                    /\ positions'[n] = [alpha |-> trades'[i].alpha,
                                        invested |-> trades'[i].tao,
                                        hotkey |-> trades'[i].hotkey,
                                        block |-> trades'[i].block]
             ELSE \A i \in DOMAIN trades' : IsLastOn(i, n)' => trades'[i].dir = "sell"
  <2>1. CASE n = t.netuid
    <3>1. IsLastOn(L + 1, n)'
      BY <1>1, <2>1 DEF IsLastOn
    <3>2. \A i \in DOMAIN trades' : IsLastOn(i, n)' => i = L + 1
      BY <1>1, <2>1 DEF IsLastOn
    <3>3. CASE t.dir = "buy"
      BY <1>1, <2>1, <3>1, <3>3
    <3>4. CASE t.dir = "sell"
      BY <1>1, <2>1, <3>2, <3>4
    <3>. QED
      BY <1>2, <3>3, <3>4
  <2>2. CASE n # t.netuid
    <3>1. \A i \in DOMAIN trades' : IsLastOn(i, n)' <=> i \in 1 .. L /\ IsLastOn(i, n)
      BY <1>1, <2>2 DEF IsLastOn
    <3>2. positions'[n] = positions[n] /\ (n \in Held' <=> n \in Held)
      BY <2>2 DEF Held, Holdings
    <3>3. CASE n \in Held
      <4>1. PICK i \in 1 .. L :
              /\ IsLastOn(i, n)
              /\ trades[i].dir = "buy"
              /\ positions[n] = [alpha |-> trades[i].alpha,
                                 invested |-> trades[i].tao,
                                 hotkey |-> trades[i].hotkey,
                                 block |-> trades[i].block]
        BY <1>1, <3>3 DEF LogExplainsPositions
      <4>2. i \in DOMAIN trades' /\ trades'[i] = trades[i]
        BY <1>1
      <4>. QED
        BY <3>1, <3>2, <3>3, <4>1, <4>2
    <3>4. CASE n \notin Held
      <4>1. \A i \in 1 .. L : IsLastOn(i, n) => trades[i].dir = "sell"
        BY <1>1, <3>4 DEF LogExplainsPositions
      <4>. QED
        BY <1>1, <3>1, <3>2, <3>4, <4>1
    <3>. QED
      BY <3>3, <3>4
  <2>. QED
    BY <2>1, <2>2
<1>. QED
  BY <1>4, <1>5 DEF LogExplainsPositions

\* LogExplainsPositions: on every subnet buys and sells alternate, and the
\* open position is exactly its last buy; no position is overwritten, sold
\* twice or changed between.
THEOREM PositionsFollowLog == Spec => []LogExplainsPositions
<1>1. Init => LogExplainsPositions
  BY DEF Init, TrackerInit, LogExplainsPositions, Held, Holdings
<1>2. Control /\ LogExplainsPositions /\ [Next]_vars => LogExplainsPositions'
  <2>. SUFFICES ASSUME Control, LogExplainsPositions, [Next]_vars
                PROVE  LogExplainsPositions'
    OBVIOUS
  <2>1. CASE \E e \in exits : ServeExit(e)
    <3>1. PICK e \in exits : ServeExit(e)
      BY <2>1
    <3>2. PICK t \in Trade : IsExitTrade(t, e)
      BY <3>1, ExitTrade
    <3>3. /\ trades' = Append(trades, t) /\ t.dir = "sell" /\ t.netuid = e.netuid
          /\ positions' = [positions EXCEPT ![t.netuid] = NoPosition]
      BY <3>2 DEF IsExitTrade
    <3>4. t.netuid \in Held /\ t.netuid \notin Held'
      BY <3>1, <3>3, ServedExit DEF Held, Holdings, Control, CycleTypes
    <3>5. \A n \in Netuids \ {t.netuid} : positions'[n] = positions[n]
      BY <3>3 DEF Control, CycleTypes
    <3>. QED
      BY <3>3, <3>4, <3>5, LogStep
  <2>2. CASE \E sig \in entries : ServeEntry(sig)
    <3>1. PICK sig \in entries : ServeEntry(sig)
      BY <2>2
    <3>2. PICK t \in Trade : IsEntryTrade(t, sig)
      BY <3>1, EntryTrade
    <3>. DEFINE p == [alpha |-> t.alpha, invested |-> t.tao,
                      hotkey |-> t.hotkey, block |-> t.block]
    <3>3. /\ trades' = Append(trades, t) /\ t.dir = "buy" /\ t.netuid = sig.netuid
          /\ positions' = [positions EXCEPT ![t.netuid] = p]
      BY <3>2 DEF IsEntryTrade
    <3>4. t.netuid \in Netuids /\ t.netuid \notin Held
      BY <3>1, <3>3, ServeEntryEffect
    <3>5. p # NoPosition
      BY ConstantsAssumption DEF Trade
    <3>6. t.netuid \in Held' /\ positions'[t.netuid] = p
      BY <3>3, <3>4, <3>5 DEF Held, Holdings, Control, CycleTypes
    <3>7. \A n \in Netuids \ {t.netuid} : positions'[n] = positions[n]
      BY <3>3 DEF Control, CycleTypes
    <3>. QED
      BY <3>3, <3>4, <3>6, <3>7, LogStep
  <2>3. CASE UNCHANGED <<free, positions, cooldowns, trades>>
    BY <2>3 DEF LogExplainsPositions, IsLastOn, Held, Holdings
  <2>. QED
    BY <2>1, <2>2, <2>3, QuietStep
<1>. QED
  BY <1>1, <1>2, ControlInvariant, PTL DEF Spec

-------------------------------------------------------------------------------
(* The cycle implements the abstract portfolio.                            *)

\* Selling a position whose hotkey is rested closes it.
LEMMA SellCloses ==
  ASSUME CycleTypes, NEW n \in Held, snaps[n] # NoSnapshot,
         NEW drain \in BOOLEAN, Sell(n, snaps[n], drain),
         Rested(positions[n].hotkey, snaps[n].block)
  PROVE  n \in Netuids /\ Book!ClosePosition(n)
<1>. DEFINE h == positions[n].hotkey
            b == snaps[n].block
<1>1. /\ n \in Netuids /\ n \in Book!Open(positions)
      /\ h \in Hotkeys /\ b \in Nat
  BY SoldPosition DEF Held, Holdings, Book!Open
<1>2. /\ positions' = [positions EXCEPT ![n] = NoPosition]
      /\ cooldowns' = [cooldowns EXCEPT ![h] = b]
  BY SellEffect
<1>3. free' >= free
  BY SellTypes
<1>4. b >= cooldowns[h] + Cooldown
  BY DEF Rested
<1>5. cooldowns'[h] = b
  BY <1>1, <1>2 DEF CycleTypes
<1>. HIDE DEF h, b
<1>6. Book!UseHotkey(h, cooldowns'[h])
  BY <1>2, <1>4, <1>5 DEF Book!UseHotkey
<1>. QED
  BY <1>1, <1>2, <1>3, <1>6 DEF Book!ClosePosition, h

\* A served entry opens a position within the limits.
LEMMA EntryOpens ==
  ASSUME Control, PositionsBounded', NEW sig \in entries, ServeEntry(sig)
  PROVE  sig.netuid \in Netuids /\ Book!OpenPosition(sig.netuid)
<1>. DEFINE n == sig.netuid
            b == snaps[n].block
<1>1. n \in Netuids /\ n \notin Held /\ b \in Nat
  BY ServeEntryEffect
<1>2. PICK amount \in Nat, alpha \in Nat, h \in Hotkeys :
        /\ amount >= MinTrade
        /\ amount + ReserveTao <= free
        /\ Rested(h, b)
        /\ free' = free - amount
        /\ positions' = [positions EXCEPT ![n] =
             [alpha |-> alpha, invested |-> amount,
              hotkey |-> h, block |-> b]]
        /\ cooldowns' = [cooldowns EXCEPT ![h] = b]
  BY ServeEntryEffect
<1>. DEFINE p == [alpha |-> alpha, invested |-> amount,
                  hotkey |-> h, block |-> b]
<1>3. p \in Position /\ p # NoPosition
  BY <1>1, ConstantsAssumption DEF Position
<1>4. positions' = [positions EXCEPT ![n] = p] /\ positions'[n] = p
  BY <1>1, <1>2 DEF Control, CycleTypes
<1>5. n \notin Book!Open(positions) /\ n \in Book!Open(positions')
  BY <1>1, <1>3, <1>4 DEF Held, Holdings, Book!Open
<1>6. free' >= ReserveTao
  BY <1>2, ConstantsAssumption DEF Control, CycleTypes
<1>7. Book!Cardinality(Book!Open(positions')) <= MaxPositions
  BY DEF PositionsBounded, Held, Holdings, Book!Open, Cardinality, Book!Cardinality
<1>8. Book!UseHotkey(h, b)
  BY <1>2 DEF Book!UseHotkey, Rested
<1>9. p.invested = amount /\ p.hotkey = h /\ p.block = b
  OBVIOUS
<1>. HIDE DEF p, b, n
<1>10. positions'[n].invested = amount
       /\ positions'[n].hotkey = h /\ positions'[n].block = b
  BY <1>4, <1>9
<1>11. Book!UseHotkey(positions'[n].hotkey, positions'[n].block)
  BY <1>8, <1>10 DEF Book!UseHotkey
<1>12. /\ positions'[n].invested >= MinTrade
       /\ free' = free - positions'[n].invested
  BY <1>2, <1>10
<1>13. positions' = [positions EXCEPT ![n] = positions'[n]]
  BY <1>4
<1>. QED
  BY <1>1, <1>5, <1>6, <1>7, <1>11, <1>12, <1>13
     DEF Book!OpenPosition, Book!UseHotkey, n

\* Every step maps to a step of Portfolio or leaves its book alone.
LEMMA StepImplements ==
  ASSUME Control, PositionsBounded', [Next]_vars
  PROVE  Book!AccountNext \/ UNCHANGED <<free, positions, cooldowns>>
<1>1. CASE \E e \in exits : ServeExit(e)
  <2>1. PICK e \in exits : ServeExit(e)
    BY <1>1
  <2>2. Rested(positions[e.netuid].hotkey, snaps[e.netuid].block)
    BY <2>1 DEF ServeExit, MayExit
  <2>3. e.netuid \in Netuids /\ Book!ClosePosition(e.netuid)
    BY <2>1, <2>2, ServedExit, SellCloses DEF Control
  <2>. QED
    BY <2>3 DEF Book!AccountNext
<1>2. CASE \E sig \in entries : ServeEntry(sig)
  <2>1. \E sig \in entries : sig.netuid \in Netuids /\ Book!OpenPosition(sig.netuid)
    BY <1>2, EntryOpens
  <2>. QED
    BY <2>1 DEF Book!AccountNext
<1>3. CASE UNCHANGED <<free, positions, cooldowns, trades>>
  BY <1>3
<1>. QED
  BY <1>1, <1>2, <1>3, QuietStep

\* ImplementsPortfolio: every step opens one position within the limits,
\* closes one, or leaves the book alone.
THEOREM CycleImplementsPortfolio == Spec => ImplementsPortfolio
<1>1. Init => Book!AccountInit
  BY DEF Init, TrackerInit, Book!AccountInit, Hotkeys
<1>2. Control /\ LimitsKept' /\ [Next]_vars => [Book!AccountNext]_(Book!book)
  BY StepImplements DEF LimitsKept, Book!book
<1>. QED
  BY <1>1, <1>2, ControlInvariant, LimitsNeverBroken, PTL
     DEF Spec, ImplementsPortfolio, Book!AccountSpec
===============================================================================
