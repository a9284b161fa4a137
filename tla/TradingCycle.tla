----------------------------- MODULE TradingCycle -----------------------------
(***************************************************************************)
(* One paper portfolio in memory: PortfolioTracker (trading/portfolio.py), *)
(* RiskManager.check_entry (trading/risk.py) and the part of               *)
(* PaperTrader.run_once (trading/paper_trader.py) that decides and         *)
(* executes trades.  A cycle takes the newest snapshot of every subnet,    *)
(* lets the strategies emit signals against the positions held at that     *)
(* moment, serves the exit signals (drain exits first), then the entry     *)
(* signals by falling strength.  What a strategy signals is not computed   *)
(* here: any set of signals the collection loop could build may arrive.    *)
(***************************************************************************)
EXTENDS Amm, FiniteSetsExt, Sequences

CONSTANTS
  Netuids,        \* subnets the upstream feed may report
  NumHotkeys,     \* config.num_hotkeys
  Initial,        \* config.initial_capital_tao
  ReserveTao,     \* initial_capital_tao * reserve_pct
  MaxPositions,   \* config.max_positions
  Cooldown,       \* config.blocks_per_cooldown
  MinTrade,       \* config.min_trade_tao
  MinPoolDepth,   \* config.min_pool_depth_tao
  PoolPct,        \* config.max_position_pct_of_pool
  SinglePct,      \* config.max_single_position_pct
  SlippagePct,    \* config.max_slippage_pct
  Strengths,      \* signal strengths, in hundredths
  Snapshots,      \* the [block, tao_in, alpha_in] a cycle may see
  NoSnapshot,     \* a subnet missing from current_snaps
  NoPosition      \* a subnet missing from positions

Hotkeys == 0 .. (NumHotkeys - 1)

ASSUME ConstantsAssumption ==
  /\ IsFiniteSet(Netuids)
  /\ NumHotkeys \in Nat
  /\ Initial \in Nat
  /\ ReserveTao \in 0 .. Initial
  /\ MaxPositions \in Nat
  /\ Cooldown \in Nat
  /\ MinTrade \in Nat \ {0}
  /\ MinPoolDepth \in Nat
  /\ {PoolPct, SinglePct, SlippagePct} \subseteq Nat
  /\ Strengths \subseteq 1 .. 100
  /\ Snapshots \subseteq [block : Nat, tao_in : Nat, alpha_in : Nat]
  /\ NoSnapshot \notin Snapshots
  /\ NoPosition \notin [alpha : Nat, invested : Nat, hotkey : Hotkeys, block : Nat]

VARIABLES
  free,        \* PortfolioTracker.free_tao
  positions,   \* PortfolioTracker.positions
  cooldowns,   \* PortfolioTracker.hotkey_cooldowns: last block used
  peak,        \* PortfolioTracker.peak_value
  trades,      \* PortfolioTracker.trades, oldest first
  phase,       \* where run_once is
  snaps,       \* current_snaps of the cycle
  exits,       \* exit signals not yet served
  entries,     \* entry signals not yet served
  mark,        \* Len(trades) when the cycle began
  state        \* the PortfolioState the entry loop sizes against

tracker == <<free, positions, cooldowns, peak, trades>>
cycle   == <<phase, snaps, exits, entries, mark, state>>
vars    == <<tracker, cycle>>

Position   == [alpha : Nat, invested : Nat, hotkey : Hotkeys, block : Nat]
Trade      == [dir : {"buy", "sell"}, netuid : Netuids, tao : Nat, alpha : Nat,
               hotkey : Hotkeys, block : Nat, pnl : Int, drain : BOOLEAN]
ExitSignal  == [netuid : Netuids, drain : BOOLEAN]
EntrySignal == [netuid : Netuids, strength : Strengths]

Holdings(pos) == {n \in Netuids : pos[n] # NoPosition}
Held == Holdings(positions)

\* What the open positions cost, and what the trades of a log realised.
Cost(pos) == SumFunction([n \in Holdings(pos) |-> pos[n].invested])
Realised(log) == SumFunction([i \in DOMAIN log |-> log[i].pnl])

Seen(s) == {n \in Netuids : s[n] # NoSnapshot}

\* run_once's list of trades to persist: what this cycle appended to the log.
Executed == SubSeq(trades, mark + 1, Len(trades))

(* PortfolioTracker.get_state: a position whose pool cannot be priced      *)
(* counts at what was paid for it.                                         *)
PositionValue(p, s) ==
  IF s # NoSnapshot /\ LivePool(s.tao_in, s.alpha_in)
  THEN SellTao(p.alpha, s.tao_in, s.alpha_in)
  ELSE p.invested

TotalValue(f, pos, s) ==
  f + SumFunction([n \in Holdings(pos) |-> PositionValue(pos[n], s[n])])

StateOf(f, pos, s) ==
  [free |-> f, held |-> Holdings(pos), total |-> TotalValue(f, pos, s)]

\* Faulty: the held subnets are not taken anew.
TakeStateStaleHeld(f, pos, s) ==
  /\ state' = [StateOf(f, pos, s) EXCEPT !.held = state.held]
  /\ UNCHANGED peak

\* get_state also raises the running peak.
TakeState(f, pos, s) ==
  /\ state' = StateOf(f, pos, s)
  /\ peak' = IF TotalValue(f, pos, s) > peak THEN TotalValue(f, pos, s) ELSE peak

NoState == [free |-> 0, held |-> {}, total |-> 0]
NoSnaps == [n \in Netuids |-> NoSnapshot]

(***************************************************************************)
(* Risk: RiskManager.check_entry.  The base amount is the least of five    *)
(* caps; the signal's strength then scales it.                             *)
(***************************************************************************)
\* Faulty: the reserve is not set aside.
FreeWithoutReserve == state.free

FreeAfterReserve ==
  IF state.free > ReserveTao THEN state.free - ReserveTao ELSE 0

EntryCaps(snap) ==
  {FreeAfterReserve \div Max({MaxPositions - Cardinality(state.held), 1}),
   Percent(PoolPct, snap.tao_in),
   Percent(SinglePct, state.total),
   MaxTaoForSlippage(SlippagePct, snap.tao_in, snap.alpha_in),
   FreeAfterReserve}

\* Faulty: one position too many.
MayEnterOffByOne(n, snap) ==
  /\ n \notin state.held
  /\ Cardinality(state.held) <= MaxPositions
  /\ LivePool(snap.tao_in, snap.alpha_in)
  /\ snap.tao_in >= MinPoolDepth

MayEnter(n, snap) ==
  /\ n \notin state.held
  /\ Cardinality(state.held) < MaxPositions
  /\ LivePool(snap.tao_in, snap.alpha_in)
  /\ snap.tao_in >= MinPoolDepth

\* check_entry accepts the signal with this amount.
Accepts(sig, snap, amount) ==
  /\ MayEnter(sig.netuid, snap)
  /\ \E base \in 0 .. FreeAfterReserve :
       /\ base \in EntryCaps(snap)
       /\ \A cap \in EntryCaps(snap) : base <= cap
       /\ amount = Percent(sig.strength, base)
  /\ amount >= MinTrade

\* Faulty: only a hotkey used at a later block counts as cooling down.
RestedNoCooldown(h, block) == block >= cooldowns[h]

(* The first hotkey in dictionary order whose cooldown has passed.         *)
Rested(h, block) == block >= cooldowns[h] + Cooldown
FirstAvailable(h, block) ==
  /\ Rested(h, block)
  /\ \A g \in Hotkeys : g < h => ~Rested(g, block)

(***************************************************************************)
(* Trade execution: what PortfolioTracker.execute_buy and execute_sell do  *)
(* once their checks have passed.  A trade record keeps of its strategy    *)
(* only whether it was a drain exit.                                       *)
(***************************************************************************)
CanBuy(amount, snap) ==
  /\ amount > 0 /\ amount <= free
  /\ BuyAlpha(amount, snap.tao_in, snap.alpha_in) > 0

\* Faulty: the subnet is marked as used, not the hotkey.
BuyMarksSubnet(n, amount, snap, h) ==
  LET alpha == BuyAlpha(amount, snap.tao_in, snap.alpha_in)
  IN  /\ free' = free - amount
      /\ positions' = [positions EXCEPT ![n] =
                         [alpha |-> alpha, invested |-> amount,
                          hotkey |-> h, block |-> snap.block]]
      /\ cooldowns' = [k \in Hotkeys \cup {n} |->
                         IF k = n THEN snap.block ELSE cooldowns[k]]
      /\ UNCHANGED trades

\* Faulty: the hotkey is not marked as used.
BuyUnmarked(n, amount, snap, h) ==
  LET alpha == BuyAlpha(amount, snap.tao_in, snap.alpha_in)
  IN  /\ free' = free - amount
      /\ positions' = [positions EXCEPT ![n] =
                         [alpha |-> alpha, invested |-> amount,
                          hotkey |-> h, block |-> snap.block]]
      /\ UNCHANGED <<cooldowns, trades>>

Buy(n, amount, snap, h) ==
  LET alpha == BuyAlpha(amount, snap.tao_in, snap.alpha_in)
  IN  /\ free' = free - amount
      /\ positions' = [positions EXCEPT ![n] =
                         [alpha |-> alpha, invested |-> amount,
                          hotkey |-> h, block |-> snap.block]]
      /\ trades' = Append(trades,
                      [dir |-> "buy", netuid |-> n, tao |-> amount,
                       alpha |-> alpha, hotkey |-> h, block |-> snap.block,
                       pnl |-> 0, drain |-> FALSE])
      /\ cooldowns' = [cooldowns EXCEPT ![h] = snap.block]

\* Faulty: the position is kept.
SellKeepsPosition(n, snap, drain) ==
  LET p   == positions[n]
      tao == SellTao(p.alpha, snap.tao_in, snap.alpha_in)
  IN  /\ free' = free + tao
      /\ trades' = Append(trades,
                      [dir |-> "sell", netuid |-> n, tao |-> tao,
                       alpha |-> p.alpha, hotkey |-> p.hotkey,
                       block |-> snap.block,
                       pnl |-> tao - p.invested, drain |-> drain])
      /\ cooldowns' = [cooldowns EXCEPT ![p.hotkey] = snap.block]
      /\ UNCHANGED positions

\* Faulty: the profit ignores what the position cost.
SellGrossProfit(n, snap, drain) ==
  LET p   == positions[n]
      tao == SellTao(p.alpha, snap.tao_in, snap.alpha_in)
  IN  /\ free' = free + tao
      /\ positions' = [positions EXCEPT ![n] = NoPosition]
      /\ trades' = Append(trades,
                      [dir |-> "sell", netuid |-> n, tao |-> tao,
                       alpha |-> p.alpha, hotkey |-> p.hotkey,
                       block |-> snap.block, pnl |-> tao, drain |-> drain])
      /\ cooldowns' = [cooldowns EXCEPT ![p.hotkey] = snap.block]

Sell(n, snap, drain) ==
  LET p   == positions[n]
      tao == SellTao(p.alpha, snap.tao_in, snap.alpha_in)
  IN  /\ free' = free + tao
      /\ positions' = [positions EXCEPT ![n] = NoPosition]
      /\ trades' = Append(trades,
                      [dir |-> "sell", netuid |-> n, tao |-> tao,
                       alpha |-> p.alpha, hotkey |-> p.hotkey,
                       block |-> snap.block,
                       pnl |-> tao - p.invested, drain |-> drain])
      /\ cooldowns' = [cooldowns EXCEPT ![p.hotkey] = snap.block]

TrackerInit ==
  /\ free = Initial
  /\ positions = [n \in Netuids |-> NoPosition]
  /\ cooldowns = [h \in Hotkeys |-> 0]
  /\ peak = Initial
  /\ trades = <<>>

NoCycle ==
  /\ phase = "idle"
  /\ snaps = NoSnaps
  /\ exits = {}
  /\ entries = {}
  /\ mark = Len(trades)
  /\ state = NoState

Init == TrackerInit /\ NoCycle

(* Load the history and collect signals: a subnet with a position is asked *)
(* for exits, any other for entries, and only a subnet with a snapshot is  *)
(* asked at all.  Several strategies may signal the same subnet.           *)
BeginCycle ==
  /\ phase = "idle"
  /\ \E s \in [Netuids -> Snapshots \cup {NoSnapshot}] :
       /\ Seen(s) # {}
       /\ snaps' = s
       /\ exits' \in SUBSET [netuid : Held \cap Seen(s), drain : BOOLEAN]
       /\ entries' \in SUBSET [netuid : Seen(s) \ Held, strength : Strengths]
  /\ mark' = Len(trades)
  /\ phase' = "exits"
  /\ UNCHANGED <<tracker, state>>

\* Faulty: the exit list is not sorted.
NextExitsUnsorted == exits

\* The exit signals the sorted list may have at its head.
NextExits ==
  {e \in exits : e.drain \/ \A other \in exits : ~other.drain}

\* The position is still there and its hotkey is rested at this block.
MayExit(n) ==
  n \in Held /\ Rested(positions[n].hotkey, snaps[n].block)

ServeExit(e) ==
  /\ phase = "exits"
  /\ e \in NextExits
  /\ MayExit(e.netuid)
  /\ Sell(e.netuid, snaps[e.netuid], e.drain)
  /\ exits' = exits \ {e}
  /\ UNCHANGED <<peak, phase, snaps, entries, mark, state>>

SkipExit(e) ==
  /\ phase = "exits"
  /\ e \in NextExits
  /\ ~MayExit(e.netuid)
  /\ exits' = exits \ {e}
  /\ UNCHANGED <<tracker, phase, snaps, entries, mark, state>>

EndExits ==
  /\ phase = "exits"
  /\ exits = {}
  /\ TakeState(free, positions, snaps)
  /\ phase' = "entries"
  /\ UNCHANGED <<free, positions, cooldowns, trades, snaps, exits, entries, mark>>

\* The entry signals the list sorted by falling strength may have at its head.
NextEntries ==
  {e \in entries : \A other \in entries : other.strength <= e.strength}

\* This signal buys: check_entry accepts it, a hotkey is rested and
\* execute_buy does not refuse.
Buys(sig, amount, h) ==
  LET snap == snaps[sig.netuid]
  IN  /\ Accepts(sig, snap, amount)
      /\ FirstAvailable(h, snap.block)
      /\ CanBuy(amount, snap)

ServeEntry(sig) ==
  /\ phase = "entries"
  /\ sig \in NextEntries
  /\ \E amount \in MinTrade .. free, h \in Hotkeys :
       /\ Buys(sig, amount, h)
       /\ Buy(sig.netuid, amount, snaps[sig.netuid], h)
  /\ TakeState(free', positions', snaps)
  /\ entries' = entries \ {sig}
  /\ UNCHANGED <<phase, snaps, exits, mark>>

SkipEntry(sig) ==
  /\ phase = "entries"
  /\ sig \in NextEntries
  /\ \A amount \in MinTrade .. free, h \in Hotkeys : ~Buys(sig, amount, h)
  /\ entries' = entries \ {sig}
  /\ UNCHANGED <<tracker, phase, snaps, exits, mark, state>>

(* The decisions are over; PaperTrader goes on to persist them.            *)
EndCycle ==
  /\ phase = "entries"
  /\ entries = {}
  /\ phase' = "idle"
  /\ snaps' = NoSnaps
  /\ mark' = Len(trades)
  /\ state' = NoState
  /\ UNCHANGED <<tracker, exits, entries>>

CycleStep ==
  \/ BeginCycle
  \/ \E e \in exits : ServeExit(e) \/ SkipExit(e)
  \/ EndExits
  \/ \E sig \in entries : ServeEntry(sig) \/ SkipEntry(sig)

Next == CycleStep \/ EndCycle

Spec == Init /\ [][Next]_vars

-------------------------------------------------------------------------------
(* Properties.                                                             *)

\* Types of everything but the phase, which modules that embed the cycle
\* extend with phases of their own.
CycleTypes ==
  /\ free \in Nat
  /\ positions \in [Netuids -> Position \cup {NoPosition}]
  /\ cooldowns \in [Hotkeys -> Nat]
  /\ trades \in Seq(Trade)
  /\ snaps \in [Netuids -> Snapshots \cup {NoSnapshot}]
  /\ exits \subseteq ExitSignal
  /\ entries \subseteq EntrySignal
  /\ mark \in 0 .. Len(trades)
  /\ state.free \in Nat
  /\ state.held \subseteq Netuids

TypeOK == CycleTypes /\ phase \in {"idle", "exits", "entries"}

\* However many entries one cycle serves, each sized against the state the one
\* before left: the free TAO stays at or above reserve_pct of the initial
\* capital, and no more than max_positions subnets are held.
ReserveIntact == free >= ReserveTao
PositionsBounded == Cardinality(Held) <= MaxPositions
LimitsKept == ReserveIntact /\ PositionsBounded

\* One hotkey, one trade per cooldown: any two trades of the log that used
\* the same hotkey are at least blocks_per_cooldown blocks apart, over all
\* cycles, whatever blocks the subnets' snapshots carry.
HotkeySpacing ==
  \A i, j \in DOMAIN trades :
    i < j /\ trades[i].hotkey = trades[j].hotkey
      => trades[j].block >= trades[i].block + Cooldown

\* No position is ever overwritten or sold twice: on each subnet the log
\* starts with a buy and alternates, and the open position is exactly what
\* the subnet's last buy bought.
IsLastOn(i, n) ==
  /\ i \in DOMAIN trades
  /\ trades[i].netuid = n
  /\ \A j \in DOMAIN trades : j > i => trades[j].netuid # n

LogExplainsPositions ==
  /\ \A i, j \in DOMAIN trades :
       /\ i < j
       /\ trades[i].netuid = trades[j].netuid
       /\ \A k \in (i + 1) .. (j - 1) : trades[k].netuid # trades[i].netuid
       => trades[i].dir # trades[j].dir
  /\ \A n \in Netuids :
       IF n \in Held
       THEN \E i \in DOMAIN trades :
              /\ IsLastOn(i, n)
              /\ trades[i].dir = "buy"
              /\ positions[n] = [alpha |-> trades[i].alpha,
                                 invested |-> trades[i].tao,
                                 hotkey |-> trades[i].hotkey,
                                 block |-> trades[i].block]
       ELSE \A i \in DOMAIN trades : IsLastOn(i, n) => trades[i].dir = "sell"

\* A subnet trades at most once in a cycle: what was sold is not bought back
\* on the same snapshot, and two strategies signalling the same entry buy it
\* once.
OneTradePerSubnet ==
  \A i, j \in (mark + 1) .. Len(trades) :
    i # j => trades[i].netuid # trades[j].netuid

\* Capital is conserved: free TAO plus what the open positions cost equals
\* the initial capital plus the profit and loss of the closed ones.
EquityConserved == free + Cost(positions) = Initial + Realised(trades)

\* Seen from outside, a cycle only opens and closes single positions within
\* the limits Portfolio states: RiskManager's stale-able PortfolioState, the
\* signal queues and the hotkey search together implement them.
Book == INSTANCE Portfolio
ImplementsPortfolio == Book!AccountSpec

\* "drain_exit ahead of others": when a drain exit must be skipped because
\* its position's hotkey is cooling down, no ordinary exit of the same cycle
\* has used up that hotkey.
DrainNotStarved ==
  [][\A e \in exits :
       e.drain /\ e \notin exits' /\ e.netuid \in Holdings(positions')
         => \A i \in (mark + 1) .. Len(trades) :
              trades[i].hotkey = positions[e.netuid].hotkey => trades[i].drain
    ]_vars
==============================================================================
