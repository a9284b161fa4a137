------------------------------ MODULE Backtester ------------------------------
(***************************************************************************)
(* Backtester.run (trading/backtester.py): one portfolio replayed over     *)
(* recorded histories.  A tick is one timestamp of the unified timeline; a *)
(* subnet without a sample at it shows its last one.  Ticks of the warm-up *)
(* and of another regime are passed over.  A traded tick serves the exit   *)
(* signals, then closes what was held too long, then serves the entry      *)
(* signals; after the last tick everything still open is closed.  Signals, *)
(* trades and the risk checks are those of TradingCycle.  Time is measured *)
(* in blocks.                                                              *)
(***************************************************************************)
EXTENDS TradingCycle

CONSTANTS
  Ticks,          \* timestamps of the longest replay
  Histories,      \* the histories a subnet may have in the database
  MinSnapshots,   \* config.min_snapshots
  MaxHold,        \* config.max_hold_hours, in blocks
  RegimeStart,    \* first block of the second regime
  AnyRegime       \* run() was called without a regime

Regimes == {"first", "second"}
RegimeOf(block) == IF block < RegimeStart THEN "first" ELSE "second"

SampledAt(h) == {t \in 1 .. Ticks : h[t] # NoSnapshot}

\* Samples are read in block order and carry the block of their tick.
ASSUME HistoriesAssumption ==
  /\ Ticks \in Nat /\ MinSnapshots \in Nat \ {0} /\ MaxHold \in Nat \ {0}
  /\ RegimeStart \in Nat
  /\ Histories \subseteq [1 .. Ticks -> Snapshots \cup {NoSnapshot}]
  /\ \A g, h \in Histories : \A t \in SampledAt(g), u \in SampledAt(h) :
       t < u => g[t].block < h[u].block

VARIABLES
  history,   \* all_snapshots after the filters
  regime,    \* the regime argument of run()
  tick,      \* tick_idx, from 1; 0 before the first
  holds,     \* held subnets whose maximum hold is still to be checked
  final      \* total_value_tao of the newest value_history entry

replay     == <<history, regime, tick, holds, final>>
replayVars == <<vars, replay>>

NoHistory == [t \in 1 .. Ticks |-> NoSnapshot]

(* The filters of run(): enough samples, and a last pool deep enough.      *)
PassesFilters(h) ==
  /\ Cardinality(SampledAt(h)) >= MinSnapshots
  /\ h[Max(SampledAt(h))].tao_in >= MinPoolDepth

(* Some subnet passes, or run() raises; the timeline has only sampled      *)
(* timestamps, at its front.                                               *)
ReplayInit ==
  /\ Init
  /\ history \in [Netuids -> {h \in Histories : PassesFilters(h)} \cup {NoHistory}]
  /\ \E n \in Netuids : history[n] # NoHistory
  /\ regime \in Regimes \cup {AnyRegime}
  /\ tick = 0
  /\ holds = {}
  /\ final = Initial

Timeline == UNION {SampledAt(history[n]) : n \in Netuids}

\* The snapshot each pointer has reached at tick t.
Current(t) ==
  [n \in Netuids |->
     LET past == {u \in SampledAt(history[n]) : u <= t}
     IN  IF past = {} THEN NoSnapshot ELSE history[n][Max(past)]]

\* next(iter(current_snaps.values())): the least netuid with a snapshot
\* decides whether the tick has the wanted regime.
InRegime(t) ==
  \/ regime = AnyRegime
  \/ RegimeOf(Current(t)[Min(Seen(Current(t)))].block) = regime

Later(t)  == {u \in Timeline : u > t}
Warm(t)   == Cardinality({u \in Timeline : u <= t}) > MinSnapshots

\* Faulty: a position held exactly the maximum stays.
OverdueOffByOne(n) == snaps[n].block - positions[n].block > MaxHold

\* RiskManager.check_exit.
Overdue(n) == snaps[n].block - positions[n].block >= MaxHold

\* positions is a dictionary: it is walked in the order of the buys.
BoughtAt(n) ==
  Max({i \in DOMAIN trades : trades[i].netuid = n /\ trades[i].dir = "buy"})
Oldest(ns) == {n \in ns : \A m \in ns : BoughtAt(n) <= BoughtAt(m)}

-------------------------------------------------------------------------------
WarmUp ==
  /\ phase = "idle" /\ Later(tick) # {}
  /\ tick' = Min(Later(tick))
  /\ ~Warm(tick')
  /\ UNCHANGED <<vars, history, regime, holds, final>>

\* Faulty: the value is not recorded.
RecordNothing(total) == UNCHANGED <<peak, final>>

\* What get_state leaves behind: a value_history entry and the peak.
RecordValue(total) ==
  /\ final' = total
  /\ peak' = Max({peak, total})

(* A tick of another regime only records the portfolio's value.            *)
PassOver ==
  /\ phase = "idle" /\ Later(tick) # {}
  /\ tick' = Min(Later(tick))
  /\ Warm(tick') /\ ~InRegime(tick')
  /\ RecordValue(TotalValue(free, positions, Current(tick')))
  /\ UNCHANGED <<free, positions, cooldowns, trades, cycle, history, regime, holds>>

BeginTick ==
  /\ phase = "idle" /\ Later(tick) # {}
  /\ tick' = Min(Later(tick))
  /\ Warm(tick') /\ InRegime(tick')
  /\ snaps' = Current(tick')
  /\ BeginCycle
  /\ UNCHANGED <<history, regime, holds, final>>

ServeSignal ==
  /\ \/ \E e \in exits : ServeExit(e) \/ SkipExit(e)
     \/ \E sig \in entries : ServeEntry(sig) \/ SkipEntry(sig)
  /\ UNCHANGED replay

(* The signals are served: go through a copy of the positions still open.  *)
BeginHolds ==
  /\ phase = "exits" /\ exits = {}
  /\ phase' = "holds"
  /\ holds' = Held
  /\ UNCHANGED <<tracker, snaps, exits, entries, mark, state,
                 history, regime, tick, final>>

\* Faulty: the hotkey's cooldown is ignored.
MustExitAnyway(n) == n \in Seen(snaps) /\ Overdue(n)

\* A forced exit needs a snapshot and respects the cooldown of the position's
\* hotkey too.
MustExit(n) == n \in Seen(snaps) /\ Overdue(n) /\ MayExit(n)

CloseOverdue(n) ==
  /\ phase = "holds" /\ n \in Oldest(holds)
  /\ MustExit(n)
  /\ Sell(n, snaps[n], FALSE)
  /\ holds' = holds \ {n}
  /\ UNCHANGED <<peak, cycle, history, regime, tick, final>>

KeepHolding(n) ==
  /\ phase = "holds" /\ n \in Oldest(holds)
  /\ ~MustExit(n)
  /\ holds' = holds \ {n}
  /\ UNCHANGED <<vars, history, regime, tick, final>>

EndHolds ==
  /\ phase = "holds" /\ holds = {}
  /\ TakeState(free, positions, snaps)
  /\ phase' = "entries"
  /\ UNCHANGED <<free, positions, cooldowns, trades, snaps, exits, entries,
                 mark, replay>>

(* The last get_state of a tick finds what the entry loop left.            *)
EndTick ==
  /\ EndCycle
  /\ final' = state.total
  /\ UNCHANGED <<history, regime, tick, holds>>

(* The timeline is over: every position is sold at its subnet's last       *)
(* sample, whatever its hotkey's cooldown.                                 *)
BeginClose ==
  /\ phase = "idle" /\ Later(tick) = {} /\ Held # {}
  /\ phase' = "closing"
  /\ snaps' = Current(Ticks)
  /\ UNCHANGED <<tracker, exits, entries, mark, state, replay>>

ForceClose(n) ==
  /\ phase = "closing" /\ n \in Oldest(Held)
  /\ Sell(n, snaps[n], FALSE)
  /\ UNCHANGED <<peak, cycle, replay>>

Finish ==
  /\ \/ /\ phase = "idle" /\ Later(tick) = {} /\ Held = {}
        /\ UNCHANGED <<peak, final>>
     \/ /\ phase = "closing" /\ Held = {}
        /\ RecordValue(TotalValue(free, positions, snaps))
  /\ phase' = "done"
  /\ snaps' = NoSnaps
  /\ UNCHANGED <<free, positions, cooldowns, trades, exits, entries, mark, state,
                 history, regime, tick, holds>>

Finished == phase = "done" /\ UNCHANGED replayVars

ReplayStep ==
  \/ WarmUp \/ PassOver \/ BeginTick \/ ServeSignal
  \/ BeginHolds \/ EndHolds \/ EndTick
  \/ \E n \in holds : CloseOverdue(n) \/ KeepHolding(n)
  \/ BeginClose \/ Finish
  \/ \E n \in Held : ForceClose(n)

ReplayNext == ReplayStep \/ Finished

ReplaySpec == ReplayInit /\ [][ReplayNext]_replayVars

-------------------------------------------------------------------------------
(* Properties.                                                             *)

\* "sells before buys per timestep", one position at a time, one hotkey per
\* cooldown, within reserve and position limit: until the forced close, which
\* asks no hotkey, a replay changes its book only as Portfolio allows, and
\* neither a signal nor the holding limit sells anything at a tick that has
\* bought already.
NothingBought == \A i \in (mark + 1) .. Len(trades) : trades[i].dir = "sell"

Sold == Holdings(positions') \subseteq Held /\ Holdings(positions') # Held

ReplayKeepsPortfolio ==
  [][phase # "closing" =>
       /\ Book!AccountNext \/ UNCHANGED <<free, positions, cooldowns>>
       /\ Sold => NothingBought
    ]_replayVars

\* No position outlives max_hold_hours for want of a signal: when the entries
\* of a tick are served, what is overdue has a hotkey that was used less than
\* a cooldown before its subnet's snapshot.
HoldsBounded ==
  phase = "entries" =>
    \A n \in Held \cap Seen(snaps) :
      snaps[n].block >= positions[n].block + MaxHold
        => ~Rested(positions[n].hotkey, snaps[n].block)

\* A replay reports what it realised: at the end nothing is open, and the
\* final value is the cash in hand, the initial capital plus the profit and
\* loss of the sales.
ReplayEndsFlat ==
  phase = "done" =>
    /\ Held = {}
    /\ final = free
    /\ final = Initial + Realised(trades)
===============================================================================
