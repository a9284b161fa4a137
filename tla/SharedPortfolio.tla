----------------------------- MODULE SharedPortfolio -----------------------------
(***************************************************************************)
(* One portfolio and the two processes that may trade it: the runner of    *)
(* the server (server/main.py), which serves every active row whatever its *)
(* mode, and the live command (trading/cli.py), which the portfolio was    *)
(* promoted for.  Each keeps a tracker of its own, hydrated once from the  *)
(* rows, and writes it back after every cycle.  They share the SQLite      *)
(* file: its lock makes each transaction atomic and orders them, but a     *)
(* cycle ends in several, and nothing tells one process what the other     *)
(* wrote.                                                                  *)
(*                                                                         *)
(* Either tracker trades as Portfolio allows (PaperTrader and LiveTrader   *)
(* show that); here a trade is any such step.  Trade rows and the value    *)
(* history are only appended to and left out; interrupted cycles are       *)
(* PaperTrader's business.                                                 *)
(***************************************************************************)
EXTENDS Integers, FiniteSets

CONSTANTS
  Netuids, NumHotkeys, Initial, ReserveTao, MaxPositions, Cooldown, MinTrade,
  NoPosition,          \* as in Portfolio
  Blocks,              \* blocks the snapshots of a cycle may carry
  Proceeds,            \* what a sale may bring
  Interval,            \* paper_poll_interval_seconds, in ticks
  PaperTradingEnabled  \* the server's setting

Processes == {"server", "live"}
Hotkeys == 0 .. (NumHotkeys - 1)

VARIABLES
  rows,      \* positions and runtime fields of the portfolio in the file
  active,    \* its active flag
  age,       \* ticks since last_cycle_at, up to Interval
  free, positions, cooldowns,  \* the processes' trackers
  loaded,    \* the server has a trader in _paper_traders
  at,        \* where each process is
  nap        \* ticks the live loop still sleeps

trackers == <<free, positions, cooldowns>>
database == <<rows, active, age>>
sharedVars == <<database, trackers, loaded, at, nap>>

Tracker(p) ==
  INSTANCE Portfolio WITH
    free <- free[p], positions <- positions[p], cooldowns <- cooldowns[p]

NewRows ==
  [free |-> Initial, positions |-> [n \in Netuids |-> NoPosition],
   cooldowns |-> [h \in Hotkeys |-> 0]]

\* A portfolio that has had no cycle yet is due.
SharedInit ==
  /\ rows = NewRows
  /\ active = TRUE
  /\ age = Interval
  /\ free = [p \in Processes |-> rows.free]
  /\ positions = [p \in Processes |-> rows.positions]
  /\ cooldowns = [p \in Processes |-> rows.cooldowns]
  /\ loaded = FALSE
  /\ at = [server |-> "idle", live |-> "off"]
  /\ nap = 0

-------------------------------------------------------------------------------
\* hydrate_portfolio
Hydrate(p) ==
  /\ free' = [free EXCEPT ![p] = rows.free]
  /\ positions' = [positions EXCEPT ![p] = rows.positions]
  /\ cooldowns' = [cooldowns EXCEPT ![p] = rows.cooldowns]

Goes(p, place) == at' = [at EXCEPT ![p] = place]

\* _run_live: the row is promoted, the tracker hydrated, the loop begins.
Launch ==
  /\ at["live"] = "off"
  /\ Hydrate("live")
  /\ Goes("live", "ready")
  /\ nap' = 0
  /\ UNCHANGED <<database, loaded>>

\* The loop looks at the row, then runs a cycle.
LiveBegin ==
  /\ at["live"] \in {"ready", "asleep"}
  /\ nap = 0
  /\ active
  /\ Goes("live", "cycle")
  /\ UNCHANGED <<database, trackers, loaded, nap>>

\* Ctrl+C.
Stop ==
  /\ at["live"] \in {"ready", "asleep"}
  /\ Goes("live", "off")
  /\ UNCHANGED <<database, trackers, loaded, nap>>

\* The pass finds the row active and due; mode is not looked at.
Serve ==
  /\ PaperTradingEnabled
  /\ at["server"] = "idle"
  /\ active /\ age = Interval
  /\ IF loaded THEN UNCHANGED trackers ELSE Hydrate("server")
  /\ loaded' = TRUE
  /\ Goes("server", "cycle")
  /\ UNCHANGED <<database, nap>>

DropTrader ==
  /\ at["server"] = "idle"
  /\ ~active /\ loaded
  /\ loaded' = FALSE
  /\ UNCHANGED <<database, trackers, at, nap>>

\* Upstream stale: the cycle ends before it trades; the live loop sleeps.
SkipCycle(p) ==
  /\ at[p] = "cycle"
  /\ Goes(p, IF p = "live" THEN "ready" ELSE "idle")
  /\ nap' = IF p = "live" THEN Interval ELSE nap
  /\ UNCHANGED <<database, trackers, loaded>>

-------------------------------------------------------------------------------
(* A cycle trades within the limits of Portfolio.                          *)
BuyOn(p, n) ==
  \E amount \in MinTrade .. free[p], h \in Hotkeys, b \in Blocks :
    /\ positions[p][n] = NoPosition
    /\ free' = [free EXCEPT ![p] = @ - amount]
    /\ positions' = [positions EXCEPT ![p][n] =
                       [invested |-> amount, hotkey |-> h, block |-> b]]
    /\ cooldowns' = [cooldowns EXCEPT ![p][h] = b]
    /\ Tracker(p)!OpenPosition(n)

SellOn(p, n) ==
  \E tao \in Proceeds, b \in Blocks :
    /\ positions[p][n] # NoPosition
    /\ free' = [free EXCEPT ![p] = @ + tao]
    /\ positions' = [positions EXCEPT ![p][n] = NoPosition]
    /\ cooldowns' = [cooldowns EXCEPT ![p][positions[p][n].hotkey] = b]
    /\ Tracker(p)!ClosePosition(n)

Trade(p) ==
  /\ at[p] = "cycle"
  /\ \E n \in Netuids : BuyOn(p, n) \/ SellOn(p, n)
  /\ UNCHANGED <<database, loaded, at, nap>>

\* replace_paper_positions
WritePositions(p) ==
  /\ at[p] = "cycle"
  /\ rows' = [rows EXCEPT !.positions = positions[p]]
  /\ Goes(p, "runtime")
  /\ UNCHANGED <<active, age, trackers, loaded, nap>>

\* update_paper_portfolio_runtime, which also stamps last_cycle_at
WriteRuntime(p) ==
  /\ at[p] = "runtime"
  /\ rows' = [rows EXCEPT !.free = free[p], !.cooldowns = cooldowns[p]]
  /\ age' = 0
  /\ Goes(p, IF p = "live" THEN "asleep" ELSE "idle")
  /\ nap' = IF p = "live" THEN Interval ELSE nap
  /\ UNCHANGED <<active, trackers, loaded>>

Operate ==
  /\ active' = ~active
  /\ UNCHANGED <<rows, age, trackers, loaded, at, nap>>

Tick ==
  /\ age' = IF age < Interval THEN age + 1 ELSE age
  /\ nap' = IF nap > 0 THEN nap - 1 ELSE nap
  /\ UNCHANGED <<rows, active, trackers, loaded, at>>

SharedNext ==
  \/ Launch \/ LiveBegin \/ Stop
  \/ Serve \/ DropTrader
  \/ \E p \in Processes : SkipCycle(p) \/ Trade(p) \/ WritePositions(p) \/ WriteRuntime(p)
  \/ Operate \/ Tick

SharedSpec == SharedInit /\ [][SharedNext]_sharedVars

-------------------------------------------------------------------------------
\* "Stopping. Final state already persisted from last cycle.": while the live
\* loop sleeps after a cycle, the rows are its tracker, so that the next launch
\* goes on where this one stops.
RowsAreLive ==
  rows = [free |-> free["live"], positions |-> positions["live"],
          cooldowns |-> cooldowns["live"]]

FinalStatePersisted == at["live"] = "asleep" => RowsAreLive
================================================================================
