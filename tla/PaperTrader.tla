------------------------------ MODULE PaperTrader ------------------------------
(***************************************************************************)
(* One portfolio of the server: the runner loop (server/main.py) around    *)
(* the trading cycle, the persistence steps of PaperTrader.run_once, the   *)
(* database they write (server/database.py), pause and resume through the  *)
(* API, and the faults the code handles: a cycle that times out or raises, *)
(* a failing handler, and a crash of the process.                          *)
(*                                                                         *)
(* The decision part of a cycle has no suspension point, so nothing else   *)
(* runs between its steps.  The persistence part suspends at every         *)
(* statement.  All coroutines share one SQLite connection: what a          *)
(* statement wrote is visible to every reader at once (conn) and becomes   *)
(* durable (disk) at the next commit, whoever issues it.                   *)
(***************************************************************************)
EXTENDS TradingCycle

CONSTANTS
  MaxFaults,     \* bound on crashes and interrupts together
  NoRow          \* no value-history row yet

ASSUME FaultsAssumption == MaxFaults \in Nat

VARIABLES
  conn,     \* the database as the connection sees it
  disk,     \* the database as committed
  alive,    \* _paper_traders holds this portfolio's trader
  runner,   \* "idle", "due", "cycle", "persist" or "handler"
  todo,     \* statements still to run, each <<op, argument>>
  locked,   \* _write_lock is held across a suspension
  crashes,  \* deaths of the process while a cycle wrote
  interrupts, \* writes that timed out or raised
  before    \* history: free TAO and positions when the last cycle began

dbVars    == <<conn, disk>>
procVars  == <<alive, runner, todo, locked>>
faultVars == <<crashes, interrupts>>
allVars   == <<vars, dbVars, procVars, faultVars, before>>

Empty == [n \in Netuids |-> NoPosition]

\* create_paper_portfolio's row; the cooldowns start out NULL, which
\* hydration reads as a fresh tracker's.
NewRow ==
  [free |-> Initial, positions |-> Empty,
   cooldowns |-> [h \in Hotkeys |-> 0], peak |-> Initial,
   trades |-> <<>>, history |-> NoRow, active |-> TRUE]

PTInit ==
  /\ Init
  /\ conn = NewRow
  /\ disk = NewRow
  /\ alive = FALSE
  /\ runner = "idle"
  /\ todo = <<>>
  /\ locked = FALSE
  /\ crashes = 0 /\ interrupts = 0
  /\ before = [free |-> Initial, positions |-> Empty]

-------------------------------------------------------------------------------
(* The statements.                                                         *)

CommitStmt == <<"commit", "none">>

\* insert_paper_trade for every executed trade, each with its commit.
TradeCalls ==
  [i \in 1 .. 2 * Len(Executed) |->
     IF i % 2 = 1 THEN <<"trade", Executed[(i + 1) \div 2]>> ELSE CommitStmt]

\* The rows of replace_paper_positions; they are inserted in the order of
\* the dictionary, which depends on every buy and sell so far.
RowOrders ==
  {rows \in [1 .. Cardinality(Held) -> {<<"position", n>> : n \in Held}] :
     \A n \in Held : \E i \in DOMAIN rows : rows[i] = <<"position", n>>}

\* Faulty: old rows stay.
PersistWithoutClear(rows) ==
  TradeCalls \o rows
  \o <<CommitStmt, <<"history", state>>, CommitStmt, <<"runtime", "none">>, CommitStmt>>

\* Faulty: positions before trades.
PersistPositionsFirst(rows) ==
  <<<<"clear", "none">>>> \o rows \o <<CommitStmt>> \o TradeCalls
  \o <<<<"history", state>>, CommitStmt, <<"runtime", "none">>, CommitStmt>>

\* The four calls run_once ends with, each a statement or more and a commit.
PersistCalls(rows) ==
  TradeCalls \o <<<<"clear", "none">>>> \o rows
  \o <<CommitStmt, <<"history", state>>, CommitStmt, <<"runtime", "none">>, CommitStmt>>

\* Both handlers of an interrupted cycle write the runtime row only.
HandlerCalls == <<<<"runtime", "none">>, CommitStmt>>

\* Faulty: the runtime row forgets the peak.
UpdateRuntimeNoPeak(db) == [db EXCEPT !.free = free, !.cooldowns = cooldowns]

\* update_paper_portfolio_runtime; values come from the tracker.
UpdateRuntime(db) == [db EXCEPT !.free = free, !.peak = peak, !.cooldowns = cooldowns]

\* insert_paper_value_history
InsertValue(db, taken) == [db EXCEPT !.history = [free |-> taken.free, open |-> taken.held]]

\* What a statement does to the rows.
Exec(db, stmt) ==
  LET op == stmt[1] arg == stmt[2]
  IN  CASE op = "trade"    -> [db EXCEPT !.trades = Append(@, arg)]
        [] op = "clear"    -> [db EXCEPT !.positions = Empty]
        [] op = "position" -> [db EXCEPT !.positions[arg] = positions[arg]]
        [] op = "history"  -> InsertValue(db, arg)
        [] op = "runtime"  -> UpdateRuntime(db)

-------------------------------------------------------------------------------
(* The runner loop.                                                        *)

\* Faulty: the stored cooldowns are not read.
RememberNoCooldowns(db) ==
  /\ free' = db.free /\ positions' = db.positions /\ peak' = db.peak
  /\ cooldowns' = [h \in Hotkeys |-> 0]
  /\ trades' = <<>> /\ mark' = 0

\* Faulty: a row without cooldowns leaves a tracker without hotkeys.
RememberNoHotkeys(db) ==
  /\ free' = db.free /\ positions' = db.positions /\ peak' = db.peak
  /\ cooldowns' = [h \in {} |-> 0]
  /\ trades' = <<>> /\ mark' = 0

\* hydrate_portfolio
Remember(db) ==
  /\ free' = db.free
  /\ positions' = db.positions
  /\ cooldowns' = db.cooldowns
  /\ peak' = db.peak
  /\ trades' = <<>>
  /\ mark' = 0

Forget ==
  /\ free' = 0
  /\ positions' = Empty
  /\ cooldowns' = [h \in Hotkeys |-> 0]
  /\ peak' = 0
  /\ trades' = <<>>
  /\ mark' = 0

CycleUnchanged == UNCHANGED <<phase, snaps, exits, entries, state>>

\* The portfolio is listed as active and due; a trader is hydrated unless
\* the process still has one.
Schedule ==
  /\ runner = "idle"
  /\ conn.active
  /\ IF alive THEN UNCHANGED <<tracker, mark>> ELSE Remember(conn)
  /\ alive' = TRUE
  /\ runner' = "due"
  /\ UNCHANGED <<dbVars, todo, locked, faultVars, before>>
  /\ CycleUnchanged

\* The portfolio is not listed, so its trader is dropped.
DropTrader ==
  /\ runner = "idle"
  /\ ~conn.active
  /\ alive
  /\ Forget
  /\ alive' = FALSE
  /\ UNCHANGED <<dbVars, runner, todo, locked, faultVars, before>>
  /\ CycleUnchanged

\* Upstream stale or no history yet: run_once returns at once.
SkipCycle ==
  /\ runner = "due"
  /\ runner' = "idle"
  /\ UNCHANGED <<vars, dbVars, alive, todo, locked, faultVars, before>>

StartCycle ==
  /\ runner = "due"
  /\ BeginCycle
  /\ runner' = "cycle"
  /\ before' = [free |-> free, positions |-> positions]
  /\ UNCHANGED <<dbVars, alive, todo, locked, faultVars>>

Decide ==
  /\ runner = "cycle"
  /\ \/ \E e \in exits : ServeExit(e) \/ SkipExit(e)
     \/ EndExits
     \/ \E sig \in entries : ServeEntry(sig) \/ SkipEntry(sig)
  /\ UNCHANGED <<dbVars, procVars, faultVars, before>>

StartPersist ==
  /\ runner = "cycle"
  /\ EndCycle
  /\ \E rows \in RowOrders : todo' = PersistCalls(rows)
  /\ runner' = "persist"
  /\ UNCHANGED <<dbVars, alive, locked, faultVars, before>>

Execute ==
  /\ todo # <<>>
  /\ Head(todo) # CommitStmt
  /\ conn' = Exec(conn, Head(todo))
  /\ locked' = TRUE
  /\ todo' = Tail(todo)
  /\ UNCHANGED <<vars, disk, alive, runner, faultVars, before>>

Commit ==
  /\ todo # <<>>
  /\ Head(todo) = CommitStmt
  /\ disk' = conn
  /\ locked' = FALSE
  /\ todo' = Tail(todo)
  /\ UNCHANGED <<vars, conn, alive, runner, faultVars, before>>

FinishCycle ==
  /\ runner \in {"persist", "handler"}
  /\ todo = <<>>
  /\ runner' = "idle"
  /\ UNCHANGED <<vars, dbVars, alive, todo, locked, faultVars, before>>

-------------------------------------------------------------------------------
(* The API: set_paper_portfolio_active waits for the write lock, and its   *)
(* commit commits whatever the connection has open.                        *)
SetActive(on) ==
  /\ runner # "cycle"
  /\ ~locked
  /\ conn.active # on
  /\ conn' = [conn EXCEPT !.active = on]
  /\ disk' = conn'
  /\ UNCHANGED <<vars, procVars, faultVars, before>>

Pause  == SetActive(FALSE)
Resume == SetActive(TRUE)

-------------------------------------------------------------------------------
(* Faults.                                                                 *)

\* run_once raises before anything was decided: a health answer or a snapshot
\* row that cannot be read, or a strategy that raises.
CycleRaises ==
  /\ runner = "due"
  /\ runner' = "handler"
  /\ todo' = HandlerCalls
  /\ UNCHANGED <<vars, dbVars, alive, locked, faultVars, before>>

\* wait_for expires, or a statement raises, while run_once writes.  What the
\* connection already executed stays open; the lock is released on the way
\* out and the handler runs.
InterruptPersist ==
  /\ crashes + interrupts < MaxFaults
  /\ runner = "persist"
  /\ todo # <<>>
  /\ runner' = "handler"
  /\ todo' = HandlerCalls
  /\ locked' = FALSE
  /\ interrupts' = interrupts + 1
  /\ UNCHANGED <<vars, dbVars, alive, crashes, before>>

\* The handler's own write raises: logged in one handler; in the other it
\* ends the runner, which the supervisor restarts with the same traders.
HandlerFails ==
  /\ crashes + interrupts < MaxFaults
  /\ runner = "handler"
  /\ todo # <<>>
  /\ runner' = "idle"
  /\ todo' = <<>>
  /\ locked' = FALSE
  /\ interrupts' = interrupts + 1
  /\ UNCHANGED <<vars, dbVars, alive, crashes, before>>

\* The process dies and is started again: memory is gone, an open
\* transaction is rolled back.
Die ==
  /\ Forget
  /\ phase' = "idle" /\ snaps' = NoSnaps /\ state' = NoState
  /\ exits' = {} /\ entries' = {}
  /\ conn' = disk
  /\ alive' = FALSE
  /\ runner' = "idle"
  /\ todo' = <<>>
  /\ locked' = FALSE
  /\ UNCHANGED <<disk, before>>

\* A restart while the runner sleeps or waits for the upstream API.
Restart ==
  /\ runner \in {"idle", "due"}
  /\ alive
  /\ Die
  /\ UNCHANGED faultVars

\* A kill, or the shutdown that cancels the runner, while a cycle writes.
Crash ==
  /\ crashes + interrupts < MaxFaults
  /\ runner \in {"persist", "handler"}
  /\ Die
  /\ crashes' = crashes + 1
  /\ UNCHANGED interrupts

PTNext ==
  \/ Schedule \/ DropTrader \/ SkipCycle \/ StartCycle \/ Decide
  \/ StartPersist \/ Execute \/ Commit \/ FinishCycle
  \/ Pause \/ Resume
  \/ CycleRaises \/ InterruptPersist \/ HandlerFails \/ Restart \/ Crash

PTSpec == PTInit /\ [][PTNext]_allVars

-------------------------------------------------------------------------------
(* Properties.                                                             *)

PTTypeOK ==
  /\ TypeOK
  /\ runner \in {"idle", "due", "cycle", "persist", "handler"}
  /\ {alive, locked} \subseteq BOOLEAN
  /\ {crashes, interrupts} \subseteq Nat /\ crashes + interrupts <= MaxFaults
  /\ \A db \in {conn, disk} :
       /\ db.free \in Nat
       /\ db.positions \in [Netuids -> Position \cup {NoPosition}]
       /\ db.cooldowns \in [Hotkeys -> Nat]
       /\ db.trades \in Seq(Trade)

FaultFree == crashes = 0 /\ interrupts = 0

\* As long as no write was interrupted, everything is committed between cycles,
\* and a trader in memory is what hydration would rebuild, so dropping it on a
\* pause loses nothing; and the last value-history row shows the balances of
\* the runtime row: the state it was taken from is the one after the last trade.
MemoryMatchesDatabase ==
  runner = "idle" /\ FaultFree =>
    /\ conn = disk
    /\ alive =>
         /\ free = disk.free
         /\ positions = disk.positions
         /\ cooldowns = disk.cooldowns
         /\ peak = disk.peak
    /\ disk.history # NoRow =>
         disk.history = [free |-> disk.free, open |-> Holdings(disk.positions)]

PositionsHaveTrades ==
  \A n \in Holdings(disk.positions) :
    \E i \in DOMAIN disk.trades :
      /\ disk.trades[i].dir = "buy"
      /\ disk.trades[i].netuid = n
      /\ disk.trades[i].tao = disk.positions[n].invested
      /\ disk.trades[i].block = disk.positions[n].block

CooldownsHaveTrades ==
  \A h \in Hotkeys :
    disk.cooldowns[h] # 0 =>
      \E i \in DOMAIN disk.trades :
        disk.trades[i].hotkey = h /\ disk.trades[i].block = disk.cooldowns[h]

\* However often the process dies, trades are durable before what follows
\* from them: a position has its buy, and a cooldown the trade that began
\* it.  (A write that times out or raises loses the cycle's trades and keeps
\* its positions.)
RowsHaveTrades == interrupts = 0 => PositionsHaveTrades /\ CooldownsHaveTrades

\* Whatever faults come, the durable row never shows the reserve spent and
\* the durable positions never exceed the limit.
DurableLimits ==
  /\ disk.free >= ReserveTao
  /\ Cardinality(Holdings(disk.positions)) <= MaxPositions

\* A cycle that ran to its end has repaired whatever an interrupted one left
\* behind: the rows it leaves are the trader's.
CompleteCycleRepairs ==
  [][runner = "persist" /\ runner' = "idle" /\ alive' =>
       /\ conn = disk
       /\ disk.free = free /\ disk.positions = positions
       /\ disk.cooldowns = cooldowns /\ disk.peak = peak]_allVars

\* The portfolio, as the trader holds it or as the database would give it
\* back, lives up to Portfolio as long as no write was interrupted: pauses,
\* resumes and restarts between cycles are invisible.
Account == INSTANCE Portfolio WITH
  free      <- IF alive THEN free ELSE conn.free,
  positions <- IF alive THEN positions ELSE conn.positions,
  cooldowns <- IF alive THEN cooldowns ELSE conn.cooldowns

KeepsPortfolio ==
  Account!AccountInit /\ [][FaultFree' => Account!AccountNext]_(Account!book)

-------------------------------------------------------------------------------
(* What the comments and the README say, and the code does not do.         *)

\* "a crash mid-cycle loses at most the trades from that cycle": what a
\* crash leaves is the free TAO and the positions of before the cycle or of
\* after it.
CrashLosesAtMostTheCycle ==
  [][runner = "persist" /\ ~alive' =>
       \/ disk.free = before.free /\ disk.positions = before.positions
       \/ disk.free = free /\ disk.positions = positions]_allVars
================================================================================
