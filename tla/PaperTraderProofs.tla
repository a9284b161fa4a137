--------------------------- MODULE PaperTraderProofs ---------------------------
(***************************************************************************)
(* Proofs about PaperTrader for any number of faults.  The tracker's part  *)
(* comes from TradingCycleProofs; what is new is the database, and four    *)
(* invariants about it, each proved on top of the one before:              *)
(*   RowInv  types, and limits no fault can break;                         *)
(*   DbInv   every part of the row is already what the tracker holds, or a *)
(*           statement still to run will make it so;                       *)
(*   LogInv  the trade behind every position and cooldown is durable       *)
(*           before the row that follows from it is written;               *)
(*   FiguresInv  the logged trades, those of the cycle and those still to  *)
(*           be inserted explain the value of the book.                    *)
(***************************************************************************)
EXTENDS Reports, TradingCycleProofs, SequenceTheorems

\* The statements of a cycle whose value-history row was taken as `taken'.
Stmts(taken) ==
  {CommitStmt, <<"clear", "none">>, <<"runtime", "none">>, <<"history", taken>>}
    \cup ({"trade"} \X Trade) \cup ({"position"} \X Netuids)

Runs(op, i) == i \in DOMAIN todo /\ todo[i][1] = op
Waits(op) == \E i \in DOMAIN todo : todo[i][1] = op

\* A row of paper_portfolios with the rows that hang from it.
IsRow(db) ==
  /\ db = [free |-> db.free, positions |-> db.positions,
           cooldowns |-> db.cooldowns, peak |-> db.peak, trades |-> db.trades,
           history |-> db.history, active |-> db.active]
  /\ db.free \in Nat
  /\ db.positions \in [Netuids -> Position \cup {NoPosition}]
  /\ db.cooldowns \in [Hotkeys -> Nat]
  /\ db.trades \in Seq(Trade)

RowLimits(db) ==
  /\ db.free >= ReserveTao
  /\ Cardinality(Holdings(db.positions)) <= MaxPositions

\* Where the runner is and what it may have left to do.
RunnerControl ==
  /\ runner \in {"idle", "due", "cycle", "persist", "handler"}
  /\ alive \in BOOLEAN /\ locked \in BOOLEAN
  /\ crashes \in Nat /\ interrupts \in Nat /\ crashes + interrupts <= MaxFaults
  /\ runner # "idle" => alive
  /\ phase # "idle" => runner = "cycle"
  /\ \E taken : todo \in Seq(Stmts(taken))
  /\ runner \notin {"persist", "handler"} => todo = <<>>

\* A position row is only written over rows that are the tracker's.
ClearedFirst ==
  \A i \in DOMAIN todo :
    Runs("position", i) =>
      \/ Holdings(conn.positions) \subseteq Held
      \/ \E j \in DOMAIN todo : j < i /\ Runs("clear", j)

\* Safety of the rows, whatever faults come.
RowInv ==
  /\ Control /\ phase \in {"idle", "exits", "entries"}
  /\ RunnerControl
  /\ alive => LimitsKept
  /\ IsRow(conn) /\ IsRow(disk)
  /\ RowLimits(conn) /\ RowLimits(disk)
  /\ ClearedFirst

-------------------------------------------------------------------------------
(* What a cycle that is being written has still to do.                     *)

RuntimeDone ==
  conn.free = free /\ conn.cooldowns = cooldowns /\ conn.peak = peak

PositionPending(n) ==
  \/ \E i \in DOMAIN todo :
       /\ todo[i] = <<"position", n>>
       /\ \A j \in DOMAIN todo : Runs("clear", j) => j < i
  \/ ~Waits("clear") /\ conn.positions[n] = positions[n]
  \/ Waits("clear") /\ n \notin Held

IsHistory(h, f, held) == h = [free |-> f, open |-> held]

HistoryPending ==
  /\ \A i \in DOMAIN todo :
       todo[i][1] = "history" => todo[i][2].free = free /\ todo[i][2].held = Held
  /\ Waits("history") \/ IsHistory(conn.history, free, Held)

\* What is not committed yet has a commit to come.
AllCommitted ==
  \/ todo = <<>> /\ conn = disk
  \/ todo # <<>> /\ todo[Len(todo)] = CommitStmt

Pending ==
  runner = "persist" =>
    /\ Waits("runtime") \/ RuntimeDone
    /\ \A n \in Netuids : PositionPending(n)
    /\ HistoryPending
    /\ AllCommitted

HandlerWrites ==
  runner = "handler" => \A i \in DOMAIN todo : todo[i][1] \in {"runtime", "commit"}

\* Without faults the rows are the tracker's whenever no cycle is decided or
\* written.
RowsCurrent == conn.positions = positions /\ RuntimeDone

HistoryCurrent ==
  conn.history # NoRow => IsHistory(conn.history, conn.free, Holdings(conn.positions))

Settled ==
  FaultFree /\ runner # "persist" =>
    /\ runner # "cycle" /\ alive => RowsCurrent
    /\ HistoryCurrent
    /\ AllCommitted

-------------------------------------------------------------------------------
(* Where the trade behind a position or a cooldown is to be found.          *)

Elems(s) == {s[i] : i \in DOMAIN s}

Backed(pos, cd, log) ==
  /\ \A n \in Holdings(pos) : \E t \in log :
       /\ t.dir = "buy" /\ t.netuid = n
       /\ t.tao = pos[n].invested /\ t.block = pos[n].block
  /\ \A h \in Hotkeys : cd[h] # 0 => \E t \in log : t.hotkey = h /\ t.block = cd[h]

\* What the cycle traded so far.
NewTrades == {trades[i] : i \in (mark + 1) .. Len(trades)}

ToInsert == {todo[i][2] : i \in {k \in DOMAIN todo : todo[k][1] = "trade"}}

Known == Elems(disk.trades) \cup Elems(conn.trades) \cup ToInsert
           \cup {t \in NewTrades : runner = "cycle"}

\* Trades are inserted and committed one by one, before anything else is written.
TradesFirst ==
  /\ \A i \in DOMAIN todo : todo[i][1] = "trade" =>
       i + 1 \in DOMAIN todo /\ todo[i + 1] = CommitStmt
  /\ \A i \in DOMAIN todo, j \in DOMAIN todo :
       todo[i][1] = "trade" /\ todo[j][1] \notin {"trade", "commit"} => i < j

LogInv ==
  interrupts = 0 =>
    /\ TradesFirst
    /\ conn.trades # disk.trades => todo # <<>> /\ todo[1] = CommitStmt
    /\ Elems(disk.trades) \subseteq Elems(conn.trades)
    /\ Backed(disk.positions, disk.cooldowns, Elems(disk.trades))
    /\ Backed(conn.positions, conn.cooldowns, Elems(disk.trades))
    /\ alive => Backed(positions, cooldowns, Known)

-------------------------------------------------------------------------------
(* The tracker.                                                            *)

\* Hydration gives the tracker its types, and the row's limits.
LEMMA RememberTracker ==
  ASSUME Control, phase = "idle", NEW db, IsRow(db), Remember(db), CycleUnchanged
  PROVE  /\ Control' /\ phase' = "idle"
         /\ RowLimits(db) => LimitsKept'
         /\ free' = db.free /\ positions' = db.positions
         /\ cooldowns' = db.cooldowns /\ peak' = db.peak
<1>1. /\ free' = db.free /\ positions' = db.positions /\ cooldowns' = db.cooldowns
      /\ peak' = db.peak /\ trades' = <<>> /\ mark' = 0
      /\ UNCHANGED <<phase, snaps, exits, entries, state>>
  BY DEF Remember, CycleUnchanged
<1>2. trades' \in Seq(Trade) /\ mark' \in 0 .. Len(trades')
  BY <1>1
<1>3. CycleTypes'
  BY <1>1, <1>2 DEF Control, CycleTypes, IsRow
<1>4. Queues' /\ Fresh'
  BY <1>1 DEF Control, Queues, Fresh
<1>5. RowLimits(db) => LimitsKept'
  BY <1>1 DEF RowLimits, LimitsKept, ReserveIntact, PositionsBounded, Held, Holdings
<1>. QED
  BY <1>1, <1>3, <1>4, <1>5 DEF Control

\* Without a trader the tracker is an empty one.
LEMMA ForgetTracker ==
  ASSUME Forget, snaps' \in [Netuids -> Snapshots \cup {NoSnapshot}],
         exits' = {}, entries' = {}, phase' = "idle",
         state'.free \in Nat, state'.held \subseteq Netuids
  PROVE  Control'
<1>1. /\ free' = 0 /\ positions' = Empty /\ cooldowns' = [h \in Hotkeys |-> 0]
      /\ trades' = <<>> /\ mark' = 0
  BY DEF Forget
<1>2. trades' \in Seq(Trade) /\ mark' \in 0 .. Len(trades')
  BY <1>1
<1>3. CycleTypes'
  BY <1>1, <1>2 DEF CycleTypes, Empty
<1>. QED
  BY <1>3 DEF Control, Queues, Fresh

LEMMA DeadTracker ==
  ASSUME Die
  PROVE  Control' /\ phase' = "idle" /\ ~alive'
<1>1. /\ Forget /\ phase' = "idle" /\ snaps' = NoSnaps /\ state' = NoState
      /\ exits' = {} /\ entries' = {} /\ ~alive'
  BY DEF Die
<1>2. snaps' \in [Netuids -> Snapshots \cup {NoSnapshot}]
  BY <1>1 DEF NoSnaps
<1>3. state'.free \in Nat /\ state'.held \subseteq Netuids
  BY <1>1 DEF NoState
<1>. QED
  BY <1>1, <1>2, <1>3, ForgetTracker

LEMMA QuietTracker ==
  ASSUME Control, UNCHANGED vars
  PROVE  Control' /\ phase' = phase /\ Held' = Held /\ (LimitsKept => LimitsKept')
<1>1. Held' = Held /\ phase' = phase
  BY DEF vars, tracker, cycle, Held, Holdings
<1>2. Control'
  BY NextTypes, NextQueues DEF Control
<1>3. LimitsKept => LimitsKept'
  BY <1>1 DEF LimitsKept, ReserveIntact, PositionsBounded, vars, tracker
<1>. QED
  BY <1>1, <1>2, <1>3

-------------------------------------------------------------------------------
(* Statements.                                                             *)

\* What running the first statement leaves to do.
LEMMA TailFacts ==
  ASSUME NEW S, todo \in Seq(S), todo # <<>>, todo' = Tail(todo)
  PROVE  /\ todo' \in Seq(S)
         /\ Len(todo) \in Nat /\ Len(todo) > 0
         /\ DOMAIN todo = 1 .. Len(todo)
         /\ Len(todo') = Len(todo) - 1
         /\ DOMAIN todo' = 1 .. (Len(todo) - 1)
         /\ \A i \in DOMAIN todo' : i + 1 \in DOMAIN todo /\ todo'[i] = todo[i + 1]
         /\ Head(todo) = todo[1] /\ 1 \in DOMAIN todo
         /\ todo[1] \in S
OBVIOUS

\* A statement keeps the row a row.
LEMMA ExecRow ==
  ASSUME Control, NEW db, IsRow(db), NEW taken, NEW stmt \in Stmts(taken),
         stmt # CommitStmt
  PROVE  /\ IsRow(Exec(db, stmt))
         /\ stmt[1] \in {"trade", "clear", "position", "history", "runtime"}
<1>1. CASE stmt = <<"clear", "none">>
  BY <1>1 DEF Exec, IsRow, Empty
<1>2. CASE stmt = <<"runtime", "none">>
  BY <1>2 DEF Exec, IsRow, UpdateRuntime, Control, CycleTypes
<1>3. CASE stmt = <<"history", taken>>
  BY <1>3 DEF Exec, IsRow, InsertValue
<1>4. CASE stmt \in {"trade"} \X Trade
  <2>1. Append(db.trades, stmt[2]) \in Seq(Trade)
    BY <1>4 DEF IsRow
  <2>. QED
    BY <1>4, <2>1 DEF Exec, IsRow
<1>5. CASE stmt \in {"position"} \X Netuids
  <2>1. [db.positions EXCEPT ![stmt[2]] = positions[stmt[2]]]
          \in [Netuids -> Position \cup {NoPosition}]
    BY <1>5 DEF IsRow, Control, CycleTypes
  <2>. QED
    BY <1>5, <2>1 DEF Exec, IsRow
<1>. QED
  BY <1>1, <1>2, <1>3, <1>4, <1>5 DEF Stmts, CommitStmt

\* What a statement changes in a row.
LEMMA ExecEffect ==
  ASSUME NEW db, IsRow(db), NEW taken, NEW stmt \in Stmts(taken), stmt # CommitStmt
  PROVE  /\ stmt[1] # "runtime" =>
              /\ Exec(db, stmt).free = db.free
              /\ Exec(db, stmt).cooldowns = db.cooldowns
              /\ Exec(db, stmt).peak = db.peak
         /\ stmt[1] = "runtime" =>
              /\ Exec(db, stmt).free = free
              /\ Exec(db, stmt).cooldowns = cooldowns
              /\ Exec(db, stmt).peak = peak
         /\ stmt[1] \notin {"clear", "position"} =>
              Exec(db, stmt).positions = db.positions
         /\ stmt[1] = "clear" => Exec(db, stmt).positions = Empty
         /\ stmt[1] = "position" =>
              /\ stmt[2] \in Netuids /\ stmt = <<"position", stmt[2]>>
              /\ Exec(db, stmt).positions =
                   [db.positions EXCEPT ![stmt[2]] = positions[stmt[2]]]
         /\ stmt[1] # "history" => Exec(db, stmt).history = db.history
         /\ stmt[1] = "history" =>
              IsHistory(Exec(db, stmt).history, stmt[2].free, stmt[2].held)
         /\ stmt[1] # "trade" => Exec(db, stmt).trades = db.trades
         /\ stmt[1] = "trade" => Exec(db, stmt).trades = Append(db.trades, stmt[2])
<1>1. CASE stmt = <<"clear", "none">>
  BY <1>1 DEF Exec, IsRow
<1>2. CASE stmt = <<"runtime", "none">>
  BY <1>2 DEF Exec, IsRow, UpdateRuntime
<1>3. CASE stmt = <<"history", taken>>
  BY <1>3 DEF Exec, IsRow, InsertValue, IsHistory
<1>4. CASE stmt \in {"trade"} \X Trade
  BY <1>4 DEF Exec, IsRow
<1>5. CASE stmt \in {"position"} \X Netuids
  BY <1>5 DEF Exec, IsRow
<1>. QED
  BY <1>1, <1>2, <1>3, <1>4, <1>5 DEF Stmts

\* The statements of the trades: an insert and a commit for each.
LEMMA TradeCallsShape ==
  ASSUME Control
  PROVE  /\ TradeCalls \in Seq(Stmts(state))
         /\ \A i \in DOMAIN TradeCalls : TradeCalls[i][1] \in {"trade", "commit"}
         /\ \A i \in DOMAIN TradeCalls : TradeCalls[i][1] = "trade" =>
              i + 1 \in DOMAIN TradeCalls /\ TradeCalls[i + 1] = CommitStmt
         /\ \A t \in NewTrades : \E i \in DOMAIN TradeCalls : TradeCalls[i] = <<"trade", t>>
<1>1. trades \in Seq(Trade) /\ mark \in 0 .. Len(trades) /\ Len(trades) \in Nat
  BY DEF Control, CycleTypes
<1>2. Executed \in Seq(Trade) /\ Len(Executed) \in Nat
  BY <1>1 DEF Executed
<1>. DEFINE L == Len(Executed)
<1>3. \A i \in 1 .. 2 * L : i % 2 = 1 => (i + 1) \div 2 \in 1 .. L
  BY <1>2
<1>4. \A k \in 1 .. L : Executed[k] \in Trade
  BY <1>2
<1>5. \A i \in 1 .. 2 * L :
        (IF i % 2 = 1 THEN <<"trade", Executed[(i + 1) \div 2]>> ELSE CommitStmt)
          \in {CommitStmt} \cup ({"trade"} \X Trade)
  BY <1>3, <1>4
<1>6. TradeCalls \in [1 .. 2 * L -> {CommitStmt} \cup ({"trade"} \X Trade)]
  BY <1>5 DEF TradeCalls
<1>7. 2 * L \in Nat
  BY <1>2
<1>. HIDE DEF L
<1>8. TradeCalls \in Seq({CommitStmt} \cup ({"trade"} \X Trade))
  BY <1>6, <1>7
<1>9. TradeCalls \in Seq(Stmts(state))
  BY <1>8 DEF Stmts
<1>10. \A i \in DOMAIN TradeCalls : TradeCalls[i][1] \in {"trade", "commit"}
  BY <1>6 DEF CommitStmt
<1>11. /\ DOMAIN TradeCalls = 1 .. 2 * L
       /\ \A i \in 1 .. 2 * L :
            TradeCalls[i] = IF i % 2 = 1 THEN <<"trade", Executed[(i + 1) \div 2]>> ELSE CommitStmt
  BY DEF TradeCalls, L
<1>12. L \in Nat
  BY <1>2 DEF L
<1>13. ASSUME NEW i \in 1 .. 2 * L, TradeCalls[i][1] = "trade"
       PROVE  i + 1 \in 1 .. 2 * L /\ TradeCalls[i + 1] = CommitStmt
  <2>1. i % 2 = 1
    BY <1>11, <1>13 DEF CommitStmt
  <2>2. i + 1 \in 1 .. 2 * L /\ (i + 1) % 2 # 1
    BY <1>12, <2>1
  <2>. QED
    BY <1>11, <2>2
<1>14. ASSUME NEW t \in NewTrades
       PROVE  \E i \in 1 .. 2 * L : TradeCalls[i] = <<"trade", t>>
  <2>1. PICK j \in (mark + 1) .. Len(trades) : t = trades[j]
    BY DEF NewTrades
  <2>2. /\ L = Len(trades) - mark /\ j - mark \in 1 .. L
        /\ Executed[j - mark] = t
    <3>1. mark \in Nat /\ mark <= Len(trades)
      BY <1>1
    <3>2. /\ Len(Executed) = Len(trades) - mark
          /\ \A i \in 1 .. (Len(trades) - mark) : Executed[i] = trades[mark + i]
      BY <1>1, <3>1 DEF Executed
    <3>3. j - mark \in 1 .. (Len(trades) - mark) /\ mark + (j - mark) = j
      BY <1>1, <2>1, <3>1
    <3>4. Executed[j - mark] = t
      BY <2>1, <3>2, <3>3
    <3>. QED
      BY <3>2, <3>3, <3>4 DEF L
  <2>. DEFINE k == j - mark
  <2>3. k \in 1 .. L /\ Executed[k] = t
    BY <2>2
  <2>. HIDE DEF k
  <2>4. /\ 2 * k - 1 \in 1 .. 2 * L /\ (2 * k - 1) % 2 = 1
        /\ ((2 * k - 1) + 1) \div 2 = k
    BY <1>12, <2>3
  <2>5. TradeCalls[2 * k - 1] = <<"trade", t>>
    BY <1>11, <2>3, <2>4
  <2>. QED
    BY <2>4, <2>5
<1>. QED
  BY <1>9, <1>10, <1>11, <1>13, <1>14

\* Where the elements of a concatenation come from.
LEMMA Joined ==
  ASSUME NEW S, NEW s \in Seq(S), NEW t \in Seq(S)
  PROVE  /\ s \o t \in Seq(S) /\ Len(s \o t) = Len(s) + Len(t)
         /\ \A i \in 1 .. Len(s) : (s \o t)[i] = s[i]
         /\ \A i \in 1 .. Len(t) : (s \o t)[Len(s) + i] = t[i]
<1>1. /\ s \o t \in Seq(S) /\ Len(s \o t) = Len(s) + Len(t)
      /\ \A i \in 1 .. (Len(s) + Len(t)) :
           (s \o t)[i] = IF i <= Len(s) THEN s[i] ELSE t[i - Len(s)]
  BY ConcatProperties
<1>2. Len(s) \in Nat /\ Len(t) \in Nat
  OBVIOUS
<1>3. \A i \in 1 .. Len(s) : (s \o t)[i] = s[i]
  BY <1>1, <1>2
<1>4. ASSUME NEW i \in 1 .. Len(t)
      PROVE  (s \o t)[Len(s) + i] = t[i]
  <2>1. Len(s) + i \in 1 .. (Len(s) + Len(t)) /\ ~(Len(s) + i <= Len(s))
        /\ (Len(s) + i) - Len(s) = i
    BY <1>2
  <2>. QED
    BY <1>1, <2>1
<1>. QED
  BY <1>1, <1>3, <1>4

EndCalls(taken) ==
  <<CommitStmt, <<"history", taken>>, CommitStmt, <<"runtime", "none">>, CommitStmt>>

\* The statements of a whole cycle, and where each kind of them is.
LEMMA PersistCallsShape ==
  ASSUME Control, NEW rows \in RowOrders
  PROVE  LET calls == PersistCalls(rows)
         IN  /\ calls \in Seq(Stmts(state)) /\ calls # <<>>
             /\ calls[Len(calls)] = CommitStmt
             /\ \E c \in DOMAIN calls :
                  /\ calls[c] = <<"clear", "none">>
                  /\ \A i \in DOMAIN calls : i < c => calls[i][1] # "position"
                  /\ \A i \in DOMAIN calls : calls[i][1] = "clear" => i = c
                  /\ \A n \in Held : \E i \in DOMAIN calls :
                       i > c /\ calls[i] = <<"position", n>>
             /\ \E i \in DOMAIN calls : calls[i] = <<"history", state>>
             /\ \E i \in DOMAIN calls : calls[i] = <<"runtime", "none">>
             /\ \A i \in DOMAIN calls : calls[i][1] = "trade" =>
                  i + 1 \in DOMAIN calls /\ calls[i + 1] = CommitStmt
             /\ \A i \in DOMAIN calls, j \in DOMAIN calls :
                  calls[i][1] = "trade" /\ calls[j][1] \notin {"trade", "commit"} => i < j
             /\ \A t \in NewTrades : \E i \in DOMAIN calls : calls[i] = <<"trade", t>>
             /\ \A i \in DOMAIN calls : calls[i][1] = "trade" => i \in DOMAIN TradeCalls
             /\ \A i \in DOMAIN TradeCalls : i \in DOMAIN calls /\ calls[i] = TradeCalls[i]
<1>. DEFINE T == TradeCalls
            C == <<<<"clear", "none">>>>
            E == EndCalls(state)
            S == Stmts(state)
            calls == PersistCalls(rows)
<1>1. T \in Seq(S) /\ \A i \in DOMAIN T : T[i][1] \in {"trade", "commit"}
  BY TradeCallsShape
<1>0. /\ \A i \in DOMAIN T : T[i][1] = "trade" =>
           i + 1 \in DOMAIN T /\ T[i + 1] = CommitStmt
      /\ \A t \in NewTrades : \E i \in DOMAIN T : T[i] = <<"trade", t>>
  BY TradeCallsShape
<1>2. C \in Seq(S) /\ Len(C) = 1 /\ C[1] = <<"clear", "none">>
  BY DEF Stmts
<1>3. E \in Seq(S) /\ Len(E) = 5
      /\ E[1] = CommitStmt /\ E[2] = <<"history", state>> /\ E[3] = CommitStmt
      /\ E[4] = <<"runtime", "none">> /\ E[5] = CommitStmt
  BY DEF Stmts, EndCalls
<1>4. Cardinality(Held) \in Nat /\ Held \subseteq Netuids
  <2>1. Held \subseteq Netuids
    BY DEF Held, Holdings
  <2>. QED
    BY <2>1, FS_Subset, FS_CardinalityType, ConstantsAssumption
<1>5. /\ rows \in Seq(S) /\ Len(rows) \in Nat /\ DOMAIN rows = 1 .. Len(rows)
      /\ \A i \in DOMAIN rows : rows[i][1] = "position"
      /\ \A n \in Held : \E i \in DOMAIN rows : rows[i] = <<"position", n>>
  <2>1. rows \in [1 .. Cardinality(Held) -> {<<"position", n>> : n \in Held}]
        /\ \A n \in Held : \E i \in DOMAIN rows : rows[i] = <<"position", n>>
    BY DEF RowOrders
  <2>2. {<<"position", n>> : n \in Held} \subseteq {"position"} \X Netuids
    BY <1>4
  <2>3. rows \in Seq({"position"} \X Netuids)
    BY <1>4, <2>1, <2>2
  <2>4. \A i \in DOMAIN rows : rows[i][1] = "position"
    BY <2>1
  <2>. QED
    BY <2>1, <2>3, <2>4 DEF Stmts
<1>. HIDE DEF T, C, E, S
<1>6. calls = ((T \o C) \o rows) \o E
  BY DEF PersistCalls, T, C, E, EndCalls
<1>7. PICK a \in Nat : a = Len(T)
  BY <1>1
<1>8. PICK b \in Nat : b = Len(rows)
  BY <1>5
<1>9. /\ T \o C \in Seq(S) /\ Len(T \o C) = a + 1
      /\ \A i \in 1 .. a : (T \o C)[i] = T[i]
      /\ (T \o C)[a + 1] = <<"clear", "none">>
  <2>1. /\ T \o C \in Seq(S) /\ Len(T \o C) = Len(T) + Len(C)
        /\ \A i \in 1 .. Len(T) : (T \o C)[i] = T[i]
        /\ \A i \in 1 .. Len(C) : (T \o C)[Len(T) + i] = C[i]
    <3>1. T \in Seq(S) /\ C \in Seq(S)
      BY <1>1, <1>2
    <3>. QED
      BY <3>1, Joined
  <2>. QED
    BY <1>2, <1>7, <2>1
<1>. DEFINE TC == T \o C
<1>. HIDE DEF TC
<1>10. /\ TC \o rows \in Seq(S) /\ Len(TC \o rows) = a + 1 + b
       /\ \A i \in 1 .. (a + 1) : (TC \o rows)[i] = TC[i]
       /\ \A i \in 1 .. b : (TC \o rows)[a + 1 + i] = rows[i]
  <2>1. TC \in Seq(S) /\ Len(TC) = a + 1
    BY <1>9 DEF TC
  <2>2. /\ TC \o rows \in Seq(S) /\ Len(TC \o rows) = Len(TC) + Len(rows)
        /\ \A i \in 1 .. Len(TC) : (TC \o rows)[i] = TC[i]
        /\ \A i \in 1 .. Len(rows) : (TC \o rows)[Len(TC) + i] = rows[i]
    <3>1. TC \in Seq(S) /\ rows \in Seq(S)
      BY <1>5, <2>1
    <3>. QED
      BY <3>1, Joined
  <2>. QED
    BY <1>7, <1>8, <2>1, <2>2
<1>. DEFINE TCR == TC \o rows
<1>. HIDE DEF TCR
<1>11. /\ calls \in Seq(S) /\ Len(calls) = a + b + 6
       /\ \A i \in 1 .. (a + 1 + b) : calls[i] = TCR[i]
       /\ \A i \in 1 .. 5 : calls[a + 1 + b + i] = E[i]
  <2>1. TCR \in Seq(S) /\ Len(TCR) = a + 1 + b
    BY <1>10 DEF TCR
  <2>2. /\ TCR \o E \in Seq(S) /\ Len(TCR \o E) = Len(TCR) + Len(E)
        /\ \A i \in 1 .. Len(TCR) : (TCR \o E)[i] = TCR[i]
        /\ \A i \in 1 .. Len(E) : (TCR \o E)[Len(TCR) + i] = E[i]
    <3>1. TCR \in Seq(S) /\ E \in Seq(S)
      BY <1>3, <2>1
    <3>. QED
      BY <3>1, Joined
  <2>3. calls = TCR \o E
    BY <1>6 DEF TCR, TC
  <2>. QED
    BY <1>3, <1>7, <1>8, <2>1, <2>2, <2>3
<1>. HIDE DEF calls
<1>12. /\ DOMAIN calls = 1 .. (a + b + 6)
       /\ \A i \in 1 .. a : calls[i] = T[i]
       /\ calls[a + 1] = <<"clear", "none">>
       /\ \A i \in 1 .. b : calls[a + 1 + i] = rows[i]
       /\ calls[a + b + 2] = CommitStmt /\ calls[a + b + 3] = <<"history", state>>
       /\ calls[a + b + 4] = CommitStmt /\ calls[a + b + 5] = <<"runtime", "none">>
       /\ calls[a + b + 6] = CommitStmt
  <2>. HIDE DEF TCR, TC
  <2>0. /\ \A i \in 1 .. a : TC[i] = T[i]
        /\ TC[a + 1] = <<"clear", "none">>
        /\ \A i \in 1 .. (a + 1) : TCR[i] = TC[i]
    BY <1>9, <1>10 DEF TCR, TC
  <2>1. \A i \in 1 .. a : calls[i] = T[i]
    BY <1>7, <1>8, <1>11, <2>0
  <2>2. calls[a + 1] = <<"clear", "none">>
    BY <1>7, <1>8, <1>11, <2>0
  <2>3. ASSUME NEW i \in 1 .. b
        PROVE  calls[a + 1 + i] = rows[i]
    <3>1. a + 1 + i \in 1 .. (a + 1 + b)
      BY <1>7, <1>8
    <3>. QED
      BY <1>10, <1>11, <3>1 DEF TCR
  <2>4. /\ calls[a + 1 + b + 1] = E[1] /\ calls[a + 1 + b + 2] = E[2]
        /\ calls[a + 1 + b + 3] = E[3] /\ calls[a + 1 + b + 4] = E[4]
        /\ calls[a + 1 + b + 5] = E[5]
    BY <1>11
  <2>5. /\ a + 1 + b + 1 = a + b + 2 /\ a + 1 + b + 2 = a + b + 3
        /\ a + 1 + b + 3 = a + b + 4 /\ a + 1 + b + 4 = a + b + 5
        /\ a + 1 + b + 5 = a + b + 6
    BY <1>7, <1>8
  <2>6. DOMAIN calls = 1 .. (a + b + 6)
    BY <1>11
  <2>. QED
    BY <1>3, <2>1, <2>2, <2>3, <2>4, <2>5, <2>6
<1>13. \A i \in 1 .. a : calls[i][1] \in {"trade", "commit"}
  BY <1>1, <1>7, <1>8, <1>12
<1>14. \A i \in (a + 2) .. (a + b + 1) : calls[i][1] = "position"
  <2>. SUFFICES ASSUME NEW i \in (a + 2) .. (a + b + 1) PROVE calls[i][1] = "position"
    OBVIOUS
  <2>1. i - a - 1 \in 1 .. b /\ a + 1 + (i - a - 1) = i
    BY <1>7, <1>8
  <2>2. calls[i] = rows[i - a - 1]
    BY <1>12, <2>1
  <2>. QED
    BY <1>5, <1>8, <2>1, <2>2
<1>15. \A i \in (a + b + 2) .. (a + b + 6) : calls[i][1] \in {"commit", "history", "runtime"}
  <2>. SUFFICES ASSUME NEW i \in (a + b + 2) .. (a + b + 6)
                PROVE  calls[i][1] \in {"commit", "history", "runtime"}
    OBVIOUS
  <2>1. i \in {a + b + 2, a + b + 3, a + b + 4, a + b + 5, a + b + 6}
    BY <1>7, <1>8
  <2>. QED
    BY <1>12, <2>1 DEF CommitStmt
<1>16. \A i \in DOMAIN calls : i < a + 1 => calls[i][1] # "position"
  BY <1>7, <1>8, <1>12, <1>13
<1>17. \A i \in DOMAIN calls : calls[i][1] = "clear" => i = a + 1
  BY <1>7, <1>8, <1>12, <1>13, <1>14, <1>15
<1>18. ASSUME NEW n \in Held
       PROVE  \E i \in DOMAIN calls : i > a + 1 /\ calls[i] = <<"position", n>>
  <2>1. PICK i \in 1 .. b : rows[i] = <<"position", n>>
    BY <1>5, <1>8
  <2>2. calls[a + 1 + i] = <<"position", n>> /\ a + 1 + i \in DOMAIN calls
    BY <1>7, <1>8, <1>12, <2>1
  <2>. QED
    BY <1>7, <2>1, <2>2
<1>19. calls # <<>> /\ calls[Len(calls)] = CommitStmt
  BY <1>7, <1>8, <1>11, <1>12
<1>20. a + 1 \in DOMAIN calls
  BY <1>7, <1>8, <1>12
<1>21. a + b + 3 \in DOMAIN calls /\ a + b + 5 \in DOMAIN calls
  BY <1>7, <1>8, <1>12
<1>22. calls \in Seq(Stmts(state))
  BY <1>11 DEF S
<1>23. \E c \in DOMAIN calls :
         /\ calls[c] = <<"clear", "none">>
         /\ \A i \in DOMAIN calls : i < c => calls[i][1] # "position"
         /\ \A i \in DOMAIN calls : calls[i][1] = "clear" => i = c
         /\ \A n \in Held : \E i \in DOMAIN calls :
              i > c /\ calls[i] = <<"position", n>>
  BY <1>12, <1>16, <1>17, <1>18, <1>20
<1>24. /\ \E i \in DOMAIN calls : calls[i] = <<"history", state>>
       /\ \E i \in DOMAIN calls : calls[i] = <<"runtime", "none">>
  BY <1>12, <1>21
<1>25. DOMAIN T = 1 .. a
  BY <1>1, <1>7
<1>26. \A i \in DOMAIN calls :
         /\ calls[i][1] = "trade" => i \in 1 .. a
         /\ calls[i][1] \notin {"trade", "commit"} => i > a
  <2>. SUFFICES ASSUME NEW i \in DOMAIN calls
                PROVE  /\ calls[i][1] = "trade" => i \in 1 .. a
                       /\ calls[i][1] \notin {"trade", "commit"} => i > a
    OBVIOUS
  <2>1. i \in Nat /\ (i \in 1 .. a \/ i > a)
    BY <1>7, <1>8, <1>12
  <2>2. CASE i \in 1 .. a
    BY <1>13, <2>2
  <2>3. CASE i > a
    <3>1. \/ i = a + 1
          \/ i \in (a + 2) .. (a + b + 1)
          \/ i \in (a + b + 2) .. (a + b + 6)
      BY <1>7, <1>8, <1>12, <2>1, <2>3
    <3>2. calls[i][1] # "trade"
      BY <1>12, <1>14, <1>15, <3>1
    <3>. QED
      BY <2>3, <3>2
  <2>. QED
    BY <2>1, <2>2, <2>3
<1>27. ASSUME NEW i \in DOMAIN calls, calls[i][1] = "trade"
       PROVE  i + 1 \in DOMAIN calls /\ calls[i + 1] = CommitStmt
  <2>1. i \in 1 .. a /\ T[i][1] = "trade"
    BY <1>12, <1>26, <1>27
  <2>2. i + 1 \in 1 .. a /\ T[i + 1] = CommitStmt
    BY <1>0, <1>25, <2>1
  <2>. QED
    BY <1>7, <1>8, <1>12, <2>2
<1>28. \A i \in DOMAIN calls, j \in DOMAIN calls :
         calls[i][1] = "trade" /\ calls[j][1] \notin {"trade", "commit"} => i < j
  BY <1>7, <1>8, <1>12, <1>26
<1>29. ASSUME NEW t \in NewTrades
       PROVE  \E i \in DOMAIN calls : calls[i] = <<"trade", t>>
  <2>1. PICK i \in 1 .. a : T[i] = <<"trade", t>>
    BY <1>0, <1>25
  <2>2. i \in DOMAIN calls /\ calls[i] = T[i]
    BY <1>7, <1>8, <1>12
  <2>. QED
    BY <2>1, <2>2
<1>30. /\ \A i \in DOMAIN calls : calls[i][1] = "trade" => i \in DOMAIN T
       /\ \A i \in DOMAIN T : i \in DOMAIN calls /\ calls[i] = T[i]
  BY <1>7, <1>8, <1>12, <1>25, <1>26
<1>. QED
  BY <1>19, <1>22, <1>23, <1>24, <1>27, <1>28, <1>29, <1>30 DEF calls, T

-------------------------------------------------------------------------------
(* The rows are safe, whatever faults come.                                *)

\* With nothing left to write the list of statements is well formed.
LEMMA NothingToDo ==
  ASSUME todo = <<>>
  PROVE  ClearedFirst /\ \E taken : todo \in Seq(Stmts(taken))
<1>1. DOMAIN todo = {} /\ todo \in Seq(Stmts(0))
  OBVIOUS
<1>. QED
  BY <1>1 DEF ClearedFirst

\* The handlers' statements.
LEMMA HandlerCallsShape ==
  /\ HandlerCalls \in Seq(Stmts(0)) /\ HandlerCalls # <<>>
  /\ Len(HandlerCalls) = 2 /\ DOMAIN HandlerCalls = 1 .. 2
  /\ HandlerCalls[1] = <<"runtime", "none">> /\ HandlerCalls[2] = CommitStmt
  /\ \A i \in DOMAIN HandlerCalls : HandlerCalls[i][1] \in {"runtime", "commit"}
<1>1. <<"runtime", "none">> \in Stmts(0) /\ CommitStmt \in Stmts(0)
  BY DEF Stmts
<1>2. /\ HandlerCalls \in Seq(Stmts(0)) /\ HandlerCalls # <<>>
      /\ Len(HandlerCalls) = 2 /\ DOMAIN HandlerCalls = 1 .. 2
      /\ HandlerCalls[1] = <<"runtime", "none">> /\ HandlerCalls[2] = CommitStmt
  BY <1>1 DEF HandlerCalls
<1>3. \A i \in DOMAIN HandlerCalls : HandlerCalls[i][1] \in {"runtime", "commit"}
  BY <1>2 DEF CommitStmt
<1>. QED
  BY <1>2, <1>3

\* A row of a new portfolio.
LEMMA NewRowOK == IsRow(NewRow) /\ RowLimits(NewRow)
<1>1. IsRow(NewRow)
  <2>1. <<>> \in Seq(Trade)
    OBVIOUS
  <2>. QED
    BY <2>1, ConstantsAssumption DEF NewRow, IsRow, Empty
<1>2. Holdings(NewRow.positions) = {}
  BY DEF NewRow, Empty, Holdings
<1>3. Cardinality({}) = 0
  BY FS_EmptySet
<1>4. NewRow.free = Initial
  BY DEF NewRow
<1>5. Initial >= ReserveTao /\ MaxPositions \in Nat
  BY ConstantsAssumption
<1>. QED
  BY <1>1, <1>2, <1>3, <1>4, <1>5 DEF RowLimits

LEMMA InitRowInv == PTInit => RowInv
<1>. SUFFICES ASSUME PTInit PROVE RowInv
  OBVIOUS
<1>1. Control /\ phase = "idle"
  BY InitControl DEF PTInit, Init, NoCycle
<1>2. todo = <<>>
  BY DEF PTInit
<1>3. ClearedFirst /\ \E taken : todo \in Seq(Stmts(taken))
  BY <1>2, NothingToDo
<1>4. RunnerControl
  <2>1. alive = FALSE /\ runner = "idle" /\ locked = FALSE /\ crashes = 0 /\ interrupts = 0
    BY DEF PTInit
  <2>2. 0 \in Nat /\ 0 + 0 <= MaxFaults
    BY FaultsAssumption
  <2>. QED
    BY <1>1, <1>2, <1>3, <2>1, <2>2 DEF RunnerControl
<1>. QED
  BY <1>1, <1>3, <1>4, NewRowOK DEF PTInit, RowInv

\* A row is still within the limits when some of the tracker's positions are
\* what it holds.
LEMMA PartOfHeld ==
  ASSUME LimitsKept, NEW pos, Holdings(pos) \subseteq Held
  PROVE  Cardinality(Holdings(pos)) <= MaxPositions
<1>1. IsFiniteSet(Held) /\ Cardinality(Held) \in Nat
  <2>1. Held \subseteq Netuids
    BY DEF Held, Holdings
  <2>. QED
    BY <2>1, FS_Subset, FS_CardinalityType, ConstantsAssumption
<1>2. Cardinality(Holdings(pos)) <= Cardinality(Held) /\ Cardinality(Holdings(pos)) \in Nat
  BY <1>1, FS_Subset, FS_CardinalityType
<1>. QED
  BY <1>1, <1>2, ConstantsAssumption DEF LimitsKept, PositionsBounded

\* What a statement leaves of the connection's row, the commit included.
Effect(stmt) ==
  /\ stmt[1] # "runtime" =>
       /\ conn'.free = conn.free
       /\ conn'.cooldowns = conn.cooldowns
       /\ conn'.peak = conn.peak
  /\ stmt[1] = "runtime" =>
       /\ conn'.free = free
       /\ conn'.cooldowns = cooldowns
       /\ conn'.peak = peak
  /\ stmt[1] \notin {"clear", "position"} => conn'.positions = conn.positions
  /\ stmt[1] = "clear" => conn'.positions = Empty
  /\ stmt[1] = "position" =>
       /\ stmt[2] \in Netuids /\ stmt = <<"position", stmt[2]>>
       /\ conn'.positions = [conn.positions EXCEPT ![stmt[2]] = positions[stmt[2]]]
  /\ stmt[1] # "history" => conn'.history = conn.history
  /\ stmt[1] = "history" => IsHistory(conn'.history, stmt[2].free, stmt[2].held)
  /\ stmt[1] # "trade" => conn'.trades = conn.trades
  /\ stmt[1] = "trade" => conn'.trades = Append(conn.trades, stmt[2])

\* The head of the list runs: its effect on the row, in a cycle or a handler.
LEMMA StepEffect ==
  ASSUME RowInv, Execute \/ Commit
  PROVE  /\ \E taken : todo \in Seq(Stmts(taken))
         /\ todo # <<>> /\ todo' = Tail(todo) /\ Head(todo) = todo[1] /\ 1 \in DOMAIN todo
         /\ Effect(todo[1])
         /\ Head(todo) = CommitStmt => disk' = conn' /\ conn' = conn
         /\ Head(todo) # CommitStmt => disk' = disk
         /\ UNCHANGED <<vars, alive, runner, faultVars>>
         /\ runner \in {"persist", "handler"} /\ alive
<1>1. PICK taken : todo \in Seq(Stmts(taken))
  BY DEF RowInv, RunnerControl
<1>2. todo # <<>> /\ todo' = Tail(todo) /\ UNCHANGED <<vars, alive, runner, faultVars>>
  BY DEF Execute, Commit
<1>3. runner \in {"persist", "handler"} /\ alive
  BY <1>2 DEF RowInv, RunnerControl
<1>4. Head(todo) = todo[1] /\ 1 \in DOMAIN todo /\ todo[1] \in Stmts(taken)
  BY <1>1, <1>2, TailFacts
<1>5. /\ Head(todo) = CommitStmt => disk' = conn' /\ conn' = conn
      /\ Head(todo) # CommitStmt => disk' = disk /\ conn' = Exec(conn, todo[1])
  BY <1>4 DEF Execute, Commit
<1>6. CASE Head(todo) = CommitStmt
  <2>1. todo[1][1] = "commit" /\ conn' = conn
    BY <1>4, <1>5, <1>6 DEF CommitStmt
  <2>2. Effect(todo[1])
    BY <2>1 DEF Effect
  <2>. QED
    BY <1>1, <1>2, <1>3, <1>4, <1>5, <2>2
<1>7. CASE Head(todo) # CommitStmt
  <2>. DEFINE stmt == todo[1]
  <2>1. stmt \in Stmts(taken) /\ stmt # CommitStmt
    BY <1>4, <1>7
  <2>2. IsRow(conn)
    BY DEF RowInv
  <2>. HIDE DEF stmt
  <2>3. /\ stmt[1] # "runtime" =>
             /\ Exec(conn, stmt).free = conn.free
             /\ Exec(conn, stmt).cooldowns = conn.cooldowns
             /\ Exec(conn, stmt).peak = conn.peak
        /\ stmt[1] = "runtime" =>
             /\ Exec(conn, stmt).free = free
             /\ Exec(conn, stmt).cooldowns = cooldowns
             /\ Exec(conn, stmt).peak = peak
        /\ stmt[1] \notin {"clear", "position"} =>
             Exec(conn, stmt).positions = conn.positions
        /\ stmt[1] = "clear" => Exec(conn, stmt).positions = Empty
        /\ stmt[1] = "position" =>
             /\ stmt[2] \in Netuids /\ stmt = <<"position", stmt[2]>>
             /\ Exec(conn, stmt).positions =
                  [conn.positions EXCEPT ![stmt[2]] = positions[stmt[2]]]
        /\ stmt[1] # "history" => Exec(conn, stmt).history = conn.history
        /\ stmt[1] = "history" =>
             IsHistory(Exec(conn, stmt).history, stmt[2].free, stmt[2].held)
        /\ stmt[1] # "trade" => Exec(conn, stmt).trades = conn.trades
        /\ stmt[1] = "trade" => Exec(conn, stmt).trades = Append(conn.trades, stmt[2])
    BY <2>1, <2>2, ExecEffect
  <2>4. conn' = Exec(conn, stmt)
    BY <1>5, <1>7 DEF stmt
  <2>5. Effect(stmt)
    BY <2>3, <2>4 DEF Effect
  <2>6. Effect(todo[1])
    BY <2>5 DEF stmt
  <2>. QED
    BY <1>1, <1>2, <1>3, <1>4, <1>5, <2>6
<1>. QED
  BY <1>6, <1>7

\* One statement keeps the connection's row within the limits.
LEMMA ExecuteKeepsRows ==
  ASSUME RowInv, Execute
  PROVE  RowInv'
<1>1. /\ todo # <<>> /\ Head(todo) # CommitStmt /\ conn' = Exec(conn, Head(todo))
      /\ locked' = TRUE /\ todo' = Tail(todo)
      /\ UNCHANGED <<vars, disk, alive, runner, crashes, interrupts>>
  BY DEF Execute, faultVars
<1>2. Control' /\ phase' = phase /\ Held' = Held /\ (LimitsKept => LimitsKept')
  BY <1>1, QuietTracker DEF RowInv
<1>3. PICK taken : todo \in Seq(Stmts(taken))
  BY DEF RowInv, RunnerControl
<1>4. /\ todo' \in Seq(Stmts(taken))
      /\ Len(todo) \in Nat /\ Len(todo) > 0
      /\ DOMAIN todo = 1 .. Len(todo)
      /\ DOMAIN todo' = 1 .. (Len(todo) - 1)
      /\ \A i \in DOMAIN todo' : i + 1 \in DOMAIN todo /\ todo'[i] = todo[i + 1]
      /\ Head(todo) = todo[1] /\ 1 \in DOMAIN todo
      /\ todo[1] \in Stmts(taken)
  BY <1>1, <1>3, TailFacts
<1>5. runner \in {"persist", "handler"} /\ alive /\ LimitsKept /\ Control /\ IsRow(conn)
  BY <1>1 DEF RowInv, RunnerControl
<1>. DEFINE stmt == todo[1]
<1>6. stmt \in Stmts(taken) /\ stmt # CommitStmt /\ conn' = Exec(conn, stmt)
  BY <1>1, <1>4
<1>7. IsRow(conn') /\ stmt[1] \in {"trade", "clear", "position", "history", "runtime"}
  BY <1>5, <1>6, ExecRow
<1>. HIDE DEF stmt
<1>20. Effect(stmt)
  BY StepEffect DEF stmt
<1>8. conn'.free >= ReserveTao
  <2>1. conn'.free = conn.free \/ conn'.free = free
    BY <1>20 DEF Effect
  <2>. QED
    BY <1>5, <2>1 DEF RowInv, RowLimits, LimitsKept, ReserveIntact
<1>9. CASE stmt[1] \notin {"clear", "position"}
  <2>1. conn'.positions = conn.positions
    BY <1>9, <1>20 DEF Effect
  <2>2. RowLimits(conn')
    BY <1>8, <2>1 DEF RowInv, RowLimits
  <2>3. ClearedFirst'
    <3>. SUFFICES ASSUME NEW i \in DOMAIN todo', todo'[i][1] = "position"
                  PROVE  \/ Holdings(conn'.positions) \subseteq Held'
                         \/ \E j \in DOMAIN todo' : j < i /\ todo'[j][1] = "clear"
      BY DEF ClearedFirst, Runs
    <3>1. i + 1 \in DOMAIN todo /\ todo[i + 1][1] = "position"
      BY <1>4
    <3>2. CASE Holdings(conn.positions) \subseteq Held
      BY <1>2, <2>1, <3>2
    <3>3. CASE \E j \in DOMAIN todo : j < i + 1 /\ todo[j][1] = "clear"
      <4>1. PICK j \in DOMAIN todo : j < i + 1 /\ todo[j][1] = "clear"
        BY <3>3
      <4>2. j # 1
        BY <1>9, <4>1 DEF stmt
      <4>3. j - 1 \in DOMAIN todo' /\ j - 1 < i /\ (j - 1) + 1 = j
        BY <1>4, <4>1, <4>2
      <4>4. todo'[j - 1] = todo[j]
        BY <1>4, <4>3
      <4>. QED
        BY <4>1, <4>3, <4>4
    <3>. QED
      BY <3>1, <3>2, <3>3 DEF RowInv, ClearedFirst, Runs
  <2>. QED
    BY <1>1, <1>2, <1>4, <1>5, <1>7, <2>2, <2>3 DEF RowInv, RunnerControl
<1>10. CASE stmt[1] \in {"clear", "position"}
  <2>1. Holdings(conn'.positions) \subseteq Held
    <3>1. CASE stmt[1] = "clear"
      <4>1. conn'.positions = Empty
        BY <3>1, <1>20 DEF Effect
      <4>. QED
        BY <4>1 DEF Empty, Holdings
    <3>2. CASE stmt[1] = "position"
      <4>1. Holdings(conn.positions) \subseteq Held
        BY <1>4, <3>2 DEF RowInv, ClearedFirst, Runs, stmt
      <4>2. /\ stmt[2] \in Netuids
            /\ conn'.positions = [conn.positions EXCEPT ![stmt[2]] = positions[stmt[2]]]
        BY <3>2, <1>20 DEF Effect
      <4>. QED
        BY <1>5, <4>1, <4>2 DEF IsRow, Held, Holdings
    <3>. QED
      BY <1>10, <3>1, <3>2
  <2>2. RowLimits(conn')
    BY <1>5, <1>8, <2>1, PartOfHeld DEF RowLimits
  <2>3. ClearedFirst'
    BY <1>2, <2>1 DEF ClearedFirst, Holdings
  <2>. QED
    BY <1>1, <1>2, <1>4, <1>5, <1>7, <2>2, <2>3 DEF RowInv, RunnerControl
<1>. QED
  BY <1>9, <1>10

\* Steps that leave the rows, and do not add position rows to write.
LEMMA NoPositionsToWrite ==
  ASSUME todo' \in {<<>>, HandlerCalls}
  PROVE  ClearedFirst' /\ \E taken : todo' \in Seq(Stmts(taken))
<1>1. CASE todo' = <<>>
  <2>1. DOMAIN todo' = {} /\ todo' \in Seq(Stmts(0))
    BY <1>1
  <2>. QED
    BY <2>1 DEF ClearedFirst
<1>2. CASE todo' = HandlerCalls
  <2>1. \A i \in DOMAIN todo' : todo'[i][1] # "position"
    BY <1>2, HandlerCallsShape
  <2>2. todo' \in Seq(Stmts(0))
    BY <1>2, HandlerCallsShape
  <2>. QED
    BY <2>1, <2>2 DEF ClearedFirst, Runs
<1>. QED
  BY <1>1, <1>2

\* Steps of the runner between cycles: the tracker and the rows stay.
LEMMA QuietRows ==
  ASSUME RowInv, UNCHANGED <<vars, conn, disk>>, alive' = alive,
         runner' \in {"idle", "due", "handler"}, runner' # "idle" => alive,
         phase = "idle", locked' \in BOOLEAN,
         todo' \in {<<>>, HandlerCalls}, todo' = <<>> \/ runner' = "handler",
         crashes' \in Nat, interrupts' \in Nat, crashes' + interrupts' <= MaxFaults
  PROVE  RowInv'
<1>1. Control' /\ phase' = phase /\ (LimitsKept => LimitsKept')
  BY QuietTracker DEF RowInv
<1>2. ClearedFirst' /\ \E taken : todo' \in Seq(Stmts(taken))
  BY NoPositionsToWrite
<1>3. RunnerControl'
  BY <1>1, <1>2 DEF RowInv, RunnerControl
<1>. QED
  BY <1>1, <1>2, <1>3 DEF RowInv

\* A step of the trading cycle.
LEMMA CycleRows ==
  ASSUME RowInv, Next, alive, alive' = alive, UNCHANGED <<conn, disk, todo, locked, faultVars>>,
         todo = <<>>, runner' = "cycle"
  PROVE  RowInv'
<1>1. Control' /\ LimitsKept'
  BY NextTypes, NextQueues, LimitsStep DEF RowInv, Control
<1>2. phase' \in {"idle", "exits", "entries"}
  BY DEF RowInv, Next, CycleStep, BeginCycle, ServeExit, SkipExit, EndExits,
         ServeEntry, SkipEntry, EndCycle
<1>3. ClearedFirst' /\ \E taken : todo' \in Seq(Stmts(taken))
  BY NoPositionsToWrite
<1>4. RunnerControl'
  BY <1>2, <1>3 DEF RowInv, RunnerControl, faultVars
<1>. QED
  BY <1>1, <1>2, <1>3, <1>4 DEF RowInv

LEMMA ScheduleRows ==
  ASSUME RowInv, Schedule
  PROVE  RowInv'
<1>1. /\ runner = "idle" /\ alive' = TRUE /\ runner' = "due"
      /\ UNCHANGED <<conn, disk, todo, locked, crashes, interrupts>> /\ CycleUnchanged
      /\ IF alive THEN UNCHANGED <<tracker, mark>> ELSE Remember(conn)
  BY DEF Schedule, dbVars, faultVars
<1>2. phase = "idle" /\ todo = <<>> /\ Control
  BY <1>1 DEF RowInv, RunnerControl
<1>3. Control' /\ phase' = "idle" /\ LimitsKept'
  <2>1. CASE alive
    <3>1. UNCHANGED vars
      BY <1>1, <2>1 DEF CycleUnchanged, vars, cycle
    <3>. QED
      BY <1>2, <2>1, <3>1, QuietTracker DEF RowInv
  <2>2. CASE ~alive
    BY <1>1, <1>2, <2>2, RememberTracker DEF RowInv
  <2>. QED
    BY <2>1, <2>2
<1>4. ClearedFirst' /\ \E taken : todo' \in Seq(Stmts(taken))
  BY <1>1, <1>2, NoPositionsToWrite
<1>5. RunnerControl'
  BY <1>1, <1>2, <1>3, <1>4 DEF RowInv, RunnerControl
<1>. QED
  BY <1>1, <1>3, <1>4, <1>5 DEF RowInv

LEMMA DropTraderRows ==
  ASSUME RowInv, DropTrader
  PROVE  RowInv'
<1>1. /\ runner = "idle" /\ alive' = FALSE /\ runner' = runner
      /\ UNCHANGED <<conn, disk, todo, locked, crashes, interrupts>> /\ CycleUnchanged
      /\ Forget
  BY DEF DropTrader, dbVars, faultVars
<1>2. phase = "idle" /\ todo = <<>> /\ Control
  BY <1>1 DEF RowInv, RunnerControl
<1>3. /\ phase' = "idle" /\ exits' = {} /\ entries' = {}
      /\ snaps' \in [Netuids -> Snapshots \cup {NoSnapshot}]
      /\ state'.free \in Nat /\ state'.held \subseteq Netuids
  BY <1>1, <1>2 DEF CycleUnchanged, Control, CycleTypes, Queues
<1>4. Control'
  BY <1>1, <1>3, ForgetTracker
<1>5. ClearedFirst' /\ \E taken : todo' \in Seq(Stmts(taken))
  BY <1>1, <1>2, NoPositionsToWrite
<1>6. RunnerControl'
  BY <1>1, <1>2, <1>3, <1>5 DEF RowInv, RunnerControl
<1>. QED
  BY <1>1, <1>3, <1>4, <1>5, <1>6 DEF RowInv

\* The rows of a whole cycle are cleared before they are inserted.
LEMMA StartPersistRows ==
  ASSUME RowInv, StartPersist
  PROVE  RowInv'
<1>1. /\ runner = "cycle" /\ runner' = "persist" /\ EndCycle
      /\ UNCHANGED <<conn, disk, alive, locked, crashes, interrupts>>
  BY DEF StartPersist, dbVars, faultVars
<1>2. PICK rows \in RowOrders : todo' = PersistCalls(rows)
  BY DEF StartPersist
<1>3. Control' /\ phase' = "idle" /\ LimitsKept' /\ alive
  <2>1. alive /\ Control /\ LimitsKept
    BY <1>1 DEF RowInv, RunnerControl
  <2>2. [Next]_vars
    BY <1>1 DEF Next
  <2>. QED
    BY <1>1, <2>1, <2>2, NextTypes, NextQueues, LimitsStep DEF Control, EndCycle
<1>4. PICK c \in DOMAIN todo' :
        /\ todo'[c] = <<"clear", "none">>
        /\ \A i \in DOMAIN todo' : i < c => todo'[i][1] # "position"
  BY <1>2, PersistCallsShape DEF RowInv
<1>5. todo' \in Seq(Stmts(state))
  BY <1>2, PersistCallsShape DEF RowInv
<1>6. ClearedFirst'
  <2>. SUFFICES ASSUME NEW i \in DOMAIN todo', todo'[i][1] = "position"
                PROVE  \E j \in DOMAIN todo' : j < i /\ todo'[j][1] = "clear"
    BY DEF ClearedFirst, Runs
  <2>1. DOMAIN todo' \subseteq Nat
    BY <1>5
  <2>2. i # c /\ ~(i < c)
    BY <1>4
  <2>3. c < i
    BY <1>4, <2>1, <2>2
  <2>. QED
    BY <1>4, <2>3
<1>7. RunnerControl'
  BY <1>1, <1>3, <1>5 DEF RowInv, RunnerControl
<1>. QED
  BY <1>1, <1>3, <1>6, <1>7 DEF RowInv

\* What the connection holds is durable, whoever commits it.
LEMMA CommitRows ==
  ASSUME RowInv, Commit
  PROVE  RowInv'
<1>1. /\ todo # <<>> /\ Head(todo) = CommitStmt /\ disk' = conn /\ locked' = FALSE
      /\ todo' = Tail(todo)
      /\ UNCHANGED <<vars, conn, alive, runner, crashes, interrupts>>
  BY DEF Commit, faultVars
<1>2. Control' /\ phase' = phase /\ Held' = Held /\ (LimitsKept => LimitsKept')
  BY <1>1, QuietTracker DEF RowInv
<1>3. PICK taken : todo \in Seq(Stmts(taken))
  BY DEF RowInv, RunnerControl
<1>4. /\ todo' \in Seq(Stmts(taken))
      /\ Len(todo) \in Nat /\ Len(todo) > 0
      /\ DOMAIN todo = 1 .. Len(todo)
      /\ DOMAIN todo' = 1 .. (Len(todo) - 1)
      /\ \A i \in DOMAIN todo' : i + 1 \in DOMAIN todo /\ todo'[i] = todo[i + 1]
      /\ Head(todo) = todo[1]
  BY <1>1, <1>3, TailFacts
<1>5. todo[1][1] = "commit"
  BY <1>1, <1>4 DEF CommitStmt
<1>6. ClearedFirst'
  <2>. SUFFICES ASSUME NEW i \in DOMAIN todo', todo'[i][1] = "position"
                PROVE  \/ Holdings(conn'.positions) \subseteq Held'
                       \/ \E j \in DOMAIN todo' : j < i /\ todo'[j][1] = "clear"
    BY DEF ClearedFirst, Runs
  <2>1. i + 1 \in DOMAIN todo /\ todo[i + 1][1] = "position"
    BY <1>4
  <2>2. CASE Holdings(conn.positions) \subseteq Held
    BY <1>1, <1>2, <2>2
  <2>3. CASE \E j \in DOMAIN todo : j < i + 1 /\ todo[j][1] = "clear"
    <3>1. PICK j \in DOMAIN todo : j < i + 1 /\ todo[j][1] = "clear"
      BY <2>3
    <3>2. j # 1
      BY <1>5, <3>1
    <3>3. j - 1 \in DOMAIN todo' /\ j - 1 < i /\ (j - 1) + 1 = j
      BY <1>4, <3>1, <3>2
    <3>. QED
      BY <1>4, <3>1, <3>3
  <2>. QED
    BY <2>1, <2>2, <2>3 DEF RowInv, ClearedFirst, Runs
<1>7. RunnerControl'
  BY <1>1, <1>2, <1>3, <1>4 DEF RowInv, RunnerControl
<1>. QED
  BY <1>1, <1>2, <1>6, <1>7 DEF RowInv

\* The API changes a flag of the row, and commits the rest of it.
LEMMA SetActiveRows ==
  ASSUME RowInv, NEW on, SetActive(on)
  PROVE  RowInv'
<1>1. /\ conn' = [conn EXCEPT !.active = on] /\ disk' = conn'
      /\ UNCHANGED <<vars, alive, runner, todo, locked, crashes, interrupts>>
  BY DEF SetActive, procVars, faultVars
<1>2. Control' /\ phase' = phase /\ Held' = Held /\ (LimitsKept => LimitsKept')
  BY <1>1, QuietTracker DEF RowInv
<1>3. conn'.free = conn.free /\ conn'.positions = conn.positions /\ IsRow(conn')
  BY <1>1 DEF RowInv, IsRow
<1>4. RowLimits(conn')
  BY <1>3 DEF RowInv, RowLimits
<1>5. ClearedFirst'
  BY <1>1, <1>2, <1>3 DEF RowInv, ClearedFirst, Runs
<1>6. RunnerControl'
  BY <1>1, <1>2 DEF RowInv, RunnerControl
<1>. QED
  BY <1>1, <1>2, <1>3, <1>4, <1>5, <1>6 DEF RowInv

LEMMA DieRows ==
  ASSUME RowInv, Die, crashes' \in Nat, interrupts' \in Nat,
         crashes' + interrupts' <= MaxFaults
  PROVE  RowInv'
<1>1. /\ conn' = disk /\ disk' = disk /\ alive' = FALSE /\ runner' = "idle"
      /\ todo' = <<>> /\ locked' = FALSE
  BY DEF Die
<1>2. Control' /\ phase' = "idle"
  BY DeadTracker
<1>3. ClearedFirst' /\ \E taken : todo' \in Seq(Stmts(taken))
  BY <1>1, NoPositionsToWrite
<1>4. RunnerControl'
  BY <1>1, <1>2, <1>3 DEF RunnerControl
<1>. QED
  BY <1>1, <1>2, <1>3, <1>4 DEF RowInv

LEMMA RowInvStep == RowInv /\ [PTNext]_allVars => RowInv'
<1>. SUFFICES ASSUME RowInv, [PTNext]_allVars PROVE RowInv'
  OBVIOUS
<1>0. /\ crashes \in Nat /\ interrupts \in Nat /\ crashes + interrupts <= MaxFaults
      /\ MaxFaults \in Nat /\ locked \in BOOLEAN /\ alive \in BOOLEAN
      /\ runner \in {"idle", "due", "cycle", "persist", "handler"}
      /\ runner # "idle" => alive
      /\ phase # "idle" => runner = "cycle"
      /\ runner \notin {"persist", "handler"} => todo = <<>>
  BY FaultsAssumption DEF RowInv, RunnerControl
<1>1. CASE Schedule
  BY <1>1, ScheduleRows
<1>2. CASE DropTrader
  BY <1>2, DropTraderRows
<1>3. CASE SkipCycle
  <2>1. UNCHANGED <<vars, conn, disk>> /\ alive' = alive
    BY <1>3 DEF SkipCycle, dbVars
  <2>2. /\ runner' \in {"idle", "due", "handler"} /\ (runner' # "idle" => alive)
        /\ phase = "idle" /\ locked' \in BOOLEAN
    BY <1>0, <1>3 DEF SkipCycle
  <2>3. todo' \in {<<>>, HandlerCalls} /\ (todo' = <<>> \/ runner' = "handler")
    BY <1>0, <1>3 DEF SkipCycle
  <2>4. crashes' \in Nat /\ interrupts' \in Nat /\ crashes' + interrupts' <= MaxFaults
    BY <1>0, <1>3 DEF SkipCycle, faultVars
  <2>. QED
    BY <2>1, <2>2, <2>3, <2>4, QuietRows
<1>4. CASE StartCycle
  <2>1. Next
    BY <1>4 DEF StartCycle, Next, CycleStep
  <2>2. UNCHANGED <<conn, disk, todo, locked, faultVars>> /\ alive' = alive
    BY <1>4 DEF StartCycle, dbVars
  <2>3. alive /\ todo = <<>> /\ runner' = "cycle"
    BY <1>0, <1>4 DEF StartCycle
  <2>. QED
    BY <2>1, <2>2, <2>3, CycleRows
<1>5. CASE Decide
  <2>1. Next
    BY <1>5 DEF Decide, Next, CycleStep
  <2>2. UNCHANGED <<conn, disk, todo, locked, faultVars>> /\ alive' = alive
    BY <1>5 DEF Decide, dbVars, procVars
  <2>3. alive /\ todo = <<>> /\ runner' = "cycle"
    BY <1>0, <1>5 DEF Decide, procVars
  <2>. QED
    BY <2>1, <2>2, <2>3, CycleRows
<1>6. CASE StartPersist
  BY <1>6, StartPersistRows
<1>7. CASE Execute
  BY <1>7, ExecuteKeepsRows
<1>8. CASE Commit
  BY <1>8, CommitRows
<1>9. CASE FinishCycle
  <2>1. UNCHANGED <<vars, conn, disk>> /\ alive' = alive
    BY <1>9 DEF FinishCycle, dbVars
  <2>2. /\ runner' \in {"idle", "due", "handler"} /\ (runner' # "idle" => alive)
        /\ phase = "idle" /\ locked' \in BOOLEAN
    BY <1>0, <1>9 DEF FinishCycle
  <2>3. todo' \in {<<>>, HandlerCalls} /\ (todo' = <<>> \/ runner' = "handler")
    BY <1>0, <1>9 DEF FinishCycle
  <2>4. crashes' \in Nat /\ interrupts' \in Nat /\ crashes' + interrupts' <= MaxFaults
    BY <1>0, <1>9 DEF FinishCycle, faultVars
  <2>. QED
    BY <2>1, <2>2, <2>3, <2>4, QuietRows
<1>10. CASE Pause \/ Resume
  BY <1>10, SetActiveRows DEF Pause, Resume
<1>11. CASE CycleRaises
  <2>1. UNCHANGED <<vars, conn, disk>> /\ alive' = alive
    BY <1>11 DEF CycleRaises, dbVars
  <2>2. /\ runner' \in {"idle", "due", "handler"} /\ (runner' # "idle" => alive)
        /\ phase = "idle" /\ locked' \in BOOLEAN
    BY <1>0, <1>11 DEF CycleRaises
  <2>3. todo' \in {<<>>, HandlerCalls} /\ (todo' = <<>> \/ runner' = "handler")
    BY <1>0, <1>11 DEF CycleRaises
  <2>4. crashes' \in Nat /\ interrupts' \in Nat /\ crashes' + interrupts' <= MaxFaults
    BY <1>0, <1>11 DEF CycleRaises, faultVars
  <2>. QED
    BY <2>1, <2>2, <2>3, <2>4, QuietRows
<1>12. CASE InterruptPersist
  <2>1. UNCHANGED <<vars, conn, disk>> /\ alive' = alive
    BY <1>12 DEF InterruptPersist, dbVars
  <2>2. /\ runner' \in {"idle", "due", "handler"} /\ (runner' # "idle" => alive)
        /\ phase = "idle" /\ locked' \in BOOLEAN
    BY <1>0, <1>12 DEF InterruptPersist
  <2>3. todo' \in {<<>>, HandlerCalls} /\ (todo' = <<>> \/ runner' = "handler")
    BY <1>0, <1>12 DEF InterruptPersist
  <2>4. crashes' \in Nat /\ interrupts' \in Nat /\ crashes' + interrupts' <= MaxFaults
    BY <1>0, <1>12 DEF InterruptPersist
  <2>. QED
    BY <2>1, <2>2, <2>3, <2>4, QuietRows
<1>13. CASE HandlerFails
  <2>1. UNCHANGED <<vars, conn, disk>> /\ alive' = alive
    BY <1>13 DEF HandlerFails, dbVars
  <2>2. /\ runner' \in {"idle", "due", "handler"} /\ (runner' # "idle" => alive)
        /\ phase = "idle" /\ locked' \in BOOLEAN
    BY <1>0, <1>13 DEF HandlerFails
  <2>3. todo' \in {<<>>, HandlerCalls} /\ (todo' = <<>> \/ runner' = "handler")
    BY <1>0, <1>13 DEF HandlerFails
  <2>4. crashes' \in Nat /\ interrupts' \in Nat /\ crashes' + interrupts' <= MaxFaults
    BY <1>0, <1>13 DEF HandlerFails
  <2>. QED
    BY <2>1, <2>2, <2>3, <2>4, QuietRows
<1>14. CASE Restart
  BY <1>0, <1>14, DieRows DEF Restart, faultVars
<1>15. CASE Crash
  <2>1. crashes' \in Nat /\ interrupts' \in Nat /\ crashes' + interrupts' <= MaxFaults
    BY <1>0, <1>15 DEF Crash
  <2>. QED
    BY <1>15, <2>1, DieRows DEF Crash
<1>16. CASE UNCHANGED allVars
  <2>1. UNCHANGED <<vars, conn, disk, alive, runner, todo, locked, crashes, interrupts>>
    BY <1>16 DEF allVars, dbVars, procVars, faultVars
  <2>2. Control' /\ phase' = phase /\ Held' = Held /\ (LimitsKept => LimitsKept')
    BY <2>1, QuietTracker DEF RowInv
  <2>. QED
    BY <2>1, <2>2 DEF RowInv, RunnerControl, ClearedFirst, Runs
<1>. QED
  BY <1>1, <1>2, <1>3, <1>4, <1>5, <1>6, <1>7, <1>8, <1>9, <1>10, <1>11, <1>12,
     <1>13, <1>14, <1>15, <1>16 DEF PTNext

THEOREM RowsStaySafe == PTSpec => []RowInv
BY InitRowInv, RowInvStep, PTL DEF PTSpec

\* The tracker, the runner and both copies of the rows have their types.
THEOREM PaperTypes == PTSpec => []PTTypeOK
<1>1. RowInv => PTTypeOK
  BY DEF RowInv, Control, RunnerControl, IsRow, PTTypeOK, TypeOK
<1>. QED
  BY <1>1, RowsStaySafe, PTL

\* Whatever crashes, timeouts and failing writes come, and whoever commits a
\* half-written row: the durable free TAO keeps the reserve and the durable
\* positions never exceed the limit.
THEOREM DurableRowsWithinLimits == PTSpec => []DurableLimits
<1>1. RowInv => DurableLimits
  BY DEF RowInv, RowLimits, DurableLimits
<1>. QED
  BY <1>1, RowsStaySafe, PTL

-------------------------------------------------------------------------------
(* Without faults the rows are the tracker's between cycles.               *)

\* A statement that still waits runs now or waits on.
LEMMA WaitsOn ==
  ASSUME NEW S, todo \in Seq(S), todo # <<>>, todo' = Tail(todo), NEW op
  PROVE  /\ Waits(op)' => Waits(op)
         /\ Waits(op) => todo[1][1] = op \/ Waits(op)'
<1>1. /\ Len(todo) \in Nat /\ Len(todo) > 0 /\ DOMAIN todo = 1 .. Len(todo)
      /\ DOMAIN todo' = 1 .. (Len(todo) - 1)
      /\ \A i \in DOMAIN todo' : i + 1 \in DOMAIN todo /\ todo'[i] = todo[i + 1]
  BY TailFacts
<1>2. Waits(op)' => Waits(op)
  BY <1>1 DEF Waits
<1>3. ASSUME NEW i \in DOMAIN todo, todo[i][1] = op, i # 1
      PROVE  Waits(op)'
  <2>1. i - 1 \in DOMAIN todo' /\ (i - 1) + 1 = i
    BY <1>1, <1>3
  <2>2. todo'[i - 1] = todo[i]
    BY <1>1, <2>1
  <2>. QED
    BY <1>3, <2>1, <2>2 DEF Waits
<1>. QED
  BY <1>2, <1>3 DEF Waits

\* The commit at the end stays at the end.
LEMMA CommitStays ==
  ASSUME NEW S, todo \in Seq(S), todo # <<>>, todo' = Tail(todo),
         todo[Len(todo)] = CommitStmt
  PROVE  /\ todo' # <<>> => todo'[Len(todo')] = CommitStmt
         /\ Head(todo) # CommitStmt => todo' # <<>>
<1>1. /\ todo' \in Seq(S)
      /\ Len(todo) \in Nat /\ Len(todo) > 0
      /\ Len(todo') = Len(todo) - 1 /\ DOMAIN todo' = 1 .. (Len(todo) - 1)
      /\ \A i \in DOMAIN todo' : todo'[i] = todo[i + 1]
      /\ Head(todo) = todo[1]
  BY TailFacts
<1>2. ASSUME todo' # <<>>
      PROVE  todo'[Len(todo')] = CommitStmt
  <2>1. Len(todo') > 0
    BY <1>1, <1>2
  <2>2. Len(todo') \in DOMAIN todo' /\ Len(todo') + 1 = Len(todo)
    BY <1>1, <2>1
  <2>. QED
    BY <1>1, <2>2
<1>3. ASSUME Head(todo) # CommitStmt
      PROVE  todo' # <<>>
  <2>1. Len(todo) # 1
    BY <1>1, <1>3
  <2>. QED
    BY <1>1, <2>1
<1>. QED
  BY <1>2, <1>3

\* Running the first statement keeps every part of the row done or pending.
LEMMA RunFirst ==
  ASSUME Control, IsRow(conn), Pending, runner = "persist", UNCHANGED vars,
         NEW taken, todo \in Seq(Stmts(taken)), todo # <<>>, todo' = Tail(todo),
         Effect(todo[1]), Head(todo) = CommitStmt => disk' = conn'
  PROVE  Pending'
<1>1. /\ Len(todo) \in Nat /\ Len(todo) > 0 /\ DOMAIN todo = 1 .. Len(todo)
      /\ DOMAIN todo' = 1 .. (Len(todo) - 1)
      /\ \A i \in DOMAIN todo' : i + 1 \in DOMAIN todo /\ todo'[i] = todo[i + 1]
  BY TailFacts
<1>2. /\ free' = free /\ positions' = positions /\ cooldowns' = cooldowns /\ peak' = peak
      /\ Held' = Held
  BY DEF vars, tracker, Held, Holdings
<1>3. \A op : /\ Waits(op)' => Waits(op)
              /\ Waits(op) => todo[1][1] = op \/ Waits(op)'
  BY WaitsOn
<1>. DEFINE stmt == todo[1]
<1>. HIDE DEF stmt
<1>4. Effect(stmt)
  BY DEF stmt
<1>5. (Waits("runtime") \/ RuntimeDone)'
  <2>1. Waits("runtime") \/ RuntimeDone
    BY DEF Pending
  <2>2. CASE stmt[1] = "runtime"
    BY <1>2, <1>4, <2>2 DEF Effect, RuntimeDone
  <2>3. CASE stmt[1] # "runtime"
    <3>1. Waits("runtime") => Waits("runtime")'
      BY <1>3, <2>3 DEF stmt
    <3>2. RuntimeDone => RuntimeDone'
      BY <1>2, <1>4, <2>3 DEF Effect, RuntimeDone
    <3>. QED
      BY <2>1, <3>1, <3>2
  <2>. QED
    BY <2>2, <2>3
<1>6. ASSUME NEW n \in Netuids
      PROVE  PositionPending(n)'
  <2>0. PositionPending(n)
    BY DEF Pending
  <2>1. CASE \E i \in DOMAIN todo :
               /\ todo[i] = <<"position", n>>
               /\ \A j \in DOMAIN todo : Runs("clear", j) => j < i
    <3>1. PICK i \in DOMAIN todo :
            /\ todo[i] = <<"position", n>>
            /\ \A j \in DOMAIN todo : Runs("clear", j) => j < i
      BY <2>1
    <3>2. CASE i = 1
      <4>1. stmt = <<"position", n>> /\ stmt[1] = "position" /\ stmt[2] = n
        BY <3>1, <3>2 DEF stmt
      <4>2. ~ Waits("clear")'
        <5>1. ~ Waits("clear")
          BY <1>1, <3>1, <3>2 DEF Waits, Runs
        <5>. QED
          BY <1>3, <5>1
      <4>3. conn'.positions[n] = positions[n]
        BY <1>4, <4>1 DEF Effect, IsRow
      <4>. QED
        BY <1>2, <4>2, <4>3 DEF PositionPending
    <3>3. CASE i # 1
      <4>1. i - 1 \in DOMAIN todo' /\ (i - 1) + 1 = i
        BY <1>1, <3>3
      <4>2. todo'[i - 1] = <<"position", n>>
        BY <1>1, <3>1, <4>1
      <4>3. ASSUME NEW j \in DOMAIN todo', todo'[j][1] = "clear"
            PROVE  j < i - 1
        <5>1. j + 1 \in DOMAIN todo /\ todo[j + 1][1] = "clear"
          BY <1>1, <4>3
        <5>2. j + 1 < i
          BY <3>1, <5>1 DEF Runs
        <5>. QED
          BY <1>1, <5>2
      <4>. QED
        BY <4>1, <4>2, <4>3 DEF PositionPending, Runs
    <3>. QED
      BY <3>2, <3>3
  <2>2. CASE ~Waits("clear") /\ conn.positions[n] = positions[n]
    <3>1. stmt[1] # "clear"
      BY <1>1, <2>2 DEF Waits, stmt
    <3>2. ~ Waits("clear")'
      BY <1>3, <2>2
    <3>3. conn'.positions[n] = positions[n]
      <4>1. CASE stmt[1] = "position"
        BY <1>4, <2>2, <4>1 DEF Effect, IsRow
      <4>2. CASE stmt[1] # "position"
        BY <1>4, <2>2, <3>1, <4>2 DEF Effect
      <4>. QED
        BY <4>1, <4>2
    <3>. QED
      BY <1>2, <3>2, <3>3 DEF PositionPending
  <2>3. CASE Waits("clear") /\ n \notin Held
    <3>1. CASE Waits("clear")'
      BY <1>2, <2>3, <3>1 DEF PositionPending
    <3>2. CASE ~ Waits("clear")'
      <4>1. stmt[1] = "clear"
        BY <1>3, <2>3, <3>2 DEF stmt
      <4>2. conn'.positions[n] = NoPosition
        BY <1>4, <4>1 DEF Effect, Empty
      <4>3. positions[n] = NoPosition
        BY <2>3 DEF Held, Holdings
      <4>. QED
        BY <1>2, <3>2, <4>2, <4>3 DEF PositionPending
    <3>. QED
      BY <3>1, <3>2
  <2>. QED
    BY <2>0, <2>1, <2>2, <2>3 DEF PositionPending
<1>7. HistoryPending'
  <2>0. HistoryPending
    BY DEF Pending
  <2>1. ASSUME NEW i \in DOMAIN todo', todo'[i][1] = "history"
        PROVE  todo'[i][2].free = free /\ todo'[i][2].held = Held
    BY <1>1, <2>0, <2>1 DEF HistoryPending
  <2>2. CASE stmt[1] = "history"
    <3>1. stmt[2].free = free /\ stmt[2].held = Held
      BY <1>1, <2>0, <2>2 DEF HistoryPending, stmt
    <3>2. IsHistory(conn'.history, free, Held)
      BY <1>4, <2>2, <3>1 DEF Effect
    <3>. QED
      BY <1>2, <2>1, <3>2 DEF HistoryPending
  <2>3. CASE stmt[1] # "history"
    <3>1. Waits("history") => Waits("history")'
      BY <1>3, <2>3 DEF stmt
    <3>2. conn'.history = conn.history
      BY <1>4, <2>3 DEF Effect
    <3>. QED
      BY <1>2, <2>0, <2>1, <3>1, <3>2 DEF HistoryPending
  <2>. QED
    BY <2>2, <2>3
<1>8. AllCommitted'
  <2>1. todo[Len(todo)] = CommitStmt
    BY DEF Pending, AllCommitted
  <2>2. /\ todo' # <<>> => todo'[Len(todo')] = CommitStmt
        /\ Head(todo) # CommitStmt => todo' # <<>>
    BY <2>1, CommitStays
  <2>. QED
    BY <2>2 DEF AllCommitted
<1>. QED
  BY <1>5, <1>6, <1>7, <1>8 DEF Pending

DbInv == RowInv /\ Pending /\ HandlerWrites /\ Settled

LEMMA InitDbInv == PTInit => DbInv
<1>. SUFFICES ASSUME PTInit PROVE DbInv
  OBVIOUS
<1>1. RowInv
  BY InitRowInv
<1>2. runner = "idle" /\ ~alive /\ todo = <<>> /\ conn = NewRow /\ disk = NewRow
  BY DEF PTInit
<1>3. conn.history = NoRow
  BY <1>2 DEF NewRow
<1>. QED
  BY <1>1, <1>2, <1>3 DEF DbInv, Pending, HandlerWrites, Settled, HistoryCurrent, AllCommitted

LEMMA WriteStep ==
  ASSUME DbInv, Execute \/ Commit
  PROVE  Pending' /\ HandlerWrites' /\ Settled'
<1>1. /\ RowInv /\ Control /\ IsRow(conn) /\ Pending /\ HandlerWrites /\ Settled
  BY DEF DbInv, RowInv
<1>2. PICK taken : todo \in Seq(Stmts(taken))
  BY <1>1, StepEffect
<1>3. /\ todo # <<>> /\ todo' = Tail(todo) /\ Head(todo) = todo[1] /\ 1 \in DOMAIN todo
      /\ Effect(todo[1])
      /\ Head(todo) = CommitStmt => disk' = conn' /\ conn' = conn
      /\ Head(todo) # CommitStmt => disk' = disk
      /\ UNCHANGED <<vars, alive, runner, faultVars>>
      /\ runner \in {"persist", "handler"} /\ alive
  BY <1>1, StepEffect
<1>4. CASE runner = "persist"
  <2>1. Pending'
    BY <1>1, <1>2, <1>3, <1>4, RunFirst
  <2>2. runner' = "persist"
    BY <1>3, <1>4
  <2>. QED
    BY <2>1, <2>2 DEF HandlerWrites, Settled
<1>5. CASE runner = "handler"
  <2>1. /\ Len(todo) \in Nat /\ Len(todo) > 0 /\ DOMAIN todo = 1 .. Len(todo)
        /\ \A i \in DOMAIN todo' : i + 1 \in DOMAIN todo /\ todo'[i] = todo[i + 1]
    BY <1>2, <1>3, TailFacts
  <2>2. HandlerWrites' /\ runner' = "handler" /\ Pending'
    BY <1>1, <1>3, <1>5, <2>1 DEF HandlerWrites, Pending
  <2>3. todo[1][1] \in {"runtime", "commit"}
    BY <1>1, <1>3, <1>5 DEF HandlerWrites
  <2>4. ASSUME FaultFree
        PROVE  RowsCurrent' /\ HistoryCurrent' /\ AllCommitted'
    <3>1. RowsCurrent /\ HistoryCurrent /\ AllCommitted
      BY <1>1, <1>3, <1>5, <2>4 DEF Settled
    <3>2. /\ free' = free /\ positions' = positions
          /\ cooldowns' = cooldowns /\ peak' = peak
      BY <1>3 DEF vars, tracker
    <3>3. /\ conn'.free = conn.free /\ conn'.cooldowns = conn.cooldowns
          /\ conn'.peak = conn.peak /\ conn'.positions = conn.positions
          /\ conn'.history = conn.history
      BY <1>3, <2>3, <3>1 DEF Effect, RowsCurrent, RuntimeDone
    <3>4. RowsCurrent' /\ HistoryCurrent'
      BY <3>1, <3>2, <3>3 DEF RowsCurrent, RuntimeDone, HistoryCurrent
    <3>5. AllCommitted'
      <4>1. todo[Len(todo)] = CommitStmt
        BY <1>3, <3>1 DEF AllCommitted
      <4>2. /\ todo' # <<>> => todo'[Len(todo')] = CommitStmt
            /\ Head(todo) # CommitStmt => todo' # <<>>
        BY <1>2, <1>3, <4>1, CommitStays
      <4>. QED
        BY <1>3, <4>2 DEF AllCommitted
    <3>. QED
      BY <3>4, <3>5
  <2>5. FaultFree' => FaultFree
    BY <1>3 DEF FaultFree, faultVars
  <2>. QED
    BY <2>2, <2>4, <2>5 DEF Settled
<1>. QED
  BY <1>3, <1>4, <1>5

\* A cycle begins to be written: every part of the row is pending.
LEMMA StartWriting ==
  ASSUME DbInv, StartPersist
  PROVE  Pending' /\ HandlerWrites' /\ Settled'
<1>1. /\ runner' = "persist" /\ EndCycle /\ UNCHANGED conn
  BY DEF StartPersist, dbVars
<1>2. PICK rows \in RowOrders : todo' = PersistCalls(rows)
  BY DEF StartPersist
<1>3. Control
  BY DEF DbInv, RowInv
<1>4. /\ todo' \in Seq(Stmts(state)) /\ todo' # <<>>
      /\ todo'[Len(todo')] = CommitStmt
      /\ \E i \in DOMAIN todo' : todo'[i] = <<"history", state>>
      /\ \E i \in DOMAIN todo' : todo'[i] = <<"runtime", "none">>
  BY <1>2, <1>3, PersistCallsShape
<1>5. PICK c \in DOMAIN todo' :
        /\ todo'[c] = <<"clear", "none">>
        /\ \A i \in DOMAIN todo' : todo'[i][1] = "clear" => i = c
        /\ \A n \in Held : \E i \in DOMAIN todo' :
             i > c /\ todo'[i] = <<"position", n>>
  BY <1>2, <1>3, PersistCallsShape
<1>6. /\ free' = free /\ positions' = positions /\ Held' = Held
      /\ state.free = free /\ state.held = Held
  BY <1>1, <1>3 DEF EndCycle, tracker, Held, Holdings, Control, Fresh
<1>7. Waits("runtime")'
  BY <1>4 DEF Waits
<1>8. ASSUME NEW n \in Netuids
      PROVE  PositionPending(n)'
  <2>1. CASE n \in Held
    <3>1. PICK i \in DOMAIN todo' : i > c /\ todo'[i] = <<"position", n>>
      BY <1>5, <2>1
    <3>2. \A j \in DOMAIN todo' : todo'[j][1] = "clear" => j < i
      BY <1>4, <1>5, <3>1
    <3>. QED
      BY <3>1, <3>2 DEF PositionPending, Runs
  <2>2. CASE n \notin Held
    BY <1>5, <1>6, <2>2 DEF PositionPending, Waits
  <2>. QED
    BY <2>1, <2>2
<1>9. HistoryPending'
  <2>1. ASSUME NEW i \in DOMAIN todo', todo'[i][1] = "history"
        PROVE  todo'[i][2].free = free /\ todo'[i][2].held = Held
    <3>1. todo'[i] \in Stmts(state)
      BY <1>4
    <3>2. todo'[i] = <<"history", state>>
      BY <2>1, <3>1 DEF Stmts, CommitStmt
    <3>. QED
      BY <1>6, <3>2
  <2>2. Waits("history")'
    BY <1>4 DEF Waits
  <2>. QED
    BY <1>6, <2>1, <2>2 DEF HistoryPending
<1>. QED
  BY <1>1, <1>4, <1>7, <1>8, <1>9 DEF Pending, AllCommitted, HandlerWrites, Settled

\* A cycle that is written to the end leaves the tracker's rows, committed.
LEMMA Written ==
  ASSUME DbInv, runner = "persist", todo = <<>>
  PROVE  RowsCurrent /\ HistoryCurrent /\ conn = disk
<1>1. ~ \E i : i \in DOMAIN todo
  OBVIOUS
<1>2. \A op : ~ Waits(op)
  BY <1>1 DEF Waits
<1>3. RuntimeDone /\ conn = disk
  BY <1>2 DEF DbInv, Pending, AllCommitted
<1>4. \A n \in Netuids : conn.positions[n] = positions[n]
  BY <1>1, <1>2 DEF DbInv, Pending, PositionPending
<1>5. conn.positions = positions
  BY <1>4 DEF DbInv, RowInv, IsRow, Control, CycleTypes
<1>6. IsHistory(conn.history, free, Held)
  BY <1>2 DEF DbInv, Pending, HistoryPending
<1>. QED
  BY <1>3, <1>5, <1>6 DEF RowsCurrent, HistoryCurrent, RuntimeDone, Held

\* Steps that leave the rows: the tracker must stay theirs.
LEMMA RowsStay ==
  ASSUME DbInv, UNCHANGED <<conn, disk>>, runner # "persist", runner' # "persist",
         FaultFree' => FaultFree,
         (todo' = <<>> /\ todo = <<>>) \/ todo' = HandlerCalls,
         FaultFree' /\ runner' # "cycle" /\ alive' => RowsCurrent'
  PROVE  Pending' /\ HandlerWrites' /\ Settled'
<1>1. HandlerWrites'
  BY HandlerCallsShape DEF HandlerWrites
<1>2. AllCommitted => AllCommitted'
  BY HandlerCallsShape DEF AllCommitted
<1>3. HistoryCurrent => HistoryCurrent'
  BY DEF HistoryCurrent
<1>. QED
  BY <1>1, <1>2, <1>3 DEF DbInv, Pending, Settled

LEMMA SetActiveSettled ==
  ASSUME DbInv, NEW on, SetActive(on)
  PROVE  Pending' /\ HandlerWrites' /\ Settled'
<1>1. /\ conn' = [conn EXCEPT !.active = on] /\ disk' = conn'
      /\ UNCHANGED <<vars, alive, runner, todo, crashes, interrupts>>
  BY DEF SetActive, procVars, faultVars
<1>2. /\ conn'.free = conn.free /\ conn'.positions = conn.positions
      /\ conn'.cooldowns = conn.cooldowns /\ conn'.peak = conn.peak
      /\ conn'.history = conn.history
  BY <1>1 DEF DbInv, RowInv, IsRow
<1>3. /\ free' = free /\ positions' = positions /\ cooldowns' = cooldowns /\ peak' = peak
      /\ Held' = Held
  BY <1>1 DEF vars, tracker, Held, Holdings
<1>4. /\ RuntimeDone => RuntimeDone'
      /\ RowsCurrent => RowsCurrent'
      /\ HistoryCurrent => HistoryCurrent'
  BY <1>2, <1>3 DEF RuntimeDone, RowsCurrent, HistoryCurrent
<1>5. \A op : Waits(op)' <=> Waits(op)
  BY <1>1 DEF Waits
<1>6. \A n \in Netuids : PositionPending(n) => PositionPending(n)'
  BY <1>1, <1>2, <1>3, <1>5 DEF PositionPending, Runs
<1>7. HistoryPending => HistoryPending'
  BY <1>1, <1>2, <1>3, <1>5 DEF HistoryPending
<1>8. AllCommitted => AllCommitted'
  BY <1>1 DEF AllCommitted
<1>9. Pending'
  BY <1>1, <1>4, <1>5, <1>6, <1>7, <1>8 DEF DbInv, Pending
<1>10. HandlerWrites'
  BY <1>1 DEF DbInv, HandlerWrites
<1>11. Settled'
  BY <1>1, <1>4, <1>8 DEF DbInv, Settled, FaultFree
<1>. QED
  BY <1>9, <1>10, <1>11

LEMMA DbInvStep == DbInv /\ [PTNext]_allVars => DbInv'
<1>. SUFFICES ASSUME DbInv, [PTNext]_allVars PROVE Pending' /\ HandlerWrites' /\ Settled'
  BY RowInvStep DEF DbInv
<1>0. /\ runner # "idle" => alive
      /\ runner \notin {"persist", "handler"} => todo = <<>>
      /\ runner \in {"idle", "due", "cycle", "persist", "handler"}
      /\ crashes \in Nat /\ interrupts \in Nat
      /\ Settled /\ Pending /\ HandlerWrites /\ IsRow(conn) /\ IsRow(disk)
  BY DEF DbInv, RowInv, RunnerControl
<1>1. CASE Schedule
  <2>1. /\ UNCHANGED <<conn, disk>> /\ runner = "idle" /\ runner' = "due"
        /\ FaultFree' = FaultFree /\ todo' = <<>> /\ todo = <<>>
    BY <1>0, <1>1 DEF Schedule, dbVars, faultVars, FaultFree
  <2>2. ASSUME FaultFree'
        PROVE  RowsCurrent'
    <3>1. CASE alive
      <4>1. RowsCurrent
        BY <1>0, <2>1, <2>2, <3>1 DEF Settled
      <4>2. UNCHANGED tracker
        BY <1>1, <3>1 DEF Schedule
      <4>. QED
        BY <2>1, <4>1, <4>2 DEF RowsCurrent, RuntimeDone, tracker
    <3>2. CASE ~ alive
      <4>1. Remember(conn)
        BY <1>1, <3>2 DEF Schedule
      <4>. QED
        BY <2>1, <4>1 DEF Remember, RowsCurrent, RuntimeDone
    <3>. QED
      BY <3>1, <3>2
  <2>. QED
    BY <2>1, <2>2, RowsStay
<1>2. CASE DropTrader
  <2>1. /\ UNCHANGED <<conn, disk>> /\ runner = "idle" /\ runner' = "idle" /\ ~alive'
        /\ FaultFree' = FaultFree /\ todo' = <<>> /\ todo = <<>>
    BY <1>0, <1>2 DEF DropTrader, dbVars, faultVars, FaultFree
  <2>. QED
    BY <2>1, RowsStay
<1>3. CASE SkipCycle
  <2>1. /\ UNCHANGED <<conn, disk>> /\ runner = "due" /\ runner' = "idle" /\ alive
        /\ FaultFree' = FaultFree /\ todo' = <<>> /\ todo = <<>> /\ UNCHANGED vars
    BY <1>0, <1>3 DEF SkipCycle, dbVars, faultVars, FaultFree
  <2>2. FaultFree' => RowsCurrent'
    BY <1>0, <2>1 DEF Settled, RowsCurrent, RuntimeDone, vars, tracker
  <2>. QED
    BY <2>1, <2>2, RowsStay
<1>4. CASE StartCycle
  <2>1. /\ UNCHANGED <<conn, disk>> /\ runner = "due" /\ runner' = "cycle"
        /\ FaultFree' = FaultFree /\ todo' = <<>> /\ todo = <<>>
    BY <1>0, <1>4 DEF StartCycle, dbVars, faultVars, FaultFree
  <2>. QED
    BY <2>1, RowsStay
<1>5. CASE Decide
  <2>1. /\ UNCHANGED <<conn, disk>> /\ runner = "cycle" /\ runner' = "cycle"
        /\ FaultFree' = FaultFree /\ todo' = <<>> /\ todo = <<>>
    BY <1>0, <1>5 DEF Decide, dbVars, procVars, faultVars, FaultFree
  <2>. QED
    BY <2>1, RowsStay
<1>6. CASE StartPersist
  BY <1>6, StartWriting
<1>7. CASE Execute \/ Commit
  BY <1>7, WriteStep
<1>8. CASE FinishCycle
  <2>1. /\ UNCHANGED <<conn, disk>> /\ runner \in {"persist", "handler"} /\ runner' = "idle"
        /\ FaultFree' = FaultFree /\ todo' = <<>> /\ todo = <<>> /\ UNCHANGED vars /\ alive
    BY <1>0, <1>8 DEF FinishCycle, dbVars, faultVars, FaultFree
  <2>2. FaultFree => RowsCurrent /\ HistoryCurrent /\ conn = disk
    <3>1. CASE runner = "persist"
      BY <2>1, <3>1, Written
    <3>2. CASE runner = "handler"
      BY <1>0, <2>1, <3>2 DEF Settled, AllCommitted
    <3>. QED
      BY <2>1, <3>1, <3>2
  <2>3. FaultFree' => RowsCurrent' /\ HistoryCurrent' /\ AllCommitted'
    BY <2>1, <2>2 DEF RowsCurrent, RuntimeDone, HistoryCurrent, AllCommitted, vars, tracker
  <2>. QED
    BY <2>1, <2>3 DEF Settled, Pending, HandlerWrites
<1>9. CASE Pause \/ Resume
  BY <1>9, SetActiveSettled DEF Pause, Resume
<1>10. CASE CycleRaises
  <2>1. /\ UNCHANGED <<conn, disk>> /\ runner = "due" /\ runner' = "handler" /\ alive
        /\ FaultFree' = FaultFree /\ todo' = HandlerCalls /\ UNCHANGED vars
    BY <1>0, <1>10 DEF CycleRaises, dbVars, faultVars, FaultFree
  <2>2. FaultFree' => RowsCurrent'
    BY <1>0, <2>1 DEF Settled, RowsCurrent, RuntimeDone, vars, tracker
  <2>. QED
    BY <2>1, <2>2, RowsStay
<1>11. CASE InterruptPersist \/ HandlerFails \/ Crash
  <2>1. ~FaultFree'
    BY <1>0, <1>11 DEF InterruptPersist, HandlerFails, Crash, FaultFree
  <2>2. \/ runner' = "idle"
        \/ runner' = "handler" /\ todo' = HandlerCalls
    <3>1. CASE InterruptPersist
      BY <3>1 DEF InterruptPersist
    <3>2. CASE HandlerFails
      BY <3>2 DEF HandlerFails
    <3>3. CASE Crash
      BY <3>3 DEF Crash, Die
    <3>. QED
      BY <1>11, <3>1, <3>2, <3>3
  <2>3. HandlerWrites'
    BY <2>2, HandlerCallsShape DEF HandlerWrites
  <2>. QED
    BY <2>1, <2>2, <2>3 DEF Pending, Settled
<1>12. CASE Restart
  <2>1. /\ runner \in {"idle", "due"} /\ conn' = disk /\ disk' = disk /\ ~alive'
        /\ runner' = "idle" /\ todo' = <<>> /\ todo = <<>> /\ FaultFree' = FaultFree
    BY <1>0, <1>12 DEF Restart, Die, faultVars, FaultFree
  <2>2. FaultFree => HistoryCurrent /\ conn = disk
    BY <1>0, <2>1 DEF Settled, AllCommitted
  <2>3. FaultFree' => HistoryCurrent' /\ AllCommitted'
    BY <2>1, <2>2 DEF HistoryCurrent, AllCommitted
  <2>. QED
    BY <2>1, <2>3 DEF Pending, HandlerWrites, Settled
<1>13. CASE UNCHANGED allVars
  <2>1. UNCHANGED <<vars, conn, disk, alive, runner, todo, crashes, interrupts>>
    BY <1>13 DEF allVars, dbVars, procVars, faultVars
  <2>2. /\ free' = free /\ positions' = positions /\ cooldowns' = cooldowns /\ peak' = peak
        /\ Held' = Held
    BY <2>1 DEF vars, tracker, Held, Holdings
  <2>3. Pending'
    BY <1>0, <2>1, <2>2 DEF Pending, RuntimeDone, PositionPending, HistoryPending,
                           AllCommitted, Waits, Runs
  <2>4. HandlerWrites' /\ Settled'
    BY <1>0, <2>1, <2>2 DEF HandlerWrites, Settled, RowsCurrent, RuntimeDone,
                           HistoryCurrent, AllCommitted, FaultFree
  <2>. QED
    BY <2>3, <2>4
<1>. QED
  BY <1>1, <1>2, <1>3, <1>4, <1>5, <1>6, <1>7, <1>8, <1>9, <1>10, <1>11, <1>12, <1>13
     DEF PTNext

LEMMA RowsAreCurrent == PTSpec => []DbInv
BY InitDbInv, DbInvStep, PTL DEF PTSpec

\* MemoryMatchesDatabase: as long as no write is interrupted, everything is
\* committed between cycles, a trader in memory is what hydration would
\* rebuild, and the last value-history row shows the runtime row's balances.
THEOREM DatabaseIsTheTrader == PTSpec => []MemoryMatchesDatabase
<1>1. DbInv => MemoryMatchesDatabase
  <2>. SUFFICES ASSUME DbInv, runner = "idle", FaultFree
                PROVE  /\ conn = disk
                       /\ alive => RowsCurrent
                       /\ HistoryCurrent
    BY DEF MemoryMatchesDatabase, RowsCurrent, RuntimeDone, HistoryCurrent, IsHistory
  <2>1. todo = <<>>
    BY DEF DbInv, RowInv, RunnerControl
  <2>. QED
    BY <2>1 DEF DbInv, Settled, AllCommitted
<1>. QED
  BY <1>1, RowsAreCurrent, PTL

\* CompleteCycleRepairs: whatever interrupted writes, crashes and pauses went
\* before, a cycle written to its end leaves the trader's rows, committed.
THEOREM CycleRepairs == PTSpec => CompleteCycleRepairs
<1>1. ASSUME DbInv, [PTNext]_allVars, runner = "persist", runner' = "idle", alive'
      PROVE  /\ conn = disk
             /\ disk.free = free /\ disk.positions = positions
             /\ disk.cooldowns = cooldowns /\ disk.peak = peak
  <2>1. FinishCycle
    BY <1>1 DEF PTNext, Schedule, DropTrader, SkipCycle, StartCycle, Decide, StartPersist,
                Execute, Commit, Pause, Resume, SetActive, procVars, CycleRaises,
                InterruptPersist, HandlerFails, Restart, Crash, Die, allVars
  <2>2. todo = <<>>
    BY <2>1 DEF FinishCycle
  <2>. QED
    BY <1>1, <2>2, Written DEF RowsCurrent, RuntimeDone
<1>. QED
  BY <1>1, RowsAreCurrent, PTL DEF PTSpec, CompleteCycleRepairs

\* While a trader is in memory, a step of its book is a step of the account.
LEMMA BookIsAccount ==
  ASSUME alive, alive'
  PROVE  /\ Book!AccountNext => Account!AccountNext
         /\ UNCHANGED <<free, positions, cooldowns>> => UNCHANGED Account!book
<1>1. ASSUME NEW n \in Netuids, Book!OpenPosition(n)
      PROVE  Account!OpenPosition(n)
  <2>1. Book!Open(positions') = Account!Open(positions')
    BY DEF Book!Open, Account!Open
  <2>2. Account!Cardinality(Account!Open(positions')) <= MaxPositions
    <3>1. Book!Cardinality(Book!Open(positions')) <= MaxPositions
      BY <1>1 DEF Book!OpenPosition
    <3>. QED
      BY <2>1, <3>1 DEF Book!Cardinality, Account!Cardinality
  <2>. QED
    BY <1>1, <2>1, <2>2 DEF Book!OpenPosition, Account!OpenPosition, Book!Open, Account!Open,
                            Book!UseHotkey, Account!UseHotkey
<1>2. ASSUME NEW n \in Netuids, Book!ClosePosition(n)
      PROVE  Account!ClosePosition(n)
  BY <1>2 DEF Book!ClosePosition, Account!ClosePosition, Book!Open, Account!Open,
              Book!UseHotkey, Account!UseHotkey
<1>. QED
  BY <1>1, <1>2 DEF Book!AccountNext, Account!AccountNext, Account!book

\* Hydration, a dropped trader and a restart between cycles do not change the
\* account, because the rows are the tracker's.
LEMMA AccountStep ==
  ASSUME DbInv, DbInv', [PTNext]_allVars, FaultFree'
  PROVE  Account!AccountNext \/ UNCHANGED Account!book
<1>0. /\ runner # "idle" => alive
      /\ runner \notin {"persist", "handler"} => todo = <<>>
      /\ crashes \in Nat /\ interrupts \in Nat
      /\ Settled /\ Control /\ IsRow(conn)
  BY DEF DbInv, RowInv, RunnerControl
<1>1. CASE Decide
  <2>1. alive /\ alive' = alive /\ Control
    BY <1>0, <1>1 DEF Decide, procVars
  <2>2. [Next]_vars
    BY <1>1 DEF Decide, Next, CycleStep
  <2>3. PositionsBounded'
    BY <2>1 DEF DbInv, RowInv, LimitsKept
  <2>4. Book!AccountNext \/ UNCHANGED <<free, positions, cooldowns>>
    BY <2>1, <2>2, <2>3, StepImplements
  <2>. QED
    BY <2>1, <2>4, BookIsAccount
<1>2. CASE UNCHANGED <<free, positions, cooldowns>> /\ alive /\ alive'
  BY <1>2, BookIsAccount
<1>3. CASE Schedule
  <2>1. CASE alive
    BY <1>2, <1>3, <2>1 DEF Schedule, tracker
  <2>2. CASE ~alive
    BY <1>3, <2>2 DEF Schedule, Remember, dbVars, Account!book
  <2>. QED
    BY <2>1, <2>2
<1>4. CASE DropTrader
  <2>1. runner = "idle" /\ alive /\ ~alive' /\ FaultFree /\ conn' = conn
    BY <1>4 DEF DropTrader, dbVars, faultVars, FaultFree
  <2>2. RowsCurrent
    BY <1>0, <2>1 DEF Settled
  <2>. QED
    BY <2>1, <2>2 DEF RowsCurrent, RuntimeDone, Account!book
<1>5. CASE Restart
  <2>1. runner \in {"idle", "due"} /\ alive /\ ~alive' /\ FaultFree /\ conn' = disk /\ todo = <<>>
    BY <1>0, <1>5 DEF Restart, Die, faultVars, FaultFree
  <2>2. RowsCurrent /\ conn = disk
    BY <1>0, <2>1 DEF Settled, AllCommitted
  <2>. QED
    BY <2>1, <2>2 DEF RowsCurrent, RuntimeDone, Account!book
<1>6. CASE Pause \/ Resume
  <2>1. PICK on : conn' = [conn EXCEPT !.active = on]
    BY <1>6 DEF Pause, Resume, SetActive
  <2>2. UNCHANGED <<free, positions, cooldowns, alive>>
    BY <1>6 DEF Pause, Resume, SetActive, procVars, vars, tracker
  <2>3. /\ conn'.free = conn.free /\ conn'.positions = conn.positions
        /\ conn'.cooldowns = conn.cooldowns
    BY <1>0, <2>1 DEF IsRow
  <2>. QED
    BY <2>2, <2>3 DEF Account!book
<1>7. CASE SkipCycle \/ FinishCycle \/ CycleRaises
  BY <1>7 DEF SkipCycle, FinishCycle, CycleRaises, vars, tracker, dbVars, Account!book
<1>8. CASE StartCycle
  BY <1>0, <1>2, <1>8 DEF StartCycle, BeginCycle, tracker
<1>9. CASE StartPersist
  BY <1>0, <1>2, <1>9 DEF StartPersist, EndCycle, tracker
<1>10. CASE Execute \/ Commit
  <2>1. alive /\ UNCHANGED <<vars, alive>>
    BY <1>10, StepEffect DEF DbInv
  <2>. QED
    BY <1>2, <2>1 DEF vars, tracker
<1>11. CASE InterruptPersist \/ HandlerFails \/ Crash
  BY <1>0, <1>11 DEF InterruptPersist, HandlerFails, Crash, FaultFree
<1>12. CASE UNCHANGED allVars
  BY <1>12 DEF allVars, vars, tracker, dbVars, procVars, Account!book
<1>. QED
  BY <1>1, <1>3, <1>4, <1>5, <1>6, <1>7, <1>8, <1>9, <1>10, <1>11, <1>12 DEF PTNext

\* KeepsPortfolio: as long as no write is interrupted, pauses, resumes, dropped
\* and rebuilt traders and restarts between cycles are invisible: the account
\* only opens or closes one position at a time within Portfolio's limits.
THEOREM PaperKeepsPortfolio == PTSpec => KeepsPortfolio
<1>1. PTInit => Account!AccountInit
  BY DEF PTInit, NewRow, Empty, Account!AccountInit, Hotkeys
<1>2. DbInv /\ DbInv' /\ [PTNext]_allVars =>
        [FaultFree' => Account!AccountNext]_(Account!book)
  BY AccountStep
<1>. QED
  BY <1>1, <1>2, RowsAreCurrent, PTL DEF PTSpec, KeepsPortfolio

-------------------------------------------------------------------------------
(* Trades are durable before what follows from them, whatever crashes.     *)

\* A longer log backs as much.
LEMMA BackedMore ==
  ASSUME NEW pos, NEW cd, NEW log, NEW more, Backed(pos, cd, log), log \subseteq more
  PROVE  Backed(pos, cd, more)
BY DEF Backed

\* With nothing left to insert, what is known is what is durable.
LEMMA NothingNew ==
  ASSUME runner # "cycle", conn.trades = disk.trades,
         \A i \in DOMAIN todo : todo[i][1] # "trade"
  PROVE  Known = Elems(disk.trades)
BY DEF Known, ToInsert

LEMMA ElemsAppend ==
  ASSUME NEW S, NEW s \in Seq(S), NEW e
  PROVE  Elems(Append(s, e)) = Elems(s) \cup {e}
<1>1. /\ Len(s) \in Nat /\ DOMAIN s = 1 .. Len(s)
      /\ DOMAIN Append(s, e) = 1 .. (Len(s) + 1)
      /\ \A i \in 1 .. Len(s) : Append(s, e)[i] = s[i]
      /\ Append(s, e)[Len(s) + 1] = e
  OBVIOUS
<1>2. Len(s) + 1 \in DOMAIN Append(s, e)
  BY <1>1
<1>3. \A i \in DOMAIN Append(s, e) : i \in DOMAIN s \/ i = Len(s) + 1
  BY <1>1
<1>4. \A i \in DOMAIN s : i \in DOMAIN Append(s, e)
  BY <1>1
<1>. QED
  BY <1>1, <1>2, <1>3, <1>4 DEF Elems

LEMMA InitLogInv == PTInit => LogInv
<1>. SUFFICES ASSUME PTInit PROVE LogInv
  OBVIOUS
<1>1. /\ todo = <<>> /\ ~alive /\ conn = disk
      /\ disk.positions = Empty /\ disk.cooldowns = [h \in Hotkeys |-> 0]
  BY DEF PTInit, NewRow
<1>2. TradesFirst
  BY <1>1 DEF TradesFirst
<1>3. Backed(disk.positions, disk.cooldowns, Elems(disk.trades))
  BY <1>1 DEF Backed, Empty, Holdings
<1>. QED
  BY <1>1, <1>2, <1>3 DEF LogInv

\* The head of the list runs: a trade joins the log, and whatever else is
\* written is backed already.
LEMMA LogWrites ==
  ASSUME RowInv, LogInv, Execute \/ Commit
  PROVE  LogInv'
<1>. SUFFICES ASSUME interrupts' = 0 PROVE LogInv'
  BY DEF LogInv
<1>1. /\ todo # <<>> /\ todo' = Tail(todo) /\ Head(todo) = todo[1] /\ 1 \in DOMAIN todo
      /\ Effect(todo[1])
      /\ Head(todo) = CommitStmt => disk' = conn' /\ conn' = conn
      /\ Head(todo) # CommitStmt => disk' = disk
      /\ UNCHANGED <<vars, alive, runner, faultVars>>
      /\ runner \in {"persist", "handler"} /\ alive
  BY StepEffect
<1>2. PICK taken : todo \in Seq(Stmts(taken))
  BY StepEffect
<1>3. /\ todo' \in Seq(Stmts(taken))
      /\ Len(todo) \in Nat /\ Len(todo) > 0 /\ DOMAIN todo = 1 .. Len(todo)
      /\ DOMAIN todo' = 1 .. (Len(todo) - 1)
      /\ \A i \in DOMAIN todo' : i + 1 \in DOMAIN todo /\ todo'[i] = todo[i + 1]
      /\ todo[1] \in Stmts(taken)
  BY <1>1, <1>2, TailFacts
<1>4. interrupts = 0
  BY <1>1 DEF faultVars
<1>5. /\ TradesFirst
      /\ conn.trades # disk.trades => todo[1] = CommitStmt
      /\ Elems(disk.trades) \subseteq Elems(conn.trades)
      /\ Backed(disk.positions, disk.cooldowns, Elems(disk.trades))
      /\ Backed(conn.positions, conn.cooldowns, Elems(disk.trades))
      /\ Backed(positions, cooldowns, Known)
  BY <1>1, <1>4 DEF LogInv
<1>6. /\ positions' = positions /\ cooldowns' = cooldowns /\ runner' = runner /\ alive' = alive
  BY <1>1 DEF vars, tracker
<1>7. TradesFirst'
  <2>1. ASSUME NEW i \in DOMAIN todo', todo'[i][1] = "trade"
        PROVE  i + 1 \in DOMAIN todo' /\ todo'[i + 1] = CommitStmt
    <3>1. i + 1 \in DOMAIN todo /\ todo[i + 1][1] = "trade"
      BY <1>3, <2>1
    <3>2. (i + 1) + 1 \in DOMAIN todo /\ todo[(i + 1) + 1] = CommitStmt
      BY <1>5, <3>1 DEF TradesFirst
    <3>3. i + 1 \in DOMAIN todo'
      BY <1>3, <3>2
    <3>. QED
      BY <1>3, <3>2, <3>3
  <2>2. ASSUME NEW i \in DOMAIN todo', NEW j \in DOMAIN todo',
               todo'[i][1] = "trade", todo'[j][1] \notin {"trade", "commit"}
        PROVE  i < j
    <3>1. /\ i + 1 \in DOMAIN todo /\ todo[i + 1][1] = "trade"
          /\ j + 1 \in DOMAIN todo /\ todo[j + 1][1] \notin {"trade", "commit"}
      BY <1>3, <2>2
    <3>2. i + 1 < j + 1
      BY <1>5, <3>1 DEF TradesFirst
    <3>. QED
      BY <1>3, <3>2
  <2>. QED
    BY <2>1, <2>2 DEF TradesFirst
<1>8. CASE Head(todo) = CommitStmt
  <2>1. disk' = conn /\ conn' = conn
    BY <1>1, <1>8
  <2>2. todo[1][1] = "commit"
    BY <1>1, <1>8 DEF CommitStmt
  <2>3. ToInsert \subseteq ToInsert'
    <3>1. ASSUME NEW i \in DOMAIN todo, todo[i][1] = "trade"
          PROVE  todo[i][2] \in ToInsert'
      <4>1. i - 1 \in DOMAIN todo' /\ (i - 1) + 1 = i
        BY <1>3, <2>2, <3>1
      <4>2. todo'[i - 1] = todo[i]
        BY <1>3, <4>1
      <4>. QED
        BY <3>1, <4>1, <4>2 DEF ToInsert
    <3>. QED
      BY <3>1 DEF ToInsert
  <2>4. Known \subseteq Known'
    BY <1>1, <1>5, <2>1, <2>3 DEF Known
  <2>5. Backed(positions, cooldowns, Known')
    BY <1>5, <2>4, BackedMore
  <2>6. Backed(conn.positions, conn.cooldowns, Elems(conn.trades))
    BY <1>5, BackedMore
  <2>. QED
    BY <1>6, <1>7, <2>1, <2>5, <2>6 DEF LogInv
<1>9. CASE todo[1][1] = "trade"
  <2>. DEFINE t == todo[1][2]
  <2>1. Head(todo) # CommitStmt /\ todo[1] # CommitStmt
    BY <1>1, <1>9 DEF CommitStmt
  <2>2. /\ disk' = disk /\ conn.trades = disk.trades
        /\ conn'.positions = conn.positions /\ conn'.cooldowns = conn.cooldowns
        /\ conn'.trades = Append(conn.trades, t)
    BY <1>1, <1>5, <1>9, <2>1 DEF Effect
  <2>. HIDE DEF t
  <2>3. Elems(conn'.trades) = Elems(conn.trades) \cup {t}
    BY <2>2, ElemsAppend DEF RowInv, IsRow
  <2>4. todo' # <<>> /\ todo'[1] = CommitStmt
    <3>1. 1 + 1 \in DOMAIN todo /\ todo[1 + 1] = CommitStmt
      BY <1>1, <1>5, <1>9 DEF TradesFirst
    <3>2. 1 \in DOMAIN todo'
      BY <1>3, <3>1
    <3>. QED
      BY <1>3, <3>1, <3>2
  <2>5. ToInsert \subseteq ToInsert' \cup {t}
    <3>1. ASSUME NEW i \in DOMAIN todo, todo[i][1] = "trade", i # 1
          PROVE  todo[i][2] \in ToInsert'
      <4>1. i - 1 \in DOMAIN todo' /\ (i - 1) + 1 = i
        BY <1>3, <3>1
      <4>2. todo'[i - 1] = todo[i]
        BY <1>3, <4>1
      <4>. QED
        BY <3>1, <4>1, <4>2 DEF ToInsert
    <3>. QED
      BY <3>1 DEF ToInsert, t
  <2>6. Known \subseteq Known'
    BY <1>1, <2>2, <2>3, <2>5 DEF Known
  <2>7. Backed(positions, cooldowns, Known')
    BY <1>5, <2>6, BackedMore
  <2>. QED
    BY <1>5, <1>6, <1>7, <2>2, <2>3, <2>4, <2>7 DEF LogInv
<1>10. CASE todo[1][1] \notin {"trade", "commit"}
  <2>1. Head(todo) # CommitStmt /\ todo[1] # CommitStmt
    BY <1>1, <1>10 DEF CommitStmt
  <2>2. /\ disk' = disk /\ conn.trades = disk.trades /\ conn'.trades = conn.trades
    BY <1>1, <1>5, <1>10, <2>1 DEF Effect
  <2>3. \A i \in DOMAIN todo : todo[i][1] # "trade"
    BY <1>1, <1>3, <1>5, <1>10 DEF TradesFirst
  <2>4. \A i \in DOMAIN todo' : todo'[i][1] # "trade"
    BY <1>3, <2>3
  <2>5. Known = Elems(disk.trades)
    BY <1>1, <2>2, <2>3, NothingNew
  <2>6. Known' = Elems(disk.trades)
    BY <1>1, <1>6, <2>2, <2>4 DEF Known, ToInsert
  <2>7. Backed(positions, cooldowns, Elems(disk.trades))
    BY <1>5, <2>5
  <2>8. Backed(conn'.positions, conn'.cooldowns, Elems(disk.trades))
    <3>1. \A h \in Hotkeys : conn'.cooldowns[h] \in {conn.cooldowns[h], cooldowns[h]}
      BY <1>1 DEF Effect
    <3>2. \A n \in Netuids :
            \/ conn'.positions[n] = conn.positions[n]
            \/ conn'.positions[n] = positions[n]
            \/ conn'.positions[n] = NoPosition
      <4>1. CASE todo[1][1] = "clear"
        BY <1>1, <4>1 DEF Effect, Empty
      <4>2. CASE todo[1][1] = "position"
        BY <1>1, <4>2 DEF Effect, RowInv, IsRow
      <4>3. CASE todo[1][1] \notin {"clear", "position"}
        BY <1>1, <4>3 DEF Effect
      <4>. QED
        BY <4>1, <4>2, <4>3
    <3>. QED
      BY <1>5, <2>7, <3>1, <3>2 DEF Backed, Holdings
  <2>. QED
    BY <1>5, <1>6, <1>7, <2>2, <2>6, <2>7, <2>8 DEF LogInv
<1>. QED
  BY <1>1, <1>3, <1>8, <1>9, <1>10 DEF Stmts, CommitStmt

\* A cycle's decisions trade only what they log.
LEMMA LogDecides ==
  ASSUME RowInv, LogInv, Decide
  PROVE  LogInv'
<1>. SUFFICES ASSUME interrupts' = 0 PROVE LogInv'
  BY DEF LogInv
<1>1. /\ runner = "cycle" /\ alive /\ todo = <<>> /\ Control
      /\ UNCHANGED <<conn, disk, alive, runner, todo, interrupts>>
  BY DEF Decide, dbVars, procVars, faultVars, RowInv, RunnerControl
<1>2. /\ TradesFirst /\ conn.trades = disk.trades
      /\ Backed(disk.positions, disk.cooldowns, Elems(disk.trades))
      /\ Backed(conn.positions, conn.cooldowns, Elems(disk.trades))
      /\ Backed(positions, cooldowns, Known)
  BY <1>1 DEF LogInv
<1>3. TradesFirst'
  BY <1>1, <1>2 DEF TradesFirst
<1>4. /\ trades \in Seq(Trade) /\ Len(trades) \in Nat /\ mark \in 0 .. Len(trades)
      /\ positions \in [Netuids -> Position \cup {NoPosition}]
      /\ cooldowns \in [Hotkeys -> Nat]
  BY <1>1, LoggedTrades DEF Control, CycleTypes
<1>5. SUFFICES Backed(positions', cooldowns', Known')
  BY <1>1, <1>2, <1>3 DEF LogInv
<1>6. ASSUME NEW t, trades' = Append(trades, t), mark' = mark
      PROVE  Known' = Known \cup {t}
  <2>1. /\ Len(trades') = Len(trades) + 1
        /\ \A i \in 1 .. Len(trades) : trades'[i] = trades[i]
        /\ trades'[Len(trades) + 1] = t
    BY <1>4, <1>6, LogAppend
  <2>2. \A i \in (mark + 1) .. Len(trades') : i \in (mark + 1) .. Len(trades) \/ i = Len(trades) + 1
    BY <1>4, <2>1
  <2>3. \A i \in (mark + 1) .. Len(trades) : i \in 1 .. Len(trades) /\ i \in (mark + 1) .. Len(trades')
    BY <1>4, <2>1
  <2>4. Len(trades) + 1 \in (mark + 1) .. Len(trades')
    BY <1>4, <2>1
  <2>5. NewTrades' = NewTrades \cup {t}
    BY <1>6, <2>1, <2>2, <2>3, <2>4 DEF NewTrades
  <2>. QED
    BY <1>1, <2>5 DEF Known, ToInsert
<1>7. CASE \E e \in exits : ServeExit(e)
  <2>1. PICK e \in exits : ServeExit(e)
    BY <1>7
  <2>2. PICK t \in Trade : IsExitTrade(t, e)
    BY <1>1, <2>1, ExitTrade
  <2>3. mark' = mark
    BY <2>1 DEF ServeExit
  <2>4. Known' = Known \cup {t}
    BY <1>6, <2>2, <2>3 DEF IsExitTrade
  <2>5. /\ positions' = [positions EXCEPT ![e.netuid] = NoPosition]
        /\ cooldowns' = [cooldowns EXCEPT ![t.hotkey] = t.block]
    BY <2>2 DEF IsExitTrade
  <2>6. \A n \in Holdings(positions') : n \in Holdings(positions) /\ positions'[n] = positions[n]
    BY <1>4, <2>5 DEF Holdings
  <2>7. \A h \in Hotkeys : \/ cooldowns'[h] = cooldowns[h]
                           \/ h = t.hotkey /\ cooldowns'[h] = t.block
    BY <1>4, <2>5
  <2>. QED
    BY <1>2, <2>4, <2>6, <2>7 DEF Backed
<1>8. CASE \E sig \in entries : ServeEntry(sig)
  <2>1. PICK sig \in entries : ServeEntry(sig)
    BY <1>8
  <2>2. PICK t \in Trade : IsEntryTrade(t, sig)
    BY <1>1, <2>1, EntryTrade
  <2>3. mark' = mark
    BY <2>1 DEF ServeEntry
  <2>4. Known' = Known \cup {t}
    BY <1>6, <2>2, <2>3 DEF IsEntryTrade
  <2>5. /\ positions' = [positions EXCEPT ![sig.netuid] =
                           [alpha |-> t.alpha, invested |-> t.tao,
                            hotkey |-> t.hotkey, block |-> t.block]]
        /\ cooldowns' = [cooldowns EXCEPT ![t.hotkey] = t.block]
        /\ t.dir = "buy" /\ t.netuid = sig.netuid
    BY <2>2 DEF IsEntryTrade
  <2>6. ASSUME NEW n \in Holdings(positions')
        PROVE  \/ n \in Holdings(positions) /\ positions'[n] = positions[n]
               \/ /\ n = t.netuid /\ positions'[n].invested = t.tao
                  /\ positions'[n].block = t.block
    BY <1>4, <2>5 DEF Holdings
  <2>7. \A h \in Hotkeys : \/ cooldowns'[h] = cooldowns[h]
                           \/ h = t.hotkey /\ cooldowns'[h] = t.block
    BY <1>4, <2>5
  <2>8. t.dir = "buy"
    BY <2>5
  <2>9. ASSUME NEW n \in Holdings(positions')
        PROVE  \E b \in Known' :
                 /\ b.dir = "buy" /\ b.netuid = n
                 /\ b.tao = positions'[n].invested /\ b.block = positions'[n].block
    <3>1. CASE n \in Holdings(positions) /\ positions'[n] = positions[n]
      BY <1>2, <2>4, <3>1 DEF Backed
    <3>2. CASE /\ n = t.netuid /\ positions'[n].invested = t.tao
               /\ positions'[n].block = t.block
      BY <2>4, <2>8, <3>2
    <3>. QED
      BY <2>6, <3>1, <3>2
  <2>10. ASSUME NEW h \in Hotkeys, cooldowns'[h] # 0
         PROVE  \E b \in Known' : b.hotkey = h /\ b.block = cooldowns'[h]
    BY <1>2, <2>4, <2>7, <2>10 DEF Backed
  <2>. QED
    BY <2>9, <2>10 DEF Backed
<1>9. CASE UNCHANGED <<positions, cooldowns, trades, mark>>
  <2>1. Known' = Known
    BY <1>1, <1>9 DEF Known, NewTrades, ToInsert
  <2>. QED
    BY <1>2, <1>9, <2>1
<1>10. \/ \E e \in exits : ServeExit(e)
       \/ \E sig \in entries : ServeEntry(sig)
       \/ UNCHANGED <<positions, cooldowns, trades, mark>>
  BY DEF Decide, SkipExit, EndExits, SkipEntry, tracker
<1>. QED
  BY <1>7, <1>8, <1>9, <1>10

\* What the cycle traded is now waiting to be inserted.
LEMMA LogStarts ==
  ASSUME RowInv, LogInv, StartPersist
  PROVE  LogInv'
<1>. SUFFICES ASSUME interrupts' = 0 PROVE LogInv'
  BY DEF LogInv
<1>1. /\ runner = "cycle" /\ runner' = "persist" /\ EndCycle /\ alive /\ todo = <<>>
      /\ UNCHANGED <<conn, disk, alive, interrupts>>
  BY DEF StartPersist, dbVars, faultVars, RowInv, RunnerControl
<1>2. /\ conn.trades = disk.trades
      /\ Backed(disk.positions, disk.cooldowns, Elems(disk.trades))
      /\ Backed(conn.positions, conn.cooldowns, Elems(disk.trades))
      /\ Backed(positions, cooldowns, Known)
  BY <1>1 DEF LogInv
<1>3. PICK rows \in RowOrders : todo' = PersistCalls(rows)
  BY DEF StartPersist
<1>4. /\ \A i \in DOMAIN todo' : todo'[i][1] = "trade" =>
           i + 1 \in DOMAIN todo' /\ todo'[i + 1] = CommitStmt
      /\ \A i \in DOMAIN todo', j \in DOMAIN todo' :
           todo'[i][1] = "trade" /\ todo'[j][1] \notin {"trade", "commit"} => i < j
      /\ \A t \in NewTrades : \E i \in DOMAIN todo' : todo'[i] = <<"trade", t>>
  BY <1>3, PersistCallsShape DEF RowInv
<1>5. TradesFirst'
  BY <1>4 DEF TradesFirst
<1>6. NewTrades \subseteq ToInsert'
  <2>1. ASSUME NEW t \in NewTrades
        PROVE  t \in ToInsert'
    <3>1. PICK i \in DOMAIN todo' : todo'[i] = <<"trade", t>>
      BY <1>4
    <3>2. todo'[i][1] = "trade" /\ todo'[i][2] = t
      BY <3>1
    <3>. QED
      BY <3>2 DEF ToInsert
  <2>. QED
    BY <2>1
<1>7. Known \subseteq Known'
  BY <1>1, <1>6 DEF Known, ToInsert
<1>8. positions' = positions /\ cooldowns' = cooldowns
  BY <1>1 DEF EndCycle, tracker
<1>9. Backed(positions, cooldowns, Known')
  BY <1>2, <1>7, BackedMore
<1>. QED
  BY <1>1, <1>2, <1>5, <1>8, <1>9 DEF LogInv

LEMMA LogInvStep == RowInv /\ LogInv /\ [PTNext]_allVars => LogInv'
<1>. SUFFICES ASSUME RowInv, LogInv, [PTNext]_allVars, interrupts' = 0 PROVE LogInv'
  BY DEF LogInv
<1>0. /\ runner # "idle" => alive
      /\ runner \notin {"persist", "handler"} => todo = <<>>
      /\ crashes \in Nat /\ interrupts \in Nat
      /\ IsRow(conn) /\ IsRow(disk) /\ Control
  BY DEF RowInv, RunnerControl
<1>1. ASSUME interrupts = 0
      PROVE  /\ TradesFirst
             /\ conn.trades # disk.trades => todo # <<>> /\ todo[1] = CommitStmt
             /\ Elems(disk.trades) \subseteq Elems(conn.trades)
             /\ Backed(disk.positions, disk.cooldowns, Elems(disk.trades))
             /\ Backed(conn.positions, conn.cooldowns, Elems(disk.trades))
             /\ alive => Backed(positions, cooldowns, Known)
  BY <1>1 DEF LogInv
<1>2. CASE /\ UNCHANGED <<conn, disk, interrupts>> /\ todo = <<>>
           /\ todo' \in {<<>>, HandlerCalls}
           /\ runner # "cycle" /\ (runner' = "cycle" => NewTrades' = {})
           /\ alive' => \/ alive /\ UNCHANGED <<positions, cooldowns>>
                        \/ positions' = conn.positions /\ cooldowns' = conn.cooldowns
  <2>1. \A i \in DOMAIN todo' : todo'[i][1] # "trade"
    BY <1>2, HandlerCallsShape
  <2>2. conn.trades = disk.trades
    BY <1>1, <1>2
  <2>3. Known = Elems(disk.trades) /\ Known' = Elems(disk.trades)
    BY <1>2, <2>1, <2>2 DEF Known, ToInsert
  <2>4. TradesFirst'
    BY <2>1 DEF TradesFirst
  <2>. QED
    BY <1>1, <1>2, <2>2, <2>3, <2>4 DEF LogInv
<1>3. CASE Schedule
  <2>1. CASE alive
    BY <1>0, <1>2, <1>3, <2>1 DEF Schedule, tracker, dbVars, faultVars
  <2>2. CASE ~alive
    BY <1>0, <1>2, <1>3, <2>2 DEF Schedule, Remember, dbVars, faultVars
  <2>. QED
    BY <2>1, <2>2
<1>4. CASE DropTrader
  BY <1>0, <1>2, <1>4 DEF DropTrader, dbVars, faultVars
<1>5. CASE SkipCycle
  BY <1>0, <1>2, <1>5 DEF SkipCycle, dbVars, faultVars, vars, tracker
<1>6. CASE StartCycle
  <2>1. NewTrades' = {}
    <3>1. mark' = Len(trades) /\ trades' = trades /\ Len(trades) \in Nat
      BY <1>0, <1>6, LoggedTrades DEF StartCycle, BeginCycle, tracker
    <3>2. (mark' + 1) .. Len(trades') = {}
      BY <3>1
    <3>. QED
      BY <3>2 DEF NewTrades
  <2>. QED
    BY <1>0, <1>2, <1>6, <2>1 DEF StartCycle, BeginCycle, dbVars, faultVars, tracker
<1>7. CASE Decide
  BY <1>7, LogDecides
<1>8. CASE StartPersist
  BY <1>8, LogStarts
<1>9. CASE Execute \/ Commit
  BY <1>9, LogWrites
<1>10. CASE FinishCycle
  BY <1>0, <1>2, <1>10 DEF FinishCycle, dbVars, faultVars, vars, tracker
<1>11. CASE Pause \/ Resume
  <2>1. PICK on : conn' = [conn EXCEPT !.active = on]
    BY <1>11 DEF Pause, Resume, SetActive
  <2>2. /\ disk' = conn' /\ UNCHANGED <<vars, alive, runner, todo, interrupts>>
    BY <1>11 DEF Pause, Resume, SetActive, procVars, faultVars
  <2>3. /\ conn'.trades = conn.trades /\ conn'.positions = conn.positions
        /\ conn'.cooldowns = conn.cooldowns
    BY <1>0, <2>1 DEF IsRow
  <2>4. positions' = positions /\ cooldowns' = cooldowns
    BY <2>2 DEF vars, tracker
  <2>5. Known \subseteq Known'
    BY <1>1, <2>2, <2>3 DEF Known, ToInsert, NewTrades, vars, tracker, cycle
  <2>6. Backed(conn.positions, conn.cooldowns, Elems(conn.trades))
    BY <1>1, <2>2, BackedMore
  <2>7. alive => Backed(positions, cooldowns, Known')
    BY <1>1, <2>2, <2>5, BackedMore
  <2>8. TradesFirst'
    BY <1>1, <2>2 DEF TradesFirst
  <2>. QED
    BY <2>2, <2>3, <2>4, <2>6, <2>7, <2>8 DEF LogInv
<1>12. CASE CycleRaises
  BY <1>0, <1>2, <1>12 DEF CycleRaises, dbVars, faultVars, vars, tracker
<1>13. CASE InterruptPersist \/ HandlerFails
  BY <1>0, <1>13 DEF InterruptPersist, HandlerFails
<1>14. CASE Restart \/ Crash
  <2>1. /\ conn' = disk /\ disk' = disk /\ ~alive' /\ todo' = <<>> /\ interrupts' = interrupts
    BY <1>14 DEF Restart, Crash, Die, faultVars
  <2>2. TradesFirst'
    BY <2>1 DEF TradesFirst
  <2>. QED
    BY <1>1, <2>1, <2>2 DEF LogInv
<1>15. CASE UNCHANGED allVars
  <2>1. UNCHANGED <<vars, conn, disk, alive, runner, todo, interrupts>>
    BY <1>15 DEF allVars, dbVars, procVars, faultVars
  <2>2. TradesFirst' = TradesFirst /\ Known' = Known
        /\ positions' = positions /\ cooldowns' = cooldowns
    BY <2>1 DEF TradesFirst, Known, ToInsert, NewTrades, vars, tracker, cycle
  <2>. QED
    BY <1>1, <2>1, <2>2 DEF LogInv
<1>. QED
  BY <1>3, <1>4, <1>5, <1>6, <1>7, <1>8, <1>9, <1>10, <1>11, <1>12, <1>13, <1>14, <1>15
     DEF PTNext

\* RowsHaveTrades: however often the process dies while it writes, a durable
\* position has its buy in the durable log, and a durable cooldown the trade
\* that began it.
THEOREM TradesBeforeRows == PTSpec => []RowsHaveTrades
<1>1. LogInv => RowsHaveTrades
  BY DEF LogInv, RowsHaveTrades, PositionsHaveTrades, CooldownsHaveTrades, Backed, Elems
<1>. QED
  BY <1>1, InitLogInv, LogInvStep, RowsStaySafe, PTL DEF PTSpec
-------------------------------------------------------------------------------
(* The figures over the rows.                                              *)

\* A buy realises nothing.
Booked == {t \in Trade : t.dir = "buy" => t.pnl = 0}

\* What a trade adds to the profit, and to the number of open positions.
Gain == [t \in Booked |-> t.pnl]
Side == [t \in Booked |-> IF t.dir = "buy" THEN 1 ELSE -1]

\* The weights of a log, and of the trades a list of statements still inserts.
Logged(w, log) == SumFunction([i \in DOMAIN log |-> w[log[i]]])
Inserts(list) == {i \in DOMAIN list : list[i][1] = "trade"}
Owed(w, list) == SumFunction([i \in Inserts(list) |-> w[list[i][2]]])

Unwritten(w) ==
  IF runner = "cycle" THEN Logged(w, Executed)
  ELSE IF runner = "persist" THEN Owed(w, todo)
  ELSE 0

Explained(f, pos, gain, opened) ==
  /\ f + Cost(pos) = Initial + gain
  /\ Cardinality(Holdings(pos)) = opened

\* The trades of the rows with those of the cycle, first decided and then still
\* to be inserted, explain the tracker while a cycle is decided or written, and
\* the rows otherwise.
Figures ==
  /\ conn.trades \in Seq(Booked)
  /\ runner = "cycle" => Executed \in Seq(Booked)
  /\ runner = "persist" => \A i \in Inserts(todo) : todo[i][2] \in Booked
  /\ LET gain == Logged(Gain, conn.trades) + Unwritten(Gain)
         opened == Logged(Side, conn.trades) + Unwritten(Side)
     IN  IF runner \in {"cycle", "persist"}
         THEN Explained(free, positions, gain, opened)
         ELSE Explained(conn.free, conn.positions, gain, opened)

FiguresInv == FaultFree => Figures

LEMMA Weights == Gain \in [Booked -> Int] /\ Side \in [Booked -> Int]
BY DEF Gain, Side, Booked, Trade

LEMMA LoggedIsInt ==
  ASSUME NEW w \in [Booked -> Int], NEW log \in Seq(Booked)
  PROVE  Logged(w, log) \in Int
<1>. DEFINE f == [i \in DOMAIN log |-> w[log[i]]]
<1>1. DOMAIN log = 1 .. Len(log) /\ Len(log) \in Nat
  OBVIOUS
<1>2. IsFiniteSet(DOMAIN log)
  BY <1>1, FS_Interval
<1>3. \A i \in DOMAIN log : f[i] \in Int
  <2>1. \A i \in DOMAIN log : log[i] \in Booked
    BY <1>1
  <2>. QED
    BY <2>1
<1>. QED
  BY <1>2, <1>3, SumIsInt DEF Logged, SumFunction

LEMMA LoggedNothing ==
  ASSUME NEW w
  PROVE  Logged(w, <<>>) = 0
<1>1. DOMAIN [i \in DOMAIN <<>> |-> w[<<>>[i]]] = {}
  OBVIOUS
<1>. QED
  BY <1>1, SumOfNone DEF Logged, SumFunction

LEMMA LoggedAppends ==
  ASSUME NEW w \in [Booked -> Int], NEW log \in Seq(Booked), NEW t \in Booked
  PROVE  /\ Logged(w, Append(log, t)) = Logged(w, log) + w[t]
         /\ Append(log, t) \in Seq(Booked)
<1>0. IsFiniteSet(DOMAIN log)
  <2>1. DOMAIN log = 1 .. Len(log) /\ Len(log) \in Nat
    OBVIOUS
  <2>. QED
    BY <2>1, FS_Interval
<1>. DEFINE longer == Append(log, t)
            last == Len(log) + 1
            shorter == [i \in DOMAIN log |-> w[log[i]]]
            after == [i \in DOMAIN longer |-> w[longer[i]]]
<1>1. /\ DOMAIN log = 1 .. Len(log) /\ Len(log) \in Nat
      /\ DOMAIN longer = DOMAIN log \cup {last} /\ last \notin DOMAIN log
      /\ \A i \in DOMAIN log : longer[i] = log[i]
      /\ longer[last] = t
  OBVIOUS
<1>2. IsFiniteSet(DOMAIN log)
  BY <1>0
<1>3. /\ \A i \in DOMAIN log : shorter[i] \in Int /\ after[i] = shorter[i]
      /\ after[last] = w[t] /\ w[t] \in Int
  <2>1. \A i \in DOMAIN log : log[i] \in Booked
    BY <1>1
  <2>2. \A i \in DOMAIN log : shorter[i] \in Int
    BY <2>1
  <2>3. \A i \in DOMAIN log : i \in DOMAIN longer /\ after[i] = shorter[i]
    BY <1>1
  <2>4. last \in DOMAIN longer /\ after[last] = w[t]
    BY <1>1
  <2>. QED
    BY <2>2, <2>3, <2>4
<1>4. /\ Logged(w, log) = SumFunctionOnSet(shorter, DOMAIN log)
      /\ Logged(w, longer) = SumFunctionOnSet(after, DOMAIN longer)
  BY DEF Logged, SumFunction
<1>. HIDE DEF shorter, after, longer, last
<1>5. SumFunctionOnSet(after, DOMAIN log \cup {last})
        = after[last] + SumFunctionOnSet(after, DOMAIN log)
  <2>1. \A x \in DOMAIN log \cup {last} : after[x] \in Int
    BY <1>3
  <2>. QED
    BY <1>1, <1>2, <2>1, SumWith
<1>6. SumFunctionOnSet(after, DOMAIN log) = SumFunctionOnSet(shorter, DOMAIN log)
  BY <1>2, <1>3, SumsAgree
<1>7. SumFunctionOnSet(shorter, DOMAIN log) \in Int
  BY <1>2, <1>3, SumIsInt
<1>8. longer \in Seq(Booked)
  BY DEF longer
<1>. QED
  BY <1>1, <1>3, <1>4, <1>5, <1>6, <1>7, <1>8 DEF longer

\* What a list owes is finite and whole.
LEMMA OwedIsInt ==
  ASSUME NEW w \in [Booked -> Int], NEW S, NEW list \in Seq(S),
         \A i \in Inserts(list) : list[i][2] \in Booked
  PROVE  /\ IsFiniteSet(Inserts(list))
         /\ \A i \in Inserts(list) : [k \in Inserts(list) |-> w[list[k][2]]][i] \in Int
         /\ Owed(w, list) \in Int
<1>1. IsFiniteSet(Inserts(list))
  <2>1. DOMAIN list = 1 .. Len(list) /\ Len(list) \in Nat
    OBVIOUS
  <2>2. IsFiniteSet(DOMAIN list)
    BY <2>1, FS_Interval
  <2>. QED
    BY <2>2, FS_Subset DEF Inserts
<1>. DEFINE f == [k \in Inserts(list) |-> w[list[k][2]]]
<1>2. \A i \in Inserts(list) : f[i] \in Int
  OBVIOUS
<1>3. Owed(w, list) = SumFunctionOnSet(f, Inserts(list))
  BY DEF Owed, SumFunction
<1>. HIDE DEF f
<1>4. Owed(w, list) \in Int
  BY <1>1, <1>2, <1>3, SumIsInt
<1>. QED
  BY <1>1, <1>2, <1>4 DEF f

\* Running the first statement pays what it inserts.
LEMMA OwedTail ==
  ASSUME NEW w \in [Booked -> Int], NEW S, NEW list \in Seq(S), list # <<>>,
         \A i \in Inserts(list) : list[i][2] \in Booked
  PROVE  /\ \A i \in Inserts(Tail(list)) : Tail(list)[i][2] \in Booked
         /\ list[1][1] = "trade" =>
              list[1][2] \in Booked /\ Owed(w, list) = w[list[1][2]] + Owed(w, Tail(list))
         /\ list[1][1] # "trade" => Owed(w, list) = Owed(w, Tail(list))
<1>. DEFINE rest == Tail(list)
            A == Inserts(list) \ {1}
            f == [i \in Inserts(list) |-> w[list[i][2]]]
            g == [i \in Inserts(rest) |-> w[rest[i][2]]]
            h == [x \in Inserts(rest) |-> x + 1]
<1>1. /\ Len(list) \in Nat /\ Len(list) > 0 /\ DOMAIN list = 1 .. Len(list)
      /\ DOMAIN rest = 1 .. (Len(list) - 1) /\ rest \in Seq(S)
      /\ \A i \in DOMAIN rest : rest[i] = list[i + 1]
  OBVIOUS
<1>. HIDE DEF rest
<1>2. \A i \in Inserts(rest) : i + 1 \in A /\ list[i + 1] = rest[i]
  BY <1>1 DEF Inserts
<1>3. \A i \in A : i - 1 \in Inserts(rest) /\ (i - 1) + 1 = i
  BY <1>1 DEF Inserts
<1>4. \A i \in Inserts(rest) : rest[i][2] \in Booked
  BY <1>2
<1>5. /\ IsFiniteSet(Inserts(list)) /\ \A i \in Inserts(list) : f[i] \in Int
      /\ Owed(w, list) = SumFunctionOnSet(f, Inserts(list))
  BY OwedIsInt DEF Owed, SumFunction
<1>6. /\ IsFiniteSet(Inserts(rest)) /\ \A i \in Inserts(rest) : g[i] \in Int
      /\ Owed(w, rest) = SumFunctionOnSet(g, Inserts(rest))
  BY <1>1, <1>4, OwedIsInt DEF Owed, SumFunction
<1>7. IsFiniteSet(A)
  BY <1>5, FS_Subset
<1>8. h \in [Inserts(rest) -> A]
  BY <1>2
<1>9. /\ \A x, y \in Inserts(rest) : h[x] = h[y] => x = y
      /\ \A z \in A : \E x \in Inserts(rest) : h[x] = z
  BY <1>1, <1>3 DEF Inserts
<1>10. \A x \in Inserts(rest) : f[h[x]] = g[x]
  <2>. SUFFICES ASSUME NEW x \in Inserts(rest) PROVE f[h[x]] = g[x]
    OBVIOUS
  <2>1. h[x] = x + 1 /\ x + 1 \in Inserts(list) /\ list[x + 1] = rest[x]
    BY <1>2
  <2>. QED
    BY <2>1
<1>. HIDE DEF f, g, h, A
<1>11. SumFunctionOnSet(g, Inserts(rest)) = SumFunctionOnSet(f, A)
  BY <1>6, <1>7, <1>8, <1>9, <1>10, SumRenamed
<1>12. CASE list[1][1] = "trade"
  <2>1. 1 \in Inserts(list)
    BY <1>1, <1>12 DEF Inserts
  <2>2. SumFunctionOnSet(f, Inserts(list)) = f[1] + SumFunctionOnSet(f, A)
    BY <1>5, <2>1, SumWithout DEF A
  <2>3. f[1] = w[list[1][2]]
    BY <2>1 DEF f
  <2>. QED
    BY <1>4, <1>5, <1>6, <1>11, <1>12, <2>1, <2>2, <2>3 DEF rest
<1>13. CASE list[1][1] # "trade"
  <2>1. A = Inserts(list)
    BY <1>13 DEF Inserts, A
  <2>. QED
    BY <1>4, <1>5, <1>6, <1>11, <1>13, <2>1 DEF rest
<1>. QED
  BY <1>12, <1>13
\* When a cycle begins to be written, all its trades are to be inserted.
LEMMA OwedAtStart ==
  ASSUME Control, Executed \in Seq(Booked), NEW rows \in RowOrders
  PROVE  LET calls == PersistCalls(rows)
         IN  /\ \A i \in Inserts(calls) : calls[i][2] \in Booked
             /\ \A w \in [Booked -> Int] : Owed(w, calls) = Logged(w, Executed)
<1>. DEFINE calls == PersistCalls(rows)
            L == Len(Executed)
<1>1. /\ L \in Nat /\ DOMAIN Executed = 1 .. L
      /\ \A k \in 1 .. L : Executed[k] \in Booked
  OBVIOUS
<1>2. /\ DOMAIN TradeCalls = 1 .. 2 * L
      /\ \A i \in 1 .. 2 * L :
           TradeCalls[i] = IF i % 2 = 1 THEN <<"trade", Executed[(i + 1) \div 2]>> ELSE CommitStmt
  BY DEF TradeCalls
<1>3. /\ calls \in Seq(Stmts(state))
      /\ \A i \in DOMAIN calls : calls[i][1] = "trade" => i \in DOMAIN TradeCalls
      /\ \A i \in DOMAIN TradeCalls : i \in DOMAIN calls /\ calls[i] = TradeCalls[i]
  BY PersistCallsShape
<1>. HIDE DEF calls, L
<1>4. ASSUME NEW k \in 1 .. L
      PROVE  2 * k - 1 \in Inserts(calls) /\ calls[2 * k - 1][2] = Executed[k]
  <2>1. 2 * k - 1 \in 1 .. 2 * L /\ (2 * k - 1) % 2 = 1 /\ ((2 * k - 1) + 1) \div 2 = k
    BY <1>1
  <2>2. calls[2 * k - 1] = <<"trade", Executed[k]>> /\ 2 * k - 1 \in DOMAIN calls
    BY <1>2, <1>3, <2>1
  <2>. QED
    BY <2>2 DEF Inserts
<1>5. ASSUME NEW i \in Inserts(calls)
      PROVE  \E k \in 1 .. L : 2 * k - 1 = i
  <2>1. i \in 1 .. 2 * L /\ TradeCalls[i][1] = "trade"
    BY <1>2, <1>3 DEF Inserts
  <2>2. i % 2 = 1
    BY <1>2, <2>1 DEF CommitStmt
  <2>3. (i + 1) \div 2 \in 1 .. L /\ 2 * ((i + 1) \div 2) - 1 = i
    BY <1>1, <2>1, <2>2
  <2>. QED
    BY <2>3
<1>6. \A i \in Inserts(calls) : calls[i][2] \in Booked
  BY <1>1, <1>4, <1>5
<1>7. ASSUME NEW w \in [Booked -> Int]
      PROVE  Owed(w, calls) = Logged(w, Executed)
  <2>. DEFINE f == [k \in DOMAIN Executed |-> w[Executed[k]]]
              g == [i \in Inserts(calls) |-> w[calls[i][2]]]
              h == [k \in 1 .. L |-> 2 * k - 1]
  <2>1. IsFiniteSet(Inserts(calls))
    BY <1>3, <1>6, OwedIsInt
  <2>0. IsFiniteSet(1 .. L)
    BY <1>1, FS_Interval
  <2>2. h \in [1 .. L -> Inserts(calls)]
    BY <1>4
  <2>3. /\ \A x, y \in 1 .. L : h[x] = h[y] => x = y
        /\ \A z \in Inserts(calls) : \E x \in 1 .. L : h[x] = z
    BY <1>1, <1>5
  <2>4. \A k \in 1 .. L : f[k] \in Int /\ g[h[k]] = f[k]
    <3>. SUFFICES ASSUME NEW k \in 1 .. L PROVE f[k] \in Int /\ g[h[k]] = f[k]
      OBVIOUS
    <3>1. h[k] = 2 * k - 1 /\ h[k] \in Inserts(calls) /\ calls[h[k]][2] = Executed[k]
      BY <1>4
    <3>. QED
      BY <1>1, <3>1
  <2>5. /\ Logged(w, Executed) = SumFunctionOnSet(f, 1 .. L)
        /\ Owed(w, calls) = SumFunctionOnSet(g, Inserts(calls))
    BY <1>1 DEF Logged, Owed, SumFunction
  <2>. DEFINE K == 1 .. L
  <2>. HIDE DEF f, g, h, K
  <2>6. /\ IsFiniteSet(K) /\ h \in [K -> Inserts(calls)]
        /\ \A x, y \in K : h[x] = h[y] => x = y
        /\ \A z \in Inserts(calls) : \E x \in K : h[x] = z
        /\ \A k \in K : f[k] \in Int /\ g[h[k]] = f[k]
    BY <2>0, <2>2, <2>3, <2>4 DEF K
  <2>7. SumFunctionOnSet(f, K) = SumFunctionOnSet(g, Inserts(calls))
    BY <2>1, <2>6, SumRenamed
  <2>. QED
    BY <2>5, <2>7 DEF K
<1>. QED
  BY <1>6, <1>7 DEF calls

\* A trade of the cycle joins those to be inserted.
LEMMA ExecutedGrows ==
  ASSUME Control, NEW t \in Trade, trades' = Append(trades, t), mark' = mark
  PROVE  Executed' = Append(Executed, t)
<1>1. trades \in Seq(Trade) /\ Len(trades) \in Nat /\ mark \in Nat /\ mark <= Len(trades)
  BY DEF Control, CycleTypes
<1>2. /\ trades' \in Seq(Trade) /\ Len(trades') = Len(trades) + 1
      /\ trades'[Len(trades) + 1] = t
      /\ \A i \in 1 .. Len(trades) : trades'[i] = trades[i]
  BY <1>1
<1>. DEFINE k == Len(trades) - mark
<1>3. /\ Executed \in Seq(Trade) /\ Len(Executed) = k
      /\ \A i \in 1 .. k : Executed[i] = trades[mark + i]
  BY <1>1 DEF Executed
<1>4. /\ Executed' \in Seq(Trade) /\ Len(Executed') = k + 1
      /\ \A i \in 1 .. (k + 1) : Executed'[i] = trades'[mark + i]
  <2>1. Executed' = SubSeq(trades', mark + 1, Len(trades) + 1)
    BY <1>2 DEF Executed
  <2>2. ASSUME NEW s \in Seq(Trade), NEW a \in Nat, NEW b \in Nat, a <= b, b = Len(s)
        PROVE  /\ SubSeq(s, a + 1, b) \in Seq(Trade) /\ Len(SubSeq(s, a + 1, b)) = b - a
               /\ \A i \in 1 .. (b - a) : SubSeq(s, a + 1, b)[i] = s[a + i]
    BY <2>2
  <2>3. /\ mark \in Nat /\ Len(trades) + 1 \in Nat /\ mark <= Len(trades) + 1
        /\ (Len(trades) + 1) - mark = k + 1
    BY <1>1
  <2>. HIDE DEF k
  <2>4. /\ SubSeq(trades', mark + 1, Len(trades) + 1) \in Seq(Trade)
        /\ Len(SubSeq(trades', mark + 1, Len(trades) + 1)) = (Len(trades) + 1) - mark
        /\ \A i \in 1 .. ((Len(trades) + 1) - mark) :
             SubSeq(trades', mark + 1, Len(trades) + 1)[i] = trades'[mark + i]
    <3>1. trades' \in Seq(Trade) /\ Len(trades) + 1 = Len(trades')
      BY <1>2
    <3>. HIDE <1>1, <1>2, <1>3
    <3>. QED
      BY <2>2, <2>3, <3>1
  <2>. QED
    BY <2>1, <2>3, <2>4, Zenon
<1>5. k \in Nat
  BY <1>1
<1>6. ASSUME NEW i \in 1 .. (k + 1)
      PROVE  Executed'[i] = Append(Executed, t)[i]
  <2>1. CASE i = k + 1
    <3>1. mark + i = Len(trades) + 1
      BY <1>1, <2>1
    <3>2. Append(Executed, t)[i] = t
      BY <1>3, <1>5, <2>1
    <3>. QED
      BY <1>2, <1>4, <3>1, <3>2
  <2>2. CASE i \in 1 .. k
    <3>1. mark + i \in 1 .. Len(trades)
      BY <1>1, <2>2
    <3>2. Append(Executed, t)[i] = Executed[i]
      BY <1>3, <1>5, <2>2
    <3>. QED
      BY <1>2, <1>3, <1>4, <2>2, <3>1, <3>2
  <2>3. i = k + 1 \/ i \in 1 .. k
    <3>. HIDE DEF k
    <3>. QED
      BY <1>5
  <2>. QED
    BY <2>1, <2>2, <2>3
<1>. HIDE DEF k
<1>7. Append(Executed, t) \in Seq(Trade) /\ Len(Append(Executed, t)) = k + 1
  BY <1>3
<1>. QED
  BY <1>4, <1>6, <1>7

\* What a decision changes: nothing, or one trade with its effect on the book.
TradeMade(t) ==
  /\ t \in Booked
  /\ trades' = Append(trades, t) /\ mark' = mark
  /\ free' + Cost(positions') = free + Cost(positions) + Gain[t]
  /\ Cardinality(Holdings(positions')) = Cardinality(Holdings(positions)) + Side[t]

LEMMA SaleMade ==
  ASSUME Control, NEW e \in exits, ServeExit(e)
  PROVE  \E t : TradeMade(t)
<1>. DEFINE n == e.netuid
            p == positions[n]
            tao == SellTao(p.alpha, snaps[n].tao_in, snaps[n].alpha_in)
            t == [dir |-> "sell", netuid |-> n, tao |-> tao,
                  alpha |-> p.alpha, hotkey |-> p.hotkey, block |-> snaps[n].block,
                  pnl |-> tao - p.invested, drain |-> e.drain]
<1>1. /\ CycleTypes /\ n \in Held /\ snaps[n] # NoSnapshot /\ e.drain \in BOOLEAN
      /\ Sell(n, snaps[n], e.drain)
  BY ServedExit DEF Control
<1>2. /\ free' = free + tao
      /\ positions' = [positions EXCEPT ![n] = NoPosition]
      /\ trades' = Append(trades, t) /\ mark' = mark
  BY <1>1 DEF Sell, ServeExit
<1>3. /\ tao \in Nat /\ n \in Netuids /\ p.alpha \in Nat /\ p.invested \in Nat
      /\ p.hotkey \in Hotkeys /\ snaps[n].block \in Nat
  BY <1>1, SoldPosition
<1>. HIDE DEF tao
<1>4. t \in Booked /\ t.pnl = tao - p.invested /\ t.dir = "sell"
  BY <1>1, <1>3 DEF Booked, Trade
<1>5. BookTypes(positions) /\ n \in Holdings(positions) /\ free \in Nat
  BY <1>1 DEF CycleTypes, BookTypes, Held
<1>. HIDE DEF t, n
<1>6. Gain[t] = tao - p.invested /\ Side[t] = -1
  BY <1>4 DEF Gain, Side
<1>7. Cost(positions') = Cost(positions) - p.invested /\ Cost(positions) \in Nat
  BY <1>2, <1>5, CostOfClosing, CostIsNat
<1>8. Holdings(positions') = Holdings(positions) \ {n}
  BY <1>2, <1>5 DEF Holdings, BookTypes
<1>9. IsFiniteSet(Holdings(positions))
  BY FS_Subset, ConstantsAssumption DEF Holdings
<1>10. /\ Cardinality(Holdings(positions')) = Cardinality(Holdings(positions)) - 1
       /\ Cardinality(Holdings(positions)) \in Nat
  BY <1>5, <1>8, <1>9, FS_RemoveElement, FS_CardinalityType
<1>11. free' + Cost(positions') = free + Cost(positions) + Gain[t]
  BY <1>2, <1>3, <1>5, <1>6, <1>7
<1>. QED
  BY <1>2, <1>4, <1>6, <1>10, <1>11 DEF TradeMade

LEMMA PurchaseMade ==
  ASSUME Control, NEW sig \in entries, ServeEntry(sig)
  PROVE  \E t : TradeMade(t)
<1>. DEFINE n == sig.netuid
            b == snaps[n].block
<1>1. PICK amount \in Nat, alpha \in Nat, h \in Hotkeys :
        /\ amount + ReserveTao <= free
        /\ free' = free - amount
        /\ positions' = [positions EXCEPT ![n] =
             [alpha |-> alpha, invested |-> amount, hotkey |-> h, block |-> b]]
        /\ trades' = Append(trades,
             [dir |-> "buy", netuid |-> n, tao |-> amount, alpha |-> alpha,
              hotkey |-> h, block |-> b, pnl |-> 0, drain |-> FALSE])
  BY ServeEntryEffect
<1>2. n \in Netuids /\ n \notin Held /\ b \in Nat
  BY ServeEntryEffect
<1>3. mark' = mark
  BY DEF ServeEntry
<1>. HIDE DEF n, b
<1>. DEFINE p == [alpha |-> alpha, invested |-> amount, hotkey |-> h, block |-> b]
            t == [dir |-> "buy", netuid |-> n, tao |-> amount, alpha |-> alpha,
                  hotkey |-> h, block |-> b, pnl |-> 0, drain |-> FALSE]
<1>4. /\ p \in Position /\ p # NoPosition /\ p.invested = amount
      /\ t \in Booked /\ t.pnl = 0 /\ t.dir = "buy"
  BY <1>2, ConstantsAssumption DEF Position, Trade, Booked
<1>5. positions' = [positions EXCEPT ![n] = p] /\ trades' = Append(trades, t)
  BY <1>1
<1>. HIDE DEF p, t
<1>6. BookTypes(positions) /\ positions[n] = NoPosition /\ free \in Nat
  BY <1>2 DEF Control, CycleTypes, BookTypes, Held, Holdings
<1>7. Gain[t] = 0 /\ Side[t] = 1
  BY <1>4 DEF Gain, Side
<1>8. Cost(positions') = Cost(positions) + amount /\ Cost(positions) \in Nat
  BY <1>2, <1>4, <1>5, <1>6, CostOfOpening, CostIsNat
<1>9. Holdings(positions') = Holdings(positions) \cup {n} /\ n \notin Holdings(positions)
  BY <1>2, <1>4, <1>5, <1>6 DEF Holdings, BookTypes
<1>10. IsFiniteSet(Holdings(positions))
  BY FS_Subset, ConstantsAssumption DEF Holdings
<1>11. Cardinality(Holdings(positions')) = Cardinality(Holdings(positions)) + 1
  BY <1>9, <1>10, FS_AddElement
<1>12. free' + Cost(positions') = free + Cost(positions) + Gain[t]
  BY <1>1, <1>6, <1>7, <1>8
<1>. QED
  BY <1>3, <1>4, <1>5, <1>7, <1>11, <1>12 DEF TradeMade
\* Steps that change neither the rows' balances nor what is unwritten.
LEMMA FiguresSame ==
  ASSUME FiguresInv, FaultFree' => FaultFree,
         FaultFree' =>
           /\ conn'.free = conn.free /\ conn'.positions = conn.positions
           /\ conn'.trades = conn.trades,
         \/ /\ runner \notin {"cycle", "persist"} /\ runner' \notin {"cycle", "persist"}
         \/ UNCHANGED <<vars, runner, todo>>
  PROVE  FiguresInv'
<1>. SUFFICES ASSUME FaultFree' PROVE Figures'
  BY DEF FiguresInv
<1>1. /\ Figures
      /\ conn'.free = conn.free /\ conn'.positions = conn.positions
      /\ conn'.trades = conn.trades
  BY DEF FiguresInv
<1>2. CASE runner \notin {"cycle", "persist"} /\ runner' \notin {"cycle", "persist"}
  BY <1>1, <1>2 DEF Figures, Unwritten
<1>3. CASE UNCHANGED <<vars, runner, todo>>
  <2>1. /\ runner' = runner /\ todo' = todo /\ Executed' = Executed
        /\ free' = free /\ positions' = positions
    BY <1>3 DEF vars, tracker, cycle, Executed
  <2>. QED
    BY <1>1, <2>1 DEF Figures, Unwritten
<1>. QED
  BY <1>2, <1>3

LEMMA StartCycleFigures ==
  ASSUME DbInv, FiguresInv, StartCycle
  PROVE  FiguresInv'
<1>1. /\ runner = "due" /\ runner' = "cycle" /\ UNCHANGED <<conn, faultVars>>
      /\ free' = free /\ positions' = positions /\ trades' = trades
      /\ mark' = Len(trades)
  BY DEF StartCycle, BeginCycle, dbVars, tracker
<1>. SUFFICES ASSUME FaultFree PROVE Figures'
  BY <1>1 DEF FiguresInv, FaultFree, faultVars
<1>2. Figures /\ RowsCurrent /\ trades \in Seq(Trade)
  BY <1>1 DEF FiguresInv, DbInv, Settled, RowInv, RunnerControl, Control, CycleTypes
<1>3. Executed' = <<>>
  <2>1. Executed' = SubSeq(trades, Len(trades) + 1, Len(trades))
    BY <1>1 DEF Executed
  <2>. QED
    BY <1>2, <2>1
<1>4. /\ Unwritten(Gain)' = 0 /\ Unwritten(Side)' = 0
      /\ Unwritten(Gain) = 0 /\ Unwritten(Side) = 0
  BY <1>1, <1>3, LoggedNothing DEF Unwritten
<1>5. conn.free = free /\ conn.positions = positions
  BY <1>2 DEF RowsCurrent, RuntimeDone
<1>6. Executed' \in Seq(Booked)
  BY <1>3
<1>. QED
  BY <1>1, <1>2, <1>4, <1>5, <1>6 DEF Figures

LEMMA DecideFigures ==
  ASSUME DbInv, FiguresInv, Decide
  PROVE  FiguresInv'
<1>1. /\ runner = "cycle" /\ runner' = "cycle" /\ UNCHANGED <<conn, faultVars>>
  BY DEF Decide, dbVars, procVars
<1>. SUFFICES ASSUME FaultFree PROVE Figures'
  BY <1>1 DEF FiguresInv, FaultFree, faultVars
<1>2. Figures /\ Control
  BY DEF FiguresInv, DbInv, RowInv
<1>3. CASE \E t : TradeMade(t)
  <2>1. PICK t : TradeMade(t)
    BY <1>3
  <2>2. t \in Booked /\ t \in Trade
    BY <2>1 DEF TradeMade, Booked
  <2>3. Executed' = Append(Executed, t) /\ Executed \in Seq(Booked)
    BY <1>1, <1>2, <2>1, <2>2, ExecutedGrows DEF TradeMade, Figures
  <2>4. \A w \in [Booked -> Int] :
          /\ Logged(w, Executed') = Logged(w, Executed) + w[t]
          /\ Logged(w, Executed) \in Int /\ Logged(w, conn.trades) \in Int
          /\ w[t] \in Int
          /\ Executed' \in Seq(Booked)
    BY <1>2, <2>2, <2>3, LoggedAppends, LoggedIsInt DEF Figures
  <2>5. \A w : Unwritten(w)' = Logged(w, Executed') /\ Unwritten(w) = Logged(w, Executed)
    BY <1>1 DEF Unwritten
  <2>6. /\ Logged(Gain, Executed') = Logged(Gain, Executed) + Gain[t]
        /\ Logged(Side, Executed') = Logged(Side, Executed) + Side[t]
        /\ Logged(Gain, Executed) \in Int /\ Logged(Gain, conn.trades) \in Int
        /\ Logged(Side, Executed) \in Int /\ Logged(Side, conn.trades) \in Int
        /\ Gain[t] \in Int /\ Side[t] \in Int /\ Executed' \in Seq(Booked)
    BY <2>4, Weights
  <2>7. /\ free + Cost(positions)
             = Initial + (Logged(Gain, conn.trades) + Logged(Gain, Executed))
        /\ Cardinality(Holdings(positions))
             = Logged(Side, conn.trades) + Logged(Side, Executed)
    BY <1>1, <1>2, <2>5 DEF Figures, Explained
  <2>8. /\ free' + Cost(positions')
             = Initial + (Logged(Gain, conn.trades) + Logged(Gain, Executed'))
        /\ Cardinality(Holdings(positions'))
             = Logged(Side, conn.trades) + Logged(Side, Executed')
    BY <2>1, <2>6, <2>7, ConstantsAssumption DEF TradeMade
  <2>. QED
    BY <1>1, <1>2, <2>5, <2>6, <2>8 DEF Figures, Explained
<1>4. CASE UNCHANGED <<free, positions, trades, mark>>
  <2>1. Executed' = Executed
    BY <1>4 DEF Executed
  <2>. QED
    BY <1>1, <1>2, <1>4, <2>1 DEF Figures, Unwritten
<1>5. CASE \E e \in exits : ServeExit(e)
  BY <1>2, <1>3, <1>5, SaleMade
<1>6. CASE \E sig \in entries : ServeEntry(sig)
  BY <1>2, <1>3, <1>6, PurchaseMade
<1>7. CASE \/ \E e \in exits : SkipExit(e)
           \/ EndExits
           \/ \E sig \in entries : SkipEntry(sig)
  BY <1>4, <1>7 DEF SkipExit, EndExits, SkipEntry, tracker
<1>. QED
  BY <1>5, <1>6, <1>7 DEF Decide

LEMMA StartPersistFigures ==
  ASSUME DbInv, FiguresInv, StartPersist
  PROVE  FiguresInv'
<1>1. /\ runner = "cycle" /\ runner' = "persist" /\ UNCHANGED <<conn, faultVars>>
      /\ free' = free /\ positions' = positions
  BY DEF StartPersist, EndCycle, dbVars, tracker
<1>. SUFFICES ASSUME FaultFree PROVE Figures'
  BY <1>1 DEF FiguresInv, FaultFree, faultVars
<1>2. Figures /\ Control /\ Executed \in Seq(Booked)
  BY <1>1 DEF FiguresInv, DbInv, RowInv, Figures
<1>3. PICK rows \in RowOrders : todo' = PersistCalls(rows)
  BY DEF StartPersist
<1>4. /\ \A i \in Inserts(todo') : todo'[i][2] \in Booked
      /\ \A w \in [Booked -> Int] : Owed(w, todo') = Logged(w, Executed)
  BY <1>2, <1>3, OwedAtStart
<1>5. Unwritten(Gain)' = Unwritten(Gain) /\ Unwritten(Side)' = Unwritten(Side)
  BY <1>1, <1>4, Weights DEF Unwritten
<1>. QED
  BY <1>1, <1>2, <1>4, <1>5 DEF Figures
LEMMA WriteFigures ==
  ASSUME DbInv, FiguresInv, Execute \/ Commit
  PROVE  FiguresInv'
<1>1. /\ todo # <<>> /\ todo' = Tail(todo) /\ 1 \in DOMAIN todo
      /\ Effect(todo[1])
      /\ UNCHANGED <<vars, alive, runner, faultVars>>
      /\ runner \in {"persist", "handler"} /\ alive
  BY StepEffect DEF DbInv
<1>. SUFFICES ASSUME FaultFree PROVE Figures'
  BY <1>1 DEF FiguresInv, FaultFree, faultVars
<1>2. Figures
  BY DEF FiguresInv
<1>3. PICK taken : todo \in Seq(Stmts(taken))
  BY StepEffect DEF DbInv
<1>4. free' = free /\ positions' = positions
  BY <1>1 DEF vars, tracker
<1>5. CASE runner = "persist"
  <2>1. /\ \A i \in Inserts(todo') : todo'[i][2] \in Booked
        /\ \A w \in [Booked -> Int] :
             /\ todo[1][1] = "trade" =>
                  todo[1][2] \in Booked /\ Owed(w, todo) = w[todo[1][2]] + Owed(w, todo')
             /\ todo[1][1] # "trade" => Owed(w, todo) = Owed(w, todo')
    <3>1. Tail(todo) = todo' /\ \A i \in Inserts(todo) : todo[i][2] \in Booked
      BY <1>1, <1>2, <1>5 DEF Figures
    <3>2. \A w \in [Booked -> Int] :
            /\ \A i \in Inserts(Tail(todo)) : Tail(todo)[i][2] \in Booked
            /\ todo[1][1] = "trade" =>
                 todo[1][2] \in Booked /\ Owed(w, todo) = w[todo[1][2]] + Owed(w, Tail(todo))
            /\ todo[1][1] # "trade" => Owed(w, todo) = Owed(w, Tail(todo))
      BY <1>1, <1>3, <3>1, OwedTail
    <3>. QED
      BY <3>1, <3>2, Weights
  <2>2. \A w \in [Booked -> Int] :
          /\ Owed(w, todo') \in Int /\ Owed(w, todo) \in Int
          /\ Logged(w, conn.trades) \in Int
    <3>1. todo' \in Seq(Stmts(taken))
      BY <1>1, <1>3, TailFacts
    <3>2. \A i \in Inserts(todo) : todo[i][2] \in Booked
      BY <1>2, <1>5 DEF Figures
    <3>. QED
      BY <1>2, <1>3, <2>1, <3>1, <3>2, OwedIsInt, LoggedIsInt DEF Figures
  <2>3. CASE todo[1][1] = "trade"
    <3>. DEFINE t == todo[1][2]
    <3>1. conn'.trades = Append(conn.trades, t) /\ t \in Booked
      BY <1>1, <2>1, <2>3, Weights DEF Effect
    <3>. HIDE DEF t
    <3>2. \A w \in [Booked -> Int] :
            /\ Logged(w, conn'.trades) = Logged(w, conn.trades) + w[t]
            /\ conn'.trades \in Seq(Booked) /\ w[t] \in Int
      BY <1>2, <3>1, LoggedAppends DEF Figures
    <3>3. \A w \in [Booked -> Int] : Owed(w, todo) = w[t] + Owed(w, todo')
      BY <2>1, <2>3 DEF t
    <3>4. \A w \in [Booked -> Int] :
            Logged(w, conn'.trades) + Owed(w, todo') = Logged(w, conn.trades) + Owed(w, todo)
      <4>. SUFFICES ASSUME NEW w \in [Booked -> Int]
                    PROVE  Logged(w, conn'.trades) + Owed(w, todo')
                             = Logged(w, conn.trades) + Owed(w, todo)
        OBVIOUS
      <4>1. /\ Logged(w, conn'.trades) = Logged(w, conn.trades) + w[t]
            /\ Owed(w, todo) = w[t] + Owed(w, todo')
            /\ w[t] \in Int /\ Owed(w, todo') \in Int /\ Logged(w, conn.trades) \in Int
        BY <2>2, <3>2, <3>3
      <4>. QED
        BY <4>1
    <3>. QED
      BY <1>1, <1>2, <1>4, <1>5, <2>1, <3>2, <3>4, Weights DEF Figures, Unwritten
  <2>4. CASE todo[1][1] # "trade"
    <3>1. conn'.trades = conn.trades
      BY <1>1, <2>4 DEF Effect
    <3>. QED
      BY <1>1, <1>2, <1>4, <1>5, <2>1, <2>4, <3>1, Weights DEF Figures, Unwritten
  <2>. QED
    BY <2>3, <2>4
<1>6. CASE runner = "handler"
  <2>1. todo[1][1] \in {"runtime", "commit"}
    BY <1>1, <1>6 DEF DbInv, HandlerWrites
  <2>2. conn.free = free
    BY <1>1, <1>6 DEF DbInv, Settled, RowsCurrent, RuntimeDone
  <2>3. conn'.free = conn.free /\ conn'.positions = conn.positions /\ conn'.trades = conn.trades
    BY <1>1, <2>1, <2>2 DEF Effect
  <2>. QED
    BY <1>1, <1>2, <1>6, <2>3 DEF Figures, Unwritten
<1>. QED
  BY <1>1, <1>5, <1>6

LEMMA FinishCycleFigures ==
  ASSUME DbInv, FiguresInv, FinishCycle
  PROVE  FiguresInv'
<1>1. /\ runner \in {"persist", "handler"} /\ runner' = "idle" /\ todo = <<>>
      /\ UNCHANGED <<conn, faultVars>>
  BY DEF FinishCycle, dbVars
<1>2. CASE runner = "handler"
  BY <1>1, <1>2, FiguresSame DEF FaultFree, faultVars
<1>3. CASE runner = "persist"
  <2>. SUFFICES ASSUME FaultFree PROVE Figures'
    BY <1>1 DEF FiguresInv, FaultFree, faultVars
  <2>1. Figures /\ RowsCurrent
    BY <1>1, <1>3, Written DEF FiguresInv
  <2>2. Inserts(todo) = {}
    BY <1>1 DEF Inserts
  <2>3. Owed(Gain, todo) = 0 /\ Owed(Side, todo) = 0
    <3>1. \A w : Owed(w, todo) = SumFunctionOnSet([i \in {} |-> w[todo[i][2]]], {})
      BY <2>2 DEF Owed, SumFunction
    <3>. QED
      BY <3>1, SumOfNone
  <2>4. /\ Unwritten(Gain)' = Unwritten(Gain) /\ Unwritten(Side)' = Unwritten(Side)
    BY <1>1, <1>3, <2>3 DEF Unwritten
  <2>5. conn.free = free /\ conn.positions = positions
    BY <2>1 DEF RowsCurrent, RuntimeDone
  <2>. QED
    BY <1>1, <1>3, <2>1, <2>4, <2>5 DEF Figures
<1>. QED
  BY <1>1, <1>2, <1>3

LEMMA InitFigures == PTInit => FiguresInv
<1>. SUFFICES ASSUME PTInit PROVE Figures
  BY DEF FiguresInv
<1>1. runner = "idle" /\ conn = NewRow
  BY DEF PTInit
<1>2. conn.free = Initial /\ conn.positions = Empty /\ conn.trades = <<>>
  BY <1>1 DEF NewRow
<1>3. Holdings(conn.positions) = {}
  BY <1>2 DEF Empty, Holdings
<1>4. Cost(conn.positions) = 0
  <2>1. Cost(conn.positions) = SumFunctionOnSet([n \in {} |-> conn.positions[n].invested], {})
    BY <1>3 DEF Cost, SumFunction
  <2>. QED
    BY <2>1, SumOfNone
<1>5. Logged(Gain, conn.trades) = 0 /\ Logged(Side, conn.trades) = 0
  BY <1>2, LoggedNothing
<1>6. conn.trades \in Seq(Booked)
  BY <1>2
<1>. QED
  BY <1>1, <1>2, <1>3, <1>4, <1>5, <1>6, FS_EmptySet, ConstantsAssumption
     DEF Figures, Unwritten, Explained

LEMMA FiguresStep == DbInv /\ FiguresInv /\ [PTNext]_allVars => FiguresInv'
<1>. SUFFICES ASSUME DbInv, FiguresInv, [PTNext]_allVars PROVE FiguresInv'
  OBVIOUS
<1>0. /\ Settled /\ IsRow(conn)
      /\ runner \notin {"persist", "handler"} => todo = <<>>
      /\ crashes \in Nat /\ interrupts \in Nat
  BY DEF DbInv, RowInv, RunnerControl
<1>1. CASE Schedule \/ DropTrader \/ SkipCycle \/ CycleRaises
  <2>1. /\ runner \in {"idle", "due"} /\ runner' \in {"idle", "due", "handler"}
        /\ UNCHANGED <<conn, faultVars>>
    BY <1>1 DEF Schedule, DropTrader, SkipCycle, CycleRaises, dbVars
  <2>. QED
    BY <2>1, FiguresSame DEF FaultFree, faultVars
<1>2. CASE Restart
  <2>1. /\ runner \in {"idle", "due"} /\ runner' = "idle" /\ conn' = disk /\ UNCHANGED faultVars
    BY <1>2 DEF Restart, Die
  <2>2. FaultFree => conn = disk
    BY <1>0, <2>1 DEF Settled, AllCommitted
  <2>. QED
    BY <2>1, <2>2, FiguresSame DEF FaultFree, faultVars
<1>3. CASE Pause \/ Resume
  <2>1. PICK on : SetActive(on)
    BY <1>3 DEF Pause, Resume
  <2>2. /\ conn'.free = conn.free /\ conn'.positions = conn.positions
        /\ conn'.trades = conn.trades
        /\ UNCHANGED <<vars, runner, todo, faultVars>>
    BY <1>0, <2>1 DEF SetActive, IsRow, procVars
  <2>. QED
    BY <2>2, FiguresSame DEF FaultFree, faultVars
<1>4. CASE UNCHANGED allVars
  BY <1>4, FiguresSame DEF allVars, dbVars, procVars, faultVars, FaultFree
<1>5. CASE InterruptPersist \/ HandlerFails \/ Crash
  <2>1. ~FaultFree'
    BY <1>0, <1>5 DEF InterruptPersist, HandlerFails, Crash, FaultFree
  <2>. QED
    BY <2>1 DEF FiguresInv
<1>. QED
  BY <1>1, <1>2, <1>3, <1>4, <1>5, StartCycleFigures, DecideFigures, StartPersistFigures,
     WriteFigures, FinishCycleFigures DEF PTNext

THEOREM RowsExplainTheBooks == PTSpec => []FiguresInv
BY InitFigures, FiguresStep, RowsAreCurrent, PTL DEF PTSpec

\* The statistics split a log into winning sales, losing sales and buys.  Their
\* sums are the profit of the log, and their numbers leave as many more buys
\* than sales as there are positions open.
LEMMA StatsOfALog ==
  ASSUME NEW db, db.trades \in Seq(Booked)
  PROVE  LET stats == TradeStats(db)
         IN  /\ Logged(Gain, db.trades) = stats.grossWins - stats.grossLosses
             /\ Logged(Side, db.trades) = stats.total - 2 * (stats.winning + stats.losing)
             /\ stats.grossWins \in Int /\ stats.grossLosses \in Int
             /\ stats.winning \in Nat /\ stats.losing \in Nat /\ stats.total \in Nat
<1>. DEFINE log == db.trades
            pnl == [i \in DOMAIN log |-> log[i].pnl]
            sells == {i \in DOMAIN log : log[i].dir = "sell"}
            winning == {i \in sells : pnl[i] > 0}
            losing == {i \in sells : pnl[i] <= 0}
            buys == DOMAIN log \ sells
            gains == [i \in DOMAIN log |-> Gain[log[i]]]
            sides == [i \in DOMAIN log |-> Side[log[i]]]
<1>1. DOMAIN log = 1 .. Len(log) /\ Len(log) \in Nat
  OBVIOUS
<1>2. \A i \in DOMAIN log : log[i] \in Booked
  BY <1>1
<1>3. \A i \in DOMAIN log :
        /\ pnl[i] = log[i].pnl /\ pnl[i] \in Int
        /\ gains[i] = pnl[i]
        /\ i \in sells => sides[i] = -1
        /\ i \in buys => sides[i] = 1 /\ pnl[i] = 0
  <2>. SUFFICES ASSUME NEW i \in DOMAIN log
       PROVE  /\ pnl[i] = log[i].pnl /\ pnl[i] \in Int
              /\ gains[i] = pnl[i]
              /\ i \in sells => sides[i] = -1
              /\ i \in buys => sides[i] = 1 /\ pnl[i] = 0
    OBVIOUS
  <2>1. /\ log[i] \in Booked /\ log[i].pnl \in Int /\ log[i].dir \in {"buy", "sell"}
        /\ log[i].dir = "buy" => log[i].pnl = 0
    BY <1>2 DEF Booked, Trade
  <2>2. pnl[i] = log[i].pnl /\ gains[i] = Gain[log[i]] /\ sides[i] = Side[log[i]]
    OBVIOUS
  <2>3. /\ Gain[log[i]] = log[i].pnl
        /\ Side[log[i]] = IF log[i].dir = "buy" THEN 1 ELSE -1
    BY <2>1 DEF Gain, Side
  <2>4. i \in sells <=> log[i].dir = "sell"
    OBVIOUS
  <2>5. i \in buys <=> i \notin sells
    OBVIOUS
  <2>. HIDE DEF pnl, gains, sides, sells, buys
  <2>. QED
    BY <2>1, <2>2, <2>3, <2>4, <2>5
<1>4. /\ DOMAIN log = sells \cup buys /\ sells \cap buys = {}
      /\ sells = winning \cup losing /\ winning \cap losing = {}
      /\ sells \subseteq DOMAIN log /\ buys \subseteq DOMAIN log
      /\ winning \subseteq sells /\ losing \subseteq sells
  <2>1. \A i \in sells : pnl[i] \in Int
    BY <1>3
  <2>. HIDE DEF pnl
  <2>. QED
    BY <2>1
<1>5. /\ Logged(Gain, log) = SumFunctionOnSet(gains, DOMAIN log)
      /\ Logged(Side, log) = SumFunctionOnSet(sides, DOMAIN log)
  BY DEF Logged, SumFunction
<1>6. LET stats == TradeStats(db)
      IN  /\ stats.total = Len(log)
          /\ stats.winning = Cardinality(winning)
          /\ stats.losing = Cardinality(losing)
          /\ stats.grossWins = SumFunctionOnSet(pnl, winning)
          /\ stats.grossLosses = -SumFunctionOnSet(pnl, losing)
  BY DEF TradeStats
<1>. HIDE DEF log, pnl, sells, winning, losing, buys, gains, sides
<1>7. IsFiniteSet(DOMAIN log) /\ Cardinality(DOMAIN log) = Len(log)
  <2>1. IsFiniteSet(1 .. Len(log)) /\ Cardinality(1 .. Len(log)) = Len(log)
    <3>. DEFINE k == Len(log)
    <3>1. k \in Nat /\ k \in Int /\ 1 \in Int
      BY <1>1
    <3>. HIDE DEF k
    <3>2. IsFiniteSet(1 .. k) /\ Cardinality(1 .. k) = k
      BY <3>1, FS_Interval
    <3>. QED
      BY <3>2 DEF k
  <2>. QED
    BY <1>1, <2>1
<1>8. IsFiniteSet(sells) /\ IsFiniteSet(buys)
  BY <1>4, <1>7, FS_Subset
<1>9. IsFiniteSet(winning) /\ IsFiniteSet(losing)
  BY <1>4, <1>8, FS_Subset
<1>10. Logged(Gain, log) = SumFunctionOnSet(pnl, winning) + SumFunctionOnSet(pnl, losing)
  <2>1. SumFunctionOnSet(gains, DOMAIN log) = SumFunctionOnSet(pnl, DOMAIN log)
    BY <1>3, <1>7, SumsAgree
  <2>2. \A i \in sells \cup buys : pnl[i] \in Int
    BY <1>3, <1>4
  <2>3. SumFunctionOnSet(pnl, sells \cup buys)
          = SumFunctionOnSet(pnl, sells) + SumFunctionOnSet(pnl, buys)
    BY <1>4, <1>8, <2>2, SumOfParts
  <2>4. SumFunctionOnSet(pnl, winning \cup losing)
          = SumFunctionOnSet(pnl, winning) + SumFunctionOnSet(pnl, losing)
    <3>1. \A i \in winning \cup losing : pnl[i] \in Int
      BY <1>4, <2>2
    <3>. QED
      BY <1>4, <1>9, <3>1, SumOfParts
  <2>5. SumFunctionOnSet(pnl, buys) = 0
    BY <1>3, <1>4, <1>8, SumOfZeros
  <2>6. SumFunctionOnSet(pnl, sells) \in Int
    BY <1>8, <2>2, SumIsInt
  <2>7. /\ SumFunctionOnSet(pnl, DOMAIN log) = SumFunctionOnSet(pnl, sells \cup buys)
        /\ SumFunctionOnSet(pnl, sells) = SumFunctionOnSet(pnl, winning \cup losing)
    BY <1>4
  <2>8. Logged(Gain, log) = SumFunctionOnSet(pnl, sells)
    BY <1>5, <2>1, <2>3, <2>5, <2>6, <2>7
  <2>. QED
    BY <2>4, <2>7, <2>8
<1>11. /\ Cardinality(sells) = Cardinality(winning) + Cardinality(losing)
       /\ Len(log) = Cardinality(sells) + Cardinality(buys)
       /\ Cardinality(sells) \in Nat /\ Cardinality(buys) \in Nat
       /\ Cardinality(winning) \in Nat /\ Cardinality(losing) \in Nat
  <2>1. /\ Cardinality(sells) \in Nat /\ Cardinality(buys) \in Nat
        /\ Cardinality(winning) \in Nat /\ Cardinality(losing) \in Nat
    BY <1>8, <1>9, FS_CardinalityType
  <2>2. ASSUME NEW A, NEW B, IsFiniteSet(A), IsFiniteSet(B), A \cap B = {}
        PROVE  Cardinality(A \cup B) = Cardinality(A) + Cardinality(B)
    <3>1. Cardinality(A \cup B)
            = Cardinality(A) + Cardinality(B) - Cardinality(A \cap B)
      BY <2>2, FS_Union
    <3>2. /\ Cardinality(A \cap B) = 0
          /\ Cardinality(A) \in Nat /\ Cardinality(B) \in Nat
      BY <2>2, FS_EmptySet, FS_CardinalityType
    <3>. QED
      BY <3>1, <3>2
  <2>3. /\ Cardinality(winning \cup losing) = Cardinality(winning) + Cardinality(losing)
        /\ Cardinality(sells \cup buys) = Cardinality(sells) + Cardinality(buys)
    BY <1>4, <1>8, <1>9, <2>2
  <2>. QED
    BY <1>4, <1>7, <2>1, <2>3
<1>12. Logged(Side, log) = Cardinality(buys) - Cardinality(sells)
  <2>1. \A i \in sells \cup buys : sides[i] \in Int
    BY <1>3, <1>4
  <2>2. SumFunctionOnSet(sides, sells \cup buys)
          = SumFunctionOnSet(sides, sells) + SumFunctionOnSet(sides, buys)
    BY <1>4, <1>8, <2>1, SumOfParts
  <2>3. SumFunctionOnSet(sides, sells) = (-1) * Cardinality(sells)
    <3>1. \A i \in sells : sides[i] = -1
      BY <1>3, <1>4
    <3>. QED
      BY <1>8, <3>1, SumOfConstant
  <2>4. SumFunctionOnSet(sides, buys) = 1 * Cardinality(buys)
    <3>1. \A i \in buys : sides[i] = 1
      BY <1>3, <1>4
    <3>. QED
      BY <1>8, <3>1, SumOfConstant
  <2>5. SumFunctionOnSet(sides, DOMAIN log) = SumFunctionOnSet(sides, sells \cup buys)
    BY <1>4
  <2>. QED
    BY <1>5, <1>11, <2>2, <2>3, <2>4, <2>5
<1>13. SumFunctionOnSet(pnl, winning) \in Int /\ SumFunctionOnSet(pnl, losing) \in Int
  <2>1. \A i \in winning : pnl[i] \in Int
    BY <1>3, <1>4
  <2>2. \A i \in losing : pnl[i] \in Int
    BY <1>3, <1>4
  <2>. QED
    BY <1>9, <2>1, <2>2, SumIsInt
<1>. QED
  BY <1>1, <1>6, <1>10, <1>11, <1>12, <1>13 DEF log

\* Marking the positions of a row to market adds to their cost what the list
\* of positions shows, position by position.
LEMMA MarkedPositions ==
  ASSUME NEW db, IsRow(db), NEW market \in Markets
  PROVE  /\ HeaderValue(db, market)
              = db.free + Cost(db.positions) + SumFunction(OpenPositions(db, market))
         /\ Cost(db.positions) \in Int
         /\ SumFunction(OpenPositions(db, market)) \in Int
<1>. DEFINE held == Holdings(db.positions)
            marked == [n \in held |->
                         IF Priced(market[n])
                         THEN SellTao(db.positions[n].alpha, market[n].tao_in, market[n].alpha_in)
                         ELSE db.positions[n].invested]
            paid == [n \in held |-> db.positions[n].invested]
            profit == OpenPositions(db, market)
<1>1. IsFiniteSet(held)
  BY FS_Subset, ConstantsAssumption DEF Holdings
<1>2. \A n \in held :
        marked[n] \in Int /\ paid[n] \in Int /\ profit[n] = marked[n] - paid[n]
  <2>. SUFFICES ASSUME NEW n \in held
       PROVE  marked[n] \in Int /\ paid[n] \in Int /\ profit[n] = marked[n] - paid[n]
    OBVIOUS
  <2>1. n \in Netuids /\ db.positions[n] \in Position
    BY DEF IsRow, Holdings
  <2>2. db.positions[n].alpha \in Nat /\ db.positions[n].invested \in Nat
    BY <2>1 DEF Position
  <2>3. /\ paid[n] = db.positions[n].invested
        /\ profit[n] = OpenProfit(db.positions[n], market[n])
    BY DEF OpenPositions
  <2>4. CASE Priced(market[n])
    <3>1. market[n] \in Snapshots
      BY <2>1, <2>4 DEF Markets, Priced
    <3>2. market[n].tao_in \in Nat /\ market[n].alpha_in \in Nat
      BY <3>1, ConstantsAssumption
    <3>3. SellTao(db.positions[n].alpha, market[n].tao_in, market[n].alpha_in) \in Nat
      BY <2>2, <3>2, SellTaoNat
    <3>4. marked[n] = SellTao(db.positions[n].alpha, market[n].tao_in, market[n].alpha_in)
      BY <2>4
    <3>5. profit[n] = SellTao(db.positions[n].alpha, market[n].tao_in, market[n].alpha_in)
                        - db.positions[n].invested
      BY <2>3, <2>4 DEF OpenProfit
    <3>. HIDE DEF marked, paid, profit
    <3>. QED
      BY <2>2, <2>3, <3>3, <3>4, <3>5
  <2>5. CASE ~Priced(market[n])
    <3>1. marked[n] = db.positions[n].invested
      BY <2>5
    <3>2. profit[n] = 0
      BY <2>3, <2>5 DEF OpenProfit
    <3>. HIDE DEF marked, paid, profit
    <3>. QED
      BY <2>2, <2>3, <3>1, <3>2
  <2>. QED
    BY <2>4, <2>5
<1>3. /\ HeaderValue(db, market) = db.free + SumFunctionOnSet(marked, held)
      /\ Cost(db.positions) = SumFunctionOnSet(paid, held)
      /\ SumFunction(profit) = SumFunctionOnSet(profit, held)
  BY DEF HeaderValue, Cost, OpenPositions, SumFunction
<1>. HIDE DEF held, marked, paid, profit
<1>4. \A n \in held : marked[n] \in Int /\ paid[n] \in Int
  BY <1>2
<1>5. SumFunctionOnSet(profit, held)
        = SumFunctionOnSet(marked, held) - SumFunctionOnSet(paid, held)
  BY <1>1, <1>2, SumOfDifference
<1>6. SumFunctionOnSet(marked, held) \in Int /\ SumFunctionOnSet(paid, held) \in Int
  BY <1>1, <1>4, SumIsInt
<1>7. db.free \in Nat
  BY DEF IsRow
<1>. QED
  BY <1>3, <1>5, <1>6, <1>7 DEF profit

\* While the runner sleeps and no write was interrupted, the header's value,
\* the statistics of the trades and the list of positions agree, whichever
\* subnets have a price.
THEOREM StatisticsExplainTheValue == PTSpec => []StatsExplainValue
<1>1. DbInv /\ FiguresInv => StatsExplainValue
  <2>. SUFFICES ASSUME DbInv, FiguresInv, runner = "idle", FaultFree
       PROVE  LET stats == TradeStats(conn)
              IN  /\ stats.total = 2 * (stats.winning + stats.losing)
                                   + Cardinality(Holdings(conn.positions))
                  /\ \A market \in Markets :
                       HeaderValue(conn, market) - Initial
                         = stats.grossWins - stats.grossLosses
                           + SumFunction(OpenPositions(conn, market))
    BY DEF StatsExplainValue
  <2>. DEFINE stats == TradeStats(conn)
  <2>1. IsRow(conn) /\ conn.free \in Nat
    BY DEF DbInv, RowInv, IsRow
  <2>2. /\ conn.trades \in Seq(Booked)
        /\ Explained(conn.free, conn.positions, Logged(Gain, conn.trades) + 0,
                     Logged(Side, conn.trades) + 0)
    BY DEF FiguresInv, Figures, Unwritten
  <2>3. /\ Logged(Gain, conn.trades) = stats.grossWins - stats.grossLosses
        /\ Logged(Side, conn.trades) = stats.total - 2 * (stats.winning + stats.losing)
        /\ stats.grossWins \in Int /\ stats.grossLosses \in Int
        /\ stats.winning \in Nat /\ stats.losing \in Nat /\ stats.total \in Nat
    BY <2>2, StatsOfALog
  <2>. HIDE DEF stats
  <2>4. /\ conn.free + Cost(conn.positions) = Initial + stats.grossWins - stats.grossLosses
        /\ Cardinality(Holdings(conn.positions))
             = stats.total - 2 * (stats.winning + stats.losing)
    BY <2>2, <2>3, ConstantsAssumption DEF Explained
  <2>5. ASSUME NEW market \in Markets
        PROVE  HeaderValue(conn, market) - Initial
                 = stats.grossWins - stats.grossLosses
                   + SumFunction(OpenPositions(conn, market))
    <3>1. /\ HeaderValue(conn, market)
               = conn.free + Cost(conn.positions) + SumFunction(OpenPositions(conn, market))
          /\ Cost(conn.positions) \in Int
          /\ SumFunction(OpenPositions(conn, market)) \in Int
      BY <2>1, MarkedPositions
    <3>. QED
      BY <2>1, <2>3, <2>4, <3>1, ConstantsAssumption
  <2>6. stats.total = 2 * (stats.winning + stats.losing)
                        + Cardinality(Holdings(conn.positions))
    BY <2>3, <2>4
  <2>. QED
    BY <2>5, <2>6 DEF stats
<1>. QED
  BY <1>1, RowsExplainTheBooks, RowsAreCurrent, PTL
===============================================================================
