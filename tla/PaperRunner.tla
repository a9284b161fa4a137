----------------------------- MODULE PaperRunner -----------------------------
(***************************************************************************)
(* The paper-trading runner and its supervisor (server/main.py): one task  *)
(* that lists the active portfolios, gives each due one a cycle in the     *)
(* order of their ids, forgets the traders of the others and sleeps.  The  *)
(* server creates, pauses and resumes portfolios while it does, so the     *)
(* list is stale by the time it is used.  What a cycle does is left to     *)
(* PaperTrader: here it takes time and ends well, skipped, raising, or     *)
(* cancelled.                                                              *)
(*                                                                         *)
(* A tick is 60 s, what the runner sleeps: intervals are whole ticks, no   *)
(* shorter than one, as the create schema has them.  Database calls take   *)
(* no time but may fail.                                                   *)
(***************************************************************************)
EXTENDS Naturals, FiniteSets, FiniteSetsExt

CONSTANTS
  NumPortfolios, \* bound on the rows ever created
  Interval,      \* poll interval of each portfolio, in ticks
  CycleTimeout,  \* ticks before wait_for cancels a cycle
  Malformed,     \* portfolios whose stored config makes int() or the
                 \* hydration raise
  MaxFaults      \* bound on failing database calls and server restarts

Ids == 1 .. NumPortfolios

ASSUME RunnerAssumption ==
  /\ {NumPortfolios, CycleTimeout} \subseteq Nat \ {0}
  /\ Interval \in [Ids -> Nat \ {0}]
  /\ Malformed \subseteq Ids
  /\ MaxFaults \in Nat

VARIABLES
  created,  \* rows there are, with the ids 1 .. created
  active,   \* their active flags
  age,      \* ticks since last_cycle_at, counted up to the interval
  traders,  \* the keys of _paper_traders
  pc,       \* what the runner task does
  listed,   \* the ids of the rows it listed
  todo,     \* those that were due and are still to be served
  current,  \* the portfolio whose cycle runs
  timer,    \* ticks since the cycle or sleep began
  faults,   \* faults so far
  waited,   \* history: ticks since an active portfolio was last served,
            \* created or resumed
  rested,   \* history: portfolios inactive at some time since the trader was built
  late      \* history: cycles begun since the portfolio was paused

rows    == <<created, active, age>>
task    == <<traders, pc, listed, todo, current, timer>>
history == <<waited, rested, late>>
vars    == <<rows, task, faults, history>>

\* The longest an active portfolio waits: its interval; the runner's sleep;
\* the others' cycles in the pass that found it not due yet and in its own;
\* for every fault a pass that came to nothing.
MaxWait(p) ==
  Interval[p] + (2 * NumPortfolios - 1) * CycleTimeout + 1
    + faults * (NumPortfolios * CycleTimeout + 1)

\* waited is counted up to one above any MaxWait.
WaitCap == MaxWait(1) + Max({Interval[p] : p \in Ids})
             + MaxFaults * (NumPortfolios * CycleTimeout + 1)

TypeOK ==
  /\ created \in 0 .. NumPortfolios
  /\ active \in [Ids -> BOOLEAN]
  /\ age \in [Ids -> Nat]
  /\ {traders, listed, todo, rested} \subseteq SUBSET Ids
  /\ pc \in {"start", "pass", "cycle", "asleep", "crashed"}
  /\ current \in Ids
  /\ timer \in 0 .. CycleTimeout + 1
  /\ faults \in 0 .. MaxFaults
  /\ {waited, late} \subseteq [Ids -> Nat]
  /\ \A p \in Ids : age[p] <= Interval[p] /\ (active[p] => p <= created)

Init ==
  /\ created = 0
  /\ active = [p \in Ids |-> FALSE]
  /\ age = Interval
  /\ traders = {} /\ pc = "start"
  /\ listed = {} /\ todo = {} /\ current = 1 /\ timer = 0
  /\ faults = 0
  /\ waited = [p \in Ids |-> 0] /\ rested = {} /\ late = [p \in Ids |-> 0]

-------------------------------------------------------------------------------
(* The runner.                                                             *)
Goto(l) == pc' = l /\ timer' = 0

Fault == faults < MaxFaults /\ faults' = faults + 1

\* Faulty: the paused are listed too.
AllRows == 1 .. created

\* list_paper_portfolios(active_only=True)
ActiveRows == {p \in 1 .. created : active[p]}

\* last_cycle_at is missing or an interval ago.
Due(p) == age[p] = Interval[p]

List ==
  /\ pc = "start"
  /\ listed' = ActiveRows
  /\ todo' = {p \in listed' : Due(p)}
  /\ Goto("pass")
  /\ UNCHANGED <<rows, traders, current, faults, history>>

ListFails ==
  /\ pc = "start"
  /\ Fault
  /\ Goto("asleep")
  /\ UNCHANGED <<rows, traders, listed, todo, current, history>>

\* Rows come ORDER BY id.
NextInOrder(p) == \A q \in todo : p <= q

\* The trader in memory, or a new one from the rows, begins a cycle.
Serve(p) ==
  /\ pc = "pass"
  /\ p \in todo /\ NextInOrder(p)
  /\ p \notin Malformed
  /\ todo' = todo \ {p}
  /\ traders' = traders \cup {p}
  /\ rested' = IF p \in traders \/ ~active[p] THEN rested ELSE rested \ {p}
  /\ current' = p
  /\ Goto("cycle")
  /\ waited' = [waited EXCEPT ![p] = 0]
  /\ late' = IF active[p] THEN late ELSE [late EXCEPT ![p] = @ + 1]
  /\ UNCHANGED <<rows, listed, faults>>

\* What raises before the try reaches the supervisor.
Crash(p) ==
  /\ pc = "pass"
  /\ p \in todo /\ NextInOrder(p)
  /\ \/ p \in Malformed /\ UNCHANGED faults
     \/ p \notin traders /\ Fault
  /\ Goto("crashed")
  /\ UNCHANGED <<rows, traders, listed, todo, current, history>>

\* Faulty: a cycle is followed by a new list.
ListAgain == Goto("start")

NextRow == Goto("pass")

\* run_once writes the time at which it began.
CycleDone ==
  /\ pc = "cycle"
  /\ age' = [age EXCEPT ![current] = Min({timer, Interval[current]})]
  /\ NextRow
  /\ UNCHANGED <<created, active, traders, listed, todo, current, faults, history>>

\* A stale upstream or an empty buffer: run_once returns and writes nothing.
CycleSkipped ==
  /\ pc = "cycle"
  /\ NextRow
  /\ UNCHANGED <<rows, traders, listed, todo, current, faults, history>>

\* The handlers of a raising and of a cancelled cycle write last_cycle_at; if
\* that fails the first logs it and the second lets it out.
Touch == age' = [age EXCEPT ![current] = 0]

CycleRaises ==
  /\ pc = "cycle"
  /\ \/ Touch /\ UNCHANGED faults
     \/ Fault /\ UNCHANGED age
  /\ NextRow
  /\ UNCHANGED <<created, active, traders, listed, todo, current, history>>

CycleTimesOut ==
  /\ pc = "cycle" /\ timer = CycleTimeout
  /\ \/ Touch /\ UNCHANGED faults /\ NextRow
     \/ Fault /\ UNCHANGED age /\ Goto("crashed")
  /\ UNCHANGED <<created, active, traders, listed, todo, current, history>>

\* Faulty: no trader is forgotten, or only those that are due are kept.
KeepsAll == Ids

KeepsDue == {p \in listed : Due(p)}

\* The traders of the rows listed are kept.
Keeps == listed

EndPass ==
  /\ pc = "pass" /\ todo = {}
  /\ traders' = traders \cap Keeps
  /\ Goto("asleep")
  /\ UNCHANGED <<rows, listed, todo, current, faults, history>>

\* Every interval is 60 s or more, so the sleep is 60 s.
Wake ==
  /\ pc = "asleep" /\ timer = 1
  /\ Goto("start")
  /\ UNCHANGED <<rows, traders, listed, todo, current, faults, history>>

\* Faulty: the supervisor gives up.
NoRestart == FALSE

\* The supervisor sleeps 30 s; the traders are the module's and survive.
MayRestart == pc = "crashed"

SupervisorRestarts ==
  /\ MayRestart
  /\ Goto("start")
  /\ UNCHANGED <<rows, traders, listed, todo, current, faults, history>>

Runner ==
  \/ List \/ ListFails
  \/ \E p \in todo : Serve(p) \/ Crash(p)
  \/ CycleDone \/ CycleSkipped \/ CycleRaises \/ CycleTimesOut
  \/ EndPass \/ Wake \/ SupervisorRestarts

-------------------------------------------------------------------------------
(* Time and the server.                                                    *)
Tick ==
  /\ \/ pc = "cycle" /\ timer < CycleTimeout
     \/ pc \in {"asleep", "crashed"} /\ timer < 1
  /\ timer' = timer + 1
  /\ age' = [p \in Ids |-> Min({age[p] + 1, Interval[p]})]
  /\ waited' = [p \in Ids |->
       IF active[p] /\ waited[p] < WaitCap THEN waited[p] + 1 ELSE waited[p]]
  /\ UNCHANGED <<created, active, traders, pc, listed, todo, current, faults,
                 rested, late>>

Create ==
  LET p == created + 1 IN
  /\ created < NumPortfolios
  /\ created' = p
  /\ active' = [active EXCEPT ![p] = TRUE]
  /\ waited' = [waited EXCEPT ![p] = 0]
  /\ UNCHANGED <<age, task, faults, rested, late>>

Pause(p) ==
  /\ active[p]
  /\ active' = [active EXCEPT ![p] = FALSE]
  /\ waited' = [waited EXCEPT ![p] = 0]
  /\ rested' = rested \cup {p}
  /\ late' = [late EXCEPT ![p] = 0]
  /\ UNCHANGED <<created, age, task, faults>>

\* Faulty: a row is made of any id.
AnyRow(p) == TRUE

\* An UPDATE that meets no row is answered with 404.
HasRow(p) == p <= created

Resume(p) ==
  /\ HasRow(p) /\ ~active[p]
  /\ active' = [active EXCEPT ![p] = TRUE]
  /\ UNCHANGED <<created, age, task, faults, history>>

\* The process ends, whatever it does, and starts again.
ServerRestarts ==
  /\ Fault
  /\ traders' = {} /\ listed' = {} /\ todo' = {}
  /\ current' = 1
  /\ Goto("start")
  /\ UNCHANGED <<rows, history>>

Next ==
  \/ Runner
  \/ Tick
  \/ Create
  \/ \E p \in Ids : Pause(p) \/ Resume(p)
  \/ ServerRestarts

Spec == Init /\ [][Next]_vars

\* The event loop runs the task when its await is over, and time passes.
FairSpec == Spec /\ WF_vars(Runner) /\ WF_vars(Tick)

-------------------------------------------------------------------------------
(* Properties.                                                             *)

\* However long the cycles of the others take and whenever portfolios are
\* paused, resumed and created, an active one that can be read waits no longer than its
\* interval, the sleep, and the cycles of two passes.
WaitBounded ==
  \A p \in Ids \ Malformed : active[p] => waited[p] <= MaxWait(p)

\* A pass works on a list as old as its first cycle: a pause may come too
\* late for one cycle, never for two.
PauseStopsCycles == \A p \in Ids : ~active[p] => late[p] <= 1

\* "keeps trader instances alive between cycles": the runner forgets a trader
\* only if its portfolio has been paused since it was built.
TradersSurvive ==
  [][\A p \in traders \ traders' : p \in rested \/ faults' # faults]_vars

\* A portfolio that stays active gets cycles for ever, whatever became of the
\* earlier ones and of other portfolios.
ActiveAreServed ==
  \A p \in Ids \ Malformed : <>[](active[p]) => []<>(pc = "cycle" /\ current = p)

\* The trader of a portfolio that stays paused is forgotten.
PausedAreForgotten ==
  \A p \in Ids : <>[](~active[p]) => <>[](p \notin traders)
==============================================================================
