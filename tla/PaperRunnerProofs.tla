-------------------------- MODULE PaperRunnerProofs --------------------------
(***************************************************************************)
(* For every number of portfolios, every interval and any faults: a paused *)
(* portfolio gets at most one more cycle, the runner forgets a trader only *)
(* if its portfolio has been paused, and an active portfolio waits only so *)
(* long.  The first two rest on what the stale list may still hold: the    *)
(* rows of a pass were active when it was made, each is served once, and a *)
(* trader that is not in it belongs to a portfolio that has been inactive. *)
(* The third rests on a measure of what is still ahead of a portfolio: the *)
(* cycles of those before it in the pass, or a sleep and a whole pass.     *)
(***************************************************************************)
EXTENDS PaperRunner, FiniteSetTheorems, TLAPS

LEMMA MinOfTwo ==
  ASSUME NEW a \in Nat, NEW b \in Nat
  PROVE  Min({a, b}) \in Nat /\ Min({a, b}) <= a /\ Min({a, b}) <= b
<1>1. \E x \in {a, b} : \A y \in {a, b} : x <= y
  <2>1. CASE a <= b BY <2>1
  <2>2. CASE b <= a BY <2>2
  <2> QED BY <2>1, <2>2
<1>2. /\ Min({a, b}) \in {a, b}
      /\ \A y \in {a, b} : Min({a, b}) <= y
  BY <1>1 DEF Min
<1> QED BY <1>2

\* What is due stays due.
LEMMA MinOfNext ==
  ASSUME NEW a \in Nat
  PROVE  Min({a + 1, a}) = a
<1>1. \A x \in {a + 1, a} : (\A y \in {a + 1, a} : x <= y) <=> x = a
  OBVIOUS
<1> QED
  BY <1>1 DEF Min

\* The state of every variable the proofs speak of.
Types ==
  /\ created \in 0 .. NumPortfolios
  /\ active \in [Ids -> BOOLEAN]
  /\ age \in [Ids -> Nat]
  /\ traders \subseteq 1 .. created
  /\ listed \subseteq 1 .. created
  /\ todo \subseteq listed
  /\ rested \subseteq Ids
  /\ current \in Ids
  /\ timer \in Nat
  /\ late \in [Ids -> Nat]
  /\ \A p \in Ids : active[p] => p <= created

\* An inactive portfolio that has had its late cycle is not to be served.
LateOnce ==
  \A p \in Ids : ~active[p] => late[p] <= 1 /\ (p \in todo => late[p] = 0)

\* A portfolio that is inactive has been paused since its trader was built,
\* and so has one whose trader the list of the pass under way does not save.
TradersKnown ==
  /\ \A p \in 1 .. created : ~active[p] => p \in rested
  /\ pc \in {"pass", "cycle"} => traders \ listed \subseteq rested

RunnerInv == Types /\ LateOnce /\ TradersKnown

LEMMA RowsHaveIds == Types => 1 .. created \subseteq Ids
BY RunnerAssumption DEF Types, Ids, RunnerAssumption

LEMMA InitRunnerInv == Init => RunnerInv
BY RunnerAssumption DEF Init, RunnerInv, Types, LateOnce, TradersKnown, Ids

LEMMA NextTypes == RunnerInv /\ [Next]_vars => Types'
<1> SUFFICES ASSUME Types, [Next]_vars PROVE Types'
  BY DEF RunnerInv
<1> USE DEF Types
<1>0. NumPortfolios \in Nat \ {0} /\ Interval \in [Ids -> Nat \ {0}]
  BY RunnerAssumption
<1>1. CASE List
  <2>1. ActiveRows \subseteq 1 .. created
    BY DEF ActiveRows
  <2> QED BY <1>1, <2>1 DEF List, Goto, rows, history
<1>2. CASE ListFails
  BY <1>2 DEF ListFails, Goto, rows, history
<1>3. ASSUME NEW p \in todo, Serve(p) PROVE Types'
  <2>1. p \in Ids
    BY RowsHaveIds
  <2>2. late' \in [Ids -> Nat]
    BY <1>3, <2>1 DEF Serve
  <2> QED BY <1>3, <2>1, <2>2 DEF Serve, Goto, rows
<1>4. ASSUME NEW p \in todo, Crash(p) PROVE Types'
  BY <1>4 DEF Crash, Goto, rows, history
<1>5. CASE CycleDone
  <2>1. Min({timer, Interval[current]}) \in Nat
    BY <1>0, MinOfTwo
  <2> QED BY <1>5, <2>1 DEF CycleDone, NextRow, Goto, history
<1>6. CASE CycleSkipped
  BY <1>6 DEF CycleSkipped, NextRow, Goto, rows, history
<1>7. CASE CycleRaises
  BY <1>7 DEF CycleRaises, NextRow, Goto, Touch, history
<1>8. CASE CycleTimesOut
  BY <1>8 DEF CycleTimesOut, NextRow, Goto, Touch, history
<1>9. CASE EndPass
  BY <1>9 DEF EndPass, Goto, rows, history
<1>10. CASE Wake
  BY <1>10 DEF Wake, Goto, rows, history
<1>11. CASE SupervisorRestarts
  BY <1>11 DEF SupervisorRestarts, Goto, rows, history
<1>12. CASE Tick
  <2>1. \A p \in Ids : Min({age[p] + 1, Interval[p]}) \in Nat
    BY <1>0, MinOfTwo
  <2> QED BY <1>12, <2>1 DEF Tick
<1>13. CASE Create
  <2>1. /\ created' = created + 1 /\ created' \in Ids
        /\ active' = [active EXCEPT ![created'] = TRUE]
    BY <1>0, <1>13 DEF Create, Ids
  <2>2. created' \in 0 .. NumPortfolios /\ 1 .. created \subseteq 1 .. created'
    BY <1>0, <2>1 DEF Ids
  <2>3. UNCHANGED <<age, traders, listed, todo, rested, current, timer, late>>
    BY <1>13 DEF Create, task
  <2>4. active' \in [Ids -> BOOLEAN] /\ \A p \in Ids : active'[p] => p <= created'
    BY <1>0, <2>1 DEF Ids
  <2> QED BY <2>2, <2>3, <2>4
<1>14. ASSUME NEW p \in Ids, Pause(p) PROVE Types'
  BY <1>14 DEF Pause, task
<1>15. ASSUME NEW p \in Ids, Resume(p) PROVE Types'
  BY <1>15 DEF Resume, HasRow, task, history
<1>16. CASE ServerRestarts
  BY <1>0, <1>16 DEF ServerRestarts, Goto, rows, history, Ids
<1>17. CASE UNCHANGED vars
  BY <1>17 DEF vars, rows, task, history
<1> QED
  BY <1>1, <1>2, <1>3, <1>4, <1>5, <1>6, <1>7, <1>8, <1>9, <1>10, <1>11,
     <1>12, <1>13, <1>14, <1>15, <1>16, <1>17 DEF Next, Runner

LEMMA NextLateOnce == RunnerInv /\ [Next]_vars => LateOnce'
<1> SUFFICES ASSUME Types, LateOnce, [Next]_vars PROVE LateOnce'
  BY DEF RunnerInv
<1> USE DEF Types, LateOnce
<1>1. CASE List
  BY <1>1 DEF List, ActiveRows, rows, history
<1>2. ASSUME NEW p \in todo, Serve(p) PROVE LateOnce'
  <2>1. CASE active[p]
    BY <1>2, <2>1 DEF Serve, rows
  <2>2. CASE ~active[p]
    <3>1. p \in Ids /\ late[p] = 0
      BY <2>2, RowsHaveIds
    <3>2. late' = [late EXCEPT ![p] = 1] /\ todo' = todo \ {p}
      BY <1>2, <2>2, <3>1 DEF Serve
    <3> QED BY <1>2, <3>1, <3>2 DEF Serve, rows
  <2> QED BY <2>1, <2>2
<1>3. ASSUME NEW p \in Ids, Pause(p) PROVE LateOnce'
  BY <1>3 DEF Pause, task
<1>4. ASSUME NEW p \in Ids, Resume(p) PROVE LateOnce'
  BY <1>4 DEF Resume, task, history
<1>5. CASE Create
  <2>1. \A p \in Ids : active[p] => active'[p]
    BY <1>5 DEF Create
  <2>2. UNCHANGED <<late, todo>>
    BY <1>5 DEF Create, task
  <2> QED BY <2>1, <2>2
<1>6. CASE ServerRestarts
  BY <1>6 DEF ServerRestarts, rows, history
<1>7. CASE UNCHANGED <<active, late, todo>>
  BY <1>7
<1>8. \/ UNCHANGED <<active, late, todo>>
      \/ List \/ Create \/ ServerRestarts
      \/ \E p \in todo : Serve(p)
      \/ \E p \in Ids : Pause(p) \/ Resume(p)
  BY DEF Next, Runner, ListFails, Crash, CycleDone, CycleSkipped, CycleRaises,
         CycleTimesOut, EndPass, Wake, SupervisorRestarts, Tick, vars, rows,
         task, history
<1> QED BY <1>1, <1>2, <1>3, <1>4, <1>5, <1>6, <1>7, <1>8

LEMMA NextTradersKnown == RunnerInv /\ [Next]_vars => TradersKnown'
<1> SUFFICES ASSUME Types, TradersKnown, [Next]_vars PROVE TradersKnown'
  BY DEF RunnerInv
<1> USE DEF Types, TradersKnown
<1>1. CASE List
  <2>1. listed' = {p \in 1 .. created : active[p]}
    BY <1>1 DEF List, ActiveRows
  <2>2. UNCHANGED <<created, active, traders, rested>>
    BY <1>1 DEF List, rows, history
  <2> QED BY <2>1, <2>2
<1>2. ASSUME NEW p \in todo, Serve(p) PROVE TradersKnown'
  <2>1. traders' = traders \cup {p} /\ p \in listed /\ listed' = listed /\ pc = "pass"
    BY <1>2 DEF Serve
  <2>2. UNCHANGED <<created, active>>
    BY <1>2 DEF Serve, rows
  <2>3. rested \ {p} \subseteq rested'
    BY <1>2 DEF Serve
  <2>4. ~active[p] => rested' = rested
    BY <1>2 DEF Serve
  <2> QED BY <2>1, <2>2, <2>3, <2>4
<1>3. ASSUME NEW p \in Ids, Pause(p) PROVE TradersKnown'
  BY <1>3 DEF Pause, task
<1>4. ASSUME NEW p \in Ids, Resume(p) PROVE TradersKnown'
  BY <1>4 DEF Resume, task, history
<1>5. CASE Create
  <2>0. /\ created' = created + 1 /\ created' \in Ids /\ created \in Nat
        /\ active' = [active EXCEPT ![created'] = TRUE]
    BY RunnerAssumption, <1>5 DEF RunnerAssumption, Create, Ids
  <2>1. \A p \in 1 .. created' : ~active'[p] => p \in 1 .. created /\ ~active[p]
    BY <2>0, RowsHaveIds
  <2>2. UNCHANGED <<traders, listed, pc, rested>>
    BY <1>5 DEF Create, task
  <2> QED BY <2>1, <2>2
<1>6. CASE EndPass
  BY <1>6 DEF EndPass, Goto, rows, history
<1>7. CASE ServerRestarts
  BY <1>7 DEF ServerRestarts, rows, history
<1>8. ASSUME UNCHANGED <<created, active, traders, listed, rested>>,
             pc' \in {"pass", "cycle"} => pc \in {"pass", "cycle"}
      PROVE  TradersKnown'
  BY <1>8
<1>9. \/ /\ UNCHANGED <<created, active, traders, listed, rested>>
         /\ pc' \in {"pass", "cycle"} => pc \in {"pass", "cycle"}
      \/ List \/ Create \/ EndPass \/ ServerRestarts
      \/ \E p \in todo : Serve(p)
      \/ \E p \in Ids : Pause(p) \/ Resume(p)
  BY DEF Next, Runner, ListFails, Crash, CycleDone, CycleSkipped, CycleRaises,
         CycleTimesOut, Wake, SupervisorRestarts, Tick, Goto, NextRow, vars, rows,
         task, history
<1> QED BY <1>1, <1>2, <1>3, <1>4, <1>5, <1>6, <1>7, <1>8, <1>9

\* RunnerInv holds in every state the runner reaches.
THEOREM RunnerInvariant == Spec => []RunnerInv
<1>1. RunnerInv /\ [Next]_vars => RunnerInv'
  BY NextTypes, NextLateOnce, NextTradersKnown DEF RunnerInv
<1> QED BY InitRunnerInv, <1>1, PTL DEF Spec

\* A pause lets at most one more cycle of its portfolio begin.
THEOREM PauseStops == Spec => []PauseStopsCycles
<1>1. RunnerInv => PauseStopsCycles
  BY DEF RunnerInv, LateOnce, PauseStopsCycles
<1> QED BY RunnerInvariant, <1>1, PTL

\* The runner forgets no trader but those of portfolios that were paused.
THEOREM TradersKept == Spec => TradersSurvive
<1> DEFINE Step == \A p \in traders \ traders' : p \in rested \/ faults' # faults
<1>1. RunnerInv /\ [Next]_vars => [Step]_vars
  <2> SUFFICES ASSUME RunnerInv, Next, NEW p \in traders \ traders'
               PROVE  p \in rested \/ faults' # faults
    OBVIOUS
  <2>1. CASE EndPass
    <3>1. p \notin listed /\ pc = "pass"
      BY <2>1 DEF EndPass, Keeps
    <3> QED BY <3>1 DEF RunnerInv, TradersKnown
  <2>2. CASE ServerRestarts
    BY <2>2 DEF ServerRestarts, Fault
  <2>3. CASE \E q \in todo : Serve(q)
    BY <2>3 DEF Serve
  <2>4. traders' = traders \/ EndPass \/ ServerRestarts \/ \E q \in todo : Serve(q)
    BY DEF Next, Runner, List, ListFails, Crash, CycleDone, CycleSkipped, CycleRaises,
           CycleTimesOut, Wake, SupervisorRestarts, Tick, Create, Pause, Resume, task
  <2> QED BY <2>1, <2>2, <2>3, <2>4
<1> QED BY RunnerInvariant, <1>1, PTL DEF Spec, TradersSurvive

-------------------------------------------------------------------------------
(* How long an active portfolio waits.                                     *)

\* What the task's counters say of each other.
Clocks ==
  /\ pc \in {"start", "pass", "cycle", "asleep", "crashed"}
  /\ timer <= CycleTimeout
  /\ pc \in {"start", "pass"} => timer = 0
  /\ pc \in {"asleep", "crashed"} => timer <= 1
  /\ pc = "cycle" => current \notin todo
  /\ faults \in 0 .. MaxFaults
  /\ waited \in [Ids -> Nat]
  /\ \A p \in Ids : age[p] <= Interval[p] /\ (~active[p] => waited[p] = 0)
  /\ pc \in {"pass", "cycle"} => \A p \in todo : age[p] = Interval[p]

\* Ticks the cycles of n portfolios take at most.
Cycles(n) == n * CycleTimeout

\* What the pass under way still does before it gets to p, or to its end.
Before(p) == IF p \in todo THEN {q \in todo : q < p} ELSE todo
Left == IF pc = "cycle" THEN CycleTimeout - timer ELSE 0

\* Ticks until a portfolio that is due is served, if nothing fails: the rest
\* of the pass under way and, if that does not know the portfolio, the sleep
\* and the cycles of the others in the next.
Remaining(p) ==
  IF pc \in {"pass", "cycle"}
  THEN Cycles(Cardinality(Before(p))) + Left
         + (IF p \in todo THEN 0 ELSE 1 + Cycles(NumPortfolios - 1))
  ELSE (IF pc = "start" THEN 0 ELSE 1 - timer) + Cycles(NumPortfolios - 1)

InCycle(p) == pc = "cycle" /\ current = p

\* While its own cycle runs it has waited as long as that runs; until it is
\* due, little longer than it has aged; from then on what remains is bounded.
Patient(p) ==
  /\ InCycle(p) => waited[p] <= timer
  /\ ~InCycle(p) /\ ~Due(p) => waited[p] <= age[p] + CycleTimeout
  /\ ~InCycle(p) /\ Due(p) => waited[p] + Remaining(p) <= MaxWait(p)

\* A row that crashes the runner starves the rows after it and no other.
Reachable == {p \in Ids : \A q \in Malformed : p < q}

WaitInv == Clocks /\ \A p \in Reachable : active[p] => Patient(p)

\* Every fault makes the limit longer by what a pass takes.
Extra(f) == f * (NumPortfolios * CycleTimeout + 1)

LEMMA CyclesSize ==
  ASSUME NEW n \in Nat
  PROVE  /\ Cycles(n) \in Nat
         /\ Cycles(n + 1) = Cycles(n) + CycleTimeout
         /\ \A m \in Nat : n <= m => Cycles(n) <= Cycles(m)
<1>1. CycleTimeout \in Nat \ {0}
  BY RunnerAssumption
<1>2. n * CycleTimeout \in Nat /\ (n + 1) * CycleTimeout = n * CycleTimeout + CycleTimeout
  BY <1>1, Z3
<1>3. ASSUME NEW m \in Nat, n <= m PROVE n * CycleTimeout <= m * CycleTimeout
  BY <1>1, <1>3, Z3
<1> QED
  BY <1>2, <1>3 DEF Cycles

LEMMA LimitSize ==
  ASSUME NEW i \in Nat, NEW f \in Nat
  PROVE  /\ i + (2 * NumPortfolios - 1) * CycleTimeout + 1
              + f * (NumPortfolios * CycleTimeout + 1)
            = i + CycleTimeout + 2 * Cycles(NumPortfolios - 1) + 1 + Extra(f)
         /\ Extra(f) \in Nat
         /\ Extra(f + 1) = Extra(f) + Cycles(NumPortfolios - 1) + CycleTimeout + 1
<1> DEFINE N == NumPortfolios
           T == CycleTimeout
<1>1. N \in Nat \ {0} /\ T \in Nat \ {0}
  BY RunnerAssumption
<1> HIDE DEF N, T
<1>2. (2 * N - 1) * T = T + 2 * ((N - 1) * T)
  BY <1>1, Z3
<1>3. N * T \in Nat /\ N * T = (N - 1) * T + T
  BY <1>1, Z3
<1>4. f * (N * T + 1) \in Nat /\ (f + 1) * (N * T + 1) = f * (N * T + 1) + N * T + 1
  <2> DEFINE c == N * T + 1
  <2>1. c \in Nat
    BY <1>3
  <2> HIDE DEF c
  <2>2. f * c \in Nat /\ (f + 1) * c = f * c + c
    BY <2>1, Z3
  <2>3. f * c \in Nat /\ (f + 1) * c = f * c + N * T + 1
    BY <1>3, <2>2 DEF c
  <2> QED
    BY <2>3 DEF c
<1>5. (N - 1) * T \in Nat
  BY <1>1, Z3
<1> QED
  BY <1>1, <1>2, <1>3, <1>4, <1>5 DEF Cycles, Extra, N, T

\* The others that a pass may serve before a portfolio.
LEMMA Others ==
  ASSUME NEW p \in Ids, NEW S \in SUBSET (Ids \ {p})
  PROVE  /\ IsFiniteSet(S) /\ Cardinality(S) \in 0 .. (NumPortfolios - 1)
         /\ \A q \in Ids \ (S \cup {p}) : Cardinality(S) + 1 \in 0 .. (NumPortfolios - 1)
<1>1. NumPortfolios \in Nat \ {0}
  BY RunnerAssumption
<1>2. IsFiniteSet(Ids) /\ Cardinality(Ids) = NumPortfolios
  BY <1>1, FS_Interval DEF Ids
<1>3. IsFiniteSet(Ids \ {p}) /\ Cardinality(Ids \ {p}) = NumPortfolios - 1
  BY <1>2, FS_RemoveElement
<1>4. /\ IsFiniteSet(S) /\ Cardinality(S) \in Nat
      /\ Cardinality(S) <= NumPortfolios - 1
  BY <1>3, FS_Subset, FS_CardinalityType
<1>5. ASSUME NEW q \in Ids \ (S \cup {p})
      PROVE  Cardinality(S) + 1 <= NumPortfolios - 1
  <2>1. S \cup {q} \subseteq Ids \ {p} /\ q \notin S
    OBVIOUS
  <2>2. Cardinality(S \cup {q}) = Cardinality(S) + 1
    BY <1>4, <2>1, FS_AddElement
  <2> QED
    BY <1>3, <2>1, <2>2, FS_Subset
<1> QED
  BY <1>1, <1>4, <1>5

\* Whatever the pass under way does first, it is done by others.
LEMMA BeforeOthers ==
  ASSUME Types, NEW p \in Ids
  PROVE  Before(p) \in SUBSET (Ids \ {p})
<1>1. todo \subseteq Ids
  BY RowsHaveIds DEF Types
<1>2. p \notin Before(p)
  <2>1. p \in Nat
    BY DEF Ids
  <2> QED
    BY <2>1 DEF Before
<1>3. Before(p) \subseteq todo
  BY DEF Before
<1> QED
  BY <1>1, <1>2, <1>3

\* What remains is never more than the cycles of two passes and a sleep.
LEMMA RemainingSize ==
  ASSUME Types, Clocks, NEW p \in Ids
  PROVE  /\ Remaining(p) \in Nat
         /\ Remaining(p) <= 2 * Cycles(NumPortfolios - 1) + CycleTimeout + 1
<1> DEFINE c == Cardinality(Before(p))
           K == Cycles(NumPortfolios - 1)
<1>1. NumPortfolios \in Nat \ {0} /\ CycleTimeout \in Nat \ {0}
  BY RunnerAssumption
<1>2. Before(p) \in SUBSET (Ids \ {p})
  BY BeforeOthers
<1>3. c \in 0 .. (NumPortfolios - 1)
  BY <1>2, Others
<1>4. Cycles(c) \in Nat /\ K \in Nat /\ Cycles(c) <= K
  BY <1>1, <1>3, CyclesSize
<1>5. Left \in 0 .. CycleTimeout
  BY <1>1 DEF Left, Clocks, Types
<1>6. timer \in Nat /\ (pc \in {"asleep", "crashed"} => timer <= 1)
  BY DEF Clocks, Types
<1> HIDE DEF c, K
<1>7. Remaining(p) = IF pc \in {"pass", "cycle"}
                     THEN Cycles(c) + Left + (IF p \in todo THEN 0 ELSE 1 + K)
                     ELSE (IF pc = "start" THEN 0 ELSE 1 - timer) + K
  BY DEF Remaining, c, K
<1>8. pc \in {"start", "pass", "cycle", "asleep", "crashed"}
  BY DEF Clocks
<1> QED
  BY <1>1, <1>4, <1>5, <1>6, <1>7, <1>8 DEF K
LEMMA RemainingSizeNext ==
  ASSUME NEW p \in Ids
  PROVE  (Types /\ Clocks =>
            /\ Remaining(p) \in Nat
            /\ Remaining(p) <= 2 * Cycles(NumPortfolios - 1) + CycleTimeout + 1)'
<1>1. Types /\ Clocks =>
        /\ Remaining(p) \in Nat
        /\ Remaining(p) <= 2 * Cycles(NumPortfolios - 1) + CycleTimeout + 1
  BY RemainingSize
<1> QED
  BY <1>1, PTL

LEMMA PassSize == Cycles(NumPortfolios - 1) \in Nat
<1>1. NumPortfolios - 1 \in Nat
  BY RunnerAssumption
<1> QED
  BY <1>1, CyclesSize

\* Who is not impatient has not waited too long.
LEMMA PatientBound ==
  ASSUME Types, Clocks, NEW p \in Ids, Patient(p)
  PROVE  /\ waited[p] <= MaxWait(p)
         /\ InCycle(p) \/ ~Due(p) => waited[p] <= Interval[p] + CycleTimeout
<1>1. /\ CycleTimeout \in Nat /\ Interval[p] \in Nat /\ faults \in Nat
      /\ waited[p] \in Nat /\ age[p] \in Nat /\ age[p] <= Interval[p] /\ timer <= CycleTimeout
  BY RunnerAssumption DEF Types, Clocks
<1>2. /\ MaxWait(p) = Interval[p] + CycleTimeout + 2 * Cycles(NumPortfolios - 1) + 1 + Extra(faults)
      /\ Extra(faults) \in Nat
  BY <1>1, LimitSize, Zenon DEF MaxWait
<1>3. Cycles(NumPortfolios - 1) \in Nat
  BY PassSize
<1>4. InCycle(p) \/ ~Due(p) => waited[p] <= Interval[p] + CycleTimeout
  BY <1>1 DEF Patient, Types
<1>5. Remaining(p) \in Nat
  BY RemainingSize
<1>6. ~InCycle(p) /\ Due(p) => waited[p] <= MaxWait(p)
  <2>1. MaxWait(p) \in Nat
    BY <1>1, <1>2, <1>3
  <2> QED
    BY <1>1, <1>5, <2>1 DEF Patient
<1> QED
  BY <1>1, <1>2, <1>3, <1>4, <1>6

\* The steps after which nobody need look at what was before: a portfolio
\* just served, created or resumed has not waited; a fault pays for a pass.
LEMMA FreshPatient ==
  ASSUME Types', Clocks', NEW p \in Ids, waited'[p] = 0
  PROVE  Patient(p)'
<1>1. /\ CycleTimeout \in Nat /\ Interval[p] \in Nat \ {0} /\ faults' \in Nat
      /\ age'[p] \in Nat /\ timer' \in Nat
  BY RunnerAssumption DEF Types, Clocks
<1>2. /\ MaxWait(p)' = Interval[p] + CycleTimeout + 2 * Cycles(NumPortfolios - 1) + 1 + Extra(faults')
      /\ Extra(faults') \in Nat
  BY <1>1, LimitSize, Zenon DEF MaxWait
<1>3. Cycles(NumPortfolios - 1) \in Nat
  BY PassSize
<1>4. /\ Remaining(p)' \in Nat
      /\ Remaining(p)' <= 2 * Cycles(NumPortfolios - 1) + CycleTimeout + 1
  BY RemainingSizeNext
<1> QED
  BY <1>1, <1>2, <1>3, <1>4 DEF Patient

LEMMA FaultPatient ==
  ASSUME Types, Clocks, Clocks', NEW p \in Ids, Patient(p), Fault,
         waited'[p] = waited[p],
         age'[p] = age[p] \/ (InCycle(p) /\ age'[p] \in 0 .. Interval[p]),
         timer' = 0, pc' \in {"start", "asleep", "crashed"}
  PROVE  Patient(p)'
<1> DEFINE K == Cycles(NumPortfolios - 1)
<1>1. /\ CycleTimeout \in Nat /\ Interval[p] \in Nat /\ faults \in Nat /\ faults' = faults + 1
      /\ waited[p] \in Nat /\ age[p] \in Nat /\ timer \in Nat /\ timer <= CycleTimeout
  BY RunnerAssumption DEF Types, Clocks, Fault
<1>2. /\ MaxWait(p) = Interval[p] + CycleTimeout + 2 * K + 1 + Extra(faults)
      /\ MaxWait(p)' = Interval[p] + CycleTimeout + 2 * K + 1 + Extra(faults')
      /\ Extra(faults') = Extra(faults) + K + CycleTimeout + 1 /\ Extra(faults) \in Nat
  <2>1. faults \in Nat /\ faults' \in Nat /\ faults' = faults + 1 /\ Interval[p] \in Nat
    BY <1>1
  <2>2. Extra(faults + 1) = Extra(faults) + K + CycleTimeout + 1 /\ Extra(faults) \in Nat
    BY <2>1, LimitSize, Zenon
  <2>3. MaxWait(p) = Interval[p] + CycleTimeout + 2 * K + 1 + Extra(faults)
    BY <2>1, LimitSize, Zenon DEF MaxWait
  <2>4. MaxWait(p)' = Interval[p] + CycleTimeout + 2 * K + 1 + Extra(faults')
    BY <2>1, LimitSize, Zenon DEF MaxWait
  <2> QED
    BY <2>1, <2>2, <2>3, <2>4, Zenon
<1>3. K \in Nat
  BY PassSize
<1>4. Remaining(p)' <= 1 + K /\ Remaining(p)' \in Nat
  <2> HIDE DEF K
  <2>1. Remaining(p)' = (IF pc' = "start" THEN 0 ELSE 1 - timer') + K
    BY DEF Remaining, K
  <2> QED
    BY <1>3, <2>1
<1>5. ~InCycle(p)'
  BY DEF InCycle
<1>6. waited[p] <= MaxWait(p)
  BY PatientBound
<1> HIDE DEF K
<1>7. waited'[p] + Remaining(p)' <= MaxWait(p)'
  BY <1>1, <1>2, <1>3, <1>4, <1>6
<1>8. ~Due(p)' => waited'[p] <= age'[p] + CycleTimeout
  <2>1. CASE InCycle(p)
    <3>1. waited[p] <= timer
      BY <2>1 DEF Patient
    <3>2. age'[p] \in Nat
      BY <1>1
    <3> QED
      BY <1>1, <3>1, <3>2
  <2>2. CASE ~InCycle(p)
    BY <2>2 DEF Patient, Due
  <2> QED
    BY <2>1, <2>2
<1> QED
  BY <1>5, <1>7, <1>8 DEF Patient

LEMMA InitClocks == Init => Clocks
BY RunnerAssumption DEF Init, Clocks, Ids

LEMMA ClocksStep ==
  ASSUME RunnerInv, Clocks, [Next]_vars
  PROVE  Clocks'
<1> USE DEF Clocks
<1>0. /\ Types /\ NumPortfolios \in Nat \ {0} /\ Interval \in [Ids -> Nat \ {0}]
      /\ CycleTimeout \in Nat \ {0} /\ MaxFaults \in Nat
      /\ todo \subseteq Ids /\ current \in Ids /\ timer \in Nat /\ age \in [Ids -> Nat]
  BY RunnerAssumption, RowsHaveIds DEF RunnerInv, Types
<1>1. CASE List
  BY <1>0, <1>1 DEF List, Goto, Due, rows, history
<1>2. CASE ListFails
  BY <1>0, <1>2 DEF ListFails, Goto, Fault, rows, history
<1>3. ASSUME NEW p \in todo, Serve(p) PROVE Clocks'
  <2>1. /\ waited' \in [Ids -> Nat] /\ \A q \in Ids : waited'[q] \in {waited[q], 0}
    BY <1>0, <1>3 DEF Serve
  <2> QED
    BY <1>0, <1>3, <2>1 DEF Serve, Goto, rows
<1>4. ASSUME NEW p \in todo, Crash(p) PROVE Clocks'
  BY <1>0, <1>4 DEF Crash, Goto, Fault, rows, history
<1>5. CASE CycleDone
  <2>1. /\ Min({timer, Interval[current]}) \in Nat
        /\ Min({timer, Interval[current]}) <= Interval[current]
    BY <1>0, MinOfTwo
  <2>2. \A p \in Ids : age'[p] = IF p = current THEN Min({timer, Interval[current]}) ELSE age[p]
    BY <1>0, <1>5 DEF CycleDone
  <2> QED
    BY <1>0, <1>5, <2>1, <2>2 DEF CycleDone, NextRow, Goto, history
<1>6. CASE CycleSkipped
  BY <1>0, <1>6 DEF CycleSkipped, NextRow, Goto, rows, history
<1>7. CASE CycleRaises \/ CycleTimesOut
  <2>1. \A p \in Ids : age'[p] = age[p] \/ (p = current /\ age'[p] = 0)
    BY <1>0, <1>7 DEF CycleRaises, CycleTimesOut, Touch
  <2>2. faults' \in 0 .. MaxFaults
    BY <1>0, <1>7 DEF CycleRaises, CycleTimesOut, Fault
  <2>3. /\ pc = "cycle" /\ pc' \in {"pass", "crashed"} /\ timer' = 0
        /\ UNCHANGED <<active, todo, current, waited>>
    BY <1>7 DEF CycleRaises, CycleTimesOut, NextRow, Goto, history
  <2> QED
    BY <1>0, <2>1, <2>2, <2>3
<1>8. CASE EndPass \/ Wake \/ SupervisorRestarts
  BY <1>0, <1>8 DEF EndPass, Wake, SupervisorRestarts, Goto, rows, history
<1>9. CASE Tick
  <2>1. \A p \in Ids : /\ Min({age[p] + 1, Interval[p]}) \in Nat
                       /\ Min({age[p] + 1, Interval[p]}) <= Interval[p]
    BY <1>0, MinOfTwo
  <2>2. \A p \in Ids : age'[p] <= Interval[p]
    BY <1>9, <2>1 DEF Tick
  <2>3. waited' \in [Ids -> Nat] /\ \A p \in Ids : ~active[p] => waited'[p] = waited[p]
    BY <1>9 DEF Tick
  <2>4. \A p \in Ids : age[p] = Interval[p] => age'[p] = Interval[p]
    <3>1. ASSUME NEW p \in Ids, age[p] = Interval[p]
          PROVE  Min({age[p] + 1, Interval[p]}) = Interval[p]
      BY <1>0, <3>1, MinOfNext
    <3> QED
      BY <1>9, <3>1 DEF Tick
  <2>5. /\ timer' = timer + 1 /\ UNCHANGED <<active, pc, todo, current, faults>>
        /\ pc \in {"cycle", "asleep", "crashed"} /\ (pc = "cycle" => timer < CycleTimeout)
        /\ (pc # "cycle" => timer < 1)
    BY <1>9 DEF Tick
  <2> QED
    BY <1>0, <2>2, <2>3, <2>4, <2>5
<1>10. CASE Create
  <2>1. /\ created + 1 \in Ids /\ waited' = [waited EXCEPT ![created + 1] = 0]
        /\ active' = [active EXCEPT ![created + 1] = TRUE]
        /\ UNCHANGED <<age, task, faults>>
    BY <1>0, <1>10 DEF Create, Ids, Types
  <2> QED
    BY <1>0, <2>1 DEF task, Types
<1>11. ASSUME NEW p \in Ids, Pause(p) PROVE Clocks'
  BY <1>0, <1>11 DEF Pause, task, Types
<1>12. ASSUME NEW p \in Ids, Resume(p) PROVE Clocks'
  BY <1>0, <1>12 DEF Resume, task, history, Types
<1>13. CASE ServerRestarts
  BY <1>0, <1>13 DEF ServerRestarts, Goto, Fault, rows, history
<1>14. CASE UNCHANGED vars
  BY <1>14 DEF vars, rows, task, history
<1> QED
  BY <1>1, <1>2, <1>3, <1>4, <1>5, <1>6, <1>7, <1>8, <1>9, <1>10, <1>11, <1>12, <1>13, <1>14
     DEF Next, Runner

\* A step that brings a portfolio no further from its cycle.
LEMMA NoLaterPatient ==
  ASSUME Types, Clocks, Types', Clocks', NEW p \in Ids, Patient(p),
         faults' \in {faults, faults + 1}, waited'[p] = waited[p], age'[p] = age[p],
         ~InCycle(p), ~InCycle(p)',
         Due(p) => Remaining(p)' <= Remaining(p)
  PROVE  Patient(p)'
<1>1. /\ Interval[p] \in Nat /\ faults \in Nat /\ faults' \in Nat /\ CycleTimeout \in Nat
      /\ waited[p] \in Nat
  BY RunnerAssumption DEF Clocks
<1>2. /\ MaxWait(p) = Interval[p] + CycleTimeout + 2 * Cycles(NumPortfolios - 1) + 1 + Extra(faults)
      /\ MaxWait(p)' = Interval[p] + CycleTimeout + 2 * Cycles(NumPortfolios - 1) + 1 + Extra(faults')
      /\ Extra(faults) \in Nat /\ Extra(faults') \in Nat
      /\ Extra(faults + 1) = Extra(faults) + Cycles(NumPortfolios - 1) + CycleTimeout + 1
  BY <1>1, LimitSize, Zenon DEF MaxWait
<1>3. MaxWait(p) <= MaxWait(p)' /\ MaxWait(p) \in Nat /\ MaxWait(p)' \in Nat
  BY <1>1, <1>2, PassSize
<1>4. Remaining(p) \in Nat /\ Remaining(p)' \in Nat
  BY RemainingSize, RemainingSizeNext
<1>5. Due(p)' <=> Due(p)
  BY DEF Due
<1> QED
  BY <1>1, <1>3, <1>4, <1>5 DEF Patient

LEMMA ListPatient ==
  ASSUME Types, Clocks, Types', Clocks', NEW p \in Ids, active[p], Patient(p), List
  PROVE  Patient(p)'
<1>1. /\ pc = "start" /\ pc' = "pass" /\ UNCHANGED <<faults, waited, age>>
      /\ todo' = {q \in ActiveRows : Due(q)}
  BY DEF List, Goto, rows, history
<1>2. ASSUME Due(p) PROVE Remaining(p)' <= Remaining(p)
  <2>1. p \in todo'
    BY <1>1, <1>2 DEF ActiveRows, Types, Ids
  <2>2. Before(p)' \in SUBSET (Ids \ {p})
    <3>1. todo' \subseteq Ids
      BY <1>1, RowsHaveIds DEF ActiveRows
    <3>2. Before(p)' = {q \in todo' : q < p}
      BY <2>1 DEF Before
    <3>3. p \notin Before(p)'
      <4>1. p \in Nat
        BY DEF Ids
      <4> QED
        BY <3>2, <4>1
    <3>4. Before(p)' \subseteq todo'
      BY <3>2
    <3> QED
      BY <3>1, <3>3, <3>4
  <2>3. Cardinality(Before(p)') \in 0 .. (NumPortfolios - 1)
    BY <2>2, Others
  <2>4. Cycles(Cardinality(Before(p)')) <= Cycles(NumPortfolios - 1)
        /\ Cycles(Cardinality(Before(p)')) \in Nat
    BY <2>3, RunnerAssumption, CyclesSize
  <2>5. Remaining(p)' = Cycles(Cardinality(Before(p)')) + 0 + 0
    BY <1>1, <2>1 DEF Remaining, Left
  <2>6. Remaining(p) = 0 + Cycles(NumPortfolios - 1)
    BY <1>1 DEF Remaining
  <2> QED
    BY <2>4, <2>5, <2>6, PassSize
<1> QED
  BY <1>1, <1>2, NoLaterPatient DEF InCycle

LEMMA ServePatient ==
  ASSUME Types, Clocks, Types', Clocks', NEW p \in Ids, Patient(p),
         NEW q \in todo, q # p, Serve(q)
  PROVE  Patient(p)'
<1>1. /\ pc = "pass" /\ pc' = "cycle" /\ current' = q /\ timer' = 0 /\ todo' = todo \ {q}
      /\ NextInOrder(q) /\ UNCHANGED <<faults, age>> /\ waited'[p] = waited[p]
  BY DEF Serve, Goto, rows, Clocks
<1>2. q \in Before(p) /\ Before(p)' = Before(p) \ {q} /\ (p \in todo' <=> p \in todo)
  <2>1. todo \subseteq Ids
    BY RowsHaveIds DEF Types
  <2>2. p \in todo => q < p
    BY <1>1, <2>1 DEF NextInOrder, Ids
  <2> QED
    BY <1>1, <2>2 DEF Before
<1>3. IsFiniteSet(Before(p))
  BY BeforeOthers, Others
<1>4. /\ Cardinality(Before(p)) = Cardinality(Before(p)') + 1
      /\ Cardinality(Before(p)') \in Nat
  <2>1. /\ IsFiniteSet(Before(p) \ {q})
        /\ Cardinality(Before(p) \ {q}) = Cardinality(Before(p)) - 1
    BY <1>2, <1>3, FS_RemoveElement
  <2>2. Cardinality(Before(p)) \in Nat /\ Cardinality(Before(p) \ {q}) \in Nat
    BY <1>3, <2>1, FS_CardinalityType
  <2> QED
    BY <1>2, <2>1, <2>2
<1>5. /\ Cycles(Cardinality(Before(p))) = Cycles(Cardinality(Before(p)')) + CycleTimeout
      /\ Cycles(Cardinality(Before(p)')) \in Nat
  BY <1>4, CyclesSize
<1>6. Left = 0 /\ Left' = CycleTimeout /\ CycleTimeout \in Nat
  BY <1>1, RunnerAssumption DEF Left
<1>7. Remaining(p)' = Remaining(p)
  BY <1>1, <1>2, <1>5, <1>6, PassSize DEF Remaining
<1>8. Remaining(p) \in Nat
  BY RemainingSize
<1> QED
  BY <1>1, <1>7, <1>8, NoLaterPatient DEF InCycle

\* A malformed row that has its turn comes after p, so p is not waiting for it.
LEMMA CrashPatient ==
  ASSUME Types, Clocks, Types', Clocks', NEW p \in Reachable, Patient(p),
         NEW q \in todo, q \in Malformed, Crash(q), UNCHANGED faults
  PROVE  Patient(p)'
<1>1. /\ pc = "pass" /\ pc' = "crashed" /\ timer' = 0 /\ NextInOrder(q)
      /\ UNCHANGED <<age, waited, todo>>
  BY DEF Crash, Goto, rows, history
<1>2. p \in Ids /\ p \notin todo
  <2>1. p \in Ids /\ p < q /\ q \in Ids
    BY RunnerAssumption DEF Reachable
  <2> QED
    BY <1>1, <2>1 DEF NextInOrder, Ids
<1>3. Cycles(Cardinality(Before(p))) \in Nat
  BY <1>2, BeforeOthers, Others, CyclesSize
<1>4. Remaining(p) = Cycles(Cardinality(Before(p))) + 0 + (1 + Cycles(NumPortfolios - 1))
  BY <1>1, <1>2 DEF Remaining, Left
<1>5. Remaining(p)' = (1 - 0) + Cycles(NumPortfolios - 1)
  BY <1>1 DEF Remaining
<1>6. Remaining(p)' <= Remaining(p)
  BY <1>3, <1>4, <1>5, PassSize
<1> QED
  BY <1>1, <1>2, <1>6, NoLaterPatient DEF InCycle

\* A cycle ends, its own or that of another.
LEMMA CycleEndPatient ==
  ASSUME Types, Clocks, Types', Clocks', NEW p \in Ids, Patient(p),
         pc = "cycle", pc' = "pass", timer' = 0, UNCHANGED <<todo, waited>>,
         faults' \in {faults, faults + 1}, p # current => age'[p] = age[p]
  PROVE  Patient(p)'
<1> DEFINE K == Cycles(NumPortfolios - 1)
           ahead == Cycles(Cardinality(Before(p)))
<1>1. Before(p)' = Before(p) /\ Left' = 0 /\ Left \in Nat
  BY RunnerAssumption DEF Before, Left, Clocks, Types
<1>2. ahead \in Nat /\ ahead <= K /\ K \in Nat
  <2>1. Cardinality(Before(p)) \in 0 .. (NumPortfolios - 1)
    BY BeforeOthers, Others
  <2> QED
    BY <2>1, RunnerAssumption, CyclesSize, PassSize
<1>3. /\ Remaining(p) = ahead + Left + (IF p \in todo THEN 0 ELSE 1 + K)
      /\ Remaining(p)' = ahead + 0 + (IF p \in todo THEN 0 ELSE 1 + K)
  BY <1>1 DEF Remaining
<1> HIDE DEF K, ahead
<1>4. CASE p # current
  <2>1. Remaining(p)' <= Remaining(p)
    BY <1>1, <1>2, <1>3
  <2> QED
    BY <1>4, <2>1, NoLaterPatient DEF InCycle
<1>5. CASE p = current
  <2>1. /\ CycleTimeout \in Nat /\ Interval[p] \in Nat /\ faults' \in Nat /\ age'[p] \in Nat
        /\ waited[p] \in Nat /\ timer \in Nat /\ timer <= CycleTimeout
    BY RunnerAssumption DEF Types, Clocks
  <2>2. waited[p] <= CycleTimeout
    BY <1>5, <2>1 DEF Patient, InCycle
  <2>3. /\ MaxWait(p)' = Interval[p] + CycleTimeout + 2 * K + 1 + Extra(faults')
        /\ Extra(faults') \in Nat
    BY <2>1, LimitSize DEF MaxWait, K
  <2>4. Remaining(p)' <= 2 * K + 1 /\ Remaining(p)' \in Nat
    BY <1>2, <1>3
  <2>5. waited'[p] + Remaining(p)' <= MaxWait(p)'
    BY <1>2, <2>1, <2>2, <2>3, <2>4
  <2>6. waited'[p] <= age'[p] + CycleTimeout
    BY <2>1, <2>2
  <2> QED
    BY <2>5, <2>6 DEF Patient, InCycle
<1> QED
  BY <1>4, <1>5

LEMMA TickPatient ==
  ASSUME Types, Clocks, Types', Clocks', NEW p \in Ids, Patient(p), Tick
  PROVE  Patient(p)'
<1> DEFINE K == Cycles(NumPortfolios - 1)
           ahead == Cycles(Cardinality(Before(p)))
<1>1. /\ timer' = timer + 1 /\ UNCHANGED <<pc, todo, current, faults>>
      /\ pc \in {"cycle", "asleep", "crashed"} /\ (pc # "cycle" => timer < 1)
      /\ age'[p] = Min({age[p] + 1, Interval[p]})
      /\ waited'[p] = waited[p] \/ waited'[p] = waited[p] + 1
  BY DEF Tick
<1>2. /\ CycleTimeout \in Nat /\ Interval[p] \in Nat /\ faults \in Nat /\ age[p] \in Nat
      /\ waited[p] \in Nat /\ timer \in Nat /\ timer' <= CycleTimeout /\ age[p] <= Interval[p]
  BY RunnerAssumption DEF Types, Clocks
<1>3. Before(p)' = Before(p) /\ (InCycle(p)' <=> InCycle(p)) /\ MaxWait(p)' = MaxWait(p)
  BY <1>1 DEF Before, InCycle, MaxWait
<1>4. /\ MaxWait(p) = Interval[p] + CycleTimeout + 2 * K + 1 + Extra(faults)
      /\ Extra(faults) \in Nat
  BY <1>2, LimitSize DEF MaxWait
<1>5. ahead \in Nat /\ K \in Nat /\ Cardinality(Before(p)) \in Nat
  <2>1. Cardinality(Before(p)) \in 0 .. (NumPortfolios - 1)
    BY BeforeOthers, Others
  <2> QED
    BY <2>1, CyclesSize, PassSize
<1>6. /\ pc = "cycle" => /\ Left = CycleTimeout - timer /\ Left' = CycleTimeout - timer'
                         /\ Remaining(p) = ahead + Left + (IF p \in todo THEN 0 ELSE 1 + K)
                         /\ Remaining(p)' = ahead + Left' + (IF p \in todo THEN 0 ELSE 1 + K)
      /\ pc # "cycle" => Remaining(p) = (1 - timer) + K /\ Remaining(p)' = (1 - timer') + K
  BY <1>1, <1>3 DEF Remaining, Left
<1>7. CASE InCycle(p)
  <2>1. waited'[p] <= timer'
    BY <1>1, <1>2, <1>7 DEF Patient
  <2> QED
    BY <1>3, <1>7, <2>1 DEF Patient
<1>8. CASE ~InCycle(p) /\ Due(p)
  <2>1. Due(p)'
    <3>1. Min({age[p] + 1, Interval[p]}) = Interval[p]
      BY <1>2, <1>8, MinOfNext DEF Due
    <3> QED
      BY <1>1, <3>1 DEF Due
  <2>2. Remaining(p)' = Remaining(p) - 1 /\ Remaining(p) \in Int
    <3> HIDE DEF K, ahead
    <3> QED
      BY <1>1, <1>2, <1>5, <1>6
  <2>3. waited[p] + Remaining(p) <= MaxWait(p)
    BY <1>8 DEF Patient
  <2>4. MaxWait(p) \in Nat
    BY <1>2, <1>4, <1>5
  <2>5. waited'[p] + Remaining(p)' <= MaxWait(p)'
    BY <1>1, <1>2, <1>3, <2>2, <2>3, <2>4
  <2> QED
    BY <1>3, <1>8, <2>1, <2>5 DEF Patient
<1>9. CASE ~InCycle(p) /\ ~Due(p)
  <2>1. age'[p] = age[p] + 1
    <3>1. age[p] + 1 <= Interval[p]
      BY <1>2, <1>9 DEF Due
    <3>2. Min({age[p] + 1, Interval[p]}) = age[p] + 1
      <4>1. \A x \in {age[p] + 1, Interval[p]} :
              (\A y \in {age[p] + 1, Interval[p]} : x <= y) <=> x = age[p] + 1
        BY <1>2, <3>1
      <4> QED
        BY <4>1 DEF Min
    <3> QED
      BY <1>1, <3>2
  <2>2. waited'[p] <= age'[p] + CycleTimeout
    BY <1>1, <1>2, <1>9, <2>1 DEF Patient
  <2>3. ASSUME Due(p)' PROVE waited'[p] + Remaining(p)' <= MaxWait(p)'
    <3>1. age'[p] = Interval[p]
      BY <2>3 DEF Due
    <3>2. Remaining(p)' <= 2 * K + 1 /\ Remaining(p)' \in Int
      <4>1. CASE pc = "cycle"
        <5>1. p \notin todo
          BY <1>9, <4>1 DEF Clocks, Due
        <5>2. Before(p) = todo /\ current \in Ids \ (Before(p) \cup {p})
          BY <1>9, <4>1, <5>1 DEF Before, InCycle, Clocks, Types
        <5>3. Cardinality(Before(p)) + 1 \in 0 .. (NumPortfolios - 1)
          BY <5>2, BeforeOthers, Others
        <5>4. ahead + CycleTimeout <= K
          <6>1. Cycles(Cardinality(Before(p)) + 1) <= K
            BY <5>3, RunnerAssumption, CyclesSize
          <6>2. Cycles(Cardinality(Before(p)) + 1) = ahead + CycleTimeout
            BY <1>5, CyclesSize
          <6> QED
            BY <6>1, <6>2
        <5> HIDE DEF K, ahead
        <5> QED
          BY <1>1, <1>2, <1>5, <1>6, <4>1, <5>1, <5>4
      <4>2. CASE pc # "cycle"
        <5> HIDE DEF K, ahead
        <5> QED
          BY <1>1, <1>2, <1>5, <1>6, <4>2
      <4> QED
        BY <4>1, <4>2
    <3> HIDE DEF K
    <3> QED
      BY <1>1, <1>2, <1>3, <1>4, <1>5, <2>2, <3>1, <3>2
  <2> QED
    BY <1>3, <1>9, <2>2, <2>3 DEF Patient
<1> QED
  BY <1>7, <1>8, <1>9

LEMMA PatientStep ==
  ASSUME RunnerInv, RunnerInv', Clocks, Clocks', NEW p \in Reachable,
         active'[p], active[p] => Patient(p), [Next]_vars
  PROVE  Patient(p)'
<1>1. Types /\ Types' /\ p \in Ids
  BY DEF RunnerInv, Reachable
<1>2. CASE waited'[p] = 0
  BY <1>1, <1>2, FreshPatient
<1>3. CASE ~active[p]
  <2>1. Create \/ \E q \in Ids : Resume(q)
    <3>1. \/ Create
          \/ \E q \in Ids : Resume(q)
          \/ \E q \in Ids : Pause(q)
          \/ UNCHANGED active
      BY DEF Next, Runner, List, ListFails, Serve, Crash, CycleDone, CycleSkipped,
         CycleRaises, CycleTimesOut, EndPass, Wake, SupervisorRestarts, Tick,
         ServerRestarts, vars, rows
    <3>2. ~(UNCHANGED active)
      BY <1>3
    <3>3. active \in [Ids -> BOOLEAN]
      BY <1>1 DEF Types
    <3>4. ASSUME NEW q \in Ids, Pause(q) PROVE FALSE
      <4>1. active' = [active EXCEPT ![q] = FALSE]
        BY <3>4 DEF Pause
      <4>2. ~active'[p]
        BY <1>1, <1>3, <3>3, <4>1, ZenonT(30)
      <4> QED
        BY <4>2
    <3> QED
      BY <3>1, <3>2, <3>4
  <2>2. waited'[p] = 0
    <3>1. waited[p] = 0 /\ waited \in [Ids -> Nat]
      BY <1>1, <1>3 DEF Clocks
    <3> QED
      BY <1>1, <2>1, <3>1 DEF Create, Resume, history
  <2> QED
    BY <1>1, <2>2, FreshPatient
<1>4. CASE active[p] /\ waited'[p] # 0
  <2>1. Patient(p)
    BY <1>4
  <2>2. CASE List
    BY <1>1, <1>4, <2>1, <2>2, ListPatient
  <2>3. CASE \E q \in todo : Serve(q)
    <3>1. PICK q \in todo : Serve(q)
      BY <2>3
    <3>2. q # p
      BY <1>1, <1>4, <3>1 DEF Serve, Clocks
    <3> QED
      BY <1>1, <2>1, <3>1, <3>2, ServePatient
  <2>4. CASE ListFails
    BY <1>1, <2>1, <2>4, FaultPatient DEF ListFails, Goto, rows, history
  <2>5. CASE \E q \in todo : Crash(q)
    <3>1. PICK q \in todo : Crash(q)
      BY <2>5
    <3>2. CASE q \in Malformed /\ UNCHANGED faults
      BY <1>1, <2>1, <3>1, <3>2, CrashPatient
    <3>3. CASE Fault
      BY <1>1, <2>1, <3>1, <3>3, FaultPatient DEF Crash, Goto, rows, history
    <3> QED
      BY <3>1, <3>2, <3>3 DEF Crash
  <2>6. CASE CycleDone \/ CycleSkipped \/ CycleRaises \/ (CycleTimesOut /\ pc' = "pass")
    <3>1. pc = "cycle" /\ pc' = "pass" /\ timer' = 0 /\ UNCHANGED <<todo, waited>>
      BY <2>6 DEF CycleDone, CycleSkipped, CycleRaises, CycleTimesOut, NextRow, Goto, history
    <3>2. faults' \in {faults, faults + 1}
      BY <2>6 DEF CycleDone, CycleSkipped, CycleRaises, CycleTimesOut, Fault
    <3>3. p # current => age'[p] = age[p]
      BY <1>1, <2>6 DEF CycleDone, CycleSkipped, CycleRaises, CycleTimesOut, Touch, rows, Types
    <3> QED
      BY <1>1, <2>1, <3>1, <3>2, <3>3, CycleEndPatient
  <2>7. CASE CycleTimesOut /\ pc' # "pass"
    <3>1. Fault /\ UNCHANGED <<age, waited>> /\ pc' = "crashed" /\ timer' = 0
      BY <2>7 DEF CycleTimesOut, NextRow, Goto, history
    <3> QED
      BY <1>1, <2>1, <3>1, FaultPatient
  <2>8. CASE EndPass
    <3>1. /\ pc = "pass" /\ todo = {} /\ pc' = "asleep" /\ timer' = 0
          /\ UNCHANGED <<age, waited, faults>>
      BY <2>8 DEF EndPass, Goto, rows, history
    <3>2. Cycles(Cardinality(Before(p))) \in Nat
      BY <1>1, BeforeOthers, Others, CyclesSize
    <3>3. /\ Remaining(p) = Cycles(Cardinality(Before(p))) + 0 + (1 + Cycles(NumPortfolios - 1))
          /\ Remaining(p)' = (1 - 0) + Cycles(NumPortfolios - 1)
      BY <3>1 DEF Remaining, Left
    <3>4. Remaining(p)' <= Remaining(p)
      BY <3>2, <3>3, PassSize
    <3> QED
      BY <1>1, <2>1, <3>1, <3>4, NoLaterPatient DEF InCycle
  <2>9. CASE Wake \/ SupervisorRestarts
    <3>1. /\ pc \in {"asleep", "crashed"} /\ pc' = "start"
          /\ UNCHANGED <<age, waited, faults>>
      BY <2>9 DEF Wake, SupervisorRestarts, MayRestart, Goto, rows, history
    <3>2. /\ Remaining(p) = (1 - timer) + Cycles(NumPortfolios - 1)
          /\ Remaining(p)' = 0 + Cycles(NumPortfolios - 1)
      BY <3>1 DEF Remaining
    <3>3. timer \in Nat /\ timer <= 1
      BY <1>1, <3>1 DEF Types, Clocks
    <3>4. Remaining(p)' <= Remaining(p)
      BY <3>2, <3>3, PassSize
    <3> QED
      BY <1>1, <2>1, <3>1, <3>4, NoLaterPatient DEF InCycle
  <2>10. CASE Tick
    BY <1>1, <2>1, <2>10, TickPatient
  <2>11. CASE ServerRestarts
    BY <1>1, <2>1, <2>11, FaultPatient DEF ServerRestarts, Goto, rows, history
  <2>12. CASE UNCHANGED <<pc, todo, current, timer, faults, age>> /\ waited'[p] = waited[p]
    BY <2>1, <2>12 DEF Patient, InCycle, Due, Remaining, Before, Left, MaxWait
  <2>13. Create \/ UNCHANGED vars \/ (\E q \in Ids : Pause(q) \/ Resume(q))
            => UNCHANGED <<pc, todo, current, timer, faults, age>> /\ waited'[p] = waited[p]
    <3>1. waited \in [Ids -> Nat] /\ active \in [Ids -> BOOLEAN]
      BY <1>1 DEF Clocks, Types
    <3> QED
      BY <1>1, <1>4, <3>1 DEF Create, Pause, Resume, vars, rows, task, history
  <2> QED
    BY <2>2, <2>3, <2>4, <2>5, <2>6, <2>7, <2>8, <2>9, <2>10, <2>11, <2>12, <2>13
       DEF Next, Runner
<1> QED
  BY <1>2, <1>3, <1>4

LEMMA WaitInvariant == Spec => []WaitInv
<1>1. Init => WaitInv
  <2> SUFFICES ASSUME Init PROVE WaitInv
    OBVIOUS
  <2>1. \A p \in Reachable : ~active[p]
    BY DEF Init, Reachable
  <2> QED
    BY <2>1, InitClocks DEF WaitInv
<1>2. RunnerInv /\ RunnerInv' /\ WaitInv /\ [Next]_vars => WaitInv'
  <2> SUFFICES ASSUME RunnerInv, RunnerInv', WaitInv, [Next]_vars PROVE WaitInv'
    OBVIOUS
  <2>1. Clocks /\ Clocks'
    BY ClocksStep DEF WaitInv
  <2>2. ASSUME NEW p \in Reachable, active'[p] PROVE Patient(p)'
    BY <2>1, <2>2, PatientStep DEF WaitInv
  <2> QED
    BY <2>1, <2>2 DEF WaitInv, Reachable
<1> QED
  BY <1>1, <1>2, RunnerInvariant, PTL DEF Spec

\* TypeOK: types of the rows, of the runner's task and of the history.
THEOREM RunnerTypes == Spec => []TypeOK
<1>1. RunnerInv /\ WaitInv => TypeOK
  <2> SUFFICES ASSUME Types, Clocks PROVE TypeOK
    BY DEF RunnerInv, WaitInv
  <2>1. traders \subseteq Ids /\ listed \subseteq Ids /\ todo \subseteq Ids
    BY RowsHaveIds DEF Types
  <2> QED
    BY <2>1, RunnerAssumption DEF Types, Clocks, TypeOK
<1> QED
  BY <1>1, RunnerInvariant, WaitInvariant, PTL

\* An active portfolio with no malformed row before it waits no longer than its
\* interval, a sleep and the cycles of the others in two passes, and for every
\* fault a pass more: whatever the others' cycles take, whoever is created,
\* paused or resumed meanwhile, and however many portfolios there are.
THEOREM NobodyBeforeAMalformedRowStarves ==
  Spec => [](\A p \in Reachable : active[p] => waited[p] <= MaxWait(p))
<1>1. RunnerInv /\ WaitInv => \A p \in Reachable : active[p] => waited[p] <= MaxWait(p)
  BY PatientBound DEF RunnerInv, WaitInv, Reachable
<1> QED
  BY <1>1, RunnerInvariant, WaitInvariant, PTL

\* WaitBounded, when every stored config can be read; that it fails after a
\* malformed row is what the run of the starved runner shows.
THEOREM WaitsAreBounded == Malformed = {} => (Spec => []WaitBounded)
<1> SUFFICES ASSUME Malformed = {} PROVE Spec => []WaitBounded
  OBVIOUS
<1>1. RunnerInv /\ WaitInv => WaitBounded
  BY PatientBound DEF RunnerInv, WaitInv, Reachable, WaitBounded
<1> QED
  BY <1>1, RunnerInvariant, WaitInvariant, PTL
==============================================================================
