# OpenTaoTrader: specifications, checks and proofs

This directory holds TLA+ models of OpenTaoTrader, the TLC configurations that
check them and TLAPS proofs of what holds for every configuration. Paths below
are relative to the repository root; every definition that stands for code is
listed with its lines under `map` in `PROJECT.json`.

## 1. The system

OpenTaoTrader trades subnet alpha tokens against the constant-product pools of
Bittensor. A server process keeps *paper* portfolios, a command-line process
trades *live*; both share one SQLite file and take market data from an upstream
API.

| component | code | state it keeps | operations |
|---|---|---|---|
| AMM | `trading/amm.py` | none | quotes of buys and sells, slippage cap |
| portfolio tracker | `trading/portfolio.py`, `trading/models.py` | free TAO, positions by subnet, last block of every hotkey, peak value, trade log | `execute_buy`, `execute_sell`, `get_state`, `get_available_hotkey` |
| risk manager | `trading/risk.py` | none | `check_entry`, `check_exit` (backtester only) |
| trading cycle | `trading/paper_trader.py` (`run_once`) | the cycle's snapshots and signals | collect signals, serve exits, serve entries |
| persistence | `paper_trader.py`, `server/database.py` | rows of the portfolio, its positions, trades and value history; one connection, one write lock | the writes a cycle ends with, hydration |
| runner and supervisor | `server/main.py` | `_paper_traders`, the list of the pass under way | list, serve the due, drop the paused, sleep; restart after a crash |
| REST routes | `server/routes/paper.py` | none | create, pause, resume; read-only views |
| live trader | `trading/live_trader.py` | kill switch, the day's baseline, the tracker | the two execute hooks, submitted as extrinsics |
| chain client, TTL cache | `server/services/` | cached balances and stakes for 60 s | reads with and without the cache |
| command line | `trading/cli.py` | none | the live loop; batch commands |
| upstream client | `server/api_client.py` | rolling 30-minute bars per subnet | seed, fold of SSE events, staleness, benchmark |
| strategies | `trading/strategies/` | rank caches, rolling buffers, streaks | entry and exit signals |
| backtester | `trading/backtester.py` | a tracker, value history | replay of history, forced exits |
| features | `trading/features.py` | none | the indicators of a snapshot, computed from the history before it |
| RL environment and training | `trading/rl/` | its own small book, the episode's index and reward | reset, step; episodes to train and to evaluate on |
| reports, dashboards, experiments, frontend | `trading/dashboard*.py`, `report.py`, `montecarlo.py`, `experiments*.py`, `frontend/` | none that trades | statistics and pages |

How they interact. The runner calls `run_once` of one portfolio after the
other, each under `wait_for(180 s)`. A cycle asks the upstream client whether
data is stale, copies its buffer under a lock, and decides without any further
suspension; then it awaits one database call per executed trade and three
more. Every coroutine of the server uses the same connection, so a commit by a
route commits what a cycle has half-written, and a read sees it. Pause and
resume only set a flag that the runner reads at the start of its next pass. The
live trader inherits the cycle and replaces the two execute hooks: each
extrinsic is surrounded by awaits in which the chain moves, and what the
tracker records is the difference of two chain reads.

What is hard here:

* *Partial persistence.* A cycle is several commits. It can be cancelled,
  raise, or die at each of them; the handlers then write one more row.
* *Stale state.* `check_entry` sizes entries against a `PortfolioState` taken
  earlier; the runner works on a list read minutes ago; the live trader reads
  through a cache that outlives an extrinsic.
* *A pool with cooldowns.* Few hotkeys serve many positions; an exit needs the
  hotkey that bought; snapshots of different subnets carry different blocks.
* *Scheduling.* One slow, failing or unreadable portfolio delays or stops those
  after it.

What makes each component correct: the tracker never spends the reserve, never
overwrites a position, uses a hotkey once per cooldown and conserves capital;
the rows agree with each other and with memory whenever the runner sleeps, and
a complete cycle repairs what an interrupted one left; every active portfolio
is served in bounded time and a paused one stops; the live book is what is on
chain, and nothing is sent after the kill switch trips.

## 2. The modules

    Amm  <-  TradingCycle  <-  PaperTrader  <-  Reports     PaperRunner
                |      ^-----  LiveTrader
                |      ^-----  Backtester  <-  Training  ->  Features
                |
        <-  StrategyRules  <-  Strategies      SnapshotFeed  <-  Benchmark
                v implements
            Portfolio  (also implemented by PaperTrader, by LiveTrader
                ^       between its restarts and by Backtester until its
                |       forced close)
         SharedPortfolio  (two trackers of it on one row)

**Amm.** `buy_alpha`, `sell_alpha`, `max_tao_for_slippage` in whole units.
The program computes in floating point; what a trader receives is rounded
down, the direction that favours the pool. `ArithmeticProofs` proves that direction.

**Portfolio.** The abstract specification: free TAO and positions change only
by opening or closing one position, within the reserve, the limit and the
hotkeys' cooldowns. It knows nothing of signals, rows or chains.

**TradingCycle.** The tracker (`free`, `positions`, `cooldowns`, `peak`,
`trades`) and the decisions of `run_once` (`phase`, `snaps`, `exits`,
`entries`, `mark`, `state`). `BeginCycle` is the loading and collecting part
up to line 142; `ServeExit`/`SkipExit` one turn of the exit loop;
`ServeEntry`/`SkipEntry` one turn of the entry loop, with `Accepts` =
`check_entry`, `FirstAvailable` = `get_available_hotkey`, `Buy`/`Sell` =
`execute_buy`/`execute_sell` and `TakeState` = `get_state`. Strategies are
abstracted to the signals they may give: any set over the subnets they are
asked about, several per subnet. That is more than the repository's own give
(`Strategies` says what they give), so what holds here holds for all of them, and for an
external one as long as its strengths are in 1..100 percent, which nothing in the code
enforces. Sorting is modelled by "which signal may be at the head".

**PaperTrader.** One portfolio of the server. The rows exist twice: as the
connection sees them (`conn`) and as committed (`disk`). A cycle ends in a
queue of statements (`PersistCalls`), executed one at a time; between two of
them a pause may commit the open transaction, a write may time out or raise
(`InterruptPersist`; the handler writes the runtime row), the handler may fail,
the process may die (`Crash`: memory gone, open transaction rolled back).
Position rows are inserted in the order of a dictionary, that is in any order.
Dropping and hydrating the trader are `DropTrader` and `Schedule`.

**Reports.** What the read routes compute from the rows: the open positions
re-marked against a live market (`OpenPositions`, `HeaderValue`: a position whose
pool is unknown or empty counts at cost, in the header too, which never falls back to
the stored value) and the sums of the statistics
(`TradeStats`).

**PaperRunner.** All portfolios and the one task that serves them. A cycle is
here an interval of time with an outcome: done, skipped, raised, timed out.
`listed` and `todo` are the list the pass works on, `traders` the keys of
`_paper_traders`. Database calls may fail wherever the code awaits one, the
supervisor restarts the task, the server may be restarted. A tick is 60 s, the
time the runner sleeps: `next_due_in` never exceeds 60 and intervals are at
least 60 by the create schema, so every sleep is one tick. (A request may put another
interval into `extra_config`, which the schema does not look at; with less than 60 s the
runner sleeps shorter, which is not modelled.) `waited`, `rested` and
`late` are history variables that only the properties read.

**LiveTrader.** The cycle with both hooks replaced. `PrepareBuy`/`PrepareSell`
are the checks and reads before an extrinsic, `Include`/`Reject` the chain,
`SettleBuy`/`SettleSell`/`SettleNothing` what the trader records. `balance` and
`stake` are the chain's, `cachedBalance` and `cachedStake` the cache's. A
read may be answered from the cache, may fail into its fallback, or may raise;
the chain executes at any pool of `Pools` and up to some blocks ahead of the
snapshots, may include what the SDK reported as failed, and pays dividends. The
operator toggles the row through the server. `Relaunch` is the end of the
process, between two cycles or (a fault) within one, and the next start of the
live command: the tracker is hydrated from the rows (`saved`, written by the last
complete cycle; its single statements are `PaperTrader`'s business), while the
switch and the day's baseline, which are in no row, are forgotten. `Refuses` is the
question each hook asks first: the flag of the process, not the row. `buys`, `tripped` and
`dayStart` are history variables: how many buys were recorded, whether the
switch has paused the row and nobody has resumed it, and what the book was worth before
the day's first sale.

In this form the model leaves out three things of the live command. `Reject` is final: an
extrinsic that was not included when its answer came is not included later, after the
tracker has gone on. A cache entry never lives from one cycle to the next
(`CacheExpires`), which is so when `--poll-interval` is at least the 60 s an entry lives;
the option takes any number. And the command is modelled as it is written:
`server/services/chain_client.py:8-9` imports `api.config` and `api.services.cache`, which
the repository does not contain, so in this commit the live command ends at that import.

**Backtester.** `run` of the backtester, on the signals, trades and checks of
TradingCycle. `history` is what passed the filters, chosen at the start;
`tick` walks the unified timeline, and `Current` is where the pointers stand:
a subnet without a sample shows its last one. `WarmUp` and `PassOver` are the
ticks before `min_snapshots` and of another regime. A traded tick serves the
exit signals, then `CloseOverdue`/`KeepHolding` go through the open positions
in the order of the dictionary (that of the buys), then the entries.
`BeginClose`, `ForceClose` and `Finish` are the end of the run; `final` is the
value the result reports. Hours are block differences, so a hold is measured
with the clock of the subnet's own snapshot, as in the code.

**Features.** `FeatureEngine.compute`: stake velocity, price momentum, change of the
alpha reserve, z-scores and volatilities at an index of a list of bars (`Indicators`), and
the rank of the pool among the subnets in sight (`PoolRank`). Ratios are
pairs and a deviation is its terms, so means are not rounded; a window that the
history does not fill is `None`. A list of values is a function on the indices of its
window, which the sums run over.

**Training.** The environment the policy of `rl_ppo` is trained and evaluated in:
`EnvReset` and `EnvStep` (an action at the current bar, the sale at the last one, the
reward with its penalties, the stop at `max_steps`). An episode is a function of the
bars and of any sequence of actions, over the same histories a replay loads.
`EnvObservation` is what `step` shows the policy in training, where features are computed
with no other subnet in sight, `PolicyObservation` what the strategy shows it when it
trades, with the newest snapshots of all (`Sight`).

**SharedPortfolio.** The server's runner and the live command on one row. Each has
a tracker of its own, hydrated once (`Serve`, `Launch`), trades by any step that
`Portfolio` allows, and writes its positions and then its runtime fields back
(`WritePositions`, `WriteRuntime`), two transactions. `age` is what makes the row due
for the server, `nap` the sleep of the live loop. Neither looks at what the other
wrote.

**SnapshotFeed.** The upstream client: `seed_snapshots` asks subnet after
subnet while the upstream goes on publishing (`SeedRows`: of the rows of the last `SeedWindow` the
upstream's cut keeps the oldest `SeedLimit`), the stream task connects,
reads, breaks, waits and reconnects, `Fold` is `_fold`. A sample is its
timestamp. Samples published while nobody is connected are lost, as are those in
flight when a connection breaks; on connect the upstream may greet with its
newest samples. The upstream is external: it is assumed to send one subnet's samples in
order. `RowAtOrBefore` is the benchmark's binary search, a recursive function of the
interval still searched (`Search`). `received` is a history variable.

**Benchmark.** `compute_benchmark_series` over the feed's buffers: which subnets
are bought at the anchor, for how much, and what the basket is worth at a
timestamp, in exact fractions. The payload of a sample is a function of its
timestamp.

**StrategyRules.** When the fourteen strategies of `trading/strategies/` and
the drain detector signal: one operator for the entry and one for the exit of
each, with the thresholds of `config.py`, and one for each cache they keep in
their modules. `FedByEntry` and `FedByExit` are what a question leaves in the
caches, whether it is answered with a signal or not. A *reading* is a snapshot with the
features that strategies look at; a feature without enough history is
`Unknown`. Profits are computed as the code does, as a sale into the pool of the
reading. Two strategies end in a computation that is left open (`Advised`):
`pmr` looks for its best correlated subnet, `rlppo` asks a trained policy; the
`advice` of a question is any answer.

**Strategies.** The strategies at work. `Publish` is the poller, with one stamp for
all subnets or one subnet ahead of the others; portfolios take turns
(`BeginTurn`), and a turn asks subnet after subnet (`Ask`, the loop of
`run_once`) and ends in `Trade`, where any of the signals may be served:
which ones are is `TradingCycle`'s business. `Rebuild` drops a paused trader with
its drain streaks, `Restart` empties the caches, and positions survive both. The caches
belong to the process, as in the code: two portfolios that run a strategy feed
one cache. `scenario` is a parameter chosen at the start: which strategies,
which readings and how many.

`MC*` modules give constants that a `.cfg` cannot write; `*Proofs` hold proofs.

## 3. What is checked

| run | question | bounds |
|---|---|---|
| `cycle_limits` | do the limits, the hotkeys' spacing, the log and the capital stay consistent, and does the cycle implement `Portfolio`? | 2 subnets, 2 hotkeys, 1 slot, 2 strengths, 2 blocks one cooldown apart, cheap, dear and empty pools |
| `paper` | with pauses, restarts and raising cycles, do memory, rows and history agree whenever the runner sleeps, what survives a crash or an interrupted write, and what does the next cycle repair? | 2 subnets, 2 hotkeys, 2 slots, 1 crash within a cycle or interruption; restarts between cycles are free |
| `runner` | is every active portfolio served in bounded time and for ever, does a pause stop it, and are traders kept and forgotten as they should? | 2 portfolios (intervals of 1 and 3 ticks), cycles of up to 2 ticks, 2 faults |
| `live` | does the live book only step as a `Portfolio` or go back to its rows, match the chain while reads are true, exceed the daily loss limit by no more than the first sale, and fall silent after the switch, also when the row is resumed? | 2 subnets, 1 hotkey, 2 slots, 1 misleading read or report or death within a cycle, relaunches between cycles, 1 dividend, chain at most 1 block ahead |
| `backtest` | does a replay keep to `Portfolio` until its end, close what is overdue, never starve a drain exit, end flat and report the cash it has? On the same histories: do the rewards of an episode add up to what it earned, and in what does the policy's observation at work differ from that in training? | 5 timestamps, 2 subnets, 6 histories each (dear, drained, late, gap, ended), 2 hotkeys, 2 slots, 2 regimes; every episode of every sequence of actions on them |
| `feed` | do buffers stay ordered, keep the newest sample of each bar and never go back, is the benchmark read from them a basket bought once and held, does the stream come back? | 2 subnets, 6 samples (one of a thin pool, one without a price), bars of 2, buffers of 2 bars, seeds of 3 rows from a window of 4, 2 faults |
| `strategies` | are leaders signalled and rank exits deserved while the board is built, emptied and shared, and is nothing sold on the reading it was bought on? | 15 scenarios, every strategy in one; 2 portfolios where there is a cache; 3 subnets where there is a rank; 2 or 3 readings per subnet, half an hour or a week apart; days of 2 bars, weeks of 3 |

Trade logs grow without bound in the code; in the models the market ends them:
hotkeys only move forward in blocks, and a `Snapshots` set has at most three, so a
hotkey trades at most two or three times (without a cooldown, as in `live`, losses and
fees exhaust the capital). Two subnets and two hotkeys are the least that allow
competition for a slot, for free TAO and for a hotkey; three blocks the least
for a buy, a sale and a buy again. Pools and capitals are chosen so that each of the
five caps of `check_entry` is the binding one somewhere, that amounts land on both
sides of `min_trade_tao`, and that sales both gain and lose. The runner's run was
also done with three portfolios and cycles of one tick, with the same result.

In `paper` and `live` two slots for two subnets cannot be exceeded; what exercises the
position limit is `cycle_limits`, where one slot is fought for.

The runs `live` and `paper` use a `VIEW`. In `live` two states that differ in
`trades` and in `mark` only are taken for one: no guard of `LiveTrader`, and no
property of that run, reads either. In `paper` it leaves out the trades of earlier cycles in
memory, the mark and the order of the trade rows, which no guard and no property of the run
reads. Both have the subnets symmetric.

Every property of a passing run has a faulty variant of a definition in the
module (marked `Faulty:`) under which TLC finds it violated.

What the properties say beyond types:

* `LimitsKept`, `OneTradePerSubnet`: the reserve, the position limit and one trade a
  subnet, although entries are sized against a state taken earlier in the cycle. They
  fail as soon as one field of that state is not retaken after a buy.
* `HotkeySpacing`, `DrainNotStarved`: over the whole log, whatever blocks the
  snapshots carry and whichever signals compete.
* `LogExplainsPositions`, `EquityConserved`: the log alone determines the open
  positions, and free TAO plus costs equals initial capital plus realised
  profit.
* `ImplementsPortfolio`, `KeepsPortfolio`: refinement of `Portfolio`; in
  `PaperTrader` by the tracker while there is one and by the rows otherwise, so
  hydration must be invisible.
* `HoldsBounded`, `ReplayKeepsPortfolio`, `ReplayEndsFlat`: on a subnet with a snapshot a
  position outlives its maximum hold only because its hotkey is not rested (with a subnet
  whose data ended, that can be for ever: then the forced close is its only exit); until
  that close the book steps as `Portfolio` allows, and within a tick nothing is sold once
  something was bought; and the reported final value is what was realised.
* `RewardsAddUp`: over every episode the rewards, freed of the penalties, telescope to
  the change in value, the forced sale at the last bar included.
  `OnlyRankDiffers`: the policy at work is shown what it was shown in training at the
  same bar, number by number, whatever part of the past the buffer holds beyond the
  longest window and whatever future training had on file, except for the rank of the
  pool; and that differs unless no pool in sight is shallower.
* `SamplesInOrder`, `NewestNeverGoesBack`, `NewestPerBarKept`,
  `StreamComesBack`: the feed, over seeds that overlap the poller, greetings,
  lost samples and lost connections.
  `NewestPerBarKept` also bounds the buffer, by the cap or by what the seed put there
  (a seed larger than the cap is cut at the first new bar only).
* `BenchmarkIsBuyAndHold`: on all these buffers and for every anchor, worth the
  capital at the anchor and then no worse than the worst and no better than the
  best subnet bought. Which rows are in force is said without the search, so it
  fails when the binary search misses a row at the very timestamp.
* `StatsExplainValue`, `MemoryMatchesDatabase`: the value in the header is
  initial capital plus the realised profit of the trade rows plus the open
  profit of the position rows, three tables written by different statements; and
  rows agree with memory, whenever the runner sleeps.
* `DurableLimits`, `RowsHaveTrades`, `CompleteCycleRepairs`: what faults may not destroy.
* `WaitBounded`: an active portfolio waits at most its interval, one sleep and the
  cycles of two passes, `(2N - 1)` timeouts, plus one pass per fault.
  `PauseStopsCycles`: at most one cycle begins after a pause. `TradersSurvive`,
  `ActiveAreServed`, `PausedAreForgotten`.
* `ClearReadsMatchChain`: while every read and report was true, positions are
  staked and the wallet moved by what `free_tao` moved and the buys' fees,
  although pools move and dividends arrive in between. (The fee of a sale is
  part of the measured difference.)
* `LossBounded`: since the day's first sale began the book has lost less than the limit
  *and what that sale lost* (`FirstLoss`), until the switch trips: what it is measured
  from is the value that sale left. `NothingSentAfterTrip`: from the pause the switch
  writes until the operator resumes nothing is sent, whatever entries were collected before
  the sale that tripped it, and not by a process launched again, which has forgotten
  the switch (`tripped`). `KilledUntilRelaunch`: and the process that tripped sends
  nothing after the resume either, neither entries nor exits, until it ends.
* `BookKept`: every step of the live book is one of `Portfolio`, or the relaunch
  that takes it back to what the last complete cycle wrote.
* `LeadersSignalled`: xstmc ranks a subnet among those asked so far at its stamp, so early
  subnets may get too good a rank, but never too bad a one, whoever fed or emptied the
  board. `RankExitsTrail`: the same for eyc's exits, which rank on a board that entry
  questions filled; the exit waits for twice `eyc_top_k`. `FreshPositionsKept`: at the
  full share of the pool a purchase and its sale cost 3.85%, just inside the tightest
  stops (4%); it fails at 3%. The three percent stop of xstmc lies within that cost, which
  is why xstmc is not among the `Steady` strategies.

### Where code and documentation differ

`PROJECT.json` quotes the lines. Each of these runs ends in a counterexample:

| run | says | does |
|---|---|---|
| `crash_books` | a crash loses at most the cycle's trades | positions and free TAO are two commits; a crash between them leaves the one new and the other old |
| `live_cache` | the tracker matches the chain | the stake after a buy is answered by the cache entry of the stake before it, and the buy is thrown away |
| `runner_starvation` | a malformed POST cannot break the runner | a stored value that cannot be converted ends every pass, and portfolios after it are never served |
| `shared_row` | after Ctrl+C: "Final state already persisted from last cycle." | the server's runner serves the promoted row as well, and writes it from a tracker that has not seen the live trades |
| `trend_flip` | rlb holds until take-profit, stop-loss, max-hold or until the trend flips | the averages it compares are updated when it is asked for an entry, and a held subnet is asked for an exit only: they stand still |

In these the property of a passing run states what the code does, which is not what the
text says:

| property | text | code |
|---|---|---|
| `LossBounded` | the switch trips when the day's loss, from the day's start, exceeds the limit (`live_trader.py:12-13`, `ARCHITECTURE.md:77-81`) | the baseline is the value the day's first sale leaves, so the loss of that sale does not count (`live_trader.py:93`) |
| `KilledUntilRelaunch` | entries are refused until the operator resumes (`live_trader.py:13-14`) | the flag is never cleared and exits are refused too: after a resume the process holds what it holds until it is launched again (`live_trader.py:56`) |
| `OnlyRankDiffers` | "The observation MUST match training exactly" (`strategies/rl_ppo.py:13`) | the rank of the pool is 0 for every bar of training and a real rank at work (`bittensor_env.py:110`, `paper_trader.py:121`) |
| `StatsExplainValue` | the header falls back to the stored value if a position has no live price (`routes/paper.py:307-308`) | it never does; such a position counts at cost (`routes/paper.py:330`) |
| `RankExitsTrail` | "if we drop out of top-K, close" (`eyc.py:150`) | the exit waits for a rank beyond twice K (`eyc.py:155`) |

## 4. Fairness

Two modules state liveness. In `PaperRunner`, `FairSpec` assumes `WF_vars(Runner)`, the event
loop resumes a task whose await is over (a cycle ends at the latest by
`wait_for`), and `WF_vars(Tick)`, time passes. Pauses, resumes, creations,
faults and restarts are never forced. In `SnapshotFeed`, `WF_vars(Client)`: the
stream task runs when it can, and an attempt to connect that is not refused
succeeds; refusals are bounded by `MaxFaults`, nothing else brings the stream
back. A replay is one loop over a finite timeline, of which nothing is asked that needs
fairness. The safety properties of all modules are
checked without fairness.

## 5. What is proved

Every safety property of the passing runs, invariant or action property, is a theorem
for every value of the constants under the modules' named assumptions. TLC evaluates the
same assumptions. Most of them say which sets the constants are taken from; those a reader
should judge:

| assumption | says | why |
|---|---|---|
| `ConstantsAssumption` | no trade is smaller than one unit, the reserve is within the initial capital, a signal's strength is in 1..100 (percent) | `MIN_TRADE_TAO`, `reserve_pct`, the strengths of the strategies |
| `HistoriesAssumption` | whatever is sampled at a later tick has a later block, in all histories | block and time of a row are those of one chain |
| `LiveAssumption` | the chain's pools are not empty; `Nothing` is no extrinsic; bounds are naturals | an empty pool executes nothing; a marker |
| `RunnerAssumption` | intervals and the timeout are at least one tick | the create schema; 180 s |
| `BenchmarkAssumption` | depth, capital and price unit are positive; prices divide the price unit | `min_pool_depth_tao`; the code divides in floats, so the model's units are chosen such that alpha bought is whole |
| `RulesAssumption` | windows are positive, `ShortSpan <= LongSpan` | defaults of `config.py` (20 and 50 bars) |
| `ScenariosAssumption` | a new reading has a later stamp than those before it | `gaps` are half hours that have passed |
| `StakeAssumption` | a stake is at most 2% of the pool (`PoolPct`), and units are fine: in a pool deep enough to trade, one unit is less than a 650th of a stake | 2% is the default of `max_position_pct_of_pool`, and the code computes in floats. A configuration may say up to 50%; from 3% on `FreshPositionsKept` is false |
| `EnvAssumption`, `UnitAssumption` | the least stake is positive and buys at least a unit of alpha | the environment enters with at least 0.1 TAO, in floats |
| `WindowsAssumption` | no window of an observation is longer than the longest; `None` is no ratio | `features.py`; a marker |
| `FeedAssumption` | bars, caps, windows and limits are positive | 1800 s, 3000 bars, 720 hours, 5000 rows |

`ArithmeticProofs` is what the others rest on. The pool: `BuyKeepsProduct` and
`SaleKeepsProduct` (the product of the reserves never falls and no trade empties a pool),
`RoundTripLoses`, `SlippageWithinCap`; they justify rounding down as the conservative
choice. `RoundTripKeeps` is the other side: buying and selling at most 2% of a pool costs
less than 4%. The sums: `SumFunction` is a recursion over a set, in an order its
definition leaves open. First that recursion is shown to have a solution, and only one
(`SolutionExists`, `SolutionsAgree`), then what the models need of it: one term more, fewer
or changed, differences, partitions, renaming, scaling. The library's induction theorems
cannot be instantiated by these provers, so induction is proved in two forms that can be
used: over a set of numbers (`CountingUp`, by the least number missing from it) and over
the subsets of a finite set, given as a set of sets (`SubsetInduction`). `MeanReached`: a
weighted mean is reached by one of its terms.

`TradingCycleProofs`. `Control` = `CycleTypes` /\ `Queues` /\ `Fresh` is inductive
(`ControlInvariant`). `Fresh` is what carries the limits: while entries are
served, the state they are sized against has the free TAO and the subnets the
tracker has; it needs `Queues` (exits and entries never coexist with the wrong
phase, queued subnets have snapshots, no entry is queued for a held subnet while exits
run). From it: `TypeCorrectness` and `LimitsNeverBroken` (amount + reserve <= free
follows from `EntryCaps`). `HotkeysRest` adds that a
cooldown counts from the last trade that used its hotkey (`CooldownsCurrent`),
`AtMostOneTrade` adds `ThisCycle`: what was sold is gone and not signalled,
what was bought is held and was bought after the exits. `CapitalIsConserved` relates
two sums, over the open positions and over the log: a purchase moves its amount from
the free TAO to a cost, a sale takes one term out of the costs and appends its profit to
the log. `PositionsFollowLog`, `DrainsNeverStarved` and the refinement
`CycleImplementsPortfolio` (initial states map to initial states, every step to an
`AccountNext` step or a stutter) rest on the same invariant. `CycleTypes` leaves the
phase open and the lemmas on one step (`SellTypes`, `LimitsStep`, `StepConserves`,
`StepImplements`) are stated for any state with `Control`, so that the modules that embed
the cycle use them too.

`PaperTraderProofs`, for any number of crashes and interruptions. Four invariants,
each on top of those before. `RowInv`: the cycle's `Control`, the types of both
copies of the rows, and their limits; the limits need `ClearedFirst` (a position row is
written only over rows that are the tracker's, or after the clear), because half
a replacement over foreign rows could exceed the limit. From it `PaperTypes`,
`DurableRowsWithinLimits`. `DbInv`: while a cycle is written, every field of the row
is already what the tracker holds or has its statement still in the queue
(`Pending`), and the last statement of a queue commits; without faults the rows
are the tracker's whenever nothing is decided or written (`Settled`). From it
`DatabaseIsTheTrader`, `CycleRepairs` and the refinement `PaperKeepsPortfolio`:
hydration is invisible, because what it loads is what was dropped. `LogInv`:
trades are inserted and committed before anything else is written (`TradesFirst`), and
behind every position and cooldown of either copy there is a trade in either
log, in the queue or in the cycle (`Backed`). From it `TradesBeforeRows`, for any number
of crashes. `FiguresInv`, without faults: the trade rows, with the trades decided or
still to be inserted (`Unwritten`), explain the tracker while a cycle is decided or
written, and the rows otherwise (`Explained`). From it `StatisticsExplainTheValue`.

`BacktesterProofs`. `ReplayInv`: until the forced close, `Control`, `LimitsKept` and
`Walked`: what the holding limit has been asked about is not overdue, or its hotkey
is not rested, and an entry served afterwards cannot change that (a purchase only
makes hotkeys less rested, `StaysBlocked`, and is not overdue itself). From it
`NoHoldForgotten` and `ReplayIsAPortfolio`; for the order within a tick, the phases before
the entries append sales only (`SellsOnly`). `ClosingInv` goes on to the end of the run:
only sampled subnets are held and the forced close sees a snapshot of each, so it ends
with nothing held and, capital being conserved, with the cash that the log explains:
`ReplayReportsWhatItRealised`. For training, `RewardsAreTheProfit`: after any number of
actions the rewards so far, freed of the penalties, are the change in value (`OnCourse`, by
`CountingUp` over the actions). `OnlyTheRankDiffers`: no indicator looks further back
than the longest window, and a buffer that holds it has bar by bar the values of the
file (`IndicatorsOfBuffer`, by renaming the indices of the sums); the hours held agree
because blocks without a hole advance by one bar (`SteadyBlocks`); and the rank, zero in
training (`NoRankInTraining`), is zero at work just when no pool in sight is shallower
(`RankIsZeroOfShallowest`).

`LiveTraderProofs`. For the kill switch: `SwitchIdle` says that a tripped switch has no
extrinsic under way; `PauseHolds`, that a row the switch has paused stays paused until
it is resumed, and that a process which does not remember the trip is between two
cycles, where it asks the row. Together they are inductive (`PausedIdle`,
`PauseStaysHeld`); from them `TrippedSendsNothing`, and, as every trade asks the flag and
only a relaunch clears it, `KilledStaysOut`. For the book: `LiveInv` is `Control`,
the types of chain, cache and `saved`, and `OpKnown`: an extrinsic under way is one the
book still allows, whatever the chain does meanwhile: the position to be sold is still
held by the hotkey that signs, the amount to be spent still leaves the reserve, the
block is a cooldown after the hotkey's last. It holds because nothing else of the cycle
moves while an extrinsic is awaited. From it `LiveKeepsBook` and `LiveTypes`, for every
market, misleading read and end of the process. `LossStaysBounded`: at cost the book is
worth less only after a sale (a purchase moves its amount into a cost of the same size,
`PurchaseKeepsValue`), and every sale is followed by the check, so what is lost since the
baseline is within the limit; the baseline is what the first sale left of `dayStart`, and
`WithinLimit` turns the one bound into the other. `TrackerMatches`: as long as
every read and report was true (`ChainInv`), the wallet has moved by what `free` moved and the
fees of the buys; while an extrinsic is under way, what it has done on chain and not
yet in the book is said by `OnChain`.

`PaperRunnerProofs`. `RunnerInv` says what a stale list may hold: its rows
exist, an inactive portfolio still to be served has had no late cycle, an
inactive portfolio or one whose trader is missing from the list has been paused
since the trader was built. From it `PauseStops` and `TradersKept`. For the wait, a
measure (`Remaining`): the rest of the cycle under way and a timeout for each portfolio
served before this one in the pass or, if the pass does not know it, the sleep and a
timeout for each other portfolio in the next. Waited so far plus `Remaining` is within the
bound (`Patient`), which every fault makes longer by a pass. `WaitsAreBounded` assumes, as
the run does, that no stored configuration is malformed (`Malformed = {}`). With one the
property is false, which `runner_starvation` shows; what is true then is
`NobodyBeforeAMalformedRowStarves`, the bound for every portfolio with no malformed row
before it, of which the former is a special case.

`SnapshotFeedProofs`. `FeedInv`: what is in flight is not older than the buffer
(`Behind`), everything came from the upstream (`Past`), all three sequences
are ordered, and nothing is in flight while the seed runs (`Seeding`; else a
seed could put an old row under newer ones). From it `BuffersInOrder` and
`NeverGoesBack`, for every bar length and cap: an overwrite only ever replaces a
sample by one at least as new. `Accounted` adds that everything in a buffer was
received, which an overwritten sample needs to be replaced by a *received* one;
with it `NewestOfBarKept`. `SearchIsRowInForce`: the search has a closed form (`Closed`)
that satisfies its recursion, and any two functions that do are equal, by `CountingUp` over
the width of the interval. Then the series at a time is the mean of the subnets' growth
since the anchor, weighted by their depth, and `MeanReached` gives `BenchmarkBuysAndHolds`.

`StrategiesProofs`. `RankInv`: every entry of a board is the score of some reading with
the board's stamp (`Backed`), and what the questions answered so far in this turn
satisfies both theorems for the subnets no longer in the queue. A rank on such a
board is at most one more than the number of subnets ahead (`RankBound`, by
cardinality of a subset), whatever the board has missed. From it
`LeadersNeverPassedOver` and `RankExitsDeserved`, for any ensemble, number of
portfolios and ties. `FreshInv`: a position opened on the reading its subnet still has
was opened at the largest stake by a strategy of its portfolio whose `Promise` still
holds: the part of its entry rule that its exit rule looks at. Others feed the caches
meanwhile: the averages of `rlb` stay apart when the same price is folded in again
(`AverageStep`, which needs `ShortSpan <= LongSpan`), and the stops of the brackets
lie beyond what `RoundTripKeeps` allows a sale to lose. From it `NothingSoldAsBought`.

Only model-checked. All liveness (`ActiveAreServed`, `PausedAreForgotten`,
`StreamComesBack`): it rests on fairness, that is on `ENABLED`, which is out of the
provers' reach. And the statements a counterexample refutes (the table above).

## 6. What is not modelled

* Floating point. Amounts are integers; drift and epsilon comparisons
  are out of scope.
* In `Strategies` a reading carries any features, also ones no history gives
  (`Features` computes them from histories, in `Training`). Signal
  strengths, except that `TradingCycle` has two.
* The partner search of `pmr`, the optimisation of the policy of `rl_ppo` (a
  library's), and the registry of strategies, which is filled at import.
* An extrinsic included long after its answer, a coldkey that others use too, and a
  stream that is dead but open (`timeout=None`).
* A replay restricted to a regime takes it from the first subnet of a tick;
  `Backtester` has this, and asks nothing of the other subnets' regimes.
* SQLite's isolation between processes beyond its unit: in `SharedPortfolio` a
  transaction is one step.
* Scaling and clipping of observations, the ratios of the statistics (Sharpe, Sortino,
  drawdown of the history), the shaping of responses, pages, reports, Monte-Carlo
  runs, experiments: no state that trading depends on.

Seen while modelling, and not the subject of a run: the history route orders by
time and cuts at `limit`, so that a window of more rows loses its newest points
(`server/database.py`, `get_paper_value_history`). A benchmark whose anchor has
left the buffer is anchored at the oldest row there, and a subnet that appears
after the anchor is bought at its first row; `BenchmarkIsBuyAndHold` takes both
as the code does. An empty `exclude_netuids` is read as `[0]` by the routes
(`server/routes/paper.py:233`) and as empty by the trader. The header route reads
the portfolio row and then the positions, so a trade committed in between is
counted twice or not at all; `Reports` is asked while the runner sleeps.

The hours held, in the observation of `rl_ppo`, are counted in bars by training and in
blocks by the strategy: they differ after a hole in the data, and on an empty pool, the
cases `OnlyRankDiffers` sets apart. The evaluation of an episode that ended early values
it at the last bar, not where it ended.

## 7. Plan

Done: every module of section 2, and a proof of every safety property of the passing runs.

Next, in this order:

1. A fair queue as an abstract specification of the runner: portfolios are served in
   passes, none twice in a pass; `PaperRunner` as a refinement of it.
2. The partner search of `pmr`, over the histories `Features` reads.
3. A rank that does not depend on the order of the questions, as the abstract
   specification of the boards of `Strategies`.
