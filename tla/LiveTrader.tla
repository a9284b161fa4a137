------------------------------ MODULE LiveTrader ------------------------------
(***************************************************************************)
(* The live trader (trading/live_trader.py): the same cycle, but a trade   *)
(* is an extrinsic, and what the tracker records of it is the difference   *)
(* of two chain reads around it.  The reads go through the TTL cache of    *)
(* the chain client, whose entries may outlive an extrinsic; the pool      *)
(* refresh bypasses it.  A realized loss trips the kill switch, which      *)
(* pauses the portfolio's row; the operator pauses and resumes the row     *)
(* through the server, another process.  The process may end at any        *)
(* moment and be launched again: the tracker comes back from the database, *)
(* the switch and its baseline do not.                                     *)
(*                                                                         *)
(* The chain is external: it executes an extrinsic at whatever pool it has *)
(* by then, rejects what cannot be paid, and pays dividends on the stake.  *)
(* The awaits before an extrinsic are one step: what they read is kept,    *)
(* and the order of the reads cannot be told apart afterwards.             *)
(***************************************************************************)
EXTENDS TradingCycle

CONSTANTS
  Wallet,       \* coldkey balance when the trader starts
  Fee,          \* what the chain takes for an extrinsic
  FeeBuffer,    \* the balance a buy must leave for fees
  LossPct,      \* config.daily_loss_limit_pct
  Pools,        \* the [tao_in, alpha_in] the chain may have
  Lags,         \* blocks the chain may be ahead of a snapshot
  Faults,       \* which of "cache", "rpc", "report", "kill" may happen
  MaxFaults,    \* bound on misleading reads and reports, and on ends of the
                \* process within a cycle
  MaxDividends, \* bound on dividends
  Nothing       \* no cache entry, no baseline, no extrinsic under way

\* An extrinsic under way: what it asks for, and what was read before it.
Extrinsic ==
  [kind : {"buy", "sell"}, sent : BOOLEAN, netuid : Netuids, drain : BOOLEAN,
   amount : Nat, hotkey : Hotkeys, block : Nat, before : Nat, expected : Nat]

ASSUME LiveAssumption ==
  /\ {Wallet, Fee, FeeBuffer, MaxFaults, MaxDividends} \subseteq Nat
  /\ LossPct \in 1 .. 100
  /\ Lags \subseteq Nat
  /\ Pools \subseteq [tao_in : Nat \ {0}, alpha_in : Nat \ {0}]
  /\ Faults \subseteq {"cache", "rpc", "report", "kill"}
  /\ Nothing \notin Extrinsic

VARIABLES
  balance,       \* of the coldkey, on chain
  stake,         \* alpha of the wallet's hotkey on each subnet, on chain
  cachedBalance, \* the cache's entries; whether one still lives is
  cachedStake,   \* decided when it is looked up
  op,            \* the extrinsic under way
  killed,        \* _kill_switch_tripped
  dayBase,       \* _day_start_value_tao
  active,        \* the row's active flag
  saved,         \* the tracker as the last complete cycle persisted it
  dividends,     \* dividends paid so far
  faults,        \* faults so far
  unseen,        \* history: an extrinsic was included and not recorded
  buys,          \* history: buys recorded
  tripped,       \* history: the switch paused the row, nobody has resumed it
  dayStart       \* history: the book value before the day's first sale

chainVars == <<balance, stake, dividends>>
cacheVars == <<cachedBalance, cachedStake>>
killVars  == <<killed, dayBase, active, tripped, dayStart>>
historyVars == <<faults, unseen, buys>>
aroundVars == <<chainVars, cacheVars, op, killVars, saved, historyVars>>
liveVars  == <<vars, aroundVars>>

LiveInit ==
  /\ Init
  /\ balance = Wallet
  /\ stake = [n \in Netuids |-> 0]
  /\ cachedBalance = Nothing /\ cachedStake = Nothing
  /\ op = Nothing
  /\ killed = FALSE /\ dayBase = Nothing /\ active = TRUE
  /\ tripped = FALSE /\ dayStart = Nothing
  /\ saved = [free |-> free, positions |-> positions, cooldowns |-> cooldowns, peak |-> peak]
  /\ dividends = 0
  /\ faults = 0 /\ unseen = FALSE /\ buys = 0

-------------------------------------------------------------------------------
(* Reads.  TTLCache.get_or_set answers with the entry while it lives, else *)
(* with what it fetches and keeps.                                         *)
Lookup(cached, fresh) ==
  {fresh} \cup (IF cached # Nothing /\ "cache" \in Faults THEN {cached} ELSE {})

BalanceReads ==
  {[value |-> b, cached |-> b] : b \in Lookup(cachedBalance, balance)}

\* _stake_alpha answers 0 when the read raises.
StakeReads(n) ==
  {[value |-> s[n], cached |-> s] : s \in Lookup(cachedStake, stake)}
    \cup (IF "rpc" \in Faults THEN {[value |-> 0, cached |-> cachedStake]} ELSE {})

\* The balance read after a sale falls back on the simulated proceeds.
ProceedsReads ==
  BalanceReads
    \cup (IF "rpc" \in Faults
          THEN {[value |-> op.before + op.expected, cached |-> cachedBalance]}
          ELSE {})

\* A read that does not show the chain as it is counts as a fault.
Reads(value, actual) ==
  IF value = actual
  THEN UNCHANGED faults
  ELSE faults < MaxFaults /\ faults' = faults + 1

-------------------------------------------------------------------------------
(* The cycle.  The CLI loop calls run_once only while the row is active.   *)
(* Two cycles are at least 60 s apart, the lifetime of a balance or stake  *)
(* entry, so a cycle meets none from the cycle before.                     *)
CacheExpires == cachedBalance' = Nothing /\ cachedStake' = Nothing

LiveBegin ==
  /\ active
  /\ BeginCycle
  /\ UNCHANGED aroundVars

LiveEndExits ==
  /\ op = Nothing
  /\ EndExits
  /\ UNCHANGED aroundVars

\* The writes at the end of a cycle are the business of PaperTrader.
LiveEndCycle ==
  /\ op = Nothing
  /\ EndCycle
  /\ CacheExpires
  /\ saved' = [free |-> free, positions |-> positions, cooldowns |-> cooldowns, peak |-> peak]
  /\ UNCHANGED <<chainVars, op, killVars, historyVars>>

(* A signal that comes to nothing: it is skipped as on paper, the switch   *)
(* has tripped, the pool cannot be refreshed (which may happen at any      *)
(* time), or a check before the extrinsic fails.                           *)
DropExit(e) ==
  /\ phase = "exits" /\ op = Nothing
  /\ e \in NextExits
  /\ exits' = exits \ {e}
  /\ UNCHANGED <<tracker, phase, snaps, entries, mark, state>>
  /\ UNCHANGED aroundVars

DropEntry(sig) ==
  /\ phase = "entries" /\ op = Nothing
  /\ sig \in NextEntries
  /\ entries' = entries \ {sig}
  /\ UNCHANGED <<tracker, phase, snaps, exits, mark, state>>
  /\ UNCHANGED aroundVars

\* The exception leaves run_once; the loop prints it and sleeps.
LeaveCycle ==
  /\ phase' = "idle"
  /\ snaps' = NoSnaps
  /\ exits' = {} /\ entries' = {}
  /\ state' = NoState
  /\ CacheExpires

\* Faulty: what the switch refuses, it refuses while the row is paused.
RefusesPaused == killed /\ ~active

\* What every trade asks first.
Refuses == killed

\* The sale's checks have passed: the balance before it is read.
MaySell(e) ==
  /\ phase = "exits" /\ op = Nothing
  /\ e \in NextExits
  /\ ~Refuses
  /\ MayExit(e.netuid)

\* That read raises, and nothing catches it.
AbortSell(e) ==
  /\ "rpc" \in Faults
  /\ MaySell(e)
  /\ LeaveCycle
  /\ mark' = Len(trades)
  /\ UNCHANGED <<tracker, chainVars, op, killVars, saved, historyVars>>

PrepareSell(e) ==
  LET p == positions[e.netuid] IN
  /\ MaySell(e)
  /\ exits' = exits \ {e}
  /\ \E pool \in Pools, lag \in Lags, read \in BalanceReads :
       /\ op' = [kind |-> "sell", sent |-> FALSE, netuid |-> e.netuid,
                 drain |-> e.drain, amount |-> p.alpha, hotkey |-> p.hotkey,
                 block |-> snaps[e.netuid].block + lag, before |-> read.value,
                 expected |-> SellTao(p.alpha, pool.tao_in, pool.alpha_in)]
       /\ cachedBalance' = read.cached
       /\ Reads(read.value, balance)
  /\ UNCHANGED <<tracker, phase, snaps, entries, mark, state>>
  /\ UNCHANGED <<chainVars, cachedStake, killVars, saved, unseen, buys>>

\* check_entry accepts, a hotkey is rested, the slippage at the real pool is
\* within the cap, the balance covers amount and fees; the stake is read.
PrepareBuy(sig) ==
  LET n == sig.netuid IN
  /\ phase = "entries" /\ op = Nothing
  /\ sig \in NextEntries
  /\ ~Refuses
  /\ entries' = entries \ {sig}
  /\ \E amount \in MinTrade .. free, h \in Hotkeys, pool \in Pools, lag \in Lags,
        funds \in BalanceReads, read \in StakeReads(n) :
       /\ Accepts(sig, snaps[n], amount)
       /\ FirstAvailable(h, snaps[n].block)
       /\ amount <= MaxTaoForSlippage(SlippagePct, pool.tao_in, pool.alpha_in)
       /\ funds.value >= amount + FeeBuffer
       /\ op' = [kind |-> "buy", sent |-> FALSE, netuid |-> n, drain |-> FALSE,
                 amount |-> amount, hotkey |-> h,
                 block |-> snaps[n].block + lag, before |-> read.value,
                 expected |-> BuyAlpha(amount, pool.tao_in, pool.alpha_in)]
       /\ cachedBalance' = funds.cached
       /\ cachedStake' = read.cached
       /\ Reads(read.value, stake[n])
  /\ UNCHANGED <<tracker, phase, snaps, exits, mark, state>>
  /\ UNCHANGED <<chainVars, killVars, saved, unseen, buys>>

-------------------------------------------------------------------------------
(* The extrinsic.  It waits for finalization; the chain includes it or     *)
(* not, and the SDK may raise or report a failure either way.              *)
Sent(succeeded) ==
  IF succeeded THEN op' = [op EXCEPT !.sent = TRUE] ELSE op' = Nothing

Include ==
  /\ op # Nothing /\ ~op.sent
  /\ \E pool \in Pools :
       IF op.kind = "buy"
       THEN LET alpha == BuyAlpha(op.amount, pool.tao_in, pool.alpha_in)
            IN  /\ alpha > 0
                /\ balance >= op.amount + Fee
                /\ balance' = balance - op.amount - Fee
                /\ stake' = [stake EXCEPT ![op.netuid] = @ + alpha]
       ELSE LET tao == SellTao(op.amount, pool.tao_in, pool.alpha_in)
            IN  /\ stake[op.netuid] >= op.amount
                /\ balance >= Fee
                /\ balance' = balance + tao - Fee
                /\ stake' = [stake EXCEPT ![op.netuid] = @ - op.amount]
  /\ \/ Sent(TRUE) /\ UNCHANGED historyVars
     \/ /\ "report" \in Faults
        /\ Sent(FALSE)
        /\ Reads(FALSE, TRUE)
        /\ unseen' = TRUE /\ UNCHANGED buys
  /\ UNCHANGED <<vars, dividends, cacheVars, killVars, saved>>

Reject ==
  /\ op # Nothing /\ ~op.sent
  /\ Sent(FALSE)
  /\ UNCHANGED <<vars, chainVars, cacheVars, killVars, saved, historyVars>>

-------------------------------------------------------------------------------
(* What the trader makes of it.                                            *)

\* Faulty: the simulated amount is booked.
ReceivedSimulated(after) == op.expected

Received(after) == IF after > op.before THEN after - op.before ELSE 0

\* Faulty: the subnet is marked as used, not the hotkey.
RecordMarksSubnet(dir, tao, alpha, pnl) ==
  /\ cooldowns' = [k \in Hotkeys \cup {op.netuid} |->
                     IF k = op.netuid THEN op.block ELSE cooldowns[k]]
  /\ UNCHANGED trades

\* Faulty: no cooldown starts.
RecordUnmarked(dir, tao, alpha, pnl) == UNCHANGED <<trades, cooldowns>>

Record(dir, tao, alpha, pnl) ==
  /\ trades' = Append(trades,
                 [dir |-> dir, netuid |-> op.netuid, tao |-> tao, alpha |-> alpha,
                  hotkey |-> op.hotkey, block |-> op.block, pnl |-> pnl,
                  drain |-> op.drain])
  /\ cooldowns' = [cooldowns EXCEPT ![op.hotkey] = op.block]

\* No delta: the extrinsic is not recorded at all.
SettleNothing ==
  /\ op # Nothing /\ op.sent
  /\ \/ /\ op.kind = "buy"
        /\ \E read \in StakeReads(op.netuid) :
             /\ Received(read.value) = 0
             /\ cachedStake' = read.cached
             /\ Reads(read.value, stake[op.netuid])
        /\ UNCHANGED cachedBalance
     \/ /\ op.kind = "sell"
        /\ \E read \in ProceedsReads :
             /\ Received(read.value) = 0
             /\ cachedBalance' = read.cached
             /\ Reads(read.value, balance)
        /\ UNCHANGED cachedStake
  /\ op' = Nothing
  /\ unseen' = TRUE
  /\ UNCHANGED <<vars, chainVars, killVars, saved, buys>>

SettleBuy ==
  /\ op # Nothing /\ op.sent /\ op.kind = "buy"
  /\ \E read \in StakeReads(op.netuid) :
       LET alpha == Received(read.value) IN
       /\ alpha > 0
       /\ cachedStake' = read.cached
       /\ free' = free - op.amount
       /\ positions' = [positions EXCEPT ![op.netuid] =
                          [alpha |-> alpha, invested |-> op.amount,
                           hotkey |-> op.hotkey, block |-> op.block]]
       /\ Record("buy", op.amount, alpha, 0)
       /\ Reads(read.value, stake[op.netuid])
  /\ TakeState(free', positions', snaps)
  /\ op' = Nothing
  /\ buys' = buys + 1
  /\ UNCHANGED <<phase, snaps, exits, entries, mark>>
  /\ UNCHANGED <<chainVars, cachedBalance, killVars, saved, unseen>>

\* What the kill switch compares: free TAO and the cost of what is open.
BookValue(f, pos) == f + Cost(pos)

\* Faulty: a gain counts as a loss.
LossReachedReversed(value) ==
  dayBase # Nothing /\ dayBase > 0
    /\ (value - dayBase) * 100 >= LossPct * dayBase

LossReached(value) ==
  dayBase # Nothing /\ dayBase > 0
    /\ (dayBase - value) * 100 >= LossPct * dayBase

\* _check_kill_switch: the first sale of a UTC day records the baseline, the
\* value it left.  Tripping pauses the row; if that write raises the cycle ends.
GoOn == UNCHANGED <<phase, snaps, exits, entries, mark, state, cachedStake>>

CheckKillSwitch(value) ==
  \/ /\ dayBase' = value /\ dayStart' = BookValue(free, positions)
     /\ UNCHANGED <<killed, active, tripped>>
     /\ GoOn
  \/ dayBase # Nothing /\ ~LossReached(value) /\ UNCHANGED killVars /\ GoOn
  \/ /\ LossReached(value)
     /\ killed' = TRUE
     /\ active' = FALSE /\ tripped' = TRUE
     /\ UNCHANGED <<dayBase, dayStart>>
     /\ GoOn
  \/ /\ "rpc" \in Faults
     /\ LossReached(value)
     /\ killed' = TRUE
     /\ UNCHANGED <<active, dayBase, tripped, dayStart>>
     /\ LeaveCycle
     /\ mark' = Len(trades')

SettleSell ==
  LET p == positions[op.netuid] IN
  /\ op # Nothing /\ op.sent /\ op.kind = "sell"
  /\ \E read \in ProceedsReads :
       LET tao == Received(read.value) IN
       /\ tao > 0
       /\ free' = free + tao
       /\ positions' = [positions EXCEPT ![op.netuid] = NoPosition]
       /\ Record("sell", tao, p.alpha, tao - p.invested)
       /\ Reads(read.value, balance)
       /\ CheckKillSwitch(BookValue(free', positions'))
       /\ phase' # "idle" => cachedBalance' = read.cached
  /\ op' = Nothing
  /\ UNCHANGED <<peak, chainVars, saved, unseen, buys>>

-------------------------------------------------------------------------------
(* The world around.  A dividend between two extrinsics is one before the  *)
(* next.                                                                   *)
Dividend ==
  /\ op # Nothing
  /\ dividends < MaxDividends
  /\ \E n \in Netuids :
       /\ stake[n] > 0
       /\ stake' = [stake EXCEPT ![n] = @ + 1]
  /\ dividends' = dividends + 1
  /\ UNCHANGED <<vars, balance, cacheVars, op, killVars, saved, historyVars>>

\* The server's pause and resume routes, on the same row.  The loop looks at
\* the row between cycles only.
Operate ==
  /\ phase = "idle"
  /\ active' = ~active
  /\ tripped' = FALSE
  /\ UNCHANGED <<vars, chainVars, cacheVars, op, killed, dayBase, dayStart, saved, historyVars>>

-------------------------------------------------------------------------------
(* The process ends, between cycles or within one, and _run_live starts    *)
(* again with the row's portfolio.  An extrinsic under way has been        *)
(* included by then or never is.                                           *)
Unsaved ==
  op # Nothing \/ <<free, positions, cooldowns>> # <<saved.free, saved.positions, saved.cooldowns>>

\* Faulty: the loop starts without a look at the row.
RelaunchResumes ==
  /\ phase = "idle"
  /\ active' = TRUE
  /\ killed' = FALSE /\ dayBase' = Nothing /\ dayStart' = Nothing
  /\ UNCHANGED <<vars, chainVars, cacheVars, op, tripped, saved, historyVars>>

Relaunch ==
  /\ \/ phase = "idle" /\ UNCHANGED faults
     \/ phase # "idle" /\ "kill" \in Faults /\ faults < MaxFaults /\ faults' = faults + 1
  /\ free' = saved.free /\ positions' = saved.positions
  /\ cooldowns' = saved.cooldowns /\ peak' = saved.peak
  /\ trades' = <<>> /\ mark' = 0
  /\ LeaveCycle
  /\ op' = Nothing
  /\ killed' = FALSE /\ dayBase' = Nothing /\ dayStart' = Nothing
  /\ unseen' = (unseen \/ Unsaved)
  /\ UNCHANGED <<chainVars, active, tripped, saved, buys>>

LiveNext ==
  \/ LiveBegin \/ LiveEndExits \/ LiveEndCycle
  \/ \E e \in exits : DropExit(e) \/ AbortSell(e) \/ PrepareSell(e)
  \/ \E sig \in entries : DropEntry(sig) \/ PrepareBuy(sig)
  \/ Include \/ Reject
  \/ SettleNothing \/ SettleBuy \/ SettleSell
  \/ Dividend \/ Operate \/ Relaunch

LiveSpec == LiveInit /\ [][LiveNext]_liveVars

-------------------------------------------------------------------------------
(* Properties.                                                             *)

LiveTypeOK ==
  /\ TypeOK
  /\ {balance, dividends} \subseteq Nat
  /\ stake \in [Netuids -> Nat]
  /\ cachedBalance \in Nat \cup {Nothing}
  /\ cachedStake \in [Netuids -> Nat] \cup {Nothing}
  /\ {killed, active, unseen, tripped} \subseteq BOOLEAN
  /\ {dayBase, dayStart} \subseteq Nat \cup {Nothing}

\* "the in-memory tracker matches what actually happened on chain": the
\* alpha of every position is staked, and what left the wallet is what left
\* free_tao, but for the fees of the buys.
TrackerMatchesChain ==
  op = Nothing =>
    /\ \A n \in Held : positions[n].alpha <= stake[n]
    /\ balance - Wallet = free - Initial - Fee * buys

\* It does as long as the reads and reports around every extrinsic were true,
\* it had an effect to show and its cycle came to its end, whatever the pool
\* did between the refresh and the inclusion, whatever dividends came in
\* between and however often the process is launched again.
ClearReadsMatchChain == faults = 0 /\ ~unseen => TrackerMatchesChain

\* What the day's first sale lost, by which the baseline is below the value
\* the day began with.
FirstLoss == IF dayBase < dayStart THEN dayStart - dayBase ELSE 0

\* "If realized P&L for the calendar day breaches daily_loss_limit_pct the
\* trader trips the kill switch": it does only if the day's first sale lost
\* nothing.  The loss of that sale comes on top of the limit, however great it
\* is, since the baseline is taken after it; nothing else can lie beyond the
\* limit, whatever the order of sales and days.  (A baseline of zero turns the
\* switch off for the day.)
LossBounded ==
  dayBase \notin {Nothing, 0} /\ ~killed =>
    (dayStart - BookValue(free, positions)) * 100
      < LossPct * dayStart + (100 - LossPct) * FirstLoss

\* Seen from outside, the book only ever opens and closes single positions
\* within the limits Portfolio states, or goes back to what the last complete
\* cycle persisted.
GoesBack == <<free, positions, cooldowns>>' = <<saved.free, saved.positions, saved.cooldowns>>

BookKept ==
  Book!AccountInit /\ [][Book!AccountNext \/ GoesBack]_<<free, positions, cooldowns>>

\* "trips the kill switch: it pauses the portfolio in the DB and refuses
\* further entries until the operator manually resumes": from the moment the
\* pause is in the row until the row is resumed nothing more goes out, not the
\* entries its cycle had collected, and not from a process launched again.
NothingSentAfterTrip ==
  [][tripped => op' \in {op, Nothing} /\ balance' = balance]_liveVars

\* And the process that tripped sends nothing after that either, no entry and
\* no exit, though the operator resumes the row and its loop runs its cycles:
\* the flag falls with the process only, and the baseline with it.
KilledUntilRelaunch ==
  [][killed =>
       /\ op' \in {op, Nothing} /\ balance' = balance
       /\ killed' \/ (GoesBack /\ dayBase' = Nothing)
    ]_liveVars
===============================================================================
