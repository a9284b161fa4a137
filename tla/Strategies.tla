------------------------------ MODULE Strategies ------------------------------
(***************************************************************************)
(* The strategies at work: the portfolios of one process take turns, each  *)
(* turn asking the strategies of a portfolio about one subnet after the    *)
(* other (the signal loop of PaperTrader.run_once), then trading on what   *)
(* they said.  The caches of the strategies' modules are shared by all     *)
(* portfolios, the drain streaks belong to each.                           *)
(*                                                                         *)
(* Which of the signals are served is the business of TradingCycle; here   *)
(* any of them may be.  A turn has no suspension point, so no reading      *)
(* arrives and no other portfolio asks while it lasts.                     *)
(***************************************************************************)
EXTENDS StrategyRules, SequencesExt

CONSTANTS
  Portfolios,
  Scenarios, \* what to explore: the portfolios' strategies, the order of the
             \* subnets, their possible readings, how many they get (a bound)
             \* and the half hours between two publications
  PoolPct,   \* max_position_pct_of_pool, in percent
  Nobody, NoPosition

\* What a strategy sees of a subnet.
Feature == Int \cup {Unknown}
Readings ==
  [stamp : Nat, tao : Nat, alpha : Nat, stake : Nat, emission : Nat,
   pm90 : Feature, pm24 : Feature, pm72 : Feature, pm7d : Feature,
   sv24 : Feature, sv72 : Feature, vol : Feature, z : Feature, taoflow : BOOLEAN]

ASSUME NobodyAssumption == Nobody \notin Portfolios

ASSUME ScenariosAssumption ==
  \A s \in Scenarios :
    /\ DOMAIN s.ensemble \subseteq Portfolios
    /\ s.order \in Seq(Netuids)
    /\ s.gaps \subseteq Nat \ {0}
    /\ \A i \in DOMAIN s.order : s.bars[s.order[i]] \subseteq Readings

VARIABLES
  scenario,  \* the one explored: ensemble, order, bars, length, gaps
  market,    \* by subnet, its readings so far
  now,       \* stamp of the newest reading
  positions, \* by portfolio and subnet
  streak,    \* by portfolio and subnet, _drain_streak
  cache,     \* the module-level caches
  turn,      \* the portfolio whose cycle is under way
  queue,     \* subnets it has still to ask about
  exits,     \* signals it has collected
  entries

vars == <<scenario, market, now, positions, streak, cache, turn, queue, exits, entries>>
turnVars == <<turn, queue, exits, entries>>

Ensemble(p) == scenario.ensemble[p] \cup {"drain_exit"}
Running == DOMAIN scenario.ensemble
Listed == {scenario.order[i] : i \in DOMAIN scenario.order}
Reading(n) == Last(market[n])
Held(p) == {n \in Listed : positions[p][n] # NoPosition}
NoStreaks == [p \in Portfolios |-> [n \in Netuids |-> 0]]

Stamped(bar, stamp) == [bar EXCEPT !.stamp = stamp]

\* One reading for each of some subnets.
OneEach(who) ==
  {bars \in [who -> UNION {scenario.bars[n] : n \in who}] :
     \A n \in who : bars[n] \in scenario.bars[n]}

Init ==
  /\ scenario \in Scenarios
  /\ now = 0
  /\ \E first \in OneEach(Listed) :
       market = [n \in Netuids |-> IF n \in Listed THEN <<Stamped(first[n], 0)>> ELSE <<>>]
  /\ positions = [p \in Portfolios |-> [n \in Netuids |-> NoPosition]]
  /\ streak = NoStreaks
  /\ cache = NoCache
  /\ turn = Nobody
  /\ queue = <<>> /\ exits = {} /\ entries = {}

\* The poller publishes a tick, one stamp for the subnets it has read.
Publish(gap, who) ==
  /\ turn = Nobody
  /\ \A n \in who : Len(market[n]) < scenario.length
  /\ now' = now + gap
  /\ \E bars \in OneEach(who) :
       market' = [n \in Netuids |->
                    IF n \in who THEN Append(market[n], Stamped(bars[n], now'))
                    ELSE market[n]]
  /\ UNCHANGED <<scenario, positions, streak, cache, turnVars>>

BeginTurn(p) ==
  /\ turn = Nobody
  /\ turn' = p
  /\ queue' = scenario.order
  /\ UNCHANGED <<scenario, market, now, positions, streak, cache, exits, entries>>

\* One subnet of the loop over features_map.  The drain detector is updated
\* in the loop before; its streaks are read for their own subnet only.
Ask(advice) ==
  /\ queue # <<>>
  /\ LET n     == Head(queue)
         r     == Reading(n)
         pos   == positions[turn][n]
         asked == {s \in Ensemble(turn) : CanRun(s, r)}
         drain == DrainUpdate(streak[turn][n], r)
         fed   == IF pos = NoPosition THEN FedByEntry(cache, asked, n, r)
                  ELSE FedByExit(cache, asked, n, r, pos)
     IN  /\ streak' = [streak EXCEPT ![turn][n] = drain]
         /\ cache' = fed
         /\ IF pos = NoPosition
            THEN /\ entries' = entries \cup
                      {<<n, s>> : s \in {t \in asked : Enters(t, n, r, fed, advice)}}
                 /\ exits' = exits
            ELSE /\ exits' = exits \cup
                      {<<n, s>> : s \in {t \in asked : Leaves(t, n, r, fed, pos, drain, advice)}}
                 /\ entries' = entries
  /\ queue' = Tail(queue)
  /\ UNCHANGED <<scenario, market, now, positions, turn>>

\* Faulty: the slippage cap alone, without the cap of the pool's share.
LargestStakeSlipOnly(r) == Percent(3, r.tao)

\* The pool cap of check_entry; the other caps only lower the amount.
LargestStake(r) == Percent(PoolPct, r.tao)

\* The units are so small that in a pool of 200 TAO or more one of TAO, and one
\* of alpha, is less than a 650th of the stake.
Fine(r) ==
  DeeperThan(r, 200) /\ LivePool(r.tao, r.alpha) =>
    650 * (r.alpha + r.tao + LargestStake(r)) <= r.alpha * LargestStake(r)

\* The cap is the default one at most.
ASSUME StakeAssumption ==
  /\ PoolPct \in 1 .. 2
  /\ \A s \in Scenarios : \A i \in DOMAIN s.order : \A r \in s.bars[s.order[i]] : Fine(r)

Opened(s, r, stake) ==
  [strategy |-> s, stamp |-> r.stamp, tao |-> stake,
   alpha |-> BuyAlpha(stake, r.tao, r.alpha)]

\* Cooldowns may hold back exits, and entries may be refused.  They are
\* opened at the largest stake, the one that slips most.
Trade ==
  /\ turn # Nobody
  /\ queue = <<>>
  /\ \E sold \in SUBSET {e[1] : e \in exits},
        bought \in SUBSET {e[1] : e \in entries} :
       \E strategy \in [bought -> {e[2] : e \in entries}] :
         /\ \A n \in bought : <<n, strategy[n]>> \in entries
         /\ positions' = [positions EXCEPT ![turn] =
              [n \in Netuids |->
                 CASE n \in sold   -> NoPosition
                   [] n \in bought ->
                        Opened(strategy[n], Reading(n), LargestStake(Reading(n)))
                   [] OTHER        -> @[n]]]
  /\ turn' = Nobody
  /\ exits' = {} /\ entries' = {}
  /\ UNCHANGED <<scenario, market, now, streak, cache, queue>>

\* A paused portfolio's trader is dropped and rebuilt, with its detector.
Rebuild(p) ==
  /\ turn = Nobody
  /\ streak' = [streak EXCEPT ![p] = [n \in Netuids |-> 0]]
  /\ UNCHANGED <<scenario, market, now, positions, cache, turnVars>>

\* The process starts again: caches and streaks are gone, positions are rows.
Restart ==
  /\ turn = Nobody
  /\ streak' = NoStreaks
  /\ cache' = NoCache
  /\ UNCHANGED <<scenario, market, now, positions, turnVars>>

\* All subnets at once, or one ahead of the others.
Pollings == {Listed} \cup {{n} : n \in Listed}

Next ==
  \/ \E gap \in scenario.gaps, who \in Pollings : Publish(gap, who)
  \/ \E p \in Running : BeginTurn(p) \/ Rebuild(p)
  \/ \E advice \in SUBSET Advised : Ask(advice)
  \/ Trade
  \/ Restart

Spec == Init /\ [][Next]_vars

-------------------------------------------------------------------------------
(* Properties.                                                             *)

Decided == turn # Nobody /\ queue = <<>>

\* The subnets that had, at the stamp of the subnet's reading, a score at
\* least as good.
Ahead(ranking, n) ==
  {m \in Listed \ {n} :
     \E i \in DOMAIN market[m] :
       /\ market[m][i].stamp = Reading(n).stamp
       /\ Known({Score(ranking, market[m][i])})
       /\ Score(ranking, market[m][i]) >= Score(ranking, Reading(n))}

\* Although the ranking is built while the questions are asked, forgotten
\* when a stamp changes and fed by other portfolios, xstmc never passes over
\* a subnet that passes its gates and is among the best of its tick.
LeadersSignalled ==
  Decided /\ "xstmc" \in Ensemble(turn) =>
    \A n \in Listed \ Held(turn) :
      XstmcGates(Reading(n)) /\ Cardinality(Ahead("xstmc", n)) < TopK =>
        <<n, "xstmc">> \in entries

\* eyc gives up a position for its rank only if twice as many subnets as it
\* buys yielded at least as much at that tick.  The comment at the exit (eyc.py,
\* "if we drop out of top-K, close") asks for less: what the code waits for is
\* twice that, so a position may stay long after it has left the top.
RankExitsTrail ==
  Decided =>
    \A n \in Held(turn) :
      LET pos == positions[turn][n]
      IN  <<n, "eyc">> \in exits /\ ~BracketExit("eyc", pos, Reading(n)) =>
            Cardinality(Ahead("eyc", n)) >= 2 * TopK

\* Strategies that never sell on the reading they bought on.  Not xstmc: its
\* stop lies within the slippage of buying and selling a full stake.  Not
\* momentum: it enters on three days and leaves on one.  Not eyc: its rank
\* depends on who was asked before.
Steady == {"lam", "mean_reversion", "stake_velocity", "pdmr", "xmvb", "sfb", "wsi",
           "rcb", "rlb"}

\* A portfolio that runs one of them never sells what it bought before the
\* subnet has a new reading, though the sale of a full stake slips and others
\* feed the caches meanwhile.
FreshPositionsKept ==
  Decided /\ (\E s \in Steady : scenario.ensemble[turn] = {s}) =>
    \A e \in exits : positions[turn][e[1]].stamp < Reading(e[1]).stamp

\* "until the trend flips (EMA crossover the other way)": a position of rlb
\* is signalled for sale when the averages of all its readings have crossed.
Trend(n) ==
  FoldLeft(EmaStep, ColdEma, [i \in DOMAIN market[n] |-> Price(market[n][i])])

FlippedTrendsSold ==
  Decided /\ "rlb" \in Ensemble(turn) =>
    \A n \in Held(turn) :
      positions[turn][n].strategy = "rlb" /\ TrendFlipped(Trend(n)) =>
        <<n, "rlb">> \in exits
===============================================================================
