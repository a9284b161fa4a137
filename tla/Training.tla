-------------------------------- MODULE Training --------------------------------
(***************************************************************************)
(* The environment the policy of rl_ppo is trained and evaluated in        *)
(* (trading/rl/bittensor_env.py, train_ppo.py), over the histories a       *)
(* replay loads too, and the observation the trading process builds for    *)
(* the trained policy (trading/strategies/rl_ppo.py).  An episode walks    *)
(* one subnet's bars once; it is a function of the bars and the actions,   *)
(* here any sequence of actions.  Money is counted in whole units, and a   *)
(* reward in TAO instead of shares of the capital.                         *)
(***************************************************************************)
EXTENDS Backtester, Features, SequencesExt

CONSTANTS
  EnvCapital,    \* initial_capital
  EnvMinDepth,   \* min_pool_depth
  EnvMinStake,   \* the least entry
  EntryPct,      \* position_fraction
  StopLossPct,   \* stop_loss_pct
  StepLimits,    \* max_steps: values to train with; None is a great one
  IdlePenalty,   \* idle_penalty_per_step, in TAO
  BarBlocks      \* blocks of a 30-minute bar

ASSUME EnvAssumption ==
  /\ {EnvCapital, EnvMinDepth, IdlePenalty} \subseteq Nat
  /\ EnvMinStake \in Nat \ {0}
  /\ {EntryPct, StopLossPct} \subseteq 1 .. 100
  /\ StepLimits \cup {BarBlocks} \subseteq Nat \ {0}
  /\ None \notin [alpha : Nat, invested : Nat, block : Nat]

\* Alpha is divisible: a unit is so small that the least stake buys one.
ASSUME UnitAssumption ==
  \A s \in Snapshots :
    LivePool(s.tao_in, s.alpha_in) => BuyAlpha(EnvMinStake, s.tao_in, s.alpha_in) > 0

Hold == 0
Enter == 1
Exit == 2

\* Price is a column of its own, filled upstream from the pool.
SpotPrice(s) == IF s.alpha_in > 0 THEN (100 * s.tao_in) \div s.alpha_in ELSE 0

BarOf(s) ==
  [block |-> s.block, tao_in |-> s.tao_in, alpha_in |-> s.alpha_in, price |-> SpotPrice(s)]

\* load_snapshots: the samples of a subnet in block order.
BarsOf(h) ==
  LET upTo[t \in 0 .. Ticks] ==
        IF t = 0 THEN <<>>
        ELSE IF h[t] = NoSnapshot THEN upTo[t - 1]
        ELSE Append(upTo[t - 1], BarOf(h[t]))
  IN  upTo[Ticks]

-------------------------------------------------------------------------------
(* The environment.                                                        *)

\* _reset_state; entry is entry_step, 0 for -1.
EnvReset(limit) ==
  [limit |-> limit, i |-> 1, free |-> EnvCapital, alpha |-> 0, cost |-> 0,
   entry |-> 0, reward |-> 0, idle |-> 0, over |-> FALSE]

EnvValue(env, bar) == env.free + SellTao(env.alpha, bar.tao_in, bar.alpha_in)

\* The first half of step: what the action does at the current bar.
Acted(env, bar, action) ==
  LET dx == Percent(EntryPct, env.free)
      enters == /\ action = Enter /\ env.alpha = 0
                /\ LivePool(bar.tao_in, bar.alpha_in)
                /\ dx >= EnvMinStake /\ bar.tao_in >= EnvMinDepth
      exits_ == action = Exit /\ env.alpha > 0
  IN  CASE enters -> [env EXCEPT !.free = @ - dx, !.cost = dx, !.entry = env.i,
                                 !.alpha = BuyAlpha(dx, bar.tao_in, bar.alpha_in)]
        [] exits_ -> [env EXCEPT !.free = EnvValue(env, bar),
                                 !.alpha = 0, !.cost = 0, !.entry = 0]
        [] OTHER -> env

\* At the last bar what is open is sold; cost and entry are left as they are.
ClosedAtEnd(env, bars) ==
  IF env.i >= Len(bars)
  THEN [env EXCEPT !.free = EnvValue(env, Last(bars)), !.alpha = 0]
  ELSE env

\* Faulty: the value to compare with is taken after the action.
ValueBeforeLate(env, bars, action) ==
  EnvValue(Acted(env, bars[env.i], action), bars[env.i])

ValueBefore(env, bars, action) == EnvValue(env, bars[env.i])

\* step
EnvStep(bars, env, action) ==
  LET acted  == Acted(env, bars[env.i], action)
      moved  == ClosedAtEnd([acted EXCEPT !.i = @ + 1], bars)
      value  == EnvValue(moved, IF moved.i > Len(bars) THEN Last(bars) ELSE bars[moved.i])
      idles  == action = Hold /\ moved.alpha = 0
      ends   == \/ moved.i >= Len(bars)
                \/ moved.i - 1 >= env.limit
                \/ (EnvCapital - value) * 100 >= StopLossPct * EnvCapital
  IN  [moved EXCEPT
         !.reward = @ + value - ValueBefore(env, bars, action)
                      - (IF idles THEN IdlePenalty ELSE 0),
         !.idle = @ + (IF idles THEN 1 ELSE 0),
         !.over = ends]

\* An episode under a policy that answers with these actions.
Episode(bars, limit, actions) ==
  LET run[k \in 0 .. Len(actions)] ==
        IF k = 0 THEN EnvReset(limit)
        ELSE IF run[k - 1].over THEN run[k - 1]
        ELSE EnvStep(bars, run[k - 1], actions[k])
  IN  run[Len(actions)]

\* evaluate_on_subnet: an early end is valued at the last bar all the same.
FinalValue(env, bars) == EnvValue(env, Last(bars))

-------------------------------------------------------------------------------
(* The two observations of one situation.                                  *)

\* The number that a ratio without terms becomes.
Zero == <<0, 1>>

Gain(alpha, cost, bar) ==
  <<SellTao(alpha, bar.tao_in, bar.alpha_in) - cost, cost>>

\* _safe of a share: an unknown one counts as zero.
Share(rank) == IF rank = None \/ rank[1] = 0 THEN Zero ELSE rank

\* _obs, over features computed without a view of other subnets
EnvObservation(bars, env) ==
  LET bar == bars[env.i]
      feats == FeaturesAt(bars, env.i, NoSight)
  IN  [indicators |-> feats.indicators,
       rank |-> Share(feats.rank),
       flag |-> env.alpha > 0,
       unrealized |-> IF env.alpha > 0 /\ LivePool(bar.tao_in, bar.alpha_in) /\ env.cost > 0
                      THEN Gain(env.alpha, env.cost, bar) ELSE Zero,
       held |-> IF env.entry > 0 THEN (env.i - env.entry) * BarBlocks ELSE 0]

\* _build_obs, of the newest bar of the buffer a cycle reads, with the newest
\* snapshots of all subnets in sight.
PolicyObservation(buffer, position, sight) ==
  LET bar == Last(buffer)
      feats == FeaturesAt(buffer, Len(buffer), sight)
      priced == position # None /\ LivePool(bar.tao_in, bar.alpha_in)
  IN  [indicators |-> feats.indicators,
       rank |-> Share(feats.rank),
       flag |-> position # None,
       unrealized |-> IF priced THEN Gain(position.alpha, position.invested, bar) ELSE Zero,
       held |-> IF priced THEN bar.block - position.block ELSE 0]

\* current_snaps at tick t.
Sight(t) == [n \in Seen(Current(t)) |-> Current(t)[n]]

-------------------------------------------------------------------------------
(* Properties, of the histories of every replay.                           *)

Courses == {BarsOf(history[n]) : n \in {m \in Netuids : SampledAt(history[m]) # {}}}
ActionsUpTo(len) == UNION {[1 .. k -> {Hold, Enter, Exit}] : k \in 0 .. len}

\* The rewards a policy is trained on add up to the money it made, whatever it
\* does: nothing is charged twice or lost at an entry, an exit, the forced
\* close or an early end; every episode ends, flat at the last bar, and what the
\* evaluation reports for an episode that ends flat is that sum.
RewardsAddUp ==
  tick = 0 =>
    \A bars \in Courses, limit \in StepLimits :
    \A actions \in ActionsUpTo(Len(bars) - 1) :
      LET env == Episode(bars, limit, actions)
          earned == env.reward + IdlePenalty * env.idle
      IN  /\ Len(actions) = Len(bars) - 1 /\ actions # <<>> => env.over
          /\ earned = EnvValue(env, bars[env.i]) - EnvCapital
          /\ env.i = Len(bars) /\ env.over => env.alpha = 0
          /\ env.alpha = 0 => earned = FinalValue(env, bars) - EnvCapital

\* "The observation MUST match training exactly": it does but for one number.
\* While an episode goes on, the policy is shown at work what it was shown in
\* training at that bar, whatever part of the past its buffer still holds, and
\* whatever the future was that training had on file, except for the rank of
\* the pool.  Training shows zero for it always; at work it is zero only for
\* the shallowest pool in sight, so every other subnet is observed as training
\* never showed it.  (With a hole among the bars since the entry, or an empty
\* pool, the hours held differ as well.)
Steady(bars, from, to) ==
  \A j \in from .. (to - 1) : bars[j + 1].block = bars[j].block + BarBlocks

Shallowest(sight, depth) ==
  \A m \in DOMAIN sight : sight[m].tao_in > 0 => sight[m].tao_in >= depth

OnlyRankDiffers ==
  tick = 0 =>
    \A bars \in Courses, limit \in StepLimits, t \in Timeline :
    \A actions \in ActionsUpTo(Len(bars) - 1) :
      LET env == Episode(bars, limit, actions)
          position == IF env.alpha = 0 THEN None
                      ELSE [alpha |-> env.alpha, invested |-> env.cost,
                            block |-> bars[env.entry].block]
          trained == EnvObservation(bars, env)
      IN  /\ ~env.over
          /\ LivePool(bars[env.i].tao_in, bars[env.i].alpha_in)
          /\ position # None => Steady(bars, env.entry, env.i)
          => \A first \in 1 .. env.i :
               first = 1 \/ env.i - first + 1 >= Month
                 => LET shown == PolicyObservation(SubSeq(bars, first, env.i), position, Sight(t))
                    IN  /\ trained = [shown EXCEPT !.rank = Zero]
                        /\ trained = shown <=> Shallowest(Sight(t), bars[env.i].tao_in)
=================================================================================
