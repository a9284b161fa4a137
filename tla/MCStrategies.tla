---------------------------- MODULE MCStrategies ------------------------------
(* Two portfolios run the same strategy, one scenario for each strategy.    *)
(* The strategies that rank see three subnets, the others one.  A pool of   *)
(* 1000 TAO; readings lie on both sides of the thresholds that matter.      *)
EXTENDS Strategies

CONSTANTS n1, n2, n3, p1, p2

Calm ==
  [stamp |-> 0, tao |-> 100000, alpha |-> 100000, stake |-> 0, emission |-> 0,
   pm90 |-> 0, pm24 |-> 0, pm72 |-> 0, pm7d |-> 0, sv24 |-> 0, sv72 |-> 0,
   vol |-> 20, z |-> 0, taoflow |-> TRUE]

At(price)     == [Calm EXCEPT !.alpha = 100000000 \div price]
Staked(stake) == [Calm EXCEPT !.stake = stake]
Yielding(rate) == [Calm EXCEPT !.stake = 1000, !.emission = rate]
Scored(pm90)  == [Calm EXCEPT !.pm90 = pm90]
Drained       == [Calm EXCEPT !.sv24 = -50]
Crash         == At(930)
Soar          == At(1180)

\* One portfolio and a strategy that keeps nothing.
Alone(s, bars) ==
  [ensemble |-> [p \in {p1} |-> {s}], order |-> <<n1>>,
   bars |-> [n \in {n1} |-> bars], length |-> 3, gaps |-> {1, 336}]

\* Two portfolios and a strategy with a cache.
Shared(s, bars) ==
  [ensemble |-> [p \in {p1, p2} |-> {s}], order |-> <<n1>>,
   bars |-> [n \in {n1} |-> bars], length |-> 3, gaps |-> {1, 336}]

\* Two portfolios and a strategy that ranks.
Ranked(s, low, mid, high) ==
  [ensemble |-> [p \in {p1, p2} |-> {s}], order |-> <<n1, n2, n3>>,
   bars |-> [n \in {n1, n2, n3} |->
               CASE n = n1 -> low [] n = n2 -> mid [] n = n3 -> high],
   length |-> 2, gaps |-> {1}]

Rise   == [Calm EXCEPT !.pm24 = 40]
Dip    == [At(980) EXCEPT !.z = -25, !.sv24 = 20]
Back   == [Calm EXCEPT !.z = 5]
Inflow == [Calm EXCEPT !.sv24 = 40, !.sv72 = 50]
Climb  == [Calm EXCEPT !.pm72 = 60, !.sv72 = 30]
Turned == [Climb EXCEPT !.pm24 = -40]

MCScenarios ==
  { Alone("lam", {Rise, Drained, Crash, Soar}),
    Alone("mean_reversion", {Dip, Back, Drained}),
    Alone("pdmr", {Dip, Back, Crash}),
    Alone("stake_velocity",
      {Inflow, [Inflow EXCEPT !.taoflow = FALSE], [Calm EXCEPT !.sv24 = -25],
       [Calm EXCEPT !.pm24 = 120]}),
    Alone("momentum", {Climb, Turned}),
    Shared("rcb", {At(1000), At(1030)}),
    Shared("rlb", {[At(1000) EXCEPT !.vol = 3], [At(1010) EXCEPT !.vol = 3],
                      [At(994) EXCEPT !.vol = 3]}),
    Shared("sfb", {Staked(100000), Staked(100100), Staked(103000)}),
    Shared("wsi", {Staked(100000), Staked(100100), Staked(0)}),
    Alone("rlppo", {Calm}),
    Alone("pmr", {Calm, Crash}),
    Ranked("xstmc", {Scored(5), Scored(20)}, {Scored(10)}, {Scored(15), Scored(Unknown)}),
    [Ranked("eyc", {Yielding(5), Yielding(20)}, {Yielding(10)}, {Yielding(15)})
     EXCEPT !.length = 3],
    Ranked("eyc", {Yielding(20)}, {Yielding(10)}, {Yielding(15), Calm}),
    [Ranked("xmvb", {[Calm EXCEPT !.pm7d = 30], [Calm EXCEPT !.pm7d = 90]},
                   {[Calm EXCEPT !.pm7d = 60, !.vol = 40]},
                   {[Calm EXCEPT !.pm7d = 70, !.vol = 10]})
     EXCEPT !.gaps = {336}] }

\* A pool of 2000 TAO, for stakes of one percent of it.
Deep(price) ==
  [At(price) EXCEPT !.tao = 200000, !.alpha = 200000000 \div price, !.vol = 3]

\* rlb alone, over prices that rise, and then fall below both averages.
FallingTrend == { Alone("rlb", {Deep(1000), Deep(1010), Deep(994)}) }
===============================================================================
