---------------------------- MODULE MCSnapshotFeed ----------------------------
(* One pool of the market is too thin to be bought and one has no price.   *)
EXTENDS Benchmark, TLC

MCTaoIn == <<2, 1, 3, 2, 4, 2>>
MCAlphaPrice == <<1, 2, 4, 1, 0, 2>>
===============================================================================
