----------------------------- MODULE MCBacktester -----------------------------
(* Five timestamps two blocks apart; histories of subnets that turn dear,  *)
(* are drained for a while, start late, pause or stop before the end.      *)
EXTENDS Training, TLC

Snap(b, x, y) == [block |-> b, tao_in |-> x, alpha_in |-> y]
Cheap(t) == Snap(2 * t, 10, 30)
Dear(t)  == Snap(2 * t, 30, 10)
Gone(t)  == Snap(2 * t, 0, 10)

MCSnapshots == UNION {{Cheap(t), Dear(t), Gone(t)} : t \in 1 .. 5}

MCHistories ==
  {<<Cheap(1), Cheap(2), Dear(3), Dear(4), Cheap(5)>>,
   <<Dear(1), Dear(2), Gone(3), Gone(4), Dear(5)>>,
   <<NoSnapshot, NoSnapshot, Cheap(3), Cheap(4), Dear(5)>>,
   <<Cheap(1), Dear(2), Cheap(3), NoSnapshot, NoSnapshot>>,
   <<Cheap(1), Cheap(2), NoSnapshot, NoSnapshot, Dear(5)>>,
   <<Cheap(1), Cheap(2), Dear(3), Dear(4), Gone(5)>>}
===============================================================================
