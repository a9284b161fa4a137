-------------------------------- MODULE Reports --------------------------------
(***************************************************************************)
(* What the read routes (server/routes/paper.py) and the statistics query  *)
(* (server/database.py) make of a portfolio's rows: the list of positions  *)
(* marked to market, the figures over the trades, and the value in the     *)
(* header.  A route prices a position at the newest buffered sample of its *)
(* subnet, which may be missing.  Ratios, means and the risk figures over  *)
(* the value history are left out.                                         *)
(***************************************************************************)
EXTENDS PaperTrader

\* The newest sample of snapshot_buffer, by subnet.
Markets == [Netuids -> Snapshots \cup {NoSnapshot}]

Priced(snap) == snap # NoSnapshot /\ LivePool(snap.tao_in, snap.alpha_in)

\* unrealized_pnl_tao, which a position without a price does not show.
OpenProfit(pos, snap) ==
  IF Priced(snap) THEN SellTao(pos.alpha, snap.tao_in, snap.alpha_in) - pos.invested ELSE 0

OpenPositions(db, market) ==
  [n \in Holdings(db.positions) |-> OpenProfit(db.positions[n], market[n])]

\* The sums are those of profit_factor, before they are divided.
TradeStats(db) ==
  LET pnl    == [i \in DOMAIN db.trades |-> db.trades[i].pnl]
      sells  == {i \in DOMAIN db.trades : db.trades[i].dir = "sell"}
      winning == {i \in sells : pnl[i] > 0}
      losing  == {i \in sells : pnl[i] <= 0}
  IN  [total  |-> Len(db.trades),
       winning |-> Cardinality(winning), losing |-> Cardinality(losing),
       grossWins   |-> SumFunctionOnSet(pnl, winning),
       grossLosses |-> -SumFunctionOnSet(pnl, losing)]

\* current_value_tao, as soon as there is a position or all are priced: one
\* without a price counts at its cost.  The comment in the route promises the
\* stored value instead, which is never taken.
HeaderValue(db, market) ==
  db.free + SumFunction(
    [n \in Holdings(db.positions) |->
       IF Priced(market[n])
       THEN SellTao(db.positions[n].alpha, market[n].tao_in, market[n].alpha_in)
       ELSE db.positions[n].invested])

-------------------------------------------------------------------------------
\* The answers a dashboard puts side by side come from three tables and the
\* live buffer, and agree whenever the runner sleeps, also after a restart (but
\* not after an interrupted write) and whichever subnets have no price: the
\* value in the header is the initial capital, the gross wins less the gross
\* losses of the trades, and the profits the list of positions shows; and every
\* trade belongs to a closed pair or to an open position.  With a price missing
\* this holds because the header does not fall back to the stored value, as the
\* comment in the route says it does: that value is of the last cycle's prices.
StatsExplainValue ==
  runner = "idle" /\ FaultFree =>
    LET stats == TradeStats(conn)
    IN  /\ stats.total = 2 * (stats.winning + stats.losing)
                         + Cardinality(Holdings(conn.positions))
        /\ \A market \in Markets :
             LET open == OpenPositions(conn, market)
             IN  HeaderValue(conn, market) - Initial
                   = stats.grossWins - stats.grossLosses
                     + SumFunction(open)
===============================================================================
