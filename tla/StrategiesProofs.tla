-------------------------- MODULE StrategiesProofs ---------------------------
(***************************************************************************)
(* The rankings of Strategies, for any number of portfolios, subnets,      *)
(* readings and ties: xstmc passes over no leader, and eyc gives up no     *)
(* position whose rank it has not lost.  And what is bought is not sold on *)
(* the reading it was bought on: what the entry question asked for is what *)
(* the exit question looks at, and a round trip of the largest stake costs *)
(* less than the tightest stop.                                            *)
(***************************************************************************)
EXTENDS Strategies, ArithmeticProofs

\* The subnets have readings, of features that are numbers or unknown.
Markets ==
  /\ scenario \in Scenarios
  /\ now \in Nat
  /\ \A n \in Listed : market[n] \in Seq(Readings) /\ market[n] # <<>>
  /\ DOMAIN market = Netuids

\* Whatever stands on a board is the score of a reading with its stamp.
Backed(k, ranks) ==
  /\ DOMAIN ranks.board \subseteq Listed
  /\ \A m \in DOMAIN ranks.board :
       /\ ranks.board[m].seat \in Nat
       /\ ranks.board[m].score \in Int
       /\ \E i \in DOMAIN market[m] :
            /\ market[m][i].stamp = ranks.stamp
            /\ Score(k, market[m][i]) = ranks.board[m].score

Boards ==
  /\ cache = [ranks |-> cache.ranks, prices |-> cache.prices,
              flows |-> cache.flows, emas |-> cache.emas]
  /\ cache.ranks = [k \in Rankings |-> cache.ranks[k]]
  /\ \A k \in Rankings : Backed(k, cache.ranks[k])

InQueue(n) == \E i \in DOMAIN queue : queue[i] = n

\* What the questions of this turn have been answered so far.
LeadersSoFar ==
  turn # Nobody /\ "xstmc" \in Ensemble(turn) =>
    \A n \in Listed \ Held(turn) :
      InQueue(n) \/
      (XstmcGates(Reading(n)) /\ Cardinality(Ahead("xstmc", n)) < TopK =>
         <<n, "xstmc">> \in entries)

TrailersSoFar ==
  /\ turn = Nobody => exits = {} /\ queue = <<>>
  /\ turn # Nobody => \A n \in Held(turn) :
       LET pos == positions[turn][n]
       IN  <<n, "eyc">> \in exits /\ ~BracketExit("eyc", pos, Reading(n)) =>
             Cardinality(Ahead("eyc", n)) >= 2 * TopK

Queued == queue \in Seq(Listed)

RankInv == Markets /\ Boards /\ Queued /\ LeadersSoFar /\ TrailersSoFar

-------------------------------------------------------------------------------
(* Scores and boards.                                                      *)

\* A score that is known is a number.
LEMMA KnownScores ==
  ASSUME NEW k \in Rankings, NEW r \in Readings, Known({Score(k, r)})
  PROVE  Score(k, r) \in Int
<1>1. k # "eyc" => Score(k, r) \in {r.pm90, r.pm7d, r.vol}
  BY DEF Rankings, Score
<1>2. {r.pm90, r.pm7d, r.vol} \subseteq Int \cup {Unknown}
  BY DEF Readings, Feature
<1>3. k = "eyc" => Score(k, r) = Yield(r)
  BY DEF Rankings, Score
<1>4. Yield(r) \in Int \cup {Unknown}
  BY DEF Yield, Readings
<1> QED
  BY <1>1, <1>2, <1>3, <1>4 DEF Known

\* A process sees finitely many subnets.
LEMMA FewListed ==
  ASSUME scenario \in Scenarios
  PROVE  Listed \subseteq Netuids /\ IsFiniteSet(Listed)
<1>1. Listed \subseteq Netuids
  BY ScenariosAssumption DEF Listed
<1> QED
  BY <1>1, RulesAssumption, FS_Subset

\* A subnet's reading is the last of its market.
LEMMA ReadingOf ==
  ASSUME Markets, NEW n \in Listed
  PROVE  /\ Reading(n) \in Readings
         /\ Len(market[n]) \in DOMAIN market[n]
         /\ Reading(n) = market[n][Len(market[n])]
  BY DEF Markets, Reading, Last

\* A question leaves a board of this kind behind.
LEMMA PushKeeps ==
  ASSUME Markets, NEW n \in Listed, NEW k \in Rankings, NEW ranks, Backed(k, ranks)
  PROVE  Backed(k, PushScore(ranks, n, Reading(n).stamp, Score(k, Reading(n))))
<1> DEFINE r == Reading(n)
           old == IF ranks.stamp = r.stamp THEN ranks.board ELSE EmptyBoard
           new == PushScore(ranks, n, r.stamp, Score(k, r))
<1>1. r \in Readings /\ Len(market[n]) \in DOMAIN market[n]
      /\ r = market[n][Len(market[n])]
  BY ReadingOf
<1>2. /\ DOMAIN old \subseteq Listed
      /\ \A m \in DOMAIN old :
           /\ old[m].seat \in Nat
           /\ old[m].score \in Int
           /\ \E i \in DOMAIN market[m] :
                market[m][i].stamp = r.stamp /\ Score(k, market[m][i]) = old[m].score
  BY DEF Backed, EmptyBoard
<1>3. new.stamp = r.stamp
  BY DEF PushScore
<1>4. CASE ~Known({Score(k, r)})
  <2>1. new.board = old
    BY <1>4 DEF PushScore
  <2> QED
    BY <1>2, <1>3, <2>1 DEF Backed
<1>5. CASE Known({Score(k, r)})
  <2>1. new.board = Put(old, n, Score(k, r))
    BY <1>5 DEF PushScore
  <2>2. Score(k, r) \in Int
    BY <1>1, <1>5, KnownScores
  <2>3. Seat(old, n) \in Nat
    <3>1. IsFiniteSet(DOMAIN old)
      BY <1>2, FewListed, FS_Subset DEF Markets
    <3>2. Cardinality(DOMAIN old) \in Nat
      BY <3>1, FS_CardinalityType
    <3> QED
      BY <1>2, <3>2 DEF Seat
  <2>4. DOMAIN new.board = DOMAIN old \cup {n}
    BY <2>1 DEF Put
  <2>5. ASSUME NEW m \in DOMAIN new.board
        PROVE  /\ new.board[m].seat \in Nat
               /\ new.board[m].score \in Int
               /\ \E i \in DOMAIN market[m] :
                    /\ market[m][i].stamp = r.stamp
                    /\ Score(k, market[m][i]) = new.board[m].score
    <3>1. CASE m = n
      <4>1. new.board[n] = [score |-> Score(k, r), seat |-> Seat(old, n)]
        BY <2>1 DEF Put
      <4> QED
        BY <1>1, <2>2, <2>3, <3>1, <4>1
    <3>2. CASE m # n
      <4>1. m \in DOMAIN old /\ new.board[m] = old[m]
        BY <2>1, <2>4, <3>2 DEF Put
      <4> QED
        BY <1>2, <4>1
    <3> QED
      BY <3>1, <3>2
  <2> QED
    BY <1>2, <1>3, <2>4, <2>5 DEF Backed
<1> QED
  BY <1>4, <1>5

\* A subnet's rank never exceeds what the subnets ahead of it earn it.
LEMMA RankBound ==
  ASSUME Markets, NEW n \in Listed, NEW k \in Rankings, NEW ranks, Backed(k, ranks),
         ranks.stamp = Reading(n).stamp, n \in DOMAIN ranks.board,
         ranks.board[n].score = Score(k, Reading(n))
  PROVE  /\ Cardinality(Ahead(k, n)) \in Nat
         /\ Rank(ranks.board, n) \in Nat
         /\ Rank(ranks.board, n) <= 1 + Cardinality(Ahead(k, n))
<1> DEFINE b == ranks.board
           before == {m \in DOMAIN b :
                        \/ b[m].score > b[n].score
                        \/ b[m].score = b[n].score /\ b[m].seat < b[n].seat}
<1>1. b[n].score \in Int /\ b[n].seat \in Nat
  BY DEF Backed
<1>2. before \subseteq Ahead(k, n)
  <2> SUFFICES ASSUME NEW m \in before
               PROVE  m \in Ahead(k, n)
    OBVIOUS
  <2>1. m # n
    BY <1>1
  <2>2. m \in Listed /\ b[m].score \in Int
    BY DEF Backed
  <2>3. PICK i \in DOMAIN market[m] :
          market[m][i].stamp = ranks.stamp /\ Score(k, market[m][i]) = b[m].score
    BY DEF Backed
  <2>4. Known({Score(k, market[m][i])})
    BY <2>2, <2>3, RulesAssumption DEF Known
  <2>5. Score(k, market[m][i]) >= Score(k, Reading(n))
    BY <1>1, <2>2, <2>3
  <2> QED
    BY <2>1, <2>2, <2>3, <2>4, <2>5 DEF Ahead
<1>3. IsFiniteSet(Ahead(k, n))
  <2>1. Ahead(k, n) \subseteq Listed
    BY DEF Ahead
  <2> QED
    BY <2>1, FewListed, FS_Subset DEF Markets
<1>4. /\ Cardinality(before) \in Nat /\ Cardinality(Ahead(k, n)) \in Nat
      /\ Cardinality(before) <= Cardinality(Ahead(k, n))
  BY <1>2, <1>3, FS_Subset, FS_CardinalityType
<1>5. Rank(b, n) = 1 + Cardinality(before)
  BY DEF Rank
<1> QED
  BY <1>4, <1>5

\* A known score is on the board after the question.
LEMMA PushPuts ==
  ASSUME NEW c, NEW n, NEW stamp, NEW score, Known({score})
  PROVE  LET new == PushScore(c, n, stamp, score)
         IN  /\ new.stamp = stamp
             /\ n \in DOMAIN new.board
             /\ new.board[n].score = score
  BY DEF PushScore, Put

-------------------------------------------------------------------------------
(* The invariant.                                                          *)

LEMMA RankInvInit == Init => RankInv
<1> SUFFICES ASSUME Init PROVE RankInv
  OBVIOUS
<1>1. PICK first \in OneEach(Listed) :
        market = [n \in Netuids |-> IF n \in Listed THEN <<Stamped(first[n], 0)>> ELSE <<>>]
  BY DEF Init
<1>2. Listed \subseteq Netuids
  BY FewListed DEF Init
<1>3. \A n \in Listed : Stamped(first[n], 0) \in Readings
  <2>1. \A n \in Listed : first[n] \in Readings
    BY ScenariosAssumption DEF Init, OneEach, Listed
  <2> QED
    BY <2>1 DEF Stamped, Readings
<1>4. Markets
  BY <1>1, <1>2, <1>3 DEF Init, Markets
<1>5. Boards
  <2>1. \A k \in Rankings : Backed(k, EmptyRanks)
    BY DEF Backed, EmptyRanks, EmptyBoard
  <2> QED
    BY <2>1 DEF Init, Boards, NoCache
<1> QED
  BY <1>4, <1>5 DEF Init, RankInv, Queued, LeadersSoFar, TrailersSoFar

\* A publication only adds readings.
LEMMA PublishKeeps ==
  ASSUME RankInv, NEW gap \in scenario.gaps, NEW who \in Pollings, Publish(gap, who)
  PROVE  RankInv'
<1>1. /\ scenario' = scenario /\ cache' = cache /\ positions' = positions
      /\ turn' = Nobody /\ turn = Nobody /\ queue' = queue /\ exits' = exits
      /\ Listed' = Listed
  BY DEF Publish, turnVars, Listed
<1>2. who \subseteq Listed
  BY DEF Pollings
<1>3. now' \in Nat
  BY ScenariosAssumption DEF Publish, RankInv, Markets
<1>4. PICK bars \in OneEach(who) :
        market' = [n \in Netuids |->
                     IF n \in who THEN Append(market[n], Stamped(bars[n], now')) ELSE market[n]]
  BY DEF Publish
<1>5. ASSUME NEW n \in who
      PROVE  Stamped(bars[n], now') \in Readings
  <2>1. bars[n] \in Readings
    BY <1>2, ScenariosAssumption DEF OneEach, RankInv, Markets, Listed
  <2> QED
    BY <1>3, <2>1 DEF Stamped, Readings
<1>6. Listed \subseteq Netuids
  BY FewListed DEF RankInv, Markets
<1>7. ASSUME NEW n \in Listed
      PROVE  /\ market'[n] \in Seq(Readings) /\ market'[n] # <<>>
             /\ \A i \in DOMAIN market[n] :
                  i \in DOMAIN market'[n] /\ market'[n][i] = market[n][i]
  <2>1. market[n] \in Seq(Readings) /\ market[n] # <<>>
    BY DEF RankInv, Markets
  <2>2. CASE n \in who
    BY <1>4, <1>5, <1>6, <2>1, <2>2
  <2>3. CASE n \notin who
    BY <1>4, <1>6, <2>1, <2>3
  <2> QED
    BY <2>2, <2>3
<1>8. Markets'
  BY <1>1, <1>3, <1>4, <1>7 DEF RankInv, Markets
<1>9. Boards'
  <2>1. ASSUME NEW k \in Rankings
        PROVE  Backed(k, cache.ranks[k])'
    <3>1. Backed(k, cache.ranks[k])
      BY DEF RankInv, Boards
    <3> QED
      BY <1>1, <1>7, <3>1 DEF Backed
  <2> QED
    BY <1>1, <2>1 DEF RankInv, Boards
<1> QED
  BY <1>1, <1>8, <1>9 DEF RankInv, Queued, LeadersSoFar, TrailersSoFar

\* What a question does, in terms of the subnet at the head of the queue.
LEMMA Asked ==
  ASSUME RankInv, NEW advice, Ask(advice)
  PROVE  LET n     == Head(queue)
             r     == Reading(n)
             pos   == positions[turn][n]
             asked == {s \in Ensemble(turn) : CanRun(s, r)}
         IN  /\ n \in Listed /\ r \in Readings
             /\ turn # Nobody /\ turn' = turn
             /\ scenario' = scenario /\ market' = market /\ now' = now
             /\ positions' = positions /\ queue' = Tail(queue)
             /\ cache' = IF pos = NoPosition THEN FedByEntry(cache, asked, n, r)
                         ELSE FedByExit(cache, asked, n, r, pos)
             /\ entries \subseteq entries'
             /\ \A s \in asked :
                  pos = NoPosition /\ Enters(s, n, r, cache', advice) => <<n, s>> \in entries'
             /\ \A m : <<m, "eyc">> \in exits' \ exits =>
                  /\ m = n /\ pos # NoPosition /\ "eyc" \in asked
                  /\ EycExit(n, pos, r, cache')
<1> DEFINE n     == Head(queue)
           r     == Reading(n)
           pos   == positions[turn][n]
           asked == {s \in Ensemble(turn) : CanRun(s, r)}
           fed   == IF pos = NoPosition THEN FedByEntry(cache, asked, n, r)
                    ELSE FedByExit(cache, asked, n, r, pos)
<1>1. n \in Listed
  BY DEF Ask, RankInv, Queued
<1>2. r \in Readings
  BY <1>1, ReadingOf DEF RankInv
<1>3. turn # Nobody /\ turn' = turn
  BY DEF Ask, RankInv, TrailersSoFar
<1>4. /\ scenario' = scenario /\ market' = market /\ now' = now
      /\ positions' = positions /\ queue' = Tail(queue) /\ cache' = fed
  BY DEF Ask
<1>5. CASE pos = NoPosition
  <2>1. /\ entries' = entries \cup {<<n, s>> : s \in {t \in asked : Enters(t, n, r, fed, advice)}}
        /\ exits' = exits
    BY <1>5 DEF Ask
  <2> QED
    BY <1>1, <1>2, <1>3, <1>4, <1>5, <2>1
<1>6. CASE pos # NoPosition
  <2> DEFINE drain == DrainUpdate(streak[turn][n], r)
  <2>1. /\ exits' = exits \cup
               {<<n, s>> : s \in {t \in asked : Leaves(t, n, r, fed, pos, drain, advice)}}
        /\ entries' = entries
    BY <1>6 DEF Ask
  <2>2. Leaves("eyc", n, r, fed, pos, drain, advice) => EycExit(n, pos, r, fed)
    BY DEF Leaves
  <2>3. \A m : <<m, "eyc">> \in exits' \ exits =>
          m = n /\ "eyc" \in asked /\ Leaves("eyc", n, r, fed, pos, drain, advice)
    BY <2>1
  <2> QED
    BY <1>1, <1>2, <1>3, <1>4, <1>6, <2>1, <2>2, <2>3
<1> QED
  BY <1>5, <1>6

\* The boards after a question.
LEMMA AskBoards ==
  ASSUME RankInv, NEW advice, Ask(advice)
  PROVE  Boards'
<1> DEFINE n     == Head(queue)
           r     == Reading(n)
           pos   == positions[turn][n]
           asked == {s \in Ensemble(turn) : CanRun(s, r)}
<1>1. /\ n \in Listed
      /\ scenario' = scenario /\ market' = market
      /\ cache' = IF pos = NoPosition THEN FedByEntry(cache, asked, n, r)
                  ELSE FedByExit(cache, asked, n, r, pos)
  BY Asked
<1>2. \A k \in Rankings :
        /\ Backed(k, cache.ranks[k])
        /\ Backed(k, PushScore(cache.ranks[k], n, r.stamp, Score(k, r)))
  BY <1>1, PushKeeps DEF RankInv, Boards
<1>3. ASSUME NEW k \in Rankings, NEW ranks, Backed(k, ranks)
      PROVE  Backed(k, ranks)'
  BY <1>1, <1>3 DEF Backed, Listed
<1> HIDE DEF asked
<1>4. CASE pos = NoPosition
  <2>1. cache' = FedByEntry(cache, asked, n, r)
    BY <1>1, <1>4
  <2>2. /\ cache' = [ranks |-> cache'.ranks, prices |-> cache'.prices,
                     flows |-> cache'.flows, emas |-> cache'.emas]
        /\ cache'.ranks = [k \in Rankings |-> cache'.ranks[k]]
        /\ \A k \in Rankings :
             cache'.ranks[k] \in {cache.ranks[k], PushScore(cache.ranks[k], n, r.stamp, Score(k, r))}
    BY <2>1 DEF FedByEntry
  <2>3. \A k \in Rankings : Backed(k, cache'.ranks[k])
    BY <1>2, <2>2
  <2>4. \A k \in Rankings : Backed(k, cache.ranks[k])'
    BY <1>3, <2>3
  <2> QED
    BY <2>2, <2>4 DEF Boards
<1>5. CASE pos # NoPosition
  <2>1. cache' = FedByExit(cache, asked, n, r, pos)
    BY <1>1, <1>5
  <2>2. "eyc" \in Rankings /\ Score("eyc", r) = Yield(r)
    BY DEF Rankings, Score
  <2>3. /\ cache' = [ranks |-> cache'.ranks, prices |-> cache'.prices,
                     flows |-> cache'.flows, emas |-> cache'.emas]
        /\ cache'.ranks = [k \in Rankings |-> cache'.ranks[k]]
        /\ \A k \in Rankings :
             cache'.ranks[k] \in {cache.ranks[k], PushScore(cache.ranks[k], n, r.stamp, Score(k, r))}
    BY <2>1, <2>2 DEF FedByExit, RankInv, Boards
  <2>4. \A k \in Rankings : Backed(k, cache'.ranks[k])
    BY <1>2, <2>3
  <2>5. \A k \in Rankings : Backed(k, cache.ranks[k])'
    BY <1>3, <2>4
  <2> QED
    BY <2>3, <2>5 DEF Boards
<1> QED
  BY <1>4, <1>5

\* A question signals a leader.
LEMMA AskLeaders ==
  ASSUME RankInv, NEW advice, Ask(advice)
  PROVE  LeadersSoFar'
<1> DEFINE n     == Head(queue)
           r     == Reading(n)
           pos   == positions[turn][n]
           asked == {s \in Ensemble(turn) : CanRun(s, r)}
<1>1. /\ n \in Listed /\ r \in Readings
      /\ turn # Nobody /\ turn' = turn
      /\ scenario' = scenario /\ market' = market /\ positions' = positions
      /\ queue' = Tail(queue) /\ entries \subseteq entries'
      /\ cache' = IF pos = NoPosition THEN FedByEntry(cache, asked, n, r)
                  ELSE FedByExit(cache, asked, n, r, pos)
      /\ \A s \in asked :
           pos = NoPosition /\ Enters(s, n, r, cache', advice) => <<n, s>> \in entries'
  BY Asked
<1>2. /\ Listed' = Listed /\ Held(turn)' = Held(turn) /\ Ensemble(turn)' = Ensemble(turn)
      /\ \A m : Reading(m)' = Reading(m) /\ Ahead("xstmc", m)' = Ahead("xstmc", m)
  BY <1>1 DEF Listed, Held, Ensemble, Reading, Ahead
<1> SUFFICES ASSUME "xstmc" \in Ensemble(turn), NEW m \in Listed \ Held(turn), ~InQueue(m)',
                    XstmcGates(Reading(m)), Cardinality(Ahead("xstmc", m)) < TopK
             PROVE  <<m, "xstmc">> \in entries'
  BY <1>1, <1>2 DEF LeadersSoFar
<1>3. CASE ~InQueue(m)
  BY <1>1, <1>3 DEF RankInv, LeadersSoFar
<1>4. CASE InQueue(m)
  <2>1. m = n /\ pos = NoPosition
    <3>1. PICK i \in DOMAIN queue : queue[i] = m
      BY <1>4 DEF InQueue
    <3>2. queue \in Seq(Listed) /\ queue # <<>>
      BY <3>1 DEF RankInv, Queued
    <3>3. CASE i = 1
      BY <3>1, <3>2, <3>3 DEF Held
    <3>4. CASE i # 1
      <4>1. i - 1 \in DOMAIN Tail(queue) /\ Tail(queue)[i - 1] = m
        BY <3>1, <3>2, <3>4
      <4> QED
        BY <1>1, <4>1 DEF InQueue
    <3> QED
      BY <3>3, <3>4
  <2>2. "xstmc" \in asked
    BY DEF CanRun
  <2>3. /\ "xstmc" \in Rankings /\ Score("xstmc", r) = r.pm90 /\ Known({r.pm90})
    BY <2>1 DEF Rankings, Score, XstmcGates
  <2> DEFINE ranks == cache'.ranks["xstmc"]
  <2>4. ranks = PushScore(cache.ranks["xstmc"], n, r.stamp, Score("xstmc", r))
    <3>1. cache' = FedByEntry(cache, asked, n, r)
      BY <1>1, <2>1
    <3>2. "xstmc" \in UNION {RankedBy(s) : s \in asked}
      BY <2>2 DEF RankedBy
    <3> HIDE DEF asked
    <3> QED
      BY <2>3, <3>1, <3>2 DEF FedByEntry
  <2>5. Backed("xstmc", ranks)
    BY <1>1, <2>3, <2>4, PushKeeps DEF RankInv, Boards
  <2>6. /\ ranks.stamp = r.stamp /\ n \in DOMAIN ranks.board
        /\ ranks.board[n].score = Score("xstmc", r)
    BY <2>3, <2>4, PushPuts
  <2> HIDE DEF ranks
  <2>7. /\ Cardinality(Ahead("xstmc", n)) \in Nat
        /\ Rank(ranks.board, n) \in Nat
        /\ Rank(ranks.board, n) <= 1 + Cardinality(Ahead("xstmc", n))
    BY <1>1, <2>3, <2>5, <2>6, RankBound DEF RankInv
  <2>8. Rank(ranks.board, n) <= TopK
    BY <2>1, <2>7, RulesAssumption
  <2>9. Enters("xstmc", n, r, cache', advice)
    BY <2>1, <2>8 DEF Enters, XstmcEntry, ranks
  <2> QED
    BY <1>1, <2>1, <2>2, <2>9
<1> QED
  BY <1>3, <1>4

\* A question about a held subnet signals it for its rank only if it trails.
LEMMA AskTrailers ==
  ASSUME RankInv, NEW advice, Ask(advice)
  PROVE  TrailersSoFar'
<1> DEFINE n     == Head(queue)
           r     == Reading(n)
           pos   == positions[turn][n]
           asked == {s \in Ensemble(turn) : CanRun(s, r)}
<1>1. /\ n \in Listed /\ r \in Readings
      /\ turn # Nobody /\ turn' = turn
      /\ scenario' = scenario /\ market' = market /\ positions' = positions
      /\ cache' = IF pos = NoPosition THEN FedByEntry(cache, asked, n, r)
                  ELSE FedByExit(cache, asked, n, r, pos)
      /\ \A m : <<m, "eyc">> \in exits' \ exits =>
           m = n /\ pos # NoPosition /\ "eyc" \in asked /\ EycExit(n, pos, r, cache')
  BY Asked
<1>2. /\ Held(turn)' = Held(turn)
      /\ \A m : Reading(m)' = Reading(m) /\ Ahead("eyc", m)' = Ahead("eyc", m)
  BY <1>1 DEF Listed, Held, Reading, Ahead
<1> SUFFICES ASSUME NEW m \in Held(turn), <<m, "eyc">> \in exits',
                    ~BracketExit("eyc", positions[turn][m], Reading(m))
             PROVE  Cardinality(Ahead("eyc", m)) >= 2 * TopK
  BY <1>1, <1>2 DEF TrailersSoFar
<1>3. CASE <<m, "eyc">> \in exits
  BY <1>1, <1>3 DEF RankInv, TrailersSoFar
<1>4. CASE <<m, "eyc">> \notin exits
  <2>1. m = n /\ pos # NoPosition /\ "eyc" \in asked /\ RankExit(n, r, cache', pos)
    BY <1>1, <1>4 DEF EycExit
  <2>2. EycLooks(pos, r) /\ Known({Yield(r)})
    BY <2>1 DEF RankExit, EycLooks
  <2>3. "eyc" \in Rankings /\ Score("eyc", r) = Yield(r)
    BY DEF Rankings, Score
  <2> DEFINE ranks == cache'.ranks["eyc"]
  <2>4. ranks = PushScore(cache.ranks["eyc"], n, r.stamp, Score("eyc", r))
    <3>1. cache' = FedByExit(cache, asked, n, r, pos)
      BY <1>1, <2>1
    <3> HIDE DEF asked
    <3> QED
      BY <2>1, <2>2, <2>3, <3>1 DEF FedByExit, RankInv, Boards
  <2>5. Backed("eyc", ranks)
    BY <1>1, <2>3, <2>4, PushKeeps DEF RankInv, Boards
  <2>6. /\ ranks.stamp = r.stamp /\ n \in DOMAIN ranks.board
        /\ ranks.board[n].score = Score("eyc", r)
    BY <2>2, <2>3, <2>4, PushPuts
  <2>7. Rank(ranks.board, n) > 2 * TopK
    BY <2>1 DEF RankExit
  <2> HIDE DEF ranks
  <2>8. /\ Cardinality(Ahead("eyc", n)) \in Nat
        /\ Rank(ranks.board, n) \in Nat
        /\ Rank(ranks.board, n) <= 1 + Cardinality(Ahead("eyc", n))
    BY <1>1, <2>3, <2>5, <2>6, RankBound DEF RankInv
  <2> QED
    BY <2>1, <2>7, <2>8, RulesAssumption
<1> QED
  BY <1>3, <1>4

LEMMA AskKeeps ==
  ASSUME RankInv, NEW advice, Ask(advice)
  PROVE  RankInv'
<1>1. /\ turn' = turn /\ scenario' = scenario /\ market' = market /\ now' = now
      /\ queue' = Tail(queue)
  BY DEF Ask
<1>2. Markets'
  BY <1>1 DEF RankInv, Markets, Listed
<1>3. Queued'
  BY <1>1 DEF Ask, RankInv, Queued, Listed
<1> QED
  BY <1>2, <1>3, AskBoards, AskLeaders, AskTrailers DEF RankInv

LEMMA RankInvStep == RankInv /\ [Next]_vars => RankInv'
<1> SUFFICES ASSUME RankInv, [Next]_vars PROVE RankInv'
  OBVIOUS
<1>1. ASSUME NEW gap \in scenario.gaps, NEW who \in Pollings, Publish(gap, who)
      PROVE  RankInv'
  BY <1>1, PublishKeeps
<1>2. ASSUME NEW p \in Running, BeginTurn(p)
      PROVE  RankInv'
  <2>1. /\ scenario' = scenario /\ market' = market /\ now' = now /\ cache' = cache
        /\ turn' = p /\ queue' = scenario.order /\ exits' = {} /\ Listed' = Listed
    BY <1>2 DEF BeginTurn, RankInv, TrailersSoFar, Listed
  <2>2. p # Nobody
    BY ScenariosAssumption, NobodyAssumption DEF Running, RankInv, Markets
  <2>3. scenario.order \in Seq(Netuids)
    BY ScenariosAssumption DEF RankInv, Markets
  <2>4. queue' \in Seq(Listed) /\ \A n \in Listed : InQueue(n)'
    BY <2>1, <2>3 DEF InQueue, Listed
  <2>5. Markets' /\ Boards'
    BY <2>1 DEF RankInv, Markets, Boards, Backed
  <2> QED
    BY <2>1, <2>2, <2>4, <2>5 DEF RankInv, Queued, LeadersSoFar, TrailersSoFar
<1>3. ASSUME NEW p \in Running, Rebuild(p)
      PROVE  RankInv'
  <2>1. UNCHANGED <<scenario, market, now, positions, cache, turn, queue, exits, entries>>
    BY <1>3 DEF Rebuild, turnVars
  <2>2. turn = Nobody /\ Listed' = Listed
    BY <1>3, <2>1 DEF Rebuild, Listed
  <2> QED
    BY <2>1, <2>2
       DEF RankInv, Markets, Boards, Backed, Queued, LeadersSoFar, TrailersSoFar
<1>4. ASSUME NEW advice \in SUBSET Advised, Ask(advice)
      PROVE  RankInv'
  BY <1>4, AskKeeps
<1>5. CASE Trade
  <2>1. /\ scenario' = scenario /\ market' = market /\ now' = now /\ cache' = cache
        /\ turn' = Nobody /\ queue' = queue /\ queue = <<>> /\ exits' = {} /\ Listed' = Listed
    BY <1>5 DEF Trade, Listed
  <2>2. Markets' /\ Boards'
    BY <2>1 DEF RankInv, Markets, Boards, Backed
  <2> QED
    BY <2>1, <2>2 DEF RankInv, Queued, LeadersSoFar, TrailersSoFar
<1>6. CASE Restart
  <2>1. /\ UNCHANGED <<scenario, market, now, turn, queue, exits>>
        /\ turn = Nobody /\ cache' = NoCache /\ Listed' = Listed
    BY <1>6 DEF Restart, turnVars, Listed
  <2>2. \A k \in Rankings : Backed(k, EmptyRanks)'
    BY DEF Backed, EmptyRanks, EmptyBoard
  <2>3. Boards'
    BY <2>1, <2>2 DEF Boards, NoCache
  <2>4. Markets'
    BY <2>1 DEF RankInv, Markets
  <2> QED
    BY <2>1, <2>3, <2>4 DEF RankInv, Queued, LeadersSoFar, TrailersSoFar
<1>7. CASE UNCHANGED vars
  <2>1. UNCHANGED <<scenario, market, now, positions, cache, turn, queue, exits, entries>>
    BY <1>7 DEF vars
  <2>2. /\ Listed' = Listed /\ Held(turn)' = Held(turn) /\ Ensemble(turn)' = Ensemble(turn)
        /\ \A m : /\ Reading(m)' = Reading(m) /\ InQueue(m)' = InQueue(m)
                  /\ Ahead("xstmc", m)' = Ahead("xstmc", m)
                  /\ Ahead("eyc", m)' = Ahead("eyc", m)
    BY <2>1 DEF Listed, Held, Ensemble, Reading, Ahead, InQueue
  <2>3. Markets' /\ Boards' /\ Queued'
    BY <2>1, <2>2 DEF RankInv, Markets, Boards, Backed, Queued
  <2>4. LeadersSoFar' /\ TrailersSoFar'
    BY <2>1, <2>2 DEF RankInv, LeadersSoFar, TrailersSoFar
  <2> QED
    BY <2>3, <2>4 DEF RankInv
<1> QED
  BY <1>1, <1>2, <1>3, <1>4, <1>5, <1>6, <1>7 DEF Next

LEMMA RankInvariant == Spec => []RankInv
  BY RankInvInit, RankInvStep, PTL DEF Spec

-------------------------------------------------------------------------------
(* The theorems.                                                           *)

\* For every number of portfolios, subnets and ties, and whoever fed the
\* board before: xstmc signals every subnet that passes its gates and has
\* fewer than xstmc_top_k subnets ahead of it at its tick.
THEOREM LeadersNeverPassedOver == Spec => []LeadersSignalled
<1>1. RankInv => LeadersSignalled
  BY DEF RankInv, LeadersSoFar, LeadersSignalled, Decided, InQueue
<1> QED
  BY <1>1, RankInvariant, PTL

\* For every number of portfolios, subnets and ties: eyc sells a position for
\* its rank only if at least twice eyc_top_k subnets were ahead of it.
THEOREM RankExitsDeserved == Spec => []RankExitsTrail
<1>1. RankInv => RankExitsTrail
  BY DEF RankInv, TrailersSoFar, RankExitsTrail, Decided
<1> QED
  BY <1>1, RankInvariant, PTL

-------------------------------------------------------------------------------
(* Fresh positions.                                                        *)

\* The strategies of Steady that stop and take profits.
Bracketed == {"lam", "pdmr", "xmvb", "sfb", "wsi", "rcb", "rlb"}

Averages == {ColdEma} \cup [n : Nat \ {0}, short : Nat, long : Nat]

\* A rising trend the price leads.
Leads(ema, price) == ema.n > 0 => ema.long <= ema.short /\ ema.short <= price

\* What the entry question of a strategy leaves its exit question to see.
Promise(s, r, ema) ==
  /\ s # "drain_exit"
  /\ s \in Bracketed => DeeperThan(r, 200)
  /\ s \in {"mean_reversion", "pdmr"} => Known({r.z}) /\ r.z < 0
  /\ s = "stake_velocity" => Known({r.sv24, r.pm24}) /\ r.sv24 > 30 /\ r.pm24 < 10
  /\ s = "rlb" => Leads(ema, Price(r))

LEMMA PriceNat ==
  ASSUME NEW r \in Readings
  PROVE  Price(r) \in Nat
<1>1. r.tao \in Nat /\ r.alpha \in Nat
  BY DEF Readings
<1>2. r.alpha > 0 => (1000 * r.tao) \div r.alpha \in Nat
  BY <1>1, Quotient
<1> QED
  BY <1>2 DEF Price, LivePool

\* An average moves towards the price, the short one no slower.
LEMMA Smoothed ==
  ASSUME NEW a \in Nat, NEW price \in Nat, NEW span \in Nat \ {0}
  PROVE  LET next == (2 * price + (span - 1) * a) \div (span + 1)
         IN  /\ next \in Nat
             /\ a <= price => a <= next /\ next <= price
             /\ \A b \in Nat : b * (span + 1) <= 2 * price + (span - 1) * a => b <= next
<1> DEFINE sum == 2 * price + (span - 1) * a
           next == sum \div (span + 1)
<1>1. span - 1 \in Nat /\ span + 1 \in Nat \ {0}
  OBVIOUS
<1>2. (span - 1) * a \in Nat /\ sum \in Nat
  BY <1>1, ProductNat
<1>3. next \in Nat /\ next * (span + 1) <= sum
  BY <1>1, <1>2, Quotient
<1>4. ASSUME NEW b \in Nat, b * (span + 1) <= sum PROVE b <= next
  BY <1>1, <1>2, <1>4, QuotientGreatest
<1>5. ASSUME a <= price PROVE a * (span + 1) <= sum /\ sum <= price * (span + 1)
  <2>1. a * (span + 1) = (span - 1) * a + 2 * a
    BY Z3
  <2>2. price * (span + 1) = (span - 1) * price + 2 * price
    BY Z3
  <2>3. (span - 1) * a <= (span - 1) * price /\ (span - 1) * price \in Nat
    <3>1. \A k, m, n \in Nat : m <= n => k * m <= k * n
      BY Z3
    <3> QED
      BY <1>1, <1>5, <3>1, ProductNat
  <2> QED
    BY <1>2, <1>5, <2>1, <2>2, <2>3
<1> HIDE DEF next, sum
<1>6. ASSUME a <= price PROVE next <= price
  <2>1. next * (span + 1) <= price * (span + 1)
    <3>1. next * (span + 1) \in Nat /\ price * (span + 1) \in Nat
      BY <1>1, <1>3, ProductNat
    <3> QED
      BY <1>2, <1>3, <1>5, <1>6, <3>1
  <2>2. \A m, n \in Nat, d \in Nat \ {0} : m * d <= n * d => m <= n
    BY Z3
  <2> QED
    BY <1>1, <1>3, <2>1, <2>2
<1> QED
  BY <1>3, <1>4, <1>5, <1>6 DEF next, sum

LEMMA AverageStep ==
  ASSUME NEW ema \in Averages, NEW price \in Nat
  PROVE  /\ EmaStep(ema, price) \in Averages
         /\ Leads(ema, price) => Leads(EmaStep(ema, price), price)
<1> DEFINE next == EmaStep(ema, price)
<1>1. ShortSpan \in Nat \ {0} /\ LongSpan \in Nat \ {0} /\ ShortSpan <= LongSpan
      /\ Unknown \notin Int
  BY RulesAssumption
<1>2. ema.n \in Nat
  BY DEF Averages, ColdEma
<1>3. Min({ema.n + 1, Max({ShortSpan, LongSpan})}) \in Nat \ {0}
  <2>1. Max({ShortSpan, LongSpan}) \in {ShortSpan, LongSpan}
    BY <1>1, GreatestElement
  <2>2. Min({ema.n + 1, Max({ShortSpan, LongSpan})}) \in {ema.n + 1, Max({ShortSpan, LongSpan})}
    BY <1>1, <1>2, <2>1, SmallestElement
  <2> QED
    BY <1>1, <1>2, <2>1, <2>2
<1>4. CASE ema = ColdEma
  <2>1. Smooth(ema.short, price, ShortSpan) = price /\ Smooth(ema.long, price, LongSpan) = price
    BY <1>4 DEF ColdEma, Smooth
  <2>2. next.short = price /\ next.long = price /\ next \in Averages
    BY <1>3, <2>1 DEF EmaStep, Averages
  <2> QED
    BY <2>2 DEF Leads
<1>5. CASE ema \in [n : Nat \ {0}, short : Nat, long : Nat]
  <2> DEFINE a == ema.short
             b == ema.long
             short == (2 * price + (ShortSpan - 1) * a) \div (ShortSpan + 1)
             long == (2 * price + (LongSpan - 1) * b) \div (LongSpan + 1)
  <2>1. a \in Nat /\ b \in Nat /\ ema.n > 0 /\ a # Unknown /\ b # Unknown
    BY <1>1, <1>5
  <2>2. Smooth(a, price, ShortSpan) = short /\ Smooth(b, price, LongSpan) = long
    BY <2>1 DEF Smooth
  <2>3. short \in Nat /\ long \in Nat
    BY <1>1, <2>1, Smoothed
  <2>4. next.short = short /\ next.long = long /\ next \in Averages
    BY <1>3, <2>2, <2>3 DEF EmaStep, Averages
  <2>5. ASSUME b <= a, a <= price PROVE long <= short /\ short <= price
    <3>1. short <= price /\ b <= long /\ long <= price
      <4>1. b <= price
        BY <2>1, <2>5
      <4>2. short <= price
        BY <1>1, <2>1, <2>5, Smoothed
      <4>3. b <= long /\ long <= price
        BY <1>1, <2>1, <4>1, Smoothed
      <4> QED
        BY <4>2, <4>3
    <3>2. long * (LongSpan + 1) <= 2 * price + (LongSpan - 1) * b
      <4>1. LongSpan - 1 \in Nat /\ LongSpan + 1 \in Nat \ {0}
        BY <1>1
      <4>2. 2 * price + (LongSpan - 1) * b \in Nat
        BY <2>1, <4>1, ProductNat
      <4> QED
        BY <4>1, <4>2, Quotient
    <3> HIDE DEF long, short, a, b
    <3>3. \A k, m, n \in Nat : m <= n => k * m <= k * n
      BY Z3
    <3>4. (LongSpan - ShortSpan) * b <= (LongSpan - ShortSpan) * long
          /\ (ShortSpan - 1) * b <= (ShortSpan - 1) * a
      BY <1>1, <2>1, <2>3, <2>5, <3>1, <3>3
    <3>5. /\ long * (LongSpan + 1) = long * (ShortSpan + 1) + (LongSpan - ShortSpan) * long
          /\ (LongSpan - 1) * b = (ShortSpan - 1) * b + (LongSpan - ShortSpan) * b
      BY <1>1, <2>1, <2>3, Z3
    <3>6. /\ long * (ShortSpan + 1) \in Nat /\ (ShortSpan - 1) * a \in Nat
          /\ (ShortSpan - 1) * b \in Nat /\ (LongSpan - ShortSpan) * b \in Nat
          /\ (LongSpan - ShortSpan) * long \in Nat
      BY <1>1, <2>1, <2>3, ProductNat
    <3>7. long * (ShortSpan + 1) <= 2 * price + (ShortSpan - 1) * a
      BY <3>2, <3>4, <3>5, <3>6
    <3>8. long <= short
      BY <1>1, <2>1, <2>3, <3>7, Smoothed DEF short
    <3> QED
      BY <3>1, <3>8
  <2> HIDE DEF next, short, long
  <2> QED
    <3>1. Leads(ema, price) => b <= a /\ a <= price
      BY <2>1 DEF Leads
    <3>2. long <= short /\ short <= price => Leads(next, price)
      BY <2>4 DEF Leads
    <3>3. Leads(ema, price) => Leads(next, price)
      BY <2>5, <3>1, <3>2
    <3> QED
      BY <2>4, <3>3 DEF next
<1> QED
  BY <1>4, <1>5 DEF Averages

\* The most a portfolio stakes, and what the sale of it brings.
LEMMA StakeOf ==
  ASSUME NEW r \in Readings, DeeperThan(r, 200)
  PROVE  LargestStake(r) \in Nat \ {0} /\ 50 * LargestStake(r) <= r.tao /\ r.tao \in Nat \ {0}
<1> DEFINE x == (PoolPct * r.tao) \div 100
<1>1. r.tao \in Nat /\ r.tao > 20000 /\ PoolPct \in 1 .. 2
  BY StakeAssumption DEF DeeperThan, Readings
<1>2. PoolPct * r.tao \in Nat /\ PoolPct * r.tao <= 2 * r.tao /\ PoolPct * r.tao >= r.tao
  BY <1>1
<1>3. x \in Nat /\ x * 100 <= PoolPct * r.tao
  BY <1>2, Quotient
<1>4. 1 <= x
  <2>1. 1 * 100 <= PoolPct * r.tao
    BY <1>1, <1>2
  <2> QED
    BY <1>2, <2>1, QuotientGreatest
<1> HIDE DEF x
<1>5. x \in Nat \ {0} /\ 50 * x <= r.tao
  BY <1>1, <1>2, <1>3, <1>4
<1> QED
  BY <1>1, <1>5 DEF LargestStake, Percent, x

LEMMA BracketKeeps ==
  ASSUME NEW r \in Readings, Fine(r), DeeperThan(r, 200), NEW s \in Bracketed
  PROVE  ~BracketExit(s, Opened(s, r, LargestStake(r)), r)
<1> DEFINE x == LargestStake(r)
           pos == Opened(s, r, x)
           v == Value(pos, r)
<1>1. x \in Nat \ {0} /\ 50 * x <= r.tao /\ r.tao \in Nat \ {0}
  BY StakeOf
<1>2. r.stamp \in Nat /\ r.alpha \in Nat
  BY DEF Readings
<1>3. pos.stamp = r.stamp /\ pos.tao = x /\ pos.alpha = BuyAlpha(x, r.tao, r.alpha)
  BY DEF Opened
<1>4. v = SellTao(BuyAlpha(x, r.tao, r.alpha), r.tao, r.alpha)
  BY <1>3 DEF Value
<1>5. v <= x /\ v \in Nat
  <2>1. BuyAlpha(x, r.tao, r.alpha) \in Nat
    <3>1. (r.alpha * x) \div (r.tao + x) \in Nat
      BY <1>1, <1>2, ProductNat, Quotient
    <3> QED
      BY <3>1 DEF BuyAlpha
  <2>2. SellTao(BuyAlpha(x, r.tao, r.alpha), r.tao, r.alpha) \in Nat
    <3> DEFINE a == BuyAlpha(x, r.tao, r.alpha)
    <3>1. a > 0 => (r.tao * a) \div (r.alpha + a) \in Nat
      BY <1>1, <1>2, <2>1, ProductNat, Quotient
    <3> HIDE DEF a
    <3> QED
      BY <3>1 DEF SellTao, a
  <2> QED
    BY <1>1, <1>2, <1>4, <2>2, RoundTripLoses
<1>6. LivePool(r.tao, r.alpha) => 24 * x < 25 * v
  <2> SUFFICES ASSUME LivePool(r.tao, r.alpha) PROVE 24 * x < 25 * v
    OBVIOUS
  <2>1. 650 * (r.alpha + r.tao + x) <= r.alpha * x /\ r.alpha \in Nat \ {0}
    BY <1>2 DEF Fine, LivePool
  <2> HIDE DEF x, v
  <2> QED
    BY <1>1, <1>4, <2>1, RoundTripKeeps
<1>7. Hold[s] \in Nat \ {0} /\ Stop[s] \in Int /\ Stop[s] <= -40
      /\ (s \in DOMAIN TakeProfit => TakeProfit[s] \in Nat \ {0})
  BY DEF Bracketed, Hold, Stop, TakeProfit
<1> HIDE DEF x, pos, v
<1>8. ~HeldFor(pos, r, Hold[s])
  BY <1>2, <1>3, <1>7 DEF HeldFor
<1>9. LivePool(r.tao, r.alpha) => ~AtMost(pos, r, Stop[s])
  <2>1. \A k \in Int : k <= -40 => k * x <= -40 * x
    BY <1>1, Z3
  <2>2. Stop[s] * x <= -40 * x /\ Stop[s] * x \in Int
    BY <1>1, <1>7, <2>1
  <2>3. AtMost(pos, r, Stop[s]) <=> 1000 * (v - x) <= Stop[s] * x
    BY <1>3 DEF AtMost, v
  <2> QED
    BY <1>1, <1>5, <1>6, <2>2, <2>3
<1>10. s \in DOMAIN TakeProfit => ~AtLeast(pos, r, TakeProfit[s])
  <2> SUFFICES ASSUME s \in DOMAIN TakeProfit PROVE ~AtLeast(pos, r, TakeProfit[s])
    OBVIOUS
  <2>1. \A k \in Nat \ {0} : k * x > 0 /\ k * x \in Int
    BY <1>1, Z3
  <2>2. TakeProfit[s] * x > 0 /\ TakeProfit[s] * x \in Int
    BY <1>7, <2>1
  <2>3. AtLeast(pos, r, TakeProfit[s]) <=> 1000 * (v - x) >= TakeProfit[s] * x
    BY <1>3 DEF AtLeast, v
  <2> QED
    BY <1>1, <1>5, <2>2, <2>3
<1> QED
  BY <1>8, <1>9, <1>10 DEF BracketExit, pos, x

\* A strategy that enters has seen what it promises.
LEMMA EntryPromises ==
  ASSUME NEW s, NEW n, NEW r \in Readings, NEW c, NEW advice, c.emas[n] \in Averages,
         Enters(s, n, r, c, advice)
  PROVE  Promise(s, r, c.emas[n])
<1>1. /\ r.tao \in Nat /\ r.z \in Int \cup {Unknown} /\ r.vol \in Int \cup {Unknown}
      /\ r.sv24 \in Int \cup {Unknown} /\ r.pm24 \in Int \cup {Unknown}
  BY DEF Readings, Feature
<1>2. s # "drain_exit"
  BY DEF Enters
<1>3. s \in Bracketed => DeeperThan(r, 200)
  BY <1>1 DEF Enters, Bracketed, LamEntry, PdmrEntry, XmvbEntry, SfbEntry, WsiEntry,
     RcbEntry, RlbEntry, DeeperThan
<1>4. s \in {"mean_reversion", "pdmr"} => Known({r.z}) /\ r.z < 0
  <2>1. s = "mean_reversion" => Known({r.z}) /\ r.z < -15
    BY DEF Enters, MeanReversionEntry, Known
  <2>2. s = "pdmr" => Known({r.z}) /\ r.z < -20
    BY DEF Enters, PdmrEntry, Known
  <2> QED
    BY <1>1, <2>1, <2>2 DEF Known
<1>5. s = "stake_velocity" => Known({r.sv24, r.pm24}) /\ r.sv24 > 30 /\ r.pm24 < 10
  BY DEF Enters, StakeVelocityEntry, Known
<1>6. s = "rlb" => Leads(c.emas[n], Price(r))
  <2> SUFFICES ASSUME s = "rlb" PROVE Leads(c.emas[n], Price(r))
    OBVIOUS
  <2> DEFINE ema == c.emas[n]
             price == Price(r)
  <2>1. /\ Known({r.vol}) /\ r.vol > 0 /\ ema.n >= ShortSpan /\ ema.short > ema.long
        /\ 10000 * (price - ema.short) > 7 * r.vol * price
    BY DEF Enters, RlbEntry
  <2>2. ema.n > 0 /\ ema.short \in Nat /\ ema.long \in Nat
    <3>1. ShortSpan \in Nat \ {0}
      BY RulesAssumption
    <3>2. ema # ColdEma
      BY <2>1, <3>1 DEF ColdEma
    <3> QED
      BY <3>2 DEF Averages
  <2>3. price \in Nat
    BY PriceNat
  <2> HIDE DEF ema, price
  <2>4. 7 * r.vol * price >= 0 /\ 7 * r.vol * price \in Int
    <3>1. r.vol \in Nat
      BY <1>1, <2>1 DEF Known
    <3> QED
      BY <2>3, <3>1, Z3
  <2>5. ema.short < price
    BY <2>1, <2>2, <2>3, <2>4
  <2> QED
    BY <2>1, <2>2, <2>3, <2>5 DEF Leads, ema, price
<1> QED
  BY <1>2, <1>3, <1>4, <1>5, <1>6 DEF Promise

\* The exit questions of a steady strategy on the reading it bought on.
LEMMA PromiseKept ==
  ASSUME NEW s \in Steady, NEW n, NEW r \in Readings, Fine(r), NEW c, NEW advice,
         c.emas[n] \in Averages, Promise(s, r, c.emas[n]), NEW drain,
         NEW t \in {s, "drain_exit"}
  PROVE  ~Leaves(t, n, r, c, Opened(s, r, LargestStake(r)), drain, advice)
<1> DEFINE pos == Opened(s, r, LargestStake(r))
<1>1. /\ r.stamp \in Nat /\ pos.stamp = r.stamp /\ pos.strategy = s
      /\ r.z \in Int \cup {Unknown} /\ r.sv24 \in Int \cup {Unknown}
      /\ r.pm24 \in Int \cup {Unknown}
  BY DEF Readings, Feature, Opened
<1>2. s \in Bracketed => ~BracketExit(s, pos, r)
  BY BracketKeeps DEF Promise
<1>3. \A h \in Nat \ {0} : ~HeldFor(pos, r, h)
  BY <1>1 DEF HeldFor
<1> HIDE DEF pos
<1>4. ~DrainExit(pos, r, drain)
  BY <1>3 DEF DrainExit
<1>5. ASSUME s \in {"lam", "xmvb", "sfb", "wsi", "rcb"}, t = s
      PROVE  ~Leaves(t, n, r, c, pos, drain, advice)
  <2>1. ~BracketExit(s, pos, r)
    BY <1>2, <1>5 DEF Bracketed
  <2> QED
    BY <1>5, <2>1 DEF Leaves, LamExit, XmvbExit, SfbExit, WsiExit, RcbExit
<1>6. ASSUME s = "pdmr", t = s PROVE ~Leaves(t, n, r, c, pos, drain, advice)
  <2>1. ~BracketExit("pdmr", pos, r) /\ Known({r.z}) /\ r.z < 0
    BY <1>2, <1>6 DEF Bracketed, Promise
  <2>2. ~(r.z > 0)
    BY <1>1, <2>1 DEF Known
  <2> QED
    BY <1>6, <2>1, <2>2 DEF Leaves, PdmrExit
<1>7. ASSUME s = "rlb", t = s PROVE ~Leaves(t, n, r, c, pos, drain, advice)
  <2>1. ~BracketExit("rlb", pos, r) /\ Leads(c.emas[n], Price(r))
    BY <1>2, <1>7 DEF Bracketed, Promise
  <2>2. ~TrendFlipped(c.emas[n])
    BY <2>1 DEF TrendFlipped, Leads, Averages, ColdEma
  <2> QED
    BY <1>7, <2>1, <2>2 DEF Leaves, RlbExit
<1>8. ASSUME s = "mean_reversion", t = s PROVE ~Leaves(t, n, r, c, pos, drain, advice)
  <2>1. Known({r.z}) /\ r.z < 0
    BY <1>8 DEF Promise
  <2>2. ~(r.z > 0) /\ ~HeldFor(pos, r, DefaultHold)
    BY <1>1, <1>3, <2>1 DEF Known, DefaultHold
  <2> QED
    BY <1>8, <2>2 DEF Leaves, MeanReversionExit
<1>9. ASSUME s = "stake_velocity", t = s PROVE ~Leaves(t, n, r, c, pos, drain, advice)
  <2>1. Known({r.sv24, r.pm24}) /\ r.sv24 > 30 /\ r.pm24 < 10
    BY <1>9 DEF Promise
  <2>2. ~(r.sv24 < -20) /\ ~(r.pm24 > 100) /\ ~HeldFor(pos, r, DefaultHold)
    BY <1>1, <1>3, <2>1 DEF Known, DefaultHold
  <2> QED
    BY <1>9, <2>2 DEF Leaves, StakeVelocityExit
<1>10. ASSUME t = "drain_exit" PROVE ~Leaves(t, n, r, c, pos, drain, advice)
  BY <1>4, <1>10 DEF Leaves
<1> QED
  BY <1>5, <1>6, <1>7, <1>8, <1>9, <1>10 DEF Steady, pos

Promising(s, n) == Promise(s, Reading(n), cache.emas[n])

Books ==
  /\ positions = [p \in Portfolios |-> [n \in Netuids |-> positions[p][n]]]
  /\ \A p \in Portfolios, n \in Netuids :
       positions[p][n] # NoPosition =>
         positions[p][n].stamp \in Nat /\ positions[p][n].stamp <= now

ReadingsFine == \A n \in Listed : Reading(n).stamp <= now /\ Fine(Reading(n))

Averaged ==
  /\ cache.emas = [n \in Netuids |-> cache.emas[n]]
  /\ \A n \in Netuids : cache.emas[n] \in Averages

\* Opened on the reading the subnet still has.
Fresh(p, n) ==
  positions[p][n] # NoPosition /\ positions[p][n].stamp >= Reading(n).stamp

FreshOnes ==
  \A p \in Portfolios, n \in Listed :
    Fresh(p, n) =>
      \E s \in Ensemble(p) :
        /\ positions[p][n] = Opened(s, Reading(n), LargestStake(Reading(n)))
        /\ Promising(s, n)

Steadily == \E s \in Steady : scenario.ensemble[turn] = {s}

\* What is signalled for purchase is promising still when it is bought, and
\* what is signalled for sale is not fresh.
Signals ==
  /\ turn = Nobody => entries = {}
  /\ turn # Nobody =>
       /\ turn \in Portfolios
       /\ \A e \in entries :
            \E n \in Listed, s \in Ensemble(turn) : e = <<n, s>> /\ Promising(s, n)
       /\ \A e \in exits :
            \E n \in Listed, s \in Ensemble(turn) :
              /\ e = <<n, s>> /\ positions[turn][n] # NoPosition
              /\ Steadily => ~Fresh(turn, n)

FreshInv == Books /\ ReadingsFine /\ Averaged /\ FreshOnes /\ Signals

LEMMA FreshInvInit == Init => FreshInv
<1> SUFFICES ASSUME Init PROVE FreshInv
  OBVIOUS
<1>1. PICK first \in OneEach(Listed) :
        market = [n \in Netuids |-> IF n \in Listed THEN <<Stamped(first[n], 0)>> ELSE <<>>]
  BY DEF Init
<1>2. Listed \subseteq Netuids /\ now = 0 /\ scenario \in Scenarios
  BY FewListed DEF Init
<1>3. ASSUME NEW n \in Listed
      PROVE  Reading(n) = Stamped(first[n], 0) /\ first[n] \in Readings /\ Fine(first[n])
  <2>1. Reading(n) = Stamped(first[n], 0)
    BY <1>1, <1>2 DEF Reading, Last
  <2>2. PICK i \in DOMAIN scenario.order : n = scenario.order[i]
    BY DEF Listed
  <2>3. first[n] \in scenario.bars[n]
    BY DEF OneEach
  <2> QED
    BY <1>2, <2>1, <2>2, <2>3, ScenariosAssumption, StakeAssumption
<1>4. ReadingsFine
  <2> SUFFICES ASSUME NEW n \in Listed PROVE Reading(n).stamp <= now /\ Fine(Reading(n))
    BY DEF ReadingsFine
  <2>1. Reading(n).stamp = 0 /\ Reading(n).tao = first[n].tao /\ Reading(n).alpha = first[n].alpha
    BY <1>3 DEF Stamped, Readings
  <2> QED
    BY <1>2, <1>3, <2>1 DEF Fine, DeeperThan, LargestStake
<1>5. \A p \in Portfolios, n \in Netuids : positions[p][n] = NoPosition
  BY DEF Init
<1>6. Books /\ FreshOnes
  BY <1>2, <1>5 DEF Init, Books, FreshOnes, Fresh
<1>7. Averaged
  BY DEF Init, Averaged, NoCache, Averages
<1>8. Signals
  BY DEF Init, Signals
<1> QED
  BY <1>4, <1>6, <1>7, <1>8 DEF FreshInv

\* What the market and the books of the other steps leave as it is.
LEMMA SameReadings ==
  ASSUME scenario' = scenario, market' = market
  PROVE  /\ Listed' = Listed
         /\ \A n : Reading(n)' = Reading(n)
         /\ \A p : Ensemble(p)' = Ensemble(p)
  BY DEF Listed, Reading, Ensemble

\* After a publication nothing is fresh where it brought a reading.
LEMMA PublishFresh ==
  ASSUME RankInv, FreshInv, NEW gap \in scenario.gaps, NEW who \in Pollings, Publish(gap, who)
  PROVE  FreshInv'
<1>1. /\ scenario' = scenario /\ cache' = cache /\ positions' = positions
      /\ turn' = Nobody /\ turn = Nobody /\ entries' = entries /\ now' = now + gap
      /\ Listed' = Listed /\ \A p : Ensemble(p)' = Ensemble(p)
  BY DEF Publish, turnVars, Listed, Ensemble
<1>2. who \subseteq Listed
  BY DEF Pollings
<1>3. now \in Nat /\ now' \in Nat /\ now' > now /\ scenario \in Scenarios
  BY <1>1, ScenariosAssumption DEF RankInv, Markets
<1>4. PICK bars \in OneEach(who) :
        market' = [n \in Netuids |->
                     IF n \in who THEN Append(market[n], Stamped(bars[n], now')) ELSE market[n]]
  BY DEF Publish
<1>5. Listed \subseteq Netuids
  BY FewListed DEF RankInv, Markets
<1>6. ASSUME NEW n \in Listed, n \in who
      PROVE  Reading(n)'.stamp = now' /\ Fine(Reading(n)')
  <2>1. PICK i \in DOMAIN scenario.order : n = scenario.order[i]
    BY DEF Listed
  <2>2. bars[n] \in scenario.bars[n]
    BY <1>6 DEF OneEach
  <2>3. bars[n] \in Readings /\ Fine(bars[n])
    BY <1>3, <2>1, <2>2, ScenariosAssumption, StakeAssumption
  <2>4. market[n] \in Seq(Readings)
    BY DEF RankInv, Markets
  <2>5. Stamped(bars[n], now') \in Readings
    BY <1>3, <2>3 DEF Stamped, Readings
  <2>6. Reading(n)' = Stamped(bars[n], now')
    <3>1. market'[n] = Append(market[n], Stamped(bars[n], now'))
      BY <1>4, <1>5, <1>6
    <3> QED
      BY <2>4, <2>5, <3>1 DEF Reading, Last
  <2>7. /\ Reading(n)'.stamp = now' /\ Reading(n)'.tao = bars[n].tao
        /\ Reading(n)'.alpha = bars[n].alpha
    BY <2>3, <2>6 DEF Stamped, Readings
  <2> QED
    BY <2>3, <2>7 DEF Fine, DeeperThan, LargestStake
<1>7. ASSUME NEW n \in Listed, n \notin who
      PROVE  Reading(n)' = Reading(n)
  BY <1>4, <1>5, <1>7 DEF Reading
<1>8. ReadingsFine'
  <2> SUFFICES ASSUME NEW n \in Listed PROVE (Reading(n)').stamp <= now' /\ Fine(Reading(n)')
    BY <1>1 DEF ReadingsFine
  <2>1. CASE n \in who
    BY <1>3, <1>6, <2>1
  <2>2. CASE n \notin who
    <3>1. Reading(n).stamp <= now /\ Fine(Reading(n)) /\ Reading(n).stamp \in Nat
      BY ReadingOf DEF FreshInv, ReadingsFine, RankInv, Readings
    <3> QED
      BY <1>3, <1>7, <2>2, <3>1
  <2> QED
    BY <2>1, <2>2
<1>9. Books'
  BY <1>1, <1>3 DEF FreshInv, Books
<1>10. FreshOnes'
  <2> SUFFICES ASSUME NEW p \in Portfolios, NEW n \in Listed, Fresh(p, n)'
               PROVE  \E s \in Ensemble(p) :
                        /\ positions[p][n] = Opened(s, Reading(n)', LargestStake(Reading(n)'))
                        /\ Promising(s, n)'
    BY <1>1 DEF FreshOnes
  <2>1. positions[p][n] # NoPosition /\ positions[p][n].stamp >= Reading(n)'.stamp
    BY <1>1 DEF Fresh
  <2>2. positions[p][n].stamp \in Nat /\ positions[p][n].stamp <= now
    BY <1>5, <2>1 DEF FreshInv, Books
  <2>3. n \notin who
    BY <1>3, <1>6, <2>1, <2>2
  <2>4. Reading(n)' = Reading(n)
    BY <1>7, <2>3
  <2>5. \A s : Promising(s, n)' = Promising(s, n)
    BY <1>1, <2>4 DEF Promising
  <2>6. Fresh(p, n)
    BY <2>1, <2>4 DEF Fresh
  <2> QED
    BY <2>4, <2>5, <2>6 DEF FreshInv, FreshOnes
<1>11. Averaged' /\ Signals'
  BY <1>1 DEF FreshInv, Averaged, Signals
<1> QED
  BY <1>8, <1>9, <1>10, <1>11 DEF FreshInv

\* A question may feed the averages of its subnet the reading they have; what
\* is promising stays so.
LEMMA AskAverages ==
  ASSUME RankInv, FreshInv, NEW advice, Ask(advice)
  PROVE  /\ Averaged'
         /\ \A m \in Listed : \A s : Promising(s, m) => Promising(s, m)'
<1>0. PICK n \in Listed : n = Head(queue)
  BY Asked
<1> DEFINE r     == Reading(n)
           pos   == positions[turn][n]
           asked == {s \in Ensemble(turn) : CanRun(s, r)}
<1>1. /\ n \in Listed /\ r \in Readings
      /\ scenario' = scenario /\ market' = market
      /\ cache' = IF pos = NoPosition THEN FedByEntry(cache, asked, n, r)
                  ELSE FedByExit(cache, asked, n, r, pos)
  BY <1>0, Asked
<1>2. cache = [ranks |-> cache.ranks, prices |-> cache.prices,
               flows |-> cache.flows, emas |-> cache.emas]
  BY DEF RankInv, Boards
<1>3. FedByExit(cache, asked, n, r, pos).emas = cache.emas
  BY <1>2 DEF FedByExit
<1>4. FedByEntry(cache, asked, n, r).emas
        = IF "rlb" \in asked /\ Price(r) > 0
          THEN [cache.emas EXCEPT ![n] = EmaStep(@, Price(r))] ELSE cache.emas
  BY DEF FedByEntry
<1>5. \/ cache'.emas = cache.emas
      \/ cache'.emas = [cache.emas EXCEPT ![n] = EmaStep(@, Price(r))]
  BY <1>1, <1>3, <1>4
<1>6. Listed \subseteq Netuids
  BY FewListed DEF RankInv, Markets
<1>7. /\ cache.emas = [m \in Netuids |-> cache.emas[m]]
      /\ \A m \in Netuids : cache.emas[m] \in Averages
  BY DEF FreshInv, Averaged
<1>8. Reading(n)' = r /\ \A m : Reading(m)' = Reading(m)
  BY <1>1, SameReadings
<1>9. EmaStep(cache.emas[n], Price(r)) \in Averages
      /\ (Leads(cache.emas[n], Price(r)) => Leads(EmaStep(cache.emas[n], Price(r)), Price(r)))
  BY <1>1, <1>6, <1>7, PriceNat, AverageStep
<1> HIDE DEF r
<1>10. CASE cache'.emas = cache.emas
  <2>1. Averaged'
    BY <1>7, <1>10 DEF Averaged
  <2>2. \A m \in Listed : \A s : Promising(s, m)' = Promising(s, m)
    BY <1>8, <1>10 DEF Promising
  <2> QED
    BY <2>1, <2>2
<1>11. CASE cache'.emas = [cache.emas EXCEPT ![n] = EmaStep(@, Price(r))]
  <2>1. /\ cache'.emas[n] = EmaStep(cache.emas[n], Price(r))
        /\ \A m \in Netuids \ {n} : cache'.emas[m] = cache.emas[m]
        /\ cache'.emas = [m \in Netuids |-> cache'.emas[m]]
    BY <1>1, <1>6, <1>7, <1>11
  <2>2. Averaged'
    BY <1>7, <1>9, <2>1 DEF Averaged
  <2>3. ASSUME NEW m \in Listed, NEW s, Promising(s, m) PROVE Promising(s, m)'
    <3>1. CASE m = n
      <4>1. Reading(m) = r
        BY <3>1 DEF r
      <4>2. Promise(s, r, cache.emas[n]) => Promise(s, r, cache'.emas[n])
        BY <1>9, <2>1 DEF Promise
      <4> QED
        BY <1>8, <2>3, <3>1, <4>1, <4>2 DEF Promising
    <3>2. CASE m # n
      <4>1. cache'.emas[m] = cache.emas[m] /\ Reading(m)' = Reading(m)
        BY <1>6, <1>8, <2>1, <3>2
      <4> QED
        BY <2>3, <4>1 DEF Promising
    <3> QED
      BY <3>1, <3>2
  <2> QED
    BY <2>2, <2>3
<1> QED
  BY <1>5, <1>10, <1>11

\* The new signals of a question.
LEMMA AskSignals ==
  ASSUME RankInv, FreshInv, NEW advice, Ask(advice)
  PROVE  Signals'
<1>0. PICK n \in Listed : n = Head(queue)
  BY Asked
<1> DEFINE r     == Reading(n)
           pos   == positions[turn][n]
           asked == {s \in Ensemble(turn) : CanRun(s, r)}
           drain == DrainUpdate(streak[turn][n], r)
           fed   == IF pos = NoPosition THEN FedByEntry(cache, asked, n, r)
                    ELSE FedByExit(cache, asked, n, r, pos)
<1>1. /\ n \in Listed /\ r \in Readings /\ turn # Nobody /\ turn' = turn
      /\ scenario' = scenario /\ market' = market /\ positions' = positions
      /\ cache' = fed
  BY <1>0, Asked
<1>2. /\ Listed' = Listed /\ \A m : Reading(m)' = Reading(m)
      /\ \A p : Ensemble(p)' = Ensemble(p)
  BY <1>1, SameReadings
<1>3. Averaged' /\ \A m \in Listed : \A s : Promising(s, m) => Promising(s, m)'
  BY AskAverages
<1>4. fed.emas[n] \in Averages
  <2>1. n \in Netuids
    BY <1>1, FewListed DEF RankInv, Markets
  <2> QED
    BY <1>1, <1>3, <2>1 DEF Averaged
<1>5. \/ /\ pos = NoPosition /\ exits' = exits
         /\ entries' = entries \cup {<<n, s>> : s \in {t \in asked : Enters(t, n, r, fed, advice)}}
      \/ /\ pos # NoPosition /\ entries' = entries
         /\ exits' = exits \cup
              {<<n, s>> : s \in {t \in asked : Leaves(t, n, r, fed, pos, drain, advice)}}
  BY <1>0 DEF Ask
<1>6. turn \in Portfolios
  BY <1>1 DEF FreshInv, Signals
<1>7. Steadily' = Steadily /\ \A m \in Listed : Fresh(turn, m)' = Fresh(turn, m)
  BY <1>1, <1>2 DEF Steadily, Fresh
<1> HIDE DEF fed, drain
<1>8. ASSUME NEW e \in entries'
      PROVE  \E m \in Listed, s \in Ensemble(turn) : e = <<m, s>> /\ Promising(s, m)'
  <2>1. CASE e \in entries
    <3>1. PICK m \in Listed, s \in Ensemble(turn) : e = <<m, s>> /\ Promising(s, m)
      BY <1>1, <2>1 DEF FreshInv, Signals
    <3> QED
      BY <1>3, <3>1
  <2>2. CASE e \notin entries
    <3>1. PICK s \in asked : e = <<n, s>> /\ Enters(s, n, r, fed, advice)
      BY <1>5, <1>8, <2>2
    <3>2. Promise(s, r, fed.emas[n])
      BY <1>1, <1>4, <3>1, EntryPromises
    <3>3. Promising(s, n)'
      BY <1>1, <1>2, <3>2 DEF Promising
    <3> QED
      BY <1>1, <3>1, <3>3
  <2> QED
    BY <2>1, <2>2
<1>9. ASSUME Steadily, Fresh(turn, n), NEW t \in asked
      PROVE  ~Leaves(t, n, r, fed, pos, drain, advice)
  <2>1. PICK s \in Ensemble(turn) : pos = Opened(s, r, LargestStake(r)) /\ Promising(s, n)
    BY <1>1, <1>6, <1>9 DEF FreshInv, FreshOnes
  <2>2. PICK steady \in Steady : Ensemble(turn) = {steady, "drain_exit"}
    BY <1>9 DEF Steadily, Ensemble
  <2>3. Promising(s, n)'
    BY <1>1, <1>3, <2>1
  <2>4. Promise(s, r, fed.emas[n])
    BY <1>1, <1>2, <2>3 DEF Promising
  <2>5. s = steady
    BY <2>1, <2>2, <2>4 DEF Promise
  <2>6. t \in {s, "drain_exit"}
    BY <2>2, <2>5
  <2>7. Fine(r)
    BY <1>1 DEF FreshInv, ReadingsFine
  <2>8. s \in Steady
    BY <2>5
  <2> HIDE DEF pos, asked
  <2> QED
    BY <1>1, <1>4, <2>1, <2>4, <2>6, <2>7, <2>8, PromiseKept
<1>10. ASSUME NEW e \in exits'
       PROVE  \E m \in Listed, s \in Ensemble(turn) :
                /\ e = <<m, s>> /\ positions[turn][m] # NoPosition
                /\ Steadily => ~Fresh(turn, m)
  <2>1. CASE e \in exits
    BY <1>1, <2>1 DEF FreshInv, Signals
  <2>2. CASE e \notin exits
    <3>1. PICK t \in asked : pos # NoPosition /\ e = <<n, t>>
                             /\ Leaves(t, n, r, fed, pos, drain, advice)
      BY <1>5, <1>10, <2>2
    <3>2. Steadily => ~Fresh(turn, n)
      BY <1>9, <3>1
    <3> QED
      BY <1>1, <3>1, <3>2
  <2> QED
    BY <2>1, <2>2
<1> QED
  BY <1>1, <1>2, <1>6, <1>7, <1>8, <1>10 DEF Signals

LEMMA AskFresh ==
  ASSUME RankInv, FreshInv, NEW advice, Ask(advice)
  PROVE  FreshInv'
<1>1. /\ scenario' = scenario /\ market' = market /\ positions' = positions /\ now' = now
  BY Asked
<1>2. /\ Listed' = Listed /\ \A m : Reading(m)' = Reading(m)
      /\ \A p : Ensemble(p)' = Ensemble(p)
  BY <1>1, SameReadings
<1>3. Averaged' /\ \A m \in Listed : \A s : Promising(s, m) => Promising(s, m)'
  BY AskAverages
<1>4. Books' /\ ReadingsFine'
  BY <1>1, <1>2 DEF FreshInv, Books, ReadingsFine
<1>5. FreshOnes'
  <2> SUFFICES ASSUME NEW p \in Portfolios, NEW m \in Listed, Fresh(p, m)
               PROVE  \E s \in Ensemble(p) :
                        /\ positions[p][m] = Opened(s, Reading(m), LargestStake(Reading(m)))
                        /\ Promising(s, m)'
    BY <1>1, <1>2 DEF FreshOnes, Fresh
  <2> QED
    BY <1>3 DEF FreshInv, FreshOnes
<1> QED
  BY <1>3, <1>4, <1>5, AskSignals DEF FreshInv

\* What is bought is fresh and promising.
LEMMA TradeFresh ==
  ASSUME RankInv, FreshInv, Trade
  PROVE  FreshInv'
<1>1. /\ scenario' = scenario /\ market' = market /\ now' = now /\ cache' = cache
      /\ turn # Nobody /\ turn' = Nobody /\ entries' = {}
  BY DEF Trade
<1>2. /\ Listed' = Listed /\ \A m : Reading(m)' = Reading(m)
      /\ \A p : Ensemble(p)' = Ensemble(p)
  BY <1>1, SameReadings
<1>3. /\ turn \in Portfolios
      /\ \A e \in entries :
           \E n \in Listed, s \in Ensemble(turn) : e = <<n, s>> /\ Promising(s, n)
  BY <1>1 DEF FreshInv, Signals
<1>4. PICK sold \in SUBSET {e[1] : e \in exits}, bought \in SUBSET {e[1] : e \in entries} :
        \E strategy \in [bought -> {e[2] : e \in entries}] :
          /\ \A n \in bought : <<n, strategy[n]>> \in entries
          /\ positions' = [positions EXCEPT ![turn] =
               [n \in Netuids |->
                  CASE n \in sold   -> NoPosition
                    [] n \in bought ->
                         Opened(strategy[n], Reading(n), LargestStake(Reading(n)))
                    [] OTHER        -> @[n]]]
  BY DEF Trade
<1>5. PICK strategy \in [bought -> {e[2] : e \in entries}] :
        /\ \A n \in bought : <<n, strategy[n]>> \in entries
        /\ positions' = [positions EXCEPT ![turn] =
             [n \in Netuids |->
                CASE n \in sold   -> NoPosition
                  [] n \in bought ->
                       Opened(strategy[n], Reading(n), LargestStake(Reading(n)))
                  [] OTHER        -> positions[turn][n]]]
  BY <1>4
<1>6. positions = [p \in Portfolios |-> [n \in Netuids |-> positions[p][n]]]
  BY DEF FreshInv, Books
<1> DEFINE changed == [n \in Netuids |->
                         CASE n \in sold   -> NoPosition
                           [] n \in bought ->
                                Opened(strategy[n], Reading(n), LargestStake(Reading(n)))
                           [] OTHER        -> positions[turn][n]]
<1>7. ASSUME NEW n \in Netuids
      PROVE  \/ changed[n] = NoPosition
             \/ changed[n] = positions[turn][n]
             \/ n \in bought /\ changed[n] = Opened(strategy[n], Reading(n), LargestStake(Reading(n)))
  OBVIOUS
<1>8. positions' = [positions EXCEPT ![turn] = changed] /\ DOMAIN changed = Netuids
  BY <1>5
<1> HIDE DEF changed
<1>9. /\ positions'[turn] = changed
      /\ \A p \in Portfolios \ {turn} : positions'[p] = positions[p]
      /\ positions' = [p \in Portfolios |-> positions'[p]]
  BY <1>3, <1>6, <1>8
<1>10. changed = [n \in Netuids |-> changed[n]]
  BY DEF changed
<1>11. positions' = [p \in Portfolios |-> [n \in Netuids |-> positions'[p][n]]]
  <2>1. \A p \in Portfolios : positions'[p] = [n \in Netuids |-> positions'[p][n]]
    BY <1>6, <1>9, <1>10
  <2> QED
    BY <1>9, <2>1
<1>12. ASSUME NEW n \in bought
       PROVE  n \in Listed /\ strategy[n] \in Ensemble(turn) /\ Promising(strategy[n], n)
  <2>1. PICK m \in Listed, s \in Ensemble(turn) :
          <<n, strategy[n]>> = <<m, s>> /\ Promising(s, m)
    BY <1>3, <1>5
  <2>2. n = m /\ strategy[n] = s
    BY <2>1
  <2> QED
    BY <2>1, <2>2
<1>13. ASSUME NEW p \in Portfolios, NEW n \in Netuids
       PROVE  \/ positions'[p][n] = NoPosition
              \/ positions'[p][n] = positions[p][n]
              \/ /\ n \in Listed
                 /\ \E s \in Ensemble(p) :
                      /\ positions'[p][n] = Opened(s, Reading(n), LargestStake(Reading(n)))
                      /\ Promising(s, n)
  <2>1. CASE p = turn
    BY <1>7, <1>9, <1>12, <2>1
  <2>2. CASE p # turn
    BY <1>9, <2>2
  <2> QED
    BY <2>1, <2>2
<1>14. Books'
  <2> SUFFICES ASSUME NEW p \in Portfolios, NEW n \in Netuids, positions'[p][n] # NoPosition
               PROVE  positions'[p][n].stamp \in Nat /\ positions'[p][n].stamp <= now
    BY <1>1, <1>11 DEF Books
  <2>1. CASE positions'[p][n] = positions[p][n]
    BY <2>1 DEF FreshInv, Books
  <2>2. CASE positions'[p][n] # positions[p][n]
    <3>1. PICK s \in Ensemble(p) :
            n \in Listed /\ positions'[p][n] = Opened(s, Reading(n), LargestStake(Reading(n)))
      BY <1>13, <2>2
    <3>2. Reading(n) \in Readings /\ Reading(n).stamp <= now
      BY <3>1, ReadingOf DEF RankInv, FreshInv, ReadingsFine
    <3>3. positions'[p][n].stamp = Reading(n).stamp /\ Reading(n).stamp \in Nat
      BY <3>1, <3>2 DEF Opened, Readings
    <3> QED
      BY <3>2, <3>3
  <2> QED
    BY <2>1, <2>2
<1>15. FreshOnes'
  <2> SUFFICES ASSUME NEW p \in Portfolios, NEW n \in Listed, Fresh(p, n)'
               PROVE  \E s \in Ensemble(p) :
                        /\ positions'[p][n] = Opened(s, Reading(n), LargestStake(Reading(n)))
                        /\ Promising(s, n)
    <3>1. \A m, s : Promising(s, m)' = Promising(s, m)
      BY <1>1, <1>2 DEF Promising
    <3> QED
      BY <1>2, <3>1 DEF FreshOnes
  <2>1. n \in Netuids
    BY FewListed DEF RankInv, Markets
  <2>2. positions'[p][n] # NoPosition /\ positions'[p][n].stamp >= Reading(n).stamp
    BY <1>2 DEF Fresh
  <2>3. CASE positions'[p][n] = positions[p][n]
    <3>1. Fresh(p, n)
      BY <2>2, <2>3 DEF Fresh
    <3> QED
      BY <2>3, <3>1 DEF FreshInv, FreshOnes
  <2>4. CASE positions'[p][n] # positions[p][n]
    BY <1>13, <2>1, <2>2, <2>4
  <2> QED
    BY <2>3, <2>4
<1>16. ReadingsFine' /\ Averaged' /\ Signals'
  BY <1>1, <1>2 DEF FreshInv, ReadingsFine, Averaged, Signals
<1> QED
  BY <1>14, <1>15, <1>16 DEF FreshInv

LEMMA FreshInvStep == RankInv /\ FreshInv /\ [Next]_vars => FreshInv'
<1> SUFFICES ASSUME RankInv, FreshInv, [Next]_vars PROVE FreshInv'
  OBVIOUS
<1>1. ASSUME NEW gap \in scenario.gaps, NEW who \in Pollings, Publish(gap, who)
      PROVE  FreshInv'
  BY <1>1, PublishFresh
<1>2. ASSUME UNCHANGED <<scenario, market, now, positions, cache>>, turn = Nobody,
             turn' = Nobody \/ turn' \in Portfolios, entries' = entries,
             turn' # Nobody => exits' = {}
      PROVE  FreshInv'
  <2>1. /\ Listed' = Listed /\ \A m : Reading(m)' = Reading(m)
        /\ \A p : Ensemble(p)' = Ensemble(p)
    BY <1>2, SameReadings
  <2>2. Books' /\ ReadingsFine' /\ Averaged'
    BY <1>2, <2>1 DEF FreshInv, Books, ReadingsFine, Averaged
  <2>3. FreshOnes'
    BY <1>2, <2>1 DEF FreshInv, FreshOnes, Fresh, Promising
  <2>4. Signals'
    BY <1>2 DEF FreshInv, Signals
  <2> QED
    BY <2>2, <2>3, <2>4 DEF FreshInv
<1>3. ASSUME NEW p \in Running, BeginTurn(p)
      PROVE  FreshInv'
  <2>1. /\ UNCHANGED <<scenario, market, now, positions, cache>> /\ turn = Nobody
        /\ turn' = p /\ entries' = entries /\ exits' = {}
    BY <1>3 DEF BeginTurn, RankInv, TrailersSoFar
  <2>2. p \in Portfolios
    BY ScenariosAssumption DEF Running, RankInv, Markets
  <2> QED
    BY <1>2, <2>1, <2>2
<1>4. ASSUME NEW p \in Running, Rebuild(p)
      PROVE  FreshInv'
  <2>1. /\ UNCHANGED <<scenario, market, now, positions, cache>> /\ turn = Nobody
        /\ turn' = Nobody /\ entries' = entries
    BY <1>4 DEF Rebuild, turnVars
  <2> QED
    BY <1>2, <2>1
<1>5. ASSUME NEW advice \in SUBSET Advised, Ask(advice)
      PROVE  FreshInv'
  BY <1>5, AskFresh
<1>6. CASE Trade
  BY <1>6, TradeFresh
<1>7. CASE Restart
  <2>1. /\ UNCHANGED <<scenario, market, now, positions, turn, entries>>
        /\ turn = Nobody /\ cache' = NoCache
    BY <1>7 DEF Restart, turnVars
  <2>2. /\ Listed' = Listed /\ \A m : Reading(m)' = Reading(m)
        /\ \A p : Ensemble(p)' = Ensemble(p)
    BY <2>1, SameReadings
  <2>3. cache'.emas = [n \in Netuids |-> ColdEma]
    BY <2>1 DEF NoCache
  <2>4. Averaged'
    BY <2>3 DEF Averaged, Averages
  <2>5. \A m \in Listed : \A s : Promising(s, m) => Promising(s, m)'
    <3>1. \A m \in Listed : cache'.emas[m].n = 0
      BY <2>3, FewListed DEF ColdEma, RankInv, Markets
    <3>2. \A m \in Listed : Leads(cache'.emas[m], Price(Reading(m)))
      BY <3>1 DEF Leads
    <3> QED
      BY <2>2, <3>2 DEF Promising, Promise
  <2>6. Books' /\ ReadingsFine'
    BY <2>1, <2>2 DEF FreshInv, Books, ReadingsFine
  <2>7. FreshOnes'
    <3> SUFFICES ASSUME NEW p \in Portfolios, NEW m \in Listed, Fresh(p, m)
                 PROVE  \E s \in Ensemble(p) :
                          /\ positions[p][m] = Opened(s, Reading(m), LargestStake(Reading(m)))
                          /\ Promising(s, m)'
      BY <2>1, <2>2 DEF FreshOnes, Fresh
    <3> QED
      BY <2>5 DEF FreshInv, FreshOnes
  <2>8. Signals'
    BY <2>1 DEF FreshInv, Signals
  <2> QED
    BY <2>4, <2>6, <2>7, <2>8 DEF FreshInv
<1>8. CASE UNCHANGED vars
  <2>1. UNCHANGED <<scenario, market, now, positions, cache, turn, exits, entries>>
    BY <1>8 DEF vars
  <2>2. /\ Listed' = Listed /\ \A m : Reading(m)' = Reading(m)
        /\ \A p : Ensemble(p)' = Ensemble(p)
    BY <2>1, SameReadings
  <2>3. /\ Steadily' = Steadily
        /\ \A p, m : Fresh(p, m)' = Fresh(p, m)
        /\ \A m, s : Promising(s, m)' = Promising(s, m)
    BY <2>1, <2>2 DEF Steadily, Fresh, Promising
  <2>4. Books' /\ ReadingsFine' /\ Averaged'
    BY <2>1, <2>2 DEF FreshInv, Books, ReadingsFine, Averaged
  <2>5. FreshOnes'
    BY <2>1, <2>2, <2>3 DEF FreshInv, FreshOnes
  <2>6. Signals'
    BY <2>1, <2>2, <2>3 DEF FreshInv, Signals
  <2> QED
    BY <2>4, <2>5, <2>6 DEF FreshInv
<1> QED
  BY <1>1, <1>3, <1>4, <1>5, <1>6, <1>7, <1>8 DEF Next

\* FreshPositionsKept: for every number of portfolios, subnets and readings, a
\* portfolio of one of the steady strategies signals no position for sale on the
\* reading it was bought on, whatever the others have fed the caches since.
THEOREM NothingSoldAsBought == Spec => []FreshPositionsKept
<1>1. RankInv /\ FreshInv => FreshPositionsKept
  <2> SUFFICES ASSUME RankInv, FreshInv, Decided,
                      \E s \in Steady : scenario.ensemble[turn] = {s}, NEW e \in exits
               PROVE  positions[turn][e[1]].stamp < Reading(e[1]).stamp
    BY DEF FreshPositionsKept
  <2>1. turn # Nobody /\ Steadily
    BY DEF Decided, Steadily
  <2>2. turn \in Portfolios
    BY <2>1 DEF FreshInv, Signals
  <2>3. PICK n \in Listed, s \in Ensemble(turn) :
          e = <<n, s>> /\ positions[turn][n] # NoPosition /\ ~Fresh(turn, n)
    BY <2>1 DEF FreshInv, Signals
  <2>4. e[1] = n /\ n \in Netuids
    BY <2>3, FewListed DEF RankInv, Markets
  <2>5. positions[turn][n].stamp \in Nat /\ Reading(n).stamp \in Nat
    BY <2>2, <2>3, <2>4, ReadingOf DEF FreshInv, Books, RankInv, Readings
  <2> QED
    BY <2>3, <2>4, <2>5 DEF Fresh
<1>2. Spec => []FreshInv
  BY FreshInvInit, FreshInvStep, RankInvariant, PTL DEF Spec
<1> QED
  BY <1>1, <1>2, RankInvariant, PTL
===============================================================================
