-------------------------- MODULE SnapshotFeedProofs --------------------------
(***************************************************************************)
(* The buffers stay in order and never go back, for every number of        *)
(* subnets, bar length, cap and number of faults.  The argument never      *)
(* needs the bars themselves: what is in flight is at least what is in the *)
(* buffer (Behind), so a sample that is folded in either is new or repeats *)
(* the last one.  What is in the buffer came from the upstream (Past),     *)
(* which makes the greeting of a reconnect harmless.                       *)
(*                                                                         *)
(* In such a buffer the binary search ends at the row in force, so the     *)
(* benchmark is the mean of its subnets' growth, weighted by their depth   *)
(* at the anchor, and lies between the least and the greatest.             *)
(***************************************************************************)
EXTENDS Benchmark, ArithmeticProofs, TLAPS

Sorted(seq) == \A i, j \in DOMAIN seq : i < j => seq[i] < seq[j]

\* Every sample of the sequence is one the upstream had by now.
Past(seq, all) ==
  seq # <<>> => all # <<>> /\ \A i \in DOMAIN seq : seq[i] <= all[Len(all)]

Samples ==
  /\ now \in Nat
  /\ published \in [Netuids -> Seq(Nat)]
  /\ buffer \in [Netuids -> Seq(Nat)]
  /\ pipe \in [Netuids -> Seq(Nat)]

Ordered(n) ==
  /\ Sorted(published[n]) /\ Sorted(pipe[n]) /\ Sorted(buffer[n])
  /\ \A i \in DOMAIN published[n] : published[n][i] <= now
  /\ Past(buffer[n], published[n]) /\ Past(pipe[n], published[n])

Behind(n) ==
  \A i \in DOMAIN buffer[n], j \in DOMAIN pipe[n] : buffer[n][i] <= pipe[n][j]

Seeding ==
  /\ task \in {"startup", "seeding"} => pipe = Nothing
  /\ task = "startup" => buffer = Nothing
  /\ task = "seeding" => \A n \in toSeed : buffer[n] = <<>>

FeedInv ==
  /\ Samples
  /\ Seeding
  /\ \A n \in Netuids : Ordered(n) /\ Behind(n)

-------------------------------------------------------------------------------
(* Sequences.                                                              *)

\* The newest k samples of an ordered sequence are ordered, come from it and
\* end as it ends: the cut of a buffer.
LEMMA NewestOrdered ==
  ASSUME NEW seq \in Seq(Nat), NEW k \in Nat \ {0}, Sorted(seq)
  PROVE  /\ Newest(seq, k) \in Seq(Nat)
         /\ Sorted(Newest(seq, k))
         /\ \A i \in DOMAIN Newest(seq, k) :
              \E j \in DOMAIN seq : Newest(seq, k)[i] = seq[j]
         /\ seq # <<>> =>
              /\ Newest(seq, k) # <<>>
              /\ Newest(seq, k)[Len(Newest(seq, k))] = seq[Len(seq)]
<1>1. CASE Len(seq) <= k
  BY <1>1 DEF Newest
<1>2. CASE Len(seq) > k
  <2> DEFINE first == Len(seq) - k + 1
             cut   == SubSeq(seq, first, Len(seq))
  <2>1. Newest(seq, k) = cut
    BY <1>2 DEF Newest
  <2>2. first \in 1 .. Len(seq) /\ Len(seq) \in Nat /\ first + k - 1 = Len(seq)
    BY <1>2
  <2>3. /\ cut \in Seq(Nat)
        /\ DOMAIN cut = 1 .. k /\ Len(cut) = k
        /\ \A i \in 1 .. k : cut[i] = seq[first + i - 1]
    BY <2>2
  <2> HIDE DEF first, cut
  <2>4. \A i \in 1 .. k : first + i - 1 \in DOMAIN seq
    BY <2>2
  <2>5. Sorted(cut)
    <3>1. \A i, j \in 1 .. k : i < j => first + i - 1 < first + j - 1
      BY <2>2
    <3>2. \A i, j \in 1 .. k : i < j => seq[first + i - 1] < seq[first + j - 1]
      BY <2>4, <3>1 DEF Sorted
    <3> QED
      BY <2>3, <3>2 DEF Sorted
  <2>6. cut # <<>> /\ cut[Len(cut)] = seq[Len(seq)]
    <3>1. k \in DOMAIN cut /\ cut[k] = seq[Len(seq)]
      BY <2>2, <2>3
    <3> QED
      BY <2>3, <3>1
  <2>7. \A i \in DOMAIN cut : \E j \in DOMAIN seq : cut[i] = seq[j]
    BY <2>3, <2>4
  <2> QED
    BY <2>1, <2>3, <2>5, <2>6, <2>7
<1> QED
  BY <1>1, <1>2

\* The seed of an ordered sequence is ordered, comes from it and is no longer
\* than the limit.
LEMMA SeedOrdered ==
  ASSUME FeedAssumption, NEW seq \in Seq(Nat), Sorted(seq)
  PROVE  /\ SeedRows(seq) \in Seq(Nat)
         /\ Len(SeedRows(seq)) <= SeedLimit
         /\ Sorted(SeedRows(seq))
         /\ \A i \in DOMAIN SeedRows(seq) :
              \E j \in DOMAIN seq : SeedRows(seq)[i] = seq[j]
<1> DEFINE early == {i \in DOMAIN seq : seq[i] <= now - SeedWindow}
           older == Cardinality(early)
           last  == IF older + SeedLimit < Len(seq) THEN older + SeedLimit ELSE Len(seq)
           rows  == SubSeq(seq, older + 1, last)
<1>1. SeedRows(seq) = rows
  BY DEF SeedRows
<1>2. older \in Nat
  <2>1. early \subseteq 1 .. Len(seq)
    OBVIOUS
  <2>2. IsFiniteSet(1 .. Len(seq))
    <3>1. 1 \in Int /\ Len(seq) \in Int
      OBVIOUS
    <3> QED
      BY <3>1, FS_Interval
  <2> HIDE DEF early
  <2>3. IsFiniteSet(early)
    BY <2>1, <2>2, FS_Subset
  <2> QED
    BY <2>3, FS_CardinalityType
<1> HIDE DEF older
<1>3. SeedLimit \in Nat \ {0} /\ Len(seq) \in Nat
  BY DEF FeedAssumption
<1>4. last \in Nat /\ last <= Len(seq) /\ last <= older + SeedLimit
  BY <1>2, <1>3
<1> HIDE DEF last
<1>5. CASE older + 1 > last
  <2>1. rows \in Seq(Nat) /\ Len(rows) = 0 /\ DOMAIN rows = {}
    BY <1>2, <1>4, <1>5
  <2> HIDE DEF rows
  <2> QED
    BY <1>1, <1>3, <2>1 DEF Sorted
<1>6. CASE older + 1 <= last
  <2> DEFINE count == last - older
  <2>1. count \in 1 .. SeedLimit /\ older + count <= Len(seq)
    BY <1>2, <1>3, <1>4, <1>6
  <2>2. /\ rows \in Seq(Nat)
        /\ DOMAIN rows = 1 .. count /\ Len(rows) = count
        /\ \A i \in 1 .. count : rows[i] = seq[older + i]
    <3>1. older + 1 \in 1 .. Len(seq) /\ last \in 1 .. Len(seq)
      BY <1>2, <1>3, <1>4, <1>6
    <3>2. last - (older + 1) + 1 = count
      BY <1>2, <1>4
    <3>3. \A i \in 1 .. count : (older + 1) + i - 1 = older + i
      BY <1>2
    <3> HIDE DEF count
    <3> QED
      BY <3>1, <3>2, <3>3, <1>6
  <2> HIDE DEF count, rows
  <2>3. \A i \in 1 .. count : older + i \in DOMAIN seq
    BY <1>2, <1>3, <2>1
  <2>4. \A i, j \in 1 .. count : i < j => older + i < older + j
    BY <1>2, <2>1
  <2>5. \A i, j \in 1 .. count : i < j => seq[older + i] < seq[older + j]
    BY <2>3, <2>4 DEF Sorted
  <2> QED
    BY <1>1, <2>1, <2>2, <2>3, <2>5 DEF Sorted
<1> QED
  BY <1>2, <1>4, <1>5, <1>6

\* Appending a sample newer than all of an ordered sequence.
LEMMA AppendOrdered ==
  ASSUME NEW seq \in Seq(Nat), NEW sample \in Nat, Sorted(seq),
         \A i \in DOMAIN seq : seq[i] < sample
  PROVE  /\ Append(seq, sample) \in Seq(Nat)
         /\ Sorted(Append(seq, sample))
         /\ Append(seq, sample) # <<>>
         /\ Append(seq, sample)[Len(Append(seq, sample))] = sample
         /\ \A i \in DOMAIN Append(seq, sample) :
              \/ i \in DOMAIN seq /\ Append(seq, sample)[i] = seq[i]
              \/ Append(seq, sample)[i] = sample
  BY DEF Sorted

\* Folding a sample that is not older than the buffer keeps it ordered, ends
\* it with that sample and invents nothing.
LEMMA FoldOrdered ==
  ASSUME FeedAssumption,
         NEW buf \in Seq(Nat), NEW sample \in Nat, Sorted(buf),
         \A i \in DOMAIN buf : buf[i] <= sample
  PROVE  /\ Fold(buf, sample) \in Seq(Nat)
         /\ Sorted(Fold(buf, sample))
         /\ Fold(buf, sample) # <<>>
         /\ Fold(buf, sample)[Len(Fold(buf, sample))] = sample
         /\ \A i \in DOMAIN Fold(buf, sample) : Fold(buf, sample)[i] <= sample
<1>1. CASE buf = <<>>
  BY <1>1 DEF Fold, Sorted
<1>2. CASE buf # <<>> /\ Bar(sample) > Bar(Last(buf))
  <2> DEFINE longer == Append(buf, sample)
  <2>1. Len(buf) \in DOMAIN buf /\ Last(buf) = buf[Len(buf)]
    BY <1>2 DEF Last
  <2>2. Last(buf) # sample
    BY <1>2, <2>1 DEF Bar
  <2>3. \A i \in DOMAIN buf : buf[i] < sample
    BY <2>1, <2>2 DEF Sorted
  <2>4. /\ longer \in Seq(Nat) /\ Sorted(longer) /\ longer # <<>>
        /\ longer[Len(longer)] = sample
        /\ \A i \in DOMAIN longer :
             \/ i \in DOMAIN buf /\ longer[i] = buf[i]
             \/ longer[i] = sample
    BY <2>3, AppendOrdered
  <2>5. Fold(buf, sample) = Newest(longer, Cap)
    BY <1>2 DEF Fold
  <2> HIDE DEF longer
  <2>6. /\ Newest(longer, Cap) \in Seq(Nat) /\ Sorted(Newest(longer, Cap))
        /\ \A i \in DOMAIN Newest(longer, Cap) :
             \E j \in DOMAIN longer : Newest(longer, Cap)[i] = longer[j]
        /\ Newest(longer, Cap) # <<>>
        /\ Newest(longer, Cap)[Len(Newest(longer, Cap))] = sample
    <3>1. Cap \in Nat \ {0}
      BY DEF FeedAssumption
    <3> QED
      BY <2>4, <3>1, NewestOrdered, Zenon
  <2>7. \A j \in DOMAIN longer : longer[j] <= sample
    BY <2>4
  <2>8. \A i \in DOMAIN Newest(longer, Cap) : Newest(longer, Cap)[i] <= sample
    BY <2>6, <2>7, Zenon
  <2> QED
    BY <2>5, <2>6, <2>8, Zenon
<1>3. CASE buf # <<>> /\ ~(Bar(sample) > Bar(Last(buf)))
  <2>1. Fold(buf, sample) = [buf EXCEPT ![Len(buf)] = sample]
    BY <1>3 DEF Fold
  <2> QED
    BY <1>3, <2>1 DEF Sorted
<1> QED
  BY <1>1, <1>2, <1>3

(* A subnet whose queue in flight, buffer and published samples a step     *)
(* leaves alone keeps its order.                                           *)
LEMMA Untouched ==
  ASSUME NEW n, Ordered(n), Behind(n), published[n] \in Seq(Nat),
         now \in Nat, now' \in Nat, now <= now',
         published'[n] = published[n], buffer'[n] = buffer[n], pipe'[n] = pipe[n]
  PROVE  Ordered(n)' /\ Behind(n)'
<1>1. \A i \in DOMAIN published[n] : published[n][i] <= now'
  BY DEF Ordered
<1> QED
  BY <1>1 DEF Ordered, Behind, Past, Sorted

-------------------------------------------------------------------------------
(* The invariant, one step per action.                                     *)

LEMMA InitFeed == FeedAssumption /\ Init => FeedInv
  BY DEF Init, Nothing, FeedInv, Samples, Seeding, Ordered, Behind, Sorted, Past

LEMMA StutterFeed == FeedInv /\ UNCHANGED vars => FeedInv'
  BY DEF vars, upstream, FeedInv, Samples, Seeding, Ordered, Behind, Sorted, Past,
         Nothing

LEMMA PublishFeed ==
  ASSUME FeedAssumption, FeedInv, NEW m \in Netuids, Publish(m)
  PROVE  FeedInv'
<1>1. /\ now' = now + 1 /\ now \in Nat
      /\ published' = [published EXCEPT ![m] = Append(@, now')]
      /\ UNCHANGED <<buffer, toSeed, task>>
  BY DEF Publish, FeedInv, Samples
<1>2. \/ task = "reading" /\ pipe' = [pipe EXCEPT ![m] = Append(pipe[m], now')]
      \/ pipe' = pipe
  BY DEF Publish
<1>3. Samples'
  <2>1. /\ now' \in Nat
        /\ Append(published[m], now') \in Seq(Nat)
        /\ Append(pipe[m], now') \in Seq(Nat)
    BY <1>1 DEF FeedInv, Samples
  <2> QED
    BY <1>1, <1>2, <2>1 DEF FeedInv, Samples
<1>4. Seeding'
  BY <1>1, <1>2 DEF FeedInv, Seeding, Nothing
<1>5. ASSUME NEW n \in Netuids PROVE Ordered(n)' /\ Behind(n)'
  <2>1. /\ published[n] \in Seq(Nat) /\ buffer[n] \in Seq(Nat) /\ pipe[n] \in Seq(Nat)
        /\ Ordered(n) /\ Behind(n) /\ now' \in Nat /\ now < now'
    BY <1>1 DEF FeedInv, Samples
  <2>2. CASE n # m
    BY <1>1, <1>2, <2>1, <2>2, Untouched DEF FeedInv, Samples
  <2>3. CASE n = m
    <3> DEFINE published2 == Append(published[m], now')
               pipe2 == Append(pipe[m], now')
    <3>0. /\ \A i \in DOMAIN published[m] : published[m][i] \in Nat
          /\ \A i \in DOMAIN pipe[m] : pipe[m][i] \in Nat
          /\ \A i \in DOMAIN buffer[m] : buffer[m][i] \in Nat
          /\ published[m] # <<>> => Len(published[m]) \in DOMAIN published[m]
      BY <2>1, <2>3
    <3>1. \A i \in DOMAIN published[m] : published[m][i] < now'
      BY <1>1, <2>1, <2>3, <3>0 DEF Ordered
    <3>2. /\ \A i \in DOMAIN pipe[m] : pipe[m][i] < now'
          /\ \A i \in DOMAIN buffer[m] : buffer[m][i] < now'
      <4>1. published[m] # <<>> =>
              /\ published[m][Len(published[m])] < now'
              /\ published[m][Len(published[m])] \in Nat
        BY <3>0, <3>1
      <4>2. ASSUME NEW seq \in Seq(Nat), Past(seq, published[m]), NEW i \in DOMAIN seq
            PROVE  seq[i] < now'
        BY <2>1, <4>1, <4>2 DEF Past
      <4> QED
        BY <2>1, <2>3, <4>2 DEF Ordered
    <3>3. /\ published2 \in Seq(Nat) /\ Sorted(published2) /\ published2 # <<>>
          /\ published2[Len(published2)] = now'
          /\ \A i \in DOMAIN published2 :
               \/ i \in DOMAIN published[m] /\ published2[i] = published[m][i]
               \/ published2[i] = now'
      BY <2>1, <2>3, <3>1, AppendOrdered DEF Ordered
    <3>4. /\ pipe2 \in Seq(Nat) /\ Sorted(pipe2)
          /\ \A i \in DOMAIN pipe2 :
               \/ i \in DOMAIN pipe[m] /\ pipe2[i] = pipe[m][i]
               \/ pipe2[i] = now'
      BY <2>1, <2>3, <3>2, AppendOrdered DEF Ordered
    <3>5. /\ published'[m] = published2 /\ buffer'[m] = buffer[m]
          /\ pipe'[m] = pipe[m] \/ pipe'[m] = pipe2
      BY <1>1, <1>2 DEF FeedInv, Samples
    <3> HIDE DEF published2, pipe2
    <3>6. /\ \A i \in DOMAIN published2 : published2[i] <= now'
          /\ \A i \in DOMAIN pipe2 : pipe2[i] <= now'
          /\ \A i \in DOMAIN pipe[m] : pipe[m][i] <= now'
          /\ \A i \in DOMAIN buffer[m] : buffer[m][i] <= now'
      <4>0. now' \in Nat /\ now' <= now'
        BY <2>1
      <4>1. ASSUME NEW i \in DOMAIN published2 PROVE published2[i] <= now'
        <5>1. CASE published2[i] = now'
          BY <4>0, <5>1
        <5>2. CASE i \in DOMAIN published[m] /\ published2[i] = published[m][i]
          BY <4>0, <3>0, <3>1, <5>2
        <5> QED
          BY <3>3, <5>1, <5>2
      <4>2. /\ \A i \in DOMAIN pipe[m] : pipe[m][i] <= now'
            /\ \A i \in DOMAIN buffer[m] : buffer[m][i] <= now'
        BY <2>1, <3>0, <3>2
      <4>3. ASSUME NEW i \in DOMAIN pipe2 PROVE pipe2[i] <= now'
        <5>1. CASE pipe2[i] = now'
          BY <4>0, <5>1
        <5>2. CASE i \in DOMAIN pipe[m] /\ pipe2[i] = pipe[m][i]
          BY <4>2, <5>2
        <5> QED
          BY <3>4, <5>1, <5>2
      <4> QED
        BY <4>1, <4>2, <4>3
    <3>7. \A i \in DOMAIN buffer[m], j \in DOMAIN pipe2 : buffer[m][i] <= pipe2[j]
      BY <2>1, <2>3, <3>2, <3>4, <3>6 DEF Behind
    <3>8. Ordered(m)'
      BY <2>1, <2>3, <3>3, <3>4, <3>5, <3>6 DEF Ordered, Past
    <3>9. Behind(m)'
      BY <2>1, <2>3, <3>5, <3>7 DEF Behind
    <3> QED
      BY <2>3, <3>8, <3>9
  <2> QED
    BY <2>2, <2>3
<1> QED
  BY <1>3, <1>4, <1>5 DEF FeedInv

LEMMA SeedFeed ==
  ASSUME FeedAssumption, FeedInv, NEW m \in Netuids, SeedSubnet(m)
  PROVE  FeedInv'
<1> DEFINE rows == SeedRows(published[m])
<1>1. /\ task = "seeding" /\ task' = task /\ toSeed' = toSeed \ {m}
      /\ buffer' = [buffer EXCEPT ![m] = rows]
      /\ UNCHANGED <<now, published, pipe>>
  BY DEF SeedSubnet, upstream
<1>2. published[m] \in Seq(Nat) /\ Ordered(m)
  BY DEF FeedInv, Samples
<1>3. /\ rows \in Seq(Nat) /\ Sorted(rows)
      /\ \A i \in DOMAIN rows : \E j \in DOMAIN published[m] : rows[i] = published[m][j]
  BY <1>2, SeedOrdered DEF Ordered
<1> HIDE DEF rows
<1>4. Past(rows, published[m])
  <2>1. SUFFICES ASSUME rows # <<>>
                 PROVE  /\ published[m] # <<>>
                        /\ \A i \in DOMAIN rows :
                             rows[i] <= published[m][Len(published[m])]
    BY DEF Past
  <2>2. published[m] # <<>> /\ Len(published[m]) \in DOMAIN published[m]
    BY <1>2, <1>3, <2>1
  <2>3. \A j \in DOMAIN published[m] : published[m][j] <= published[m][Len(published[m])]
    BY <1>2, <2>2 DEF Ordered, Sorted
  <2> QED
    BY <1>3, <2>2, <2>3
<1>5. Samples'
  BY <1>1, <1>3 DEF FeedInv, Samples
<1>6. Seeding'
  BY <1>1 DEF FeedInv, Seeding, Samples, Nothing
<1>7. ASSUME NEW n \in Netuids PROVE Ordered(n)' /\ Behind(n)'
  <2>1. CASE n = m
    BY <1>1, <1>2, <1>3, <1>4, <2>1 DEF FeedInv, Samples, Seeding, Nothing, Ordered, Behind
  <2>2. CASE n # m
    <3>1. now \in Nat /\ now' = now /\ now <= now'
      BY <1>1 DEF FeedInv, Samples
    <3> QED
      BY <1>1, <2>2, <3>1, Untouched DEF FeedInv, Samples
  <2> QED
    BY <2>1, <2>2
<1> QED
  BY <1>5, <1>6, <1>7 DEF FeedInv

LEMMA ReceiveFeed ==
  ASSUME FeedAssumption, FeedInv, NEW m \in Netuids, Receive(m)
  PROVE  FeedInv'
<1> DEFINE sample == Head(pipe[m])
           folded == Fold(buffer[m], sample)
<1>1. /\ task = "reading" /\ task' = task /\ pipe[m] # <<>>
      /\ buffer' = [buffer EXCEPT ![m] = folded]
      /\ pipe' = [pipe EXCEPT ![m] = Tail(pipe[m])]
      /\ UNCHANGED <<now, published, toSeed>>
  BY DEF Receive, upstream
<1>2. /\ published[m] \in Seq(Nat) /\ buffer[m] \in Seq(Nat) /\ pipe[m] \in Seq(Nat)
      /\ Ordered(m) /\ Behind(m)
  BY DEF FeedInv, Samples
<1>3. /\ sample = pipe[m][1] /\ 1 \in DOMAIN pipe[m] /\ sample \in Nat
      /\ Tail(pipe[m]) \in Seq(Nat)
      /\ \A i \in DOMAIN Tail(pipe[m]) :
           i + 1 \in DOMAIN pipe[m] /\ Tail(pipe[m])[i] = pipe[m][i + 1] /\ i \in Nat \ {0}
  BY <1>1, <1>2
<1>4. \A i \in DOMAIN buffer[m] : buffer[m][i] <= sample
  BY <1>2, <1>3 DEF Behind
<1>5. /\ folded \in Seq(Nat) /\ Sorted(folded) /\ folded # <<>>
      /\ \A i \in DOMAIN folded : folded[i] <= sample
  BY <1>2, <1>3, <1>4, FoldOrdered DEF Ordered
<1> HIDE DEF sample, folded
<1>6. Samples'
  BY <1>1, <1>3, <1>5 DEF FeedInv, Samples
<1>7. Seeding'
  BY <1>1 DEF FeedInv, Seeding
<1>8. ASSUME NEW n \in Netuids PROVE Ordered(n)' /\ Behind(n)'
  <2>1. CASE n = m
    <3>1. buffer'[m] = folded /\ pipe'[m] = Tail(pipe[m]) /\ published'[m] = published[m]
      BY <1>1 DEF FeedInv, Samples
    <3>2. Sorted(Tail(pipe[m]))
      <4>1. \A i, j \in DOMAIN Tail(pipe[m]) : i < j =>
              i + 1 \in DOMAIN pipe[m] /\ j + 1 \in DOMAIN pipe[m] /\ i + 1 < j + 1
        BY <1>3
      <4> QED
        BY <1>2, <1>3, <4>1 DEF Ordered, Sorted
    <3>3. Past(folded, published[m]) /\ Past(Tail(pipe[m]), published[m])
      <4>1. /\ published[m] # <<>> /\ Len(published[m]) \in DOMAIN published[m]
            /\ \A i \in DOMAIN pipe[m] : pipe[m][i] <= published[m][Len(published[m])]
        BY <1>1, <1>2 DEF Ordered, Past
      <4>2. /\ \A i \in DOMAIN folded : folded[i] \in Nat
            /\ published[m][Len(published[m])] \in Nat
        BY <1>2, <1>5, <4>1
      <4>3. sample <= published[m][Len(published[m])]
        BY <1>3, <4>1
      <4>4. \A i \in DOMAIN folded : folded[i] <= published[m][Len(published[m])]
        BY <1>3, <1>5, <4>2, <4>3
      <4> QED
        BY <1>3, <4>1, <4>4 DEF Past
    <3>4. \A i \in DOMAIN folded, j \in DOMAIN Tail(pipe[m]) :
            folded[i] <= Tail(pipe[m])[j]
      <4>1. \A j \in DOMAIN Tail(pipe[m]) : sample < Tail(pipe[m])[j]
        BY <1>2, <1>3 DEF Ordered, Sorted
      <4> QED
        BY <1>3, <1>5, <4>1
    <3> QED
      BY <1>1, <1>2, <1>5, <2>1, <3>1, <3>2, <3>3, <3>4 DEF Ordered, Behind
  <2>2. CASE n # m
    <3>1. now \in Nat /\ now' = now /\ now <= now'
      BY <1>1 DEF FeedInv, Samples
    <3> QED
      BY <1>1, <2>2, <3>1, Untouched DEF FeedInv, Samples
  <2> QED
    BY <2>1, <2>2
<1> QED
  BY <1>6, <1>7, <1>8 DEF FeedInv

LEMMA ConnectFeed ==
  ASSUME FeedAssumption, FeedInv, Connect
  PROVE  FeedInv'
<1>1. /\ task' = "reading"
      /\ UNCHANGED <<now, published, buffer, toSeed>>
  BY DEF Connect, upstream
<1>2. PICK again \in SUBSET {n \in Netuids : published[n] # <<>>} :
        pipe' = [n \in Netuids |->
                   IF n \in again THEN <<Last(published[n])>> ELSE <<>>]
  BY DEF Connect
<1>3. ASSUME NEW n \in Netuids
      PROVE  /\ Ordered(n)' /\ Behind(n)'
             /\ pipe'[n] \in Seq(Nat)
  <2>1. /\ published[n] \in Seq(Nat) /\ buffer[n] \in Seq(Nat)
        /\ Ordered(n) /\ now \in Nat
    BY DEF FeedInv, Samples
  <2>2. CASE pipe'[n] = <<>>
    BY <1>1, <2>1, <2>2 DEF Ordered, Behind, Sorted, Past
  <2>3. CASE pipe'[n] = <<Last(published[n])>> /\ published[n] # <<>>
    <3> DEFINE greeting == published[n][Len(published[n])]
    <3>1. greeting \in Nat /\ pipe'[n] = <<greeting>>
      BY <2>1, <2>3 DEF Last
    <3> HIDE DEF greeting
    <3>2. pipe'[n] \in Seq(Nat) /\ DOMAIN pipe'[n] = {1} /\ pipe'[n][1] = greeting
      BY <3>1
    <3>3. \A i \in DOMAIN buffer[n] : buffer[n][i] <= greeting
      BY <2>1 DEF Ordered, Past, greeting
    <3>4. Sorted(pipe'[n])
      BY <3>2 DEF Sorted
    <3>5. Past(pipe'[n], published[n])
      BY <2>3, <3>1, <3>2 DEF Past, greeting
    <3> QED
      BY <1>1, <2>1, <3>2, <3>3, <3>4, <3>5 DEF Ordered, Behind
  <2> QED
    BY <1>2, <2>2, <2>3
<1>4. Samples'
  BY <1>1, <1>2, <1>3 DEF FeedInv, Samples
<1>5. Seeding'
  BY <1>1 DEF Seeding
<1> QED
  BY <1>3, <1>4, <1>5 DEF FeedInv

\* A step that leaves the samples and the buffers alone, and what is in
\* flight unless it loses all of it or the head of one queue.
LEMMA QuietFeed ==
  ASSUME FeedInv, Seeding', UNCHANGED <<now, published, buffer>>,
         \/ pipe' = pipe
         \/ pipe' = Nothing
         \/ \E m \in Netuids : pipe[m] # <<>> /\ pipe' = [pipe EXCEPT ![m] = Tail(@)]
  PROVE  FeedInv'
<1>1. ASSUME NEW n \in Netuids
      PROVE  /\ Ordered(n)' /\ Behind(n)'
             /\ pipe'[n] \in Seq(Nat)
  <2>1. /\ published[n] \in Seq(Nat) /\ buffer[n] \in Seq(Nat) /\ pipe[n] \in Seq(Nat)
        /\ Ordered(n) /\ Behind(n) /\ now \in Nat
    BY DEF FeedInv, Samples
  <2>2. CASE pipe'[n] = pipe[n]
    BY <2>1, <2>2, Untouched
  <2>3. CASE pipe'[n] = <<>>
    BY <2>1, <2>3 DEF Ordered, Behind, Sorted, Past
  <2>4. CASE pipe[n] # <<>> /\ pipe'[n] = Tail(pipe[n])
    <3>1. /\ Tail(pipe[n]) \in Seq(Nat)
          /\ \A i \in DOMAIN Tail(pipe[n]) :
               i + 1 \in DOMAIN pipe[n] /\ Tail(pipe[n])[i] = pipe[n][i + 1]
      BY <2>1, <2>4
    <3>2. Sorted(Tail(pipe[n]))
      <4>1. \A i, j \in DOMAIN Tail(pipe[n]) : i < j => i + 1 < j + 1
        BY <3>1
      <4> QED
        BY <2>1, <3>1, <4>1 DEF Ordered, Sorted
    <3>3. Past(Tail(pipe[n]), published[n])
      BY <2>1, <2>4, <3>1 DEF Ordered, Past
    <3>4. \A i \in DOMAIN buffer[n], j \in DOMAIN Tail(pipe[n]) :
            buffer[n][i] <= Tail(pipe[n])[j]
      BY <2>1, <3>1 DEF Behind
    <3> QED
      BY <2>1, <2>4, <3>1, <3>2, <3>3, <3>4 DEF Ordered, Behind
  <2> QED
    BY <2>1, <2>2, <2>3, <2>4 DEF Nothing, FeedInv, Samples
<1>2. Samples'
  <2>1. pipe' \in [Netuids -> Seq(Nat)]
    <3>1. pipe' = [n \in Netuids |-> pipe'[n]]
      BY DEF FeedInv, Samples, Nothing
    <3> QED
      BY <1>1, <3>1
  <2> QED
    BY <2>1 DEF FeedInv, Samples
<1> QED
  BY <1>1, <1>2 DEF FeedInv

LEMMA NextFeed == FeedAssumption /\ FeedInv /\ [Next]_vars => FeedInv'
<1> SUFFICES ASSUME FeedAssumption, FeedInv, [Next]_vars PROVE FeedInv'
  OBVIOUS
<1>1. CASE UNCHANGED vars
  BY <1>1, StutterFeed
<1>2. CASE \E n \in Netuids : Publish(n)
  BY <1>2, PublishFeed
<1>3. CASE \E n \in Netuids : SeedSubnet(n)
  BY <1>3, SeedFeed
<1>4. CASE \E n \in Netuids : Receive(n)
  BY <1>4, ReceiveFeed
<1>5. CASE Connect
  BY <1>5, ConnectFeed
<1>6. CASE ListSubnets
  <2>1. Seeding'
    <3>1. \A n \in Netuids : Nothing[n] = <<>>
      BY DEF Nothing
    <3> QED
      BY <1>6, <3>1 DEF ListSubnets, FeedInv, Seeding
  <2> QED
    BY <1>6, <2>1, QuietFeed DEF ListSubnets, upstream
<1>7. CASE \E n \in Netuids : SeedFails(n)
  BY <1>7, QuietFeed DEF SeedFails, upstream, FeedInv, Seeding, Nothing
<1>8. CASE StartStream \/ Refuse \/ Retry
  BY <1>8, QuietFeed DEF StartStream, Refuse, Retry, upstream, Seeding
<1>9. CASE Disconnect \/ Shutdown
  BY <1>9, QuietFeed DEF Disconnect, Shutdown, upstream, Seeding
<1>10. CASE \E n \in Netuids : Unreadable(n)
  BY <1>10, QuietFeed DEF Unreadable, upstream, Seeding
<1> QED
  BY <1>1, <1>2, <1>3, <1>4, <1>5, <1>6, <1>7, <1>8, <1>9, <1>10 DEF Next, Client

\* The queues, buffers and samples of every subnet are in order at all times
\* (seed_snapshots, _sse_loop and _fold together).
THEOREM FeedInvariant == Spec => []FeedInv
  BY FeedAssumption, InitFeed, NextFeed, PTL DEF Spec

\* The samples of a buffer are strictly increasing for every upstream that
\* sends in order, whatever is lost, repeated on connect or seeded late:
\* what _row_at_or_before and the feature windows assume of the buffer.
THEOREM BuffersInOrder == Spec => []SamplesInOrder
<1>1. FeedInv => SamplesInOrder
  BY DEF FeedInv, Ordered, Sorted, SamplesInOrder
<1> QED
  BY <1>1, FeedInvariant, PTL

\* The newest sample of a buffer is never replaced by an older one: neither
\* _fold's overwriting of the last sample nor its cut goes back in time.
THEOREM NeverGoesBack == Spec => NewestNeverGoesBack
<1> DEFINE Forward ==
      \A n \in Netuids :
        buffer[n] # <<>> =>
          buffer'[n] # <<>> /\ Last(buffer'[n]) >= Last(buffer[n])
<1>1. FeedAssumption /\ FeedInv /\ [Next]_vars => [Forward]_vars
  <2> SUFFICES ASSUME FeedAssumption, FeedInv, Next,
                      NEW n \in Netuids, buffer[n] # <<>>
               PROVE  buffer'[n] # <<>> /\ Last(buffer'[n]) >= Last(buffer[n])
    OBVIOUS
  <2>1. /\ buffer[n] \in Seq(Nat) /\ pipe[n] \in Seq(Nat) /\ Ordered(n) /\ Behind(n)
        /\ Len(buffer[n]) \in DOMAIN buffer[n]
    BY DEF FeedInv, Samples
  <2>2. CASE buffer'[n] = buffer[n]
    BY <2>1, <2>2 DEF Last
  <2>3. CASE Receive(n)
    <3> DEFINE sample == Head(pipe[n])
    <3>1. /\ buffer'[n] = Fold(buffer[n], sample)
          /\ sample = pipe[n][1] /\ 1 \in DOMAIN pipe[n] /\ sample \in Nat
      BY <2>1, <2>3 DEF Receive, FeedInv, Samples
    <3>2. \A i \in DOMAIN buffer[n] : buffer[n][i] <= sample
      BY <2>1, <3>1 DEF Behind
    <3> HIDE DEF sample
    <3>3. buffer'[n] # <<>> /\ Last(buffer'[n]) = sample
      BY <2>1, <3>1, <3>2, FoldOrdered DEF Ordered, Last
    <3> QED
      BY <2>1, <3>1, <3>2, <3>3 DEF Last
  <2>4. CASE SeedSubnet(n)
    BY <2>4 DEF SeedSubnet, FeedInv, Seeding
  <2> QED
    BY <2>2, <2>3, <2>4 DEF Next, Client, ListSubnets, StartStream, Connect, Retry,
       Refuse, Disconnect, Shutdown, Publish, SeedFails, Unreadable, SeedSubnet,
       Receive, FeedInv, Samples
<1>2. NewestNeverGoesBack <=> [][Forward]_vars
  BY DEF NewestNeverGoesBack
<1> QED
  BY <1>1, <1>2, FeedAssumption, FeedInvariant, PTL DEF Spec

-------------------------------------------------------------------------------
(* What becomes of a sample that was received.                             *)

\* A sample is in the buffer, or replaced within its bar, or cut off.
Kept(buf, all, sample) ==
  \/ \E i \in DOMAIN buf : buf[i] = sample
  \/ \E r \in all : r > sample /\ Bar(r) = Bar(sample)
  \/ Len(buf) >= Cap /\ buf # <<>> /\ sample < buf[1]

Bounded(buf) == Len(buf) <= Cap \/ Len(buf) <= SeedLimit

\* A buffer holds what was received, and everything received is accounted for.
Accounted(n) ==
  /\ received[n] \subseteq Nat
  /\ \A i \in DOMAIN buffer[n] : buffer[n][i] \in received[n]
  /\ \A s \in received[n] : Kept(buffer[n], received[n], s)
  /\ Bounded(buffer[n])

KeptInv ==
  /\ received \in [Netuids -> SUBSET Nat]
  /\ \A n \in Netuids : Accounted(n)

\* An earlier sample is in no later bar.
LEMMA BarsInOrder ==
  ASSUME FeedAssumption, NEW s \in Nat, NEW t \in Nat, s <= t
  PROVE  Bar(s) <= Bar(t) /\ Bar(s) \in Int /\ Bar(t) \in Int
<1> DEFINE p == s \div BarLength
           q == t \div BarLength
<1>1. BarLength \in Nat \ {0}
  BY DEF FeedAssumption
<1>2. /\ p \in Int /\ p * BarLength <= s /\ s < (p + 1) * BarLength
      /\ q \in Int /\ q * BarLength <= t /\ t < (q + 1) * BarLength
  BY <1>1, Z3
<1> HIDE DEF p, q
<1>3. p * BarLength < (q + 1) * BarLength
  BY <1>1, <1>2, Z3
<1>4. p < q + 1
  BY <1>1, <1>2, <1>3, Z3
<1> QED
  BY <1>2, <1>4 DEF Bar, p, q

\* The newest k samples are k or all, and what is left out is older.
LEMMA NewestCuts ==
  ASSUME NEW seq \in Seq(Nat), NEW k \in Nat \ {0}, Sorted(seq)
  PROVE  LET cut == Newest(seq, k)
         IN  /\ cut \in Seq(Nat) /\ Len(cut) <= k
             /\ seq # <<>> => cut # <<>>
             /\ \A i \in DOMAIN seq :
                  \/ \E j \in DOMAIN cut : cut[j] = seq[i]
                  \/ Len(cut) = k /\ seq[i] < cut[1]
             /\ Len(seq) > k => Len(cut) = k /\ cut[1] > seq[1]
<1>1. CASE Len(seq) <= k
  BY <1>1 DEF Newest
<1>2. CASE Len(seq) > k
  <2> DEFINE first == Len(seq) - k + 1
             cut   == SubSeq(seq, first, Len(seq))
  <2>1. Newest(seq, k) = cut
    BY <1>2 DEF Newest
  <2>2. /\ first \in 1 .. Len(seq) /\ first > 1
        /\ Len(seq) \in Nat /\ first + k - 1 = Len(seq)
    BY <1>2
  <2>3. /\ cut \in Seq(Nat)
        /\ DOMAIN cut = 1 .. k /\ Len(cut) = k
        /\ \A i \in 1 .. k : cut[i] = seq[first + i - 1]
    BY <2>2
  <2> HIDE DEF first, cut
  <2>4. cut # <<>> /\ cut[1] = seq[first]
    BY <2>2, <2>3
  <2>5. seq[1] < seq[first]
    BY <2>2 DEF Sorted
  <2>6. ASSUME NEW i \in DOMAIN seq
        PROVE  \/ \E j \in DOMAIN cut : cut[j] = seq[i]
               \/ seq[i] < cut[1]
    <3>1. CASE i < first
      BY <2>2, <2>4, <3>1 DEF Sorted
    <3>2. CASE i >= first
      <4>1. i - first + 1 \in 1 .. k /\ first + (i - first + 1) - 1 = i
        BY <2>2, <3>2
      <4> QED
        BY <2>3, <4>1
    <3> QED
      BY <2>2, <3>1, <3>2
  <2> QED
    BY <2>1, <2>3, <2>4, <2>5, <2>6
<1> QED
  BY <1>1, <1>2

\* Folding in a sample not older than the buffer accounts for it and for
\* everything that was accounted for.
LEMMA FoldAccounts ==
  ASSUME FeedAssumption,
         NEW buf \in Seq(Nat), NEW sample \in Nat, Sorted(buf), Bounded(buf),
         NEW all \in SUBSET Nat,
         \A i \in DOMAIN buf : buf[i] <= sample,
         \A s \in all : Kept(buf, all, s)
  PROVE  /\ \A s \in all \cup {sample} : Kept(Fold(buf, sample), all \cup {sample}, s)
         /\ \A i \in DOMAIN Fold(buf, sample) :
              Fold(buf, sample)[i] = sample \/ \E j \in DOMAIN buf : Fold(buf, sample)[i] = buf[j]
         /\ Bounded(Fold(buf, sample))
<1> DEFINE folded == Fold(buf, sample)
<1>0. Cap \in Nat \ {0} /\ SeedLimit \in Nat \ {0}
  BY DEF FeedAssumption
<1>1. folded \in Seq(Nat) /\ folded # <<>> /\ folded[Len(folded)] = sample /\ Len(folded) \in DOMAIN folded
  BY FoldOrdered
<1>2. Kept(folded, all \cup {sample}, sample)
  BY <1>1 DEF Kept
<1>3. CASE buf = <<>>
  <2>1. folded = <<sample>>
    BY <1>3 DEF Fold
  <2>2. ASSUME NEW s \in all PROVE Kept(folded, all \cup {sample}, s)
    BY <1>3 DEF Kept
  <2>3. Bounded(folded)
    BY <1>0, <2>1 DEF Bounded
  <2>4. \A i \in DOMAIN folded : folded[i] = sample
    BY <2>1
  <2> QED
    BY <1>2, <2>2, <2>3, <2>4
<1>4. CASE buf # <<>> /\ Bar(sample) > Bar(Last(buf))
  <2> DEFINE longer == Append(buf, sample)
  <2>1. Len(buf) \in DOMAIN buf /\ Last(buf) = buf[Len(buf)]
    BY <1>4 DEF Last
  <2>2. Last(buf) # sample
    BY <1>4, <2>1, BarsInOrder
  <2>3. \A i \in DOMAIN buf : buf[i] < sample
    BY <2>1, <2>2 DEF Sorted
  <2>4. /\ longer \in Seq(Nat) /\ Sorted(longer) /\ longer # <<>>
        /\ \A i \in DOMAIN longer : (i \in DOMAIN buf /\ longer[i] = buf[i]) \/ longer[i] = sample
    BY <2>3, AppendOrdered
  <2>5. /\ Len(longer) = Len(buf) + 1 /\ Len(buf) \in Nat
        /\ \A i \in DOMAIN buf : i \in DOMAIN longer /\ longer[i] = buf[i]
        /\ longer[1] = buf[1] /\ buf[1] \in Nat
    BY <1>4
  <2>6. folded = Newest(longer, Cap)
    BY <1>4 DEF Fold
  <2> HIDE DEF longer, folded
  <2>7. /\ Len(folded) <= Cap
        /\ \A i \in DOMAIN longer :
             \/ \E j \in DOMAIN folded : folded[j] = longer[i]
             \/ Len(folded) = Cap /\ longer[i] < folded[1]
        /\ Len(longer) > Cap => Len(folded) = Cap /\ folded[1] > longer[1]
    BY <1>0, <2>4, <2>6, NewestCuts
  <2>8. \A i \in DOMAIN folded : \E j \in DOMAIN longer : folded[i] = longer[j]
    BY <1>0, <2>4, <2>6, NewestOrdered
  <2>9. ASSUME NEW s \in all PROVE Kept(folded, all \cup {sample}, s)
    <3>1. Kept(buf, all, s) /\ s \in Nat
      OBVIOUS
    <3>2. CASE \E i \in DOMAIN buf : buf[i] = s
      <4>1. \E i \in DOMAIN longer : longer[i] = s
        BY <2>5, <3>2
      <4> QED
        BY <1>0, <1>1, <2>7, <4>1 DEF Kept
    <3>3. CASE \E r \in all : r > s /\ Bar(r) = Bar(s)
      BY <3>3 DEF Kept
    <3>4. CASE Len(buf) >= Cap /\ buf # <<>> /\ s < buf[1]
      <4>1. Len(folded) = Cap /\ folded[1] > buf[1]
        BY <1>0, <2>5, <2>7, <3>4
      <4>2. folded[1] \in Nat
        BY <1>1
      <4>3. s < folded[1]
        BY <2>5, <3>1, <3>4, <4>1, <4>2
      <4> QED
        BY <1>0, <1>1, <4>1, <4>3 DEF Kept
    <3> QED
      BY <3>1, <3>2, <3>3, <3>4 DEF Kept
  <2>10. \A i \in DOMAIN folded : folded[i] = sample \/ \E j \in DOMAIN buf : folded[i] = buf[j]
    BY <2>4, <2>8
  <2> QED
    BY <1>2, <2>7, <2>9, <2>10 DEF Bounded, folded
<1>5. CASE buf # <<>> /\ ~(Bar(sample) > Bar(Last(buf)))
  <2>1. folded = [buf EXCEPT ![Len(buf)] = sample]
    BY <1>5 DEF Fold
  <2>2. /\ Len(buf) \in DOMAIN buf /\ Last(buf) = buf[Len(buf)]
        /\ Last(buf) \in Nat /\ Last(buf) <= sample
    BY <1>5 DEF Last
  <2>3. Bar(sample) = Bar(Last(buf))
    BY <1>5, <2>2, BarsInOrder
  <2>4. /\ DOMAIN folded = DOMAIN buf /\ Len(folded) = Len(buf)
        /\ \A i \in DOMAIN buf : folded[i] = IF i = Len(buf) THEN sample ELSE buf[i]
    BY <2>1
  <2> HIDE DEF folded
  <2>5. ASSUME NEW s \in all PROVE Kept(folded, all \cup {sample}, s)
    <3>1. Kept(buf, all, s) /\ s \in Nat
      OBVIOUS
    <3>2. CASE \E i \in DOMAIN buf : buf[i] = s
      <4>1. PICK i \in DOMAIN buf : buf[i] = s
        BY <3>2
      <4>2. CASE i # Len(buf) \/ s = sample
        BY <2>4, <4>1, <4>2 DEF Kept
      <4>3. CASE i = Len(buf) /\ s # sample
        <5>1. sample > s /\ Bar(sample) = Bar(s)
          BY <2>2, <2>3, <3>1, <4>1, <4>3
        <5> QED
          BY <5>1 DEF Kept
      <4> QED
        BY <4>2, <4>3
    <3>3. CASE \E r \in all : r > s /\ Bar(r) = Bar(s)
      BY <3>3 DEF Kept
    <3>4. CASE Len(buf) >= Cap /\ buf # <<>> /\ s < buf[1]
      <4>1. 1 \in DOMAIN buf /\ buf[1] \in Nat /\ buf[1] <= sample
        BY <1>5
      <4>2. folded[1] = sample \/ folded[1] = buf[1]
        BY <2>4, <4>1
      <4>3. s < folded[1]
        BY <3>1, <3>4, <4>1, <4>2
      <4> QED
        BY <1>1, <2>4, <3>4, <4>3 DEF Kept
    <3> QED
      BY <3>1, <3>2, <3>3, <3>4 DEF Kept
  <2>6. \A i \in DOMAIN folded : folded[i] = sample \/ \E j \in DOMAIN buf : folded[i] = buf[j]
    BY <2>4
  <2>7. Bounded(folded)
    BY <2>4 DEF Bounded
  <2> QED
    BY <1>2, <2>5, <2>6, <2>7 DEF folded
<1> QED
  BY <1>3, <1>4, <1>5

LEMMA NextKept ==
  ASSUME FeedAssumption, FeedInv, KeptInv, [Next]_vars
  PROVE  KeptInv'
<1>1. CASE \E m \in Netuids : Receive(m)
  <2>1. PICK m \in Netuids : Receive(m)
    BY <1>1
  <2> DEFINE sample == Head(pipe[m])
  <2>2. /\ pipe[m] \in Seq(Nat) /\ pipe[m] # <<>> /\ buffer[m] \in Seq(Nat)
        /\ Sorted(buffer[m]) /\ Behind(m) /\ Accounted(m)
        /\ buffer' = [buffer EXCEPT ![m] = Fold(buffer[m], sample)]
        /\ received' = [received EXCEPT ![m] = received[m] \cup {sample}]
    BY <2>1 DEF Receive, FeedInv, Samples, Ordered, KeptInv
  <2>3. sample \in Nat /\ \A i \in DOMAIN buffer[m] : buffer[m][i] <= sample
    <3>1. sample = pipe[m][1] /\ 1 \in DOMAIN pipe[m]
      BY <2>2
    <3> QED
      BY <2>2, <3>1 DEF Behind
  <2> HIDE DEF sample
  <2>4. /\ \A s \in received[m] \cup {sample} :
             Kept(Fold(buffer[m], sample), received[m] \cup {sample}, s)
        /\ \A i \in DOMAIN Fold(buffer[m], sample) :
             \/ Fold(buffer[m], sample)[i] = sample
             \/ \E j \in DOMAIN buffer[m] : Fold(buffer[m], sample)[i] = buffer[m][j]
        /\ Bounded(Fold(buffer[m], sample))
    BY <2>2, <2>3, FoldAccounts DEF Accounted
  <2>5. received' \in [Netuids -> SUBSET Nat]
    BY <2>2, <2>3 DEF KeptInv
  <2>6. ASSUME NEW n \in Netuids PROVE Accounted(n)'
    <3>1. CASE n = m
      <4>1. buffer'[n] = Fold(buffer[m], sample) /\ received'[n] = received[m] \cup {sample}
        BY <2>2, <3>1 DEF FeedInv, Samples, KeptInv
      <4> QED
        BY <2>2, <2>3, <2>4, <4>1 DEF Accounted, Kept, Bounded
    <3>2. CASE n # m
      BY <2>2, <3>2 DEF FeedInv, Samples, KeptInv, Accounted, Kept, Bounded
    <3> QED
      BY <3>1, <3>2
  <2> QED
    BY <2>5, <2>6 DEF KeptInv
<1>2. CASE \E m \in Netuids : SeedSubnet(m)
  <2>1. PICK m \in Netuids : SeedSubnet(m)
    BY <1>2
  <2> DEFINE rows == SeedRows(published[m])
  <2>2. /\ buffer' = [buffer EXCEPT ![m] = rows]
        /\ received' = [received EXCEPT ![m] = Range(rows)]
        /\ published[m] \in Seq(Nat) /\ Sorted(published[m])
    BY <2>1 DEF SeedSubnet, FeedInv, Samples, Ordered
  <2>3. rows \in Seq(Nat) /\ Len(rows) <= SeedLimit
    BY <2>2, SeedOrdered
  <2> HIDE DEF rows
  <2>4. Range(rows) = {rows[i] : i \in DOMAIN rows} /\ Range(rows) \subseteq Nat
    BY <2>3 DEF Range
  <2>5. received' \in [Netuids -> SUBSET Nat]
    BY <2>2, <2>4 DEF KeptInv
  <2>6. ASSUME NEW n \in Netuids PROVE Accounted(n)'
    <3>1. CASE n = m
      BY <2>2, <2>3, <2>4, <3>1 DEF FeedInv, Samples, KeptInv, Accounted, Kept, Bounded
    <3>2. CASE n # m
      BY <2>2, <3>2 DEF FeedInv, Samples, KeptInv, Accounted, Kept, Bounded
    <3> QED
      BY <3>1, <3>2
  <2> QED
    BY <2>5, <2>6 DEF KeptInv
<1>3. CASE UNCHANGED <<buffer, received>>
  BY <1>3 DEF KeptInv, Accounted, Kept, Bounded
<1> QED
  BY <1>1, <1>2, <1>3 DEF Next, Client, vars, ListSubnets, StartStream, Connect, Retry,
     Refuse, Disconnect, Shutdown, Publish, SeedFails, Unreadable

\* NewestPerBarKept: of every bar a buffer keeps the newest sample received, until
\* the cut lets the bar go, whatever seeds, greetings and losses came; and the
\* cut never lets a buffer grow past its cap or its seed.
THEOREM NewestOfBarKept == Spec => []NewestPerBarKept
<1>1. Init => KeptInv
  BY FeedAssumption DEF FeedAssumption, Init, Nothing, KeptInv, Accounted, Kept, Bounded
<1>2. KeptInv => NewestPerBarKept
  <2> SUFFICES ASSUME KeptInv, NEW n \in Netuids
               PROVE  /\ \A s \in received[n] :
                           \/ s \in Range(buffer[n])
                           \/ \E r \in received[n] : r > s /\ Bar(r) = Bar(s)
                           \/ Len(buffer[n]) >= Cap /\ s < buffer[n][1]
                      /\ Len(buffer[n]) <= Cap \/ Len(buffer[n]) <= SeedLimit
    BY DEF NewestPerBarKept
  <2> QED
    BY DEF KeptInv, Accounted, Kept, Bounded, Range
<1> QED
  BY <1>1, <1>2, FeedAssumption, FeedInvariant, NextKept, PTL DEF Spec

-------------------------------------------------------------------------------
(* The search.  On ordered rows the recursion of RowAtOrBefore has a       *)
(* closed form, and no other solution.                                     *)

\* step is the recursive function the row is read from.
Searches(step, rows, t) ==
  step = [s \in Search(rows) |->
            LET mid == (s.lo + s.hi) \div 2
            IN  IF s.lo > s.hi THEN s.chosen
                ELSE IF rows[mid + 1] <= t
                THEN step[[lo |-> mid + 1, hi |-> s.hi, chosen |-> mid]]
                ELSE step[[lo |-> s.lo, hi |-> mid - 1, chosen |-> s.chosen]]]

\* The two ways a round goes on.
Right(s, mid) == [lo |-> mid + 1, hi |-> s.hi, chosen |-> mid]
Left(s, mid) == [lo |-> s.lo, hi |-> mid - 1, chosen |-> s.chosen]

\* What the search finds when p rows are at or before t.
Outcome(p, s) ==
  IF s.lo > s.hi \/ p <= s.lo THEN s.chosen ELSE IF s.hi < p - 1 THEN s.hi ELSE p - 1

Closed(rows, p) == [s \in Search(rows) |-> Outcome(p, s)]

LEMMA Middle ==
  ASSUME NEW lo \in Int, NEW hi \in Int, lo <= hi
  PROVE  LET mid == (lo + hi) \div 2 IN mid \in lo .. hi
BY Z3

\* One round of the search, on the closed form.
LEMMA Round ==
  ASSUME NEW rows \in Seq(Nat), NEW p \in 0 .. Len(rows), NEW s \in Search(rows),
         NEW mid \in s.lo .. s.hi
  PROVE  /\ mid \in Int /\ mid + 1 \in DOMAIN rows
         /\ Right(s, mid) \in Search(rows) /\ Left(s, mid) \in Search(rows)
         /\ mid + 1 <= p => Outcome(p, s) = Outcome(p, Right(s, mid))
         /\ ~(mid + 1 <= p) => Outcome(p, s) = Outcome(p, Left(s, mid))
<1>1. /\ Len(rows) \in Nat /\ DOMAIN rows = 1 .. Len(rows)
      /\ s.lo \in 0 .. Len(rows) /\ s.hi \in -1 .. (Len(rows) - 1)
      /\ s.chosen \in -1 .. (Len(rows) - 1)
  BY DEF Search
<1>2. /\ mid \in Int /\ mid + 1 \in 0 .. Len(rows) /\ mid - 1 \in -1 .. (Len(rows) - 1)
      /\ mid \in -1 .. (Len(rows) - 1) /\ mid + 1 \in DOMAIN rows
      /\ s.lo <= mid /\ mid <= s.hi
  BY <1>1
<1>3. /\ Right(s, mid) \in Search(rows) /\ Left(s, mid) \in Search(rows)
      /\ Right(s, mid).lo = mid + 1 /\ Right(s, mid).hi = s.hi /\ Right(s, mid).chosen = mid
      /\ Left(s, mid).lo = s.lo /\ Left(s, mid).hi = mid - 1 /\ Left(s, mid).chosen = s.chosen
  BY <1>1, <1>2 DEF Search, Right, Left
<1>4. p \in Int /\ s.lo \in Int /\ s.hi \in Int
  BY <1>1
<1>5. mid + 1 <= p => Outcome(p, s) = Outcome(p, Right(s, mid))
  BY <1>2, <1>3, <1>4 DEF Outcome
<1>6. ~(mid + 1 <= p) => Outcome(p, s) = Outcome(p, Left(s, mid))
  BY <1>2, <1>3, <1>4 DEF Outcome
<1>. QED
  BY <1>2, <1>3, <1>5, <1>6

LEMMA ClosedSearches ==
  ASSUME NEW rows \in Seq(Nat), NEW t \in Nat, NEW p \in 0 .. Len(rows),
         \A i \in DOMAIN rows : rows[i] <= t <=> i <= p
  PROVE  Searches(Closed(rows, p), rows, t)
<1>. DEFINE g == Closed(rows, p)
<1>1. \A s \in Search(rows) : g[s] = Outcome(p, s)
  BY DEF Closed
<1>. HIDE DEF g
<1>2. ASSUME NEW s \in Search(rows)
      PROVE  LET mid == (s.lo + s.hi) \div 2
             IN  Outcome(p, s)
                   = IF s.lo > s.hi THEN s.chosen
                     ELSE IF rows[mid + 1] <= t
                     THEN g[[lo |-> mid + 1, hi |-> s.hi, chosen |-> mid]]
                     ELSE g[[lo |-> s.lo, hi |-> mid - 1, chosen |-> s.chosen]]
  <2>1. CASE s.lo > s.hi
    BY <2>1 DEF Outcome
  <2>2. CASE ~(s.lo > s.hi)
    <3>. DEFINE mid == (s.lo + s.hi) \div 2
    <3>1. mid \in s.lo .. s.hi
      <4>1. s.lo \in Int /\ s.hi \in Int /\ s.lo <= s.hi
        BY <2>2 DEF Search
      <4>. QED
        BY <4>1, Middle
    <3>. HIDE DEF mid
    <3>2. /\ mid + 1 \in DOMAIN rows
          /\ Right(s, mid) \in Search(rows) /\ Left(s, mid) \in Search(rows)
          /\ mid + 1 <= p => Outcome(p, s) = Outcome(p, Right(s, mid))
          /\ ~(mid + 1 <= p) => Outcome(p, s) = Outcome(p, Left(s, mid))
      BY <3>1, Round
    <3>3. rows[mid + 1] <= t <=> mid + 1 <= p
      BY <3>2
    <3>4. Outcome(p, s)
            = IF rows[mid + 1] <= t THEN g[Right(s, mid)] ELSE g[Left(s, mid)]
      BY <1>1, <3>2, <3>3
    <3>. QED
      BY <2>2, <3>4 DEF mid, Right, Left
  <2>. QED
    BY <2>1, <2>2
<1>. QED
  BY <1>2 DEF Searches, Closed, g

\* How much of the rows is left to search.
Span(s) == IF s.lo > s.hi THEN 0 ELSE s.hi - s.lo + 1

\* A shortest range on which two solutions differed would halve into a shorter one.
LEMMA SearchesAgree ==
  ASSUME NEW rows \in Seq(Nat), NEW t \in Nat, NEW f, Searches(f, rows, t),
         NEW g, Searches(g, rows, t)
  PROVE  \A s \in Search(rows) : f[s] = g[s]
<1>. DEFINE bad == {s \in Search(rows) : f[s] # g[s]}
            spans == {Span(s) : s \in bad}
<1>0. \A s \in Search(rows) : Span(s) \in Nat
  <2>1. \A s \in Search(rows) : s.lo \in Int /\ s.hi \in Int
    BY DEF Search
  <2>. QED
    BY <2>1 DEF Span
<1>1. ASSUME NEW h, Searches(h, rows, t), NEW s \in Search(rows)
      PROVE  LET mid == (s.lo + s.hi) \div 2
             IN  h[s] = IF s.lo > s.hi THEN s.chosen
                        ELSE IF rows[mid + 1] <= t THEN h[Right(s, mid)]
                        ELSE h[Left(s, mid)]
  <2>1. h = [r \in Search(rows) |->
               LET mid == (r.lo + r.hi) \div 2
               IN  IF r.lo > r.hi THEN r.chosen
                   ELSE IF rows[mid + 1] <= t THEN h[Right(r, mid)]
                   ELSE h[Left(r, mid)]]
    BY <1>1 DEF Searches, Right, Left
  <2>. QED
    BY <2>1
<1>. SUFFICES ASSUME NEW other \in Search(rows), f[other] # g[other] PROVE FALSE
  OBVIOUS
<1>2. PICK k \in spans : \A m \in spans : k <= m
  <2>1. spans \subseteq Nat /\ spans # {}
    <3>1. other \in bad
      OBVIOUS
    <3>2. \A s \in bad : s \in Search(rows)
      OBVIOUS
    <3>. HIDE DEF bad
    <3>. QED
      BY <1>0, <3>1, <3>2
  <2>. HIDE DEF spans
  <2>. QED
    BY <2>1, LeastElement
<1>3. PICK s \in bad : k = Span(s)
  OBVIOUS
<1>4. s \in Search(rows) /\ f[s] # g[s]
  OBVIOUS
<1>5. \A r \in Search(rows) : f[r] # g[r] => Span(s) <= Span(r)
  BY <1>2, <1>3
<1>. HIDE DEF bad, spans
<1>. DEFINE mid == (s.lo + s.hi) \div 2
<1>6. /\ f[s] = IF s.lo > s.hi THEN s.chosen
                ELSE IF rows[mid + 1] <= t THEN f[Right(s, mid)] ELSE f[Left(s, mid)]
      /\ g[s] = IF s.lo > s.hi THEN s.chosen
                ELSE IF rows[mid + 1] <= t THEN g[Right(s, mid)] ELSE g[Left(s, mid)]
  BY <1>1, <1>4
<1>7. s.lo \in Int /\ s.hi \in Int /\ s.lo <= s.hi
  BY <1>4, <1>6 DEF Search
<1>8. mid \in s.lo .. s.hi
  BY <1>7, Middle
<1>. HIDE DEF mid
<1>9. Right(s, mid) \in Search(rows) /\ Left(s, mid) \in Search(rows) /\ mid \in Int
  <2>1. 0 \in 0 .. Len(rows)
    OBVIOUS
  <2>. QED
    BY <1>4, <1>8, <2>1, Round
<1>10. Span(Right(s, mid)) < Span(s) /\ Span(Left(s, mid)) < Span(s)
  BY <1>7, <1>8, <1>9 DEF Span, Right, Left
<1>11. /\ Span(s) \in Nat /\ Span(Right(s, mid)) \in Nat /\ Span(Left(s, mid)) \in Nat
  BY <1>0, <1>4, <1>9
<1>12. f[Right(s, mid)] = g[Right(s, mid)] /\ f[Left(s, mid)] = g[Left(s, mid)]
  BY <1>5, <1>9, <1>10, <1>11
<1>. QED
  BY <1>4, <1>6, <1>12

\* How many rows of an ordered buffer are at or before a time.
LEMMA RowsBefore ==
  ASSUME NEW rows \in Seq(Nat), Sorted(rows), NEW t \in Nat
  PROVE  \E p \in 0 .. Len(rows) : \A i \in DOMAIN rows : rows[i] <= t <=> i <= p
<1>. DEFINE past == {i \in DOMAIN rows : rows[i] <= t}
<1>1. Len(rows) \in Nat /\ DOMAIN rows = 1 .. Len(rows)
      /\ \A i \in DOMAIN rows : rows[i] \in Nat
  OBVIOUS
<1>2. CASE past = {}
  <2>1. \A i \in DOMAIN rows : rows[i] <= t <=> i <= 0
    BY <1>1, <1>2
  <2>. QED
    BY <1>1, <2>1
<1>3. CASE past # {}
  <2>1. Max(past) \in past /\ \A y \in past : Max(past) >= y
    <3>1. past \subseteq 0 .. Len(rows)
      BY <1>1
    <3>. HIDE DEF past
    <3>. QED
      BY <1>1, <1>3, <3>1, GreatestElement
  <2>2. PICK p \in past : \A y \in past : p >= y
    BY <2>1
  <2>3. ASSUME NEW i \in DOMAIN rows, i <= p PROVE rows[i] <= t
    <3>1. CASE i = p
      BY <2>2, <3>1
    <3>2. CASE i < p
      BY <1>1, <2>2, <3>2 DEF Sorted
    <3>. QED
      BY <1>1, <2>2, <2>3, <3>1, <3>2
  <2>4. p \in 0 .. Len(rows)
    BY <1>1, <2>2
  <2>5. \A i \in DOMAIN rows : rows[i] <= t => i <= p
    BY <2>2
  <2>. QED
    BY <2>3, <2>4, <2>5
<1>. QED
  BY <1>2, <1>3

\* The search finds the last of them, and the first row if there is none.
LEMMA RowFound ==
  ASSUME NEW rows \in Seq(Nat), rows # <<>>, NEW t \in Nat, NEW p \in 0 .. Len(rows),
         \A i \in DOMAIN rows : rows[i] <= t <=> i <= p
  PROVE  RowAtOrBefore(rows, t) = IF p = 0 THEN rows[1] ELSE rows[p]
<1>. DEFINE step == CHOOSE g : Searches(g, rows, t)
            start == [lo |-> 0, hi |-> Len(rows) - 1, chosen |-> -1]
            found == step[start]
<1>1. RowAtOrBefore(rows, t) = IF found = -1 THEN rows[1] ELSE rows[found + 1]
  BY DEF RowAtOrBefore, Searches
<1>2. Searches(Closed(rows, p), rows, t)
  BY ClosedSearches
<1>3. Searches(step, rows, t)
  BY <1>2
<1>. HIDE DEF step
<1>4. Len(rows) \in Nat /\ 0 < Len(rows)
  OBVIOUS
<1>5. start \in Search(rows)
  BY <1>4 DEF Search
<1>6. found = Outcome(p, start)
  <2>1. found = Closed(rows, p)[start]
    BY <1>2, <1>3, <1>5, SearchesAgree
  <2>. QED
    BY <1>5, <2>1 DEF Closed
<1>7. found = p - 1
  BY <1>4, <1>6 DEF Outcome
<1>. HIDE DEF found
<1>. QED
  BY <1>1, <1>7

\* _row_at_or_before keeps its docstring on every ordered buffer: the search by
\* halves finds the row that the newest timestamp at or before t belongs to.
THEOREM SearchIsRowInForce ==
  ASSUME NEW n \in Netuids, buffer[n] \in Seq(Nat), buffer[n] # <<>>, Sorted(buffer[n]),
         NEW t \in Nat
  PROVE  /\ RowAtOrBefore(buffer[n], t) = RowInForce(n, t)
         /\ \E i \in DOMAIN buffer[n] : RowInForce(n, t) = buffer[n][i]
<1>. DEFINE rows == buffer[n]
            past == {s \in Range(rows) : s <= t}
<1>1. PICK p \in 0 .. Len(rows) : \A i \in DOMAIN rows : rows[i] <= t <=> i <= p
  BY RowsBefore
<1>2. RowAtOrBefore(rows, t) = IF p = 0 THEN rows[1] ELSE rows[p]
  BY <1>1, RowFound
<1>3. /\ Len(rows) \in Nat /\ Len(rows) > 0 /\ DOMAIN rows = 1 .. Len(rows)
      /\ \A i \in DOMAIN rows : rows[i] \in Nat
  OBVIOUS
<1>4. past = {rows[i] : i \in 1 .. p}
  BY <1>1, <1>3 DEF Range
<1>5. RowInForce(n, t) = IF past = {} THEN rows[1] ELSE Max(past)
  BY DEF RowInForce
<1>6. CASE p = 0
  <2>1. past = {}
    BY <1>4, <1>6
  <2>. QED
    BY <1>2, <1>3, <1>5, <1>6, <2>1
<1>7. CASE p # 0
  <2>1. p \in 1 .. p /\ p \in DOMAIN rows /\ rows[p] \in past
    BY <1>1, <1>3, <1>4, <1>7
  <2>2. ASSUME NEW s \in past PROVE s \in Nat /\ rows[p] >= s
    <3>1. PICK i \in 1 .. p : s = rows[i]
      BY <1>4
    <3>2. i = p \/ rows[i] < rows[p]
      <4>1. Sorted(rows) /\ i \in DOMAIN rows /\ p \in DOMAIN rows
        BY <1>3, <2>1
      <4>2. i = p \/ i < p
        BY <1>3, <2>1
      <4>. HIDE DEF rows
      <4>. QED
        BY <4>1, <4>2 DEF Sorted
    <3>. QED
      BY <1>3, <2>1, <3>1, <3>2
  <2>. HIDE DEF past
  <2>3. Max(past) = rows[p]
    <3>1. Max(past) \in past /\ \A y \in past : Max(past) >= y
      BY <2>1, <2>2 DEF Max
    <3>. QED
      BY <2>1, <2>2, <3>1
  <2>. QED
    BY <1>2, <1>5, <1>7, <2>1, <2>3
<1>. QED
  BY <1>6, <1>7

-------------------------------------------------------------------------------
(* The benchmark.  Its rows carry times the upstream published.            *)

Dated(seq) == \A i \in DOMAIN seq : seq[i] >= 1

ClockInv ==
  /\ now <= MaxTime
  /\ \A n \in Netuids : Dated(published[n]) /\ Dated(buffer[n]) /\ Dated(pipe[n])

LEMMA FoldDated ==
  ASSUME FeedAssumption, NEW buf \in Seq(Nat), NEW sample \in Nat, sample >= 1,
         Dated(buf), Sorted(buf), \A i \in DOMAIN buf : buf[i] <= sample
  PROVE  Dated(Fold(buf, sample))
<1>1. CASE buf = <<>>
  BY <1>1 DEF Fold, Dated
<1>2. CASE buf # <<>> /\ Bar(sample) > Bar(Last(buf))
  <2>. DEFINE longer == Append(buf, sample)
  <2>1. Last(buf) = buf[Len(buf)] /\ Len(buf) \in DOMAIN buf
    BY <1>2 DEF Last
  <2>2. Last(buf) # sample
    BY <1>2 DEF Bar
  <2>3. \A i \in DOMAIN buf : buf[i] < sample
    BY <2>1, <2>2 DEF Sorted
  <2>4. /\ longer \in Seq(Nat) /\ Sorted(longer)
        /\ \A i \in DOMAIN longer :
             \/ i \in DOMAIN buf /\ longer[i] = buf[i]
             \/ longer[i] = sample
    BY <2>3, AppendOrdered
  <2>5. Dated(longer)
    BY <2>4 DEF Dated
  <2>6. Fold(buf, sample) = Newest(longer, Cap)
    BY <1>2 DEF Fold
  <2>. HIDE DEF longer
  <2>7. \A i \in DOMAIN Newest(longer, Cap) :
          \E j \in DOMAIN longer : Newest(longer, Cap)[i] = longer[j]
    BY <2>4, NewestOrdered DEF FeedAssumption
  <2>. QED
    BY <2>5, <2>6, <2>7 DEF Dated
<1>3. CASE buf # <<>> /\ ~(Bar(sample) > Bar(Last(buf)))
  <2>1. Fold(buf, sample) = [buf EXCEPT ![Len(buf)] = sample]
    BY <1>3 DEF Fold
  <2>. QED
    BY <1>3, <2>1 DEF Dated
<1>. QED
  BY <1>1, <1>2, <1>3

LEMMA NextClock ==
  ASSUME FeedAssumption, FeedInv, ClockInv, [Next]_vars
  PROVE  ClockInv'
<1>0. /\ now \in Nat /\ MaxTime \in Nat
      /\ \A n \in Netuids :
           /\ published[n] \in Seq(Nat) /\ buffer[n] \in Seq(Nat) /\ pipe[n] \in Seq(Nat)
           /\ Ordered(n) /\ Behind(n)
           /\ Dated(published[n]) /\ Dated(buffer[n]) /\ Dated(pipe[n])
  BY DEF FeedAssumption, FeedInv, Samples, ClockInv
<1>1. CASE \E m \in Netuids : Publish(m)
  <2>1. PICK m \in Netuids : Publish(m)
    BY <1>1
  <2>2. /\ now' = now + 1 /\ now < MaxTime /\ buffer' = buffer
        /\ published' = [published EXCEPT ![m] = Append(@, now')]
        /\ pipe' = [pipe EXCEPT ![m] = Append(@, now')] \/ pipe' = pipe
    BY <2>1 DEF Publish
  <2>3. ASSUME NEW s \in Seq(Nat), Dated(s) PROVE Dated(Append(s, now'))
    <3>1. now' >= 1
      BY <1>0, <2>2
    <3>2. \A i \in DOMAIN Append(s, now') :
            (i \in DOMAIN s /\ Append(s, now')[i] = s[i]) \/ Append(s, now')[i] = now'
      BY <2>3
    <3>. QED
      BY <2>3, <3>1, <3>2 DEF Dated
  <2>4. now' <= MaxTime
    BY <1>0, <2>2
  <2>5. ASSUME NEW n \in Netuids
        PROVE  Dated(published'[n]) /\ Dated(buffer'[n]) /\ Dated(pipe'[n])
    <3>1. published'[n] = published[n] \/ published'[n] = Append(published[n], now')
      BY <2>2 DEF FeedInv, Samples
    <3>2. pipe'[n] = pipe[n] \/ pipe'[n] = Append(pipe[n], now')
      BY <2>2 DEF FeedInv, Samples
    <3>. QED
      BY <1>0, <2>2, <2>3, <3>1, <3>2
  <2>. QED
    BY <2>4, <2>5 DEF ClockInv
<1>2. CASE \E m \in Netuids : SeedSubnet(m)
  <2>1. PICK m \in Netuids : SeedSubnet(m)
    BY <1>2
  <2>2. /\ buffer' = [buffer EXCEPT ![m] = SeedRows(published[m])]
        /\ UNCHANGED <<now, published, pipe>>
    BY <2>1 DEF SeedSubnet, upstream
  <2>3. Dated(SeedRows(published[m]))
    <3>1. \A i \in DOMAIN SeedRows(published[m]) :
            \E j \in DOMAIN published[m] : SeedRows(published[m])[i] = published[m][j]
      BY <1>0, SeedOrdered DEF Ordered
    <3>. QED
      BY <1>0, <3>1 DEF Dated
  <2>. QED
    BY <1>0, <2>2, <2>3 DEF ClockInv, FeedInv, Samples
<1>3. CASE \E m \in Netuids : Receive(m)
  <2>1. PICK m \in Netuids : Receive(m)
    BY <1>3
  <2>. DEFINE sample == Head(pipe[m])
  <2>2. /\ pipe[m] # <<>>
        /\ buffer' = [buffer EXCEPT ![m] = Fold(buffer[m], sample)]
        /\ pipe' = [pipe EXCEPT ![m] = Tail(pipe[m])]
        /\ UNCHANGED <<now, published>>
    BY <2>1 DEF Receive, upstream
  <2>3. /\ 1 \in DOMAIN pipe[m] /\ sample = pipe[m][1] /\ sample \in Nat
        /\ \A i \in DOMAIN Tail(pipe[m]) :
             i + 1 \in DOMAIN pipe[m] /\ Tail(pipe[m])[i] = pipe[m][i + 1]
    BY <1>0, <2>2
  <2>4. Dated(Tail(pipe[m]))
    BY <1>0, <2>3 DEF Dated
  <2>5. Dated(Fold(buffer[m], sample))
    <3>1. sample >= 1 /\ Sorted(buffer[m]) /\ \A i \in DOMAIN buffer[m] : buffer[m][i] <= sample
      BY <1>0, <2>3 DEF Dated, Ordered, Behind
    <3>. QED
      BY <1>0, <2>3, <3>1, FoldDated
  <2>. HIDE DEF sample
  <2>. QED
    BY <1>0, <2>2, <2>4, <2>5 DEF ClockInv, FeedInv, Samples
<1>4. CASE Connect
  <2>1. UNCHANGED <<now, published, buffer>>
    BY <1>4 DEF Connect, upstream
  <2>2. ASSUME NEW n \in Netuids PROVE Dated(pipe'[n])
    <3>1. \/ pipe'[n] = <<>>
          \/ pipe'[n] = <<Last(published[n])>> /\ published[n] # <<>>
      BY <1>4 DEF Connect
    <3>2. published[n] # <<>> => Last(published[n]) >= 1
      <4>1. published[n] # <<>> => Len(published[n]) \in DOMAIN published[n]
        BY <1>0
      <4>. QED
        BY <1>0, <4>1 DEF Last, Dated
    <3>. QED
      BY <3>1, <3>2 DEF Dated
  <2>. QED
    BY <2>1, <2>2 DEF ClockInv
<1>5. CASE \E m \in Netuids : Unreadable(m)
  <2>1. PICK m \in Netuids : Unreadable(m)
    BY <1>5
  <2>2. /\ pipe[m] # <<>> /\ pipe' = [pipe EXCEPT ![m] = Tail(pipe[m])]
        /\ UNCHANGED <<now, published, buffer>>
    BY <2>1 DEF Unreadable, upstream
  <2>3. \A i \in DOMAIN Tail(pipe[m]) :
          i + 1 \in DOMAIN pipe[m] /\ Tail(pipe[m])[i] = pipe[m][i + 1]
    BY <1>0, <2>2
  <2>4. Dated(Tail(pipe[m]))
    BY <1>0, <2>3 DEF Dated
  <2>. QED
    BY <1>0, <2>2, <2>4 DEF ClockInv, FeedInv, Samples
<1>6. CASE /\ UNCHANGED <<now, published, buffer>>
           /\ pipe' = pipe \/ pipe' = Nothing
  BY <1>0, <1>6 DEF ClockInv, Nothing, Dated
<1>. QED
  BY <1>1, <1>2, <1>3, <1>4, <1>5, <1>6 DEF Next, Client, vars, upstream, ListSubnets,
     StartStream, Retry, Refuse, Disconnect, Shutdown, SeedFails

LEMMA Divides ==
  ASSUME NEW u \in Nat \ {0}, NEW d \in Nat \ {0}, u % d = 0
  PROVE  u \div d \in Nat \ {0} /\ (u \div d) * d = u
BY Z3

\* What the basket costs at the anchor and is worth later: one weight per
\* subnet, at two prices.
LEMMA BasketWeights ==
  ASSUME FeedInv, ClockInv, NEW anchor \in 0 .. now, NEW t \in 0 .. now,
         NEW n \in Netuids, buffer[n] # <<>>, Qualifies(RowInForce(n, anchor))
  PROVE  LET row == RowInForce(n, anchor)
         IN  /\ Holding(n, anchor) \in Nat \ {0}
             /\ TaoIn[row] \in Nat
             /\ AlphaPrice[row] \in Nat
             /\ AlphaPrice[RowInForce(n, t)] \in Nat
             /\ Holding(n, anchor) * AlphaPrice[row] = (Capital * PriceUnit) * TaoIn[row]
<1>. DEFINE row == RowInForce(n, anchor)
            later == RowInForce(n, t)
            share == PriceUnit \div AlphaPrice[row]
<1>1. /\ buffer[n] \in Seq(Nat) /\ Sorted(buffer[n]) /\ Dated(buffer[n])
      /\ now \in Nat /\ MaxTime \in Nat /\ now <= MaxTime
  BY FeedAssumption DEF FeedAssumption, FeedInv, Samples, Ordered, ClockInv
<1>2. \A i \in DOMAIN buffer[n] : buffer[n][i] \in 1 .. MaxTime
  <2>1. /\ published[n] \in Seq(Nat) /\ Past(buffer[n], published[n])
        /\ \A i \in DOMAIN published[n] : published[n][i] <= now
    BY DEF FeedInv, Samples, Ordered
  <2>2. published[n] # <<>> /\ Len(published[n]) \in DOMAIN published[n]
    BY <2>1 DEF Past
  <2>3. ASSUME NEW i \in DOMAIN buffer[n] PROVE buffer[n][i] \in 1 .. MaxTime
    <3>1. buffer[n][i] \in Nat /\ buffer[n][i] >= 1
      BY <1>1 DEF Dated
    <3>2. buffer[n][i] <= published[n][Len(published[n])]
      BY <2>1 DEF Past
    <3>3. published[n][Len(published[n])] \in Nat /\ published[n][Len(published[n])] <= now
      BY <2>1, <2>2
    <3>. QED
      BY <1>1, <3>1, <3>2, <3>3
  <2>. QED
    BY <2>3
<1>3. row \in 1 .. MaxTime /\ later \in 1 .. MaxTime
      /\ RowAtOrBefore(buffer[n], anchor) = row
  <2>1. anchor \in Nat /\ t \in Nat
    BY <1>1
  <2>. QED
    BY <1>1, <1>2, <2>1, SearchIsRowInForce
<1>. HIDE DEF row, later
<1>4. /\ TaoIn[row] \in Nat /\ AlphaPrice[row] \in Nat /\ AlphaPrice[later] \in Nat
      /\ Capital \in Nat \ {0} /\ PriceUnit \in Nat \ {0} /\ MinDepth \in Nat \ {0}
      /\ AlphaPrice[row] # 0 => PriceUnit % AlphaPrice[row] = 0
  BY <1>3, BenchmarkAssumption
<1>5. TaoIn[row] # 0 /\ AlphaPrice[row] # 0
  BY <1>4 DEF Qualifies, row
<1>6. share \in Nat \ {0} /\ share * AlphaPrice[row] = PriceUnit
  BY <1>4, <1>5, Divides
<1>7. Holding(n, anchor) = Capital * TaoIn[row] * share
  BY <1>3 DEF Holding
<1>. HIDE DEF share
<1>8. ASSUME NEW c \in Nat \ {0}, NEW d \in Nat \ {0}, NEW s \in Nat \ {0}, NEW p \in Nat
      PROVE  c * d * s \in Nat \ {0} /\ (c * d * s) * p = (c * (s * p)) * d
  <2>1. c * d \in Nat \ {0}
    BY Z3
  <2>2. \A x \in Nat \ {0} : x * s \in Nat \ {0}
    BY Z3
  <2>3. (c * d * s) * p = (c * (s * p)) * d
    BY Z3
  <2>. QED
    BY <2>1, <2>2, <2>3
<1>9. /\ Holding(n, anchor) \in Nat \ {0}
      /\ Holding(n, anchor) * AlphaPrice[row] = (Capital * PriceUnit) * TaoIn[row]
  <2>. DEFINE c == Capital
              d == TaoIn[row]
              p == AlphaPrice[row]
  <2>1. c \in Nat \ {0} /\ d \in Nat \ {0} /\ p \in Nat
    BY <1>4, <1>5
  <2>2. Holding(n, anchor) = c * d * share /\ share * p = PriceUnit
    BY <1>6, <1>7
  <2>. HIDE DEF c, d, p
  <2>3. c * d * share \in Nat \ {0} /\ (c * d * share) * p = (c * (share * p)) * d
    BY <1>6, <1>8, <2>1
  <2>4. /\ Holding(n, anchor) \in Nat \ {0}
        /\ Holding(n, anchor) * p = (c * PriceUnit) * d
    BY <2>2, <2>3
  <2>. QED
    BY <2>4 DEF c, d, p
<1>. QED
  BY <1>4, <1>9 DEF row, later

\* The benchmark is worth its capital at the anchor, and never moves by less
\* than its worst subnet nor by more than its best: for every market whose prices
\* divide a unit, every set of excluded subnets and every depth asked for.
THEOREM BenchmarkBuysAndHolds == Spec => []BenchmarkIsBuyAndHold
<1>1. FeedInv /\ ClockInv => BenchmarkIsBuyAndHold
  <2>. SUFFICES ASSUME FeedInv, ClockInv, NEW anchor \in 0 .. now, NEW t \in anchor .. now
       PROVE  LET bought == {n \in Netuids \ Excluded :
                               buffer[n] # <<>> /\ Qualifies(RowInForce(n, anchor))}
                  worth == BenchmarkValue(anchor, t)
                  paid == Capital * Scale(anchor)
              IN  IF bought = {} THEN worth = Capital
                  ELSE /\ \E n \in bought : worth * AlphaPrice[RowInForce(n, anchor)]
                                              >= paid * AlphaPrice[RowInForce(n, t)]
                       /\ \E n \in bought : worth * AlphaPrice[RowInForce(n, anchor)]
                                              <= paid * AlphaPrice[RowInForce(n, t)]
    BY DEF BenchmarkIsBuyAndHold
  <2>. DEFINE bought == {n \in Netuids \ Excluded :
                           buffer[n] # <<>> /\ Qualifies(RowInForce(n, anchor))}
              worth == BenchmarkValue(anchor, t)
              paid == Capital * Scale(anchor)
              w == [n \in bought |-> Holding(n, anchor)]
              before == [n \in bought |-> AlphaPrice[RowInForce(n, anchor)]]
              after == [n \in bought |-> AlphaPrice[RowInForce(n, t)]]
              depth == [n \in bought |-> TaoIn[RowInForce(n, anchor)]]
              A == SumFunctionOnSet([n \in bought |-> w[n] * after[n]], bought)
              B == SumFunctionOnSet([n \in bought |-> w[n] * before[n]], bought)
  <2>1. now \in Nat /\ anchor \in Nat /\ t \in Nat /\ t \in 0 .. now
    BY DEF FeedInv, Samples
  <2>2. \A n \in Netuids : buffer[n] # <<>> =>
          /\ RowAtOrBefore(buffer[n], anchor) = RowInForce(n, anchor)
          /\ RowAtOrBefore(buffer[n], t) = RowInForce(n, t)
    BY <2>1, SearchIsRowInForce DEF FeedInv, Samples, Ordered
  <2>3. Basket(anchor) = bought
    BY <2>2 DEF Basket
  <2>4. CASE bought = {}
    BY <2>3, <2>4 DEF BenchmarkValue
  <2>5. CASE bought # {}
    <3>1. IsFiniteSet(bought)
      BY FeedAssumption, FS_Subset DEF FeedAssumption
    <3>2. \A n \in bought :
            /\ w[n] \in Nat \ {0} /\ before[n] \in Nat /\ after[n] \in Nat
            /\ depth[n] \in Nat
            /\ w[n] * before[n] = (Capital * PriceUnit) * depth[n]
      BY <2>1, BasketWeights
    <3>3. worth = A
      <4>1. [n \in bought |-> Holding(n, anchor) * AlphaPrice[RowAtOrBefore(buffer[n], t)]]
              = [n \in bought |-> w[n] * after[n]]
        BY <2>2
      <4>2. worth = SumFunction([n \in bought |->
                      Holding(n, anchor) * AlphaPrice[RowAtOrBefore(buffer[n], t)]])
        BY <2>3, <2>5 DEF BenchmarkValue
      <4>. QED
        BY <4>1, <4>2 DEF SumFunction
    <3>4. Scale(anchor) = SumFunctionOnSet(depth, bought) * PriceUnit
      <4>1. [n \in bought |-> TaoIn[RowAtOrBefore(buffer[n], anchor)]] = depth
        BY <2>2
      <4>2. Depth(anchor) = SumFunction(depth)
        BY <2>3, <4>1 DEF Depth
      <4>. QED
        BY <2>3, <2>5, <4>2 DEF Scale, SumFunction
    <3>5. B = paid
      <4>. DEFINE parts == [n \in bought |-> w[n] * before[n]]
      <4>1. \A n \in bought :
              depth[n] \in Int /\ parts[n] = (Capital * PriceUnit) * depth[n]
        <5>. HIDE DEF bought, w, before, depth
        <5>1. \A n \in bought : parts[n] = w[n] * before[n]
          OBVIOUS
        <5>. HIDE DEF parts
        <5>. QED
          BY <3>2, <5>1
      <4>. HIDE DEF parts, depth, bought
      <4>2. Capital \in Nat /\ PriceUnit \in Nat /\ Capital * PriceUnit \in Int
        BY BenchmarkAssumption, ProductNat
      <4>3. SumFunctionOnSet(parts, bought)
              = (Capital * PriceUnit) * SumFunctionOnSet(depth, bought)
        BY <3>1, <4>1, <4>2, SumScaled
      <4>4. SumFunctionOnSet(depth, bought) \in Int
        BY <3>1, <4>1, SumIsInt
      <4>5. \A c, u, d \in Int : (c * u) * d = c * (d * u)
        BY Z3
      <4>. QED
        BY <3>4, <4>2, <4>3, <4>4, <4>5 DEF parts
    <3>. HIDE DEF bought, w, before, after, depth, worth, paid
    <3>6. A \in Nat /\ B \in Nat /\ \E n \in bought : A * before[n] >= B * after[n]
      BY <2>5, <3>1, <3>2, MeanReached
    <3>7. \E n \in bought : B * after[n] >= A * before[n]
      BY <2>5, <3>1, <3>2, MeanReached
    <3>. HIDE DEF A, B
    <3>8. /\ \E n \in bought : worth * before[n] >= paid * after[n]
          /\ \E n \in bought : worth * before[n] <= paid * after[n]
      <4>1. \A n \in bought : A * before[n] \in Nat /\ B * after[n] \in Nat
        BY <3>2, <3>6, ProductNat
      <4>. QED
        BY <3>3, <3>5, <3>6, <3>7, <4>1
    <3>. QED
      BY <2>5, <3>8 DEF bought, before, after, worth, paid
  <2>. QED
    BY <2>4, <2>5
<1>2. Init => ClockInv
  BY FeedAssumption DEF FeedAssumption, Init, Nothing, ClockInv, Dated
<1>. QED
  BY <1>1, <1>2, FeedAssumption, FeedInvariant, NextClock, PTL DEF Spec
===============================================================================
