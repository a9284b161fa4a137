----------------------------- MODULE SnapshotFeed -----------------------------
(***************************************************************************)
(* OpenTaoAPIClient (server/api_client.py): the snapshot buffer, seeded    *)
(* once over HTTP and then kept by a task that folds the events of a       *)
(* stream into it, reconnecting for ever.  A sample is its timestamp, in   *)
(* units that divide a bar; its payload is never looked at here.  Subnets  *)
(* share one connection but their samples meet nowhere, so the bytes in    *)
(* flight are one queue per subnet.                                        *)
(***************************************************************************)
EXTENDS Integers, Sequences, FiniteSets, SequencesExt

CONSTANTS
  Netuids,
  BarLength,   \* bar_seconds
  Cap,         \* the 3000 bars a buffer is cut to
  SeedWindow,  \* hours=720 of the seeding request
  SeedLimit,   \* its limit=5000
  NoSample,    \* the None of _row_at_or_before
  MaxTime,     \* bound: the last timestamp the upstream publishes
  MaxFaults    \* bound: refusals, breaks and unreadable events

ASSUME FeedAssumption ==
  /\ IsFiniteSet(Netuids)
  /\ BarLength \in Nat \ {0}
  /\ Cap \in Nat \ {0}
  /\ SeedWindow \in Nat \ {0} /\ SeedLimit \in Nat \ {0}
  /\ MaxTime \in Nat /\ MaxFaults \in Nat
  /\ NoSample \notin Nat

VARIABLES
  published,   \* every sample of the upstream, oldest first
  now,         \* the newest timestamp anywhere
  buffer,      \* snapshot_buffer
  toSeed,      \* subnets the seeding loop has still to ask for
  task,        \* where the client is
  stop,        \* the _stop event
  pipe,        \* samples sent on the open connection and not yet read
  received,    \* history variable: the samples the client has taken in
  faults

upstream == <<published, now>>
vars == <<upstream, buffer, toSeed, task, stop, pipe, received, faults>>

Bar(sample) == sample \div BarLength

Newest(seq, k) == IF Len(seq) > k THEN SubSeq(seq, Len(seq) - k + 1, Len(seq)) ELSE seq

-------------------------------------------------------------------------------
\* Faulty: a sample of the same bar is appended.
FoldSameBarAppends(buf, sample) ==
  IF buf = <<>> \/ Bar(sample) >= Bar(Last(buf))
  THEN Newest(Append(buf, sample), Cap)
  ELSE [buf EXCEPT ![Len(buf)] = sample]

\* Faulty: a full buffer takes no new bar.
FoldCutsNewest(buf, sample) ==
  IF buf = <<>> \/ Bar(sample) > Bar(Last(buf))
  THEN IF Len(buf) < Cap THEN Append(buf, sample) ELSE buf
  ELSE [buf EXCEPT ![Len(buf)] = sample]

\* Faulty: the cut deletes the wrong end.
FoldDeletesTail(buf, sample) ==
  IF buf = <<>> \/ Bar(sample) > Bar(Last(buf))
  THEN SubSeq(Append(buf, sample), 1,
              IF Len(buf) < Cap THEN Len(buf) + 1 ELSE 1)
  ELSE [buf EXCEPT ![Len(buf)] = sample]

(* _fold: a sample of a new bar is appended and the buffer cut; any other  *)
(* takes the place of the last one.                                        *)
Fold(buf, sample) ==
  IF buf = <<>> THEN <<sample>>
  ELSE IF Bar(sample) > Bar(Last(buf)) THEN Newest(Append(buf, sample), Cap)
  ELSE [buf EXCEPT ![Len(buf)] = sample]

(* The locals of the binary search, which count from 0.                    *)
Search(rows) ==
  [lo : 0 .. Len(rows), hi : -1 .. (Len(rows) - 1), chosen : -1 .. (Len(rows) - 1)]

\* Faulty: a row at the very timestamp does not count.
SearchStrictly(rows, t) ==
  LET step[s \in Search(rows)] ==
        LET mid == (s.lo + s.hi) \div 2
        IN  IF s.lo > s.hi THEN s.chosen
            ELSE IF rows[mid + 1] < t
            THEN step[[lo |-> mid + 1, hi |-> s.hi, chosen |-> mid]]
            ELSE step[[lo |-> s.lo, hi |-> mid - 1, chosen |-> s.chosen]]
      found == step[[lo |-> 0, hi |-> Len(rows) - 1, chosen |-> -1]]
  IN  IF rows = <<>> THEN NoSample
      ELSE IF found = -1 THEN rows[1] ELSE rows[found + 1]

(* _row_at_or_before.                                                      *)
RowAtOrBefore(rows, t) ==
  LET step[s \in Search(rows)] ==
        LET mid == (s.lo + s.hi) \div 2
        IN  IF s.lo > s.hi THEN s.chosen
            ELSE IF rows[mid + 1] <= t
            THEN step[[lo |-> mid + 1, hi |-> s.hi, chosen |-> mid]]
            ELSE step[[lo |-> s.lo, hi |-> mid - 1, chosen |-> s.chosen]]
      found == step[[lo |-> 0, hi |-> Len(rows) - 1, chosen |-> -1]]
  IN  IF rows = <<>> THEN NoSample
      ELSE IF found = -1 THEN rows[1] ELSE rows[found + 1]

-------------------------------------------------------------------------------
Nothing == [n \in Netuids |-> <<>>]

Init ==
  /\ published = Nothing /\ now = 0
  /\ buffer = Nothing
  /\ toSeed = {}
  /\ task = "startup"
  /\ stop = FALSE
  /\ pipe = Nothing
  /\ received = [n \in Netuids |-> {}]
  /\ faults = 0

(* The upstream takes a sample and sends it to the stream, in order.       *)
Publish(n) ==
  /\ now < MaxTime
  /\ now' = now + 1
  /\ published' = [published EXCEPT ![n] = Append(@, now')]
  /\ pipe' = IF task = "reading" THEN [pipe EXCEPT ![n] = Append(@, now')] ELSE pipe
  /\ UNCHANGED <<buffer, toSeed, task, stop, received, faults>>

Fault == faults < MaxFaults /\ faults' = faults + 1

(* seed_snapshots: one request for the list, then one per subnet, each     *)
(* answered at a time of its own.                                          *)
ListSubnets ==
  /\ task = "startup"
  /\ task' = "seeding"
  /\ \/ toSeed' = Netuids /\ UNCHANGED faults
     \/ toSeed' = {} /\ Fault
  /\ UNCHANGED <<upstream, buffer, stop, pipe, received>>

\* The rows of the window; of too many the upstream answers the oldest.
SeedRows(seq) ==
  LET older == Cardinality({i \in DOMAIN seq : seq[i] <= now - SeedWindow})
      last  == IF older + SeedLimit < Len(seq) THEN older + SeedLimit ELSE Len(seq)
  IN  SubSeq(seq, older + 1, last)

SeedSubnet(n) ==
  /\ task = "seeding" /\ n \in toSeed
  /\ LET rows == SeedRows(published[n])
     IN  /\ buffer' = [buffer EXCEPT ![n] = rows]
         /\ received' = [received EXCEPT ![n] = Range(rows)]
  /\ toSeed' = toSeed \ {n}
  /\ UNCHANGED <<upstream, task, stop, pipe, faults>>

SeedFails(n) ==
  /\ task = "seeding" /\ n \in toSeed
  /\ Fault
  /\ toSeed' = toSeed \ {n}
  /\ UNCHANGED <<upstream, buffer, task, stop, pipe, received>>

(* start_sse.                                                              *)
StartStream ==
  /\ task = "seeding" /\ toSeed = {}
  /\ task' = "connecting"
  /\ UNCHANGED <<upstream, buffer, toSeed, stop, pipe, received, faults>>

(* The upstream accepts; it may greet with its newest samples.             *)
Connect ==
  /\ task = "connecting" /\ ~stop
  /\ task' = "reading"
  /\ \E again \in SUBSET {n \in Netuids : published[n] # <<>>} :
       pipe' = [n \in Netuids |-> IF n \in again THEN <<Last(published[n])>> ELSE <<>>]
  /\ UNCHANGED <<upstream, buffer, toSeed, stop, received, faults>>

\* Refused, or an error status.
Refuse ==
  /\ task = "connecting" /\ ~stop
  /\ Fault
  /\ task' = "backoff"
  /\ UNCHANGED <<upstream, buffer, toSeed, stop, pipe, received>>

Receive(n) ==
  /\ task = "reading" /\ ~stop /\ pipe[n] # <<>>
  /\ buffer' = [buffer EXCEPT ![n] = Fold(@, Head(pipe[n]))]
  /\ received' = [received EXCEPT ![n] = @ \cup {Head(pipe[n])}]
  /\ pipe' = [pipe EXCEPT ![n] = Tail(@)]
  /\ UNCHANGED <<upstream, toSeed, task, stop, faults>>

\* A line that is no event of a subnet is passed over.
Unreadable(n) ==
  /\ task = "reading" /\ ~stop /\ pipe[n] # <<>>
  /\ Fault
  /\ pipe' = [pipe EXCEPT ![n] = Tail(@)]
  /\ UNCHANGED <<upstream, buffer, toSeed, task, stop, received>>

\* The stream ends: cleanly, and the loop reconnects at once, or with an
\* exception, and it waits first.  What was in flight is lost.
Disconnect ==
  /\ task = "reading"
  /\ Fault
  /\ task' \in {"connecting", "backoff"}
  /\ pipe' = Nothing
  /\ UNCHANGED <<upstream, buffer, toSeed, stop, received>>

\* Faulty: the loop ends with its first exception.
GiveUp ==
  /\ task = "backoff"
  /\ task' = "ended"
  /\ UNCHANGED <<upstream, buffer, toSeed, stop, pipe, received, faults>>

\* The wait for _stop times out.
Retry ==
  /\ task = "backoff"
  /\ task' = "connecting"
  /\ UNCHANGED <<upstream, buffer, toSeed, stop, pipe, received, faults>>

(* shutdown: set _stop and cancel the task.                                *)
Shutdown ==
  /\ task \in {"connecting", "reading", "backoff"}
  /\ stop' = TRUE
  /\ task' = "ended"
  /\ pipe' = Nothing
  /\ UNCHANGED <<upstream, buffer, toSeed, received, faults>>

Client ==
  \/ ListSubnets \/ StartStream \/ Connect \/ Retry
  \/ \E n \in Netuids : SeedSubnet(n) \/ Receive(n)

Next ==
  \/ Client
  \/ Refuse \/ Disconnect \/ Shutdown
  \/ \E n \in Netuids : Publish(n) \/ SeedFails(n) \/ Unreadable(n)

Spec == Init /\ [][Next]_vars /\ WF_vars(Client)

-------------------------------------------------------------------------------
(* Properties.                                                             *)

\* The strategies read a buffer as a time series and the benchmark searches
\* it: its samples stay in strictly increasing order, across the seed, the
\* greeting of every reconnect and the samples lost in between.
SamplesInOrder ==
  \A n \in Netuids : \A i, j \in DOMAIN buffer[n] :
    i < j => buffer[n][i] < buffer[n][j]

\* "events inside the current bar overwrite the last sample, new bars
\* append": a sample taken in is in the buffer, or a newer one of its bar was
\* taken in, or the cut has let its bar go; and the cut keeps a buffer within
\* its bound, or within what the seed put there.
NewestPerBarKept ==
  \A n \in Netuids :
    /\ \A s \in received[n] :
         \/ s \in Range(buffer[n])
         \/ \E r \in received[n] : r > s /\ Bar(r) = Bar(s)
         \/ Len(buffer[n]) >= Cap /\ s < buffer[n][1]
    /\ Len(buffer[n]) <= Cap \/ Len(buffer[n]) <= SeedLimit

\* What a cycle trades on never becomes older: the newest sample of a subnet
\* is only replaced by a newer one.
NewestNeverGoesBack ==
  [][\A n \in Netuids :
       buffer[n] # <<>> =>
         buffer'[n] # <<>> /\ Last(buffer'[n]) >= Last(buffer[n])]_vars

\* The stream never stays down: after any refusal or break the task is
\* reading again, unless the client is shut down.
StreamComesBack == []<>(task = "reading" \/ stop)
===============================================================================
