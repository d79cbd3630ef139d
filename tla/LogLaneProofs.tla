--------------------------- MODULE LogLaneProofs ---------------------------
(***************************************************************************)
(* The drop counts of the log batches fill the gaps between their lines,   *)
(* and the shutdown flush covers a full ring, for any capacities and any   *)
(* number of sessions.                                                     *)
(*                                                                         *)
(* The first needs the ring to start right after everything drained, the   *)
(* number of emitted lines to be what the ring, its count and the batches  *)
(* add up to, and a drained batch never to go missing from the account: a  *)
(* sender holds one batch exactly while it sends it, so no drain overwrites*)
(* one.  The second needs the ring to be bounded and counts the batches    *)
(* the flush has left.                                                     *)
(***************************************************************************)
EXTENDS LogLane, FiniteSetTheorems, SequenceTheorems, TLAPS

\* struct LogLineSample, batched.
Batch == [lines : Seq(Nat), dropped : Nat, seq : Nat]

LoopInv ==
    /\ phase \in {"down", "up", "flushMetrics", "flush", "flushSend", "stopped"}
    /\ session \in 0 .. MaxSessions
    /\ flushLeft \in Nat
    /\ task \in [Sessions -> {"none", "tick", "drain", "send", "done"}]
    /\ held \in [Senders -> SUBSET Batch]
    /\ out \in [Sessions -> Seq(Batch)]
    /\ received \subseteq Batch /\ sunk \subseteq Batch /\ vanished \subseteq Batch

\* A flush loop holds a batch exactly while it sends it, and so does
\* flush_remaining.
HolderInv ==
    /\ \A t \in Sessions : IF task[t] = "send" THEN \E b : held[t] = {b} ELSE held[t] = {}
    /\ IF phase = "flushSend" THEN \E b : held[0] = {b} ELSE held[0] = {}

\* A session that has not been opened has no loop; a flush is that of a session.
OpenInv ==
    /\ \A t \in Sessions : t > session => task[t] = "none"
    /\ phase \in {"up", "flushMetrics", "flush", "flushSend"} => session \in Sessions

\* The lines accounted for by all batches.
Total == Cardinality(Entries(Drained))

\* The ring goes on where the batches end, and what was emitted is what they,
\* the ring's count and the ring add up to.
RingInv ==
    /\ lines \in Seq(Nat) /\ Len(lines) <= Cap
    /\ dropped \in Nat /\ seq \in Nat /\ emitted \in Nat
    /\ \A i \in 1 .. Len(lines) : lines[i] = Total + dropped + i
    /\ emitted = Total + dropped + Len(lines)

\* The batches, their numbers and their gaps.
BatchInv ==
    /\ Drained \subseteq Batch
    /\ \A b \in Drained : b.seq <= seq
    /\ IsFiniteSet(Entries(Drained))
    /\ \A b \in Drained : \A i \in DOMAIN b.lines : b.lines[i] = Before(b.seq) + b.dropped + i

\* What the flush has not covered yet fits in the batches it has left, but for
\* the lines that came in while it ran.
CoverInv ==
    /\ late \in Nat
    /\ Cap <= MaxFlush * BatchCap /\ phase \in {"flush", "flushSend"}
         => Len(lines) <= late + flushLeft * BatchCap

LogInv == LoopInv /\ HolderInv /\ OpenInv /\ RingInv /\ BatchInv /\ CoverInv

----------------------------------------------------------------------------
\* The account.

\* The constants are numbers.
LEMMA Constants ==
  /\ Cap \in Nat /\ Cap > 0 /\ BatchCap \in Nat /\ BatchCap > 0
  /\ MaxFlush \in Nat /\ MaxSessions \in Nat /\ MaxLines \in Nat
  /\ Senders = Sessions \union {0} /\ 0 \notin Sessions
<1>1. /\ Cap \in Nat /\ Cap > 0 /\ BatchCap \in Nat /\ BatchCap > 0
      /\ MaxFlush \in Nat /\ MaxSessions \in Nat /\ MaxLines \in Nat
  BY LogAssumption
<1> QED
  BY <1>1 DEF Senders, Sessions

\* A batch added to others adds its lines and its drops to the account.
LEMMA EntriesAdd ==
  ASSUME NEW S, NEW b, b \notin S, Size(b) \in Nat, IsFiniteSet(Entries(S))
  PROVE  /\ IsFiniteSet(Entries(S \union {b}))
         /\ Cardinality(Entries(S \union {b})) = Cardinality(Entries(S)) + Size(b)
         /\ Cardinality(Entries(S)) \in Nat
<1> DEFINE n == Size(b)
           own == {b} \X (1 .. n)
           numbered == [i \in 1 .. n |-> <<b, i>>]
           all == Entries(S)
<1>1. Entries(S \union {b}) = all \union own
  BY Zenon DEF Entries
<1>2. all \intersect own = {}
  BY DEF Entries
<1>3. numbered \in Bijection(1 .. n, own)
  BY DEF Bijection, Injection, Surjection, IsInjective
<1> HIDE DEF n, own, numbered, all
<1>4. n \in Nat
  BY DEF n
<1>5. IsFiniteSet(1 .. n) /\ Cardinality(1 .. n) = n
  <2>1. 1 \in Int /\ n \in Int /\ (IF 1 > n THEN 0 ELSE n - 1 + 1) = n
    BY <1>4
  <2> QED
    BY <2>1, FS_Interval
<1>6. IsFiniteSet(own) /\ Cardinality(own) = n
  BY <1>3, <1>5, FS_Bijection DEF ExistsBijection
<1>7. IsFiniteSet(all) /\ Cardinality(all) \in Nat
  BY FS_CardinalityType DEF all
<1>8. /\ IsFiniteSet(all \union own)
      /\ Cardinality(all \union own) = Cardinality(all) + Cardinality(own) - Cardinality({})
  <2>1. /\ IsFiniteSet(all \union own)
        /\ Cardinality(all \union own)
             = Cardinality(all) + Cardinality(own) - Cardinality(all \intersect own)
    BY <1>6, <1>7, FS_Union, Zenon
  <2> QED
    BY <1>2, <2>1
<1>9. Cardinality(all \union own) = Cardinality(all) + n
  BY <1>4, <1>6, <1>7, <1>8, FS_EmptySet
<1> QED
  BY <1>1, <1>7, <1>8, <1>9, Zenon DEF n, all

\* What the next drain hands out, and leaves.
LEMMA NextBatchIs ==
  ASSUME RingInv
  PROVE  /\ Taken \in 0 .. Len(lines) /\ NextBatch \in Batch
         /\ NextBatch.seq = seq + 1 /\ NextBatch.dropped = dropped
         /\ Len(NextBatch.lines) = Taken
         /\ Size(NextBatch) \in Nat /\ Size(NextBatch) = Taken + dropped
         /\ \A i \in 1 .. Taken : NextBatch.lines[i] = lines[i]
         /\ NoMessage(NextBatch) => Size(NextBatch) = 0
<1>1. lines \in Seq(Nat) /\ Len(lines) \in Nat /\ dropped \in Nat /\ seq \in Nat
  BY DEF RingInv
<1>2. Taken \in 0 .. Len(lines)
  BY <1>1, Constants DEF Taken
<1> DEFINE l == SubSeq(lines, 1, Taken)
<1>3. l \in Seq(Nat) /\ Len(l) = Taken /\ \A i \in 1 .. Taken : l[i] = lines[i]
  BY <1>1, <1>2
<1>4. NextBatch = [lines |-> l, dropped |-> dropped, seq |-> seq + 1]
  BY DEF NextBatch
<1> HIDE DEF l
<1>5. /\ NextBatch \in Batch /\ NextBatch.seq = seq + 1 /\ NextBatch.dropped = dropped
      /\ NextBatch.lines = l
  BY <1>1, <1>3, <1>4 DEF Batch
<1>6. Size(NextBatch) = Taken + dropped
  BY <1>3, <1>5 DEF Size
<1>7. Taken + dropped \in Nat
  BY <1>1, <1>2
<1>8. NoMessage(NextBatch) => Taken + dropped = 0
  BY <1>1, <1>2, <1>3, <1>5 DEF NoMessage
<1> QED
  BY <1>2, <1>3, <1>5, <1>6, <1>7, <1>8

----------------------------------------------------------------------------
\* Where the batches are.

\* Membership in Drained, in this state and in the next, spelled out.
LEMMA DrainedIs ==
  ASSUME NEW x
  PROVE  /\ x \in Drained <=>
               \/ \E s \in Senders : x \in held[s]
               \/ \E t \in Sessions : x \in Range(out[t])
               \/ x \in received \/ x \in sunk \/ x \in vanished
         /\ x \in Drained' <=>
               \/ \E s \in Senders : x \in held'[s]
               \/ \E t \in Sessions : x \in Range(out'[t])
               \/ x \in received' \/ x \in sunk' \/ x \in vanished'
<1>1. ASSUME NEW h PROVE x \in UNION {h[s] : s \in Senders} <=> \E s \in Senders : x \in h[s]
  OBVIOUS
<1>2. ASSUME NEW o
      PROVE  x \in UNION {Range(o[t]) : t \in Sessions} <=> \E t \in Sessions : x \in Range(o[t])
  OBVIOUS
<1>3. /\ x \in UNION {held[s] : s \in Senders} <=> \E s \in Senders : x \in held[s]
      /\ x \in UNION {held'[s] : s \in Senders} <=> \E s \in Senders : x \in held'[s]
  BY <1>1
<1>4. /\ x \in UNION {Range(out[t]) : t \in Sessions} <=> \E t \in Sessions : x \in Range(out[t])
      /\ x \in UNION {Range(out'[t]) : t \in Sessions} <=> \E t \in Sessions : x \in Range(out'[t])
  BY <1>2
<1>5. x \in Drained <=> \/ x \in UNION {held[s] : s \in Senders}
                       \/ x \in UNION {Range(out[t]) : t \in Sessions}
                       \/ x \in received \/ x \in sunk \/ x \in vanished
  BY DEF Drained
<1>6. x \in Drained' <=> \/ x \in UNION {held'[s] : s \in Senders}
                        \/ x \in UNION {Range(out'[t]) : t \in Sessions}
                        \/ x \in received' \/ x \in sunk' \/ x \in vanished'
  BY DEF Drained
<1> QED
  BY <1>3, <1>4, <1>5, <1>6

\* A batch taken by a sender that held none is one batch more.
LEMMA DrainAdds ==
  ASSUME NEW s \in Senders, LoopInv, held[s] = {}, NEW B,
         held' = [held EXCEPT ![s] = B], UNCHANGED <<out, received, sunk, vanished>>
  PROVE  Drained' = Drained \union B
<1>1. \A z \in Senders : held'[z] = IF z = s THEN B ELSE held[z]
  BY DEF LoopInv
<1>2. \A x : x \in Drained' <=> x \in Drained \/ x \in B
  BY <1>1, DrainedIs
<1> QED
  BY <1>2

\* A batch that goes down with its sender stays in the account.
LEMMA VanishKeeps ==
  ASSUME NEW s \in Senders, LoopInv,
         held' = [held EXCEPT ![s] = {}], vanished' = vanished \union held[s],
         UNCHANGED <<out, received, sunk>>
  PROVE  Drained' = Drained
<1>1. \A z \in Senders : held'[z] = IF z = s THEN {} ELSE held[z]
  BY DEF LoopInv
<1>2. \A x : x \in Drained' <=> x \in Drained
  BY <1>1, DrainedIs
<1> QED
  BY <1>2

\* A batch that goes from its sender to a queue stays in the account.
LEMMA SendKeepsAll ==
  ASSUME NEW s \in Senders, NEW q \in Sessions, NEW b \in Batch, LoopInv, held[s] = {b},
         held' = [held EXCEPT ![s] = {}], out' = [out EXCEPT ![q] = Append(@, b)],
         UNCHANGED <<received, sunk, vanished>>
  PROVE  Drained' = Drained /\ out' \in [Sessions -> Seq(Batch)]
<1>1. \A z \in Senders : held'[z] = IF z = s THEN {} ELSE held[z]
  BY DEF LoopInv
<1>2. \A t \in Sessions : out'[t] = IF t = q THEN Append(out[t], b) ELSE out[t]
  BY DEF LoopInv
<1>3. \A t \in Sessions : out[t] \in Seq(Batch)
  BY DEF LoopInv
<1>4. Range(Append(out[q], b)) = Range(out[q]) \union {b} /\ Append(out[q], b) \in Seq(Batch)
  <2>1. out[q] \in Seq(Batch)
    BY <1>3
  <2>2. /\ Append(out[q], b) \in Seq(Batch)
        /\ DOMAIN Append(out[q], b) = 1 .. Len(out[q]) + 1
        /\ DOMAIN out[q] = 1 .. Len(out[q]) /\ Len(out[q]) \in Nat
        /\ \A i \in 1 .. Len(out[q]) : Append(out[q], b)[i] = out[q][i]
        /\ Append(out[q], b)[Len(out[q]) + 1] = b
    BY <2>1
  <2>3. \A i \in 1 .. Len(out[q]) + 1 : i \in 1 .. Len(out[q]) \/ i = Len(out[q]) + 1
    BY <2>2
  <2>4. /\ Len(out[q]) + 1 \in 1 .. Len(out[q]) + 1
        /\ \A i \in 1 .. Len(out[q]) : i \in 1 .. Len(out[q]) + 1
    BY <2>2
  <2> QED
    BY <2>2, <2>3, <2>4, Zenon DEF Range
<1>5. \A x : x \in Drained' <=> x \in Drained
  BY <1>1, <1>2, <1>4, DrainedIs
<1>6. out' \in [Sessions -> Seq(Batch)]
  BY <1>4 DEF LoopInv
<1> QED
  BY <1>5, <1>6

\* The head of a queue that the transport delivers stays in the account.
LEMMA TransmitKeepsAll ==
  ASSUME NEW t \in Sessions, LoopInv, Transmit(t)
  PROVE  /\ Drained' = Drained /\ out' \in [Sessions -> Seq(Batch)]
         /\ received' \subseteq Batch
<1>1. /\ out[t] \in Seq(Batch) /\ out[t] # <<>>
      /\ out' = [out EXCEPT ![t] = Tail(@)] /\ received' = received \union {Head(out[t])}
      /\ UNCHANGED <<held, sunk, vanished>>
  BY DEF LoopInv, Transmit
<1>2. \A z \in Sessions : out'[z] = IF z = t THEN Tail(out[t]) ELSE out[z]
  BY <1>1 DEF LoopInv
<1>3. /\ Tail(out[t]) \in Seq(Batch) /\ Head(out[t]) \in Batch
      /\ Range(out[t]) = Range(Tail(out[t])) \union {Head(out[t])}
  <2>1. /\ Tail(out[t]) \in Seq(Batch) /\ Head(out[t]) \in Batch
        /\ Len(out[t]) \in Nat /\ Len(out[t]) > 0
        /\ DOMAIN out[t] = 1 .. Len(out[t]) /\ DOMAIN Tail(out[t]) = 1 .. Len(out[t]) - 1
        /\ \A i \in 1 .. Len(out[t]) - 1 : Tail(out[t])[i] = out[t][i + 1]
        /\ Head(out[t]) = out[t][1]
    BY <1>1
  <2>2. \A i \in 1 .. Len(out[t]) : i = 1 \/ (i - 1 \in 1 .. Len(out[t]) - 1 /\ (i - 1) + 1 = i)
    BY <2>1
  <2>3. 1 \in 1 .. Len(out[t]) /\ \A i \in 1 .. Len(out[t]) - 1 : i + 1 \in 1 .. Len(out[t])
    BY <2>1
  <2>4. Range(out[t]) \subseteq Range(Tail(out[t])) \union {Head(out[t])}
    BY <2>1, <2>2 DEF Range
  <2>5. Range(Tail(out[t])) \union {Head(out[t])} \subseteq Range(out[t])
    BY <2>1, <2>3 DEF Range
  <2> QED
    BY <2>1, <2>4, <2>5
<1>4. \A x : x \in Drained' <=> x \in Drained
  BY <1>1, <1>2, <1>3, DrainedIs
<1> QED
  BY <1>1, <1>3, <1>4 DEF LoopInv

\* A queue that goes down with its connection stays in the account.
LEMMA BreakKeepsAll ==
  ASSUME NEW t \in Sessions, LoopInv, TransportBreaks(t)
  PROVE  /\ Drained' = Drained /\ out' \in [Sessions -> Seq(Batch)]
         /\ sunk' \subseteq Batch
<1>1. /\ out[t] \in Seq(Batch)
      /\ out' = [out EXCEPT ![t] = <<>>] /\ sunk' = sunk \union Range(out[t])
      /\ UNCHANGED <<held, received, vanished>>
  BY DEF LoopInv, TransportBreaks
<1>2. \A z \in Sessions : out'[z] = IF z = t THEN <<>> ELSE out[z]
  BY <1>1 DEF LoopInv
<1>3. Range(<<>>) = {} /\ Range(out[t]) \subseteq Batch
  BY <1>1 DEF Range
<1>4. \A x : x \in Drained' <=> x \in Drained
  BY <1>1, <1>2, <1>3, DrainedIs
<1> QED
  BY <1>1, <1>3, <1>4 DEF LoopInv

----------------------------------------------------------------------------
\* What the steps do to the account.

\* The account is a number.
LEMMA TotalIsNumber ==
  ASSUME BatchInv
  PROVE  Total \in Nat
  BY FS_CardinalityType DEF BatchInv, Total

\* A step that loses and adds no batch keeps what they say.
LEMMA BatchesStay ==
  ASSUME BatchInv, seq \in Nat, seq' \in Nat, seq' >= seq, Drained' = Drained
  PROVE  BatchInv' /\ Total' = Total
<1>1. Entries(Drained)' = Entries(Drained)
  BY DEF Entries, Size
<1>2. ASSUME NEW n PROVE Before(n)' = Before(n)
  BY DEF Before, Entries, Size
<1>3. ASSUME NEW b \in Drained PROVE b.seq <= seq'
  BY <1>3 DEF BatchInv, Batch
<1> QED
  BY <1>1, <1>2, <1>3 DEF BatchInv, Total

\* The ring and its count in the next state, in the form of RingInv.
LEMMA RingNext ==
  ASSUME lines' \in Seq(Nat), Len(lines') <= Cap, dropped' \in Nat, seq' \in Nat, emitted' \in Nat,
         NEW first \in Nat, first = Total' + dropped',
         \A i \in 1 .. Len(lines') : lines'[i] = first + i, emitted' = first + Len(lines')
  PROVE  RingInv'
  BY DEF RingInv

\* The rest of a sequence after its first n elements.
LEMMA RestOf ==
  ASSUME NEW s \in Seq(Nat), NEW n \in 0 .. Len(s)
  PROVE  /\ SubSeq(s, n + 1, Len(s)) \in Seq(Nat)
         /\ Len(SubSeq(s, n + 1, Len(s))) = Len(s) - n
         /\ \A i \in 1 .. Len(s) - n : SubSeq(s, n + 1, Len(s))[i] = s[i + n]
<1> DEFINE m == n + 1
<1>1. m \in Int /\ Len(s) \in Int /\ \A i \in m .. Len(s) : s[i] \in Nat
  BY LenProperties, ElementOfSeq
<1> HIDE DEF m
<1>2. /\ SubSeq(s, m, Len(s)) \in Seq(Nat)
      /\ Len(SubSeq(s, m, Len(s))) = IF m <= Len(s) THEN Len(s) - m + 1 ELSE 0
      /\ \A i \in 1 .. Len(s) - m + 1 : SubSeq(s, m, Len(s))[i] = s[m + i - 1]
  BY <1>1, SubSeqProperties
<1>3. /\ Len(s) - m + 1 = Len(s) - n /\ \A i \in Int : m + i - 1 = i + n
      /\ (IF m <= Len(s) THEN Len(s) - m + 1 ELSE 0) = Len(s) - n
  BY LenProperties DEF m
<1>4. ASSUME NEW i \in 1 .. Len(s) - n PROVE SubSeq(s, m, Len(s))[i] = s[i + n]
  <2>1. i \in 1 .. Len(s) - m + 1 /\ m + i - 1 = i + n
    BY <1>3
  <2> QED
    BY <1>2, <2>1
<1> QED
  BY <1>2, <1>3, <1>4 DEF m

\* Recording a line moves the start of the ring and its count together.
LEMMA RecordKeeps ==
  ASSUME RingInv, BatchInv, Record, Drained' = Drained
  PROVE  RingInv' /\ BatchInv'
<1>1. /\ lines \in Seq(Nat) /\ Len(lines) \in Nat /\ Len(lines) <= Cap
      /\ dropped \in Nat /\ seq \in Nat /\ emitted \in Nat /\ Total \in Nat
      /\ \A i \in 1 .. Len(lines) : lines[i] = Total + dropped + i
      /\ emitted = Total + dropped + Len(lines)
  BY TotalIsNumber DEF RingInv
<1>2. /\ emitted' = emitted + 1 /\ seq' = seq
      /\ lines' = Append(IF Len(lines) >= Cap THEN Tail(lines) ELSE lines, emitted + 1)
      /\ dropped' = dropped + (IF Len(lines) >= Cap THEN 1 ELSE 0)
  BY DEF Record, Push
<1>3. BatchInv' /\ Total' = Total
  BY <1>1, <1>2, BatchesStay
<1>4. /\ Len(lines) \in Nat /\ dropped \in Nat /\ Total \in Nat /\ Total' = Total
      /\ emitted' = Total + dropped + Len(lines) + 1
  BY <1>1, <1>2, <1>3
<1>5. CASE Len(lines) >= Cap
  <2>1. Len(lines) = Cap /\ Cap > 0 /\ Cap \in Nat /\ lines # <<>>
    BY <1>1, <1>5, Constants
  <2>2. /\ Tail(lines) \in Seq(Nat) /\ Len(Tail(lines)) = Cap - 1
        /\ \A i \in 1 .. Cap - 1 : Tail(lines)[i] = lines[i + 1]
    BY <1>1, <2>1
  <2>3. /\ lines' \in Seq(Nat) /\ Len(lines') = Cap /\ lines'[Cap] = emitted + 1
        /\ \A i \in 1 .. Cap - 1 : lines'[i] = lines[i + 1]
    BY <1>1, <1>2, <1>5, <2>1, <2>2
  <2>4. ASSUME NEW i \in 1 .. Cap PROVE lines'[i] = Total + (dropped + 1) + i
    <3>1. CASE i = Cap
      BY <1>1, <2>1, <2>3, <3>1
    <3>2. CASE i \in 1 .. Cap - 1
      <4>1. i + 1 \in 1 .. Len(lines)
        BY <2>1, <3>2
      <4> QED
        BY <1>1, <2>3, <3>2, <4>1
    <3> QED
      BY <2>1, <3>1, <3>2
  <2>5. dropped' = dropped + 1
    BY <1>2, <1>5
  <2> QED
    <3> DEFINE first == Total + (dropped + 1)
    <3>1. first \in Nat /\ first = Total' + dropped' /\ emitted' = first + Len(lines')
      <4>1. Len(lines') = Len(lines)
        BY <2>1, <2>3
      <4> QED
        BY <1>4, <2>5, <4>1
    <3>2. dropped' \in Nat /\ seq' \in Nat /\ emitted' \in Nat /\ Len(lines') <= Cap
      BY <1>1, <1>2, <2>1, <2>3, <2>5
    <3>3. \A i \in 1 .. Len(lines') : lines'[i] = first + i
      BY <2>3, <2>4
    <3> HIDE DEF first
    <3>4. RingInv'
      BY <2>3, <3>1, <3>2, <3>3, RingNext
    <3> QED
      BY <1>3, <3>4
<1>6. CASE ~(Len(lines) >= Cap)
  <2>1. Len(lines) + 1 <= Cap
    BY <1>1, <1>6, Constants
  <2>2. /\ lines' \in Seq(Nat) /\ Len(lines') = Len(lines) + 1
        /\ lines'[Len(lines) + 1] = emitted + 1
        /\ \A i \in 1 .. Len(lines) : lines'[i] = lines[i]
    BY <1>1, <1>2, <1>6
  <2>3. ASSUME NEW i \in 1 .. Len(lines) + 1 PROVE lines'[i] = Total + dropped + i
    <3>1. CASE i = Len(lines) + 1
      BY <1>1, <2>2, <3>1
    <3>2. CASE i \in 1 .. Len(lines)
      BY <1>1, <2>2, <3>2
    <3> QED
      BY <1>1, <3>1, <3>2
  <2>4. dropped' = dropped
    BY <1>1, <1>2, <1>6
  <2> QED
    <3> DEFINE first == Total + dropped
    <3>1. first \in Nat /\ first = Total' + dropped' /\ emitted' = first + Len(lines')
      <4>1. Len(lines') = Len(lines) + 1
        BY <2>2
      <4> QED
        BY <1>4, <2>4, <4>1
    <3>2. dropped' \in Nat /\ seq' \in Nat /\ emitted' \in Nat /\ Len(lines') <= Cap
      BY <1>1, <1>2, <2>1, <2>2, <2>4
    <3>3. \A i \in 1 .. Len(lines') : lines'[i] = first + i
      BY <2>2, <2>3
    <3> HIDE DEF first
    <3>4. RingInv'
      BY <2>2, <3>1, <3>2, <3>3, RingNext
    <3> QED
      BY <1>3, <3>4
<1> QED
  BY <1>5, <1>6

\* A drain moves lines and count from the ring to the account, as the batch
\* that comes after all others; an empty one moves nothing.
LEMMA DrainKeeps ==
  ASSUME RingInv, BatchInv, Drain, emitted' = emitted,
         Drained' = Drained \union (IF NoMessage(NextBatch) THEN {} ELSE {NextBatch})
  PROVE  RingInv' /\ BatchInv'
<1> DEFINE nb == NextBatch
<1>1. /\ lines \in Seq(Nat) /\ Len(lines) \in Nat /\ Len(lines) <= Cap
      /\ dropped \in Nat /\ seq \in Nat /\ emitted \in Nat /\ Total \in Nat
      /\ \A i \in 1 .. Len(lines) : lines[i] = Total + dropped + i
      /\ emitted = Total + dropped + Len(lines)
  BY TotalIsNumber DEF RingInv
<1>2. lines' = SubSeq(lines, Taken + 1, Len(lines)) /\ dropped' = 0 /\ seq' = seq + 1
  BY DEF Drain
<1>3. /\ Taken \in 0 .. Len(lines) /\ nb \in Batch /\ nb.seq = seq + 1 /\ nb.dropped = dropped
      /\ Len(nb.lines) = Taken /\ Size(nb) \in Nat /\ Size(nb) = Taken + dropped
      /\ \A i \in 1 .. Taken : nb.lines[i] = lines[i]
      /\ NoMessage(nb) => Size(nb) = 0
  BY NextBatchIs
<1> HIDE DEF nb
<1>4. /\ lines' \in Seq(Nat) /\ Len(lines') = Len(lines) - Taken
      /\ \A i \in 1 .. Len(lines) - Taken : lines'[i] = lines[i + Taken]
  BY <1>1, <1>2, <1>3, RestOf
<1>5. ASSUME Total' = Total + Size(nb) PROVE RingInv'
  <2> DEFINE first == Total + Taken + dropped
  <2>1. first \in Nat /\ first = Total' + dropped' /\ emitted' = first + Len(lines')
    <3>1. /\ Len(lines) \in Nat /\ Taken \in Nat /\ dropped \in Nat /\ Total \in Nat
          /\ emitted' = Total + dropped + Len(lines) /\ Len(lines') = Len(lines) - Taken
      BY <1>1, <1>3, <1>4
    <3>2. Total' = Total + (Taken + dropped) /\ dropped' = 0
      BY <1>2, <1>3, <1>5
    <3> QED
      BY <3>1, <3>2
  <2>2. ASSUME NEW i \in 1 .. Len(lines') PROVE lines'[i] = first + i
    <3>1. i \in 1 .. Len(lines) - Taken /\ i + Taken \in 1 .. Len(lines)
      <4>1. i \in 1 .. Len(lines) - Taken
        BY <1>4
      <4>2. \A n \in Nat : \A k \in 0 .. n : \A j \in 1 .. n - k : j + k \in 1 .. n
        OBVIOUS
      <4> QED
        BY <1>1, <1>3, <4>1, <4>2
    <3>2. lines'[i] = Total + dropped + (i + Taken)
      BY <1>1, <1>4, <3>1
    <3>3. i \in Nat /\ Taken \in Nat
      BY <1>1, <1>3, <3>1
    <3> QED
      BY <1>1, <3>2, <3>3
  <2>3. dropped' \in Nat /\ seq' \in Nat /\ emitted' \in Nat /\ Len(lines') <= Cap
    BY <1>1, <1>2, <1>3, <1>4, Constants
  <2>4. lines' \in Seq(Nat)
    BY <1>4
  <2> HIDE DEF first
  <2> QED
    BY <2>1, <2>2, <2>3, <2>4, RingNext
<1>6. CASE NoMessage(nb)
  <2>1. Drained' = Drained
    BY <1>6 DEF nb
  <2>2. BatchInv' /\ Total' = Total
    BY <1>1, <1>2, <2>1, BatchesStay
  <2> QED
    BY <1>1, <1>3, <1>5, <1>6, <2>2
<1>7. CASE ~NoMessage(nb)
  <2>1. Drained' = Drained \union {nb}
    BY <1>7 DEF nb
  <2>2. \A b \in Drained : b \in Batch /\ b.seq \in Nat /\ b.seq <= seq
    BY DEF BatchInv, Batch
  <2>3. nb \notin Drained
    BY <1>1, <1>3, <2>2
  <2>4. /\ IsFiniteSet(Entries(Drained \union {nb}))
        /\ Cardinality(Entries(Drained \union {nb})) = Total + Size(nb)
    BY <1>3, <2>3, EntriesAdd DEF BatchInv, Total
  <2>5. Entries(Drained)' = Entries(Drained \union {nb})
    BY <2>1 DEF Entries, Size
  <2>6. Total' = Total + Size(nb) /\ IsFiniteSet(Entries(Drained))'
    BY <2>4, <2>5 DEF Total
  <2>7. ASSUME NEW n \in Nat, n <= seq PROVE Before(n)' = Before(n)
    <3>1. {b \in Drained \union {nb} : b.seq < n} = {b \in Drained : b.seq < n}
      BY <1>1, <1>3, <2>7
    <3> QED
      BY <2>1, <3>1 DEF Before, Entries, Size
  <2>8. ASSUME NEW n, n = nb.seq PROVE Before(n)' = Total
    <3>1. {b \in Drained \union {nb} : b.seq < n} = Drained
      BY <1>1, <1>3, <2>2, <2>8
    <3> QED
      BY <2>1, <3>1 DEF Before, Entries, Size, Total
  <2>9. Drained' \subseteq Batch /\ \A b \in Drained' : b.seq <= seq'
    BY <1>1, <1>2, <1>3, <2>1, <2>2
  <2>10. ASSUME NEW b \in Drained', NEW i \in DOMAIN b.lines
         PROVE  b.lines[i] = Before(b.seq)' + b.dropped + i
    <3>1. CASE b = nb
      <4>1. i \in 1 .. Taken
        BY <1>3, <2>10, <3>1 DEF Batch
      <4>2. i \in 1 .. Len(lines)
        BY <1>1, <1>3, <4>1
      <4>3. b.lines[i] = lines[i] /\ b.dropped = dropped /\ Before(b.seq)' = Total
        BY <1>3, <2>8, <3>1, <4>1
      <4> QED
        BY <1>1, <4>2, <4>3
    <3>2. CASE b \in Drained
      BY <2>2, <2>7, <3>2 DEF BatchInv
    <3> QED
      BY <2>1, <3>1, <3>2
  <2> QED
    BY <1>5, <2>6, <2>9, <2>10 DEF BatchInv
<1> QED
  BY <1>6, <1>7

----------------------------------------------------------------------------
\* What the steps do to the loops, one lemma per kind of action.

\* A step that leaves the ring, the line count and the batches alone.
LEMMA AccountStays ==
  ASSUME RingInv, BatchInv, UNCHANGED <<lines, dropped, seq, emitted>>, Drained' = Drained
  PROVE  RingInv' /\ BatchInv'
<1>1. BatchInv' /\ Total' = Total
  BY BatchesStay DEF RingInv
<1> QED
  BY <1>1 DEF RingInv

\* No step of the flush loops, of the transport or of the run loop adds a line,
\* and outside the flush nothing is promised.
LEMMA CoverStays ==
  ASSUME LogInv, Len(lines') \in Nat, Len(lines') <= Len(lines), late' = late,
         flushLeft' = flushLeft,
         phase' = phase \/ phase' \notin {"flush", "flushSend"}
                        \/ (phase = "flushSend" /\ phase' = "flush")
  PROVE  CoverInv'
<1>1. late \in Nat /\ Len(lines) \in Nat /\ flushLeft \in Nat /\ BatchCap \in Nat
  BY Constants DEF LogInv, LoopInv, RingInv, CoverInv
<1> DEFINE p == flushLeft * BatchCap
<1>2. p \in Nat
  BY <1>1
<1>3. CoverInv' <=> /\ late \in Nat
                    /\ Cap <= MaxFlush * BatchCap /\ phase' \in {"flush", "flushSend"}
                         => Len(lines') <= late + p
  BY DEF CoverInv
<1>4. Cap <= MaxFlush * BatchCap /\ phase \in {"flush", "flushSend"} => Len(lines) <= late + p
  BY DEF LogInv, CoverInv
<1> DEFINE enough == Cap <= MaxFlush * BatchCap
<1> HIDE DEF p, enough
<1>5. enough /\ phase \in {"flush", "flushSend"} => Len(lines) <= late + p
  BY <1>4 DEF enough
<1>6. enough /\ phase' \in {"flush", "flushSend"} => Len(lines') <= late + p
  BY <1>1, <1>2, <1>5
<1> QED
  BY <1>1, <1>3, <1>6 DEF enough

\* A step that touches no held batch and no send.
LEMMA HoldersStay ==
  ASSUME HolderInv, held' = held, (phase' = "flushSend") <=> (phase = "flushSend"),
         \A t \in Sessions : (task'[t] = "send") <=> (task[t] = "send")
  PROVE  HolderInv'
<1>1. ASSUME NEW t \in Sessions
      PROVE  IF task'[t] = "send" THEN \E b : held'[t] = {b} ELSE held'[t] = {}
  BY DEF HolderInv
<1>2. IF phase' = "flushSend" THEN \E b : held'[0] = {b} ELSE held'[0] = {}
  BY DEF HolderInv
<1> QED
  BY <1>1, <1>2 DEF HolderInv

\* Recording.
LEMMA RecordStep ==
  ASSUME LogInv, Record
  PROVE  LogInv'
<1>1. /\ UNCHANGED <<phase, session, flushLeft, task, held, out, received, sunk, vanished>>
      /\ late' = IF phase \in {"flush", "flushSend"} THEN late + 1 ELSE 0
      /\ lines' = Append(IF Len(lines) >= Cap THEN Tail(lines) ELSE lines, emitted')
  BY DEF Record, Push, loop, tasks, wire
<1>2. LoopInv' /\ HolderInv' /\ OpenInv'
  BY <1>1, HoldersStay DEF LogInv, LoopInv, OpenInv
<1>3. Drained' = Drained
  BY <1>1 DEF Drained
<1>4. RingInv' /\ BatchInv'
  BY <1>3, RecordKeeps DEF LogInv
<1>5. CoverInv'
  <2>1. late \in Nat /\ late' \in Nat
    BY <1>1 DEF LogInv, CoverInv
  <2>2. /\ lines \in Seq(Nat) /\ Len(lines) \in Nat /\ Len(lines) <= Cap /\ Cap > 0 /\ Cap \in Nat
        /\ emitted' \in Nat
    BY <1>4, Constants DEF LogInv, RingInv
  <2>3. Len(lines') \in Nat /\ Len(lines') <= Len(lines) + 1
    <3>1. CASE Len(lines) >= Cap
      <4>1. lines # <<>>
        BY <2>2, <3>1
      <4>2. Tail(lines) \in Seq(Nat) /\ Len(Tail(lines)) = Len(lines) - 1
        BY <2>2, <4>1
      <4>3. Len(lines') = Len(lines)
        BY <1>1, <2>2, <3>1, <4>2
      <4> QED
        BY <2>2, <4>3
    <3>2. CASE ~(Len(lines) >= Cap)
      <4>1. Len(lines') = Len(lines) + 1
        BY <1>1, <2>2, <3>2
      <4> QED
        BY <2>2, <4>1
    <3> QED
      BY <3>1, <3>2
  <2> DEFINE p == flushLeft * BatchCap
             enough == Cap <= MaxFlush * BatchCap
  <2>4. p \in Nat
    BY Constants DEF LogInv, LoopInv
  <2>5. enough /\ phase \in {"flush", "flushSend"} => Len(lines) <= late + p
    BY DEF LogInv, CoverInv
  <2>6. CoverInv' <=> late' \in Nat /\ (enough /\ phase' \in {"flush", "flushSend"}
                                          => Len(lines') <= late' + p)
    BY <1>1 DEF CoverInv
  <2> HIDE DEF p, enough
  <2>7. ASSUME enough, phase \in {"flush", "flushSend"} PROVE Len(lines') <= late' + p
    BY <1>1, <2>1, <2>2, <2>3, <2>4, <2>5, <2>7
  <2> QED
    BY <1>1, <2>1, <2>6, <2>7
<1> QED
  BY <1>2, <1>4, <1>5 DEF LogInv

\* A step of the run loop that is no drain and no send.
LEMMA RunLoopStep ==
  ASSUME LogInv, Trigger \/ Opens \/ Stops \/ Ends \/ FlushGivesUp
  PROVE  LogInv'
<1>1. /\ UNCHANGED <<lines, dropped, seq, emitted, late, flushLeft, held, out, received, sunk,
                     vanished>>
      /\ phase' = phase \/ phase' \notin {"flush", "flushSend"}
  BY DEF Trigger, Opens, Stops, Ends, FlushGivesUp, ring, host, loop, tasks, wire
<1>2. Drained' = Drained
  BY <1>1 DEF Drained
<1>3. RingInv' /\ BatchInv'
  BY <1>1, <1>2, AccountStays DEF LogInv
<1>4. CoverInv'
  BY <1>1, CoverStays DEF LogInv, RingInv
<1>5. LoopInv' /\ HolderInv' /\ OpenInv'
  <2>1. CASE Trigger
    <3>1. UNCHANGED <<phase, session, task>>
      BY <2>1 DEF Trigger, tasks
    <3> QED
      BY <1>1, <3>1, HoldersStay DEF LogInv, LoopInv, OpenInv
  <2>2. CASE Opens
    <3>1. /\ phase = "down" /\ phase' = "up" /\ session < MaxSessions /\ session' = session + 1
          /\ task' = [task EXCEPT ![session + 1] = "tick"]
      BY <2>2 DEF Opens
    <3>2. /\ session \in 0 .. MaxSessions /\ MaxSessions \in Nat
      BY Constants DEF LogInv, LoopInv
    <3>3. /\ session + 1 \in Sessions /\ session + 1 \in 0 .. MaxSessions
          /\ \A t \in Sessions : t > session + 1 => t > session /\ t # session + 1
          /\ session + 1 > session
      BY <3>1, <3>2 DEF Sessions
    <3>4. /\ task[session + 1] = "none"
          /\ \A t \in Sessions : task'[t] = IF t = session + 1 THEN "tick" ELSE task[t]
      BY <3>1, <3>3 DEF LogInv, LoopInv, OpenInv
    <3>5. LoopInv'
      BY <1>1, <3>1, <3>3 DEF LogInv, LoopInv
    <3>6. HolderInv'
      BY <1>1, <3>1, <3>4, HoldersStay DEF LogInv
    <3>7. OpenInv'
      BY <3>1, <3>3, <3>4 DEF LogInv, OpenInv
    <3> QED
      BY <3>5, <3>6, <3>7
  <2>3. CASE Stops \/ Ends \/ FlushGivesUp
    <3>1. /\ phase \in {"down", "up", "flush"} /\ phase' \in {"down", "stopped", "flushMetrics"}
          /\ UNCHANGED <<task, session>>
          /\ phase' = "flushMetrics" => phase = "up"
      BY <2>3 DEF Stops, Ends, FlushGivesUp, tasks
    <3>2. LoopInv' /\ OpenInv'
      BY <1>1, <3>1 DEF LogInv, LoopInv, OpenInv
    <3>3. HolderInv'
      BY <1>1, <3>1, HoldersStay DEF LogInv
    <3> QED
      BY <3>2, <3>3
  <2> QED
    BY <2>1, <2>2, <2>3
<1> QED
  BY <1>3, <1>4, <1>5 DEF LogInv

\* The log half of the flush starts with a ring that its bound covers.
LEMMA MetricsFlushedStep ==
  ASSUME LogInv, MetricsFlushed
  PROVE  LogInv'
<1>1. /\ UNCHANGED <<lines, dropped, seq, emitted, session, task, held, out, received, sunk,
                     vanished>>
      /\ phase = "flushMetrics" /\ phase' \in {"flush", "down"} /\ flushLeft' = MaxFlush /\ late' = 0
  BY DEF MetricsFlushed, ring, tasks, wire
<1>2. Drained' = Drained
  BY <1>1 DEF Drained
<1>3. RingInv' /\ BatchInv'
  BY <1>1, <1>2, AccountStays DEF LogInv
<1>4. LoopInv' /\ HolderInv' /\ OpenInv'
  BY <1>1, Constants, HoldersStay DEF LogInv, LoopInv, OpenInv
<1>5. CoverInv'
  <2> DEFINE p == MaxFlush * BatchCap
  <2>1. p \in Nat /\ Cap \in Nat
    BY Constants
  <2>2. Len(lines) \in Nat /\ Len(lines) <= Cap
    BY DEF LogInv, RingInv
  <2>3. CoverInv' <=> (Cap <= p /\ phase' \in {"flush", "flushSend"} => Len(lines) <= 0 + p)
    BY <1>1 DEF CoverInv
  <2> HIDE DEF p
  <2> QED
    BY <2>1, <2>2, <2>3
<1> QED
  BY <1>3, <1>4, <1>5 DEF LogInv

\* A tick.
LEMMA TaskTickStep ==
  ASSUME LogInv, NEW t \in Sessions, TaskTick(t)
  PROVE  LogInv'
<1>1. /\ UNCHANGED <<lines, dropped, seq, emitted, late, phase, session, flushLeft, held, out,
                     received, sunk, vanished>>
      /\ task[t] = "tick" /\ task' = [task EXCEPT ![t] = "drain"]
  BY DEF TaskTick, ring, host, loop, wire
<1>2. Drained' = Drained
  BY <1>1 DEF Drained
<1>3. RingInv' /\ BatchInv'
  BY <1>1, <1>2, AccountStays DEF LogInv
<1>4. CoverInv'
  BY <1>1, CoverStays DEF LogInv, RingInv
<1>5. \A z \in Sessions : task'[z] = IF z = t THEN "drain" ELSE task[z]
  BY <1>1 DEF LogInv, LoopInv
<1>6. LoopInv'
  BY <1>1 DEF LogInv, LoopInv
<1>7. HolderInv' /\ OpenInv'
  BY <1>1, <1>5, HoldersStay DEF LogInv, OpenInv
<1> QED
  BY <1>3, <1>4, <1>6, <1>7 DEF LogInv

\* The transport.
LEMMA CarryStep ==
  ASSUME LogInv, NEW t \in Sessions, Carry(t)
  PROVE  LogInv'
<1>1. /\ UNCHANGED <<lines, dropped, seq, emitted, late, phase, session, flushLeft, task, held,
                     vanished>>
      /\ received' = received \/ sunk' = sunk
  BY DEF Carry, Transmit, TransportBreaks, ring, host, loop, tasks
<1>2. Drained' = Drained /\ LoopInv'
  <2>1. CASE Transmit(t)
    <3>1. sunk' = sunk
      BY <2>1 DEF Transmit
    <3> QED
      BY <1>1, <2>1, <3>1, TransmitKeepsAll DEF LogInv, LoopInv
  <2>2. CASE TransportBreaks(t)
    <3>1. received' = received
      BY <2>2 DEF TransportBreaks
    <3> QED
      BY <1>1, <2>2, <3>1, BreakKeepsAll DEF LogInv, LoopInv
  <2> QED
    BY <2>1, <2>2 DEF Carry
<1>3. RingInv' /\ BatchInv'
  BY <1>1, <1>2, AccountStays DEF LogInv
<1>4. CoverInv'
  BY <1>1, CoverStays DEF LogInv, RingInv
<1>5. HolderInv' /\ OpenInv'
  BY <1>1, HoldersStay DEF LogInv, OpenInv
<1> QED
  BY <1>2, <1>3, <1>4, <1>5 DEF LogInv

\* A drain keeps the promise of the flush, and one of the flush uses up one of
\* the batches it has left.
LEMMA DrainCovers ==
  ASSUME LogInv, Drain, late' = late
  PROVE  /\ Len(lines') \in Nat /\ Len(lines') <= Len(lines)
         /\ phase = "flush" /\ flushLeft > 0 /\ flushLeft' = flushLeft - 1 => CoverInv'
<1>1. /\ lines \in Seq(Nat) /\ Len(lines) \in Nat /\ late \in Nat /\ flushLeft \in Nat
      /\ BatchCap \in Nat
  BY Constants DEF LogInv, RingInv, CoverInv, LoopInv
<1>2. Taken \in 0 .. Len(lines) /\ Taken = IF Len(lines) < BatchCap THEN Len(lines) ELSE BatchCap
  BY NextBatchIs DEF LogInv, Taken
<1>3. Len(lines') = Len(lines) - Taken
  BY <1>1, <1>2, RestOf DEF Drain
<1>4. Len(lines') \in Nat /\ Len(lines') <= Len(lines)
  BY <1>1, <1>2, <1>3
<1>5. ASSUME phase = "flush", flushLeft > 0, flushLeft' = flushLeft - 1
      PROVE  CoverInv'
  <2> DEFINE p == (flushLeft - 1) * BatchCap
             enough == Cap <= MaxFlush * BatchCap
  <2>1. p \in Nat /\ flushLeft * BatchCap = p + BatchCap
    BY <1>1, <1>5
  <2>2. enough => Len(lines) <= late + (p + BatchCap)
    BY <1>5, <2>1 DEF LogInv, CoverInv
  <2>3. (enough => Len(lines') <= late + p) => CoverInv'
    BY <1>1, <1>5 DEF CoverInv
  <2> HIDE DEF p, enough
  <2>4. SUFFICES ASSUME enough PROVE Len(lines') <= late + p
    BY <2>3
  <2>5. Len(lines) <= late + (p + BatchCap)
    BY <2>2, <2>4
  <2>6. p \in Nat
    BY <2>1
  <2>7. CASE Len(lines) < BatchCap
    BY <1>1, <1>2, <1>3, <2>6, <2>7
  <2>8. CASE ~(Len(lines) < BatchCap)
    BY <1>1, <1>2, <1>3, <2>5, <2>6, <2>8
  <2> QED
    BY <2>7, <2>8
<1> QED
  BY <1>4, <1>5

\* A batch on its own is one batch.
LEMMA Fetched ==
  ASSUME RingInv, NEW B, B = IF NoMessage(NextBatch) THEN {} ELSE {NextBatch}
  PROVE  B \in SUBSET Batch /\ IF NoMessage(NextBatch) THEN B = {} ELSE \E b : B = {b}
<1>1. NextBatch \in Batch
  BY NextBatchIs
<1> QED
  BY <1>1

\* A flush loop drains.
LEMMA TaskDrainStep ==
  ASSUME LogInv, NEW t \in Sessions, TaskDrain(t)
  PROVE  LogInv'
<1> DEFINE B == IF NoMessage(NextBatch) THEN {} ELSE {NextBatch}
           goal == IF NoMessage(NextBatch) THEN "tick" ELSE "send"
<1>1. /\ UNCHANGED <<emitted, late, phase, session, flushLeft, out, received, sunk, vanished>>
      /\ task[t] = "drain" /\ Drain
      /\ task' = [task EXCEPT ![t] = goal] /\ held' = [held EXCEPT ![t] = B]
  BY DEF TaskDrain, host, loop, wire
<1>2. B \in SUBSET Batch /\ (IF goal = "send" THEN \E b : B = {b} ELSE B = {})
      /\ goal \in {"tick", "send"}
  BY Fetched DEF LogInv
<1>3. t \in Senders /\ t # 0 /\ 0 \in Senders /\ held[t] = {}
  BY <1>1, Constants DEF LogInv, HolderInv
<1>4. Drained' = Drained \union B
  BY <1>1, <1>3, DrainAdds DEF LogInv
<1>5. RingInv' /\ BatchInv'
  BY <1>1, <1>4, DrainKeeps DEF LogInv
<1> HIDE DEF B, goal
<1>6. CoverInv'
  BY <1>1, DrainCovers, CoverStays
<1>7. /\ \A z \in Sessions : task'[z] = IF z = t THEN goal ELSE task[z]
      /\ \A z \in Senders : held'[z] = IF z = t THEN B ELSE held[z]
  BY <1>1, <1>3 DEF LogInv, LoopInv
<1>8. LoopInv'
  BY <1>1, <1>2, <1>3 DEF LogInv, LoopInv
<1>9. HolderInv'
  <2>1. ASSUME NEW z \in Sessions
        PROVE  IF task'[z] = "send" THEN \E b : held'[z] = {b} ELSE held'[z] = {}
    <3>1. z \in Senders
      BY Constants
    <3>2. CASE z = t
      BY <1>2, <1>7, <3>1, <3>2
    <3>3. CASE z # t
      <4>1. task'[z] = task[z] /\ held'[z] = held[z]
        BY <1>7, <3>1, <3>3
      <4> QED
        BY <4>1 DEF LogInv, HolderInv
    <3> QED
      BY <3>2, <3>3
  <2>2. IF phase' = "flushSend" THEN \E b : held'[0] = {b} ELSE held'[0] = {}
    BY <1>1, <1>3, <1>7 DEF LogInv, HolderInv
  <2> QED
    BY <2>1, <2>2 DEF HolderInv
<1>10. OpenInv'
  BY <1>1, <1>7 DEF LogInv, OpenInv
<1> QED
  BY <1>5, <1>6, <1>8, <1>9, <1>10 DEF LogInv

\* flush_remaining drains.
LEMMA FlushDrainStep ==
  ASSUME LogInv, FlushDrain
  PROVE  LogInv'
<1> DEFINE B == IF NoMessage(NextBatch) THEN {} ELSE {NextBatch}
           goal == IF NoMessage(NextBatch) THEN "down" ELSE "flushSend"
<1>1. /\ UNCHANGED <<emitted, late, session, task, out, received, sunk, vanished>>
      /\ phase = "flush" /\ flushLeft > 0 /\ flushLeft' = flushLeft - 1 /\ Drain
      /\ phase' = goal /\ held' = [held EXCEPT ![0] = B]
  BY DEF FlushDrain, FlushMayGoOn, host, tasks, wire
<1>2. B \in SUBSET Batch /\ (IF goal = "flushSend" THEN \E b : B = {b} ELSE B = {})
      /\ goal \in {"down", "flushSend"}
  BY Fetched DEF LogInv
<1>3. 0 \in Senders /\ held[0] = {}
  BY <1>1, Constants DEF LogInv, HolderInv
<1>4. Drained' = Drained \union B
  BY <1>1, <1>3, DrainAdds DEF LogInv
<1>5. RingInv' /\ BatchInv'
  BY <1>1, <1>4, DrainKeeps DEF LogInv
<1> HIDE DEF B, goal
<1>6. CoverInv'
  BY <1>1, DrainCovers
<1>7. /\ \A z \in Sessions : held'[z] = held[z]
      /\ held'[0] = B
  BY <1>1, <1>3, Constants DEF LogInv, LoopInv
<1>8. flushLeft' \in Nat
  BY <1>1 DEF LogInv, LoopInv
<1>9. LoopInv'
  BY <1>1, <1>2, <1>3, <1>8 DEF LogInv, LoopInv
<1>10. HolderInv'
  <2>1. ASSUME NEW z \in Sessions
        PROVE  IF task'[z] = "send" THEN \E b : held'[z] = {b} ELSE held'[z] = {}
    BY <1>1, <1>7 DEF LogInv, HolderInv
  <2>2. IF phase' = "flushSend" THEN \E b : held'[0] = {b} ELSE held'[0] = {}
    BY <1>1, <1>2, <1>7
  <2> QED
    BY <2>1, <2>2 DEF HolderInv
<1>11. OpenInv'
  BY <1>1, <1>2 DEF LogInv, OpenInv
<1> QED
  BY <1>5, <1>6, <1>9, <1>10, <1>11 DEF LogInv

\* A sender that lets go of its batch, whether it went on to a queue or down with
\* the sender, holds none and is no longer sending.
LEMMA LetGo ==
  ASSUME LogInv, NEW s \in Senders, held' = [held EXCEPT ![s] = {}],
         IF s = 0 THEN phase' \in {"flush", "down"} /\ task' = task /\ phase = "flushSend"
         ELSE /\ phase' = phase /\ task[s] # "none"
              /\ \E g \in {"tick", "done"} : task' = [task EXCEPT ![s] = g],
         session' = session, UNCHANGED flushLeft,
         out' \in [Sessions -> Seq(Batch)], vanished' \subseteq Batch, UNCHANGED <<received, sunk>>
  PROVE  LoopInv' /\ HolderInv' /\ OpenInv'
<1>1. \A z \in Senders : held'[z] = IF z = s THEN {} ELSE held[z]
  BY DEF LogInv, LoopInv
<1>2. held' \in [Senders -> SUBSET Batch]
  BY DEF LogInv, LoopInv
<1>3. CASE s = 0
  <2>1. phase' \in {"flush", "down"} /\ task' = task /\ phase = "flushSend"
    BY <1>3
  <2>2. LoopInv' /\ OpenInv'
    BY <1>2, <2>1 DEF LogInv, LoopInv, OpenInv
  <2>3. \A z \in Sessions : held'[z] = held[z]
    BY <1>1, <1>3, Constants
  <2>4. ASSUME NEW z \in Sessions
        PROVE  IF task'[z] = "send" THEN \E b : held'[z] = {b} ELSE held'[z] = {}
    BY <2>1, <2>3 DEF LogInv, HolderInv
  <2>5. IF phase' = "flushSend" THEN \E b : held'[0] = {b} ELSE held'[0] = {}
    BY <1>1, <1>3, <2>1
  <2> QED
    BY <2>2, <2>4, <2>5 DEF HolderInv
<1>4. CASE s # 0
  <2>1. s \in Sessions
    BY <1>4, Constants
  <2>2. phase' = phase /\ task[s] # "none"
    BY <1>4
  <2>3. PICK g \in {"tick", "done"} : task' = [task EXCEPT ![s] = g]
    BY <1>4
  <2>4. \A z \in Sessions : task'[z] = IF z = s THEN g ELSE task[z]
    BY <2>3 DEF LogInv, LoopInv
  <2>5. LoopInv'
    BY <1>2, <2>2, <2>3 DEF LogInv, LoopInv
  <2>6. OpenInv'
    BY <2>1, <2>2, <2>4 DEF LogInv, OpenInv
  <2>7. ASSUME NEW z \in Sessions
        PROVE  IF task'[z] = "send" THEN \E b : held'[z] = {b} ELSE held'[z] = {}
    <3>1. CASE z = s
      <4>1. task'[z] = g /\ held'[z] = {}
        BY <1>1, <2>1, <2>4, <3>1
      <4> QED
        BY <2>3, <4>1
    <3>2. CASE z # s
      <4>1. z \in Senders
        BY Constants
      <4>2. task'[z] = task[z] /\ held'[z] = held[z]
        BY <1>1, <2>4, <3>2, <4>1
      <4> QED
        BY <4>2 DEF LogInv, HolderInv
    <3> QED
      BY <3>1, <3>2
  <2>8. IF phase' = "flushSend" THEN \E b : held'[0] = {b} ELSE held'[0] = {}
    <3>1. held'[0] = held[0]
      BY <1>1, <1>4, Constants
    <3> QED
      BY <2>2, <3>1 DEF LogInv, HolderInv
  <2> QED
    BY <2>5, <2>6, <2>7, <2>8 DEF HolderInv
<1> QED
  BY <1>3, <1>4

\* Who holds a batch is sending it.
LEMMA SenderIs ==
  ASSUME LogInv, NEW s \in Senders, held[s] # {}
  PROVE  /\ QueueOf(s) \in Sessions
         /\ \E b \in Batch : held[s] = {b}
         /\ IF s = 0 THEN phase = "flushSend" ELSE s \in Sessions /\ task[s] = "send"
<1>1. held[s] \subseteq Batch
  BY DEF LogInv, LoopInv
<1>2. CASE s = 0
  <2>1. phase = "flushSend" /\ \E b : held[s] = {b}
    BY <1>2 DEF LogInv, HolderInv
  <2>2. session \in Sessions
    BY <2>1 DEF LogInv, OpenInv
  <2> QED
    BY <1>1, <1>2, <2>1, <2>2 DEF QueueOf
<1>3. CASE s # 0
  <2>1. s \in Sessions
    BY <1>3, Constants
  <2>2. task[s] = "send" /\ \E b : held[s] = {b}
    BY <2>1 DEF LogInv, HolderInv
  <2> QED
    BY <1>1, <1>3, <2>1, <2>2 DEF QueueOf
<1> QED
  BY <1>2, <1>3

\* A batch goes to the queue.
LEMMA SendStep ==
  ASSUME LogInv, NEW s \in Senders, Send(s)
  PROVE  LogInv'
<1> DEFINE q == QueueOf(s)
<1>1. /\ held[s] # {} /\ held' = [held EXCEPT ![s] = {}] /\ GoOn(s, TRUE)
      /\ \E b \in held[s] : out' = [out EXCEPT ![q] = Append(@, b)]
      /\ UNCHANGED <<lines, dropped, seq, emitted, late, session, flushLeft, received, sunk,
                     vanished>>
  BY DEF Send, ring, host
<1>2. /\ q \in Sessions /\ \E b \in Batch : held[s] = {b}
      /\ IF s = 0 THEN phase = "flushSend" ELSE s \in Sessions /\ task[s] = "send"
  BY <1>1, SenderIs
<1> HIDE DEF q
<1>3. PICK b \in Batch : held[s] = {b}
  BY <1>2
<1>4. out' = [out EXCEPT ![q] = Append(@, b)]
  BY <1>1, <1>3
<1>5. Drained' = Drained /\ out' \in [Sessions -> Seq(Batch)]
  BY <1>1, <1>2, <1>3, <1>4, SendKeepsAll DEF LogInv
<1>6. RingInv' /\ BatchInv'
  BY <1>1, <1>5, AccountStays DEF LogInv
<1>7. IF s = 0 THEN phase' = "flush" /\ task' = task /\ phase = "flushSend"
      ELSE phase' = phase /\ task[s] # "none" /\ task' = [task EXCEPT ![s] = "tick"]
  BY <1>1, <1>2 DEF GoOn
<1>8. LoopInv' /\ HolderInv' /\ OpenInv'
  BY <1>1, <1>5, <1>7, LetGo DEF LogInv, LoopInv
<1>9. CoverInv'
  BY <1>1, <1>7, CoverStays DEF LogInv, RingInv
<1> QED
  BY <1>6, <1>8, <1>9 DEF LogInv

\* A batch goes down with its sender, at a closed queue or at an abort.
LEMMA VanishStep ==
  ASSUME LogInv, NEW s \in Senders, SendFails(s) \/ (s \in Sessions /\ TaskDropped(s))
  PROVE  LogInv'
<1>1. /\ held' = [held EXCEPT ![s] = {}] /\ vanished' = vanished \union held[s]
      /\ UNCHANGED <<lines, dropped, seq, emitted, late, session, flushLeft, out, received, sunk>>
  BY DEF SendFails, TaskDropped, ring, host, loop, wire
<1>2. Drained' = Drained
  BY <1>1, VanishKeeps DEF LogInv
<1>3. RingInv' /\ BatchInv'
  BY <1>1, <1>2, AccountStays DEF LogInv
<1>4. IF s = 0 THEN phase' = "down" /\ task' = task /\ phase = "flushSend"
      ELSE phase' = phase /\ task[s] # "none" /\ task' = [task EXCEPT ![s] = "done"]
  <2>1. CASE SendFails(s)
    <3>1. held[s] # {} /\ GoOn(s, FALSE)
      BY <2>1 DEF SendFails
    <3>2. IF s = 0 THEN phase = "flushSend" ELSE task[s] = "send"
      BY <3>1, SenderIs
    <3> QED
      BY <3>1, <3>2 DEF GoOn
  <2>2. CASE s \in Sessions /\ TaskDropped(s)
    BY <2>2, Constants DEF TaskDropped, loop
  <2> QED
    BY <2>1, <2>2
<1>5. vanished' \subseteq Batch /\ out' \in [Sessions -> Seq(Batch)]
  BY <1>1 DEF LogInv, LoopInv
<1>6. LoopInv' /\ HolderInv' /\ OpenInv'
  BY <1>1, <1>4, <1>5, LetGo
<1>7. CoverInv'
  BY <1>1, <1>4, CoverStays DEF LogInv, RingInv
<1> QED
  BY <1>3, <1>6, <1>7 DEF LogInv

----------------------------------------------------------------------------
\* The invariant, and what it says of the lane.

\* The lane starts with nothing recorded, drained or held.
LEMMA LogStarts ==
  ASSUME Init
  PROVE  LogInv
<1>1. LoopInv /\ OpenInv
  BY Constants DEF Init, LoopInv, OpenInv, Sessions
<1>2. HolderInv
  BY Constants DEF Init, HolderInv
<1>3. Drained = {}
  <2>1. \A x : x \notin Drained
    BY DrainedIs DEF Init, Range
  <2> QED
    BY <2>1
<1>4. Entries(Drained) = {}
  BY <1>3 DEF Entries
<1>5. Total = 0 /\ IsFiniteSet(Entries(Drained))
  BY <1>4, FS_EmptySet DEF Total
<1>6. BatchInv
  BY <1>3, <1>5 DEF BatchInv
<1>7. RingInv
  BY <1>5, Constants DEF Init, RingInv
<1>8. CoverInv
  BY DEF Init, CoverInv
<1> QED
  BY <1>1, <1>2, <1>6, <1>7, <1>8 DEF LogInv

\* The ring goes on where the drained batches end, the batches cover what was
\* emitted before it without overlap, and whoever drained one still has it, has
\* queued it or has lost it where the account can see it (logs.rs record and
\* drain, flush_loop, agent.rs flush_remaining).
THEOREM LogInvariant == Spec => []LogInv
<1>1. LogInv /\ [Next]_vars => LogInv'
  <2> SUFFICES ASSUME LogInv, [Next]_vars PROVE LogInv'
    OBVIOUS
  <2>1. CASE Record
    BY <2>1, RecordStep
  <2>2. CASE Trigger \/ Opens \/ Stops \/ Ends \/ FlushGivesUp
    BY <2>2, RunLoopStep
  <2>3. CASE MetricsFlushed
    BY <2>3, MetricsFlushedStep
  <2>4. CASE FlushDrain
    BY <2>4, FlushDrainStep
  <2>5. CASE Send(0) \/ SendFails(0)
    BY <2>5, SendStep, VanishStep, Constants
  <2>6. ASSUME NEW t \in Sessions, Task(t) PROVE LogInv'
    <3>1. t \in Senders
      BY Constants
    <3> QED
      BY <2>6, <3>1, TaskTickStep, TaskDrainStep, SendStep, VanishStep DEF Task
  <2>7. ASSUME NEW t \in Sessions, Carry(t) PROVE LogInv'
    BY <2>7, CarryStep
  <2>8. CASE UNCHANGED vars
    <3>1. UNCHANGED <<lines, dropped, seq, emitted, late, phase, session, flushLeft, task, held,
                      out, received, sunk, vanished>>
      BY <2>8 DEF vars, ring, host, loop, tasks, wire
    <3>2. Drained' = Drained
      BY <3>1 DEF Drained
    <3>3. RingInv' /\ BatchInv'
      BY <3>1, <3>2, AccountStays DEF LogInv
    <3>4. LoopInv' /\ OpenInv' /\ CoverInv'
      BY <3>1 DEF LogInv, LoopInv, OpenInv, CoverInv
    <3>5. HolderInv'
      BY <3>1, HoldersStay DEF LogInv
    <3> QED
      BY <3>3, <3>4, <3>5 DEF LogInv
  <2> QED
    BY <2>1, <2>2, <2>3, <2>4, <2>5, <2>6, <2>7, <2>8 DEF Next, Flush
<1> QED
  BY <1>1, LogStarts, PTL DEF Spec

\* DropsFillGaps for any ring, batch and queue capacity and any number of
\* sessions and lines: the drop counts say exactly where lines are missing,
\* whoever drained them and whether they arrived.
THEOREM GapsAreFilled == Spec => []DropsFillGaps
<1>1. LogInv => DropsFillGaps
  <2> SUFFICES ASSUME LogInv PROVE DropsFillGaps
    OBVIOUS
  <2> DEFINE rest == [lines |-> lines, dropped |-> dropped, seq |-> seq + 1]
  <2>1. \A b \in Drained : b.seq < seq + 1
    BY DEF LogInv, BatchInv, RingInv, Batch
  <2>2. Before(seq + 1) = Total
    <3>1. {b \in Drained : b.seq < seq + 1} = Drained
      BY <2>1
    <3> QED
      BY <3>1 DEF Before, Total
  <2>3. \A i \in DOMAIN rest.lines : rest.lines[i] = Before(rest.seq) + rest.dropped + i
    BY <2>2 DEF LogInv, RingInv
  <2>4. \A b \in Drained : \A i \in DOMAIN b.lines : b.lines[i] = Before(b.seq) + b.dropped + i
    BY DEF LogInv, BatchInv
  <2> QED
    BY <2>3, <2>4 DEF DropsFillGaps
<1> QED
  BY <1>1, LogInvariant, PTL

\* LogFlushCovers for any capacities that the bound of the flush covers: a flush
\* that runs into MAX_SHUTDOWN_FLUSH_BATCHES leaves no more lines than came in
\* while it ran.
THEOREM LogFlushReachesTheEnd == Spec => []LogFlushCovers
<1>1. LogInv => LogFlushCovers
  <2> SUFFICES ASSUME LogInv, Cap <= MaxFlush * BatchCap, phase = "flush", ~FlushMayGoOn
               PROVE  Len(lines) <= late
    BY DEF LogFlushCovers
  <2>1. Len(lines) <= late + flushLeft * BatchCap
    BY DEF LogInv, CoverInv
  <2>2. flushLeft = 0 /\ late \in Nat /\ Len(lines) \in Nat
    BY DEF LogInv, LoopInv, CoverInv, RingInv, FlushMayGoOn
  <2>3. flushLeft * BatchCap = 0
    BY <2>2, Constants
  <2> QED
    BY <2>1, <2>2, <2>3
<1> QED
  BY <1>1, LogInvariant, PTL

============================================================================
