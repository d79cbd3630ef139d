--------------------------- MODULE MetricsBuffer ---------------------------
(***************************************************************************)
(* The tool-call metrics buffer of src/src/metrics.rs: a bounded ring of   *)
(* samples, the two drop counters, the batch sequence number, the MCP      *)
(* Events rollup and the early-flush notification.                         *)
(*                                                                         *)
(* Every operation of the code runs under the ring's mutex (`record`,      *)
(* `drain`, `requeue_front`) or under the rollup's (`record_events`), and  *)
(* the drop counters change only while the ring's mutex is held, so each   *)
(* operation is one action.  The operations are actions over the module's  *)
(* variables; who calls them is up to the modules that extend this one.    *)
(*                                                                         *)
(* A sample is its arrival number and its outcome.  The rollup, which the  *)
(* code keeps per (event type, mode) with four counters each, is one count *)
(* of usage: the counters are only ever added, taken and added back.  The  *)
(* code's usize and u64 counters are naturals.                             *)
(***************************************************************************)
EXTENDS Integers, FiniteSets, Sequences

CONSTANTS Cap,        \* `cap`: samples the ring holds
          BatchCap,   \* `batch_cap`: samples one drain takes
          Outcomes    \* the outcomes the hosts report

\* enum SampleOutcome
SampleOutcome == {"Ok", "ClientError", "ServerError",
                  "PolicyDenied", "QuotaExceeded", "IdempotentReplay"}

\* `with_caps` rejects no value, so neither does the model.
ASSUME CapsAssumption ==
    /\ Cap \in Nat
    /\ BatchCap \in Nat
    /\ Outcomes \subseteq SampleOutcome

VARIABLES samples,             \* Ring.samples, oldest first
          nonBillable,         \* Ring.non_billable
          droppedOverflow,     \* billable samples dropped since the last drain
          droppedNonBillable,  \* non-billable samples dropped since then
          seq,                 \* batches drained so far
          events,              \* MCP Events usage since the last drain
          flushEarly           \* the permit `flush_early` holds

bufferVars == <<samples, nonBillable, droppedOverflow, droppedNonBillable,
                seq, events, flushEarly>>

IsBillable(outcome) ==
    outcome \notin {"PolicyDenied", "QuotaExceeded", "IdempotentReplay"}

Sample == [id : Nat, outcome : Outcomes]

\* struct Drained
Drained == [samples : Seq(Sample), droppedOverflow : Nat,
            droppedNonBillable : Nat, seq : Nat, events : Nat]

BillableIn(s) == Cardinality({i \in DOMAIN s : IsBillable(s[i].outcome)})

NonBillableIn(s) == Cardinality({i \in DOMAIN s : ~IsBillable(s[i].outcome)})

BufferTypeOK ==
    /\ samples \in Seq(Sample)
    /\ nonBillable \in Nat
    /\ droppedOverflow \in Nat
    /\ droppedNonBillable \in Nat
    /\ seq \in Nat
    /\ events \in Nat
    /\ flushEarly \in BOOLEAN

BufferInit ==
    /\ samples = <<>>
    /\ nonBillable = 0
    /\ droppedOverflow = 0
    /\ droppedNonBillable = 0
    /\ seq = 0
    /\ events = 0
    /\ flushEarly = FALSE

----------------------------------------------------------------------------

\* The buffered count at which the flush loop is woken before its tick.
FlushEarlyAt == IF Cap = 0 THEN 1 ELSE Cap - Cap \div 5

\* The sequence s without its row i: VecDeque::remove.
Without(s, i) == SubSeq(s, 1, i - 1) \o SubSeq(s, i + 1, Len(s))

SaturatingSub(a, b) == IF a < b THEN 0 ELSE a - b

\* What one sample adds to a counter of non-billable samples.
NonBillableOne(s) == IF IsBillable(s.outcome) THEN 0 ELSE 1

CountDrop(s) ==
    /\ droppedOverflow' = droppedOverflow + (1 - NonBillableOne(s))
    /\ droppedNonBillable' = droppedNonBillable + NonBillableOne(s)

\* Mutant: the oldest sample goes, whatever its outcome.
VictimOldest == 1

\* The sample a full ring gives up for an arriving billable one: the oldest
\* non-billable sample, or the oldest of all when the count says there is none.
Victim ==
    IF nonBillable > 0 /\ \E i \in DOMAIN samples : ~IsBillable(samples[i].outcome)
    THEN CHOOSE i \in DOMAIN samples :
             /\ ~IsBillable(samples[i].outcome)
             /\ \A j \in 1 .. (i - 1) : IsBillable(samples[j].outcome)
    ELSE 1

RecordInRoom(s) ==
    /\ Len(samples) < Cap
    /\ samples' = Append(samples, s)
    /\ nonBillable' = nonBillable + NonBillableOne(s)
    /\ UNCHANGED <<droppedOverflow, droppedNonBillable>>

\* A full ring drops an arriving non-billable sample outright.
RecordRefused(s) ==
    /\ Len(samples) >= Cap
    /\ ~IsBillable(s.outcome)
    /\ CountDrop(s)
    /\ UNCHANGED <<samples, nonBillable>>

\* Mutant: the count goes down with every victim, billable or not.
RecordEvictingMiscounted(s) ==
    /\ Len(samples) >= Cap
    /\ IsBillable(s.outcome)
    /\ samples' = Append(Without(samples, Victim), s)
    /\ nonBillable' = nonBillable - 1
    /\ CountDrop(samples[Victim])

\* A full ring makes room for a billable sample; a ring of capacity zero that
\* is still empty has nothing to give up and takes the sample all the same.
RecordEvicting(s) ==
    /\ Len(samples) >= Cap
    /\ IsBillable(s.outcome)
    /\ IF samples = <<>>
       THEN /\ samples' = <<s>>
            /\ UNCHANGED <<nonBillable, droppedOverflow, droppedNonBillable>>
       ELSE /\ samples' = Append(Without(samples, Victim), s)
            /\ nonBillable' = SaturatingSub(nonBillable, NonBillableOne(samples[Victim]))
            /\ CountDrop(samples[Victim])

\* MetricsBuffer::record
Record(s) ==
    /\ RecordInRoom(s) \/ RecordRefused(s) \/ RecordEvicting(s)
    /\ flushEarly' = (flushEarly \/ Len(samples) + 1 >= FlushEarlyAt)
    /\ UNCHANGED <<seq, events>>

\* MetricsBuffer::record_events; counts of zero return at once.
RecordEvents(usage) ==
    /\ usage > 0
    /\ events' = events + usage
    /\ UNCHANGED <<samples, nonBillable, droppedOverflow, droppedNonBillable,
                   seq, flushEarly>>

DrainCount == IF Len(samples) < BatchCap THEN Len(samples) ELSE BatchCap

\* The batch the next drain returns.
NextBatch == [samples            |-> SubSeq(samples, 1, DrainCount),
              droppedOverflow    |-> droppedOverflow,
              droppedNonBillable |-> droppedNonBillable,
              seq                |-> seq + 1,
              events             |-> events]

\* Mutant: the last sample of the batch stays in the ring.
DrainKeepsLast ==
    /\ samples' = SubSeq(samples, IF DrainCount = 0 THEN 1 ELSE DrainCount, Len(samples))
    /\ nonBillable' = SaturatingSub(nonBillable, NonBillableIn(NextBatch.samples))
    /\ droppedOverflow' = 0
    /\ droppedNonBillable' = 0
    /\ seq' = seq + 1
    /\ events' = 0
    /\ UNCHANGED flushEarly

\* Mutant: the sequence number moves on only when there are samples.
DrainSeqOnlyWithRows ==
    /\ samples' = SubSeq(samples, DrainCount + 1, Len(samples))
    /\ nonBillable' = SaturatingSub(nonBillable, NonBillableIn(NextBatch.samples))
    /\ droppedOverflow' = 0
    /\ droppedNonBillable' = 0
    /\ seq' = IF DrainCount = 0 THEN seq ELSE seq + 1
    /\ events' = 0
    /\ UNCHANGED flushEarly

\* MetricsBuffer::drain
Drain ==
    /\ samples' = SubSeq(samples, DrainCount + 1, Len(samples))
    /\ nonBillable' = SaturatingSub(nonBillable, NonBillableIn(NextBatch.samples))
    /\ droppedOverflow' = 0
    /\ droppedNonBillable' = 0
    /\ seq' = seq + 1
    /\ events' = 0
    /\ UNCHANGED flushEarly

\* Drained::is_empty
IsEmpty(batch) ==
    /\ batch.samples = <<>>
    /\ batch.droppedOverflow = 0
    /\ batch.droppedNonBillable = 0
    /\ batch.events = 0

\* Mutant: the whole batch goes back without a look at the capacity.
ReturnableUnchecked(batch) == Len(batch.samples)

\* How many samples of a returned batch fit.  The newest go back first, so the
\* ones that do not fit are the oldest.
Returnable(batch) ==
    LET room == SaturatingSub(Cap, Len(samples))
        n    == Len(batch.samples)
    IN  IF n < room THEN n ELSE room

ReturnedRows(batch) ==
    SubSeq(batch.samples, Len(batch.samples) - Returnable(batch) + 1,
           Len(batch.samples))

UnreturnedRows(batch) ==
    SubSeq(batch.samples, 1, Len(batch.samples) - Returnable(batch))

\* Mutant: the drops the batch carried are not restored.
RequeueForgetsDrops(batch) ==
    /\ samples' = ReturnedRows(batch) \o samples
    /\ nonBillable' = nonBillable + NonBillableIn(ReturnedRows(batch))
    /\ droppedOverflow' = droppedOverflow + BillableIn(UnreturnedRows(batch))
    /\ droppedNonBillable' = droppedNonBillable + NonBillableIn(UnreturnedRows(batch))
    /\ events' = events + batch.events
    /\ UNCHANGED <<seq, flushEarly>>

\* Mutant: the samples go back past Ring::push_front and its count.
RequeueUncounted(batch) ==
    /\ samples' = ReturnedRows(batch) \o samples
    /\ droppedOverflow' = droppedOverflow + BillableIn(UnreturnedRows(batch))
                                          + batch.droppedOverflow
    /\ droppedNonBillable' = droppedNonBillable + NonBillableIn(UnreturnedRows(batch))
                                                + batch.droppedNonBillable
    /\ events' = events + batch.events
    /\ UNCHANGED <<seq, nonBillable, flushEarly>>

\* MetricsBuffer::requeue_front
RequeueFront(batch) ==
    /\ samples' = ReturnedRows(batch) \o samples
    /\ nonBillable' = nonBillable + NonBillableIn(ReturnedRows(batch))
    /\ droppedOverflow' = droppedOverflow + BillableIn(UnreturnedRows(batch))
                                          + batch.droppedOverflow
    /\ droppedNonBillable' = droppedNonBillable + NonBillableIn(UnreturnedRows(batch))
                                                + batch.droppedNonBillable
    /\ events' = events + batch.events
    /\ UNCHANGED <<seq, flushEarly>>

============================================================================
