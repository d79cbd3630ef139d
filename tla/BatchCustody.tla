---------------------------- MODULE BatchCustody ----------------------------
(***************************************************************************)
(* What the metrics buffer promises to whoever drains it.  Any number of   *)
(* callers record calls and event usage, drain batches and hold them, give *)
(* a held batch back, or settle it: pass it on for good.  The flush loop   *)
(* of every session and the shutdown flush are such callers (MetricsLane   *)
(* implements this specification), and nothing here depends on how many    *)
(* there are or in which order they act.                                   *)
(***************************************************************************)
EXTENDS MetricsBuffer

CONSTANTS MaxCalls,    \* bound on the calls recorded
          MaxUsage     \* bound on the event usage recorded

ASSUME CustodyAssumption == MaxCalls \in Nat /\ MaxUsage \in Nat

VARIABLES custody,     \* batches drained and neither returned nor settled
          settled,     \* batches their holder passed on
          calls,       \* calls recorded so far, the next sample's number
          usage        \* what was recorded, per kind

custodyVars == <<samples, nonBillable, droppedOverflow, droppedNonBillable,
                 seq, events, flushEarly, custody, settled, calls, usage>>

\* The kinds of usage the ledger keeps apart: calls the control plane bills,
\* calls it does not, MCP Events usage.
Kinds == {"billable", "nonBillable", "events"}

\* What a batch accounts for: rows, and drops by their count.
Units(batch, kind) ==
    CASE kind = "billable"    -> BillableIn(batch.samples) + batch.droppedOverflow
      [] kind = "nonBillable" -> NonBillableIn(batch.samples) + batch.droppedNonBillable
      [] kind = "events"      -> batch.events

\* One line per unit of the batches, and their number: the sum of Units over a
\* finite set of batches.
Lines(batches, kind) == UNION {{b} \X (1 .. Units(b, kind)) : b \in batches}

Total(batches, kind) == Cardinality(Lines(batches, kind))

\* Everything the buffer itself holds, seen as one batch.
Buffered == [samples            |-> samples,
             droppedOverflow    |-> droppedOverflow,
             droppedNonBillable |-> droppedNonBillable,
             seq                |-> seq,
             events             |-> events]

Ids(s) == {s[i].id : i \in DOMAIN s}

TypeOK ==
    /\ BufferTypeOK
    /\ custody \in SUBSET Drained
    /\ settled \in SUBSET Drained
    /\ calls \in Nat
    /\ usage \in [Kinds -> Nat]

Init ==
    /\ BufferInit
    /\ custody = {}
    /\ settled = {}
    /\ calls = 0
    /\ usage = [k \in Kinds |-> 0]

KindOf(outcome) == IF IsBillable(outcome) THEN "billable" ELSE "nonBillable"

RecordCall(outcome) ==
    /\ calls < MaxCalls
    /\ Record([id |-> calls + 1, outcome |-> outcome])
    /\ calls' = calls + 1
    /\ usage' = [usage EXCEPT ![KindOf(outcome)] = @ + 1]
    /\ UNCHANGED <<custody, settled>>

RecordUsage(n) ==
    /\ usage["events"] + n <= MaxUsage
    /\ RecordEvents(n)
    /\ usage' = [usage EXCEPT !["events"] = @ + n]
    /\ UNCHANGED <<custody, settled, calls>>

\* A drain; an empty batch is held by nobody.
TakeBatch ==
    /\ Drain
    /\ custody' = custody \union {b \in {NextBatch} : ~IsEmpty(b)}
    /\ UNCHANGED <<settled, calls, usage>>

ReturnBatch(b) ==
    /\ b \in custody
    /\ RequeueFront(b)
    /\ custody' = custody \ {b}
    /\ UNCHANGED <<settled, calls, usage>>

SettleBatch(b) ==
    /\ b \in custody
    /\ custody' = custody \ {b}
    /\ settled' = settled \union {b}
    /\ UNCHANGED <<bufferVars, calls, usage>>

\* A woken flush loop takes the early-flush permit.
TakePermit ==
    /\ flushEarly
    /\ flushEarly' = FALSE
    /\ UNCHANGED <<samples, nonBillable, droppedOverflow, droppedNonBillable,
                   seq, events, custody, settled, calls, usage>>

Next ==
    \/ \E o \in Outcomes : RecordCall(o)
    \/ \E n \in 1 .. MaxUsage : RecordUsage(n)
    \/ TakeBatch
    \/ \E b \in custody : ReturnBatch(b) \/ SettleBatch(b)
    \/ TakePermit

Spec == Init /\ [][Next]_custodyVars

----------------------------------------------------------------------------

\* Every recorded call and every unit of event usage is accounted for exactly
\* once: by the buffer (as a row or in a counter), by a batch some caller
\* holds, or by a batch passed on.  `record`, `drain` and `requeue_front` are
\* "neutral to buffer overflow" (metrics.rs, requeue_front).
Ledger ==
    \A k \in Kinds :
        usage[k] = Units(Buffered, k) + Total(custody \union settled, k)

\* The ring's count of non-billable samples is the number it holds, so a full
\* ring knows "without a scan whether it has one to give up" (struct Ring).
NonBillableExact == nonBillable = NonBillableIn(samples)

\* The ring never outgrows its capacity (one sample when that is zero), however
\* many batches come back into it.
BoundedBuffer == Len(samples) <= IF Cap = 0 THEN 1 ELSE Cap

\* No call is in two rows at once: the buffered rows are distinct calls, and no
\* row of a batch held or passed on is still buffered or in another batch.
RowsOnce ==
    /\ \A i, j \in DOMAIN samples : i # j => samples[i].id # samples[j].id
    /\ \A b \in custody \union settled : Ids(b.samples) \cap Ids(samples) = {}
    /\ \A b, c \in custody \union settled :
           b # c => Ids(b.samples) \cap Ids(c.samples) = {}

\* No two batches carry the same sequence number, and none one not yet drawn.
SeqUnique ==
    /\ \A b \in custody \union settled : b.seq \in 1 .. seq
    /\ \A b, c \in custody \union settled : b.seq = c.seq => b = c
    /\ custody \cap settled = {}

\* Recording a call gives up a billable row only when the ring is full of
\* billable rows: "the buffer spends non-billable samples first" (record).
SpendsNonBillableFirst ==
    [][calls' # calls /\ droppedOverflow' > droppedOverflow
       => /\ Len(samples) >= Cap
          /\ \A i \in DOMAIN samples : IsBillable(samples[i].outcome)]_custodyVars

============================================================================
