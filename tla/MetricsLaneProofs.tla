------------------------- MODULE MetricsLaneProofs -------------------------
(***************************************************************************)
(* The metrics lane implements BatchCustody, for any number of sessions,   *)
(* any capacities and any interleaving of hosts, flush tasks, transports   *)
(* and the run loop; so everything proved of BatchCustody holds of the     *)
(* lane, end to end.                                                       *)
(*                                                                         *)
(* The first part shows the refinement.  A step of the lane is one of      *)
(* BatchCustody only while every holder holds a batch of its own, and the  *)
(* batch a drain hands out is a new one because its number is: that is     *)
(* ShapeInv.  The second part takes what BatchCustodyProofs shows of the   *)
(* buffer (`Held`) back to the lane, for its types, for the calls reported *)
(* and for the shutdown flush.                                             *)
(***************************************************************************)
EXTENDS MetricsLane, TLAPS

----------------------------------------------------------------------------
\* The operations of the buffer are those of BatchCustody.

\* record.
LEMMA SameRecord == \A s : Custody!Record(s) <=> Record(s)
BY DEF Custody!Record, Record, Custody!RecordInRoom, RecordInRoom, Custody!RecordRefused, RecordRefused,
   Custody!RecordEvicting, RecordEvicting, Custody!CountDrop, CountDrop, Custody!NonBillableOne, NonBillableOne,
   Custody!IsBillable, IsBillable, Custody!Victim, Victim, Custody!SaturatingSub, SaturatingSub, Custody!FlushEarlyAt,
   FlushEarlyAt, Custody!Without, Without

\* Sets are counted alike.
LEMMA SameCardinality == ASSUME NEW S PROVE Custody!Cardinality(S) = Cardinality(S)
BY DEF Custody!Cardinality, Cardinality

\* So are rows.
LEMMA SameCounts ==
  ASSUME NEW s
  PROVE  Custody!NonBillableIn(s) = NonBillableIn(s) /\ Custody!BillableIn(s) = BillableIn(s)
<1>1. \A o : Custody!IsBillable(o) <=> IsBillable(o)
  BY DEF Custody!IsBillable, IsBillable
<1>2. {i \in DOMAIN s : ~Custody!IsBillable(s[i].outcome)} = {i \in DOMAIN s : ~IsBillable(s[i].outcome)}
  BY <1>1
<1>3. {i \in DOMAIN s : Custody!IsBillable(s[i].outcome)} = {i \in DOMAIN s : IsBillable(s[i].outcome)}
  BY <1>1
<1> QED
  BY <1>2, <1>3, SameCardinality, Zenon DEF Custody!NonBillableIn, NonBillableIn, Custody!BillableIn, BillableIn

\* The batch a drain hands out.
LEMMA SameBatch == Custody!NextBatch = NextBatch
BY DEF Custody!NextBatch, NextBatch, Custody!DrainCount, DrainCount

\* drain.
LEMMA SameDrain == Custody!Drain <=> Drain
<1>1. Custody!NonBillableIn(Custody!NextBatch.samples) = NonBillableIn(NextBatch.samples)
  BY SameBatch, SameCounts
<1>2. Custody!DrainCount = DrainCount
  BY DEF Custody!DrainCount, DrainCount
<1>3. \A a, b : Custody!SaturatingSub(a, b) = SaturatingSub(a, b)
  BY DEF Custody!SaturatingSub, SaturatingSub
<1> QED
  BY <1>1, <1>2, <1>3 DEF Custody!Drain, Drain

\* requeue_front.
LEMMA SameReturn ==
  ASSUME NEW b
  PROVE  Custody!RequeueFront(b) <=> RequeueFront(b)
<1>1. Custody!ReturnedRows(b) = ReturnedRows(b) /\ Custody!UnreturnedRows(b) = UnreturnedRows(b)
  BY DEF Custody!ReturnedRows, ReturnedRows, Custody!UnreturnedRows, UnreturnedRows,
     Custody!Returnable, Returnable, Custody!SaturatingSub, SaturatingSub
<1>2. /\ Custody!NonBillableIn(Custody!ReturnedRows(b)) = NonBillableIn(ReturnedRows(b))
      /\ Custody!NonBillableIn(Custody!UnreturnedRows(b)) = NonBillableIn(UnreturnedRows(b))
      /\ Custody!BillableIn(Custody!UnreturnedRows(b)) = BillableIn(UnreturnedRows(b))
  BY <1>1, SameCounts
<1> QED
  BY <1>1, <1>2 DEF Custody!RequeueFront, RequeueFront

\* Which batches are empty.
LEMMA SameEmpty == \A b : Custody!IsEmpty(b) <=> IsEmpty(b)
BY DEF Custody!IsEmpty, IsEmpty

----------------------------------------------------------------------------
\* What the refinement needs.

\* The run loop's own state.
RunTypeOK ==
    /\ phase \in {"top", "opening", "up", "flush", "flushSend", "sleep", "stopped"}
    /\ session \in 0 .. MaxSessions
    /\ outcome \in {"ok", "err"}
    /\ stopping \in BOOLEAN /\ wake \in BOOLEAN /\ finished \in BOOLEAN
    /\ flushLeft \in 0 .. MaxFlush

\* The tasks hold batches in custody.
TaskTypeOK ==
    /\ task \in [Sessions -> {"none", "spawned", "drain", "send", "wait", "spacing", "done"}]
    /\ aborted \in [Sessions -> BOOLEAN]
    /\ inflight \in [Sessions -> SUBSET InCustody]
    /\ rounds \in [Sessions -> Nat]

\* The queues hold batches passed on.
QueueTypeOK ==
    /\ out \in [Sessions -> Seq(PassedOn)]
    /\ open \in [Sessions -> BOOLEAN]

\* A flush task holds a batch exactly while it sends it, flush_remaining too;
\* no two hold the same one; a session that has not been opened has no task.
HolderInv ==
    /\ \A t \in Sessions : IF task[t] = "send" THEN \E b : inflight[t] = {b} ELSE inflight[t] = {}
    /\ IF phase = "flushSend" THEN \E b : flushing = {b} ELSE flushing = {}
    /\ \A t, u \in Sessions : t # u => inflight[t] \cap inflight[u] = {}
    /\ \A t \in Sessions : inflight[t] \cap flushing = {}
    /\ \A t \in Sessions : t > session => task[t] = "none"
    /\ phase \in {"up", "flush", "flushSend"} => session \in Sessions

\* No batch in custody has a number that has not been drawn.
SeqInv == seq \in Nat /\ \A b \in InCustody : b.seq \in 1 .. seq

ShapeInv == RunTypeOK /\ TaskTypeOK /\ QueueTypeOK /\ HolderInv /\ SeqInv

----------------------------------------------------------------------------
\* How the steps move the refinement mapping.

\* Which batches are held, and which are passed on.
LEMMA HeldBatches ==
  /\ \A x : x \in InCustody <=> x \in flushing \/ \E u \in Sessions : x \in inflight[u]
  /\ \A x : x \in InCustody' <=> x \in flushing' \/ \E u \in Sessions : x \in inflight'[u]
BY DEF InCustody

\* Membership in PassedOn, in this state and in the next, spelled out.
LEMMA PassedBatches ==
  /\ \A x : x \in PassedOn
              <=> x \in received \/ x \in lost \/ \E u \in Sessions : x \in QueuedIn(u)
  /\ \A x : x \in PassedOn'
              <=> x \in received' \/ x \in lost' \/ \E u \in Sessions : x \in QueuedIn(u)'
BY DEF PassedOn

\* A task takes a batch, or gives it up.
LEMMA TaskTakes ==
  ASSUME ShapeInv, NEW t \in Sessions, NEW b, inflight[t] = {},
         inflight' = [inflight EXCEPT ![t] = {b}], flushing' = flushing
  PROVE  InCustody' = InCustody \union {b}
<1>1. inflight \in [Sessions -> SUBSET InCustody]
  BY DEF ShapeInv, TaskTypeOK, QueueTypeOK
<1>2. inflight'[t] = {b} /\ \A u \in Sessions : u # t => inflight'[u] = inflight[u]
  BY <1>1
<1>3. \A x : x \in InCustody' <=> x \in InCustody \/ x = b
  BY <1>2, HeldBatches
<1> QED
  BY <1>3

\* A task gives up the one batch it holds, and nobody else holds it.
LEMMA TaskGives ==
  ASSUME ShapeInv, NEW t \in Sessions, NEW b, inflight[t] = {b},
         inflight' = [inflight EXCEPT ![t] = {}], flushing' = flushing
  PROVE  b \in InCustody /\ InCustody' = InCustody \ {b}
<1>1. inflight \in [Sessions -> SUBSET InCustody]
  BY DEF ShapeInv, TaskTypeOK, QueueTypeOK
<1>2. inflight'[t] = {} /\ \A u \in Sessions : u # t => inflight'[u] = inflight[u]
  BY <1>1
<1>3. b \notin flushing /\ \A u \in Sessions : u # t => b \notin inflight[u]
  BY DEF ShapeInv, HolderInv
<1>4. \A x : x \in InCustody' <=> x \in InCustody /\ x # b
  BY <1>2, <1>3, HeldBatches
<1>5. b \in InCustody
  BY HeldBatches
<1> QED
  BY <1>4, <1>5

\* So does flush_remaining.
LEMMA FlushTakes ==
  ASSUME NEW b, flushing = {}, flushing' = {b}, inflight' = inflight
  PROVE  InCustody' = InCustody \union {b}
BY DEF InCustody

\* The shutdown flush gives up the one batch it holds.
LEMMA FlushGives ==
  ASSUME ShapeInv, NEW b, flushing = {b}, flushing' = {}, inflight' = inflight
  PROVE  b \in InCustody /\ InCustody' = InCustody \ {b}
<1>1. \A u \in Sessions : b \notin inflight[u]
  BY DEF ShapeInv, HolderInv
<1>2. \A x : x \in InCustody' <=> x \in InCustody /\ x # b
  BY <1>1, HeldBatches
<1>3. b \in InCustody
  BY HeldBatches
<1> QED
  BY <1>2, <1>3

\* A batch that is queued is passed on; the transport only moves it further.
LEMMA QueuePasses ==
  ASSUME ShapeInv, NEW t \in Sessions, NEW b,
         out' = [out EXCEPT ![t] = Append(out[t], b)], received' = received, lost' = lost
  PROVE  PassedOn' = PassedOn \union {b}
<1>1. out \in [Sessions -> Seq(PassedOn)]
  BY DEF ShapeInv, TaskTypeOK, QueueTypeOK
<1>2. out'[t] = Append(out[t], b) /\ \A u \in Sessions : u # t => out'[u] = out[u]
  BY <1>1
<1>3. Range(Append(out[t], b)) = Range(out[t]) \union {b}
  <2> DEFINE s == out[t]
  <2>1. s \in Seq(PassedOn)
    BY <1>1
  <2> HIDE DEF s
  <2>2. /\ Len(s) \in Nat /\ DOMAIN s = 1 .. Len(s) /\ DOMAIN Append(s, b) = 1 .. (Len(s) + 1)
        /\ \A i \in 1 .. Len(s) : Append(s, b)[i] = s[i]
        /\ Append(s, b)[Len(s) + 1] = b
    BY <2>1
  <2>3. Range(Append(s, b)) = Range(s) \union {b}
    BY <2>2 DEF Range
  <2> QED
    BY <2>3 DEF s
<1>4. QueuedIn(t)' = QueuedIn(t) \union {b}
  BY <1>2, <1>3 DEF QueuedIn
<1>5. \A u \in Sessions : u # t => QueuedIn(u)' = QueuedIn(u)
  BY <1>2 DEF QueuedIn
<1>6. \A x : x \in PassedOn' <=> x \in PassedOn \/ x = b
  BY <1>4, <1>5, PassedBatches
<1> QED
  BY <1>6

\* What the transport sends has been passed on before.
LEMMA TransmitPasses ==
  ASSUME ShapeInv, NEW t \in Sessions, Transmit(t)
  PROVE  PassedOn' = PassedOn
<1>1. out \in [Sessions -> Seq(PassedOn)]
  BY DEF ShapeInv, TaskTypeOK, QueueTypeOK
<1> DEFINE s == out[t]
<1>2. /\ s # <<>> /\ received' = received \union {Head(s)} /\ lost' = lost
      /\ out' = [out EXCEPT ![t] = Tail(s)]
  BY DEF Transmit
<1>3. out'[t] = Tail(s) /\ \A u \in Sessions : u # t => out'[u] = out[u]
  BY <1>1, <1>2
<1>4. s \in Seq(PassedOn)
  BY <1>1
<1> HIDE DEF s
<1>5. Range(s) = Range(Tail(s)) \union {Head(s)}
  <2>1. /\ Len(s) \in Nat /\ Len(s) >= 1 /\ DOMAIN s = 1 .. Len(s) /\ Head(s) = s[1]
        /\ DOMAIN Tail(s) = 1 .. (Len(s) - 1)
        /\ \A i \in 1 .. (Len(s) - 1) : Tail(s)[i] = s[i + 1]
    BY <1>2, <1>4
  <2>2. \A i \in 1 .. Len(s) : i = 1 \/ (i - 1 \in 1 .. (Len(s) - 1) /\ (i - 1) + 1 = i)
    BY <2>1
  <2>3. \A i \in 1 .. (Len(s) - 1) : i + 1 \in 1 .. Len(s)
    BY <2>1
  <2>4. ASSUME NEW x \in Range(s) PROVE x \in Range(Tail(s)) \union {Head(s)}
    <3>1. PICK i \in 1 .. Len(s) : x = s[i]
      BY <2>1 DEF Range
    <3>2. CASE i = 1
      BY <2>1, <3>1, <3>2
    <3>3. CASE i # 1
      <4>1. i - 1 \in 1 .. (Len(s) - 1) /\ Tail(s)[i - 1] = x
        BY <2>1, <2>2, <3>1, <3>3
      <4> QED
        BY <2>1, <4>1 DEF Range
    <3> QED
      BY <3>2, <3>3
  <2>5. Range(Tail(s)) \union {Head(s)} \subseteq Range(s)
    BY <2>1, <2>3 DEF Range
  <2> QED
    BY <2>4, <2>5
<1>6. QueuedIn(t) = QueuedIn(t)' \union {Head(s)}
  BY <1>3, <1>5 DEF QueuedIn, s
<1>7. \A u \in Sessions : u # t => QueuedIn(u)' = QueuedIn(u)
  BY <1>3 DEF QueuedIn
<1>8. \A x : x \in PassedOn' <=> x \in PassedOn
  BY <1>2, <1>6, <1>7, PassedBatches
<1> QED
  BY <1>8

\* What a queue takes down has been passed on before.
LEMMA BreakPasses ==
  ASSUME ShapeInv, NEW t \in Sessions, TransportBreaks(t)
  PROVE  PassedOn' = PassedOn
<1>1. out \in [Sessions -> Seq(PassedOn)]
  BY DEF ShapeInv, TaskTypeOK, QueueTypeOK
<1>2. /\ received' = received /\ lost' = lost \union QueuedIn(t)
      /\ out' = [out EXCEPT ![t] = <<>>]
  BY DEF TransportBreaks
<1>3. out'[t] = <<>> /\ \A u \in Sessions : u # t => out'[u] = out[u]
  BY <1>1, <1>2
<1>4. QueuedIn(t)' = {}
  BY <1>3 DEF QueuedIn, Range
<1>5. \A u \in Sessions : u # t => QueuedIn(u)' = QueuedIn(u)
  BY <1>3 DEF QueuedIn
<1>6. \A x : x \in PassedOn' <=> x \in PassedOn
  BY <1>2, <1>4, <1>5, PassedBatches
<1> QED
  BY <1>6

----------------------------------------------------------------------------
\* Every step of the lane is one of BatchCustody, or changes nothing there.

\* Steps that leave guards and queues alone move no batch.
LEMMA Unmoved ==
  /\ UNCHANGED <<flushing, inflight>> => InCustody' = InCustody
  /\ UNCHANGED <<out, received, lost>> => PassedOn' = PassedOn
<1>1. UNCHANGED <<flushing, inflight>> => InCustody' = InCustody
  BY DEF InCustody
<1>2. UNCHANGED <<out, received, lost>> => PassedOn' = PassedOn
  BY DEF PassedOn, QueuedIn
<1> QED
  BY <1>1, <1>2

\* A host's call is recorded as BatchCustody has it.
LEMMA CallRefines ==
  ASSUME NEW o \in Outcomes, HostCall(o)
  PROVE  Custody!RecordCall(o)
<1>1. Custody!KindOf(o) = Custody!KindOf(o)
  BY DEF Custody!KindOf, Custody!KindOf, Custody!IsBillable, Custody!IsBillable
<1>2. /\ calls < MaxCalls /\ calls' = calls + 1
      /\ usage' = [usage EXCEPT ![Custody!KindOf(o)] = @ + 1]
  BY <1>1 DEF HostCall
<1>3. Custody!Record([id |-> calls + 1, outcome |-> o])
  BY SameRecord, Zenon DEF HostCall
<1>4. InCustody' = InCustody /\ PassedOn' = PassedOn
  BY Unmoved DEF HostCall, flushVars, taskVars, wireVars
<1> QED
  BY <1>2, <1>3, <1>4, Zenon DEF Custody!RecordCall

\* A host's usage is recorded as BatchCustody has it.
LEMMA UsageRefines ==
  ASSUME NEW n \in 1 .. MaxUsage, HostUsage(n)
  PROVE  Custody!RecordUsage(n)
<1>1. InCustody' = InCustody /\ PassedOn' = PassedOn
  BY Unmoved DEF HostUsage, flushVars, taskVars, wireVars
<1>2. Custody!RecordEvents(n)
  BY DEF HostUsage, RecordEvents, Custody!RecordEvents
<1> QED
  BY <1>1, <1>2 DEF HostUsage, Custody!RecordUsage

\* A drain that finds nothing leaves nobody with a batch.
LEMMA DrainRefines ==
  ASSUME Drain, UNCHANGED <<out, received, lost, calls, usage>>,
         IF IsEmpty(NextBatch) THEN InCustody' = InCustody
                               ELSE InCustody' = InCustody \union {NextBatch}
  PROVE  Custody!TakeBatch
<1>1. Custody!Drain
  BY SameDrain
<1>2. InCustody' = InCustody \union {b \in {Custody!NextBatch} : ~Custody!IsEmpty(b)}
  BY SameBatch, SameEmpty
<1>3. PassedOn' = PassedOn
  BY Unmoved
<1> QED
  BY <1>1, <1>2, <1>3 DEF Custody!TakeBatch

\* A task's drain takes a batch into custody, unless it is empty.
LEMMA TaskDrainRefines ==
  ASSUME ShapeInv, NEW t \in Sessions, TaskDrain(t)
  PROVE  Custody!TakeBatch
<1>1. /\ task[t] = "drain" /\ Drain
      /\ UNCHANGED <<flushing, out, received, lost, calls, usage>>
      /\ IF IsEmpty(NextBatch) THEN inflight' = inflight
                               ELSE inflight' = [inflight EXCEPT ![t] = {NextBatch}]
  BY DEF TaskDrain, flushVars, wireVars, hostVars
<1>2. inflight[t] = {}
  BY <1>1 DEF ShapeInv, HolderInv
<1>3. IF IsEmpty(NextBatch) THEN InCustody' = InCustody
                            ELSE InCustody' = InCustody \union {NextBatch}
  BY <1>1, <1>2, Unmoved, TaskTakes
<1> QED
  BY <1>1, <1>3, DrainRefines

\* A drain of the shutdown flush takes a batch into custody, unless it is empty.
LEMMA FlushDrainRefines ==
  ASSUME ShapeInv, FlushDrain
  PROVE  Custody!TakeBatch
<1>1. /\ phase = "flush" /\ Drain
      /\ UNCHANGED <<inflight, out, received, lost, calls, usage>>
      /\ IF IsEmpty(NextBatch) THEN flushing' = flushing ELSE flushing' = {NextBatch}
  BY DEF FlushDrain, taskVars, wireVars, hostVars
<1>2. flushing = {}
  BY <1>1 DEF ShapeInv, HolderInv
<1>3. IF IsEmpty(NextBatch) THEN InCustody' = InCustody
                            ELSE InCustody' = InCustody \union {NextBatch}
  BY <1>1, <1>2, Unmoved, FlushTakes
<1> QED
  BY <1>1, <1>3, DrainRefines

\* The batch a task is sending.
LEMMA SendingHolds ==
  ASSUME ShapeInv, NEW t \in Sessions, task[t] = "send", NEW b \in inflight[t]
  PROVE  inflight[t] = {b}
BY DEF ShapeInv, HolderInv

\* A task's send settles the batch of its guard.
LEMMA SendRefines ==
  ASSUME ShapeInv, NEW t \in Sessions, TaskSend(t)
  PROVE  \E b \in InCustody : Custody!SettleBatch(b)
<1>1. PICK b \in inflight[t] : /\ out' = [out EXCEPT ![t] = Append(out[t], b)]
                               /\ inflight' = [inflight EXCEPT ![t] = {}]
  BY DEF TaskSend
<1>2. task[t] = "send" /\ UNCHANGED <<flushing, received, lost, calls, usage, bufferVars>>
  BY DEF TaskSend, flushVars, hostVars
<1>3. inflight[t] = {b}
  BY <1>2, SendingHolds
<1>4. b \in InCustody /\ InCustody' = InCustody \ {b}
  BY <1>1, <1>2, <1>3, TaskGives
<1>5. PassedOn' = PassedOn \union {b}
  BY <1>1, <1>2, QueuePasses
<1> QED
  BY <1>2, <1>4, <1>5 DEF Custody!SettleBatch, Custody!bufferVars, bufferVars

\* A send of the shutdown flush settles its batch.
LEMMA FlushSendRefines ==
  ASSUME ShapeInv, FlushSend
  PROVE  \E b \in InCustody : Custody!SettleBatch(b)
<1>1. PICK b \in flushing : out' = [out EXCEPT ![session] = Append(out[session], b)]
  BY DEF FlushSend
<1>2. /\ phase = "flushSend" /\ flushing' = {}
      /\ UNCHANGED <<inflight, received, lost, calls, usage, bufferVars>>
  BY DEF FlushSend, taskVars, hostVars
<1>3. flushing = {b} /\ session \in Sessions
  BY <1>2 DEF ShapeInv, HolderInv
<1>4. b \in InCustody /\ InCustody' = InCustody \ {b}
  BY <1>2, <1>3, FlushGives
<1>5. PassedOn' = PassedOn \union {b}
  BY <1>1, <1>2, <1>3, QueuePasses
<1> QED
  BY <1>2, <1>4, <1>5 DEF Custody!SettleBatch, Custody!bufferVars, bufferVars

\* A send of the shutdown flush that fails settles its batch as lost.
LEMMA FlushFailsRefines ==
  ASSUME ShapeInv, FlushSendFails
  PROVE  \E b \in InCustody : Custody!SettleBatch(b)
<1>1. /\ phase = "flushSend" /\ flushing' = {} /\ lost' = lost \union flushing
      /\ UNCHANGED <<inflight, out, received, calls, usage, bufferVars>>
  BY DEF FlushSendFails, taskVars, hostVars
<1>2. PICK b : flushing = {b}
  BY <1>1 DEF ShapeInv, HolderInv
<1>3. b \in InCustody /\ InCustody' = InCustody \ {b}
  BY <1>1, <1>2, FlushGives
<1>4. \A u \in Sessions : QueuedIn(u)' = QueuedIn(u)
  BY <1>1 DEF QueuedIn
<1>5. \A x : x \in PassedOn' <=> x \in PassedOn \/ x = b
  BY <1>1, <1>2, <1>4, PassedBatches
<1>6. PassedOn' = PassedOn \union {b}
  BY <1>5
<1> QED
  BY <1>1, <1>3, <1>6 DEF Custody!SettleBatch, Custody!bufferVars, bufferVars

\* InFlight::drop, after a failed send or with its task.
LEMMA ReturnRefines ==
  ASSUME ShapeInv, NEW t \in Sessions, task[t] = "send", NEW b \in inflight[t], RequeueFront(b),
         inflight' = [inflight EXCEPT ![t] = {}],
         UNCHANGED <<flushing, out, received, lost, calls, usage>>
  PROVE  \E c \in InCustody : Custody!ReturnBatch(c)
<1>1. inflight[t] = {b}
  BY SendingHolds
<1>2. b \in InCustody /\ InCustody' = InCustody \ {b}
  BY <1>1, TaskGives
<1>3. PassedOn' = PassedOn
  BY Unmoved
<1>4. Custody!RequeueFront(b)
  BY SameReturn
<1> QED
  BY <1>2, <1>3, <1>4 DEF Custody!ReturnBatch

\* A step that moves no batch and leaves the buffer alone is a stutter.
LEMMA QuietRefines ==
  ASSUME UNCHANGED <<bufferVars, calls, usage>>, InCustody' = InCustody, PassedOn' = PassedOn
  PROVE  UNCHANGED Custody!custodyVars
BY DEF Custody!custodyVars, bufferVars

\* Every step of a flush task is one of BatchCustody or a stutter.
LEMMA TaskRefines ==
  ASSUME ShapeInv, NEW t \in Sessions, Task(t)
  PROVE  [Custody!Next]_(Custody!custodyVars)
<1>1. CASE TaskStart(t) \/ TaskTick(t) \/ TaskSpaced(t)
  <2>1. UNCHANGED <<bufferVars, calls, usage, flushing, inflight, out, received, lost>>
    BY <1>1 DEF TaskStart, TaskTick, TaskSpaced, flushVars, wireVars, hostVars
  <2> QED
    BY <2>1, Unmoved, QuietRefines
<1>2. CASE TaskDrain(t)
  BY <1>2, TaskDrainRefines DEF Custody!Next
<1>3. CASE TaskSend(t)
  BY <1>3, SendRefines DEF Custody!Next
<1>4. CASE TaskSendFails(t)
  <2>1. PICK b \in inflight[t] : RequeueFront(b)
    BY <1>4 DEF TaskSendFails
  <2>2. /\ task[t] = "send" /\ inflight' = [inflight EXCEPT ![t] = {}]
        /\ UNCHANGED <<flushing, out, received, lost, calls, usage>>
    BY <1>4 DEF TaskSendFails, flushVars, wireVars, hostVars
  <2> QED
    BY <2>1, <2>2, ReturnRefines DEF Custody!Next
<1>5. CASE TaskEarlyWake(t)
  <2>1. InCustody' = InCustody /\ PassedOn' = PassedOn
    BY <1>5, Unmoved DEF TaskEarlyWake, flushVars, wireVars
  <2> QED
    BY <1>5, <2>1 DEF TaskEarlyWake, hostVars, Custody!Next, Custody!TakePermit
<1>6. CASE TaskDropped(t)
  <2>1. /\ inflight' = [inflight EXCEPT ![t] = {}]
        /\ UNCHANGED <<flushing, out, received, lost, calls, usage>>
    BY <1>6 DEF TaskDropped, flushVars, wireVars, hostVars
  <2>2. CASE task[t] = "send"
    <3>1. PICK b \in inflight[t] : RequeueFront(b)
      BY <1>6, <2>2 DEF TaskDropped
    <3> QED
      BY <2>1, <2>2, <3>1, ReturnRefines DEF Custody!Next
  <2>3. CASE task[t] # "send"
    <3>1. inflight[t] = {} /\ inflight \in [Sessions -> SUBSET InCustody]
      BY <2>3 DEF ShapeInv, TaskTypeOK, HolderInv
    <3>2. inflight' = inflight
      BY <2>1, <3>1
    <3>3. UNCHANGED bufferVars
      BY <1>6, <2>3 DEF TaskDropped
    <3> QED
      BY <2>1, <3>2, <3>3, Unmoved, QuietRefines
  <2> QED
    BY <2>2, <2>3
<1> QED
  BY <1>1, <1>2, <1>3, <1>4, <1>5, <1>6 DEF Task

\* Every step of the run loop, the shutdown flush included, is one of
\* BatchCustody or a stutter.
LEMMA RunLoopRefines ==
  ASSUME ShapeInv, RunLoop \/ InboundEnds
  PROVE  [Custody!Next]_(Custody!custodyVars)
<1>1. CASE \/ LoopContinues \/ LoopStops \/ SessionOpens \/ SessionRefused
           \/ SessionStopped \/ FlushGivesUp \/ SleepOver \/ InboundEnds
  <2>1. UNCHANGED <<bufferVars, calls, usage, flushing, inflight, out, received, lost>>
    BY <1>1 DEF LoopContinues, LoopStops, SessionOpens, SessionRefused, SessionStopped,
       InboundEnds, SessionEnds, FlushGivesUp, SleepOver, SessionForgotten, flushVars,
       taskVars, wireVars, hostVars
  <2> QED
    BY <2>1, Unmoved, QuietRefines
<1>2. CASE FlushDrain
  BY <1>2, FlushDrainRefines DEF Custody!Next
<1>3. CASE FlushSend
  BY <1>3, FlushSendRefines DEF Custody!Next
<1>4. CASE FlushSendFails
  BY <1>4, FlushFailsRefines DEF Custody!Next
<1> QED
  BY <1>1, <1>2, <1>3, <1>4 DEF RunLoop

\* Every step.
LEMMA LaneRefines == ShapeInv /\ [LaneNext]_laneVars => [Custody!Next]_(Custody!custodyVars)
<1> SUFFICES ASSUME ShapeInv, [LaneNext]_laneVars PROVE [Custody!Next]_(Custody!custodyVars)
  OBVIOUS
<1>1. ASSUME NEW o \in Outcomes, HostCall(o) PROVE Custody!Next
  BY <1>1, CallRefines DEF Custody!Next
<1>2. ASSUME NEW n \in 1 .. MaxUsage, HostUsage(n) PROVE Custody!Next
  BY <1>2, UsageRefines DEF Custody!Next
<1>3. CASE Trigger \/ UNCHANGED laneVars
  <2>1. UNCHANGED <<bufferVars, calls, usage, flushing, inflight, out, received, lost>>
    BY <1>3 DEF Trigger, laneVars, flushVars, taskVars, wireVars, hostVars
  <2> QED
    BY <2>1, Unmoved, QuietRefines
<1>4. ASSUME NEW t \in Sessions, Transmit(t) \/ TransportBreaks(t)
      PROVE  UNCHANGED Custody!custodyVars
  <2>1. UNCHANGED <<bufferVars, calls, usage, flushing, inflight>>
    BY <1>4 DEF Transmit, TransportBreaks, flushVars, taskVars, hostVars
  <2>2. PassedOn' = PassedOn
    BY <1>4, TransmitPasses, BreakPasses
  <2> QED
    BY <2>1, <2>2, Unmoved, QuietRefines
<1> QED
  BY <1>1, <1>2, <1>3, <1>4, TaskRefines, RunLoopRefines DEF LaneNext



----------------------------------------------------------------------------
\* Every step keeps ShapeInv.

\* A step of BatchCustody draws at most the next number.
LEMMA SeqKeeps ==
  ASSUME ShapeInv, [Custody!Next]_(Custody!custodyVars)
  PROVE  SeqInv'
<1>1. seq \in Nat /\ \A b \in InCustody : b.seq \in 1 .. seq
  BY DEF ShapeInv, SeqInv
<1>2. CASE Custody!TakeBatch
  <2>1. seq' = seq + 1 /\ Custody!NextBatch.seq = seq + 1
    BY <1>2 DEF Custody!TakeBatch, Custody!Drain, Custody!NextBatch
  <2>2. \A b \in InCustody' : b \in InCustody \/ b = Custody!NextBatch
    BY <1>2 DEF Custody!TakeBatch
  <2> QED
    BY <1>1, <2>1, <2>2 DEF SeqInv
<1>3. CASE ~Custody!TakeBatch
  <2>1. seq' = seq
    BY <1>3 DEF Custody!Next, Custody!RecordCall, Custody!RecordUsage, Custody!ReturnBatch,
       Custody!SettleBatch, Custody!TakePermit, Custody!Record, Custody!RecordEvents,
       Custody!RequeueFront, Custody!custodyVars, Custody!bufferVars
  <2>2. InCustody' \subseteq InCustody
    BY <1>3 DEF Custody!Next, Custody!RecordCall, Custody!RecordUsage, Custody!ReturnBatch,
       Custody!SettleBatch, Custody!TakePermit, Custody!custodyVars
  <2> QED
    BY <1>1, <2>1, <2>2 DEF SeqInv
<1> QED
  BY <1>2, <1>3

\* So the next batch is nobody's yet.
LEMMA NextIsNew ==
  ASSUME ShapeInv
  PROVE  NextBatch \notin InCustody
<1>1. seq \in Nat /\ NextBatch.seq = seq + 1
  BY DEF ShapeInv, SeqInv, NextBatch
<1> QED
  BY <1>1 DEF ShapeInv, SeqInv

\* What a step leaves alone keeps its type.
LEMMA SameShape ==
  ASSUME ShapeInv
  PROVE  /\ UNCHANGED <<loopVars, flushLeft>> => RunTypeOK'
         /\ UNCHANGED <<taskVars, flushing>> => TaskTypeOK'
         /\ UNCHANGED wireVars => QueueTypeOK'
         /\ UNCHANGED <<phase, session, flushing, task, inflight>> => HolderInv'
<1>1. UNCHANGED <<loopVars, flushLeft>> => RunTypeOK'
  BY DEF ShapeInv, RunTypeOK, loopVars
<1>2. ASSUME UNCHANGED <<taskVars, flushing>> PROVE TaskTypeOK'
  <2>1. InCustody' = InCustody
    BY <1>2, Unmoved DEF taskVars
  <2> QED
    BY <1>2, <2>1 DEF ShapeInv, TaskTypeOK, taskVars
<1>3. ASSUME UNCHANGED wireVars PROVE QueueTypeOK'
  <2>1. PassedOn' = PassedOn
    BY <1>3, Unmoved DEF wireVars
  <2> QED
    BY <1>3, <2>1 DEF ShapeInv, QueueTypeOK, wireVars
<1>4. UNCHANGED <<phase, session, flushing, task, inflight>> => HolderInv'
  BY DEF ShapeInv, HolderInv
<1> QED
  BY <1>1, <1>2, <1>3, <1>4

\* A queue stays a sequence of batches passed on when there are more of them.
LEMMA QueuesGrow ==
  ASSUME ShapeInv, PassedOn \subseteq PassedOn', NEW t \in Sessions
  PROVE  out[t] \in Seq(PassedOn')
<1>1. out[t] \in Seq(PassedOn)
  BY DEF ShapeInv, QueueTypeOK
<1> QED
  BY <1>1

\* The holders after a task has gone to s and holds `held`.
LEMMA TaskHolders ==
  ASSUME ShapeInv, NEW t \in Sessions, NEW held,
         NEW s \in {"spawned", "drain", "send", "wait", "spacing", "done"},
         task[t] # "none", task' = [task EXCEPT ![t] = s],
         inflight' = [inflight EXCEPT ![t] = held],
         rounds' \in [Sessions -> Nat],
         UNCHANGED <<phase, session, flushing, aborted>>,
         IF s = "send" THEN \E b : held = {b} /\ b \notin InCustody ELSE held = {}
  PROVE  TaskTypeOK' /\ HolderInv'
<1>1. /\ task'[t] = s /\ inflight'[t] = held
      /\ \A u \in Sessions : u # t => task'[u] = task[u] /\ inflight'[u] = inflight[u]
  BY DEF ShapeInv, TaskTypeOK
<1>2. held \cap flushing = {} /\ \A u \in Sessions : held \cap inflight[u] = {}
  BY HeldBatches
<1>3. \A u \in Sessions : IF task'[u] = "send" THEN \E b : inflight'[u] = {b} ELSE inflight'[u] = {}
  BY <1>1 DEF ShapeInv, HolderInv
<1>4. \A u, v \in Sessions : u # v => inflight'[u] \cap inflight'[v] = {}
  BY <1>1, <1>2 DEF ShapeInv, HolderInv
<1>5. \A u \in Sessions : inflight'[u] \cap flushing' = {}
  BY <1>1, <1>2 DEF ShapeInv, HolderInv
<1>6. \A u \in Sessions : u > session' => task'[u] = "none"
  BY <1>1 DEF ShapeInv, HolderInv
<1>7. HolderInv'
  BY <1>3, <1>4, <1>5, <1>6 DEF ShapeInv, HolderInv
<1>8. \A u \in Sessions : inflight'[u] \subseteq InCustody'
  BY HeldBatches
<1>9. TaskTypeOK'
  BY <1>8 DEF ShapeInv, TaskTypeOK
<1> QED
  BY <1>7, <1>9

\* The loop after a batch.
LEMMA RoundTypes ==
  ASSUME ShapeInv, NEW t \in Sessions, NEW n, NextRound(t, n)
  PROVE  /\ rounds' \in [Sessions -> Nat]
         /\ \E s \in {"drain", "wait"} : task' = [task EXCEPT ![t] = s]
<1> DEFINE more == n >= BatchCap /\ rounds[t] + 1 < BatchesPerTick
<1>1. /\ task' = [task EXCEPT ![t] = IF more THEN "drain" ELSE "wait"]
      /\ rounds' = [rounds EXCEPT ![t] = IF more THEN rounds[t] + 1 ELSE 0]
  BY DEF NextRound
<1> HIDE DEF more
<1>2. rounds \in [Sessions -> Nat]
  BY DEF ShapeInv, TaskTypeOK
<1>3. rounds' \in [Sessions -> Nat]
  BY <1>1, <1>2
<1>4. \E s \in {"drain", "wait"} : task' = [task EXCEPT ![t] = s]
  BY <1>1
<1> QED
  BY <1>3, <1>4


\* ShapeInv but for the numbers, which SeqKeeps takes care of.
Formed == RunTypeOK /\ TaskTypeOK /\ QueueTypeOK /\ HolderInv

\* The hosts, and steps of the run loop that change nothing of this.
LEMMA HostKeeps ==
  ASSUME ShapeInv, UNCHANGED <<loopVars, flushVars, taskVars, wireVars>>
  PROVE  Formed'
<1>1. UNCHANGED <<phase, flushLeft, flushing, session, task, inflight>>
  BY DEF loopVars, flushVars, taskVars
<1> QED
  BY <1>1, SameShape DEF Formed

\* A trigger changes flags only.
LEMMA TriggerKeeps ==
  ASSUME ShapeInv, Trigger
  PROVE  Formed'
<1>1. UNCHANGED <<phase, session, outcome, finished, flushing, flushLeft>>
  BY DEF Trigger, flushVars
<1>2. UNCHANGED <<taskVars, wireVars>> /\ UNCHANGED <<task, inflight>>
  BY DEF Trigger, taskVars
<1>3. stopping' \in BOOLEAN /\ wake' \in BOOLEAN
  BY DEF Trigger
<1>4. RunTypeOK'
  BY <1>1, <1>3 DEF ShapeInv, RunTypeOK
<1> QED
  BY <1>1, <1>2, <1>4, SameShape DEF Formed

\* A step of a task between two sends.
LEMMA TaskMovesKeeps ==
  ASSUME ShapeInv, NEW t \in Sessions,
         TaskStart(t) \/ TaskTick(t) \/ TaskEarlyWake(t) \/ TaskSpaced(t)
  PROVE  Formed'
<1>1. PICK s \in {"drain", "spacing"} : task' = [task EXCEPT ![t] = s]
  BY DEF TaskStart, TaskTick, TaskEarlyWake, TaskSpaced
<1>2. /\ task[t] \in {"spawned", "wait", "spacing"}
      /\ UNCHANGED <<loopVars, flushVars, aborted, inflight, rounds, wireVars>>
  BY DEF TaskStart, TaskTick, TaskEarlyWake, TaskSpaced
<1>3. UNCHANGED <<phase, flushLeft, flushing, session>>
  BY <1>2 DEF loopVars, flushVars
<1>4. inflight' = [inflight EXCEPT ![t] = {}] /\ rounds' \in [Sessions -> Nat]
  BY <1>2 DEF ShapeInv, HolderInv, TaskTypeOK
<1>5. TaskTypeOK' /\ HolderInv'
  BY <1>1, <1>2, <1>3, <1>4, TaskHolders
<1> QED
  BY <1>2, <1>3, <1>5, SameShape DEF Formed

\* A task that drains held no batch before.
LEMMA TaskDrainKeeps ==
  ASSUME ShapeInv, NEW t \in Sessions, TaskDrain(t)
  PROVE  Formed'
<1>1. /\ task[t] = "drain"
      /\ UNCHANGED <<loopVars, flushVars, aborted, wireVars>>
      /\ IF IsEmpty(NextBatch) THEN NextRound(t, 0) /\ UNCHANGED inflight
         ELSE /\ inflight' = [inflight EXCEPT ![t] = {NextBatch}]
              /\ task' = [task EXCEPT ![t] = "send"] /\ UNCHANGED rounds
  BY DEF TaskDrain
<1>2. UNCHANGED <<phase, flushLeft, flushing, session>>
  BY <1>1 DEF loopVars, flushVars
<1>3. /\ inflight[t] = {} /\ inflight \in [Sessions -> SUBSET InCustody]
      /\ rounds \in [Sessions -> Nat]
  BY <1>1 DEF ShapeInv, HolderInv, TaskTypeOK
<1>4. CASE IsEmpty(NextBatch)
  <2>1. PICK s \in {"drain", "wait"} : task' = [task EXCEPT ![t] = s]
    BY <1>1, <1>4, RoundTypes
  <2>2. rounds' \in [Sessions -> Nat] /\ inflight' = [inflight EXCEPT ![t] = {}]
    BY <1>1, <1>3, <1>4, RoundTypes
  <2>3. TaskTypeOK' /\ HolderInv'
    BY <1>1, <1>2, <2>1, <2>2, TaskHolders
  <2> QED
    BY <1>1, <1>2, <2>3, SameShape DEF Formed
<1>5. CASE ~IsEmpty(NextBatch)
  <2>1. TaskTypeOK' /\ HolderInv'
    BY <1>1, <1>2, <1>3, <1>5, NextIsNew, TaskHolders
  <2> QED
    BY <1>1, <1>2, <2>1, SameShape DEF Formed
<1> QED
  BY <1>4, <1>5

\* A task that has sent holds no batch.
LEMMA TaskSendKeeps ==
  ASSUME ShapeInv, NEW t \in Sessions, TaskSend(t)
  PROVE  Formed'
<1>1. /\ task[t] = "send" /\ inflight' = [inflight EXCEPT ![t] = {}]
      /\ UNCHANGED <<loopVars, flushVars, aborted, open, received, lost>>
  BY DEF TaskSend
<1>2. UNCHANGED <<phase, flushLeft, flushing, session>>
  BY <1>1 DEF loopVars, flushVars
<1>3. PICK b \in inflight[t] : /\ out' = [out EXCEPT ![t] = Append(out[t], b)]
                               /\ NextRound(t, Len(b.samples))
  BY DEF TaskSend
<1>4. PICK s \in {"drain", "wait"} : task' = [task EXCEPT ![t] = s]
  BY <1>3, RoundTypes
<1>5. rounds' \in [Sessions -> Nat]
  BY <1>3, RoundTypes
<1>6. TaskTypeOK' /\ HolderInv'
  BY <1>1, <1>2, <1>4, <1>5, TaskHolders
<1>7. QueueTypeOK'
  <2>1. PassedOn' = PassedOn \union {b}
    BY <1>1, <1>3, QueuePasses
  <2>2. b \in PassedOn' /\ \A u \in Sessions : out[u] \in Seq(PassedOn')
    BY <2>1, QueuesGrow
  <2>3. Append(out[t], b) \in Seq(PassedOn')
    BY <2>2
  <2> QED
    BY <1>1, <1>3, <2>2, <2>3 DEF ShapeInv, QueueTypeOK
<1> QED
  BY <1>1, <1>2, <1>6, <1>7, SameShape DEF Formed

\* The task ends, and what it was sending goes back.
LEMMA TaskEndsKeeps ==
  ASSUME ShapeInv, NEW t \in Sessions, TaskSendFails(t) \/ TaskDropped(t)
  PROVE  Formed'
<1>1. /\ task[t] # "none" /\ inflight' = [inflight EXCEPT ![t] = {}]
      /\ task' = [task EXCEPT ![t] = "done"]
      /\ UNCHANGED <<loopVars, flushVars, aborted, rounds, wireVars>>
  BY DEF TaskSendFails, TaskDropped
<1>2. UNCHANGED <<phase, flushLeft, flushing, session>> /\ rounds' \in [Sessions -> Nat]
  BY <1>1 DEF loopVars, flushVars, ShapeInv, TaskTypeOK
<1>3. TaskTypeOK' /\ HolderInv'
  BY <1>1, <1>2, TaskHolders
<1> QED
  BY <1>1, <1>2, <1>3, SameShape DEF Formed

\* The transport shortens or empties a queue.
LEMMA WireKeeps ==
  ASSUME ShapeInv, NEW t \in Sessions, Transmit(t) \/ TransportBreaks(t)
  PROVE  Formed'
<1>1. UNCHANGED <<loopVars, flushVars, taskVars>>
  BY DEF Transmit, TransportBreaks
<1>2. UNCHANGED <<phase, flushLeft, flushing, session, task, inflight>>
  BY <1>1 DEF loopVars, flushVars, taskVars
<1>3. PassedOn' = PassedOn /\ out[t] \in Seq(PassedOn)
  BY TransmitPasses, BreakPasses DEF ShapeInv, QueueTypeOK
<1>4. QueueTypeOK'
  <2>1. CASE Transmit(t)
    <3>1. Tail(out[t]) \in Seq(PassedOn)
      BY <1>3, <2>1 DEF Transmit
    <3> QED
      BY <1>3, <2>1, <3>1 DEF ShapeInv, QueueTypeOK, Transmit
  <2>2. CASE TransportBreaks(t)
    BY <1>3, <2>2 DEF ShapeInv, QueueTypeOK, TransportBreaks
  <2> QED
    BY <2>1, <2>2
<1> QED
  BY <1>1, <1>2, <1>4, SameShape DEF Formed


\* The run loop moves between sessions, and from a session into its flush.
LEMMA LoopMovesKeeps ==
  ASSUME ShapeInv, RunTypeOK', UNCHANGED <<session, flushing, task, inflight, rounds, wireVars>>,
         aborted' \in [Sessions -> BOOLEAN],
         phase # "flushSend", phase' \in {"top", "opening", "flush", "sleep", "stopped"},
         phase' = "flush" => phase = "up"
  PROVE  Formed'
<1>1. InCustody' = InCustody
  BY Unmoved
<1>2. TaskTypeOK'
  BY <1>1 DEF ShapeInv, TaskTypeOK
<1>3. HolderInv'
  BY DEF ShapeInv, HolderInv
<1> QED
  BY <1>2, <1>3, SameShape DEF Formed

\* The end of a session aborts its task, which keeps its batch for now.
LEMMA SessionEndsKeeps ==
  ASSUME ShapeInv, NEW o \in {"ok", "err"}, SessionEnds(o)
  PROVE  Formed'
<1>1. /\ phase = "up" /\ outcome' = o
      /\ UNCHANGED <<session, stopping, wake, finished, flushing, task, inflight, rounds, wireVars>>
      /\ aborted' = [aborted EXCEPT ![session] = TRUE]
  BY DEF SessionEnds
<1>2. /\ flushLeft' \in 0 .. MaxFlush
      /\ phase' \in {"top", "flush", "sleep"}
  BY LaneAssumption DEF SessionEnds, AfterSession, ShapeInv, RunTypeOK
<1>3. aborted' \in [Sessions -> BOOLEAN]
  BY <1>1 DEF ShapeInv, TaskTypeOK
<1>4. RunTypeOK'
  BY <1>1, <1>2 DEF ShapeInv, RunTypeOK
<1> QED
  BY <1>1, <1>2, <1>3, <1>4, LoopMovesKeeps

\* The run loop between two sessions touches no batch.
LEMMA BetweenSessionsKeeps ==
  ASSUME ShapeInv,
         LoopContinues \/ LoopStops \/ SessionRefused \/ FlushGivesUp \/ SleepOver
  PROVE  Formed'
<1>1. /\ phase \in {"top", "opening", "flush", "sleep"}
      /\ phase' \in {"top", "opening", "sleep", "stopped"}
  BY DEF LoopContinues, LoopStops, SessionRefused, FlushGivesUp, SleepOver, AfterSession
<1>2. UNCHANGED <<session, stopping, flushing, taskVars, wireVars>>
  BY DEF LoopContinues, LoopStops, SessionRefused, FlushGivesUp, SleepOver, flushVars
<1>3. UNCHANGED <<task, aborted, inflight, rounds>>
  BY <1>2 DEF taskVars
<1>4. flushLeft' \in 0 .. MaxFlush /\ outcome' \in {"ok", "err"}
  BY LaneAssumption DEF ShapeInv, RunTypeOK, LoopContinues, LoopStops, SessionRefused,
     FlushGivesUp, SleepOver, SessionForgotten, flushVars
<1>5. wake' \in BOOLEAN /\ finished' \in BOOLEAN
  BY DEF ShapeInv, RunTypeOK, LoopContinues, LoopStops, SessionRefused, FlushGivesUp,
     SleepOver, SessionForgotten
<1>6. RunTypeOK'
  BY <1>1, <1>2, <1>4, <1>5 DEF ShapeInv, RunTypeOK
<1>7. aborted' \in [Sessions -> BOOLEAN]
  BY <1>3 DEF ShapeInv, TaskTypeOK
<1> QED
  BY <1>1, <1>2, <1>3, <1>6, <1>7, LoopMovesKeeps

\* A new session has a task, which holds nothing yet.
LEMMA SessionOpensKeeps ==
  ASSUME ShapeInv, SessionOpens
  PROVE  Formed'
<1>1. /\ phase = "opening" /\ phase' = "up" /\ session < MaxSessions /\ session' = session + 1
      /\ task' = [task EXCEPT ![session + 1] = "spawned"]
      /\ open' = [open EXCEPT ![session + 1] = TRUE] /\ wake' = FALSE
      /\ UNCHANGED <<outcome, stopping, finished, flushing, flushLeft, aborted, inflight, rounds,
                     out, received, lost>>
  BY DEF SessionOpens, flushVars
<1>2. session \in 0 .. MaxSessions /\ session + 1 \in Sessions /\ session + 1 > session
  BY <1>1, LaneAssumption DEF ShapeInv, RunTypeOK, Sessions
<1>3. RunTypeOK'
  <2>1. session' \in 0 .. MaxSessions
    BY <1>1, <1>2, LaneAssumption DEF Sessions
  <2> QED
    BY <1>1, <2>1 DEF ShapeInv, RunTypeOK
<1>4. InCustody' = InCustody /\ PassedOn' = PassedOn
  BY <1>1, Unmoved
<1>5. TaskTypeOK' /\ QueueTypeOK'
  BY <1>1, <1>2, <1>4 DEF ShapeInv, TaskTypeOK, QueueTypeOK
<1>6. HolderInv'
  <2>1. task[session + 1] = "none"
    BY <1>2 DEF ShapeInv, HolderInv
  <2>2. inflight[session + 1] = {} /\ flushing = {}
    BY <1>1, <1>2, <2>1 DEF ShapeInv, HolderInv
  <2>3. /\ task'[session + 1] = "spawned"
        /\ \A u \in Sessions : u # session + 1 => task'[u] = task[u]
    BY <1>1, <1>2 DEF ShapeInv, TaskTypeOK
  <2>4. \A u \in Sessions : IF task'[u] = "send" THEN \E b : inflight'[u] = {b} ELSE inflight'[u] = {}
    BY <1>1, <2>2, <2>3 DEF ShapeInv, HolderInv
  <2>5. \A u \in Sessions : u > session' => task'[u] = "none"
    <3> SUFFICES ASSUME NEW u \in Sessions, u > session + 1 PROVE task'[u] = "none"
      BY <1>1
    <3>1. u # session + 1 /\ u > session
      BY <1>2 DEF Sessions
    <3> QED
      BY <2>3, <3>1 DEF ShapeInv, HolderInv
  <2> QED
    BY <1>1, <1>2, <2>2, <2>4, <2>5 DEF ShapeInv, HolderInv
<1> QED
  BY <1>3, <1>5, <1>6 DEF Formed

\* flush_remaining takes a batch.
LEMMA FlushDrainKeeps ==
  ASSUME ShapeInv, FlushDrain
  PROVE  Formed'
<1>1. /\ phase = "flush" /\ flushLeft > 0 /\ flushLeft' = flushLeft - 1
      /\ IF IsEmpty(NextBatch) THEN phase' = AfterSession(outcome) /\ flushing' = flushing
                               ELSE phase' = "flushSend" /\ flushing' = {NextBatch}
      /\ UNCHANGED <<session, outcome, stopping, wake, finished, taskVars, wireVars>>
  BY DEF FlushDrain
<1>2. UNCHANGED <<task, aborted, inflight, rounds>>
  BY <1>1 DEF taskVars
<1>3. RunTypeOK'
  <2>1. flushLeft' \in 0 .. MaxFlush
    BY <1>1, LaneAssumption DEF ShapeInv, RunTypeOK
  <2>2. phase' \in {"top", "sleep", "flushSend"}
    BY <1>1 DEF AfterSession
  <2> QED
    BY <1>1, <2>1, <2>2 DEF ShapeInv, RunTypeOK
<1>4. flushing = {} /\ session \in Sessions
  BY <1>1 DEF ShapeInv, HolderInv
<1>5. TaskTypeOK'
  <2>1. \A u \in Sessions : inflight'[u] \subseteq InCustody'
    BY HeldBatches
  <2> QED
    BY <1>2, <2>1 DEF ShapeInv, TaskTypeOK
<1>6. HolderInv'
  <2>1. \A u \in Sessions : NextBatch \notin inflight[u]
    BY NextIsNew, HeldBatches
  <2>2. \A u \in Sessions : inflight'[u] \cap flushing' = {}
    BY <1>1, <1>2, <1>4, <2>1
  <2>3. IF phase' = "flushSend" THEN \E b : flushing' = {b} ELSE flushing' = {}
    BY <1>1, <1>4 DEF AfterSession
  <2> QED
    BY <1>1, <1>2, <1>4, <2>2, <2>3 DEF ShapeInv, HolderInv
<1> QED
  BY <1>1, <1>3, <1>5, <1>6, SameShape DEF Formed


\* flush_remaining queues its batch, or loses it with the queue.
LEMMA FlushSendKeeps ==
  ASSUME ShapeInv, FlushSend \/ FlushSendFails
  PROVE  Formed'
<1>1. /\ phase = "flushSend" /\ flushing' = {}
      /\ phase' \in {"flush", "top", "sleep"}
      /\ UNCHANGED <<session, outcome, stopping, wake, finished, flushLeft, taskVars, open>>
  BY DEF FlushSend, FlushSendFails, AfterSession
<1>2. UNCHANGED <<task, aborted, inflight, rounds>>
  BY <1>1 DEF taskVars
<1>3. session \in Sessions
  BY <1>1 DEF ShapeInv, HolderInv
<1>4. RunTypeOK'
  BY <1>1 DEF ShapeInv, RunTypeOK
<1>5. TaskTypeOK'
  <2>1. \A u \in Sessions : inflight'[u] \subseteq InCustody'
    BY HeldBatches
  <2> QED
    BY <1>2, <2>1 DEF ShapeInv, TaskTypeOK
<1>6. HolderInv'
  BY <1>1, <1>2, <1>3 DEF ShapeInv, HolderInv
<1>7. QueueTypeOK'
  <2>1. CASE FlushSend
    <3>1. PICK b \in flushing : out' = [out EXCEPT ![session] = Append(out[session], b)]
      BY <2>1 DEF FlushSend
    <3>2. UNCHANGED <<received, lost>>
      BY <2>1 DEF FlushSend
    <3>3. PassedOn' = PassedOn \union {b}
      BY <1>3, <3>1, <3>2, QueuePasses
    <3>4. b \in PassedOn' /\ \A u \in Sessions : out[u] \in Seq(PassedOn')
      BY <3>3, QueuesGrow
    <3>5. Append(out[session], b) \in Seq(PassedOn')
      BY <1>3, <3>4
    <3> QED
      BY <1>1, <1>3, <3>1, <3>4, <3>5 DEF ShapeInv, QueueTypeOK
  <2>2. CASE FlushSendFails
    <3>1. out' = out /\ received' = received /\ lost \subseteq lost'
      BY <2>2 DEF FlushSendFails
    <3>2. \A u \in Sessions : QueuedIn(u)' = QueuedIn(u)
      BY <3>1 DEF QueuedIn
    <3>3. PassedOn \subseteq PassedOn'
      BY <3>1, <3>2, PassedBatches
    <3>4. \A u \in Sessions : out[u] \in Seq(PassedOn')
      BY <3>3, QueuesGrow
    <3> QED
      BY <1>1, <3>1, <3>4 DEF ShapeInv, QueueTypeOK
  <2> QED
    BY <2>1, <2>2
<1> QED
  BY <1>4, <1>5, <1>6, <1>7 DEF Formed

\* Every step keeps ShapeInv.
LEMMA ShapeStep == ShapeInv /\ [LaneNext]_laneVars => ShapeInv'
<1> SUFFICES ASSUME ShapeInv, [LaneNext]_laneVars PROVE ShapeInv'
  OBVIOUS
<1>1. ASSUME (\E o \in Outcomes : HostCall(o)) \/ (\E n \in 1 .. MaxUsage : HostUsage(n))
               \/ UNCHANGED laneVars
      PROVE  Formed'
  <2>1. UNCHANGED <<loopVars, flushVars, taskVars, wireVars>>
    BY <1>1 DEF HostCall, HostUsage, laneVars
  <2> QED
    BY <2>1, HostKeeps
<1>2. ASSUME Trigger PROVE Formed'
  BY <1>2, TriggerKeeps
<1>3. ASSUME NEW t \in Sessions, Task(t) PROVE Formed'
  BY <1>3, TaskMovesKeeps, TaskDrainKeeps, TaskSendKeeps, TaskEndsKeeps DEF Task
<1>4. ASSUME NEW t \in Sessions, Transmit(t) \/ TransportBreaks(t) PROVE Formed'
  BY <1>4, WireKeeps
<1>5. ASSUME RunLoop \/ InboundEnds PROVE Formed'
  BY <1>5, SessionEndsKeeps, BetweenSessionsKeeps, SessionOpensKeeps, FlushDrainKeeps,
     FlushSendKeeps DEF RunLoop, InboundEnds, SessionStopped
<1>6. Formed'
  BY <1>1, <1>2, <1>3, <1>4, <1>5 DEF LaneNext
<1>7. SeqInv'
  BY LaneRefines, SeqKeeps
<1> QED
  BY <1>6, <1>7 DEF Formed, ShapeInv

\* The lane starts as BatchCustody does, with nothing held or passed on.
LEMMA LaneStarts == LaneInit => ShapeInv /\ Custody!Init
<1> SUFFICES ASSUME LaneInit PROVE ShapeInv /\ Custody!Init
  OBVIOUS
<1>1. /\ flushing = {} /\ inflight = [t \in Sessions |-> {}] /\ received = {} /\ lost = {}
      /\ out = [t \in Sessions |-> <<>>]
  BY DEF LaneInit
<1>2. InCustody = {}
  BY <1>1, HeldBatches
<1>3. PassedOn = {}
  <2>1. \A u \in Sessions : QueuedIn(u) = {}
    BY <1>1 DEF QueuedIn, Range
  <2> QED
    BY <1>1, <2>1, PassedBatches
<1>4. RunTypeOK
  <2>1. session \in 0 .. MaxSessions /\ flushLeft \in 0 .. MaxFlush
    BY LaneAssumption DEF LaneInit
  <2>2. stopping \in BOOLEAN /\ wake \in BOOLEAN /\ finished \in BOOLEAN
    BY DEF LaneInit
  <2> QED
    BY <2>1, <2>2 DEF LaneInit, RunTypeOK
<1>5. TaskTypeOK /\ QueueTypeOK
  <2>1. <<>> \in Seq(PassedOn)
    OBVIOUS
  <2> QED
    BY <2>1 DEF LaneInit, TaskTypeOK, QueueTypeOK
<1>6. HolderInv /\ SeqInv
  BY <1>2 DEF LaneInit, BufferInit, HolderInv, SeqInv
<1>7. Custody!Init
  BY <1>2, <1>3 DEF LaneInit, Custody!Init, BufferInit, Custody!BufferInit
<1> QED
  BY <1>4, <1>5, <1>6, <1>7 DEF ShapeInv

\* The holders of the batches, in every reachable state: a task or the flush
\* holds a batch exactly while it sends it, and no two hold the same one.
THEOREM HoldersAreDistinct == LaneSpec => []ShapeInv
BY LaneStarts, ShapeStep, PTL DEF LaneSpec

\* The metrics lane implements BatchCustody: hosts, flush tasks, aborts, failed
\* sends and the shutdown flush use the buffer as its specification allows.
THEOREM LaneKeepsCustody == LaneSpec => CustodyKept
<1>1. ShapeInv /\ [LaneNext]_laneVars => [Custody!Next]_(Custody!custodyVars)
  BY LaneRefines
<1> QED
  BY <1>1, LaneStarts, HoldersAreDistinct, PTL DEF LaneSpec, CustodyKept, Custody!Spec


----------------------------------------------------------------------------
\* The reach of the shutdown flush.

\* What is needed of the buffer, and BatchCustodyProofs shows.
RingInv == BufferTypeOK /\ Len(samples) <= FullRing /\ InCustody \subseteq Drained

\* How long the buffer gets.
LEMMA Lengths ==
  ASSUME RingInv, RingInv'
  PROVE  /\ Len(samples) \in Nat /\ Len(samples) <= FullRing /\ Len(samples') \in Nat
         /\ \A s : Record(s) => Len(samples') <= Len(samples) + 1
         /\ Drain => Len(samples') = Len(samples) - DrainCount
         /\ \A b \in InCustody : RequeueFront(b) =>
                /\ Returnable(b) \in Nat
                /\ Len(samples') = Len(samples) + Returnable(b)
<1>1. /\ samples \in Seq(Sample) /\ Len(samples) \in Nat /\ Len(samples) <= FullRing
      /\ InCustody \subseteq Drained
  BY DEF RingInv, BufferTypeOK
<1>2. samples' \in Seq(Sample) /\ Len(samples') \in Nat /\ Len(samples') <= FullRing
  BY DEF RingInv, BufferTypeOK, FullRing
<1>3. ASSUME NEW s, Record(s) PROVE Len(samples') <= Len(samples) + 1
  <2>1. CASE Len(samples) < Cap
    <3>1. samples' = Append(samples, s)
      BY <1>1, <1>3, <2>1, CapsAssumption DEF Record, RecordInRoom, RecordRefused, RecordEvicting
    <3> QED
      BY <1>1, <3>1
  <2>2. CASE Len(samples) >= Cap
    BY <1>1, <1>2, <2>2, CapsAssumption DEF FullRing
  <2> QED
    BY <1>1, <2>1, <2>2, CapsAssumption
<1>4. ASSUME Drain PROVE Len(samples') = Len(samples) - DrainCount
  <2>1. DrainCount \in 0 .. Len(samples)
    BY <1>1, CapsAssumption DEF DrainCount
  <2>2. samples' = SubSeq(samples, DrainCount + 1, Len(samples))
    BY <1>4 DEF Drain
  <2> QED
    BY <1>1, <2>1, <2>2
<1>5. ASSUME NEW b \in Drained, RequeueFront(b)
      PROVE  Returnable(b) \in Nat /\ Len(samples') = Len(samples) + Returnable(b)
  <2>1. b.samples \in Seq(Sample) /\ Len(b.samples) \in Nat
    BY DEF Drained
  <2>2. Returnable(b) \in 0 .. Len(b.samples)
    BY <1>1, <2>1, CapsAssumption DEF Returnable, SaturatingSub
  <2>3. ReturnedRows(b) \in Seq(Sample) /\ Len(ReturnedRows(b)) = Returnable(b)
    BY <2>1, <2>2 DEF ReturnedRows
  <2>4. samples' = ReturnedRows(b) \o samples
    BY <1>5 DEF RequeueFront
  <2>5. Len(samples') = Len(ReturnedRows(b)) + Len(samples)
    <3> HIDE DEF ReturnedRows
    <3> QED  BY <1>1, <2>3, <2>4
  <2>6. Returnable(b) \in Nat
    BY <2>1, <2>2
  <2> QED
    BY <1>1, <2>3, <2>5, <2>6
<1> QED
  BY <1>1, <1>2, <1>3, <1>4, <1>5

\* What the shutdown flush has not covered yet fits in the batches it has left,
\* but for the rows that came in while it ran.
CoverInv ==
    /\ late \in Nat
    /\ FullRing <= MaxFlush * BatchCap /\ FlushPhase
         => Len(samples) <= late + flushLeft * BatchCap


\* A step that counts as late every row it brings in leaves the rest covered.
LEMMA StillCovered ==
  ASSUME ShapeInv, RingInv, RingInv', CoverInv, late' \in Nat,
         flushLeft' = flushLeft,
         FlushPhase' => FlushPhase /\ Len(samples') + late <= Len(samples) + late'
  PROVE  CoverInv'
<1> DEFINE p == flushLeft * BatchCap
<1>1. /\ late \in Nat /\ Len(samples) \in Nat /\ Len(samples') \in Nat
      /\ flushLeft \in Nat /\ BatchCap \in Nat
  BY Lengths, LaneAssumption, CapsAssumption DEF ShapeInv, RunTypeOK, CoverInv
<1>2. p \in Nat
  BY <1>1
<1>3. FullRing <= MaxFlush * BatchCap /\ FlushPhase => Len(samples) <= late + p
  BY DEF CoverInv
<1>4. flushLeft' * BatchCap = p
  OBVIOUS
<1> HIDE DEF p
<1> SUFFICES ASSUME FullRing <= MaxFlush * BatchCap, FlushPhase'
             PROVE  Len(samples') <= late' + p
  BY <1>4 DEF CoverInv, FullRing
<1> QED
  BY <1>1, <1>2, <1>3

\* Rows come in, from the hosts or from a task that gives its batch back.
LEMMA ArrivalsCovered ==
  ASSUME ShapeInv, RingInv, RingInv', CoverInv,
         UNCHANGED <<phase, flushLeft>>, NEW n \in Nat, Arrive(n),
         Len(samples') <= Len(samples) + n
  PROVE  CoverInv'
<1>1. late \in Nat /\ Len(samples) \in Nat /\ Len(samples') \in Nat
  BY Lengths DEF CoverInv
<1>2. late' \in Nat
  BY <1>1 DEF Arrive
<1>3. FlushPhase' => FlushPhase /\ Len(samples') + late <= Len(samples) + late'
  BY <1>1 DEF Arrive, FlushPhase
<1> QED
  BY <1>2, <1>3, StillCovered

\* A step that leaves the buffer alone and does not start a flush.
LEMMA QuietCovered ==
  ASSUME ShapeInv, RingInv, RingInv', CoverInv,
         UNCHANGED <<samples, late, flushLeft>>, FlushPhase' => FlushPhase
  PROVE  CoverInv'
<1>1. late \in Nat /\ Len(samples) \in Nat
  BY Lengths DEF CoverInv
<1> QED
  BY <1>1, StillCovered

\* The steps of a flush task.
LEMMA TaskCovered ==
  ASSUME ShapeInv, RingInv, RingInv', CoverInv, NEW t \in Sessions, Task(t)
  PROVE  CoverInv'
<1>1. UNCHANGED <<loopVars, flushVars>>
  BY DEF Task, TaskStart, TaskDrain, TaskSend, TaskSendFails, TaskTick, TaskEarlyWake,
     TaskSpaced, TaskDropped
<1>2. UNCHANGED <<phase, flushLeft>>
  BY <1>1 DEF loopVars, flushVars
<1>3. CASE TaskStart(t) \/ TaskSend(t) \/ TaskTick(t) \/ TaskEarlyWake(t) \/ TaskSpaced(t)
  <2>1. UNCHANGED <<samples, late>>
    BY <1>3 DEF TaskStart, TaskSend, TaskTick, TaskEarlyWake, TaskSpaced, bufferVars
  <2> QED
    BY <1>2, <2>1, QuietCovered DEF FlushPhase
<1>4. CASE TaskDrain(t)
  <2>1. late' = late /\ Drain
    BY <1>4 DEF TaskDrain
  <2>2. late \in Nat /\ Len(samples) \in Nat /\ DrainCount \in Nat
    BY Lengths, CapsAssumption DEF DrainCount, CoverInv
  <2>3. Len(samples') = Len(samples) - DrainCount
    BY <2>1, Lengths
  <2>4. FlushPhase' => FlushPhase /\ Len(samples') + late <= Len(samples) + late'
    BY <1>2, <2>1, <2>2, <2>3 DEF FlushPhase
  <2> QED
    BY <1>2, <2>1, <2>2, <2>4, StillCovered
<1>5. CASE TaskSendFails(t) \/ TaskDropped(t)
  <2>1. \/ UNCHANGED <<samples, late>>
        \/ \E b \in inflight[t] : RequeueFront(b) /\ Arrive(Returnable(b))
    BY <1>5 DEF TaskSendFails, TaskDropped, bufferVars
  <2>2. CASE UNCHANGED <<samples, late>>
    BY <1>2, <2>2, QuietCovered DEF FlushPhase
  <2>3. ASSUME NEW b \in inflight[t], RequeueFront(b), Arrive(Returnable(b)) PROVE CoverInv'
    <3>1. b \in InCustody
      BY HeldBatches
    <3>2. /\ Returnable(b) \in Nat /\ Len(samples') = Len(samples) + Returnable(b)
          /\ Len(samples') \in Nat
      BY <2>3, <3>1, Lengths
    <3>3. Len(samples') <= Len(samples) + Returnable(b)
      BY <3>2
    <3> QED
      BY <1>2, <2>3, <3>2, <3>3, ArrivalsCovered
  <2> QED
    BY <2>1, <2>2, <2>3
<1> QED
  BY <1>3, <1>4, <1>5 DEF Task

\* The select returns on a shutdown: the whole ring fits in the batches.
LEMMA SessionEndsCovered ==
  ASSUME ShapeInv, RingInv, RingInv', NEW o, SessionEnds(o)
  PROVE  CoverInv'
<1>1. late' = 0 /\ samples' = samples
  BY DEF SessionEnds, bufferVars
<1>2. FlushPhase' => flushLeft' = MaxFlush
  BY DEF SessionEnds, AfterSession, FlushPhase
<1>3. /\ Len(samples) \in Nat /\ Len(samples) <= FullRing /\ FullRing \in Nat
      /\ MaxFlush * BatchCap \in Nat
  BY Lengths, CapsAssumption, LaneAssumption DEF FullRing
<1> DEFINE p == MaxFlush * BatchCap
<1>4. FullRing <= p => Len(samples) <= 0 + p
  BY <1>3
<1>5. FlushPhase' => flushLeft' * BatchCap = p
  BY <1>2
<1> HIDE DEF p
<1>6. FullRing <= p /\ FlushPhase' => Len(samples') <= late' + flushLeft' * BatchCap
  BY <1>1, <1>4, <1>5
<1>7. FullRing' = FullRing
  BY DEF FullRing
<1> QED
  BY <1>1, <1>6, <1>7 DEF CoverInv, p

\* flush_remaining takes a full batch, or all there is.
LEMMA FlushDrainCovered ==
  ASSUME ShapeInv, RingInv, RingInv', CoverInv, FlushDrain
  PROVE  CoverInv'
<1>1. /\ phase = "flush" /\ flushLeft > 0 /\ Drain /\ late' = late /\ flushLeft' = flushLeft - 1
  BY DEF FlushDrain
<1>2. /\ late \in Nat /\ Len(samples) \in Nat /\ flushLeft \in Nat /\ BatchCap \in Nat
      /\ DrainCount \in Nat
  BY Lengths, LaneAssumption, CapsAssumption DEF ShapeInv, RunTypeOK, CoverInv, DrainCount
<1>3. Len(samples') = Len(samples) - DrainCount
  BY <1>1, Lengths
<1> DEFINE p == flushLeft * BatchCap  q == (flushLeft - 1) * BatchCap
<1>4. p \in Nat /\ q \in Nat /\ p = q + BatchCap
  BY <1>1, <1>2
<1>5. FullRing <= MaxFlush * BatchCap => Len(samples) <= late + p
  BY <1>1 DEF CoverInv, FlushPhase
<1>6. flushLeft' * BatchCap = q
  BY <1>1
<1> HIDE DEF p, q
<1>7. FullRing <= MaxFlush * BatchCap => Len(samples') <= late + q
  <2> SUFFICES ASSUME Len(samples) <= late + p PROVE Len(samples') <= late + q
    BY <1>5
  <2>1. DrainCount = Len(samples) \/ DrainCount = BatchCap
    BY DEF DrainCount
  <2> QED
    BY <1>2, <1>3, <1>4, <2>1
<1>8. FullRing' = FullRing
  BY DEF FullRing
<1> QED
  BY <1>1, <1>2, <1>6, <1>7, <1>8 DEF CoverInv

\* Every step leaves what is not late covered.
LEMMA CoverStep ==
  ShapeInv /\ RingInv /\ RingInv' /\ CoverInv /\ [LaneNext]_laneVars => CoverInv'
<1> SUFFICES ASSUME ShapeInv, RingInv, RingInv', CoverInv, [LaneNext]_laneVars
             PROVE  CoverInv'
  OBVIOUS
<1>1. ASSUME NEW o \in Outcomes, HostCall(o) PROVE CoverInv'
  <2>1. /\ Arrive(1) /\ UNCHANGED <<loopVars, flushVars>>
        /\ Record([id |-> calls + 1, outcome |-> o])
    BY <1>1 DEF HostCall
  <2>2. UNCHANGED <<phase, flushLeft>>
    BY <2>1 DEF loopVars, flushVars
  <2>3. Len(samples') <= Len(samples) + 1
    BY <2>1, Lengths, Zenon
  <2> QED
    BY <2>1, <2>2, <2>3, ArrivalsCovered
<1>2. ASSUME NEW n \in 1 .. MaxUsage, HostUsage(n) PROVE CoverInv'
  <2>1. UNCHANGED <<samples, late, phase, flushLeft>>
    BY <1>2 DEF HostUsage, RecordEvents, loopVars, flushVars
  <2> QED
    BY <2>1, QuietCovered DEF FlushPhase
<1>3. CASE Trigger \/ UNCHANGED laneVars
  <2>1. UNCHANGED <<samples, late, phase, flushLeft>>
    BY <1>3 DEF Trigger, laneVars, bufferVars, loopVars, flushVars
  <2> QED
    BY <2>1, QuietCovered DEF FlushPhase
<1>4. ASSUME NEW t \in Sessions, Transmit(t) \/ TransportBreaks(t) PROVE CoverInv'
  <2>1. UNCHANGED <<samples, late, phase, flushLeft>>
    BY <1>4 DEF Transmit, TransportBreaks, bufferVars, loopVars, flushVars
  <2> QED
    BY <2>1, QuietCovered DEF FlushPhase
<1>5. CASE LoopContinues \/ LoopStops
  <2>1. late' = 0 /\ phase' \in {"opening", "stopped"}
    BY <1>5 DEF LoopContinues, LoopStops, SessionForgotten
  <2> QED
    BY <2>1 DEF CoverInv, FlushPhase
<1>6. CASE \/ SessionOpens \/ SessionRefused \/ FlushSend \/ FlushSendFails
           \/ FlushGivesUp \/ SleepOver
  <2>1. UNCHANGED <<samples, late, flushLeft>>
    BY <1>6 DEF SessionOpens, SessionRefused, FlushSend, FlushSendFails, FlushGivesUp, SleepOver,
       bufferVars, flushVars
  <2>2. FlushPhase' => FlushPhase
    BY <1>6 DEF SessionOpens, SessionRefused, FlushSend, FlushSendFails, FlushGivesUp, SleepOver,
       AfterSession, FlushPhase
  <2> QED
    BY <2>1, <2>2, QuietCovered
<1>7. CASE InboundEnds \/ SessionStopped
  BY <1>7, SessionEndsCovered DEF InboundEnds, SessionStopped
<1>8. CASE FlushDrain
  BY <1>8, FlushDrainCovered
<1> QED
  BY <1>1, <1>2, <1>3, <1>4, <1>5, <1>6, <1>7, <1>8, TaskCovered DEF LaneNext, RunLoop

----------------------------------------------------------------------------
\* What holds of BatchCustody holds of the lane.

Held == INSTANCE BatchCustodyProofs WITH custody <- InCustody, settled <- PassedOn

\* The two instances of BatchCustody take the same steps.
LEMMA SameNext == Held!Next <=> Custody!Next
BY DEF Held!Next, Custody!Next, Held!RecordCall, Custody!RecordCall, Held!RecordUsage,
   Custody!RecordUsage, Held!TakeBatch, Custody!TakeBatch, Held!ReturnBatch,
   Custody!ReturnBatch, Held!SettleBatch, Custody!SettleBatch, Held!TakePermit,
   Custody!TakePermit, Held!Record, Custody!Record, Held!RecordInRoom, Custody!RecordInRoom,
   Held!RecordRefused, Custody!RecordRefused, Held!RecordEvicting, Custody!RecordEvicting,
   Held!CountDrop, Custody!CountDrop, Held!NonBillableOne, Custody!NonBillableOne,
   Held!IsBillable, Custody!IsBillable, Held!Victim, Custody!Victim, Held!SaturatingSub,
   Custody!SaturatingSub, Held!FlushEarlyAt, Custody!FlushEarlyAt, Held!RecordEvents,
   Custody!RecordEvents, Held!Drain, Custody!Drain, Held!DrainCount, Custody!DrainCount,
   Held!NextBatch, Custody!NextBatch, Held!NonBillableIn, Custody!NonBillableIn,
   Held!BillableIn, Custody!BillableIn, Held!IsEmpty, Custody!IsEmpty, Held!RequeueFront,
   Custody!RequeueFront, Held!ReturnedRows, Custody!ReturnedRows, Held!UnreturnedRows,
   Custody!UnreturnedRows, Held!Returnable, Custody!Returnable, Held!KindOf, Custody!KindOf,
   Held!bufferVars, Custody!bufferVars, Held!Without, Custody!Without, Held!Cardinality,
   Custody!Cardinality

\* They have the same kinds of usage, batches and rows.
LEMMA SameKinds == Held!Kinds = Custody!Kinds /\ Held!Drained = Drained /\ Held!Sample = Sample
BY DEF Held!Kinds, Custody!Kinds, Held!Drained, Drained, Held!Sample, Sample

\* They start alike.
LEMMA SameInit == Custody!Init => Held!Init
BY SameKinds DEF Held!Init, Custody!Init, Held!BufferInit, Custody!BufferInit

\* The constants are as BatchCustodyProofs assumes them.
LEMMA HeldInit == Held!Init => Held!CustodyInv
BY Held!InitInv, CapsAssumption, LaneAssumption DEF Held!SampleOutcome, SampleOutcome

\* So every step keeps the invariant found there.
LEMMA HeldStep == Held!CustodyInv /\ [Held!Next]_(Held!custodyVars) => Held!CustodyInv'
BY Held!CustodyStep, CapsAssumption, LaneAssumption DEF Held!SampleOutcome, SampleOutcome

\* The invariant of BatchCustody, of the lane.
LEMMA CustodyHolds == LaneSpec => []Held!CustodyInv
<1>1. LaneInit => Held!CustodyInv
  BY LaneStarts, SameInit, HeldInit
<1>2. ShapeInv /\ [LaneNext]_laneVars => [Held!Next]_(Held!custodyVars)
  <2>1. Custody!custodyVars' = Custody!custodyVars => Held!custodyVars' = Held!custodyVars
    BY DEF Custody!custodyVars, Held!custodyVars
  <2> QED
    BY <2>1, LaneRefines, SameNext
<1> QED
  BY <1>1, <1>2, HeldStep, HoldersAreDistinct, PTL DEF LaneSpec


\* Every recorded call and unit of event usage is in the buffer, with a flush
\* task or the shutdown flush, queued, received or lost with a queue, exactly
\* once, whatever is aborted, fails or is retried.
THEOREM LaneLedgerBalances == LaneSpec => []Held!Ledger
<1>1. Held!CustodyInv => Held!Ledger
  BY DEF Held!CustodyInv
<1> QED
  BY <1>1, CustodyHolds, PTL

\* No call reaches the control plane in two batches.
THEOREM CallsReportedOnce == LaneSpec => []ReportedOnce
<1>1. Held!CustodyInv => ReportedOnce
  <2> SUFFICES ASSUME Held!CustodyInv PROVE ReportedOnce
    OBVIOUS
  <2>1. \A b \in received : b \in InCustody \union PassedOn
    BY PassedBatches
  <2>2. \A s : Held!Ids(s) = Custody!Ids(s)
    BY DEF Held!Ids, Custody!Ids
  <2>3. \A b, c \in InCustody \union PassedOn :
            b # c => Held!Ids(b.samples) \cap Held!Ids(c.samples) = {}
    BY DEF Held!CustodyInv, Held!RowsInv, Held!RowsOnce
  <2> QED
    BY <2>1, <2>2, <2>3 DEF ReportedOnce
<1> QED
  BY <1>1, CustodyHolds, PTL

----------------------------------------------------------------------------
\* The types of the lane, and the reach of the shutdown flush.

\* What BatchCustody says of the lane's variables.
LEMMA HeldTypes ==
  ASSUME Held!CustodyInv
  PROVE  /\ BufferTypeOK /\ calls \in Nat /\ usage \in [Custody!Kinds -> Nat]
         /\ InCustody \subseteq Drained /\ PassedOn \subseteq Drained
         /\ Len(samples) \in Nat /\ Len(samples) <= FullRing
<1>1. Held!TypeOK /\ Held!BoundedBuffer
  BY DEF Held!CustodyInv
<1>2. BufferTypeOK
  BY <1>1, SameKinds DEF Held!TypeOK, Held!BufferTypeOK, BufferTypeOK
<1>3. calls \in Nat /\ usage \in [Custody!Kinds -> Nat]
  BY <1>1, SameKinds DEF Held!TypeOK
<1>4. InCustody \subseteq Drained /\ PassedOn \subseteq Drained
  BY <1>1, SameKinds DEF Held!TypeOK
<1>5. Len(samples) \in Nat /\ Len(samples) <= FullRing
  BY <1>1, <1>2 DEF Held!BoundedBuffer, FullRing, BufferTypeOK
<1> QED
  BY <1>2, <1>3, <1>4, <1>5


\* The ring of the lane is as the shutdown flush needs it.
LEMMA RingHolds == LaneSpec => []RingInv
<1>1. Held!CustodyInv => RingInv
  BY HeldTypes DEF RingInv
<1> QED
  BY <1>1, CustodyHolds, PTL

\* The flush covers what it must.
LEMMA CoverHolds == LaneSpec => []CoverInv
<1>1. LaneInit => CoverInv
  BY DEF LaneInit, CoverInv, FlushPhase
<1> QED
  BY <1>1, CoverStep, RingHolds, HoldersAreDistinct, PTL DEF LaneSpec

\* The state of the run loop, of every task, queue and buffer keeps its type.
THEOREM LaneTypeCorrect == LaneSpec => []LaneTypeOK
<1>1. ShapeInv /\ Held!CustodyInv /\ CoverInv => LaneTypeOK
  <2> SUFFICES ASSUME ShapeInv, Held!CustodyInv, CoverInv PROVE LaneTypeOK
    OBVIOUS
  <2>1. /\ flushing \in SUBSET Drained /\ received \in SUBSET Drained /\ lost \in SUBSET Drained
        /\ \A t \in Sessions : inflight[t] \in SUBSET Drained
    BY HeldTypes, HeldBatches, PassedBatches
  <2>2. \A t \in Sessions : out[t] \in Seq(Drained)
    BY HeldTypes DEF ShapeInv, QueueTypeOK
  <2>3. {stopping, wake, finished} \subseteq BOOLEAN
    BY DEF ShapeInv, RunTypeOK
  <2>4. inflight \in [Sessions -> SUBSET Drained]
    BY <2>1 DEF ShapeInv, TaskTypeOK
  <2>5. out \in [Sessions -> Seq(Drained)] /\ open \in [Sessions -> BOOLEAN]
    BY <2>2 DEF ShapeInv, QueueTypeOK
  <2>6. BufferTypeOK /\ calls \in Nat /\ usage \in [Custody!Kinds -> Nat]
    BY HeldTypes
  <2> QED
    BY <2>1, <2>3, <2>4, <2>5, <2>6 DEF LaneTypeOK, ShapeInv, RunTypeOK, TaskTypeOK, CoverInv
<1> QED
  BY <1>1, HoldersAreDistinct, CustodyHolds, CoverHolds, PTL

\* A shutdown flush that reaches its bound leaves no more rows than came in while
\* it ran, whatever tasks drain, fail and give back beside it.
THEOREM FlushReachesTheEnd == LaneSpec => []FlushCoversFullBuffer
<1>1. ShapeInv /\ CoverInv => FlushCoversFullBuffer
  <2> SUFFICES ASSUME ShapeInv, CoverInv, FullRing <= MaxFlush * BatchCap, phase = "flush",
                      flushLeft = 0
               PROVE  Len(samples) <= late
    BY DEF FlushCoversFullBuffer
  <2>1. flushLeft * BatchCap = 0 /\ late \in Nat
    BY CapsAssumption DEF CoverInv
  <2>2. Len(samples) <= late + flushLeft * BatchCap
    BY DEF CoverInv, FlushPhase
  <2> QED
    BY <2>1, <2>2
<1> QED
  BY <1>1, HoldersAreDistinct, CoverHolds, PTL

============================================================================
