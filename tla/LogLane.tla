------------------------------ MODULE LogLane ------------------------------
(***************************************************************************)
(* The way of a gateway log line to the control plane: the bounded ring of *)
(* logs.rs, the flush loop every Channel session spawns for it, the        *)
(* session's outbound queue and the log half of the shutdown flush         *)
(* (agent.rs, flush_remaining).                                            *)
(*                                                                         *)
(* Unlike the metrics lane there is no guard over a batch being sent and   *)
(* no early wake: a tick ships one batch, and a batch whose send fails or  *)
(* whose task is dropped is gone.  Lines are numbered in the order they    *)
(* are emitted.  Sender 0 is flush_remaining, sender t > 0 the flush loop  *)
(* of session t.  An aborted loop is dropped at its next await, which may  *)
(* come after the next session has opened.                                 *)
(***************************************************************************)
EXTENDS Naturals, Sequences, FiniteSets, Functions

CONSTANTS Cap,          \* lines the ring keeps
          BatchCap,     \* lines of one LogBatch
          OutCap,       \* slots of the outbound queue
          MaxFlush,     \* MAX_SHUTDOWN_FLUSH_BATCHES
          MaxSessions,  \* bound on the sessions opened
          MaxLines,     \* bound on the lines emitted
          MaxIdle       \* bound on the ticks that find nothing

ASSUME LogAssumption ==
    /\ {Cap, BatchCap} \subseteq Nat \ {0}
    /\ {OutCap, MaxFlush, MaxSessions, MaxLines, MaxIdle} \subseteq Nat

VARIABLES lines, dropped, seq,      \* LogBuffer: the ring and its two counters
          emitted,                  \* lines recorded so far
          phase, session, stopping, flushLeft,   \* the run loop
          late,                     \* lines emitted since the log flush began
          task, aborted,            \* per session: its flush loop
          held,                     \* per sender: the batch it is sending
          out, open,                \* per session: outbound queue, receiver alive
          received,                 \* batches the control plane has
          sunk,                     \* batches that went down with a queue
          vanished                  \* batches that went down with their sender

ring == <<lines, dropped, seq>>
loop == <<phase, session, stopping, flushLeft>>
host == <<emitted, late>>
tasks == <<task, aborted>>
wire == <<out, open, received, sunk>>
vars == <<ring, host, loop, tasks, held, wire, vanished>>

Sessions == 1 .. MaxSessions
Senders == 0 .. MaxSessions

\* Where sender s queues: flush_remaining uses the queue of the last session.
QueueOf(s) == IF s = 0 THEN session ELSE s

Init ==
    /\ lines = <<>> /\ dropped = 0 /\ seq = 0 /\ emitted = 0 /\ late = 0
    /\ phase = "down" /\ session = 0 /\ stopping = FALSE /\ flushLeft = 0
    /\ task = [t \in Sessions |-> "none"]
    /\ aborted = [t \in Sessions |-> FALSE]
    /\ held = [s \in Senders |-> {}]
    /\ out = [t \in Sessions |-> <<>>] /\ open = [t \in Sessions |-> FALSE]
    /\ received = {} /\ sunk = {} /\ vanished = {}

----------------------------------------------------------------------------
\* LogBuffer.

\* A full ring gives up its oldest line.
Push(buf, line) == Append(IF Len(buf) >= Cap THEN Tail(buf) ELSE buf, line)

Record ==
    /\ emitted < MaxLines
    /\ emitted' = emitted + 1
    /\ late' = IF phase \in {"flush", "flushSend"} THEN late + 1 ELSE 0
    /\ lines' = Push(lines, emitted')
    /\ dropped' = dropped + (IF Len(lines) >= Cap THEN 1 ELSE 0)
    /\ UNCHANGED <<seq, loop, tasks, held, wire, vanished>>

Taken == IF Len(lines) < BatchCap THEN Len(lines) ELSE BatchCap

NextBatch == [lines |-> SubSeq(lines, 1, Taken), dropped |-> dropped, seq |-> seq + 1]

\* Mutant: the drop count is read but not reset.
DrainKeepsCount ==
    /\ lines' = SubSeq(lines, Taken + 1, Len(lines))
    /\ seq' = seq + 1
    /\ UNCHANGED dropped

Drain ==
    /\ lines' = SubSeq(lines, Taken + 1, Len(lines))
    /\ dropped' = 0
    /\ seq' = seq + 1

\* batch_to_message: no line and no drop is no message.
NoMessage(b) == b.lines = <<>> /\ b.dropped = 0

----------------------------------------------------------------------------
\* The flush loop of session t; its first tick is immediate.

TaskTick(t) ==
    /\ task[t] = "tick" /\ ~aborted[t]
    /\ ~NoMessage(NextBatch) \/ seq < MaxIdle
    /\ task' = [task EXCEPT ![t] = "drain"]
    /\ UNCHANGED <<ring, host, loop, aborted, held, wire, vanished>>

TaskDrain(t) ==
    /\ task[t] = "drain"
    /\ Drain
    /\ task' = [task EXCEPT ![t] = IF NoMessage(NextBatch) THEN "tick" ELSE "send"]
    /\ held' = [held EXCEPT ![t] = IF NoMessage(NextBatch) THEN {} ELSE {NextBatch}]
    /\ UNCHANGED <<host, loop, aborted, wire, vanished>>

\* The runtime drops an aborted loop at an await, and its batch with it.
TaskDropped(t) ==
    /\ aborted[t] /\ task[t] \in {"tick", "send"}
    /\ task' = [task EXCEPT ![t] = "done"]
    /\ vanished' = vanished \union held[t]
    /\ held' = [held EXCEPT ![t] = {}]
    /\ UNCHANGED <<ring, host, loop, aborted, wire>>

----------------------------------------------------------------------------
\* Sending, for the flush loops and for flush_remaining.

\* Mutant: the loop ends after its first batch.
GoOnce(s, sent) ==
    IF s = 0
    THEN /\ phase' = IF sent THEN "flush" ELSE "down"
         /\ UNCHANGED task
    ELSE /\ task' = [task EXCEPT ![s] = "done"]
         /\ UNCHANGED phase

\* Mutant: the shutdown flush tries a closed queue again and again.
GoRetrying(s, sent) ==
    IF s = 0
    THEN /\ phase' = IF sent THEN "flush" ELSE "flushSend"
         /\ UNCHANGED task
    ELSE /\ task' = [task EXCEPT ![s] = IF sent THEN "tick" ELSE "done"]
         /\ UNCHANGED phase

\* Where a sender goes on after its send: a failed one ends the loop, and ends
\* the shutdown flush.
GoOn(s, sent) ==
    IF s = 0
    THEN /\ phase' = IF sent THEN "flush" ELSE "down"
         /\ UNCHANGED task
    ELSE /\ task' = [task EXCEPT ![s] = IF sent THEN "tick" ELSE "done"]
         /\ UNCHANGED phase

Send(s) ==
    LET q == QueueOf(s) IN
    /\ held[s] # {}
    /\ open[q] /\ Len(out[q]) < OutCap
    /\ \E b \in held[s] : out' = [out EXCEPT ![q] = Append(@, b)]
    /\ held' = [held EXCEPT ![s] = {}]
    /\ GoOn(s, TRUE)
    /\ UNCHANGED <<ring, host, session, stopping, flushLeft, aborted, open,
                   received, sunk, vanished>>

SendFails(s) ==
    /\ held[s] # {} /\ ~open[QueueOf(s)]
    /\ vanished' = vanished \union held[s]
    /\ held' = [held EXCEPT ![s] = {}]
    /\ GoOn(s, FALSE)
    /\ UNCHANGED <<ring, host, session, stopping, flushLeft, aborted, wire>>

\* The transport (tonic, external).
Transmit(t) ==
    /\ open[t] /\ out[t] # <<>>
    /\ received' = received \union {Head(out[t])}
    /\ out' = [out EXCEPT ![t] = Tail(@)]
    /\ UNCHANGED <<ring, host, loop, tasks, held, open, sunk, vanished>>

TransportBreaks(t) ==
    /\ open[t]
    /\ open' = [open EXCEPT ![t] = FALSE]
    /\ sunk' = sunk \union Range(out[t])
    /\ out' = [out EXCEPT ![t] = <<>>]
    /\ UNCHANGED <<ring, host, loop, tasks, held, received, vanished>>

----------------------------------------------------------------------------
\* The run loop.

Trigger ==
    /\ ~stopping
    /\ stopping' = TRUE
    /\ UNCHANGED <<ring, host, phase, session, flushLeft, tasks, held, wire, vanished>>

Opens ==
    /\ phase = "down" /\ ~stopping /\ session < MaxSessions
    /\ session' = session + 1
    /\ phase' = "up"
    /\ task' = [task EXCEPT ![session'] = "tick"]
    /\ open' = [open EXCEPT ![session'] = TRUE]
    /\ UNCHANGED <<ring, host, stopping, flushLeft, aborted, held, out,
                   received, sunk, vanished>>

Stops ==
    /\ phase = "down" /\ stopping
    /\ phase' = "stopped"
    /\ UNCHANGED <<ring, host, session, stopping, flushLeft, tasks, held, wire, vanished>>

\* The session's select returns; a shutdown begins with the metrics half of
\* flush_remaining.
Ends ==
    /\ phase = "up"
    /\ aborted' = [aborted EXCEPT ![session] = TRUE]
    /\ phase' = IF stopping THEN "flushMetrics" ELSE "down"
    /\ UNCHANGED <<ring, host, session, stopping, flushLeft, task, held, wire, vanished>>

\* The metrics half is over.  When one of its sends failed flush_remaining
\* returns there and then, and the log half does not run.
MetricsFlushed ==
    /\ phase = "flushMetrics"
    /\ \/ phase' = "flush"
       \/ ~open[session] /\ phase' = "down"
    /\ flushLeft' = MaxFlush
    /\ late' = 0
    /\ UNCHANGED <<ring, emitted, session, stopping, tasks, held, wire, vanished>>

\* Mutant: the bound is off by one.
FlushMayGoOnShort == flushLeft > 1

FlushMayGoOn == flushLeft > 0

FlushDrain ==
    /\ phase = "flush" /\ FlushMayGoOn
    /\ Drain
    /\ flushLeft' = flushLeft - 1
    /\ phase' = IF NoMessage(NextBatch) THEN "down" ELSE "flushSend"
    /\ held' = [held EXCEPT ![0] = IF NoMessage(NextBatch) THEN {} ELSE {NextBatch}]
    /\ UNCHANGED <<host, session, stopping, tasks, wire, vanished>>

FlushGivesUp ==
    /\ phase = "flush" /\ ~FlushMayGoOn
    /\ phase' = "down"
    /\ UNCHANGED <<ring, host, session, stopping, flushLeft, tasks, held, wire, vanished>>

----------------------------------------------------------------------------

Task(t) == TaskTick(t) \/ TaskDrain(t) \/ TaskDropped(t) \/ Send(t) \/ SendFails(t)
Flush == MetricsFlushed \/ FlushDrain \/ FlushGivesUp \/ Send(0) \/ SendFails(0)
Carry(t) == Transmit(t) \/ TransportBreaks(t)

Next ==
    \/ Record \/ Trigger \/ Opens \/ Stops \/ Ends \/ Flush
    \/ \E t \in Sessions : Task(t) \/ Carry(t)

Spec == Init /\ [][Next]_vars

\* Every task the runtime holds is polled, the run loop goes on, and a
\* connection with something queued moves it or is given up (keep-alive,
\* client.rs).
FairSpec ==
    /\ Spec
    /\ WF_vars(Opens) /\ WF_vars(Stops) /\ WF_vars(Flush)
    /\ \A t \in Sessions : WF_vars(Task(t)) /\ WF_vars(out[t] # <<>> /\ Carry(t))

----------------------------------------------------------------------------

Drained == (UNION {held[s] : s \in Senders}) \union (UNION {Range(out[t]) : t \in Sessions})
             \union received \union sunk \union vanished

Size(b) == Len(b.lines) + b.dropped

\* One entry for every line that the batches hold or count as dropped.
Entries(batches) == UNION {{b} \X (1 .. Size(b)) : b \in batches}

\* The lines accounted for by the batches drained before number n.
Before(n) == Cardinality(Entries({b \in Drained : b.seq < n}))

\* The drop counts say where lines are missing, not only how many: the lines
\* of a batch, and those still in the ring, start right after what the batches
\* before them held and counted as dropped, with the batch's own drops in
\* between, whoever drained them and whether they arrived (LogBuffer::drain
\* "the dropped count since the last drain").
DropsFillGaps ==
    \A b \in Drained \union {[lines |-> lines, dropped |-> dropped, seq |-> seq + 1]} :
        \A i \in DOMAIN b.lines : b.lines[i] = Before(b.seq) + b.dropped + i

\* A shutdown flush that reaches its bound leaves no more lines than came in
\* while it ran, whether or not the metrics half used its own share ("The
\* buffers are capped, so this covers a full one").
LogFlushCovers ==
    Cap <= MaxFlush * BatchCap /\ phase = "flush" /\ ~FlushMayGoOn
        => Len(lines) <= late

\* A session that stays up ships every line and every drop count, one batch a
\* tick.
LogsShipped ==
    <>[](phase = "up" /\ open[session])
        => <>[](lines = <<>> /\ dropped = 0 /\ \A t \in Sessions : out[t] = <<>>)

\* A shutdown that found a session up comes to its end: a send of the flush
\* that waits for a slot gets one, or learns that the queue is closed.
FlushEnds == phase \in {"flushMetrics", "flush", "flushSend"} ~> phase = "stopped"

============================================================================
