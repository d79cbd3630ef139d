---------------------------- MODULE MetricsLane ----------------------------
(***************************************************************************)
(* The way of a recorded call to the control plane: the metrics buffer,    *)
(* the flush loop of every Channel session (metrics.rs, flush_loop), its   *)
(* bounded outbound queue, the transport that empties the queue, and the   *)
(* part of the run loop that opens sessions, aborts their tasks and ships  *)
(* what is left on a requested shutdown (agent.rs, run_loop, run_session,  *)
(* flush_remaining).                                                       *)
(*                                                                         *)
(* Concurrency.  Hosts record at any time.  Each session has its own flush *)
(* task and outbound queue; `JoinHandle::abort` only asks for the task to  *)
(* be dropped, so an aborted task may finish the poll it is in and is      *)
(* dropped at its next await, which may be after the run loop has gone on  *)
(* to flush or to open the next session.  The run loop, the tasks and the  *)
(* transport interleave at every await and every lock.                     *)
(*                                                                         *)
(* The other senders on the queue (heartbeats, acks, log and status lanes) *)
(* only occupy slots; they are left out.  Time is left out: a tick, a      *)
(* backoff or the early-flush spacing ends at any moment.                  *)
(***************************************************************************)
EXTENDS MetricsBuffer, Functions

CONSTANTS MaxSessions,   \* bound on the sessions opened
          OutCap,        \* slots of the outbound queue, 64 in the code
          MaxFlush,      \* MAX_SHUTDOWN_FLUSH_BATCHES
          MaxCalls,      \* bound on the calls recorded
          MaxUsage,      \* bound on the event usage recorded
          MaxIdleSeq     \* bound on the batches drained by idle ticks

ASSUME LaneAssumption ==
    /\ MaxSessions \in Nat /\ OutCap \in Nat /\ MaxFlush \in Nat
    /\ MaxCalls \in Nat /\ MaxUsage \in Nat /\ MaxIdleSeq \in Nat

VARIABLES phase,      \* where the run loop is
          session,    \* sessions opened so far, the current one's number
          outcome,    \* how the session that is being wound up ended
          stopping,   \* AgentShutdown.stopping
          wake,       \* the session's select has been notified
          finished,   \* AgentShutdown.finished
          flushing,   \* the batch flush_remaining is sending, if any
          flushLeft,  \* batches flush_remaining may still ship
          task,       \* per session: where its flush loop is
          aborted,    \* per session: its task has been asked to stop
          inflight,   \* per session: the batch its InFlight guard holds
          rounds,     \* per session: batches shipped in this tick
          out,        \* per session: its outbound queue
          open,       \* per session: the receiving end of the queue is alive
          received,   \* batches the control plane has received
          lost,       \* batches that went down with a queue or a shutdown
          calls,      \* calls recorded
          usage,      \* what was recorded, per kind
          late        \* rows that came in since the shutdown flush began

Sessions == 1 .. MaxSessions

loopVars == <<phase, session, outcome, stopping, wake, finished>>
flushVars == <<flushing, flushLeft>>
taskVars == <<task, aborted, inflight, rounds>>
wireVars == <<out, open, received, lost>>
hostVars == <<calls, usage>>
laneVars == <<bufferVars, loopVars, flushVars, taskVars, wireVars, hostVars, late>>

FlushPhase == phase \in {"flush", "flushSend"}

\* n rows come into the buffer.
Arrive(n) == late' = IF FlushPhase THEN late + n ELSE 0

QueuedIn(t) == Range(out[t])

\* The batches some caller of the buffer is responsible for, and those passed
\* on: the refinement mapping to BatchCustody.
InCustody == flushing \union UNION {inflight[t] : t \in Sessions}
PassedOn == received \union lost \union UNION {QueuedIn(t) : t \in Sessions}

Custody == INSTANCE BatchCustody WITH custody <- InCustody, settled <- PassedOn

LaneTypeOK ==
    /\ BufferTypeOK
    /\ phase \in {"top", "opening", "up", "flush", "flushSend", "sleep", "stopped"}
    /\ session \in 0 .. MaxSessions
    /\ outcome \in {"ok", "err"}
    /\ {stopping, wake, finished} \subseteq BOOLEAN
    /\ flushing \in SUBSET Drained
    /\ flushLeft \in 0 .. MaxFlush
    /\ task \in [Sessions -> {"none", "spawned", "drain", "send", "wait", "spacing", "done"}]
    /\ aborted \in [Sessions -> BOOLEAN]
    /\ inflight \in [Sessions -> SUBSET Drained]
    /\ rounds \in [Sessions -> Nat]
    /\ out \in [Sessions -> Seq(Drained)]
    /\ open \in [Sessions -> BOOLEAN]
    /\ received \in SUBSET Drained
    /\ lost \in SUBSET Drained
    /\ calls \in Nat
    /\ usage \in [Custody!Kinds -> Nat]
    /\ late \in Nat

LaneInit ==
    /\ BufferInit
    /\ phase = "top" /\ session = 0 /\ outcome = "ok"
    /\ stopping = FALSE /\ wake = FALSE /\ finished = FALSE
    /\ flushing = {} /\ flushLeft = 0
    /\ task = [t \in Sessions |-> "none"]
    /\ aborted = [t \in Sessions |-> FALSE]
    /\ inflight = [t \in Sessions |-> {}]
    /\ rounds = [t \in Sessions |-> 0]
    /\ out = [t \in Sessions |-> <<>>]
    /\ open = [t \in Sessions |-> FALSE]
    /\ received = {} /\ lost = {}
    /\ calls = 0 /\ usage = [k \in Custody!Kinds |-> 0]
    /\ late = 0

----------------------------------------------------------------------------
\* The hosts.

HostCall(o) ==
    /\ calls < MaxCalls
    /\ Record([id |-> calls + 1, outcome |-> o])
    /\ calls' = calls + 1
    /\ usage' = [usage EXCEPT ![Custody!KindOf(o)] = @ + 1]
    /\ Arrive(1)
    /\ UNCHANGED <<loopVars, flushVars, taskVars, wireVars>>

HostUsage(n) ==
    /\ usage["events"] + n <= MaxUsage
    /\ RecordEvents(n)
    /\ usage' = [usage EXCEPT !["events"] = @ + n]
    /\ UNCHANGED <<loopVars, flushVars, taskVars, wireVars, calls, late>>

\* AgentShutdown::trigger.  `notify_waiters` reaches the session's select only
\* once that select has created its `notified()`.
Trigger ==
    /\ stopping' = TRUE
    /\ wake' = (wake \/ phase = "up")
    /\ UNCHANGED <<bufferVars, phase, session, outcome, finished, flushVars,
                   taskVars, wireVars, hostVars, late>>

----------------------------------------------------------------------------
\* The flush loop of session t.

\* A full ring is this many batches (at least one).
BatchesPerTick ==
    LET size == IF BatchCap = 0 THEN 1 ELSE BatchCap
        n    == (Cap + size - 1) \div size
    IN  IF n = 0 THEN 1 ELSE n

\* The loop after a batch of `count` rows: another round, or wait for a tick.
NextRound(t, count) ==
    LET more == count >= BatchCap /\ rounds[t] + 1 < BatchesPerTick
    IN  /\ task' = [task EXCEPT ![t] = IF more THEN "drain" ELSE "wait"]
        /\ rounds' = [rounds EXCEPT ![t] = IF more THEN @ + 1 ELSE 0]

\* The first tick of the interval is immediate.
TaskStart(t) ==
    /\ task[t] = "spawned" /\ ~aborted[t]
    /\ task' = [task EXCEPT ![t] = "drain"]
    /\ UNCHANGED <<bufferVars, loopVars, flushVars, aborted, inflight, rounds,
                   wireVars, hostVars, late>>

\* Mutant: an empty buffer ends the loop.
TaskDrainEndsIdle(t) ==
    /\ task[t] = "drain"
    /\ Drain
    /\ IF IsEmpty(NextBatch)
       THEN /\ task' = [task EXCEPT ![t] = "done"]
            /\ UNCHANGED <<inflight, rounds>>
       ELSE /\ inflight' = [inflight EXCEPT ![t] = {NextBatch}]
            /\ task' = [task EXCEPT ![t] = "send"]
            /\ UNCHANGED rounds
    /\ UNCHANGED <<loopVars, flushVars, aborted, wireVars, hostVars, late>>

\* An empty batch is no message; the guard is disarmed over nothing.
TaskDrain(t) ==
    /\ task[t] = "drain"
    /\ Drain
    /\ IF IsEmpty(NextBatch)
       THEN NextRound(t, 0) /\ UNCHANGED inflight
       ELSE /\ inflight' = [inflight EXCEPT ![t] = {NextBatch}]
            /\ task' = [task EXCEPT ![t] = "send"]
            /\ UNCHANGED rounds
    /\ UNCHANGED <<loopVars, flushVars, aborted, wireVars, hostVars, late>>

\* Mutant: the guard of a queued batch stays armed over the next await.
TaskSendStaysArmed(t) ==
    /\ task[t] = "send" /\ open[t] /\ Len(out[t]) < OutCap
    /\ \E b \in inflight[t] : out' = [out EXCEPT ![t] = Append(@, b)]
    /\ UNCHANGED <<bufferVars, loopVars, flushVars, taskVars, open, received,
                   lost, hostVars, late>>

\* The send finds a slot: the batch is queued and the guard disarmed, with no
\* await in between.
TaskSend(t) ==
    /\ task[t] = "send" /\ open[t] /\ Len(out[t]) < OutCap
    /\ \E b \in inflight[t] :
           /\ out' = [out EXCEPT ![t] = Append(@, b)]
           /\ inflight' = [inflight EXCEPT ![t] = {}]
           /\ NextRound(t, Len(b.samples))
    /\ UNCHANGED <<bufferVars, loopVars, flushVars, aborted, open, received,
                   lost, hostVars, late>>

\* The send fails: the armed guard returns the batch and the loop ends.
TaskSendFails(t) ==
    /\ task[t] = "send" /\ ~open[t]
    /\ \E b \in inflight[t] : RequeueFront(b) /\ Arrive(Returnable(b))
    /\ inflight' = [inflight EXCEPT ![t] = {}]
    /\ task' = [task EXCEPT ![t] = "done"]
    /\ UNCHANGED <<loopVars, flushVars, aborted, rounds, wireVars, hostVars>>

\* A tick over an empty buffer does nothing but draw a sequence number; such
\* ticks are bounded.
TaskTick(t) ==
    /\ task[t] = "wait" /\ ~aborted[t]
    /\ ~IsEmpty(NextBatch) \/ seq < MaxIdleSeq
    /\ task' = [task EXCEPT ![t] = "drain"]
    /\ UNCHANGED <<bufferVars, loopVars, flushVars, aborted, inflight, rounds,
                   wireVars, hostVars, late>>

\* The early wake takes the permit, then spaces itself from the last flush.
TaskEarlyWake(t) ==
    /\ task[t] = "wait" /\ ~aborted[t]
    /\ flushEarly
    /\ flushEarly' = FALSE
    /\ task' = [task EXCEPT ![t] = "spacing"]
    /\ UNCHANGED <<samples, nonBillable, droppedOverflow, droppedNonBillable,
                   seq, events, loopVars, flushVars, aborted, inflight, rounds,
                   wireVars, hostVars, late>>

TaskSpaced(t) ==
    /\ task[t] = "spacing" /\ ~aborted[t]
    /\ task' = [task EXCEPT ![t] = "drain"]
    /\ UNCHANGED <<bufferVars, loopVars, flushVars, aborted, inflight, rounds,
                   wireVars, hostVars, late>>

\* Mutant: no guard; the batch of a pending send goes with its task.
TaskDroppedUnguarded(t) ==
    /\ aborted[t] /\ task[t] \in {"spawned", "wait", "spacing", "send"}
    /\ inflight' = [inflight EXCEPT ![t] = {}]
    /\ task' = [task EXCEPT ![t] = "done"]
    /\ UNCHANGED <<bufferVars, loopVars, flushVars, aborted, rounds, wireVars,
                   hostVars, late>>

\* The runtime drops an aborted task at an await; InFlight::drop returns the
\* batch of a send that was pending.
TaskDropped(t) ==
    /\ aborted[t] /\ task[t] \in {"spawned", "wait", "spacing", "send"}
    /\ IF task[t] = "send"
       THEN \E b \in inflight[t] : RequeueFront(b) /\ Arrive(Returnable(b))
       ELSE UNCHANGED <<bufferVars, late>>
    /\ inflight' = [inflight EXCEPT ![t] = {}]
    /\ task' = [task EXCEPT ![t] = "done"]
    /\ UNCHANGED <<loopVars, flushVars, aborted, rounds, wireVars, hostVars>>

----------------------------------------------------------------------------
\* The transport of session t (tonic, external).

Transmit(t) ==
    /\ open[t] /\ out[t] # <<>>
    /\ received' = received \union {Head(out[t])}
    /\ out' = [out EXCEPT ![t] = Tail(@)]
    /\ UNCHANGED <<bufferVars, loopVars, flushVars, taskVars, open, lost, hostVars, late>>

\* The request stream ends: whatever is still queued goes with it.
TransportBreaks(t) ==
    /\ open[t]
    /\ open' = [open EXCEPT ![t] = FALSE]
    /\ lost' = lost \union QueuedIn(t)
    /\ out' = [out EXCEPT ![t] = <<>>]
    /\ UNCHANGED <<bufferVars, loopVars, flushVars, taskVars, received, hostVars, late>>

----------------------------------------------------------------------------
\* The run loop.

\* What belonged to the last session is out of scope.
SessionForgotten ==
    outcome' = "ok" /\ wake' = FALSE /\ flushLeft' = 0 /\ late' = 0

LoopContinues ==
    /\ phase = "top" /\ ~stopping
    /\ phase' = "opening"
    /\ SessionForgotten
    /\ UNCHANGED <<bufferVars, session, stopping, finished, flushing, taskVars,
                   wireVars, hostVars>>

LoopStops ==
    /\ phase = "top" /\ stopping
    /\ phase' = "stopped"
    /\ finished' = TRUE
    /\ SessionForgotten
    /\ UNCHANGED <<bufferVars, session, stopping, flushing, taskVars, wireVars, hostVars>>

SessionOpens ==
    /\ phase = "opening" /\ session < MaxSessions
    /\ session' = session + 1
    /\ task' = [task EXCEPT ![session'] = "spawned"]
    /\ open' = [open EXCEPT ![session'] = TRUE]
    /\ phase' = "up"
    /\ wake' = FALSE
    /\ UNCHANGED <<bufferVars, outcome, stopping, finished, flushVars, aborted,
                   inflight, rounds, out, received, lost, hostVars, late>>

SessionRefused ==
    /\ phase = "opening"
    /\ phase' = "sleep"
    /\ outcome' = "err"
    /\ UNCHANGED <<bufferVars, session, stopping, wake, finished, flushVars,
                   taskVars, wireVars, hostVars, late>>

\* A clean end is followed by the next session at once, an error by a backoff.
AfterSession(o) == IF o = "ok" THEN "top" ELSE "sleep"

\* Mutant: the shutdown flush is one batch short.
SessionEndsShort(o) ==
    /\ phase = "up"
    /\ aborted' = [aborted EXCEPT ![session] = TRUE]
    /\ outcome' = o
    /\ IF stopping
       THEN phase' = "flush" /\ flushLeft' = MaxFlush - 1
       ELSE phase' = AfterSession(o) /\ UNCHANGED flushLeft
    /\ late' = 0
    /\ UNCHANGED <<bufferVars, session, stopping, wake, finished, flushing,
                   task, inflight, rounds, wireVars, hostVars>>

\* The select of run_session returns: the tasks are aborted and, when a
\* shutdown was asked for, the shutdown flush follows.
SessionEnds(o) ==
    /\ phase = "up"
    /\ aborted' = [aborted EXCEPT ![session] = TRUE]
    /\ outcome' = o
    /\ IF stopping
       THEN phase' = "flush" /\ flushLeft' = MaxFlush
       ELSE phase' = AfterSession(o) /\ UNCHANGED flushLeft
    /\ late' = 0
    /\ UNCHANGED <<bufferVars, session, stopping, wake, finished, flushing,
                   task, inflight, rounds, wireVars, hostVars>>

\* read_inbound returns, cleanly or not.
InboundEnds == \E o \in {"ok", "err"} : SessionEnds(o)

\* The select was notified.
SessionStopped == wake /\ SessionEnds("ok")

\* Mutant: the flush has no bound.
FlushDrainUnbounded ==
    /\ phase = "flush"
    /\ Drain
    /\ IF IsEmpty(NextBatch)
       THEN phase' = AfterSession(outcome) /\ UNCHANGED flushing
       ELSE phase' = "flushSend" /\ flushing' = {NextBatch}
    /\ flushLeft' = flushLeft - 1
    /\ UNCHANGED <<session, outcome, stopping, wake, finished, taskVars,
                   wireVars, hostVars, late>>

\* flush_remaining, metrics half: no guard holds the batch.
FlushDrain ==
    /\ phase = "flush" /\ flushLeft > 0
    /\ Drain
    /\ IF IsEmpty(NextBatch)
       THEN phase' = AfterSession(outcome) /\ UNCHANGED flushing
       ELSE phase' = "flushSend" /\ flushing' = {NextBatch}
    /\ flushLeft' = flushLeft - 1
    /\ UNCHANGED <<session, outcome, stopping, wake, finished, taskVars,
                   wireVars, hostVars, late>>

FlushSend ==
    /\ phase = "flushSend" /\ open[session] /\ Len(out[session]) < OutCap
    /\ \E b \in flushing : out' = [out EXCEPT ![session] = Append(@, b)]
    /\ flushing' = {}
    /\ phase' = "flush"
    /\ UNCHANGED <<bufferVars, session, outcome, stopping, wake, finished,
                   flushLeft, taskVars, open, received, lost, hostVars, late>>

FlushSendFails ==
    /\ phase = "flushSend" /\ ~open[session]
    /\ lost' = lost \union flushing
    /\ flushing' = {}
    /\ phase' = AfterSession(outcome)
    /\ UNCHANGED <<bufferVars, session, outcome, stopping, wake, finished,
                   flushLeft, taskVars, out, open, received, hostVars, late>>

FlushGivesUp ==
    /\ phase = "flush" /\ flushLeft = 0
    /\ phase' = AfterSession(outcome)
    /\ UNCHANGED <<bufferVars, session, outcome, stopping, wake, finished,
                   flushVars, taskVars, wireVars, hostVars, late>>

SleepOver ==
    /\ phase = "sleep"
    /\ phase' = "top"
    /\ UNCHANGED <<bufferVars, session, outcome, stopping, wake, finished,
                   flushVars, taskVars, wireVars, hostVars, late>>

----------------------------------------------------------------------------

Task(t) == TaskStart(t) \/ TaskDrain(t) \/ TaskSend(t) \/ TaskSendFails(t)
             \/ TaskTick(t) \/ TaskEarlyWake(t) \/ TaskSpaced(t) \/ TaskDropped(t)

RunLoop == LoopContinues \/ LoopStops \/ SessionOpens \/ SessionRefused
             \/ SessionStopped \/ FlushDrain \/ FlushSend \/ FlushSendFails
             \/ FlushGivesUp \/ SleepOver

LaneNext ==
    \/ \E o \in Outcomes : HostCall(o)
    \/ \E n \in 1 .. MaxUsage : HostUsage(n)
    \/ Trigger
    \/ \E t \in Sessions : Task(t) \/ Transmit(t) \/ TransportBreaks(t)
    \/ RunLoop
    \/ InboundEnds

LaneSpec == LaneInit /\ [][LaneNext]_laneVars

\* The runtime polls every ready task and drops every aborted one, the
\* transport moves what is queued, and every sleep of the run loop ends.  No
\* fairness on the hosts, on Trigger, on a transport breaking or on the control
\* plane ending the stream.
LaneFairSpec ==
    /\ LaneSpec
    /\ WF_laneVars(RunLoop)
    /\ \A t \in Sessions : WF_laneVars(Task(t)) /\ WF_laneVars(Transmit(t))

----------------------------------------------------------------------------

\* The lane uses the buffer as BatchCustody allows: what the flush tasks and
\* the shutdown flush do with their batches, aborts and failed sends included,
\* is a drain, a return or a hand-over of a batch still held.
CustodyKept == Custody!Spec

\* No call is reported to the control plane in two batches, whatever was
\* returned, retried or raced by an aborted task.
ReportedOnce ==
    \A b, c \in received :
        b # c => Custody!Ids(b.samples) \cap Custody!Ids(c.samples) = {}

\* The rows of a full ring: one of capacity zero takes a billable row too.
FullRing == IF Cap = 0 THEN 1 ELSE Cap

\* What a shutdown flush leaves behind when it reaches its bound is no more
\* than what came in while it ran: "The buffers are capped, so this covers a
\* full one" (agent.rs, MAX_SHUTDOWN_FLUSH_BATCHES).
FlushCoversFullBuffer ==
    FullRing <= MaxFlush * BatchCap /\ phase = "flush" /\ flushLeft = 0
        => Len(samples) <= late

\* A session that stays up ships everything: once recording pauses, nothing is
\* left in the buffer, in a task or in a queue (flush_loop "ship the whole
\* buffer").
EventuallyShipped ==
    <>[](phase = "up" /\ open[session])
        => <>[](IsEmpty(Custody!Buffered) /\ InCustody = {}
                 /\ \A t \in Sessions : out[t] = <<>>)

============================================================================
