# A TLA+ model of the MCPG control-plane client

The crate connects a gateway to its control plane (CP): it enrols, keeps one
gRPC Channel open, reports tool calls, applies what the CP pushes and
reconnects for ever. This directory specifies it, checks it
with TLC and proves every safety property of the passing runs with TLAPS. Paths below are
relative to `src/src/`.

## The system's parts

| Part | State | Operations | What makes it hard |
|---|---|---|---|
| Metrics buffer (`metrics.rs`) | ring, non-billable count, drop counters, seq, events rollup, early-flush permit | `record`, `record_events`, `drain`, `requeue_front` | several holders drain and give back at once; a full ring on return; a count kept by hand |
| Metrics flush loop (`metrics.rs`, `flush_loop`) | batch held by the `InFlight` guard, round, outbound queue | tick, early wake, drain, send, drop | aborted tasks outlive their session; the queue goes down with the transport |
| Shutdown flush (`agent.rs`, `flush_remaining`) | batch being sent, rounds left | drain, send, give up | races the task it has just aborted; bounded rounds |
| Run loop and session (`agent.rs`) | where the loop is, backoff | boot, connect, reject, slot held, clean end, sleep | every way back to a connect must pass the same checks |
| Shutdown handshake (`AgentShutdown`) | two flags, two `Notify` | `trigger`, `finished` | lost wakeups |
| Instance credentials (`agent.rs`, `client.rs`) | token in memory, on the Channel, on disk | register, rotate, discard, reload | failed writes, crashes between steps, stale tokens |
| Log lane (`logs.rs`) | ring, drop counter, seq | `record`, `drain`, `flush_loop` | no guard on a drained batch |
| Config and last-known-good (`agent.rs`, `lkg.rs`) | file, applied hash | save, apply, ack, preload | saved before applied; crash in between |
| Status (`status.rs`), licence (`license_delivery.rs`), payload key (`payload_dek.rs`) | one handle or file each | report, deliver, rotate | a value read before an await and used after it; memory against disk |
| Pace (`agent.rs`, `backoff.rs`) | attempt counters, the token's remaining validity, the slot's lease | back off, wait for the slot, refresh | what a sleep does to a value checked before it |
| Quota, heartbeat (`agent.rs`) | a cell, a ticker | push, tick | waits behind the handler and the queue |
| Client (`client.rs`) | TLS material, cached channel | `set_tls`, `connect`, `reset` | a channel outlives the material it was built with |

They interact as follows. The run loop opens a session; the session spawns one
flush task, which drains the buffer into the session's outbound queue, which
the transport empties. When the session ends its tasks are aborted and the loop
reconnects or, if a shutdown was asked for, first flushes the buffer itself.
Tokens are issued at enrolment and pushed through the session; a token the CP
refuses sends the loop back to enrolment. Everything else the CP pushes goes
through one handler, `read_inbound`, which writes files, awaits the host and
answers through the same outbound queue that reports and heartbeats use.

## Modules

- `MetricsBuffer` — the buffer's state and its four operations as actions, one
  per critical section of the code. It has no `Next`: who calls is up to the
  modules that extend it.
- `BatchCustody` — what the buffer promises to whoever drains it. Any number of
  holders record, drain, return a batch or settle it (pass it on for good). The
  abstract specification of the metrics lane, and the one the theorems are about.
- `MetricsLane` — the flush task of every session, its queue, the transport, the
  session part of the run loop and the shutdown flush. It implements
  `BatchCustody` under the mapping *held = in a guard or in the shutdown flush*,
  *settled = queued, received or lost*. An empty batch is held by nobody.
- `AgentLifecycle` — boot, enrolment, the run loop, tokens in memory, on the
  open Channel and on disk, restarts, `trigger` in its two steps and `finished`
  in its four.
- `LogLane` — the log ring, the log flush loop of every session, the queue and
  the log half of `flush_remaining`. Lines are numbered, so that a batch's drop
  count can be held against the lines that are really missing before it.
- `LkgCache` — `save`, `load` and `node_secret` of `lkg.rs`, file by file and step
  by step. It implements `AtomicFile`, a cell that holds the last value saved,
  under the mapping *value = what a reader would decrypt now*.
- `Inbound` — `read_inbound` from await to await, the last-known-good and licence
  files, the host's hooks, the status loop, the heartbeat and their shared queue,
  with crashes, restarts and reconnects.
- `Credentials` — token, client certificate, CA chain and payload key in
  `agent-creds.json`, in memory and in the cached gRPC channel.
- `Reconnect` — the run loop by the clock: backoff with jitter, the wait for a
  held slot, the refresh window, the sleeps inside `register_fresh`.
- `MCBatchCustody`, `MCMetricsLane`, `MCAgentLifecycle`, `MCLogLane`,
  `MCLkgCache`, `MCInbound`, `MCCredentials`, `MCPacing` — instances for TLC.
  `MCShutdownPromise` adds to the lane the one history variable (`owed`, the
  calls recorded before the trigger) that the shutdown documentation needs.
- `BatchCustodyProofs`, `MetricsLaneProofs`, `LogLaneProofs`,
  `AgentLifecycleProofs`, `LkgCacheProofs`, `InboundProofs`, `CredentialsProofs`,
  `ReconnectProofs` — the proofs, one module beside each specification.

An operator whose comment starts with *Mutant* is a plausible bug of the
definition that follows it. No specification uses it; each one, put in that
definition's place, breaks a property, which shows the property is not vacuous.

### Atomicity and abstraction

- `record`, `drain` and `requeue_front` hold the ring's mutex throughout and the
  drop counters change only under it, so each is one action. `record_events`
  takes only the rollup's mutex; `drain` and `requeue_front` take that inside
  the ring's, and it touches nothing else, so it is one action too.
- A task's step ends at an await or a lock. `JoinHandle::abort` is a flag; the
  task is dropped at an await some time later, also after the next session has
  opened. The model lets an aborted task finish a send it is in, which is at
  most what the runtime allows in the poll that is running.
- `notify_waiters` reaches the `Notified` that exist; the select creates its own
  when the session is up, which is when `wake` starts to count.
- A sample is an arrival number and an outcome. The rollup is one count: its
  counters are only added, taken and added back. Its time window is left out.
- Counters are naturals: a u64 that counts calls does not wrap in the life of a
  process.
- `requeue_front` is given in closed form: as many of the newest rows as fit go
  back, the older ones are counted.
- Time is left out everywhere but in `Reconnect`: ticks, the early-flush spacing
  and every sleep end at any moment. In `AgentLifecycle` a token is fresh, due
  (within the refresh window, or its `exp` is unreadable) or expired, and one
  checked at the top of the loop does not expire before the connect that
  follows. `PresentsLiveToken` of `Reconnect` is what that rests on: it holds as
  long as a connect takes less than the window, which is at least five minutes
  (`MIN_TOKEN_REFRESH_WINDOW`).
- `Reconnect` keeps what is left of the token and of the lease as countdowns, so
  its state space is finite without a bound on time. Its assumptions are the
  ones the code's comments make: `MAX_SLOT_RETRY` covers the lease, the shift's
  cap lies beyond the maximum delay. The slot's holder is the CP's business and
  may speak at any time.
- `agent-creds.json` missing and unreadable are the same, as they are to the
  code. Register's in-place write ends as the new token, the old one, or
  neither; rotation's rename as the new or the old.
- In the lanes other senders on the outbound queue only take slots and are left
  out; `Inbound` has acks, reports and heartbeats compete for them.
- In `Inbound` an update is its number, which stands for hash and bundle; an
  update may name no hash or carry no bundle. A file write takes effect or
  fails. A shutdown that drops the handler and a crash are one action, as both
  end in a process that starts from its files.
- In `LkgCache` a key is where it comes from, and a file opens if it is whole and
  was sealed with the key derived now. Whether the machine has an id does not
  change.
- In `Credentials` every Register and every rotation brings a certificate or
  none, a Register also a CA chain or none, whatever the ones before it brought;
  a creds file "written before mTLS support existed" (`agent.rs:109`) is one
  that a Register without either has left. A payload key is absent, good, of the
  wrong length, or without a version. A certificate stands for its private key:
  a message that brings one brings the other. A handler is one step, as the
  agent's task alone touches this state. `bare` and `lapsed` are history: what
  the creds installed last lacked, and whether a write has failed since.

## What is checked

| Run | Config | Shows | States |
|---|---|---|---|
| `batch_custody` | `MCBatchCustody` | nothing recorded is lost, doubled or misfiled by any sequence of records, drains, returns and settlements; non-billable rows go first | 49 k |
| `metrics_lane` | `MCMetricsLane` | the lane implements `BatchCustody`; no call is reported in two batches; what the bounded flush leaves is no more than what came in while it ran | 1.3 M |
| `lane_liveness` | `MCLaneLiveness` | a session that stays up ships everything | 215 k |
| `agent_lifecycle` | `MCAgentLifecycle` | no refused or expired token is presented, creds that cannot be replaced are kept, no second session after a trigger; a trigger takes effect unless it fell in one gap, `finished()` resolves, the agent gets a session again and again | 56 k |
| `log_lane` | `MCLogLane` | every batch's drop count names exactly the gap before it, whoever drains; what the bounded log flush leaves came in while it ran; a session that stays up ships every line and drop count; a shutdown flush ends | 517 k |
| `lkg_cache` | `MCLkgCache` | the cache is an atomic cell through failures and crashes, with and without a machine id | 512 |
| `inbound` | `MCInbound` | what the host runs is on disk first; the recorded hash is that of the config that runs; an ack says what the host runs; a licence carries the nonce of the Channel it came down | 4.8 M |
| `inbound_liveness` | `MCInboundLiveness` | reports and quota catch up; a dead stream is noticed whatever the handler waits for | 28 k |
| `credentials` | `MCCredentials` | a restart presents the same token and installs the TLS material the process had, for every mix of creds with and without certificate and CA chain; an error leads to a channel with the material in force; a rotation keeps the CA; a payload key is not lost while the process lives | 331 k |
| `pacing` | `MCPacing` | no expired token is presented, a slot retry lands, failures in a row are spaced, no sleep is longer than earned | 255 k |

Two runs show where the code and its documentation part; TLC gives the
shortest behaviour:

- `finished_shipped`: a trigger while no session is up (before the first
  connect, or in a backoff) stops the loop from its top. `finished()` resolves
  and nothing was flushed, though `agent.rs:152` says it "Resolves once the agent has
  shipped what it had buffered and stopped". A longer behaviour goes through the
  flush: it follows `abort()` without awaiting the task, so it can find the buffer
  empty and end before the guard gives its batch back, though `agent.rs:598` says
  it "ships everything still owed".
- `trigger_stops`: a trigger between the check of `stopping` and the select's
  `notified()` wakes nobody; the session opened then goes on until its stream
  ends, though `agent.rs:145` says trigger makes the agent "finish its current session
  and stop". `StopsUnlessMissed` shows this gap is the only one once a Register
  under way is answered; until then `retry_with_backoff` does not look at
  `stopping` either (see Fairness).

Other places where comments and code part, met while modelling; no run is about
them, and the models follow the code:

- `metrics.rs:564` says "a reconnect costs no billable calls"; a queued batch is
  no longer guarded and is lost with the queue (`lost` in `MetricsLane`).
- The crate's `README.md:56` says "on overflow the oldest sample is dropped"; a
  full ring that holds a non-billable sample drops the oldest of those and keeps
  older billable ones (`metrics.rs:307`), as `SpendsNonBillableFirst` states.
- `agent.rs:1236` says "`finished()` must resolve even when the agent stopped
  first"; `run()` returns the error of a boot without creds and without an
  enrollment token and never sets `finished` (`pc = "failed"` in `AgentLifecycle`).
- `logs.rs:2` says "The logs lane mirrors `metrics.rs` exactly"; a log batch has no
  guard and vanishes with an aborted loop.
- `lkg.rs:122` says "write to temp file, fsync, rename"; nothing is synced.
- `lkg.rs:3` says the bundle is persisted "*after* successfully applying it"; it
  is saved first, as `agent.rs:659` has it, and a refused bundle stays in the file.
- `agent.rs:212` says "the CP sees what is actually in effect"; the preloaded
  hash counts as applied after a restart, also that of a refused bundle, and a
  host without a `ConfigApplier` has every update's hash recorded though it runs
  none of them. `SettledHash` is about the rest.
- `agent.rs:726` says "the next reconnect picks up the new cert"; after a clean
  end or a held slot the cached channel, built with the old one, is used again.
  `ErrorRefreshesCert` shows where it is picked up.
- `agent.rs:713` says a rotation is persisted "so a restart before the next
  rotation still authenticates"; with a file without a CA chain the rotated
  certificate is written and set in memory, but a restart sets TLS material only
  if the file has both (`agent.rs:833`), and presents no certificate. In the same
  way a Register without a certificate or a CA chain leaves the material of the
  one before in memory and none in the file. `RestartSeesSame` shows these are the only
  cases without a failed write: a process whose creds were complete is restored
  as it was, and material that is restored is that of the process.
- `agent.rs:728` says "The CA didn't change, so we re-read from disk"; a file
  without one puts an empty chain in the place of `bootstrap_ca_pem`, and a file
  that the last Register failed to write brings back an older chain.
  `RotationKeepsCa` is about the rest.
- `agent.rs:914` says creds without a payload key "leave the slot at `None`"; the
  handle keeps the earlier key, which `KeyNeverLost` states.
- `payload_dek.rs:15` says "a restart doesn't lose source-side encryption
  capability"; a rotated key of the wrong length is refused in memory and written
  to disk over the good one.

### Bounds

- Ring of two rows, batches of one: a full ring takes two rounds, and a return
  meets an empty, a half-full and a full ring. Both kinds of outcome in
  `batch_custody`; the lane's runs use one, as the lane never looks at outcomes.
  Two calls fill the lane's ring (that a batch comes back to a full one is
  `batch_custody`'s case); the rollup of usage events has its own run
  (`lane_liveness`), where the shutdown flush has no part (`MaxFlush = 0`).
- `MaxSeq` bounds the state space of `batch_custody` (three drained batches);
  `MaxIdleSeq` bounds ticks over an empty buffer, which change nothing but the
  sequence number.
- Two sessions: an aborted task can overlap its successor. One queue slot: a
  send can wait. `MaxFlush = 2` just covers the ring of two; in the code 16 batches of
  500 cover 5000.
- Two tokens, of which the last never expires or is revoked, so that a run does
  not end for want of tokens; one restart, at which the enrollment token may
  appear or go; one waiter, as waiters do not see each other. The safety
  properties are proved for any number of each.
- `LogLane`: four lines over a ring of two overflow it and still leave lines for
  a flush; two sessions, one queue slot. A tick that finds nothing sends nothing,
  and `MaxIdle = 0` leaves it out.
- `LkgCache`: two bundles and three secrets, so that a half-written secret is
  replaced twice.
- `Inbound`: two pushes of any kind (one after a refusal), two sessions,
  one restart, one queue slot and one unread message. The liveness run has one
  update, one session and one restart: its properties are about the last
  update and a session that stays up.
- `Credentials`: four issues after the bootstrap CA (number 1), which is an
  enrolment, rotations before and after a restart, and another enrolment, each
  complete or not.
- `Reconnect`: a unit is a quarter of the shortest delay. Delays reach their
  maximum after two doublings, the shift its cap after three and the counter its
  end after five; a token outlives one long delay and not two.
- Deadlock is checked in `lkg_cache`, `credentials` and `pacing`. It is not in the others: an
  agent that has returned, or hosts and a CP that have made all their calls, may
  stop.

### Fairness

- `LaneFairSpec`: weak fairness of the run loop, of every flush task and of every
  transport (tokio polls what is ready and drops what is aborted; tonic sends
  what is queued on a live connection). None on hosts, on a trigger, on a
  transport breaking or on the CP ending a stream.
- `FairSpec`: weak fairness of the agent's own steps, of a connect being
  answered, of the second half of `trigger()` and of a started `finished()`. That
  Register is answered is an assumption about the CP: `retry_with_backoff`
  retries without looking at `stopping`, so without it a shutdown during an
  outage at enrolment waits. A session may stay up for ever.
- `KeepsReconnecting` states its own assumptions: an enrollment token is there
  from some time on, and connects tried again and again are answered now and then.
- `LogLane!FairSpec`: weak fairness of the run loop, the flush loops and the flush;
  a connection with something queued moves it or is given up, which is what the
  HTTP/2 keep-alive set in `client.rs` is for. None on hosts, a trigger or the end
  of a session.
- `Inbound!FairSpec`: weak fairness of the tasks, the transport and the restart,
  and strong fairness of the three sends that wait for a slot, because tokio's
  bounded channel hands slots out in the order they were asked for. That the
  host's hooks return is assumed: nothing in the agent bounds them.

## What is proved

Every safety property of the passing runs (invariants, action properties and the
two refinements) is also a theorem, for every value of the constants that the
named assumptions allow: any capacity, batch size, set of outcomes and number of
calls, lines, sessions, tokens, waiters, updates and restarts. The type invariant of
`AgentLifecycle` is proved and is in no run.

| Module | Theorems | Inductive invariant |
|---|---|---|
| `BatchCustodyProofs` | `CustodyTypeCorrect`, `LedgerBalances`, `CountStaysExact`, `BufferStaysBounded`, `RowsStayOnce`, `SeqStaysUnique`, `NonBillableGoFirst` | `CustodyInv` |
| `MetricsLaneProofs` | `HoldersAreDistinct`, `LaneKeepsCustody`, `LaneLedgerBalances`, `CallsReportedOnce`, `LaneTypeCorrect`, `FlushReachesTheEnd` | `ShapeInv`, and `CoverInv` on top of it |
| `LogLaneProofs` | `LogInvariant`, `GapsAreFilled`, `LogFlushReachesTheEnd` | `LogInv` |
| `AgentLifecycleProofs` | `TypeCorrect`, `RefusedTokensStayAway`, `ExpiredTokensStayAway`, `ShutdownOpensNoSecondSession`, `FinishReachesEveryWaiter`, `CredsStayWithoutEnrollment` | `LifecycleInv` |
| `LkgCacheProofs` | `CacheInvariant`, `CacheStaysAtomic` | `CacheInv` |
| `InboundProofs` | `InboundInvariant`, `SavedBeforeApplied`, `HashFollowsTheHost`, `DeliveriesNameTheirChannel`, `AcksAreTruthful` | `InboundInv` |
| `CredentialsProofs` | `CredentialsInvariant`, `RestartsSeeTheSame`, `ErrorsRefreshTheCert`, `RotationsKeepTheCa`, `KeysStay` | `CredentialsInv` |
| `ReconnectProofs` | `PaceInvariant`, `LiveTokensOnly`, `SlotRetriesLand`, `FailuresAreSpaced`, `SleepsAreBounded` | `PaceInv` |

Most assumptions only give the constants their types (`CapsAssumption`,
`CustodyAssumption`, `LaneAssumption`, `LifecycleAssumption`, `CacheAssumption`,
`InboundAssumption`, `CredentialsAssumption`). Two say more. `LogAssumption` has a
ring and a batch of at least one line: with a capacity of zero `record` keeps one
line all the same and counts one drop too many, as it pops from an empty ring. `ReconnectAssumption` has what the shipped constants and the
comments say: the largest shift reaches the maximum delay and comes before the end
of the counter, the longest slot wait covers the lease, a connect is shorter than
the refresh window and a token outlives two of them. The two flush theorems carry
their condition in the property: the bound on the rounds covers a full ring, which
for the metrics is one row even at a capacity of zero (`FullRing`).

**The buffer.** Lemmas on sequences say how the counts of billable and
non-billable rows behave under concatenation, appending, cutting and removing one
row. One lemma per operation follows: it preserves
`Sound` (type, exact count, bound) and moves a known number of units between the
buffer and the batch. `CustodyInv` is `TypeOK`, `NonBillableExact`,
`BoundedBuffer`, `SeqUnique`, `Ledger`, the finiteness of the ledger's lines and
`RowsInv`. The strengthening is needed in three places. The ledger needs the
exact count: otherwise a saturating subtraction, or a victim that is not there,
would lose a unit. It needs unique sequence numbers: returning a batch removes
it from a *set*, and only a batch that equals no other removes its own units.
And `RowsOnce` needs that no row has a number not yet given out, or the next
call could repeat one. `Victim` is a `CHOOSE`; that a least non-billable row
exists is a least-element argument from well-founded induction.

**The metrics lane.** `LaneKeepsCustody` is a refinement, shown action by action:
a task or the shutdown flush takes, returns or settles exactly one batch, or moves
none. That needs `ShapeInv`: a guard is armed exactly while its task has something
to send, no two hold the same batch, and no batch held has a number that was not
drawn, so that the next drain takes a new one. Without it a task that was aborted
and one of the next session could hold one batch between them, and a send would
leave it in custody. The buffer's theorems then hold of
the lane (`LaneLedgerBalances`), and `CallsReportedOnce` follows from `RowsOnce`.
`FlushReachesTheEnd` counts: what the ring holds is at most what came in during the
flush, plus what the rounds left can take, also when a task gives a batch back in
between.

**The log lane.** A log batch has no contract to refine, so the account is direct.
`LogInv` says that the ring starts right after all that the drained batches hold
and count as dropped, and that what was emitted is the sum. That no drained batch
disappears from the account needs that a sender holds one exactly while it sends
it: a drain over a batch still held would erase it. The account is a cardinality
(`Entries`, one element per line held or dropped), so that a new batch adds its
size by a theorem on finite sets and needs no induction.

**The life cycle.** `LifecycleInv` adds to the properties: the file is never
ahead of the memory and both are numbers already issued; a refused token is
gone from memory by the time the loop is back at its top and a discarded one is
not on disk; a session opened after the trigger leaves no way to a connect that
skips the top of the loop; `finished` is set exactly while the loop is ending.
`RefusedNeverPresented` alone is not inductive: a restart takes the token from
disk, so the disk has to be part of the invariant.

**The cache.** `CacheStaysAtomic` maps every step to a `Save` or a stutter. Only
the rename is a `Save`; the others leave the readable value alone because a whole
file, and a save under way, are sealed with the key that would be derived now. For
that the node secret must be replaced only while it is not whole.

**Inbound.** `InboundInv` says at each await of the handler what it knows: that its bundle is
saved or the failure noted, that the verdict is what the host runs, that whatever
is still in the inbox came down this Channel and is newer than all that was taken.
The last is what keeps an old update from overtaking the file. `HashFollowsTheHost`
alone is not inductive: between the switch of the host and the return of its hook
the recorded hash is behind, and the invariant says exactly there.

**Credentials.** `CredentialsInv` relates memory, file and cached channel. After an
error or a reset a cached channel was built with the TLS material in force, also
while the agent enrols over it and before the next session opens on it, which
`ErrorRefreshesCert` does not say: a Register without a certificate leaves material and
channel as they are. No key is newer than what has been issued, so that one from
disk cannot replace a later one. `RotationsKeepTheCa` follows from
`RestartSeesSame`: the CA in the file is the one in memory.

**Pace.** `PaceInv` relates the counter of `Backoff` to the failures in a row
(slot refusals and Registers leave both alone), the sleep that is due to the delay earned,
and what is left of the lease to the sleep that waits for it. `Bounded` is shown to
be the doubling sequence: the shift is capped, but by then the delay is at its
maximum.

**Only model-checked**: the liveness properties `EventuallyShipped`,
`StopsUnlessMissed`, `FinishedResolves`, `KeepsReconnecting`, `LogsShipped`,
`FlushEnds`, `StatusCatchesUp`, `QuotaCatchesUp` and `DeadStreamNoticed`. They need
fairness, which is outside this prover.

## Not modelled

- Cryptography (sealing, payload encryption, signing) and the wire shape of
  messages: data with no control of its own.
- `Command`, `Diagnostic` and `LogRequest` pushes, which the handler only logs,
  and logging itself.
- Plugin settings: parsing and defaults, read once at start.
- The content of a heartbeat, of a status snapshot and of the Channel's metadata,
  the nonce excepted.
- A host whose hooks never return, and a machine id that can be
  read at some times and not at others.
