------------------------------ MODULE Inbound ------------------------------
(***************************************************************************)
(* What the control plane pushes down a Channel and what the agent sends   *)
(* back about it: read_inbound (agent.rs) with the config, licence, quota  *)
(* and quarantine messages, the files it keeps, the host hooks it awaits,  *)
(* the status loop (status.rs) and the heartbeat ticker.                   *)
(*                                                                         *)
(* The handler runs from await to await; the status loop, the heartbeat,   *)
(* the transport and the control plane interleave there.  A crash, or the  *)
(* shutdown branch of the session's select, drops the handler at any of    *)
(* those points; both end in a process that boots again from its files.    *)
(*                                                                         *)
(* Updates are numbered in the order they are pushed; the number stands    *)
(* for the hash and the bundle alike, and 0 for none.  A file write is one *)
(* step that takes effect or fails: it goes through a temporary file, and  *)
(* LkgCache shows what that is worth.                                      *)
(***************************************************************************)
EXTENDS Naturals, Sequences

CONSTANTS Kinds,        \* the kinds of message the control plane sends
          Shapes,       \* the config updates it sends: hash named, bundle there
          Hooks,        \* the hooks the host has wired
          OutCap,       \* slots of the outbound queue
          InCap,        \* messages the control plane sends ahead
          MaxPush,      \* bound on the config and licence pushes
          MaxSessions,  \* bound on the sessions of all lives
          MaxBoots      \* bound on the restarts

ASSUME InboundAssumption ==
    /\ Kinds \subseteq {"config", "licence", "quota", "quarantine"}
    /\ Shapes \subseteq [named : BOOLEAN, bundle : BOOLEAN]
    /\ Hooks \subseteq {"config", "licence", "status"}
    /\ {OutCap, InCap, MaxPush, MaxSessions, MaxBoots} \subseteq Nat

VARIABLES phase, nonce, open,    \* the process, its Channel's nonce, the stream
          inbox,                 \* server messages not read yet
          pc, cur, verdict,      \* read_inbound: where, on what, applied or not
          lkg, licence,          \* on disk: last config saved, last delivery kept
          unsaved,               \* updates whose file could not be written
          partial,               \* an update came without a hash or a bundle
          applied, quota,        \* applied_config_hash, quota_status
          running, hosted,       \* the host: its config, its licence
          status, report, beat,  \* the status loop, its report, the heartbeat
          out,                   \* the outbound queue
          pushed, cpQuota,       \* the control plane: pushes made, quota held
          acked, seen,           \* acks queued, last report received
          boots

channel == <<phase, nonce, open>>
handler == <<pc, cur, verdict>>
disk == <<lkg, licence, unsaved, partial>>
host == <<running, hosted>>
lanes == <<status, report, beat>>
cp == <<pushed, cpQuota>>
vars == <<channel, inbox, handler, disk, applied, quota, host, lanes, out, cp,
          acked, seen, boots>>

\* A delivery carries the nonce of a Channel and the proof made with it.
NoDelivery == [n |-> 0, nonce |-> 0, proof |-> 0]

Init ==
    /\ phase = "down" /\ nonce = 0 /\ open = FALSE /\ inbox = <<>>
    /\ pc = "next" /\ cur = <<>> /\ verdict = FALSE
    /\ lkg = [n |-> 0, named |-> FALSE] /\ licence = NoDelivery
    /\ unsaved = {} /\ partial = FALSE
    /\ applied = 0 /\ quota = 0
    /\ running = 0 /\ hosted = NoDelivery
    /\ status = "off" /\ report = [config |-> 0, hash |-> 0] /\ beat = "off"
    /\ out = <<>> /\ pushed = 0 /\ cpQuota = 1
    /\ acked = {} /\ seen = [config |-> 0, hash |-> 0] /\ boots = 0

----------------------------------------------------------------------------
\* The control plane and the transport (external).

\* Only a config update has parts that may be missing.
Whole == [named |-> TRUE, bundle |-> TRUE]

CpPush(k, shape) ==
    /\ k \in Kinds /\ open /\ pushed < MaxPush /\ Len(inbox) < InCap
    /\ pushed' = pushed + 1
    /\ inbox' = Append(inbox, [kind |-> k, n |-> pushed', named |-> shape.named,
                               bundle |-> shape.bundle, on |-> nonce])
    /\ UNCHANGED <<channel, handler, disk, applied, quota, host, lanes, out,
                   cpQuota, acked, seen, boots>>

CpQuotaChanges ==
    /\ "quota" \in Kinds /\ cpQuota = 1
    /\ cpQuota' = 2
    /\ UNCHANGED <<channel, inbox, handler, disk, applied, quota, host, lanes,
                   out, pushed, acked, seen, boots>>

\* The control plane answers a heartbeat with the quota it holds.
Answered(m) ==
    IF m.kind = "heartbeat" /\ "quota" \in Kinds /\ Len(inbox) < InCap
    THEN Append(inbox, [kind |-> "quota", n |-> cpQuota, named |-> FALSE,
                        bundle |-> FALSE, on |-> nonce])
    ELSE inbox

Transmit ==
    /\ open /\ out # <<>>
    /\ out' = Tail(out)
    /\ inbox' = Answered(Head(out))
    /\ seen' = IF Head(out).kind = "report" THEN Head(out).report ELSE seen
    /\ UNCHANGED <<channel, handler, disk, applied, quota, host, lanes, cp, acked, boots>>

StreamLost ==
    /\ open
    /\ open' = FALSE
    /\ inbox' = <<>> /\ out' = <<>>
    /\ UNCHANGED <<phase, nonce, handler, disk, applied, quota, host, lanes, cp,
                   acked, seen, boots>>

----------------------------------------------------------------------------
\* read_inbound.

Takes(k) == pc = "next" /\ inbox # <<>> /\ Head(inbox).kind = k

\* Mutant: the hash of a refused bundle is recorded as well.
SettleAnyway(m, ok) ==
    /\ verdict' = ok /\ pc' = "ack"
    /\ applied' = IF m.named THEN m.n ELSE applied

\* The outcome is known: a hash in effect is recorded, the ack follows.
Settle(m, ok) ==
    /\ verdict' = ok /\ pc' = "ack"
    /\ applied' = IF ok /\ m.named THEN m.n ELSE applied

\* Mutant: nothing is written before the host has applied the bundle.
SaveLkgLater(m) == UNCHANGED <<lkg, unsaved>>

\* LkgCache::save; a failure is only logged.
SaveLkg(m) ==
    \/ lkg' = [n |-> m.n, named |-> m.named] /\ UNCHANGED unsaved
    \/ unsaved' = unsaved \union {m.n} /\ UNCHANGED lkg

TakeConfig ==
    LET m == Head(inbox) IN
    /\ Takes("config")
    /\ inbox' = Tail(inbox) /\ cur' = m
    /\ partial' = (partial \/ ~m.named \/ ~m.bundle)
    /\ IF m.bundle THEN SaveLkg(m) ELSE UNCHANGED <<lkg, unsaved>>
    /\ IF m.bundle /\ "config" \in Hooks
       THEN pc' = "apply" /\ UNCHANGED <<verdict, applied>>
       ELSE Settle(m, TRUE)
    /\ UNCHANGED <<channel, licence, quota, host, lanes, out, cp, acked, seen, boots>>

\* ConfigApplier::apply (external): the host switches over some time before
\* its future returns, or keeps what it has.
HostSwitches ==
    /\ pc = "apply"
    /\ running' = cur.n
    /\ pc' = "applied"
    /\ UNCHANGED <<channel, inbox, cur, verdict, disk, applied, quota, hosted,
                   lanes, out, cp, acked, seen, boots>>

\* Mutant: a refusal is acknowledged as if it were applied.
ApplyReturnsOk ==
    /\ pc \in {"apply", "applied"}
    /\ Settle(cur, TRUE)
    /\ UNCHANGED <<channel, inbox, cur, disk, quota, host, lanes, out, cp, acked,
                   seen, boots>>

ApplyReturns ==
    /\ pc \in {"apply", "applied"}
    /\ Settle(cur, pc = "applied")
    /\ UNCHANGED <<channel, inbox, cur, disk, quota, host, lanes, out, cp, acked,
                   seen, boots>>

\* Mutant: the ack waits for a queue that is gone.
AckSendsBlocking ==
    /\ open /\ Len(out) < OutCap
    /\ out' = Append(out, [kind |-> "ack"])
    /\ acked' = acked \union {[n |-> cur.n, ok |-> verdict, asked |-> cur.bundle]}

\* out_tx.send(ack): a slot, or the queue is closed and the error is ignored.
AckSends ==
    \/ /\ open /\ Len(out) < OutCap
       /\ out' = Append(out, [kind |-> "ack"])
       /\ acked' = acked \union {[n |-> cur.n, ok |-> verdict, asked |-> cur.bundle]}
    \/ ~open /\ UNCHANGED <<out, acked>>

Ack ==
    /\ pc = "ack"
    /\ AckSends
    /\ pc' = "next"
    /\ UNCHANGED <<channel, inbox, cur, verdict, disk, applied, quota, host,
                   lanes, cp, seen, boots>>

\* Mutant: the nonce is drawn once, with the process.
DeliveredFirstNonce(m) == [n |-> m.n, nonce |-> 1, proof |-> m.on]

\* The delivery as it is kept and handed on: the control plane's proof names
\* the Channel it was sent down, the agent adds the nonce of its own.
Delivered(m) == [n |-> m.n, nonce |-> nonce, proof |-> m.on]

\* save_cached; a failure is only logged.
SaveLicence(m) ==
    \/ licence' = Delivered(m) /\ UNCHANGED unsaved
    \/ unsaved' = unsaved \union {m.n} /\ UNCHANGED licence

TakeLicence ==
    LET m == Head(inbox) IN
    /\ Takes("licence")
    /\ inbox' = Tail(inbox) /\ cur' = m
    /\ SaveLicence(m)
    /\ pc' = IF "licence" \in Hooks THEN "licence" ELSE "next"
    /\ UNCHANGED <<channel, verdict, lkg, partial, applied, quota, host, lanes,
                   out, cp, acked, seen, boots>>

\* LicenseApplier::apply_license (external).
HostTakesLicence ==
    /\ pc = "licence"
    /\ hosted' = Delivered(cur)
    /\ pc' = "next"
    /\ UNCHANGED <<channel, inbox, cur, verdict, disk, applied, quota, running,
                   lanes, out, cp, acked, seen, boots>>

TakeQuota ==
    /\ Takes("quota")
    /\ quota' = Head(inbox).n
    /\ inbox' = Tail(inbox)
    /\ UNCHANGED <<channel, handler, disk, applied, host, lanes, out, cp, acked,
                   seen, boots>>

\* The session is over: its tasks are aborted, its queue and stream go.
SessionOver ==
    /\ phase' = "down" /\ open' = FALSE
    /\ inbox' = <<>> /\ out' = <<>>
    /\ status' = "off" /\ beat' = "off"

\* Either the stream has ended or a quarantine notice ends the session.
SessionEnds ==
    /\ phase = "up" /\ pc = "next"
    /\ ~open \/ Takes("quarantine")
    /\ SessionOver
    /\ UNCHANGED <<nonce, handler, disk, applied, quota, host, report, cp, acked,
                   seen, boots>>

----------------------------------------------------------------------------
\* status_loop and the heartbeat ticker; the first tick of both is immediate.

\* StatusSource::snapshot (external) shows the config the host runs.
StatusSnapshot ==
    /\ status = "tick"
    /\ report' = [report EXCEPT !.config = running]
    /\ status' = "snapped"
    /\ UNCHANGED <<channel, inbox, handler, disk, applied, quota, host, beat,
                   out, cp, acked, seen, boots>>

\* Mutant: the hash is the one the loop started with.
HashToReportStale == report.hash

HashToReport == applied

StatusHash ==
    /\ status = "snapped"
    /\ report' = [report EXCEPT !.hash = HashToReport]
    /\ status' = "send"
    /\ UNCHANGED <<channel, inbox, handler, disk, applied, quota, host, beat,
                   out, cp, acked, seen, boots>>

\* A closed queue ends the loop.
StatusSend ==
    /\ status = "send"
    /\ \/ /\ open /\ Len(out) < OutCap
          /\ out' = Append(out, [kind |-> "report", report |-> report])
          /\ status' = "tick"
       \/ ~open /\ status' = "off" /\ UNCHANGED out
    /\ UNCHANGED <<channel, inbox, handler, disk, applied, quota, host, report,
                   beat, cp, acked, seen, boots>>

\* Mutant: one heartbeat per session.
HeartbeatAfterOnce == "off"

HeartbeatAfter == "tick"

Heartbeat ==
    /\ \/ beat = "tick" /\ beat' = "send" /\ UNCHANGED out
       \/ /\ beat = "send" /\ open /\ Len(out) < OutCap
          /\ out' = Append(out, [kind |-> "heartbeat"])
          /\ beat' = HeartbeatAfter
       \/ beat = "send" /\ ~open /\ beat' = "off" /\ UNCHANGED out
    /\ UNCHANGED <<channel, inbox, handler, disk, applied, quota, host, status,
                   report, cp, acked, seen, boots>>

----------------------------------------------------------------------------
\* The process.

Opens ==
    /\ phase = "down" /\ nonce < MaxSessions
    /\ phase' = "up" /\ nonce' = nonce + 1 /\ open' = TRUE
    /\ status' = IF "status" \in Hooks THEN "tick" ELSE "off"
    /\ beat' = IF "quota" \in Kinds THEN "tick" ELSE "off"
    /\ UNCHANGED <<inbox, handler, disk, applied, quota, host, report, out, cp,
                   acked, seen, boots>>

\* The process dies, or a shutdown drops the handler and ends it.
Dies ==
    /\ phase # "dead" /\ boots < MaxBoots
    /\ phase' = "dead" /\ open' = FALSE /\ inbox' = <<>> /\ out' = <<>>
    /\ status' = "off" /\ beat' = "off" /\ pc' = "next"
    /\ applied' = 0 /\ quota' = 0 /\ running' = 0 /\ hosted' = NoDelivery
    /\ report' = [config |-> 0, hash |-> 0]
    /\ UNCHANGED <<nonce, cur, verdict, disk, cp, acked, seen, boots>>

\* run(): the preloaded hash counts as applied.  The host starts from the same
\* files on its own account, and may refuse the config it finds (external).
Boots ==
    /\ phase = "dead"
    /\ phase' = "down" /\ boots' = boots + 1
    /\ applied' = IF lkg.named THEN lkg.n ELSE 0
    /\ running' \in {0, lkg.n}
    /\ hosted' = licence
    /\ UNCHANGED <<nonce, open, inbox, handler, disk, quota, lanes, out, cp,
                   acked, seen>>

----------------------------------------------------------------------------

ReadInbound == TakeConfig \/ HostSwitches \/ ApplyReturns \/ Ack \/ TakeLicence
                 \/ HostTakesLicence \/ TakeQuota \/ SessionEnds

StatusLoop == StatusSnapshot \/ StatusHash \/ StatusSend

Next ==
    \/ \E shape \in Shapes : CpPush("config", shape)
    \/ \E k \in {"licence", "quarantine"} : CpPush(k, Whole)
    \/ CpQuotaChanges \/ Transmit \/ StreamLost
    \/ ReadInbound \/ StatusLoop \/ Heartbeat
    \/ Opens \/ Dies \/ Boots

Spec == Init /\ [][Next]_vars

\* The tasks are polled, the host's hooks return, the transport moves what is
\* queued while the stream is alive.  Strong fairness for the three that wait
\* for a slot: the queue serves its senders in the order they came.
FairSpec ==
    /\ Spec
    /\ WF_vars(ReadInbound) /\ WF_vars(StatusLoop)
    /\ SF_vars(Ack) /\ SF_vars(StatusSend) /\ SF_vars(Heartbeat)
    /\ WF_vars(Transmit) /\ WF_vars(Opens) /\ WF_vars(Boots)

----------------------------------------------------------------------------

\* "Everything the agent needs to keep serving through a Control Plane outage
\* is on disk before the outage starts" (README), crash in the middle of an
\* update included: what the host runs is never newer than what a restart would
\* find, unless the file could not be written.
OnDiskFirst ==
    /\ running \notin unsaved => running <= lkg.n
    /\ hosted.n \notin unsaved => hosted.n <= licence.n

\* An ack says what the host runs at that moment: active exactly when it is the
\* bundle acknowledged (ConfigApplier "truthful ack").
AckIsTruthful ==
    [][\A a \in acked' \ acked :
           a.asked /\ "config" \in Hooks => (a.ok <=> running = a.n)]_vars

\* Between two updates the hash that will be reported is that of the config the
\* host runs, if the host has wired a ConfigApplier, runs a config the control
\* plane sent and every update came with a hash and a bundle, refusals and
\* restarts notwithstanding (applied_config_hash).
SettledHash ==
    "config" \in Hooks /\ pc = "next" /\ running # 0 /\ ~partial => applied = running

\* The licence on disk and the host's carry the nonce of the Channel they came
\* down, after reconnects and restarts too (agent.rs "the delivery came down
\* this Channel and no other").
ProofNamesChannel ==
    licence.nonce = licence.proof /\ hosted.nonce = hosted.proof

Settled ==
    /\ phase = "up" /\ open /\ pc = "next"
    /\ \A i \in DOMAIN inbox : inbox[i].kind # "config"

\* "A missed report costs nothing, the next tick supersedes it" (status.rs):
\* once updates stop and a session stays up, the control plane's last report
\* shows the config the host runs and the hash recorded for it.
StatusCatchesUp ==
    <>[]Settled => <>[](seen = [config |-> running, hash |-> applied])

\* A session that stays up has the quota the control plane holds, behind
\* whatever the handler is busy with (quota_status "sent after every streaming
\* heartbeat ingest").
QuotaCatchesUp == <>[](phase = "up" /\ open) => <>[](quota = cpQuota)

\* A stream that has ended is noticed, whatever the handler was waiting for.
DeadStreamNoticed == phase = "up" /\ ~open ~> phase # "up"

============================================================================
