--------------------------- MODULE AgentLifecycle ---------------------------
(***************************************************************************)
(* The life of one agent (src/src/agent.rs): boot, enrolment, the run loop *)
(* with its reconnects, the instance token in memory and on disk, and the  *)
(* shutdown handshake between the run loop and the hosts (AgentShutdown).  *)
(*                                                                         *)
(* A token is the number the control plane issued it under; 0 is none.     *)
(* `disk` is the token of agent-creds.json, 0 when the file is missing or  *)
(* cannot be read, which the code never tells apart.  What a session does  *)
(* with the buffers is in MetricsLane; here it is up, rotates its token    *)
(* and ends.  Sleeps end at any moment.  A Register that fails is retried  *)
(* with nothing changed and is a stuttering step.                          *)
(***************************************************************************)
EXTENDS Integers, FiniteSets

CONSTANTS Waiters,        \* host tasks that await AgentShutdown::finished
          MaxTokens,      \* bound on the tokens issued; the last one stays good
          MaxRestarts     \* bound on the crashes and restarts

ASSUME LifecycleAssumption ==
    /\ MaxTokens \in Nat \ {0}
    /\ MaxRestarts \in Nat

VARIABLES pc,         \* where the agent's task is
          after,      \* where register_fresh returns to
          jwt,        \* the token the client presents
          shown,      \* the token the open Channel was authenticated with
          disk,       \* the token agent-creds.json holds
          issued,     \* tokens issued so far
          age,        \* per token: how near its expiry is
          revoked,    \* tokens the control plane no longer accepts
          refused,    \* tokens this process was told are not accepted
          discarded,  \* tokens removed from the disk for that reason
          stopping,   \* AgentShutdown.stopping
          trigger,    \* a host is between the two steps of trigger()
          wake,       \* the session's select has been notified
          finished,   \* AgentShutdown.finished
          waiter,     \* per waiter: where in finished() it is
          notified,   \* per waiter: its Notified has been woken
          extra,      \* sessions opened since a shutdown was asked for
          enrollable, \* enrollment_url carries a token (extract_token)
          restarts    \* restarts so far

credVars == <<jwt, disk, issued, age, refused, discarded>>
shutdownVars == <<stopping, trigger, wake, finished, extra>>
waiterVars == <<waiter, notified>>
lifeVars == <<enrollable, restarts>>
lifecycleVars == <<pc, after, credVars, revoked, shown, shutdownVars, waiterVars, lifeVars>>

Tokens == 1 .. MaxTokens

PC == {"boot", "register", "top", "connect", "up", "rejected", "discarded",
       "sleep", "finishing", "returned", "failed"}

CredsTypeOK ==
    /\ jwt \in 0 .. MaxTokens
    /\ shown \in 0 .. MaxTokens
    /\ disk \in 0 .. MaxTokens
    /\ issued \in 0 .. MaxTokens
    /\ age \in [Tokens -> {"fresh", "due", "expired"}]
    /\ revoked \in SUBSET Tokens
    /\ refused \in SUBSET Tokens
    /\ discarded \in SUBSET Tokens

WaiterTypeOK ==
    /\ waiter \in [Waiters -> {"idle", "loaded", "registered", "waiting", "done"}]
    /\ notified \in [Waiters -> BOOLEAN]

TypeOK ==
    /\ pc \in PC
    /\ after \in {"top", "connect"}
    /\ CredsTypeOK
    /\ stopping \in BOOLEAN
    /\ trigger \in BOOLEAN
    /\ wake \in BOOLEAN
    /\ finished \in BOOLEAN
    /\ WaiterTypeOK
    /\ extra \in Nat
    /\ enrollable \in BOOLEAN
    /\ restarts \in 0 .. MaxRestarts

\* A first start, or one that finds the creds of an earlier life.
Init ==
    /\ pc = "boot" /\ after = "top"
    /\ jwt = 0 /\ shown = 0 /\ disk \in {0, 1} /\ issued = disk
    /\ age = [t \in Tokens |-> "fresh"] /\ revoked = {}
    /\ refused = {} /\ discarded = {}
    /\ stopping = FALSE /\ trigger = FALSE /\ wake = FALSE /\ finished = FALSE
    /\ waiter = [w \in Waiters |-> "idle"]
    /\ notified = [w \in Waiters |-> FALSE]
    /\ enrollable \in BOOLEAN
    /\ extra = 0 /\ restarts = 0

----------------------------------------------------------------------------
\* Boot and enrolment.

Boot ==
    /\ pc = "boot"
    /\ \/ disk # 0 /\ pc' = "top" /\ jwt' = disk /\ UNCHANGED after
       \/ disk = 0 /\ enrollable /\ pc' = "register" /\ after' = "top" /\ UNCHANGED jwt
       \/ disk = 0 /\ ~enrollable /\ pc' = "failed" /\ UNCHANGED <<jwt, after>>
    /\ UNCHANGED <<disk, issued, age, refused, discarded, revoked, shown, shutdownVars,
                   waiterVars, lifeVars>>

NextToken == IF issued < MaxTokens THEN issued + 1 ELSE MaxTokens

\* The control plane issues a token.  Its lifetime may already lie within the
\* refresh window, and an `exp` the client cannot read counts as that.
Issue ==
    /\ issued' = NextToken
    /\ \E a \in IF NextToken < MaxTokens THEN {"fresh", "due"} ELSE {"fresh"} :
           age' = [age EXCEPT ![NextToken] = a]
    /\ jwt' = NextToken

\* register_fresh, once the control plane answers.  The file is written in
\* place and a failure is ignored: the new token, the old one, or neither.
Register ==
    /\ pc = "register"
    /\ Issue
    /\ disk' \in {NextToken, disk, 0}
    /\ pc' = after
    /\ UNCHANGED <<after, refused, discarded, revoked, shown, shutdownVars, waiterVars, lifeVars>>

----------------------------------------------------------------------------
\* The run loop.

LoopStops ==
    /\ pc = "top" /\ stopping
    /\ finished' = TRUE
    /\ pc' = "finishing"
    /\ UNCHANGED <<after, credVars, revoked, shown, stopping, trigger, wake, extra,
                   waiterVars, lifeVars>>

\* notify_waiters wakes the Notified that exist by now.
NotifyDone ==
    /\ pc = "finishing"
    /\ notified' = [w \in Waiters |-> notified[w] \/ waiter[w] \in {"registered", "waiting"}]
    /\ pc' = "returned"
    /\ UNCHANGED <<after, credVars, revoked, shown, shutdownVars, waiter, lifeVars>>

\* expires_within over the token's `exp` claim
ExpiresWithin(t) == age[t] \in {"due", "expired"}

\* Mutant: the token is presented unchecked.
LoopContinuesUnchecked ==
    /\ pc = "top" /\ ~stopping
    /\ pc' = "connect"
    /\ UNCHANGED <<after, credVars, revoked, shown, shutdownVars, waiterVars, lifeVars>>

\* Mutant: the loop does not look at `stopping`.
LoopContinuesRegardless ==
    /\ pc = "top"
    /\ IF ExpiresWithin(jwt) /\ enrollable
       THEN pc' = "register" /\ after' = "connect"
       ELSE pc' = "connect" /\ UNCHANGED after
    /\ UNCHANGED <<credVars, revoked, shown, shutdownVars, waiterVars, lifeVars>>

\* A token that is about to expire is replaced before it is presented, if an
\* enrolment token can replace it.
LoopContinues ==
    /\ pc = "top" /\ ~stopping
    /\ IF ExpiresWithin(jwt) /\ enrollable
       THEN pc' = "register" /\ after' = "connect"
       ELSE pc' = "connect" /\ UNCHANGED after
    /\ UNCHANGED <<credVars, revoked, shown, shutdownVars, waiterVars, lifeVars>>

\* What the control plane answers a presented token with.
Refusable(t) == age[t] = "expired" \/ t \in revoked

\* The Channel is established and the select has created its `notified()`.
SessionOpens ==
    /\ pc = "connect" /\ ~Refusable(jwt)
    /\ pc' = "up"
    /\ shown' = jwt
    /\ wake' = FALSE
    /\ extra' = IF stopping THEN extra + 1 ELSE 0
    /\ UNCHANGED <<after, credVars, revoked, stopping, trigger, finished,
                   waiterVars, lifeVars>>

\* A transport error, a quarantine, or the slot held by another Channel: the
\* loop sleeps and tries again.
SessionErrs ==
    /\ pc \in {"connect", "up"}
    /\ pc' = "sleep"
    /\ shown' = 0
    /\ UNCHANGED <<after, credVars, revoked, shutdownVars, waiterVars, lifeVars>>

\* The token this attempt or this session stands on.  A rotation replaces the
\* token of the client, not the one its Channel was opened with.
Presented == IF pc = "up" THEN shown ELSE jwt

\* is_credential_rejection, when the Channel opens or later on its stream
SessionRejected ==
    /\ pc \in {"connect", "up"} /\ Refusable(Presented)
    /\ refused' = refused \union {Presented}
    /\ pc' = "rejected"
    /\ shown' = 0
    /\ UNCHANGED <<after, jwt, disk, issued, age, discarded, revoked,
                   shutdownVars, waiterVars, lifeVars>>

\* CredentialRotation: the token in memory, then the one on disk.  The file is
\* rewritten from what it holds, through a rename, or stays as it is.
Rotate ==
    /\ pc = "up"
    /\ Issue
    /\ disk' \in IF disk = 0 THEN {0} ELSE {NextToken, disk}
    /\ UNCHANGED <<pc, after, refused, discarded, revoked, shown, shutdownVars,
                   waiterVars, lifeVars>>

\* The stream ends cleanly, or the notified select returns: the loop goes on
\* at once.
SessionEnds ==
    /\ pc = "up"
    /\ pc' = "top"
    /\ shown' = 0
    /\ UNCHANGED <<after, credVars, revoked, shutdownVars, waiterVars, lifeVars>>

SessionStopped == wake /\ SessionEnds

\* Mutant: the retry after a backoff skips the checks at the top of the loop.
SleepOverReconnects ==
    /\ pc = "sleep"
    /\ pc' = "connect"
    /\ UNCHANGED <<after, credVars, revoked, shown, shutdownVars, waiterVars, lifeVars>>

SleepOver ==
    /\ pc = "sleep"
    /\ pc' = "top"
    /\ UNCHANGED <<after, credVars, revoked, shown, shutdownVars, waiterVars, lifeVars>>

\* Mutant: the rejected creds are removed before it is known what replaces them.
RejectedAlwaysDiscarded ==
    /\ pc = "rejected" /\ ~enrollable
    /\ disk' = 0
    /\ pc' = "sleep"
    /\ UNCHANGED <<after, jwt, issued, age, refused, discarded, revoked, shown,
                   shutdownVars, waiterVars, lifeVars>>

\* Without an enrolment token nothing can replace the rejected creds.
RejectedKept ==
    /\ pc = "rejected" /\ ~enrollable
    /\ pc' = "sleep"
    /\ UNCHANGED <<after, credVars, revoked, shown, shutdownVars, waiterVars, lifeVars>>

\* discard_stored_creds; a removal that fails leaves the file.
RejectedDiscarded ==
    /\ pc = "rejected" /\ enrollable
    /\ \/ disk' = 0 /\ discarded' = discarded \union ({disk} \intersect refused)
       \/ UNCHANGED <<disk, discarded>>
    /\ pc' = "discarded"
    /\ UNCHANGED <<after, jwt, issued, age, refused, revoked, shown, shutdownVars,
                   waiterVars, lifeVars>>

\* Mutant: the loop goes on with the token that was rejected.
ReEnrolSkipped ==
    /\ pc = "discarded"
    /\ pc' = "top"
    /\ UNCHANGED <<after, credVars, revoked, shown, shutdownVars, waiterVars, lifeVars>>

\* The backoff after a rejection ends in a fresh Register.
ReEnrols ==
    /\ pc = "discarded"
    /\ pc' = "register"
    /\ after' = "top"
    /\ UNCHANGED <<credVars, revoked, shown, shutdownVars, waiterVars, lifeVars>>

----------------------------------------------------------------------------
\* The hosts.

\* AgentShutdown::trigger: the flag, then the notification, which reaches the
\* session's select only if that has created its Notified.
TriggerStore ==
    /\ ~trigger
    /\ stopping' = TRUE
    /\ trigger' = TRUE
    /\ UNCHANGED <<pc, after, credVars, revoked, shown, wake, finished, extra, waiterVars, lifeVars>>

TriggerNotify ==
    /\ trigger
    /\ trigger' = FALSE
    /\ wake' = (wake \/ pc = "up")
    /\ UNCHANGED <<pc, after, credVars, revoked, shown, stopping, finished, extra,
                   waiterVars, lifeVars>>

\* AgentShutdown::finished, in its four steps.
WaiterMoves(w, from, to) ==
    /\ waiter[w] = from
    /\ waiter' = [waiter EXCEPT ![w] = to]
    /\ UNCHANGED <<pc, after, credVars, revoked, shown, shutdownVars, notified, lifeVars>>

WaiterLoads(w) ==
    WaiterMoves(w, "idle", IF finished THEN "done" ELSE "loaded")

\* Mutant: no second look at `finished` once registered.
WaiterNeverRechecks(w) == WaiterMoves(w, "loaded", "waiting")

WaiterRegisters(w) == WaiterMoves(w, "loaded", "registered")

WaiterRechecks(w) ==
    WaiterMoves(w, "registered", IF finished THEN "done" ELSE "waiting")

WaiterWakes(w) == notified[w] /\ WaiterMoves(w, "waiting", "done")

----------------------------------------------------------------------------
\* Time, the control plane and the machine.

\* The refresh window is longer than a connect takes, so a token checked at the
\* top of the loop does not expire before it is presented.
Age(t) ==
    /\ t # MaxTokens
    /\ \/ age[t] = "fresh" /\ age' = [age EXCEPT ![t] = "due"]
       \/ /\ age[t] = "due" /\ ~(pc = "connect" /\ jwt = t)
          /\ age' = [age EXCEPT ![t] = "expired"]
    /\ UNCHANGED <<pc, after, jwt, disk, issued, refused, discarded, revoked, shown,
                   shutdownVars, waiterVars, lifeVars>>

Revoke(t) ==
    /\ t # MaxTokens
    /\ revoked' = revoked \union {t}
    /\ UNCHANGED <<pc, after, credVars, shown, shutdownVars, waiterVars, lifeVars>>

\* The process dies and comes back, perhaps with another configuration; a
\* Register may die within its write.
Restart ==
    /\ restarts < MaxRestarts
    /\ restarts' = restarts + 1
    /\ enrollable' \in BOOLEAN
    /\ pc' = "boot" /\ after' = "top"
    /\ jwt' = 0 /\ shown' = 0
    /\ disk' \in IF pc = "register" THEN {disk, 0} ELSE {disk}
    /\ refused' = {}
    /\ stopping' = FALSE /\ trigger' = FALSE /\ wake' = FALSE /\ finished' = FALSE
    /\ waiter' = [w \in Waiters |-> "idle"]
    /\ notified' = [w \in Waiters |-> FALSE]
    /\ extra' = 0
    /\ UNCHANGED <<issued, age, discarded, revoked>>

----------------------------------------------------------------------------

Agent == Boot \/ Register \/ LoopStops \/ NotifyDone \/ LoopContinues
           \/ SessionStopped \/ SleepOver \/ RejectedKept
           \/ RejectedDiscarded \/ ReEnrols

Waiting(w) == WaiterLoads(w) \/ WaiterRegisters(w) \/ WaiterRechecks(w) \/ WaiterWakes(w)

Next ==
    \/ Agent
    \/ SessionOpens \/ SessionErrs \/ SessionRejected \/ Rotate \/ SessionEnds
    \/ TriggerStore \/ TriggerNotify
    \/ \E w \in Waiters : Waiting(w)
    \/ \E t \in 1 .. issued : Age(t) \/ Revoke(t)
    \/ Restart

Spec == Init /\ [][Next]_lifecycleVars

\* The answer of the control plane to a Channel that opens.
Answered == SessionOpens \/ (pc = "connect" /\ SessionRejected)

\* The runtime polls the agent's task and the waiters, a started trigger()
\* completes, a connect ends and, as retry_with_backoff hopes, a Register is
\* answered.  A session may stay up for ever.
FairSpec ==
    /\ Spec
    /\ WF_lifecycleVars(Agent)
    /\ WF_lifecycleVars(Answered)
    /\ WF_lifecycleVars(TriggerNotify)
    /\ \A w \in Waiters :
           WF_lifecycleVars(WaiterRegisters(w) \/ WaiterRechecks(w) \/ WaiterWakes(w))

----------------------------------------------------------------------------

\* A token this process was told is not accepted, or that was removed from the
\* disk for that, is not presented again, restarts included, as long as there
\* is an enrolment token ("Remove the persisted creds so a restart re-enrols
\* instead of presenting a token the CP has already refused").
RefusedNeverPresented ==
    enrollable /\ pc = "connect" => jwt \notin refused \union discarded

\* "an agent that missed its rotation pushes never presents" an expired token:
\* whatever way leads back to a connect passes the check first.
ExpiredNeverPresented ==
    enrollable /\ pc = "connect" => age[jwt] # "expired"

\* The creds on disk are lost only while something can replace them: "without
\* an enrollment token they stay on disk".
CredsKeptUntilReplaceable ==
    [][~enrollable /\ disk # 0 => disk' # 0]_lifecycleVars

\* After a trigger at most the session already being opened is opened, however
\* the loop gets back to its top.
NoSecondSessionAfterTrigger == stopping => extra <= 1

\* No waiter of `finished()` sleeps through the end: once the agent has
\* returned, whoever still waits has been woken ("Register before re-checking").
NoMissedFinish ==
    pc = "returned" => \A w \in Waiters : waiter[w] = "waiting" => notified[w]

\* With an enrolment token and a control plane that answers some of the
\* connects, the agent is up again and again, or stops as asked, whatever
\* expires or is revoked.
KeepsReconnecting ==
    /\ <>[]enrollable
    /\ []<>(pc = "connect") => []<>(pc \in {"up", "rejected"})
    => []<>(pc \in {"up", "returned"})

\* A shutdown asked for takes effect, once a Register under way is answered,
\* unless its notification fell between the check at the top of the loop and the
\* session's select.
StopsUnlessMissed ==
    stopping ~> \/ pc \in {"returned", "failed", "boot"}
                \/ pc = "up" /\ ~wake /\ ~trigger

\* Whoever awaits `finished()` of an agent that stopped is told.
FinishedResolves ==
    \A w \in Waiters :
        waiter[w] # "idle" /\ finished ~> waiter[w] \in {"done", "idle"}

\* AgentShutdown::trigger "Signal the agent to finish its current session and
\* stop" (agent.rs:145).
TriggerStops == stopping ~> pc \in {"returned", "failed", "boot"}

=============================================================================
