----------------------------- MODULE Reconnect -----------------------------
(***************************************************************************)
(* The pace of the run loop (agent.rs, run_loop, register_fresh,           *)
(* slot_retry_in, expires_within; backoff.rs): how long it sleeps after    *)
(* each way a session can fail, and what the time that passes does to the  *)
(* token and to the slot the instance's other Channels may hold.           *)
(*                                                                         *)
(* Time passes only in the steps that sleep, connect, hold a session or    *)
(* wait for an answer.  `left` and `hold` count down what is left of the   *)
(* token and of the slot's lease.  Shutdown is in AgentLifecycle.          *)
(***************************************************************************)
EXTENDS Naturals

CONSTANTS HasEnrollment,            \* enrollment_url carries a token
          Initial, Maximum,         \* backoff_initial, backoff_max; quarters divide them
          ExpCap,                   \* the shift's cap, 20 in the code
          MaxAttempt,               \* where the attempt counter saturates
          SlotMax, Margin,          \* MAX_SLOT_RETRY, SLOT_RETRY_MARGIN
          Lease,                    \* how long a silent Channel keeps the slot
          Life,                     \* validity of an issued token
          MinWindow, Heartbeat,     \* MIN_TOKEN_REFRESH_WINDOW, heartbeat_interval
          ConnectMax,               \* the longest a connect or a call takes
          Spans                     \* lengths of time a session is looked at for

MaxOf(a, b) == IF a > b THEN a ELSE b
MinOf(a, b) == IF a < b THEN a ELSE b

\* token_refresh_window
Window == MaxOf(MinWindow, 3 * Heartbeat)

\* 1u32 << e
Shifted[e \in 0 .. ExpCap] == IF e = 0 THEN 1 ELSE 2 * Shifted[e - 1]

ASSUME ReconnectAssumption ==
    /\ HasEnrollment \in BOOLEAN
    /\ {Initial, Maximum, ExpCap, MaxAttempt, SlotMax, Margin, Lease, Life, MinWindow,
        Heartbeat, ConnectMax} \subseteq Nat
    /\ Spans \subseteq Nat
    /\ Initial % 4 = 0 /\ Maximum % 4 = 0
    /\ ExpCap < MaxAttempt                    \* 20 and u32::MAX
    /\ Initial * Shifted[ExpCap] >= Maximum   \* 1 s and 60 s as shipped
    /\ Margin > 0 /\ Lease <= SlotMax         \* "the longest a control plane lets a
                                              \* silent Channel hold it"
    /\ 2 * ConnectMax < Life /\ ConnectMax < Window

VARIABLES pc,       \* where the run loop is
          cause,    \* what the last sleep was for
          back,     \* where register_fresh returns to
          attempt,  \* Backoff.attempt of the run loop
          tries,    \* Backoff.attempt of retry_with_backoff
          delay,    \* the sleep asked for
          left,     \* validity left of the token
          hold,     \* lease left to the Channel that holds the slot
          waited,   \* the last refusal was for the slot, and its holder is silent
          fails,    \* failed sessions since the last that ended cleanly
          since     \* time since the last of them, up to Maximum

vars == <<pc, cause, back, attempt, tries, delay, left, hold, waited, fails, since>>

Minus(a, b) == IF a > b THEN a - b ELSE 0

\* The loop starts with a token from disk or from a Register.
Init ==
    /\ pc = "top" /\ cause = "error" /\ back = "top" /\ attempt = 0 /\ tries = 0 /\ delay = 0
    /\ left \in {0, Life} /\ hold \in {0, Lease} /\ waited = FALSE
    /\ fails = 0 /\ since = 0

Passes(d) ==
    /\ left' = Minus(left, d)
    /\ hold' = Minus(hold, d)
    /\ since' = MinOf(since + d, Maximum)

----------------------------------------------------------------------------

\* Backoff::next_delay before jitter
Bounded(n) == MinOf(Initial * Shifted[MinOf(n, ExpCap)], Maximum)

\* Mutant: full jitter, down to no delay.
NextDelayFullJitter(n) == 0 .. (5 * Bounded(n)) \div 4

\* The jitter factor, 0.75 to 1.25.
NextDelay(n) == (3 * Bounded(n)) \div 4 .. (5 * Bounded(n)) \div 4

\* attempt.saturating_add(1)
Bumped(n) == MinOf(n + 1, MaxAttempt)

\* Mutant: a token is replaced only once it has expired.
ExpiresWithinLate == left = 0

ExpiresWithin == left <= Window

\* The check before every connect.
Top ==
    /\ pc = "top"
    /\ IF ExpiresWithin /\ HasEnrollment
       THEN pc' = "enrol" /\ back' = "open" /\ tries' = 0
       ELSE pc' = "open" /\ UNCHANGED <<back, tries>>
    /\ UNCHANGED <<cause, attempt, delay, left, hold, waited, fails, since>>

\* The Channel is asked for with the token, once there is a connection.
Open ==
    /\ pc = "open"
    /\ \E d \in {0, ConnectMax} : Passes(d)
    /\ pc' = "asked"
    /\ UNCHANGED <<cause, back, attempt, tries, delay, waited, fails>>

Accepted ==
    /\ pc = "asked" /\ hold = 0 /\ left > 0
    /\ pc' = "up" /\ waited' = FALSE
    /\ UNCHANGED <<cause, back, attempt, tries, delay, left, hold, fails, since>>

\* Mutant: no margin past the time the control plane names.
SlotRetryInBare(named) == MinOf(named, SlotMax)

\* slot_retry_in, when the refusal names a time
SlotRetryIn(named) == MinOf(named + Margin, SlotMax)

\* AlreadyExists.  The time named is what is left of the lease, rounded down to
\* whole milliseconds, or missing; the cached channel and the backoff stay.
SlotHeld ==
    /\ pc = "asked" /\ hold > 0 /\ left > 0
    /\ delay' \in {SlotRetryIn(hold), SlotRetryIn(hold - 1), SlotMax}
    /\ pc' = "sleep" /\ cause' = "slot" /\ waited' = TRUE
    /\ UNCHANGED <<back, attempt, tries, left, hold, fails, since>>

\* A failure the backoff answers.  The slot of a session that broke stays held
\* until the control plane notices.
Fails(how) ==
    /\ delay' \in NextDelay(attempt)
    /\ attempt' = Bumped(attempt)
    /\ fails' = Bumped(fails) /\ since' = 0 /\ waited' = FALSE
    /\ pc' = "sleep" /\ cause' = how /\ back' = "top" /\ tries' = 0
    /\ hold' \in IF pc = "up" THEN {0, Lease} ELSE {hold}
    /\ UNCHANGED left

SessionErrs == pc \in {"open", "asked", "up"} /\ Fails("error")

SessionRejected ==
    /\ pc \in {"asked", "up"}
    /\ Fails(IF HasEnrollment THEN "rejected" ELSE "error")

\* Mutant: the clean end of a session leaves the backoff where it was.
ResetForgotten == attempt

\* backoff.reset()
Reset == 0

\* The loop goes on at once.
SessionEnds ==
    /\ pc = "up"
    /\ pc' = "top" /\ attempt' = Reset /\ fails' = 0
    /\ UNCHANGED <<cause, back, tries, delay, left, hold, waited, since>>

SessionStays ==
    /\ pc = "up"
    /\ \E d \in Spans : Passes(d)
    /\ UNCHANGED <<pc, cause, back, attempt, tries, delay, waited, fails>>

\* CredentialRotation
Rotated ==
    /\ pc = "up"
    /\ left' = Life
    /\ UNCHANGED <<pc, cause, back, attempt, tries, delay, hold, waited, fails, since>>

Wake ==
    /\ pc = "sleep"
    /\ Passes(delay)
    /\ pc' = IF cause \in {"rejected", "register"} THEN "enrol" ELSE "top"
    /\ UNCHANGED <<cause, back, attempt, tries, delay, waited, fails>>

\* register_fresh.  After a rejection it returns to the top of the loop, before
\* a connect to the connect.
Registered ==
    /\ pc = "enrol"
    /\ \E d \in {0, ConnectMax} :
           /\ left' = Life - d
           /\ hold' = Minus(hold, d) /\ since' = MinOf(since + d, Maximum)
    /\ pc' = back
    /\ UNCHANGED <<cause, back, attempt, tries, delay, waited, fails>>

\* retry_with_backoff, on a Backoff of its own
RegisterFails ==
    /\ pc = "enrol"
    /\ delay' \in NextDelay(tries)
    /\ tries' = Bumped(tries)
    /\ pc' = "sleep" /\ cause' = "register"
    /\ UNCHANGED <<back, attempt, left, hold, waited, fails, since>>

\* Another Channel of the instance opens or speaks.
HolderSpeaks ==
    /\ pc # "up"
    /\ hold' = Lease /\ waited' = FALSE
    /\ UNCHANGED <<pc, cause, back, attempt, tries, delay, left, fails, since>>

----------------------------------------------------------------------------

Next ==
    \/ Top \/ Open \/ Accepted \/ SlotHeld \/ SessionErrs \/ SessionRejected
    \/ SessionEnds \/ SessionStays \/ Rotated \/ Wake \/ Registered \/ RegisterFails
    \/ HolderSpeaks

Spec == Init /\ [][Next]_vars

----------------------------------------------------------------------------

\* The delay sequence as one would say it: doubling from Initial up to Maximum.
Doubling[n \in 0 .. MaxAttempt] ==
    IF n = 0 THEN MinOf(Initial, Maximum) ELSE MinOf(2 * Doubling[n - 1], Maximum)

\* "an agent that missed its rotation pushes never presents" an expired token,
\* by the clock: the check leaves enough for the connect that follows, however
\* long the sleeps, the Registers and the refusals before it took.
PresentsLiveToken == HasEnrollment /\ pc = "asked" => left > 0

\* "the retry lands after the slot frees": a Channel refused for the slot is not
\* refused for it again unless its holder has spoken in between, or a failure
\* of its own came in between.
SlotRetryLands == pc = "asked" /\ waited => hold = 0

\* A control plane that fails the n-th session in a row is not asked again
\* before three quarters of the n-th delay, whichever way the sessions fail and
\* whatever slot refusals and Registers come in between.
BackoffSpaces == pc = "asked" /\ fails > 0 => 4 * since >= 3 * Doubling[fails - 1]

\* No sleep is longer than five quarters of the delay its failures have earned,
\* or than the longest wait for the slot: a session that ended cleanly, and a
\* Register that succeeded, are not paid for later.
SleepsBounded ==
    pc = "sleep" =>
        \/ cause = "slot" /\ delay <= SlotMax
        \/ cause = "register" /\ 4 * delay <= 5 * Doubling[tries - 1]
        \/ cause \in {"error", "rejected"} /\ 4 * delay <= 5 * Doubling[fails - 1]

============================================================================
