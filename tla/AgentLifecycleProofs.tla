------------------------ MODULE AgentLifecycleProofs ------------------------
(***************************************************************************)
(* Proofs about AgentLifecycle, for any set of waiters and any bounds.     *)
(***************************************************************************)
EXTENDS AgentLifecycle, TLAPS

\* The flag AgentShutdown.finished is raised exactly at the end, and nobody
\* waits unwoken once the notification has gone out.
FinishInv ==
    /\ finished <=> pc \in {"finishing", "returned"}
    /\ NoMissedFinish

\* On its way to a connect the loop has opened no session since the trigger.
ExtraInv ==
    /\ extra \in {0, 1}
    /\ ~stopping => extra = 0
    /\ pc = "connect" => extra = 0
    /\ pc = "register" /\ after = "connect" => extra = 0

\* Tokens come in order, and the file is never ahead of the memory.
OrderInv ==
    /\ jwt <= issued
    /\ disk <= issued
    /\ shown <= issued
    /\ pc = "up" => shown # 0
    /\ pc # "boot" => disk <= jwt
    /\ pc \in {"top", "connect", "up", "rejected", "discarded", "sleep"} => jwt # 0

\* The last token of the bounded model stays good.
LastInv ==
    /\ age[MaxTokens] = "fresh"
    /\ MaxTokens \notin revoked \union refused \union discarded

\* A refused token leaves the memory, and a discarded one the disk, before the
\* next connect.
RefusedInv ==
    /\ \A t \in refused \union discarded : t <= issued
    /\ disk \notin discarded
    /\ pc = "boot" => refused = {}
    /\ enrollable /\ pc \in {"top", "connect", "up", "sleep"}
           => jwt \notin refused \union discarded

\* Without an enrolment token nothing registers.
EnrollInv == ~enrollable => pc \notin {"register", "discarded"}

LifecycleInv ==
    /\ TypeOK
    /\ FinishInv
    /\ ExtraInv
    /\ OrderInv
    /\ LastInv
    /\ RefusedInv
    /\ EnrollInv
    /\ ExpiredNeverPresented

\* The agent starts in the invariant.
THEOREM InitEstablishes == Init => LifecycleInv
<1> SUFFICES ASSUME Init PROVE LifecycleInv
  OBVIOUS
<1> USE LifecycleAssumption DEF Init, Tokens, PC
<1>1. TypeOK
  <2>1. CredsTypeOK
    BY DEF CredsTypeOK
  <2>2. WaiterTypeOK
    BY DEF WaiterTypeOK
  <2>3. extra \in Nat /\ restarts \in 0 .. MaxRestarts
    OBVIOUS
  <2>4. pc \in PC /\ {stopping, trigger, wake, finished, enrollable} \subseteq BOOLEAN
    OBVIOUS
  <2> QED
    BY <2>1, <2>2, <2>3, <2>4 DEF TypeOK
<1>2. FinishInv
  BY DEF FinishInv, NoMissedFinish
<1>3. ExtraInv
  BY DEF ExtraInv
<1>4. OrderInv
  BY DEF OrderInv
<1>5. LastInv
  BY DEF LastInv
<1>6. RefusedInv
  BY DEF RefusedInv
<1>7. EnrollInv
  BY DEF EnrollInv
<1>8. ExpiredNeverPresented
  BY DEF ExpiredNeverPresented
<1> QED
  BY <1>1, <1>2, <1>3, <1>4, <1>5, <1>6, <1>7, <1>8 DEF LifecycleInv

\* Every step of the agent, the hosts, the control plane and the machine keeps
\* the invariant.
THEOREM StepPreserves == LifecycleInv /\ [Next]_lifecycleVars => LifecycleInv'
<1> SUFFICES ASSUME LifecycleInv, [Next]_lifecycleVars
             PROVE  LifecycleInv'
  OBVIOUS
<1> USE LifecycleAssumption
    DEF LifecycleInv, TypeOK, CredsTypeOK, WaiterTypeOK, FinishInv, ExtraInv,
        OrderInv, LastInv, RefusedInv, EnrollInv, ExpiredNeverPresented, NoMissedFinish, Tokens, PC,
        credVars, shutdownVars, waiterVars, lifeVars
<1>1. CASE Boot
  BY <1>1 DEF Boot
<1>2. CASE Register
  BY <1>2 DEF Register, Issue, NextToken
<1>3. CASE LoopStops
  BY <1>3 DEF LoopStops
<1>4. CASE NotifyDone
  BY <1>4 DEF NotifyDone
<1>5. CASE LoopContinues
  BY <1>5 DEF LoopContinues, ExpiresWithin
<1>6. CASE SessionOpens
  <2>1. TypeOK'
    <3>1. CredsTypeOK'
      BY <1>6 DEF SessionOpens, Refusable
    <3>2. WaiterTypeOK'
      BY <1>6 DEF SessionOpens, Refusable
    <3>3. extra' \in Nat /\ restarts' \in 0 .. MaxRestarts
      BY <1>6 DEF SessionOpens, Refusable
    <3>4. pc' \in PC /\ {stopping', trigger', wake', finished', enrollable'} \subseteq BOOLEAN
      BY <1>6 DEF SessionOpens, Refusable
    <3>5. after' \in {"top", "connect"}
      BY <1>6 DEF SessionOpens, Refusable
    <3> QED
      BY <3>1, <3>2, <3>3, <3>4, <3>5 DEF TypeOK
  <2>2. FinishInv'
    BY <1>6 DEF SessionOpens, Refusable
  <2>3. ExtraInv'
    BY <1>6 DEF SessionOpens, Refusable
  <2>4. OrderInv'
    BY <1>6 DEF SessionOpens, Refusable
  <2>5. LastInv'
    BY <1>6 DEF SessionOpens, Refusable
  <2>6. RefusedInv'
    BY <1>6 DEF SessionOpens, Refusable
  <2>7. EnrollInv'
    BY <1>6 DEF SessionOpens, Refusable
  <2>8. ExpiredNeverPresented'
    BY <1>6 DEF SessionOpens, Refusable
  <2> QED
    BY <2>1, <2>2, <2>3, <2>4, <2>5, <2>6, <2>7, <2>8
<1>7. CASE SessionErrs
  BY <1>7 DEF SessionErrs
<1>8. CASE SessionRejected
  BY <1>8 DEF SessionRejected, Presented, Refusable
<1>9. CASE Rotate
  BY <1>9 DEF Rotate, Issue, NextToken
<1>10. CASE SessionEnds
  BY <1>10 DEF SessionEnds
<1>11. CASE SleepOver
  BY <1>11 DEF SleepOver
<1>12. CASE RejectedKept
  BY <1>12 DEF RejectedKept
<1>13. CASE RejectedDiscarded
  <2>1. TypeOK'
    <3>1. CredsTypeOK'
      <4>1. {disk} \intersect refused \subseteq Tokens
        OBVIOUS
      <4>2. disk' \in 0 .. MaxTokens
        BY <1>13 DEF RejectedDiscarded
      <4>3. discarded' \in SUBSET Tokens
        BY <4>1, <1>13 DEF RejectedDiscarded
      <4> QED
        BY <4>2, <4>3, <1>13 DEF RejectedDiscarded
    <3>2. WaiterTypeOK'
      BY <1>13 DEF RejectedDiscarded
    <3> QED
      BY <3>1, <3>2, <1>13 DEF RejectedDiscarded
  <2>2. FinishInv'
    BY <1>13 DEF RejectedDiscarded
  <2>3. ExtraInv'
    BY <1>13 DEF RejectedDiscarded
  <2>4. OrderInv'
    BY <1>13 DEF RejectedDiscarded
  <2>5. LastInv'
    BY <1>13 DEF RejectedDiscarded
  <2>6. RefusedInv'
    BY <1>13 DEF RejectedDiscarded
  <2>7. EnrollInv'
    BY <1>13 DEF RejectedDiscarded
  <2>8. ExpiredNeverPresented'
    BY <1>13 DEF RejectedDiscarded
  <2> QED
    BY <2>1, <2>2, <2>3, <2>4, <2>5, <2>6, <2>7, <2>8
<1>14. CASE ReEnrols
  BY <1>14 DEF ReEnrols
<1>15. CASE TriggerStore
  BY <1>15 DEF TriggerStore
<1>16. CASE TriggerNotify
  BY <1>16, ZenonT(60) DEF TriggerNotify
<1>17. ASSUME NEW w \in Waiters, Waiting(w) PROVE LifecycleInv'
  <2>1. TypeOK'
    <3>1. CredsTypeOK'
      BY <1>17 DEF Waiting, WaiterLoads, WaiterRegisters, WaiterRechecks, WaiterWakes, WaiterMoves
    <3>2. WaiterTypeOK'
      BY <1>17 DEF Waiting, WaiterLoads, WaiterRegisters, WaiterRechecks, WaiterWakes, WaiterMoves
    <3> QED
      BY <3>1, <3>2, <1>17 DEF Waiting, WaiterLoads, WaiterRegisters, WaiterRechecks, WaiterWakes, WaiterMoves
  <2>2. FinishInv'
    BY <1>17 DEF Waiting, WaiterLoads, WaiterRegisters, WaiterRechecks, WaiterWakes, WaiterMoves
  <2>3. ExtraInv'
    BY <1>17 DEF Waiting, WaiterLoads, WaiterRegisters, WaiterRechecks, WaiterWakes, WaiterMoves
  <2>4. OrderInv'
    BY <1>17 DEF Waiting, WaiterLoads, WaiterRegisters, WaiterRechecks, WaiterWakes, WaiterMoves
  <2>5. LastInv'
    BY <1>17 DEF Waiting, WaiterLoads, WaiterRegisters, WaiterRechecks, WaiterWakes, WaiterMoves
  <2>6. RefusedInv'
    <3>1. UNCHANGED <<pc, jwt, disk, issued, refused, discarded, enrollable>>
      BY <1>17 DEF Waiting, WaiterLoads, WaiterRegisters, WaiterRechecks, WaiterWakes, WaiterMoves
    <3> QED
      BY <3>1
  <2>7. EnrollInv'
    BY <1>17 DEF Waiting, WaiterLoads, WaiterRegisters, WaiterRechecks, WaiterWakes, WaiterMoves
  <2>8. ExpiredNeverPresented'
    BY <1>17 DEF Waiting, WaiterLoads, WaiterRegisters, WaiterRechecks, WaiterWakes, WaiterMoves
  <2> QED
    BY <2>1, <2>2, <2>3, <2>4, <2>5, <2>6, <2>7, <2>8
<1>18. ASSUME NEW t \in 1 .. issued, Age(t) PROVE LifecycleInv'
  BY <1>18 DEF Age
<1>19. ASSUME NEW t \in 1 .. issued, Revoke(t) PROVE LifecycleInv'
  BY <1>19 DEF Revoke
<1>20. CASE Restart
  <2>1. TypeOK'
    <3>1. CredsTypeOK'
      BY <1>20 DEF Restart
    <3>2. WaiterTypeOK'
      BY <1>20 DEF Restart
    <3>3. extra' \in Nat /\ restarts' \in 0 .. MaxRestarts
      BY <1>20 DEF Restart
    <3>4. pc' \in PC /\ {stopping', trigger', wake', finished', enrollable'} \subseteq BOOLEAN
      BY <1>20 DEF Restart
    <3>5. after' \in {"top", "connect"}
      BY <1>20 DEF Restart
    <3> QED
      BY <3>1, <3>2, <3>3, <3>4, <3>5 DEF TypeOK
  <2>2. FinishInv'
    BY <1>20 DEF Restart
  <2>3. ExtraInv'
    BY <1>20 DEF Restart
  <2>4. OrderInv'
    BY <1>20 DEF Restart
  <2>5. LastInv'
    BY <1>20 DEF Restart
  <2>6. RefusedInv'
    <3>1. disk' \in {disk, 0} /\ discarded' = discarded /\ issued' = issued
      BY <1>20 DEF Restart
    <3>2. disk' \notin discarded'
      BY <3>1
    <3>3. pc' = "boot" /\ refused' = {}
      BY <1>20 DEF Restart
    <3> QED
      BY <3>1, <3>2, <3>3
  <2>7. EnrollInv'
    BY <1>20 DEF Restart
  <2>8. ExpiredNeverPresented'
    BY <1>20 DEF Restart
  <2> QED
    BY <2>1, <2>2, <2>3, <2>4, <2>5, <2>6, <2>7, <2>8
<1>21. CASE UNCHANGED lifecycleVars
  BY <1>21 DEF lifecycleVars
<1> QED
  BY <1>1, <1>2, <1>3, <1>4, <1>5, <1>6, <1>7, <1>8, <1>9, <1>10, <1>11, <1>12, <1>13, <1>14, <1>15, <1>16, <1>17, <1>18, <1>19, <1>20, <1>21 DEF Next, Agent, SessionStopped

\* The invariant holds throughout every life of the agent.
THEOREM InvariantHolds == Spec => []LifecycleInv
  BY InitEstablishes, StepPreserves, PTL DEF Spec

\* Every variable keeps its type.
THEOREM TypeCorrect == Spec => []TypeOK
<1>1. LifecycleInv => TypeOK
  BY DEF LifecycleInv
<1> QED
  BY <1>1, InvariantHolds, PTL

\* A refused or discarded token is never presented again, restarts included,
\* when there is an enrolment token (run_loop, discard_stored_creds).
THEOREM RefusedTokensStayAway == Spec => []RefusedNeverPresented
<1>1. LifecycleInv => RefusedNeverPresented
  BY DEF LifecycleInv, RefusedInv, RefusedNeverPresented
<1> QED
  BY <1>1, InvariantHolds, PTL

\* No expired token is presented while there is an enrolment token (run_loop,
\* expires_within).
THEOREM ExpiredTokensStayAway == Spec => []ExpiredNeverPresented
<1>1. LifecycleInv => ExpiredNeverPresented
  BY DEF LifecycleInv
<1> QED
  BY <1>1, InvariantHolds, PTL

\* A shutdown lets at most one more session open (run_loop, stopping).
THEOREM ShutdownOpensNoSecondSession == Spec => []NoSecondSessionAfterTrigger
<1>1. LifecycleInv => NoSecondSessionAfterTrigger
  BY DEF LifecycleInv, ExtraInv, NoSecondSessionAfterTrigger
<1> QED
  BY <1>1, InvariantHolds, PTL

\* No number of tasks awaiting finished(), however they interleave with the
\* end of the run loop, leaves one of them asleep (AgentShutdown::finished).
THEOREM FinishReachesEveryWaiter == Spec => []NoMissedFinish
<1>1. LifecycleInv => NoMissedFinish
  BY DEF LifecycleInv, FinishInv
<1> QED
  BY <1>1, InvariantHolds, PTL

\* Without an enrolment token no step loses the creds on disk (run_loop, the
\* rejection branch).
THEOREM CredsStayWithoutEnrollment == Spec => CredsKeptUntilReplaceable
<1>1. LifecycleInv /\ [Next]_lifecycleVars
          => [~enrollable /\ disk # 0 => disk' # 0]_lifecycleVars
  <2> SUFFICES ASSUME LifecycleInv, Next, ~enrollable, disk # 0
               PROVE  disk' # 0
    OBVIOUS
  <2>1. pc # "register"
    BY DEF LifecycleInv, EnrollInv
  <2>2. CASE Rotate
    <3>1. NextToken # 0
      BY LifecycleAssumption DEF NextToken, LifecycleInv, TypeOK, CredsTypeOK
    <3> QED
      BY <2>2, <3>1 DEF Rotate
  <2>3. CASE Restart
    BY <2>1, <2>3 DEF Restart
  <2>4. CASE Agent \/ SessionOpens \/ SessionErrs \/ SessionRejected \/ SessionEnds
    BY <2>1, <2>4
    DEF Agent, Boot, Register, LoopStops, NotifyDone, LoopContinues, SessionStopped,
        SleepOver, RejectedKept, RejectedDiscarded, ReEnrols, SessionOpens,
        SessionErrs, SessionRejected, SessionEnds, credVars
  <2>5. CASE TriggerStore \/ TriggerNotify \/ \E w \in Waiters : Waiting(w)
    BY <2>5
    DEF TriggerStore, TriggerNotify, Waiting, WaiterLoads, WaiterRegisters,
        WaiterRechecks, WaiterWakes, WaiterMoves, credVars
  <2>6. CASE \E t \in 1 .. issued : Age(t) \/ Revoke(t)
    BY <2>6 DEF Age, Revoke, credVars
  <2> QED
    BY <2>2, <2>3, <2>4, <2>5, <2>6 DEF Next
<1> QED
  BY <1>1, InvariantHolds, PTL DEF Spec, CredsKeptUntilReplaceable

=============================================================================
