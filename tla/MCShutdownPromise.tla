-------------------------- MODULE MCShutdownPromise --------------------------
(***************************************************************************)
(* What the shutdown handle's documentation promises about the calls       *)
(* recorded before `trigger`, stated over MetricsLane with one history     *)
(* variable: how many calls had been recorded when a shutdown was asked    *)
(* for.                                                                    *)
(***************************************************************************)
EXTENDS MCMetricsLane

VARIABLE owed       \* calls recorded before the first trigger

PromiseInit == LaneInit /\ owed = 0

PromiseNext ==
    /\ LaneNext
    /\ owed' = IF stopping' /\ ~stopping THEN calls ELSE owed

PromiseSpec == PromiseInit /\ [][PromiseNext]_<<laneVars, owed>>

\* The calls of a sequence of rows that were recorded before the trigger.
OwedIn(s) == Custody!Ids(s) \intersect (1 .. owed)

\* AgentShutdown::finished "Resolves once the agent has shipped what it had
\* buffered and stopped" (agent.rs:152): no call recorded before the trigger is
\* still buffered then.
FinishedMeansShipped == finished => OwedIn(samples) = {}

=============================================================================
