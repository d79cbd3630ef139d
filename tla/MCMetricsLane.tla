--------------------------- MODULE MCMetricsLane ---------------------------
(***************************************************************************)
(* Model-checking instances of MetricsLane.  Two sessions are enough for an*)
(* aborted task to overlap its successor; one slot in the outbound queue   *)
(* makes a send wait; batches of one row make a full ring several batches. *)
(***************************************************************************)
EXTENDS MetricsLane

BothOutcomes == {"Ok", "PolicyDenied"}

OnlyBillable == {"Ok"}

============================================================================
