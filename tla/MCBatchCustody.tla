--------------------------- MODULE MCBatchCustody ---------------------------
(***************************************************************************)
(* Model-checking instance of BatchCustody: a ring of two rows, batches of *)
(* one or two, one billable and one non-billable outcome.                  *)
(***************************************************************************)
EXTENDS BatchCustody

CONSTANT MaxSeq     \* bound on the batches drained

SeqBound == seq <= MaxSeq

MCOutcomes == {"Ok", "PolicyDenied"}

============================================================================
