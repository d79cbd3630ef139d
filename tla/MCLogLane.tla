----------------------------- MODULE MCLogLane -----------------------------
(***************************************************************************)
(* Model-checking instances of LogLane.  Two sessions let an aborted flush *)
(* loop overlap its successor; a ring of two lines and batches of one make *)
(* a tick leave lines behind and an emitter overrun the ring.              *)
(***************************************************************************)
EXTENDS LogLane

============================================================================
