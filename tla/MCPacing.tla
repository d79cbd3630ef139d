------------------------------ MODULE MCPacing ------------------------------
(***************************************************************************)
(* Model-checking instance of Reconnect.  One unit is a quarter of a short *)
(* backoff; the delays reach their maximum and the counter its end.        *)
(***************************************************************************)
EXTENDS Reconnect

MCSpans == {1, 7}

=============================================================================
