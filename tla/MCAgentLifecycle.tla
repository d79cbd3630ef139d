------------------------- MODULE MCAgentLifecycle -------------------------
(***************************************************************************)
(* Model-checking instance of AgentLifecycle.                              *)
(***************************************************************************)
EXTENDS AgentLifecycle

CONSTANT w1

OneWaiter == {w1}

===========================================================================
