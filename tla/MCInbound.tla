----------------------------- MODULE MCInbound -----------------------------
(***************************************************************************)
(* Model-checking instances of Inbound.  Whole updates name their hash and *)
(* carry a bundle; two pushes and one restart let a refused or interrupted *)
(* update follow one that was applied; one slot in the outbound queue makes*)
(* the ack wait behind a report or a heartbeat.                            *)
(***************************************************************************)
EXTENDS Inbound

OnlyWhole == {Whole}

AllShapes == [named : BOOLEAN, bundle : BOOLEAN]

AllHooks == {"config", "licence", "status"}

============================================================================
