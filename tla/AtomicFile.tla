----------------------------- MODULE AtomicFile -----------------------------
(***************************************************************************)
(* What the last-known-good cache promises its callers (lkg.rs, save and   *)
(* load_bundle): a reader finds the value of the last save that took       *)
(* effect, or nothing before the first; there is no state in between.      *)
(***************************************************************************)
CONSTANTS Values, None

VARIABLE value

Init == value = None

Save(v) == value' = v

Next == \E v \in Values : Save(v)

Spec == Init /\ [][Next]_value

============================================================================
