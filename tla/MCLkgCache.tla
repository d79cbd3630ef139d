----------------------------- MODULE MCLkgCache -----------------------------
(***************************************************************************)
(* Model-checking instances of LkgCache: two bundles, so that a save can   *)
(* replace another, and enough secrets for two torn writes of the secret.  *)
(***************************************************************************)
EXTENDS LkgCache

============================================================================
