------------------------------ MODULE LkgCache ------------------------------
(***************************************************************************)
(* The last-known-good cache on disk (lkg.rs): the sealed file, the node   *)
(* secret its key is derived from, and the write through a temporary file. *)
(* A write makes a file that is not whole before it makes a whole one, and *)
(* a process may die, or a call fail, between any two steps.               *)
(*                                                                         *)
(* A key is what it is derived from: 0 is the machine id, n the n-th secret*)
(* drawn for <state_dir>/.node-secret.  A sealed file opens when it is     *)
(* whole and the key derived now is the one it was sealed with; nonces and *)
(* the version byte add nothing to that.                                   *)
(***************************************************************************)
EXTENDS Naturals

CONSTANTS Bundles,      \* what is saved: a hash with its bundle
          NoBundle,     \* what a reader gets when there is nothing to read
          MaxSecrets    \* bound on the secrets drawn

ASSUME CacheAssumption == NoBundle \notin Bundles /\ MaxSecrets \in Nat

VARIABLES machineId,   \* /etc/machine-id is there
          secret,      \* .node-secret: its key, 0 for no file, and wholeness
          file,        \* lkg-config.bin
          tmp,         \* lkg-config.bin.tmp
          pc,          \* where the call in progress is
          saving,      \* what it saves, NoBundle for a load
          key          \* the key it has derived

vars == <<machineId, secret, file, tmp, pc, saving, key>>

\* A sealed file is a bundle, the key it was sealed with and its wholeness.
NoFile == [bundle |-> NoBundle, key |-> 0, whole |-> FALSE]

Init ==
    /\ machineId \in BOOLEAN
    /\ secret = [key |-> 0, whole |-> FALSE]
    /\ file = NoFile /\ tmp = NoFile
    /\ pc = "idle" /\ saving = NoBundle /\ key = 0

----------------------------------------------------------------------------

Save(b) ==
    /\ pc = "idle"
    /\ pc' = "derive" /\ saving' = b
    /\ UNCHANGED <<machineId, secret, file, tmp, key>>

\* load of a file that exists; decrypt derives the key too, and may thereby
\* write a secret.
Load ==
    /\ pc = "idle" /\ file # NoFile
    /\ pc' = "derive" /\ saving' = NoBundle
    /\ UNCHANGED <<machineId, secret, file, tmp, key>>

\* With the key in hand a save seals the bundle; a load has what it needs.
HaveKey(k) ==
    /\ key' = k
    /\ pc' = IF saving = NoBundle THEN "idle" ELSE "seal"

\* Mutant: a secret that is there is not read back.
SecretUsableNever == FALSE

\* A secret file of the expected length.
SecretUsable == secret.whole

\* node_secret: the machine id, else the secret on disk, else a new secret,
\* whose file exists before its bytes do.
DeriveKey ==
    /\ pc = "derive"
    /\ \/ machineId /\ HaveKey(0) /\ UNCHANGED secret
       \/ ~machineId /\ SecretUsable /\ HaveKey(secret.key) /\ UNCHANGED secret
       \/ /\ ~machineId /\ ~SecretUsable /\ secret.key < MaxSecrets
          /\ secret' = [key |-> secret.key + 1, whole |-> FALSE]
          /\ pc' = "secret" /\ UNCHANGED key
    /\ UNCHANGED <<machineId, file, tmp, saving>>

SecretWritten ==
    /\ pc = "secret"
    /\ secret' = [secret EXCEPT !.whole = TRUE]
    /\ HaveKey(secret.key)
    /\ UNCHANGED <<machineId, file, tmp, saving>>

CreateTmp ==
    /\ pc = "seal"
    /\ tmp' = [bundle |-> saving, key |-> key, whole |-> FALSE]
    /\ pc' = "write"
    /\ UNCHANGED <<machineId, secret, file, saving, key>>

WriteTmp ==
    /\ pc = "write"
    /\ tmp' = [bundle |-> saving, key |-> key, whole |-> TRUE]
    /\ pc' = "rename"
    /\ UNCHANGED <<machineId, secret, file, saving, key>>

Rename ==
    /\ pc = "rename"
    /\ file' = tmp /\ tmp' = NoFile
    /\ pc' = "idle"
    /\ UNCHANGED <<machineId, secret, saving, key>>

\* A call fails or the process dies: what is on disk stays as it is.
Interrupted ==
    /\ pc # "idle"
    /\ pc' = "idle"
    /\ UNCHANGED <<machineId, secret, file, tmp, saving, key>>

Next ==
    \/ \E b \in Bundles : Save(b)
    \/ Load \/ DeriveKey \/ SecretWritten \/ CreateTmp \/ WriteTmp \/ Rename
    \/ Interrupted

Spec == Init /\ [][Next]_vars

----------------------------------------------------------------------------

\* decrypt, with the key that would be derived now.
Opens(f) ==
    /\ f.whole
    /\ IF machineId THEN f.key = 0 ELSE secret.whole /\ f.key = secret.key

Readable == IF Opens(file) THEN file.bundle ELSE NoBundle

Atomic == INSTANCE AtomicFile WITH Values <- Bundles, None <- NoBundle, value <- Readable

\* Whatever interrupts a save or a load, a reader finds the last bundle whose
\* save took effect: no half-written file shows, and the secret that sealed the
\* file stays the one on disk (lkg.rs, save "Atomic write").
CacheIsAtomic == Atomic!Spec

============================================================================
