--------------------------- MODULE LkgCacheProofs ---------------------------
(***************************************************************************)
(* That the last-known-good cache implements AtomicFile, for any bundles   *)
(* and any number of secrets drawn.                                        *)
(***************************************************************************)
EXTENDS LkgCache, TLAPS

Sealed == [bundle : Bundles \union {NoBundle}, key : Nat, whole : BOOLEAN]

CacheTypeOK ==
    /\ machineId \in BOOLEAN
    /\ secret \in [key : Nat, whole : BOOLEAN]
    /\ file \in Sealed /\ tmp \in Sealed
    /\ pc \in {"idle", "derive", "secret", "seal", "write", "rename"}
    /\ saving \in Bundles \union {NoBundle}
    /\ key \in Nat

\* The key that would be derived now is k.
Derivable(k) == IF machineId THEN k = 0 ELSE secret.whole /\ k = secret.key

\* A file that is whole opens, so the secret that sealed it is never replaced.
FileInv == file.whole => Derivable(file.key) /\ file.bundle \in Bundles

\* A save that has its key has the one a reader would derive, and what it has
\* written so far is the bundle it saves.
SaveInv ==
    /\ pc \in {"seal", "write", "rename"} => Derivable(key) /\ saving \in Bundles
    /\ pc = "write" => tmp = [bundle |-> saving, key |-> key, whole |-> FALSE]
    /\ pc = "rename" => tmp = [bundle |-> saving, key |-> key, whole |-> TRUE]

\* A secret is written only where there is no whole one.
SecretInv == pc = "secret" => ~machineId /\ ~secret.whole

CacheInv == CacheTypeOK /\ FileInv /\ SaveInv /\ SecretInv

\* An empty state directory satisfies the invariant.
THEOREM CacheInitially == Init => CacheInv
  BY CacheAssumption
  DEF Init, CacheInv, CacheTypeOK, Sealed, NoFile, FileInv, SaveInv, SecretInv

\* Every step of a save or a load, and every interruption, keeps it.
THEOREM CacheStep == CacheInv /\ [Next]_vars => CacheInv'
<1> SUFFICES ASSUME CacheInv, [Next]_vars
             PROVE  CacheInv'
  OBVIOUS
<1> USE CacheAssumption DEF CacheInv, CacheTypeOK, Sealed, FileInv, SaveInv, SecretInv, Derivable
<1>1. ASSUME NEW b \in Bundles, Save(b) PROVE CacheInv'
  BY <1>1 DEF Save
<1>2. CASE Load
  BY <1>2 DEF Load
<1>3. CASE DeriveKey
  <2>1. CASE machineId /\ HaveKey(0) /\ UNCHANGED secret
    BY <1>3, <2>1 DEF DeriveKey, HaveKey
  <2>2. CASE ~machineId /\ SecretUsable /\ HaveKey(secret.key) /\ UNCHANGED secret
    BY <1>3, <2>2 DEF DeriveKey, HaveKey, SecretUsable
  <2>3. CASE /\ ~machineId /\ ~SecretUsable
             /\ secret' = [key |-> secret.key + 1, whole |-> FALSE]
             /\ pc' = "secret" /\ UNCHANGED key
    BY <1>3, <2>3 DEF DeriveKey, SecretUsable
  <2> QED
    BY <1>3, <2>1, <2>2, <2>3 DEF DeriveKey
<1>4. CASE SecretWritten
  <2>1. secret' = [key |-> secret.key, whole |-> TRUE]
    BY <1>4 DEF SecretWritten
  <2> QED
    BY <1>4, <2>1 DEF SecretWritten, HaveKey
<1>5. CASE CreateTmp
  BY <1>5 DEF CreateTmp
<1>6. CASE WriteTmp
  BY <1>6 DEF WriteTmp
<1>7. CASE Rename
  BY <1>7 DEF Rename, NoFile
<1>8. CASE Interrupted
  BY <1>8 DEF Interrupted
<1>9. CASE UNCHANGED vars
  BY <1>9 DEF vars
<1> QED
  BY <1>1, <1>2, <1>3, <1>4, <1>5, <1>6, <1>7, <1>8, <1>9 DEF Next

\* The inductive invariant of the cache: the key of a whole file, and of a save
\* under way, is the one that would be derived now (lkg.rs, node_secret).
THEOREM CacheInvariant == Spec => []CacheInv
  BY CacheInitially, CacheStep, PTL DEF Spec

\* What a step does to what a reader finds: a rename makes it the bundle that
\* was being saved, everything else leaves it alone (lkg.rs, save).
LEMMA ReadableMoves ==
  ASSUME CacheInv, [Next]_vars
  PROVE  (Rename /\ Readable' \in Bundles) \/ Readable' = Readable
<1> USE DEF CacheInv, CacheTypeOK, Sealed, FileInv, SaveInv, SecretInv, Derivable, Readable, Opens
<1>1. ASSUME NEW b \in Bundles, Save(b) PROVE Readable' = Readable
  BY <1>1 DEF Save
<1>2. CASE Load
  BY <1>2 DEF Load
<1>3. CASE DeriveKey
  BY <1>3 DEF DeriveKey, HaveKey, SecretUsable
<1>4. CASE SecretWritten
  BY <1>4 DEF SecretWritten, HaveKey
<1>5. CASE CreateTmp \/ WriteTmp
  BY <1>5 DEF CreateTmp, WriteTmp
<1>6. CASE Rename
  BY <1>6 DEF Rename
<1>7. CASE Interrupted
  BY <1>7 DEF Interrupted
<1>8. CASE UNCHANGED vars
  BY <1>8 DEF vars
<1> QED
  BY <1>1, <1>2, <1>3, <1>4, <1>5, <1>6, <1>7, <1>8 DEF Next

\* The cache implements the atomic cell: whatever fails or dies in a save, a
\* load or the writing of a secret, a reader finds the bundle of the last save
\* that took effect (lkg.rs, save "Atomic write").
THEOREM CacheStaysAtomic == Spec => CacheIsAtomic
<1>1. Init => Atomic!Init
  BY DEF Init, Atomic!Init, Readable, Opens, NoFile
<1>2. CacheInv /\ [Next]_vars => [Atomic!Next]_Readable
  BY ReadableMoves DEF Atomic!Next, Atomic!Save
<1> QED
  BY <1>1, <1>2, CacheInvariant, PTL DEF Spec, CacheIsAtomic, Atomic!Spec

============================================================================
