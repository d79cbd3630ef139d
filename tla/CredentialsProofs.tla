------------------------- MODULE CredentialsProofs -------------------------
(***************************************************************************)
(* Proofs about Credentials, for any number of Registers, rotations and    *)
(* restarts and any payload keys.                                          *)
(***************************************************************************)
EXTENDS Credentials, TLAPS

Stored == [jwt : Nat, cert : Nat, ca : Nat, dek : Nat,
           shape : {"none", "good", "malformed", "unversioned"}]

TlsMaterial == [cert : Nat, ca : Nat]

CredsTypeOK ==
    /\ phase \in {"off", "enrol", "loop", "up"}
    /\ disk \in Stored
    /\ issued \in Nat /\ jwt \in Nat /\ dek \in Nat
    /\ tls \in TlsMaterial /\ shown \in TlsMaterial
    /\ lapsed \in BOOLEAN /\ bare \in BOOLEAN /\ cached \in BOOLEAN /\ rotated \in BOOLEAN
    /\ ended \in {"ok", "slot", "err", "reset"}

\* No payload key is newer than what has been issued.
KeyOrder == dek <= issued /\ disk.dek <= issued

\* A process that has not started has no key and no channel, and the channel
\* counts as reset.
OffInv == phase = "off" => dek = 0 /\ ~cached /\ ended = "reset"

\* A channel in the cache after an error or a reset was built with the TLS
\* material in force, also while enrolling, before the next session opens on it.
ChannelInv ==
    phase \in {"enrol", "loop"} /\ ended \in {"err", "reset"} /\ cached => shown = tls

CredentialsInv ==
    /\ CredsTypeOK /\ KeyOrder /\ OffInv /\ ChannelInv
    /\ RestartSeesSame /\ ErrorRefreshesCert

----------------------------------------------------------------------------

\* What an installation leaves in memory (install_creds): the token, the TLS
\* material if the creds have a certificate and a CA chain, the key if it is
\* usable.
LEMMA InstallMatches ==
  ASSUME CredentialsInv, NEW c \in Stored, NEW t \in TlsMaterial, NEW ch \in BOOLEAN,
         Install(c, t, ch),
         c.dek # 0 => c.dek >= dek
  PROVE  /\ jwt' = c.jwt /\ phase' = "loop"
         /\ Usable(c) => dek' = c.dek
         /\ dek' >= dek /\ dek' \in {dek, c.dek}
         /\ bare' \in BOOLEAN /\ (~bare' => Complete(c))
         /\ Complete(c) => tls' = Material(c)
         /\ tls' \in TlsMaterial /\ cached' \in BOOLEAN
         /\ \/ ~cached' /\ ended' = "reset"
            \/ cached' = ch /\ tls' = t /\ ended' = ended
<1> USE DEF Stored, CredentialsInv, CredsTypeOK
<1>1. jwt' = c.jwt /\ phase' = "loop"
  BY DEF Install
<1>2. /\ Usable(c) => dek' = c.dek
      /\ dek' >= dek /\ dek' \in {dek, c.dek}
  <2>1. dek' = IF c.dek # 0 /\ c.shape = "good" THEN c.dek ELSE dek
    BY DEF Install, InstalledDek, Usable
  <2> QED
    BY <2>1 DEF Usable
<1>3. bare' \in BOOLEAN /\ (~bare' => Complete(c))
  BY DEF Install, Complete
<1>4. CASE Complete(c)
  <2>1. tls' = Material(c) /\ cached' = FALSE /\ ended' = "reset"
    BY <1>4 DEF Install
  <2>2. Material(c) \in TlsMaterial
    BY DEF Material, TlsMaterial
  <2> QED
    BY <1>1, <1>2, <1>3, <2>1, <2>2
<1>5. CASE ~Complete(c)
  <2>1. tls' = t /\ cached' = ch /\ ended' = ended
    BY <1>5 DEF Install
  <2> QED
    BY <1>1, <1>2, <1>3, <1>5, <2>1
<1> QED
  BY <1>4, <1>5

\* An agent that has never run satisfies the invariant.
THEOREM CredentialsInitially == Init => CredentialsInv
<1> SUFFICES ASSUME Init PROVE CredentialsInv
  OBVIOUS
<1>1. NoCreds \in Stored /\ NoCreds.dek = 0 /\ NoTls \in TlsMaterial
  BY DEF NoCreds, Stored, NoTls, TlsMaterial
<1>2. CredsTypeOK
  BY <1>1 DEF Init, CredsTypeOK
<1> QED
  BY <1>1, <1>2 DEF Init, CredentialsInv, KeyOrder, OffInv, ChannelInv, RestartSeesSame, ErrorRefreshesCert

\* A Register puts the same creds into memory and, unless the write failed,
\* on disk (register_fresh).
LEMMA RegisterKeeps ==
  ASSUME CredentialsInv, NEW cert \in BOOLEAN, NEW ca \in BOOLEAN, NEW s \in DekShapes,
         Register(cert, ca, s)
  PROVE  CredentialsInv' /\ dek' >= dek
<1> DEFINE c == Fresh(cert, ca, s)
<1> USE DEF CredentialsInv, CredsTypeOK
<1>1. c \in Stored /\ c.jwt = issued + 1 /\ c.dek \in {0, issued + 1}
  BY CredentialsAssumption DEF Fresh, Stored
<1>2. phase = "enrol" /\ issued' = issued + 1 /\ rotated' = rotated
  BY DEF Register
<1>3. shown' = IF cached THEN shown ELSE tls
  BY DEF Register, ShownBy
<1>4. \/ disk' = c /\ lapsed' = FALSE
      \/ disk' \in {disk, NoCreds} /\ lapsed' = TRUE
  BY DEF Register
<1>5. Install(c, tls, TRUE)
  BY DEF Register
<1> HIDE DEF c
<1>6. /\ jwt' = c.jwt /\ phase' = "loop"
      /\ Usable(c) => dek' = c.dek
      /\ dek' >= dek /\ dek' \in {dek, c.dek}
      /\ bare' \in BOOLEAN /\ (~bare' => Complete(c))
      /\ Complete(c) => tls' = Material(c)
      /\ tls' \in TlsMaterial /\ cached' \in BOOLEAN
      /\ \/ ~cached' /\ ended' = "reset"
         \/ tls' = tls /\ ended' = ended
  <2>1. c.dek # 0 => c.dek >= dek
    BY <1>1 DEF KeyOrder
  <2> QED
    BY <1>1, <1>5, <2>1, InstallMatches
<1>7. NoCreds \in Stored /\ NoCreds.dek = 0
  BY DEF NoCreds, Stored
<1>8. CredsTypeOK'
  <2>1. lapsed' \in BOOLEAN /\ disk' \in Stored /\ rotated' \in BOOLEAN
    BY <1>1, <1>2, <1>4, <1>7
  <2>2. issued' \in Nat /\ jwt' \in Nat /\ dek' \in Nat /\ shown' \in TlsMaterial
    BY <1>1, <1>2, <1>3, <1>6
  <2> QED
    BY <1>6, <2>1, <2>2
<1>9. KeyOrder'
  BY <1>1, <1>2, <1>4, <1>6, <1>7 DEF KeyOrder, Stored
<1>10. OffInv' /\ ErrorRefreshesCert'
  BY <1>6 DEF OffInv, ErrorRefreshesCert
<1>11. ChannelInv'
  BY <1>2, <1>3, <1>6 DEF ChannelInv
<1>12. RestartSeesSame'
  BY <1>4, <1>6 DEF RestartSeesSame, Usable, Complete, Material
<1> QED
  BY <1>6, <1>8, <1>9, <1>10, <1>11, <1>12

\* A rotation changes memory and disk in the same way as long as the file can
\* be written (CredentialRotation, persist_rotated_creds).
LEMMA RotateKeeps ==
  ASSUME CredentialsInv, NEW s \in DekShapes, NEW cert \in BOOLEAN, Rotate(cert, s)
  PROVE  /\ CredentialsInv' /\ dek' >= dek
         /\ ~bare /\ ~lapsed => tls'.ca = tls.ca
<1> DEFINE m == Merged(disk, cert, s)
<1> USE DEF CredentialsInv, CredsTypeOK
<1>1. s \in {"none", "good", "malformed", "unversioned"}
  BY CredentialsAssumption
<1>2. /\ phase = "up" /\ phase' = phase /\ cached' = cached /\ shown' = shown /\ ended' = ended
      /\ bare' = bare /\ rotated' = TRUE
      /\ issued' = issued + 1 /\ jwt' = issued + 1
  BY DEF Rotate
<1>3. dek' = IF s = "good" THEN issued + 1 ELSE dek
  BY DEF Rotate, RotatedDek
<1>4. tls' = IF cert /\ disk.jwt # 0 THEN [cert |-> issued + 1, ca |-> disk.ca] ELSE tls
  BY DEF Rotate, RotatedTls
<1>5. \/ disk.jwt # 0 /\ disk' = m /\ lapsed' = lapsed
      \/ disk' = disk /\ lapsed' = TRUE
  BY DEF Rotate, PersistRotated
<1>6. /\ m \in Stored /\ m.jwt = issued + 1
      /\ m.cert = (IF cert THEN issued + 1 ELSE disk.cert) /\ m.ca = disk.ca
      /\ m.dek = IF s \in {"good", "malformed"} THEN issued + 1 ELSE disk.dek
      /\ m.shape = IF s \in {"good", "malformed"} THEN s ELSE disk.shape
  BY <1>1 DEF Merged, Kept, Stored
<1> HIDE DEF m
<1>7. CredsTypeOK'
  <2>1. lapsed' \in BOOLEAN /\ disk' \in Stored
    BY <1>5, <1>6
  <2>2. issued' \in Nat /\ jwt' \in Nat /\ dek' \in Nat
    BY <1>2, <1>3
  <2>3. tls' \in TlsMaterial
    BY <1>4 DEF TlsMaterial, Stored
  <2> QED
    BY <1>2, <2>1, <2>2, <2>3
<1>8. KeyOrder' /\ dek' >= dek
  BY <1>2, <1>3, <1>5, <1>6 DEF KeyOrder, Stored
<1>9. OffInv' /\ ChannelInv' /\ ErrorRefreshesCert'
  BY <1>2 DEF OffInv, ChannelInv, ErrorRefreshesCert
<1>10. RestartSeesSame'
  <2>1. CASE disk' = disk /\ lapsed' = TRUE
    BY <2>1 DEF RestartSeesSame
  <2>2. CASE disk.jwt # 0 /\ disk' = m /\ lapsed' = lapsed /\ ~lapsed
    <3>1. /\ ~bare => Complete(disk)
          /\ Complete(disk) => tls = Material(disk)
          /\ Usable(disk) => disk.dek = dek
      BY <1>2, <2>2 DEF RestartSeesSame
    <3>2. m.jwt = jwt' /\ (~bare' => Complete(m))
      BY <1>2, <1>6, <3>1 DEF Complete
    <3>3. Complete(m) => tls' = Material(m)
      BY <1>2, <1>4, <1>6, <2>2, <3>1 DEF Complete, Material
    <3>4. Usable(m) => m.dek = dek'
      BY <1>1, <1>3, <1>6, <3>1 DEF Usable
    <3> QED
      BY <2>2, <3>2, <3>3, <3>4 DEF RestartSeesSame
  <2>3. CASE lapsed' = lapsed /\ lapsed
    BY <2>3 DEF RestartSeesSame
  <2> QED
    BY <1>5, <2>1, <2>2, <2>3
<1>11. ~bare /\ ~lapsed => tls'.ca = tls.ca
  <2>1. ~bare /\ ~lapsed => tls.ca = disk.ca
    BY <1>2 DEF RestartSeesSame, Material
  <2> QED
    BY <1>4, <2>1
<1> QED
  BY <1>7, <1>8, <1>9, <1>10, <1>11

\* Every step of the agent and of the control plane keeps the invariant, while
\* the process lives none takes a payload key away, and within a session none
\* changes the CA of complete creds that reached the file.
LEMMA CredentialsStep ==
  ASSUME CredentialsInv, [Next]_vars
  PROVE  /\ CredentialsInv'
         /\ phase # "off" /\ phase' # "off" => dek' >= dek
         /\ phase = "up" /\ phase' = "up" /\ ~bare /\ ~lapsed => tls'.ca = tls.ca
<1> USE DEF CredentialsInv, CredsTypeOK
<1>0. /\ NoCreds \in Stored /\ NoCreds.dek = 0
      /\ NoTls \in TlsMaterial /\ Bootstrap \in TlsMaterial
  BY DEF NoCreds, Stored, NoTls, Bootstrap, TlsMaterial
<1>1. ASSUME NEW t \in {NoTls, Bootstrap}, Boot(t) PROVE CredentialsInv' /\ phase = "off"
  <2>1. CASE disk.jwt # 0
    <3>1. /\ Install(disk, t, cached) /\ lapsed' = FALSE /\ phase = "off"
          /\ issued' = issued /\ disk' = disk /\ shown' = shown /\ rotated' = rotated
      BY <1>1, <2>1 DEF Boot
    <3>2. /\ jwt' = disk.jwt /\ phase' = "loop"
          /\ Usable(disk) => dek' = disk.dek
          /\ dek' \in {dek, disk.dek}
          /\ bare' \in BOOLEAN /\ (~bare' => Complete(disk))
          /\ Complete(disk) => tls' = Material(disk)
          /\ tls' \in TlsMaterial /\ cached' \in BOOLEAN
          /\ ~cached' /\ ended' = "reset"
      BY <1>0, <1>1, <3>1, InstallMatches DEF OffInv, Stored
    <3>3. CredsTypeOK'
      BY <3>1, <3>2 DEF Stored
    <3>4. KeyOrder' /\ OffInv' /\ ChannelInv' /\ ErrorRefreshesCert'
      BY <3>1, <3>2 DEF KeyOrder, OffInv, ChannelInv, ErrorRefreshesCert, Stored
    <3>5. RestartSeesSame'
      BY <3>1, <3>2 DEF RestartSeesSame, Usable, Complete, Material
    <3> QED
      BY <3>1, <3>3, <3>4, <3>5
  <2>2. CASE disk.jwt = 0
    <3>1. /\ phase = "off" /\ phase' = "enrol" /\ tls' = t /\ lapsed' = FALSE
          /\ UNCHANGED <<issued, disk, bare, jwt, dek, cached, shown, ended, rotated>>
      BY <1>1, <2>2 DEF Boot
    <3>2. CredsTypeOK'
      BY <1>0, <1>1, <3>1
    <3> QED
      BY <3>1, <3>2 DEF KeyOrder, OffInv, ChannelInv, ErrorRefreshesCert, RestartSeesSame
  <2> QED
    BY <2>1, <2>2 DEF Stored
<1>2. CASE RegisterFails
  BY <1>2 DEF RegisterFails, ShownBy, KeyOrder, OffInv, ChannelInv, ErrorRefreshesCert, RestartSeesSame
<1>3. CASE Refresh
  BY <1>3 DEF Refresh, KeyOrder, OffInv, ChannelInv, ErrorRefreshesCert, RestartSeesSame
<1>4. CASE OpenSession
  <2>1. /\ phase = "loop" /\ phase' = "up" /\ cached' = TRUE /\ rotated' = FALSE
        /\ UNCHANGED <<issued, disk, lapsed, bare, jwt, tls, dek, ended>>
    BY <1>4 DEF OpenSession
  <2>2. shown' = IF cached THEN shown ELSE tls
    BY <1>4 DEF OpenSession, ShownBy
  <2>3. CredsTypeOK'
    BY <2>1, <2>2
  <2>4. KeyOrder' /\ OffInv' /\ ChannelInv' /\ dek' >= dek
    BY <2>1, <2>2 DEF KeyOrder, OffInv, ChannelInv
  <2>5. ErrorRefreshesCert'
    BY <2>1, <2>2 DEF ChannelInv, ErrorRefreshesCert
  <2>6. RestartSeesSame'
    BY <2>1 DEF RestartSeesSame, Usable, Complete, Material
  <2> QED
    BY <2>1, <2>3, <2>4, <2>5, <2>6
<1>5. CASE Rejected
  <2>1. disk' \in Stored /\ disk'.dek <= disk.dek
    BY <1>0, <1>5 DEF Rejected, Stored
  <2> QED
    <3>1. /\ phase' = "enrol" /\ ended' = "err" /\ cached' = FALSE
          /\ UNCHANGED <<issued, lapsed, bare, jwt, tls, dek, shown, rotated>>
      BY <1>5 DEF Rejected
    <3>2. CredsTypeOK'
      BY <2>1, <3>1
    <3> QED
      BY <2>1, <3>1, <3>2 DEF KeyOrder, OffInv, ChannelInv, ErrorRefreshesCert, RestartSeesSame, Stored
<1>6. CASE Dies
  <2>1. /\ phase' = "off" /\ jwt' = 0 /\ tls' = NoTls /\ dek' = 0 /\ bare' = TRUE
        /\ cached' = FALSE /\ shown' = NoTls /\ ended' = "reset" /\ rotated' = FALSE
        /\ UNCHANGED <<issued, disk, lapsed>>
    BY <1>6 DEF Dies
  <2>2. CredsTypeOK'
    BY <1>0, <2>1
  <2> QED
    BY <2>1, <2>2 DEF KeyOrder, OffInv, ChannelInv, ErrorRefreshesCert, RestartSeesSame
<1>7. ASSUME NEW cert \in BOOLEAN, NEW ca \in BOOLEAN, NEW s \in DekShapes,
             Register(cert, ca, s)
      PROVE  CredentialsInv' /\ dek' >= dek /\ phase = "enrol"
  BY <1>7, RegisterKeeps DEF Register
<1>8. ASSUME NEW s \in DekShapes, NEW c \in BOOLEAN, Rotate(c, s)
      PROVE  CredentialsInv' /\ dek' >= dek /\ (~bare /\ ~lapsed => tls'.ca = tls.ca)
  BY <1>8, RotateKeeps
<1>9. ASSUME NEW how \in {"ok", "slot", "err"}, SessionEnds(how)
      PROVE  CredentialsInv' /\ dek' >= dek /\ phase' = "loop"
  <2>1. /\ phase = "up" /\ phase' = "loop" /\ ended' = how
        /\ UNCHANGED <<issued, disk, lapsed, bare, jwt, tls, dek, shown, rotated>>
    BY <1>9 DEF SessionEnds
  <2>2. cached' \in BOOLEAN /\ (how = "err" => ~cached')
    BY <1>9 DEF SessionEnds, KeepsChannel
  <2>3. CredsTypeOK'
    BY <2>1, <2>2
  <2>4. KeyOrder' /\ OffInv' /\ ChannelInv' /\ ErrorRefreshesCert' /\ dek' >= dek
    BY <2>1, <2>2 DEF KeyOrder, OffInv, ChannelInv, ErrorRefreshesCert
  <2>5. RestartSeesSame'
    BY <2>1 DEF RestartSeesSame, Usable, Complete, Material
  <2> QED
    BY <2>1, <2>3, <2>4, <2>5
<1>10. CASE UNCHANGED vars
  BY <1>10 DEF vars, KeyOrder, OffInv, ChannelInv, ErrorRefreshesCert, RestartSeesSame, Usable, Complete, Material
<1> QED
  BY <1>1, <1>2, <1>3, <1>4, <1>5, <1>6, <1>7, <1>8, <1>9, <1>10 DEF Next

----------------------------------------------------------------------------

\* The inductive invariant of the credentials in their three places.
THEOREM CredentialsInvariant == Spec => []CredentialsInv
  BY CredentialsInitially, CredentialsStep, PTL DEF Spec

\* A restart presents what the running agent presents, unless a write failed,
\* through any number of rotations and enrolments (persist_rotated_creds).
THEOREM RestartsSeeTheSame == Spec => []RestartSeesSame
<1>1. CredentialsInv => RestartSeesSame
  BY DEF CredentialsInv
<1> QED
  BY <1>1, CredentialsInvariant, PTL

\* After an error, a boot or an enrolment the session that follows presents the
\* certificate in force (AgentClient::reset, install_creds).
THEOREM ErrorsRefreshTheCert == Spec => []ErrorRefreshesCert
<1>1. CredentialsInv => ErrorRefreshesCert
  BY DEF CredentialsInv
<1> QED
  BY <1>1, CredentialsInvariant, PTL

\* A rotation leaves the CA alone if complete creds reached the file (the
\* CredentialRotation handler, read_stored_creds).
THEOREM RotationsKeepTheCa == Spec => RotationKeepsCa
<1>1. CredentialsInv /\ [Next]_vars
        => [phase = "up" /\ phase' = "up" /\ ~bare /\ ~lapsed => tls'.ca = tls.ca]_vars
  BY CredentialsStep
<1> QED
  BY <1>1, CredentialsInvariant, PTL DEF Spec, RotationKeepsCa

\* No payload key is lost while the process lives (install_payload_dek_from_creds
\* and the CredentialRotation handler).
THEOREM KeysStay == Spec => KeyNeverLost
<1>1. CredentialsInv /\ [Next]_vars => [phase # "off" /\ phase' # "off" => dek' >= dek]_vars
  BY CredentialsStep
<1> QED
  BY <1>1, CredentialsInvariant, PTL DEF Spec, KeyNeverLost

============================================================================
