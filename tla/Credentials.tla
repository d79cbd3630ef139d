---------------------------- MODULE Credentials ----------------------------
(***************************************************************************)
(* The instance credentials in their three places: agent-creds.json, the   *)
(* memory of the agent (token, TLS material, payload key) and the cached   *)
(* gRPC channel, which was built with the client certificate of its time   *)
(* (agent.rs, install_creds, register_fresh, persist_rotated_creds, the    *)
(* CredentialRotation handler; client.rs; payload_dek.rs, from_proto).     *)
(*                                                                         *)
(* Every Register and every rotation issues material with the next number; *)
(* 0 is none, and 1 is the CA of bootstrap_ca_pem.  A client certificate   *)
(* stands for its key too; what a message brings of certificate, CA chain  *)
(* and payload key is up to that message.                                  *)
(* The agent task alone reads and writes all of this, so a handler is one  *)
(* step; a shutdown or crash between its file write and its memory writes  *)
(* ends the process, and is the step followed by Dies.                     *)
(***************************************************************************)
EXTENDS Naturals

CONSTANTS DekShapes,   \* payload keys it sends
          MaxIssued    \* bound on what it issues

ASSUME CredentialsAssumption ==
    /\ MaxIssued \in Nat
    /\ DekShapes \subseteq {"none", "good", "malformed", "unversioned"}

VARIABLES phase,     \* where the agent is
          issued,    \* material issued so far
          disk,      \* agent-creds.json, jwt 0 for no readable file
          lapsed,    \* a write has failed since the file was last written whole
          bare,      \* the creds installed last had no certificate or no CA
          jwt, tls,  \* AgentClient: the token, the material of set_tls
          dek,       \* payload_dek: the version of the key installed
          cached,    \* AgentClient.channel holds a channel
          shown,     \* the TLS material that channel was built with
          ended,     \* how the last session ended, or a reset of the channel since
          rotated    \* a rotation came down the open session

vars == <<phase, issued, disk, lapsed, bare, jwt, tls, dek, cached, shown,
          ended, rotated>>

\* The stored creds: a token, a certificate, a CA chain, a payload key and its
\* shape.  All but the token may be empty.
NoCreds == [jwt |-> 0, cert |-> 0, ca |-> 0, dek |-> 0, shape |-> "none"]

\* ClientTlsMaterial: none, and with bootstrap_ca_pem alone.
NoTls == [cert |-> 0, ca |-> 0]
Bootstrap == [cert |-> 0, ca |-> 1]

Init ==
    /\ phase = "off" /\ issued = 1 /\ disk = NoCreds /\ lapsed = FALSE /\ bare = TRUE
    /\ jwt = 0 /\ tls = NoTls /\ dek = 0
    /\ cached = FALSE /\ shown = NoTls /\ ended = "reset" /\ rotated = FALSE

----------------------------------------------------------------------------

\* DekHandle::from_proto: 32 bytes and a version, or no handle.
Usable(c) == c.dek # 0 /\ c.shape = "good"

\* install_payload_dek_from_creds: a key that is empty or malformed leaves the
\* handle alone.
InstalledDek(c) == IF Usable(c) THEN c.dek ELSE dek

\* install_creds sets TLS material, and resets the channel, only if the creds
\* have both a certificate and a CA chain.
Complete(c) == c.cert # 0 /\ c.ca # 0

Material(c) == [cert |-> c.cert, ca |-> c.ca]

\* install_creds, over the TLS material and the channel there are.
Install(c, material, channel) ==
    /\ jwt' = c.jwt
    /\ dek' = InstalledDek(c)
    /\ bare' = ~Complete(c)
    /\ IF Complete(c)
       THEN tls' = Material(c) /\ cached' = FALSE /\ ended' = "reset"
       ELSE tls' = material /\ cached' = channel /\ UNCHANGED ended
    /\ phase' = "loop"

\* run(): bootstrap_ca_pem if it is configured, then the creds on disk if they
\* can be read, else an enrolment.
Boot(material) ==
    /\ phase = "off"
    /\ IF disk.jwt # 0
       THEN Install(disk, material, cached)
       ELSE /\ phase' = "enrol" /\ tls' = material
            /\ UNCHANGED <<bare, jwt, dek, cached, ended>>
    /\ lapsed' = FALSE
    /\ UNCHANGED <<issued, disk, shown, rotated>>

\* AgentClient::connect: a cached channel is used as it is, a new one is built
\* with the TLS material of the moment.
ShownBy(channel) == IF channel THEN shown ELSE tls

\* What the control plane answers a Register with: a certificate or none, a CA
\* chain or none, a payload key of shape s.
Fresh(cert, ca, s) ==
    [jwt |-> issued + 1,
     cert |-> IF cert THEN issued + 1 ELSE 0,
     ca |-> IF ca THEN issued + 1 ELSE 0,
     dek |-> IF s = "none" THEN 0 ELSE issued + 1, shape |-> s]

\* register_fresh: the file is written in place, and whether that worked is
\* not looked at; a write that fails half way leaves nothing readable.
Register(cert, ca, s) ==
    /\ phase = "enrol" /\ issued < MaxIssued
    /\ issued' = issued + 1
    /\ shown' = ShownBy(cached)
    /\ \/ disk' = Fresh(cert, ca, s) /\ lapsed' = FALSE
       \/ disk' \in {disk, NoCreds} /\ lapsed' = TRUE
    /\ Install(Fresh(cert, ca, s), tls, TRUE)
    /\ UNCHANGED rotated

\* The Register call fails once connected: it is retried on the same channel.
RegisterFails ==
    /\ phase = "enrol"
    /\ cached' = TRUE /\ shown' = ShownBy(cached)
    /\ UNCHANGED <<phase, issued, disk, lapsed, bare, jwt, tls, dek, ended, rotated>>

\* The token is about to expire: enrol again before connecting.
Refresh ==
    /\ phase = "loop"
    /\ phase' = "enrol"
    /\ UNCHANGED <<issued, disk, lapsed, bare, jwt, tls, dek, cached, shown,
                   ended, rotated>>

\* run_session up to the open call.  A refused or failed open is this step
\* followed by SessionEnds or Rejected.
OpenSession ==
    /\ phase = "loop"
    /\ cached' = TRUE /\ shown' = ShownBy(cached)
    /\ phase' = "up" /\ rotated' = FALSE
    /\ UNCHANGED <<issued, disk, lapsed, bare, jwt, tls, dek, ended>>

\* Mutant: an error leaves the channel in the cache.
KeepsChannelAlways(how) == TRUE

\* A clean end and a slot that is held keep the channel; any other error
\* resets it.
KeepsChannel(how) == how # "err"

SessionEnds(how) ==
    /\ phase = "up"
    /\ phase' = "loop" /\ ended' = how
    /\ cached' = KeepsChannel(how)
    /\ UNCHANGED <<issued, disk, lapsed, bare, jwt, tls, dek, shown, rotated>>

\* The control plane rejects the token: the creds are discarded, if the file
\* can be removed, and the agent enrols again.  Without an enrollment token
\* this is SessionEnds("err").
Rejected ==
    /\ phase = "up"
    /\ phase' = "enrol" /\ ended' = "err"
    /\ cached' = FALSE /\ disk' \in {disk, NoCreds}
    /\ UNCHANGED <<issued, lapsed, bare, jwt, tls, dek, shown, rotated>>

\* persist_rotated_creds looks at whether a key has bytes and a version, not at
\* its length.
Kept(s) == s \in {"good", "malformed"}

\* What it makes of the stored creds.
Merged(c, cert, s) ==
    [jwt |-> issued + 1,
     cert |-> IF cert THEN issued + 1 ELSE c.cert,
     ca |-> c.ca,
     dek |-> IF Kept(s) THEN issued + 1 ELSE c.dek,
     shape |-> IF Kept(s) THEN s ELSE c.shape]

\* Mutant: the certificate of a rotation is not written.
PersistRotatedNoCert(cert, s) ==
    \/ disk' = Merged(disk, FALSE, s) /\ UNCHANGED lapsed
    \/ disk' = disk /\ lapsed' = TRUE

\* The file is replaced by rename, or the write fails and it stays.
PersistRotated(cert, s) ==
    \/ disk' = Merged(disk, cert, s) /\ UNCHANGED lapsed
    \/ disk' = disk /\ lapsed' = TRUE

\* Mutant: a rotation without a usable key clears the handle.
RotatedDekCleared(s) == IF s = "good" THEN issued + 1 ELSE 0

\* A key that is not usable leaves the handle in place.
RotatedDek(s) == IF s = "good" THEN issued + 1 ELSE dek

\* Mutant: the new certificate is set without the CA chain.
RotatedTlsNoCa(cert) ==
    IF cert /\ disk.jwt # 0 THEN [cert |-> issued + 1, ca |-> 0] ELSE tls

\* The CA chain of a rotated certificate is that of the file, empty or not; with
\* no readable file set_tls is skipped.
RotatedTls(cert) ==
    IF cert /\ disk.jwt # 0 THEN [cert |-> issued + 1, ca |-> disk.ca] ELSE tls

\* CredentialRotation.  With no readable file nothing is persisted.  The channel
\* is not reset.  A rotation without a token changes nothing.
Rotate(cert, s) ==
    /\ phase = "up" /\ issued < MaxIssued
    /\ issued' = issued + 1
    /\ jwt' = issued + 1
    /\ IF disk.jwt # 0
       THEN PersistRotated(cert, s)
       ELSE lapsed' = TRUE /\ UNCHANGED disk
    /\ tls' = RotatedTls(cert)
    /\ dek' = RotatedDek(s)
    /\ rotated' = TRUE
    /\ UNCHANGED <<phase, bare, cached, shown, ended>>

Dies ==
    /\ phase # "off"
    /\ phase' = "off" /\ jwt' = 0 /\ tls' = NoTls /\ dek' = 0 /\ bare' = TRUE
    /\ cached' = FALSE /\ shown' = NoTls /\ ended' = "reset" /\ rotated' = FALSE
    /\ UNCHANGED <<issued, disk, lapsed>>

----------------------------------------------------------------------------

Next ==
    \/ \E material \in {NoTls, Bootstrap} : Boot(material)
    \/ RegisterFails \/ Refresh \/ OpenSession \/ Rejected \/ Dies
    \/ \E cert \in BOOLEAN, s \in DekShapes :
           Rotate(cert, s) \/ \E ca \in BOOLEAN : Register(cert, ca, s)
    \/ \E how \in {"ok", "slot", "err"} : SessionEnds(how)

Spec == Init /\ [][Next]_vars

----------------------------------------------------------------------------

\* Unless a write has failed, a restart presents the token of the running agent,
\* installs the same TLS material if the file has a certificate and a CA chain,
\* which it has whenever the creds installed last had them, and encrypts with
\* the same key if it finds a usable one (the CredentialRotation handler, "so a
\* restart before the next rotation still authenticates").
RestartSeesSame ==
    phase \in {"loop", "up"} /\ ~lapsed
        => /\ disk.jwt = jwt
           /\ ~bare => Complete(disk)
           /\ Complete(disk) => tls = Material(disk)
           /\ Usable(disk) => disk.dek = dek

\* A rotation leaves the CA that the client trusts as it is, though it takes it
\* from the file, as long as the creds installed last were complete and reached
\* the file ("The CA didn't change, so we re-read from disk").
RotationKeepsCa ==
    [][phase = "up" /\ phase' = "up" /\ ~bare /\ ~lapsed => tls'.ca = tls.ca]_vars

\* A session opened after one that failed, after a start, or with a certificate
\* from disk or a new Register presents the TLS material in force, however many
\* rotations, failed Register calls and Registers without a certificate came
\* before (AgentClient::reset, "Force a reconnect").
ErrorRefreshesCert ==
    phase = "up" /\ ended \in {"err", "reset"} /\ ~rotated => shown = tls

\* While the process lives a payload key is only ever replaced by a newer one:
\* "CP-side mint failure shouldn't drop the gateway's existing capability".
KeyNeverLost == [][phase # "off" /\ phase' # "off" => dek' >= dek]_vars

============================================================================
