--------------------------- MODULE InboundProofs ---------------------------
(***************************************************************************)
(* Proofs about Inbound, for any kinds and shapes of updates, any hooks    *)
(* the host has wired, any queue lengths and any number of pushes,         *)
(* sessions and restarts.                                                  *)
(***************************************************************************)
EXTENDS Inbound, SequenceTheorems, TLAPS

Message == [kind : {"config", "licence", "quota", "quarantine"}, n : Nat,
            named : BOOLEAN, bundle : BOOLEAN, on : Nat]
Delivery == [n : Nat, nonce : Nat, proof : Nat]

\* The types of what the invariants below speak of.
InboundTypeOK ==
    /\ phase \in {"up", "down", "dead"} /\ nonce \in Nat /\ open \in BOOLEAN
    /\ inbox \in Seq(Message)
    /\ pc \in {"next", "apply", "applied", "ack", "licence"} /\ verdict \in BOOLEAN
    /\ pc # "next" => cur \in Message
    /\ lkg \in [n : Nat, named : BOOLEAN] /\ licence \in Delivery
    /\ unsaved \subseteq Nat /\ partial \in BOOLEAN
    /\ applied \in Nat /\ running \in Nat /\ hosted \in Delivery
    /\ pushed \in Nat /\ cpQuota \in Nat

\* Outside a session the handler is idle and nothing is in flight.
SessionInv ==
    /\ open => phase = "up"
    /\ phase # "up" => pc = "next" /\ inbox = <<>>

\* A push numbered n came after everything the files, the host and the handler
\* have.
Newer(n) ==
    /\ n > lkg.n /\ n > licence.n /\ n > running
    /\ pc # "next" => n > cur.n

\* What is in flight came down this Channel, in the order it was pushed, and is
\* newer than what was taken.
InboxInv ==
    /\ \A i \in 1 .. Len(inbox) :
           /\ inbox[i].on = nonce
           /\ inbox[i].kind # "quota" => Newer(inbox[i].n) /\ inbox[i].n <= pushed
    /\ \A i, j \in 1 .. Len(inbox) :
           i < j /\ inbox[i].kind # "quota" /\ inbox[j].kind # "quota"
               => inbox[i].n < inbox[j].n

TakenInv ==
    /\ lkg.n <= pushed /\ licence.n <= pushed /\ running <= pushed
    /\ pc # "next" => cur.n <= pushed

\* What the handler is about to hand over is on disk, or is known not to be.
HandlerInv ==
    /\ pc = "apply" => (cur.n \in unsaved \/ cur.n <= lkg.n) /\ running # cur.n
    /\ pc = "applied" => running = cur.n
    /\ pc \in {"apply", "applied"} => cur.bundle /\ "config" \in Hooks
    /\ pc = "licence" => (cur.n \in unsaved \/ cur.n <= licence.n) /\ cur.on = nonce
    /\ pc = "ack" /\ cur.bundle /\ "config" \in Hooks => (verdict <=> running = cur.n)

\* While every update comes with a hash and a bundle, the hash recorded is that
\* of the host's config, except between the switch and the return of the hook.
HashInv ==
    "config" \in Hooks /\ ~partial =>
        /\ pc # "applied" /\ running # 0 => applied = running
        /\ pc \in {"apply", "applied"} => cur.named
        /\ lkg.named \/ lkg.n = 0

InboundInv ==
    /\ InboundTypeOK /\ SessionInv /\ InboxInv /\ TakenInv /\ HandlerInv /\ HashInv
    /\ OnDiskFirst /\ ProofNamesChannel

\* An agent without files satisfies the invariant.
THEOREM InboundInitially == Init => InboundInv
<1> SUFFICES ASSUME Init PROVE InboundInv
  OBVIOUS
<1>1. NoDelivery \in Delivery /\ NoDelivery.n = 0 /\ NoDelivery.nonce = 0 /\ NoDelivery.proof = 0
  BY DEF NoDelivery, Delivery
<1>2. lkg \in [n : Nat, named : BOOLEAN] /\ lkg.n = 0
  BY DEF Init
<1>3. InboundTypeOK
  <2>1. inbox \in Seq(Message)
    BY DEF Init
  <2>2. /\ phase \in {"up", "down", "dead"} /\ nonce \in Nat
        /\ pc \in {"next", "apply", "applied", "ack", "licence"}
        /\ pc # "next" => cur \in Message
        /\ unsaved \subseteq Nat /\ applied \in Nat /\ running \in Nat
        /\ pushed \in Nat /\ cpQuota \in Nat
    BY DEF Init
  <2>3. open \in BOOLEAN /\ verdict \in BOOLEAN /\ partial \in BOOLEAN
    BY DEF Init
  <2>4. licence \in Delivery /\ hosted \in Delivery
    BY <1>1 DEF Init
  <2> QED
    BY <1>2, <2>1, <2>2, <2>3, <2>4 DEF InboundTypeOK
<1>4. SessionInv /\ InboxInv /\ TakenInv
  BY <1>1, <1>2 DEF Init, SessionInv, InboxInv, TakenInv
<1>5. HandlerInv /\ HashInv /\ OnDiskFirst /\ ProofNamesChannel
  BY <1>1, <1>2 DEF Init, HandlerInv, HashInv, OnDiskFirst, ProofNamesChannel
<1> QED
  BY <1>3, <1>4, <1>5 DEF InboundInv

----------------------------------------------------------------------------
\* The three things that happen to the messages in flight.

\* The next message, and what is left when it is taken.
LEMMA InboxTaken ==
  ASSUME InboundInv, inbox # <<>>
  PROVE  /\ Head(inbox) \in Message /\ Head(inbox).on = nonce
         /\ Head(inbox).kind # "quota" => Newer(Head(inbox).n) /\ Head(inbox).n <= pushed
         /\ Tail(inbox) \in Seq(Message)
         /\ \A i \in 1 .. Len(Tail(inbox)) :
                /\ Tail(inbox)[i].on = nonce
                /\ Tail(inbox)[i].kind # "quota"
                       => /\ Newer(Tail(inbox)[i].n) /\ Tail(inbox)[i].n <= pushed
                          /\ Head(inbox).kind # "quota" => Head(inbox).n < Tail(inbox)[i].n
         /\ \A i, j \in 1 .. Len(Tail(inbox)) :
                i < j /\ Tail(inbox)[i].kind # "quota" /\ Tail(inbox)[j].kind # "quota"
                    => Tail(inbox)[i].n < Tail(inbox)[j].n
<1> DEFINE t == Tail(inbox)
<1>1. inbox \in Seq(Message) /\ InboxInv
  BY DEF InboundInv, InboundTypeOK
<1>2. /\ Len(inbox) \in Nat /\ Len(inbox) >= 1
      /\ Head(inbox) = inbox[1] /\ inbox[1] \in Message
      /\ t \in Seq(Message) /\ Len(t) = Len(inbox) - 1
      /\ \A i \in 1 .. Len(t) : t[i] = inbox[i + 1]
  BY <1>1
<1> HIDE DEF t
<1>3. 1 \in 1 .. Len(inbox)
  BY <1>2
<1>4. \A i \in 1 .. Len(t) : i + 1 \in 1 .. Len(inbox) /\ 1 < i + 1
  BY <1>2
<1>5. /\ Head(inbox).on = nonce
      /\ Head(inbox).kind # "quota" => Newer(Head(inbox).n) /\ Head(inbox).n <= pushed
  BY <1>1, <1>2, <1>3 DEF InboxInv
<1>6. ASSUME NEW i \in 1 .. Len(t)
      PROVE  /\ t[i].on = nonce
             /\ t[i].kind # "quota"
                    => /\ Newer(t[i].n) /\ t[i].n <= pushed
                       /\ Head(inbox).kind # "quota" => Head(inbox).n < t[i].n
  BY <1>1, <1>2, <1>3, <1>4 DEF InboxInv
<1>7. ASSUME NEW i \in 1 .. Len(t), NEW j \in 1 .. Len(t), i < j,
             t[i].kind # "quota", t[j].kind # "quota"
      PROVE  t[i].n < t[j].n
  <2>1. i + 1 < j + 1
    BY <1>2, <1>7
  <2> QED
    BY <1>1, <1>2, <1>4, <1>7, <2>1 DEF InboxInv
<1> QED
  BY <1>2, <1>5, <1>6, <1>7 DEF t

\* A message is sent down the Channel: a push numbered last, or a quota.
LEMMA InboxSent ==
  ASSUME InboundInv, NEW m \in Message, m.on = nonce, NEW p \in Nat, pushed <= p,
         m.kind # "quota" => m.n = p /\ pushed < p
  PROVE  LET box == Append(inbox, m) IN
         /\ box \in Seq(Message)
         /\ \A i \in 1 .. Len(box) :
                /\ box[i].on = nonce
                /\ box[i].kind # "quota" => Newer(box[i].n) /\ box[i].n <= p
         /\ \A i, j \in 1 .. Len(box) :
                i < j /\ box[i].kind # "quota" /\ box[j].kind # "quota" => box[i].n < box[j].n
<1> DEFINE box == Append(inbox, m)
<1>1. inbox \in Seq(Message) /\ InboxInv /\ TakenInv /\ pushed \in Nat
  BY DEF InboundInv, InboundTypeOK
<1>2. /\ Len(inbox) \in Nat /\ box \in Seq(Message) /\ Len(box) = Len(inbox) + 1
      /\ \A i \in 1 .. Len(inbox) : box[i] = inbox[i] /\ inbox[i] \in Message
      /\ box[Len(inbox) + 1] = m
  BY <1>1
<1> HIDE DEF box
<1>3. m.kind # "quota" => Newer(m.n)
  BY <1>1 DEF InboundInv, InboundTypeOK, TakenInv, Newer, Message, Delivery
<1>4. ASSUME NEW i \in 1 .. Len(box)
      PROVE  /\ box[i].on = nonce
             /\ box[i].kind # "quota" => Newer(box[i].n) /\ box[i].n <= p
  <2>1. CASE i = Len(inbox) + 1
    BY <1>2, <1>3, <2>1
  <2>2. CASE i \in 1 .. Len(inbox)
    <3>1. inbox[i].n \in Nat
      BY <1>2, <2>2 DEF Message
    <3>2. /\ inbox[i].on = nonce
          /\ inbox[i].kind # "quota" => Newer(inbox[i].n) /\ inbox[i].n <= pushed
      BY <1>1, <2>2 DEF InboxInv
    <3> QED
      BY <1>1, <1>2, <2>2, <3>1, <3>2
  <2> QED
    BY <1>2, <2>1, <2>2
<1>5. ASSUME NEW i \in 1 .. Len(box), NEW j \in 1 .. Len(box), i < j,
             box[i].kind # "quota", box[j].kind # "quota"
      PROVE  box[i].n < box[j].n
  <2>1. i \in 1 .. Len(inbox)
    BY <1>2, <1>5
  <2>2. CASE j = Len(inbox) + 1
    <3>1. inbox[i].n \in Nat
      BY <1>2, <2>1 DEF Message
    <3>2. inbox[i].n <= pushed
      BY <1>1, <1>2, <1>5, <2>1 DEF InboxInv
    <3> QED
      BY <1>1, <1>2, <1>5, <2>1, <2>2, <3>1, <3>2
  <2>3. CASE j \in 1 .. Len(inbox)
    BY <1>1, <1>2, <1>5, <2>1, <2>3 DEF InboxInv
  <2> QED
    BY <1>2, <2>2, <2>3
<1> QED
  BY <1>2, <1>4, <1>5 DEF box

----------------------------------------------------------------------------
\* Steps of the control plane and the transport.

\* A step that touches neither the messages in flight, the handler, the files
\* nor the host keeps the invariant: the status loop, the heartbeat, and what
\* the control plane receives.
LEMMA QuietKeeps ==
  ASSUME InboundInv, cpQuota' \in Nat,
         UNCHANGED <<phase, nonce, open, inbox, pc, cur, verdict, lkg, licence,
                     unsaved, partial, applied, running, hosted, pushed>>
  PROVE  InboundInv'
<1>1. InboundTypeOK'
  BY DEF InboundInv, InboundTypeOK
<1>2. SessionInv' /\ InboxInv' /\ TakenInv'
  BY DEF InboundInv, SessionInv, InboxInv, TakenInv, Newer
<1>3. HandlerInv' /\ HashInv'
  BY DEF InboundInv, HandlerInv, HashInv
<1>4. OnDiskFirst' /\ ProofNamesChannel'
  BY DEF InboundInv, OnDiskFirst, ProofNamesChannel
<1> QED
  BY <1>1, <1>2, <1>3, <1>4 DEF InboundInv

\* So does a message sent down the Channel, if pushes are numbered in order.
LEMMA SendKeeps ==
  ASSUME InboundInv, open, NEW m \in Message, m.on = nonce,
         inbox' = Append(inbox, m), pushed' \in Nat, pushed <= pushed',
         m.kind # "quota" => m.n = pushed' /\ pushed < pushed', cpQuota' \in Nat,
         UNCHANGED <<phase, nonce, open, pc, cur, verdict, lkg, licence, unsaved,
                     partial, applied, running, hosted>>
  PROVE  InboundInv'
<1>1. InboundTypeOK /\ SessionInv /\ TakenInv
  BY DEF InboundInv
<1>2. /\ inbox' \in Seq(Message)
      /\ \A i \in 1 .. Len(inbox') :
             /\ inbox'[i].on = nonce
             /\ inbox'[i].kind # "quota" => Newer(inbox'[i].n) /\ inbox'[i].n <= pushed'
      /\ \A i, j \in 1 .. Len(inbox') :
             i < j /\ inbox'[i].kind # "quota" /\ inbox'[j].kind # "quota"
                 => inbox'[i].n < inbox'[j].n
  BY InboxSent
<1>3. InboundTypeOK'
  BY <1>1, <1>2 DEF InboundTypeOK
<1>4. SessionInv'
  BY <1>1 DEF SessionInv
<1>5. InboxInv'
  BY <1>2 DEF InboxInv, Newer
<1>6. TakenInv'
  <2>1. lkg.n \in Nat /\ licence.n \in Nat /\ running \in Nat /\ (pc # "next" => cur.n \in Nat)
    BY <1>1 DEF InboundTypeOK, Delivery, Message
  <2> QED
    BY <1>1, <2>1 DEF TakenInv, InboundTypeOK
<1>7. HandlerInv' /\ HashInv'
  BY DEF InboundInv, HandlerInv, HashInv
<1>8. OnDiskFirst' /\ ProofNamesChannel'
  BY DEF InboundInv, OnDiskFirst, ProofNamesChannel
<1> QED
  BY <1>3, <1>4, <1>5, <1>6, <1>7, <1>8 DEF InboundInv

\* CpPush numbers its messages, Transmit answers a heartbeat with a quota.
LEMMA PushKeeps ==
  ASSUME InboundInv, NEW k \in {"config", "licence", "quarantine"},
         NEW shape \in [named : BOOLEAN, bundle : BOOLEAN], CpPush(k, shape)
  PROVE  InboundInv'
<1> DEFINE m == [kind |-> k, n |-> pushed', named |-> shape.named,
                 bundle |-> shape.bundle, on |-> nonce]
<1>1. /\ open /\ pushed' = pushed + 1 /\ inbox' = Append(inbox, m) /\ cpQuota' = cpQuota
      /\ UNCHANGED <<phase, nonce, open, pc, cur, verdict, lkg, licence, unsaved,
                     partial, applied, running, hosted>>
  BY DEF CpPush, channel, handler, disk, host
<1>2. pushed \in Nat /\ cpQuota \in Nat /\ nonce \in Nat
  BY DEF InboundInv, InboundTypeOK
<1>3. m \in Message
  BY <1>1, <1>2 DEF Message
<1>4. m.on = nonce /\ m.n = pushed'
  OBVIOUS
<1>5. pushed' \in Nat /\ pushed < pushed' /\ pushed <= pushed'
  BY <1>1, <1>2
<1> QED
  BY <1>1, <1>2, <1>3, <1>4, <1>5, SendKeeps

\* The transport takes an ack, a report or a heartbeat to the control plane.
LEMMA TransmitKeeps ==
  ASSUME InboundInv, Transmit
  PROVE  InboundInv'
<1> DEFINE m == [kind |-> "quota", n |-> cpQuota, named |-> FALSE,
                 bundle |-> FALSE, on |-> nonce]
<1>1. /\ open /\ inbox' = Answered(Head(out))
      /\ UNCHANGED <<phase, nonce, open, pc, cur, verdict, lkg, licence, unsaved,
                     partial, applied, running, hosted, pushed, cpQuota>>
  BY DEF Transmit, channel, handler, disk, host, cp
<1>2. inbox' = inbox \/ inbox' = Append(inbox, m)
  BY <1>1 DEF Answered
<1>3. pushed \in Nat /\ cpQuota \in Nat /\ nonce \in Nat
  BY DEF InboundInv, InboundTypeOK
<1>4. m \in Message
  BY <1>3 DEF Message
<1>5. m.on = nonce /\ m.kind = "quota"
  OBVIOUS
<1>6. CASE inbox' = inbox
  BY <1>1, <1>3, <1>6, QuietKeeps
<1>7. CASE inbox' = Append(inbox, m)
  BY <1>1, <1>3, <1>4, <1>5, <1>7, SendKeeps
<1> QED
  BY <1>2, <1>6, <1>7

\* A stream that is lost takes the messages in flight with it.
LEMMA LossKeeps ==
  ASSUME InboundInv, StreamLost
  PROVE  InboundInv'
<1>1. /\ open' = FALSE /\ inbox' = <<>>
      /\ UNCHANGED <<phase, nonce, pc, cur, verdict, lkg, licence, unsaved,
                     partial, applied, running, hosted, pushed, cpQuota>>
  BY DEF StreamLost, handler, disk, host, cp
<1>2. inbox' \in Seq(Message) /\ Len(inbox') = 0
  BY <1>1
<1>3. InboundTypeOK'
  BY <1>1, <1>2 DEF InboundInv, InboundTypeOK
<1>4. SessionInv' /\ TakenInv'
  BY <1>1 DEF InboundInv, SessionInv, TakenInv
<1>5. InboxInv'
  BY <1>2 DEF InboxInv
<1>6. HandlerInv' /\ HashInv'
  BY <1>1 DEF InboundInv, HandlerInv, HashInv
<1>7. OnDiskFirst' /\ ProofNamesChannel'
  BY <1>1 DEF InboundInv, OnDiskFirst, ProofNamesChannel
<1> QED
  BY <1>3, <1>4, <1>5, <1>6, <1>7 DEF InboundInv

----------------------------------------------------------------------------
\* Steps of read_inbound.

\* What is left in flight when a message has been taken is still in order and
\* newer than everything taken, if the files and the host went no further than
\* that message.
LEMMA TakenKeepsInbox ==
  ASSUME InboundInv, inbox # <<>>, inbox' = Tail(inbox), nonce' = nonce,
         pushed' = pushed, running' = running,
         lkg'.n = lkg.n \/ (Head(inbox).kind # "quota" /\ lkg'.n = Head(inbox).n),
         licence'.n = licence.n \/ (Head(inbox).kind # "quota" /\ licence'.n = Head(inbox).n),
         pc' # "next" => Head(inbox).kind # "quota" /\ cur' = Head(inbox)
  PROVE  InboxInv' /\ inbox' \in Seq(Message)
<1>1. /\ Head(inbox) \in Message /\ Tail(inbox) \in Seq(Message)
      /\ \A i \in 1 .. Len(Tail(inbox)) :
             /\ Tail(inbox)[i].on = nonce
             /\ Tail(inbox)[i].kind # "quota"
                    => /\ Newer(Tail(inbox)[i].n) /\ Tail(inbox)[i].n <= pushed
                       /\ Head(inbox).kind # "quota" => Head(inbox).n < Tail(inbox)[i].n
      /\ \A i, j \in 1 .. Len(Tail(inbox)) :
             i < j /\ Tail(inbox)[i].kind # "quota" /\ Tail(inbox)[j].kind # "quota"
                 => Tail(inbox)[i].n < Tail(inbox)[j].n
  BY InboxTaken
<1>2. ASSUME NEW i \in 1 .. Len(inbox')
      PROVE  /\ inbox'[i].on = nonce'
             /\ inbox'[i].kind # "quota" => Newer(inbox[i].n)' /\ inbox'[i].n <= pushed'
  <2>1. inbox'[i].on = nonce'
    BY <1>1
  <2>2. ASSUME inbox'[i].kind # "quota"
        PROVE  Newer(inbox[i].n)' /\ inbox'[i].n <= pushed'
    <3>1. /\ Newer(inbox'[i].n) /\ inbox'[i].n <= pushed
          /\ Head(inbox).kind # "quota" => Head(inbox).n < inbox'[i].n
      BY <1>1, <2>2
    <3>2. inbox'[i].n > lkg'.n /\ inbox'[i].n > licence'.n /\ inbox'[i].n > running'
      <4>1. /\ inbox'[i].n > lkg.n /\ inbox'[i].n > licence.n /\ inbox'[i].n > running
            /\ Head(inbox).kind # "quota" => inbox'[i].n > Head(inbox).n
        BY <3>1 DEF Newer
      <4> QED
        BY <4>1
    <3>3. pc' # "next" => inbox'[i].n > cur'.n
      BY <3>1
    <3>4. Newer(inbox[i].n)'
      BY <3>2, <3>3 DEF Newer
    <3> QED
      BY <3>1, <3>4
  <2> QED
    BY <2>1, <2>2
<1>3. \A i, j \in 1 .. Len(inbox') :
          i < j /\ inbox'[i].kind # "quota" /\ inbox'[j].kind # "quota"
              => inbox'[i].n < inbox'[j].n
  BY <1>1
<1> QED
  BY <1>1, <1>2, <1>3 DEF InboxInv

\* The bundle goes to disk before the host sees it.
LEMMA TakeConfigKeeps ==
  ASSUME InboundInv, TakeConfig
  PROVE  InboundInv'
<1> DEFINE m == Head(inbox)
<1>1. /\ pc = "next" /\ inbox # <<>> /\ m.kind = "config"
      /\ inbox' = Tail(inbox) /\ cur' = m
      /\ partial' = (partial \/ ~m.named \/ ~m.bundle)
      /\ UNCHANGED <<phase, nonce, open, licence, running, hosted, pushed, cpQuota>>
  BY DEF TakeConfig, Takes, channel, host, cp
<1>2. \/ lkg' = lkg /\ unsaved' = unsaved /\ ~m.bundle
      \/ m.bundle /\ lkg' = [n |-> m.n, named |-> m.named] /\ unsaved' = unsaved
      \/ m.bundle /\ unsaved' = unsaved \union {m.n} /\ lkg' = lkg
  BY DEF TakeConfig, SaveLkg
<1>3. \/ m.bundle /\ "config" \in Hooks /\ pc' = "apply" /\ verdict' = verdict /\ applied' = applied
      \/ /\ ~(m.bundle /\ "config" \in Hooks) /\ pc' = "ack" /\ verdict' = TRUE
         /\ applied' \in {m.n, applied}
  BY DEF TakeConfig, Settle
<1>4. m \in Message /\ Newer(m.n) /\ m.n <= pushed
  BY <1>1, InboxTaken
<1>5. m.n \in Nat /\ m.named \in BOOLEAN /\ m.bundle \in BOOLEAN
  BY <1>4 DEF Message
<1>6. /\ InboundTypeOK /\ SessionInv /\ TakenInv /\ HandlerInv /\ HashInv
      /\ OnDiskFirst /\ ProofNamesChannel
  BY DEF InboundInv
<1>7. lkg.n \in Nat /\ licence.n \in Nat /\ hosted.n \in Nat /\ running \in Nat /\ pushed \in Nat
  BY <1>6 DEF InboundTypeOK, Delivery
<1>8. /\ lkg' \in [n : Nat, named : BOOLEAN] /\ unsaved \subseteq unsaved'
      /\ lkg'.n \in {lkg.n, m.n}
      /\ m.bundle => m.n \in unsaved' \/ lkg'.n = m.n
      /\ lkg' = lkg \/ lkg'.named = m.named
  <2>1. lkg \in [n : Nat, named : BOOLEAN]
    BY <1>6 DEF InboundTypeOK
  <2> QED
    BY <1>2, <1>5, <2>1
<1>9. m.n > lkg.n /\ m.n > licence.n /\ m.n > running
  BY <1>4 DEF Newer
<1> HIDE DEF m
<1>10. InboxInv' /\ inbox' \in Seq(Message)
  <2>1. Head(inbox).kind # "quota" /\ cur' = Head(inbox)
    BY <1>1 DEF m
  <2>2. lkg'.n = lkg.n \/ lkg'.n = Head(inbox).n
    BY <1>8 DEF m
  <2>3. licence'.n = licence.n
    BY <1>1
  <2> QED
    BY <1>1, <2>1, <2>2, <2>3, TakenKeepsInbox
<1>11. InboundTypeOK'
  <2>1. unsaved' \subseteq Nat
    BY <1>2, <1>5, <1>6 DEF InboundTypeOK
  <2>2. applied' \in Nat /\ pc' \in {"apply", "ack"}
    BY <1>3, <1>5, <1>6 DEF InboundTypeOK
  <2>3. verdict' \in BOOLEAN /\ partial' \in BOOLEAN
    BY <1>1, <1>3, <1>6 DEF InboundTypeOK
  <2> QED
    BY <1>1, <1>4, <1>6, <1>8, <1>10, <2>1, <2>2, <2>3 DEF InboundTypeOK
<1>12. SessionInv'
  BY <1>1, <1>6 DEF SessionInv
<1>13. TakenInv'
  BY <1>1, <1>4, <1>6, <1>8 DEF TakenInv
<1>14. HandlerInv'
  BY <1>1, <1>3, <1>5, <1>7, <1>8, <1>9 DEF HandlerInv
<1>15. HashInv'
  BY <1>1, <1>3, <1>6, <1>8 DEF HashInv
<1>16. OnDiskFirst'
  BY <1>1, <1>5, <1>6, <1>7, <1>8, <1>9 DEF OnDiskFirst
<1>17. ProofNamesChannel'
  BY <1>1, <1>6 DEF ProofNamesChannel
<1> QED
  BY <1>10, <1>11, <1>12, <1>13, <1>14, <1>15, <1>16, <1>17 DEF InboundInv

\* The hook runs on a bundle that is saved or known to be unsaved.
LEMMA SwitchKeeps ==
  ASSUME InboundInv, HostSwitches
  PROVE  InboundInv'
<1>1. /\ pc = "apply" /\ running' = cur.n /\ pc' = "applied"
      /\ UNCHANGED <<phase, nonce, open, inbox, cur, verdict, lkg, licence, unsaved,
                     partial, applied, hosted, pushed, cpQuota>>
  BY DEF HostSwitches, channel, disk, cp
<1>2. /\ InboundTypeOK /\ SessionInv /\ InboxInv /\ TakenInv /\ HandlerInv /\ HashInv
      /\ OnDiskFirst /\ ProofNamesChannel
  BY DEF InboundInv
<1>3. cur \in Message /\ cur.n \in Nat
  BY <1>1, <1>2 DEF InboundTypeOK, Message
<1>4. InboundTypeOK'
  BY <1>1, <1>2, <1>3 DEF InboundTypeOK
<1>5. SessionInv' /\ TakenInv'
  BY <1>1, <1>2 DEF SessionInv, TakenInv
<1>6. InboxInv'
  BY <1>1, <1>2 DEF InboxInv, Newer
<1>7. HandlerInv' /\ HashInv'
  BY <1>1, <1>2 DEF HandlerInv, HashInv
<1>8. OnDiskFirst' /\ ProofNamesChannel'
  BY <1>1, <1>2 DEF OnDiskFirst, ProofNamesChannel, HandlerInv
<1> QED
  BY <1>4, <1>5, <1>6, <1>7, <1>8 DEF InboundInv

\* The hash follows the host when the hook returns.
LEMMA ReturnKeeps ==
  ASSUME InboundInv, ApplyReturns
  PROVE  InboundInv'
<1>1. /\ pc \in {"apply", "applied"} /\ verdict' = (pc = "applied") /\ pc' = "ack"
      /\ applied' = IF pc = "applied" /\ cur.named THEN cur.n ELSE applied
      /\ UNCHANGED <<phase, nonce, open, inbox, cur, lkg, licence, unsaved,
                     partial, running, hosted, pushed, cpQuota>>
  BY DEF ApplyReturns, Settle, channel, disk, host, cp
<1>2. /\ InboundTypeOK /\ SessionInv /\ InboxInv /\ TakenInv /\ HandlerInv /\ HashInv
      /\ OnDiskFirst /\ ProofNamesChannel
  BY DEF InboundInv
<1>3. cur \in Message /\ cur.n \in Nat
  BY <1>1, <1>2 DEF InboundTypeOK, Message
<1>4. InboundTypeOK'
  <2>1. applied' \in Nat
    BY <1>1, <1>2, <1>3 DEF InboundTypeOK
  <2> QED
    BY <1>1, <1>2, <1>3, <2>1 DEF InboundTypeOK
<1>5. SessionInv' /\ TakenInv'
  BY <1>1, <1>2 DEF SessionInv, TakenInv
<1>6. InboxInv'
  BY <1>1, <1>2 DEF InboxInv, Newer
<1>7. HandlerInv'
  BY <1>1, <1>2 DEF HandlerInv
<1>8. HashInv'
  BY <1>1, <1>2 DEF HandlerInv, HashInv
<1>9. OnDiskFirst' /\ ProofNamesChannel'
  BY <1>1, <1>2 DEF OnDiskFirst, ProofNamesChannel
<1> QED
  BY <1>4, <1>5, <1>6, <1>7, <1>8, <1>9 DEF InboundInv

\* The handler queues its ack; whatever it says was settled before.
LEMMA AckKeeps ==
  ASSUME InboundInv, Ack
  PROVE  InboundInv'
<1>1. /\ pc = "ack" /\ pc' = "next"
      /\ UNCHANGED <<phase, nonce, open, inbox, cur, verdict, lkg, licence, unsaved,
                     partial, applied, running, hosted, pushed, cpQuota>>
  BY DEF Ack, channel, disk, host, cp
<1>2. InboundTypeOK'
  BY <1>1 DEF InboundInv, InboundTypeOK
<1>3. SessionInv' /\ TakenInv'
  BY <1>1 DEF InboundInv, SessionInv, TakenInv
<1>4. InboxInv'
  BY <1>1 DEF InboundInv, InboxInv, Newer
<1>5. HandlerInv' /\ HashInv'
  BY <1>1 DEF InboundInv, HandlerInv, HashInv
<1>6. OnDiskFirst' /\ ProofNamesChannel'
  BY <1>1 DEF InboundInv, OnDiskFirst, ProofNamesChannel
<1> QED
  BY <1>2, <1>3, <1>4, <1>5, <1>6 DEF InboundInv

\* The delivery goes to disk before the host sees it, with the nonce of the
\* Channel it came down.
LEMMA TakeLicenceKeeps ==
  ASSUME InboundInv, TakeLicence
  PROVE  InboundInv'
<1> DEFINE m == Head(inbox)
<1>1. /\ pc = "next" /\ inbox # <<>> /\ m.kind = "licence"
      /\ inbox' = Tail(inbox) /\ cur' = m /\ pc' \in {"licence", "next"}
      /\ UNCHANGED <<phase, nonce, open, verdict, lkg, partial, applied, running,
                     hosted, pushed, cpQuota>>
  BY DEF TakeLicence, Takes, channel, host, cp
<1>2. \/ licence' = [n |-> m.n, nonce |-> nonce, proof |-> m.on] /\ unsaved' = unsaved
      \/ unsaved' = unsaved \union {m.n} /\ licence' = licence
  BY DEF TakeLicence, SaveLicence, Delivered
<1>3. m \in Message /\ m.on = nonce /\ Newer(m.n) /\ m.n <= pushed
  BY <1>1, InboxTaken
<1>4. m.n \in Nat
  BY <1>3 DEF Message
<1>5. /\ InboundTypeOK /\ SessionInv /\ TakenInv /\ HandlerInv /\ HashInv
      /\ OnDiskFirst /\ ProofNamesChannel
  BY DEF InboundInv
<1>6. /\ lkg.n \in Nat /\ licence.n \in Nat /\ hosted.n \in Nat /\ running \in Nat
      /\ nonce \in Nat /\ licence \in Delivery
  BY <1>5 DEF InboundTypeOK, Delivery
<1>7. /\ licence' \in Delivery /\ unsaved \subseteq unsaved'
      /\ licence'.n \in {licence.n, m.n} /\ licence'.nonce = licence'.proof
      /\ m.n \in unsaved' \/ licence'.n = m.n
  BY <1>2, <1>3, <1>4, <1>5, <1>6 DEF Delivery, ProofNamesChannel
<1>8. m.n > lkg.n /\ m.n > licence.n /\ m.n > running
  BY <1>3 DEF Newer
<1> HIDE DEF m
<1>9. InboxInv' /\ inbox' \in Seq(Message)
  <2>1. Head(inbox).kind # "quota" /\ cur' = Head(inbox)
    BY <1>1 DEF m
  <2>2. licence'.n = licence.n \/ licence'.n = Head(inbox).n
    BY <1>7 DEF m
  <2>3. lkg'.n = lkg.n
    BY <1>1
  <2> QED
    BY <1>1, <2>1, <2>2, <2>3, TakenKeepsInbox
<1>10. InboundTypeOK'
  <2>1. unsaved' \subseteq Nat
    BY <1>2, <1>4, <1>5 DEF InboundTypeOK
  <2> QED
    BY <1>1, <1>3, <1>5, <1>7, <1>9, <2>1 DEF InboundTypeOK
<1>11. SessionInv' /\ TakenInv'
  BY <1>1, <1>3, <1>5, <1>7 DEF SessionInv, TakenInv
<1>12. HandlerInv'
  BY <1>1, <1>3, <1>4, <1>7 DEF HandlerInv
<1>13. HashInv'
  BY <1>1, <1>5 DEF HashInv
<1>14. OnDiskFirst' /\ ProofNamesChannel'
  BY <1>1, <1>4, <1>5, <1>6, <1>7, <1>8 DEF OnDiskFirst, ProofNamesChannel
<1> QED
  BY <1>9, <1>10, <1>11, <1>12, <1>13, <1>14 DEF InboundInv

\* The host is given a licence that is on disk already.
LEMMA HostLicenceKeeps ==
  ASSUME InboundInv, HostTakesLicence
  PROVE  InboundInv'
<1>1. /\ pc = "licence" /\ pc' = "next"
      /\ hosted' = [n |-> cur.n, nonce |-> nonce, proof |-> cur.on]
      /\ UNCHANGED <<phase, nonce, open, inbox, cur, verdict, lkg, licence, unsaved,
                     partial, applied, running, pushed, cpQuota>>
  BY DEF HostTakesLicence, Delivered, channel, disk, cp
<1>2. /\ InboundTypeOK /\ SessionInv /\ InboxInv /\ TakenInv /\ HandlerInv /\ HashInv
      /\ OnDiskFirst /\ ProofNamesChannel
  BY DEF InboundInv
<1>3. cur \in Message /\ cur.n \in Nat /\ cur.on = nonce /\ nonce \in Nat
  BY <1>1, <1>2 DEF InboundTypeOK, Message, HandlerInv
<1>4. hosted' \in Delivery /\ hosted'.n = cur.n /\ hosted'.nonce = hosted'.proof
  BY <1>1, <1>3 DEF Delivery
<1>5. InboundTypeOK'
  BY <1>1, <1>2, <1>4 DEF InboundTypeOK
<1>6. SessionInv' /\ TakenInv'
  BY <1>1, <1>2 DEF SessionInv, TakenInv
<1>7. InboxInv'
  BY <1>1, <1>2 DEF InboxInv, Newer
<1>8. HandlerInv' /\ HashInv'
  BY <1>1, <1>2 DEF HandlerInv, HashInv
<1>9. OnDiskFirst' /\ ProofNamesChannel'
  BY <1>1, <1>2, <1>4 DEF OnDiskFirst, ProofNamesChannel, HandlerInv
<1> QED
  BY <1>5, <1>6, <1>7, <1>8, <1>9 DEF InboundInv

\* A quota push replaces the cell and nothing else.
LEMMA QuotaKeeps ==
  ASSUME InboundInv, TakeQuota
  PROVE  InboundInv'
<1>1. /\ pc = "next" /\ inbox # <<>> /\ inbox' = Tail(inbox)
      /\ UNCHANGED <<phase, nonce, open, pc, cur, verdict, lkg, licence, unsaved,
                     partial, applied, running, hosted, pushed, cpQuota>>
  BY DEF TakeQuota, Takes, channel, handler, disk, host, cp
<1>2. InboxInv' /\ inbox' \in Seq(Message)
  BY <1>1, TakenKeepsInbox
<1>3. InboundTypeOK'
  BY <1>1, <1>2 DEF InboundInv, InboundTypeOK
<1>4. SessionInv'
  <2>1. phase = "up"
    BY <1>1 DEF InboundInv, InboundTypeOK, SessionInv
  <2> QED
    BY <1>1, <2>1 DEF SessionInv
<1>5. TakenInv' /\ HandlerInv' /\ HashInv'
  BY <1>1 DEF InboundInv, TakenInv, HandlerInv, HashInv
<1>6. OnDiskFirst' /\ ProofNamesChannel'
  BY <1>1 DEF InboundInv, OnDiskFirst, ProofNamesChannel
<1> QED
  BY <1>2, <1>3, <1>4, <1>5, <1>6 DEF InboundInv

----------------------------------------------------------------------------
\* Steps of the session and the process.

\* A session ends between two pushes, and its inbox and queue go with it.
LEMMA EndKeeps ==
  ASSUME InboundInv, SessionEnds
  PROVE  InboundInv'
<1>1. /\ pc = "next" /\ phase' = "down" /\ open' = FALSE /\ inbox' = <<>>
      /\ UNCHANGED <<nonce, pc, cur, verdict, lkg, licence, unsaved, partial, applied,
                     running, hosted, pushed, cpQuota>>
  BY DEF SessionEnds, SessionOver, handler, disk, host, cp
<1>2. inbox' \in Seq(Message) /\ Len(inbox') = 0
  BY <1>1
<1>3. InboundTypeOK'
  BY <1>1, <1>2 DEF InboundInv, InboundTypeOK
<1>4. SessionInv' /\ TakenInv'
  BY <1>1 DEF InboundInv, SessionInv, TakenInv
<1>5. InboxInv'
  BY <1>2 DEF InboxInv
<1>6. HandlerInv' /\ HashInv'
  BY <1>1 DEF InboundInv, HandlerInv, HashInv
<1>7. OnDiskFirst' /\ ProofNamesChannel'
  BY <1>1 DEF InboundInv, OnDiskFirst, ProofNamesChannel
<1> QED
  BY <1>3, <1>4, <1>5, <1>6, <1>7 DEF InboundInv

\* A new nonce is drawn while nothing of the last Channel is in flight.
LEMMA OpenKeeps ==
  ASSUME InboundInv, Opens
  PROVE  InboundInv'
<1>1. /\ phase = "down" /\ phase' = "up" /\ nonce' = nonce + 1 /\ open' = TRUE
      /\ UNCHANGED <<inbox, pc, cur, verdict, lkg, licence, unsaved, partial, applied,
                     running, hosted, pushed, cpQuota>>
  BY DEF Opens, handler, disk, host, cp
<1>2. pc = "next" /\ inbox = <<>>
  BY <1>1 DEF InboundInv, SessionInv
<1>3. Len(inbox') = 0
  BY <1>1, <1>2
<1>4. InboundTypeOK'
  BY <1>1 DEF InboundInv, InboundTypeOK
<1>5. SessionInv' /\ TakenInv'
  BY <1>1 DEF InboundInv, SessionInv, TakenInv
<1>6. InboxInv'
  BY <1>3 DEF InboxInv
<1>7. HandlerInv' /\ HashInv'
  BY <1>1, <1>2 DEF InboundInv, HandlerInv, HashInv
<1>8. OnDiskFirst' /\ ProofNamesChannel'
  BY <1>1 DEF InboundInv, OnDiskFirst, ProofNamesChannel
<1> QED
  BY <1>4, <1>5, <1>6, <1>7, <1>8 DEF InboundInv

\* A death at any await leaves the files.
LEMMA DeathKeeps ==
  ASSUME InboundInv, Dies
  PROVE  InboundInv'
<1>1. /\ phase' = "dead" /\ open' = FALSE /\ inbox' = <<>> /\ pc' = "next"
      /\ applied' = 0 /\ running' = 0 /\ hosted' = NoDelivery
      /\ UNCHANGED <<nonce, cur, verdict, lkg, licence, unsaved, partial, pushed, cpQuota>>
  BY DEF Dies, disk, cp
<1>2. inbox' \in Seq(Message) /\ Len(inbox') = 0
  BY <1>1
<1>3. /\ NoDelivery \in Delivery /\ NoDelivery.n = 0
      /\ NoDelivery.nonce = NoDelivery.proof
  BY DEF NoDelivery, Delivery
<1>4. InboundTypeOK /\ TakenInv /\ HashInv /\ ProofNamesChannel
  BY DEF InboundInv
<1>5. lkg.n \in Nat /\ licence.n \in Nat /\ pushed \in Nat
  BY <1>4 DEF InboundTypeOK, Delivery
<1>6. InboundTypeOK'
  BY <1>1, <1>2, <1>3, <1>4 DEF InboundTypeOK
<1>7. SessionInv' /\ HandlerInv'
  BY <1>1 DEF SessionInv, HandlerInv
<1>8. InboxInv'
  BY <1>2 DEF InboxInv
<1>9. TakenInv' /\ HashInv'
  BY <1>1, <1>4, <1>5 DEF TakenInv, HashInv
<1>10. OnDiskFirst' /\ ProofNamesChannel'
  BY <1>1, <1>3, <1>4, <1>5 DEF OnDiskFirst, ProofNamesChannel
<1> QED
  BY <1>6, <1>7, <1>8, <1>9, <1>10 DEF InboundInv

\* The next life starts from them.
LEMMA BootKeeps ==
  ASSUME InboundInv, Boots
  PROVE  InboundInv'
<1>1. /\ phase = "dead" /\ phase' = "down"
      /\ applied' = (IF lkg.named THEN lkg.n ELSE 0)
      /\ running' \in {0, lkg.n} /\ hosted' = licence
      /\ UNCHANGED <<nonce, open, inbox, pc, cur, verdict, lkg, licence, unsaved,
                     partial, pushed, cpQuota>>
  BY DEF Boots, handler, disk, cp
<1>2. /\ InboundTypeOK /\ SessionInv /\ TakenInv /\ HashInv /\ ProofNamesChannel
  BY DEF InboundInv
<1>3. pc = "next" /\ inbox = <<>> /\ ~open
  BY <1>1, <1>2 DEF SessionInv
<1>4. lkg.n \in Nat /\ licence.n \in Nat /\ pushed \in Nat /\ lkg.named \in BOOLEAN
  BY <1>2 DEF InboundTypeOK, Delivery
<1>5. Len(inbox') = 0
  BY <1>1, <1>3
<1>6. InboundTypeOK'
  <2>1. applied' \in Nat /\ running' \in Nat
    BY <1>1, <1>4
  <2> QED
    BY <1>1, <1>2, <2>1 DEF InboundTypeOK
<1>7. SessionInv' /\ HandlerInv'
  BY <1>1, <1>3 DEF SessionInv, HandlerInv
<1>8. InboxInv'
  BY <1>5 DEF InboxInv
<1>9. TakenInv' /\ HashInv'
  BY <1>1, <1>2, <1>3, <1>4 DEF TakenInv, HashInv
<1>10. OnDiskFirst' /\ ProofNamesChannel'
  BY <1>1, <1>2, <1>4 DEF OnDiskFirst, ProofNamesChannel
<1> QED
  BY <1>6, <1>7, <1>8, <1>9, <1>10 DEF InboundInv

----------------------------------------------------------------------------

\* Every step keeps the invariant.
THEOREM InboundStep == InboundInv /\ [Next]_vars => InboundInv'
<1> SUFFICES ASSUME InboundInv, [Next]_vars PROVE InboundInv'
  OBVIOUS
<1> DEFINE tracked == <<phase, nonce, open, inbox, pc, cur, verdict, lkg, licence,
                        unsaved, partial, applied, running, hosted, pushed>>
<1>0. cpQuota \in Nat
  BY DEF InboundInv, InboundTypeOK
<1>1. ASSUME NEW shape \in Shapes, CpPush("config", shape) PROVE InboundInv'
  BY <1>1, InboundAssumption, PushKeeps
<1>2. ASSUME NEW k \in {"licence", "quarantine"}, CpPush(k, Whole) PROVE InboundInv'
  <2>1. Whole \in [named : BOOLEAN, bundle : BOOLEAN]
    BY DEF Whole
  <2> QED
    BY <1>2, <2>1, PushKeeps
<1>3. CASE CpQuotaChanges
  BY <1>3, QuietKeeps DEF CpQuotaChanges, channel, handler, disk, host
<1>4. CASE StatusLoop \/ Heartbeat
  <2>1. UNCHANGED tracked /\ cpQuota' = cpQuota
    BY <1>4 DEF StatusLoop, StatusSnapshot, StatusHash, StatusSend, Heartbeat,
                channel, handler, disk, host, cp
  <2> QED
    BY <1>0, <2>1, QuietKeeps
<1>5. CASE UNCHANGED vars
  BY <1>0, <1>5, QuietKeeps DEF vars, channel, handler, disk, host, cp
<1>6. CASE Transmit \/ StreamLost
  BY <1>6, TransmitKeeps, LossKeeps
<1>7. CASE ReadInbound
  BY <1>7, TakeConfigKeeps, SwitchKeeps, ReturnKeeps, AckKeeps, TakeLicenceKeeps,
     HostLicenceKeeps, QuotaKeeps, EndKeeps DEF ReadInbound
<1>8. CASE Opens \/ Dies \/ Boots
  BY <1>8, OpenKeeps, DeathKeeps, BootKeeps
<1> QED
  BY <1>1, <1>2, <1>3, <1>4, <1>5, <1>6, <1>7, <1>8 DEF Next

\* The handler, the files, the host and what is on its way to the control plane
\* agree at every await, with reconnects, crashes and restarts at any of them
\* (agent.rs, read_inbound).
THEOREM InboundInvariant == Spec => []InboundInv
BY InboundInitially, InboundStep, PTL DEF Spec

\* What the host runs is never newer than what a restart would find, unless the
\* file could not be written (read_inbound saves before it applies).
THEOREM SavedBeforeApplied == Spec => []OnDiskFirst
<1>1. InboundInv => OnDiskFirst
  BY DEF InboundInv
<1> QED
  BY <1>1, InboundInvariant, PTL

\* The hash recorded is that of the config the host runs, between updates, when
\* the host has a ConfigApplier and every update named its hash and its bundle.
THEOREM HashFollowsTheHost == Spec => []SettledHash
<1>1. InboundInv => SettledHash
  BY DEF InboundInv, HashInv, SettledHash
<1> QED
  BY <1>1, InboundInvariant, PTL

\* The nonce a delivery is kept and handed on with is that of the Channel it
\* came down.
THEOREM DeliveriesNameTheirChannel == Spec => []ProofNamesChannel
<1>1. InboundInv => ProofNamesChannel
  BY DEF InboundInv
<1> QED
  BY <1>1, InboundInvariant, PTL

\* An ack says what the host runs when it is queued.
THEOREM AcksAreTruthful == Spec => AckIsTruthful
<1> DEFINE truthful == \A a \in acked' \ acked :
                           a.asked /\ "config" \in Hooks => (a.ok <=> running = a.n)
<1>1. ASSUME InboundInv, [Next]_vars PROVE [truthful]_vars
  <2>1. CASE Ack
    <3>1. pc = "ack"
      BY <2>1 DEF Ack
    <3>2. ASSUME NEW a \in acked' \ acked
          PROVE  a = [n |-> cur.n, ok |-> verdict, asked |-> cur.bundle]
      BY <2>1, <3>2 DEF Ack, AckSends
    <3>3. cur.bundle /\ "config" \in Hooks => (verdict <=> running = cur.n)
      BY <1>1, <3>1 DEF InboundInv, HandlerInv
    <3>4. ASSUME NEW a \in acked' \ acked, a.asked, "config" \in Hooks
          PROVE  a.ok <=> running = a.n
      <4>1. a.n = cur.n /\ a.ok = verdict /\ a.asked = cur.bundle
        BY <3>2
      <4> QED
        BY <3>3, <3>4, <4>1
    <3> QED
      BY <3>4
  <2>2. CASE ~Ack
    <3>1. acked' = acked
      BY <1>1, <2>2 DEF Next, CpPush, CpQuotaChanges, Transmit, StreamLost, ReadInbound,
         TakeConfig, HostSwitches, ApplyReturns, TakeLicence, HostTakesLicence, TakeQuota,
         SessionEnds, StatusLoop, StatusSnapshot, StatusHash, StatusSend, Heartbeat,
         Opens, Dies, Boots, vars
    <3> QED
      BY <3>1
  <2> QED
    BY <2>1, <2>2
<1> QED
  BY <1>1, InboundInvariant, PTL DEF Spec, AckIsTruthful

============================================================================
