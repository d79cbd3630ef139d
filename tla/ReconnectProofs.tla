-------------------------- MODULE ReconnectProofs --------------------------
(***************************************************************************)
(* Proofs about Reconnect, for any delays, caps, leases, token lifetimes   *)
(* and connect times that satisfy ReconnectAssumption.                     *)
(***************************************************************************)
EXTENDS Reconnect, NaturalsInduction, WellFoundedInduction, TLAPS

----------------------------------------------------------------------------
\* The recursive functions.  Each is the function its equation describes, which
\* has to be shown to exist; both facts come from a least counterexample.

\* A set of numbers that is not empty has a least one.
LEMMA LeastOf ==
  ASSUME NEW T, T \subseteq Nat, T # {}
  PROVE  \E m \in T : \A n \in T : m <= n
<1> DEFINE R == OpToRel(<, Nat)
<1>1. IsWellFoundedOn(R, Nat)
  BY NatLessThanWellFounded
<1>2. \A n, m \in Nat : n < m => <<n, m>> \in R
  BY DEF OpToRel
<1> HIDE DEF R
<1>3. PICK m \in T : \A n \in T : ~(<<n, m>> \in R)
  BY <1>1, WFMin
<1>4. ASSUME NEW n \in T PROVE m <= n
  <2>1. m \in Nat /\ n \in Nat /\ ~(n < m)
    BY <1>2, <1>3
  <2> QED
    BY <2>1
<1> QED
  BY <1>4

\* f doubles from 1 up to the k-th step.
Doubles(f, k) == f = [e \in 0 .. k |-> IF e = 0 THEN 1 ELSE 2 * f[e - 1]]

\* The doubling sequence exists up to any length.
LEMMA DoublesExists ==
  ASSUME NEW k \in Nat
  PROVE  \E f : Doubles(f, k)
<1> DEFINE T == {n \in Nat : ~ \E f : Doubles(f, n)}
<1> SUFFICES ASSUME T # {} PROVE FALSE
  OBVIOUS
<1>1. PICK m \in T : \A n \in T : m <= n
  BY LeastOf
<1>2. m \in Nat /\ ~ \E f : Doubles(f, m)
  OBVIOUS
<1>3. CASE m = 0
  <2> DEFINE g == [e \in 0 .. 0 |-> 1]
  <2>1. g = [e \in 0 .. 0 |-> IF e = 0 THEN 1 ELSE 2 * g[e - 1]]
    OBVIOUS
  <2> QED
    BY <1>2, <1>3, <2>1 DEF Doubles
<1>4. CASE m # 0
  <2>1. m - 1 \in Nat /\ m - 1 \notin T
    BY <1>1, <1>2, <1>4
  <2>2. PICK f : Doubles(f, m - 1)
    BY <2>1
  <2> DEFINE g == [e \in 0 .. m |-> IF e = m THEN 2 * f[m - 1] ELSE f[e]]
  <2>3. ASSUME NEW e \in 0 .. m
        PROVE  g[e] = IF e = 0 THEN 1 ELSE 2 * g[e - 1]
    <3>1. CASE e = m
      BY <1>2, <1>4, <3>1
    <3>2. CASE e # m
      <4>1. e \in 0 .. (m - 1)
        BY <1>2, <3>2
      <4>2. f[e] = IF e = 0 THEN 1 ELSE 2 * f[e - 1]
        BY <2>2, <4>1 DEF Doubles
      <4>3. e # 0 => e - 1 \in 0 .. m /\ e - 1 # m
        BY <1>2, <4>1
      <4> QED
        BY <3>2, <4>2, <4>3
    <3> QED
      BY <3>1, <3>2
  <2>4. g = [e \in 0 .. m |-> IF e = 0 THEN 1 ELSE 2 * g[e - 1]]
    BY <2>3
  <2> QED
    BY <1>2, <2>4 DEF Doubles
<1> QED
  BY <1>3, <1>4

\* What the shift computes.
LEMMA ShiftedDoubles ==
  /\ Shifted[0] = 1
  /\ \A e \in 1 .. ExpCap : Shifted[e] = 2 * Shifted[e - 1]
  /\ \A e \in 0 .. ExpCap : Shifted[e] \in Nat
<1>0. ExpCap \in Nat
  BY ReconnectAssumption
<1>1. \E f : Doubles(f, ExpCap)
  BY <1>0, DoublesExists
<1>2. Shifted = CHOOSE f : Doubles(f, ExpCap)
  BY DEF Shifted, Doubles
<1>3. Doubles(Shifted, ExpCap)
  BY <1>1, <1>2
<1>4. \A e \in 0 .. ExpCap : Shifted[e] = IF e = 0 THEN 1 ELSE 2 * Shifted[e - 1]
  BY <1>3 DEF Doubles
<1>5. Shifted[0] = 1 /\ \A e \in 1 .. ExpCap : Shifted[e] = 2 * Shifted[e - 1]
  BY <1>0, <1>4
<1>6. \A e \in 0 .. ExpCap : Shifted[e] \in Nat
  <2> DEFINE T == {n \in Nat : n \in 0 .. ExpCap /\ Shifted[n] \notin Nat}
  <2> SUFFICES ASSUME T # {} PROVE FALSE
    BY <1>0
  <2>1. PICK m \in T : \A n \in T : m <= n
    BY LeastOf
  <2>2. m \in 1 .. ExpCap /\ Shifted[m] \notin Nat
    BY <1>0, <1>5
  <2>3. Shifted[m - 1] \in Nat
    BY <1>0, <2>1, <2>2
  <2> QED
    BY <1>5, <2>2, <2>3
<1> QED
  BY <1>5, <1>6

\* The delay before jitter: it doubles from Initial up to Maximum, where it
\* stays, and quarters divide it.
LEMMA BoundedDelays ==
  /\ Bounded(0) = MinOf(Initial, Maximum)
  /\ \A n \in Nat : /\ Bounded(n) \in Nat /\ Bounded(n) <= Maximum
                    /\ \E q \in Nat : Bounded(n) = 4 * q
                    /\ Bounded(n + 1) = MinOf(2 * Bounded(n), Maximum)
                    /\ n >= ExpCap => Bounded(n) = Maximum
<1>1. /\ Initial \in Nat /\ Maximum \in Nat /\ ExpCap \in Nat
      /\ Initial % 4 = 0 /\ Maximum % 4 = 0 /\ Initial * Shifted[ExpCap] >= Maximum
  BY ReconnectAssumption
<1>2. PICK a \in Nat : Initial = 4 * a
  BY <1>1
<1>3. PICK b \in Nat : Maximum = 4 * b
  BY <1>1
<1> DEFINE raw(n) == Initial * Shifted[MinOf(n, ExpCap)]
<1>4. ASSUME NEW n \in Nat
      PROVE  MinOf(n, ExpCap) \in 0 .. ExpCap /\ Shifted[MinOf(n, ExpCap)] \in Nat
  <2>1. MinOf(n, ExpCap) \in 0 .. ExpCap
    BY <1>1 DEF MinOf
  <2> QED
    BY <2>1, ShiftedDoubles
<1>5. ASSUME NEW n \in Nat
      PROVE  \E q \in Nat : raw(n) = 4 * q
  <2> DEFINE s == Shifted[MinOf(n, ExpCap)]
  <2>1. s \in Nat
    BY <1>4
  <2> HIDE DEF s
  <2>2. a * s \in Nat /\ Initial * s = 4 * (a * s)
    BY <1>2, <2>1
  <2> QED
    BY <2>2 DEF s
<1>6. ASSUME NEW n \in Nat, n < ExpCap
      PROVE  raw(n + 1) = 2 * raw(n)
  <2>1. MinOf(n, ExpCap) = n /\ MinOf(n + 1, ExpCap) = n + 1 /\ n + 1 \in 1 .. ExpCap
    BY <1>1, <1>6 DEF MinOf
  <2>2. Shifted[n + 1] = 2 * Shifted[n] /\ Shifted[n] \in Nat
    <3>1. (n + 1) - 1 = n
      OBVIOUS
    <3> QED
      BY <1>4, <2>1, <3>1, ShiftedDoubles
  <2>3. Initial * (2 * Shifted[n]) = 2 * (Initial * Shifted[n])
    BY <1>1, <2>2
  <2> QED
    BY <2>1, <2>2, <2>3
<1>7. ASSUME NEW n \in Nat, n >= ExpCap
      PROVE  raw(n) = Initial * Shifted[ExpCap]
  <2>1. MinOf(n, ExpCap) = ExpCap
    BY <1>1, <1>7 DEF MinOf
  <2> QED
    BY <2>1
<1>8. raw(0) = Initial
  <2>1. MinOf(0, ExpCap) = 0
    BY <1>1 DEF MinOf
  <2> QED
    BY <1>1, <2>1, ShiftedDoubles
<1>9. \A n : Bounded(n) = MinOf(raw(n), Maximum)
  BY DEF Bounded
<1> HIDE DEF raw
<1>10. ASSUME NEW n \in Nat
       PROVE  /\ Bounded(n) \in Nat /\ Bounded(n) <= Maximum
              /\ \E q \in Nat : Bounded(n) = 4 * q
              /\ n >= ExpCap => Bounded(n) = Maximum
  <2>1. PICK q \in Nat : raw(n) = 4 * q
    BY <1>5
  <2>2. Bounded(n) = raw(n) \/ Bounded(n) = Maximum
    BY <1>9 DEF MinOf
  <2>3. raw(n) \in Nat /\ Bounded(n) <= Maximum
    BY <1>1, <1>9, <2>1 DEF MinOf
  <2>4. n >= ExpCap => Bounded(n) = Maximum
    BY <1>1, <1>7, <1>9, <2>3 DEF MinOf
  <2> QED
    BY <1>1, <1>3, <2>1, <2>2, <2>3, <2>4
<1>11. ASSUME NEW n \in Nat
       PROVE  Bounded(n + 1) = MinOf(2 * Bounded(n), Maximum)
  <2>1. raw(n) \in Nat
    BY <1>5
  <2>2. CASE n < ExpCap
    BY <1>1, <1>6, <1>9, <2>1, <2>2 DEF MinOf
  <2>3. CASE n >= ExpCap
    <3>1. n + 1 \in Nat /\ n + 1 >= ExpCap
      BY <1>1, <2>3
    <3>2. Bounded(n) = Maximum /\ Bounded(n + 1) = Maximum
      BY <1>10, <2>3, <3>1
    <3> QED
      BY <1>1, <3>2 DEF MinOf
  <2> QED
    BY <1>1, <2>2, <2>3
<1>12. Bounded(0) = MinOf(Initial, Maximum)
  BY <1>8, <1>9
<1> QED
  BY <1>10, <1>11, <1>12

\* The sequence the properties speak of is the one the code computes.
LEMMA DoublingIsBounded ==
  \A n \in 0 .. MaxAttempt : Doubling[n] = Bounded(n)
<1> DEFINE step(f) == [n \in 0 .. MaxAttempt |->
                         IF n = 0 THEN MinOf(Initial, Maximum) ELSE MinOf(2 * f[n - 1], Maximum)]
           g == [n \in 0 .. MaxAttempt |-> Bounded(n)]
<1>0. MaxAttempt \in Nat
  BY ReconnectAssumption
<1>1. \A n \in 1 .. MaxAttempt : Bounded(n) = MinOf(2 * Bounded(n - 1), Maximum)
  <2> SUFFICES ASSUME NEW n \in 1 .. MaxAttempt
               PROVE  Bounded(n) = MinOf(2 * Bounded(n - 1), Maximum)
    OBVIOUS
  <2>1. n - 1 \in Nat /\ (n - 1) + 1 = n
    BY <1>0
  <2> QED
    BY <2>1, BoundedDelays
<1>2. g = step(g)
  <2>1. ASSUME NEW n \in 0 .. MaxAttempt
        PROVE  g[n] = IF n = 0 THEN MinOf(Initial, Maximum) ELSE MinOf(2 * g[n - 1], Maximum)
    <3>1. CASE n = 0
      BY <3>1, BoundedDelays
    <3>2. CASE n # 0
      <4>1. n \in 1 .. MaxAttempt /\ n - 1 \in 0 .. MaxAttempt
        BY <1>0, <3>2
      <4>2. g[n] = Bounded(n) /\ g[n - 1] = Bounded(n - 1)
        BY <4>1
      <4> QED
        BY <1>1, <3>2, <4>1, <4>2
    <3> QED
      BY <3>1, <3>2
  <2> QED
    BY <2>1
<1>3. Doubling = CHOOSE f : f = step(f)
  BY DEF Doubling
<1>4. Doubling = step(Doubling)
  BY <1>2, <1>3
<1>5. \A n \in 0 .. MaxAttempt :
        Doubling[n] = IF n = 0 THEN MinOf(Initial, Maximum)
                      ELSE MinOf(2 * Doubling[n - 1], Maximum)
  BY <1>4
<1> DEFINE T == {n \in Nat : n \in 0 .. MaxAttempt /\ Doubling[n] # Bounded(n)}
<1> SUFFICES ASSUME T # {} PROVE FALSE
  BY <1>0
<1>6. PICK m \in T : \A n \in T : m <= n
  BY LeastOf
<1>7. m \in 1 .. MaxAttempt /\ Doubling[m] # Bounded(m)
  <2>1. m \in 0 .. MaxAttempt /\ Doubling[m] # Bounded(m)
    OBVIOUS
  <2>2. 0 \in 0 .. MaxAttempt
    BY <1>0
  <2>3. Doubling[0] = MinOf(Initial, Maximum)
    BY <1>5, <2>2
  <2>4. m # 0
    BY <2>1, <2>3, BoundedDelays
  <2> QED
    BY <1>0, <2>1, <2>4
<1>8. Doubling[m - 1] = Bounded(m - 1)
  BY <1>0, <1>6, <1>7
<1> QED
  BY <1>0, <1>1, <1>5, <1>7, <1>8

----------------------------------------------------------------------------
\* The inductive invariant.

PaceTypeOK ==
    /\ pc \in {"top", "enrol", "open", "asked", "up", "sleep"}
    /\ cause \in {"error", "rejected", "slot", "register"} /\ back \in {"top", "open"}
    /\ attempt \in 0 .. MaxAttempt /\ tries \in 0 .. MaxAttempt
    /\ delay \in Nat /\ left \in Nat /\ hold \in 0 .. Lease
    /\ waited \in BOOLEAN /\ since \in 0 .. Maximum

\* The counter of the backoff counts the failed sessions.
CountInv == fails = attempt

\* A connect starts with more validity than it takes.
TokenInv ==
    HasEnrollment => /\ pc = "open" => left > ConnectMax
                     /\ pc = "asked" => left > 0

\* The sleep after a refusal outlasts the lease, unless the holder has spoken.
SlotInv ==
    waited => hold = 0 \/ (pc = "sleep" /\ cause = "slot" /\ hold <= delay)

\* The delay a failed session has earned is being slept, or has been.
Pays == pc = "sleep" /\ cause \in {"error", "rejected"}

SpaceInv ==
    fails > 0 => /\ Pays => 4 * (since + delay) >= 3 * Doubling[fails - 1]
                 /\ ~Pays => 4 * since >= 3 * Doubling[fails - 1]

SleepInv ==
    pc = "sleep" =>
        /\ cause = "slot" => delay <= SlotMax
        /\ cause = "register" => tries > 0 /\ 4 * delay <= 5 * Doubling[tries - 1]
        /\ cause \in {"error", "rejected"} => fails > 0 /\ 4 * delay <= 5 * Doubling[fails - 1]

PaceInv == PaceTypeOK /\ CountInv /\ TokenInv /\ SlotInv /\ SpaceInv /\ SleepInv

\* The constants are numbers, related as ReconnectAssumption says.
LEMMA Numbers ==
  /\ {Initial, Maximum, ExpCap, MaxAttempt, SlotMax, Margin, Lease, Life, Window,
      ConnectMax} \subseteq Nat
  /\ ExpCap < MaxAttempt /\ Margin > 0 /\ Lease <= SlotMax
  /\ 2 * ConnectMax < Life /\ ConnectMax < Window
  /\ HasEnrollment \in BOOLEAN /\ Spans \subseteq Nat
<1>1. Window \in Nat
  <2>1. MinWindow \in Nat /\ 3 * Heartbeat \in Nat
    BY ReconnectAssumption
  <2> QED
    BY <2>1 DEF Window, MaxOf
<1> QED
  BY <1>1, ReconnectAssumption

\* Time that passes uses up the token and the lease.
LEMMA TimePasses ==
  ASSUME PaceTypeOK, NEW d \in Nat, Passes(d)
  PROVE  /\ left' \in Nat /\ (left > d => left' > 0)
         /\ hold' \in 0 .. Lease /\ hold' <= hold /\ (hold <= d => hold' = 0)
         /\ since' \in 0 .. Maximum /\ since' >= since
         /\ since' = Maximum \/ since' = since + d
<1>1. left \in Nat /\ hold \in 0 .. Lease /\ since \in 0 .. Maximum
  BY DEF PaceTypeOK
<1>2. Lease \in Nat /\ Maximum \in Nat
  BY Numbers
<1>3. left' \in Nat /\ (left > d => left' > 0)
  BY <1>1 DEF Passes, Minus
<1>4. hold' \in 0 .. Lease /\ hold' <= hold /\ (hold <= d => hold' = 0)
  BY <1>1, <1>2 DEF Passes, Minus
<1>5. /\ since' \in 0 .. Maximum /\ since' >= since
      /\ since' = Maximum \/ since' = since + d
  BY <1>1, <1>2 DEF Passes, MinOf
<1> QED
  BY <1>3, <1>4, <1>5

\* The n-th failure is answered by three to five quarters of the n-th delay,
\* also where the counter saturates: the delay has reached its maximum there.
LEMMA DelayEarned ==
  ASSUME NEW n \in 0 .. MaxAttempt, NEW d \in NextDelay(n)
  PROVE  /\ d \in Nat /\ Bumped(n) \in 1 .. MaxAttempt
         /\ 4 * d >= 3 * Doubling[Bumped(n) - 1]
         /\ 4 * d <= 5 * Doubling[Bumped(n) - 1]
<1>1. MaxAttempt \in Nat /\ ExpCap \in Nat /\ ExpCap < MaxAttempt
  BY Numbers
<1>2. Bumped(n) \in 1 .. MaxAttempt
  BY <1>1 DEF Bumped, MinOf
<1>3. Bounded(Bumped(n) - 1) = Bounded(n)
  <2>1. CASE n < MaxAttempt
    <3>1. Bumped(n) - 1 = n
      BY <1>1, <2>1 DEF Bumped, MinOf
    <3> QED
      BY <3>1
  <2>2. CASE n = MaxAttempt
    <3>1. Bumped(n) = MaxAttempt
      BY <1>1, <2>2 DEF Bumped, MinOf
    <3>2. n \in Nat /\ n >= ExpCap /\ Bumped(n) - 1 \in Nat /\ Bumped(n) - 1 >= ExpCap
      BY <1>1, <2>2, <3>1
    <3> QED
      BY <3>2, BoundedDelays
  <2> QED
    BY <1>1, <2>1, <2>2
<1>4. n \in Nat
  BY <1>1
<1>5. PICK q \in Nat : Bounded(n) = 4 * q
  BY <1>4, BoundedDelays
<1>6. d \in (3 * (4 * q)) \div 4 .. (5 * (4 * q)) \div 4
  BY <1>5 DEF NextDelay
<1>7. d \in Nat /\ 4 * d >= 3 * (4 * q) /\ 4 * d <= 5 * (4 * q)
  BY <1>6
<1>8. Doubling[Bumped(n) - 1] = 4 * q
  <2>1. Bumped(n) - 1 \in 0 .. MaxAttempt
    BY <1>1, <1>2
  <2> QED
    BY <1>3, <1>5, <2>1, DoublingIsBounded
<1> QED
  BY <1>2, <1>7, <1>8

----------------------------------------------------------------------------

\* The loop starts in the invariant.
THEOREM PaceInitially == Init => PaceInv
<1> SUFFICES ASSUME Init PROVE PaceInv
  OBVIOUS
<1>1. PaceTypeOK
  <2>1. waited \in BOOLEAN
    BY DEF Init
  <2>2. hold \in 0 .. Lease /\ left \in Nat /\ since \in 0 .. Maximum
    BY Numbers DEF Init
  <2>3. attempt \in 0 .. MaxAttempt /\ tries \in 0 .. MaxAttempt /\ delay \in Nat
    BY Numbers DEF Init
  <2> QED
    BY <2>1, <2>2, <2>3 DEF Init, PaceTypeOK
<1>2. CountInv /\ TokenInv /\ SlotInv /\ SpaceInv /\ SleepInv
  BY DEF Init, CountInv, TokenInv, SlotInv, SpaceInv, SleepInv
<1> QED
  BY <1>1, <1>2 DEF PaceInv

\* A failed session is answered by the delay it has earned.
LEMMA FailsKeeps ==
  ASSUME PaceInv, NEW how \in {"error", "rejected"}, Fails(how)
  PROVE  PaceInv'
<1>1. /\ delay' \in NextDelay(attempt) /\ attempt' = Bumped(attempt)
      /\ fails' = Bumped(fails) /\ since' = 0 /\ waited' = FALSE
      /\ pc' = "sleep" /\ cause' = how /\ back' = "top" /\ tries' = 0
      /\ left' = left
  BY DEF Fails
<1>2. PaceTypeOK /\ fails = attempt /\ attempt \in 0 .. MaxAttempt
  BY DEF PaceInv, CountInv, PaceTypeOK
<1>3. /\ delay' \in Nat /\ attempt' \in 1 .. MaxAttempt /\ fails' = attempt'
      /\ 4 * delay' >= 3 * Doubling[fails' - 1]
      /\ 4 * delay' <= 5 * Doubling[fails' - 1]
  BY <1>1, <1>2, DelayEarned
<1>4. hold' \in 0 .. Lease
  BY <1>2, Numbers DEF Fails, PaceTypeOK
<1>5. PaceTypeOK'
  <2>1. waited' \in BOOLEAN
    BY <1>1
  <2>2. /\ attempt' \in 0 .. MaxAttempt /\ tries' \in 0 .. MaxAttempt
        /\ since' \in 0 .. Maximum
    BY <1>1, <1>3, Numbers
  <2> QED
    BY <1>1, <1>2, <1>3, <1>4, <2>1, <2>2 DEF PaceTypeOK
<1>6. CountInv' /\ TokenInv' /\ SlotInv'
  BY <1>1, <1>3 DEF CountInv, TokenInv, SlotInv
<1>7. SpaceInv'
  <2>1. pc' = "sleep" /\ cause' \in {"error", "rejected"} /\ since' = 0
    BY <1>1
  <2> QED
    BY <1>3, <2>1 DEF SpaceInv, Pays
<1>8. SleepInv'
  BY <1>1, <1>2, <1>3, Numbers DEF SleepInv
<1> QED
  BY <1>5, <1>6, <1>7, <1>8 DEF PaceInv

\* No element of the doubling sequence exceeds the maximum delay.
LEMMA DoublingBounds ==
  ASSUME NEW n \in 1 .. MaxAttempt
  PROVE  Doubling[n - 1] \in Nat /\ Doubling[n - 1] <= Maximum
<1>1. n - 1 \in 0 .. MaxAttempt /\ n - 1 \in Nat
  BY Numbers
<1> QED
  BY <1>1, BoundedDelays, DoublingIsBounded

\* A step that answers no failure and ends no sleep for one leaves what was
\* earned paid: time only goes on.
LEMMA StaysPaid ==
  ASSUME PaceInv, ~Pays, ~Pays', fails' = fails, since' \in Nat, since' >= since
  PROVE  SpaceInv'
<1>1. since \in Nat /\ fails \in 0 .. MaxAttempt
  BY Numbers DEF PaceInv, PaceTypeOK, CountInv
<1>2. CASE fails > 0
  <2>1. fails \in 1 .. MaxAttempt
    BY <1>1, <1>2, Numbers
  <2>2. Doubling[fails - 1] \in Nat
    BY <2>1, DoublingBounds
  <2>3. 4 * since >= 3 * Doubling[fails - 1]
    BY <1>2 DEF PaceInv, SpaceInv
  <2> QED
    BY <1>1, <2>2, <2>3 DEF SpaceInv
<1>3. CASE ~(fails > 0)
  BY <1>3 DEF SpaceInv
<1> QED
  BY <1>2, <1>3

\* The top of the loop, with its check of the token.
LEMMA TopKeeps ==
  ASSUME PaceInv, Top
  PROVE  PaceInv'
<1>1. /\ pc = "top"
      /\ UNCHANGED <<cause, attempt, delay, left, hold, waited, fails, since>>
      /\ \/ pc' = "enrol" /\ back' = "open" /\ tries' = 0 /\ HasEnrollment
         \/ pc' = "open" /\ back' = back /\ tries' = tries /\ (HasEnrollment => left > Window)
  <2>1. HasEnrollment /\ ~ExpiresWithin => left > Window
    BY Numbers DEF ExpiresWithin, PaceInv, PaceTypeOK
  <2> QED
    BY <2>1, Numbers DEF Top
<1>2. PaceTypeOK'
  BY <1>1, Numbers DEF PaceInv, PaceTypeOK
<1>3. CountInv' /\ SlotInv' /\ SleepInv'
  BY <1>1 DEF PaceInv, CountInv, SlotInv, SleepInv
<1>4. TokenInv'
  BY <1>1, Numbers DEF TokenInv, PaceInv, PaceTypeOK
<1>5. SpaceInv'
  <2>1. ~Pays /\ ~Pays'
    BY <1>1 DEF Pays
  <2>2. since' \in Nat /\ since' >= since
    BY <1>1, Numbers DEF PaceInv, PaceTypeOK
  <2> QED
    BY <1>1, <2>1, <2>2, StaysPaid
<1> QED
  BY <1>2, <1>3, <1>4, <1>5 DEF PaceInv

\* A connect, which takes time.
LEMMA OpenKeeps ==
  ASSUME PaceInv, Open
  PROVE  PaceInv'
<1>1. /\ pc = "open" /\ pc' = "asked"
      /\ UNCHANGED <<cause, back, attempt, tries, delay, waited, fails>>
  BY DEF Open
<1>2. PICK d \in {0, ConnectMax} : Passes(d)
  BY DEF Open
<1>3. d \in Nat /\ d <= ConnectMax /\ PaceTypeOK
  BY Numbers DEF PaceInv
<1>4. /\ left' \in Nat /\ (left > d => left' > 0)
      /\ hold' \in 0 .. Lease /\ hold' <= hold
      /\ since' \in 0 .. Maximum /\ since' >= since
  BY <1>2, <1>3, TimePasses
<1>5. PaceTypeOK'
  BY <1>1, <1>3, <1>4 DEF PaceTypeOK
<1>6. TokenInv'
  <2>1. HasEnrollment => left > ConnectMax
    BY <1>1 DEF PaceInv, TokenInv
  <2>2. HasEnrollment => left > d
    BY <1>3, <2>1, Numbers DEF PaceTypeOK
  <2> QED
    BY <1>1, <1>4, <2>2 DEF TokenInv
<1>7. CountInv' /\ SleepInv'
  BY <1>1 DEF PaceInv, CountInv, SleepInv
<1>8. SlotInv'
  BY <1>1, <1>3, <1>4, Numbers DEF PaceInv, PaceTypeOK, SlotInv
<1>9. SpaceInv'
  BY <1>1, <1>4, Numbers, StaysPaid DEF Pays
<1> QED
  BY <1>5, <1>6, <1>7, <1>8, <1>9 DEF PaceInv

\* The control plane accepts the Channel with a token that is still valid.
LEMMA AcceptedKeeps ==
  ASSUME PaceInv, Accepted
  PROVE  PaceInv'
<1>1. /\ pc = "asked" /\ pc' = "up" /\ waited' = FALSE
      /\ UNCHANGED <<cause, back, attempt, tries, delay, left, hold, fails, since>>
  BY DEF Accepted
<1>2. PaceTypeOK'
  BY <1>1 DEF PaceInv, PaceTypeOK
<1>3. CountInv' /\ TokenInv' /\ SlotInv' /\ SleepInv'
  BY <1>1 DEF PaceInv, CountInv, TokenInv, SlotInv, SleepInv
<1>4. SpaceInv'
  BY <1>1 DEF PaceInv, SpaceInv, Pays
<1> QED
  BY <1>2, <1>3, <1>4 DEF PaceInv

\* The wait for the slot covers what is left of the lease: the margin makes up
\* for the rounding, and no lease is longer than the longest wait.
LEMMA SlotHeldKeeps ==
  ASSUME PaceInv, SlotHeld
  PROVE  PaceInv'
<1>1. /\ pc = "asked" /\ hold > 0 /\ pc' = "sleep" /\ cause' = "slot" /\ waited' = TRUE
      /\ delay' \in {SlotRetryIn(hold), SlotRetryIn(hold - 1), SlotMax}
      /\ UNCHANGED <<back, attempt, tries, left, hold, fails, since>>
  BY DEF SlotHeld
<1>2. hold \in 1 .. Lease /\ Lease <= SlotMax /\ Margin > 0 /\ {Lease, Margin, SlotMax} \subseteq Nat
  BY <1>1, Numbers DEF PaceInv, PaceTypeOK
<1>3. delay' \in Nat /\ hold <= delay' /\ delay' <= SlotMax
  <2>1. CASE delay' = SlotRetryIn(hold)
    BY <1>2, <2>1 DEF SlotRetryIn, MinOf
  <2>2. CASE delay' = SlotRetryIn(hold - 1)
    BY <1>2, <2>2 DEF SlotRetryIn, MinOf
  <2>3. CASE delay' = SlotMax
    BY <1>2, <2>3
  <2> QED
    BY <1>1, <2>1, <2>2, <2>3
<1>4. PaceTypeOK'
  BY <1>1, <1>3 DEF PaceInv, PaceTypeOK
<1>5. CountInv' /\ TokenInv' /\ SlotInv' /\ SleepInv'
  BY <1>1, <1>3 DEF PaceInv, CountInv, TokenInv, SlotInv, SleepInv
<1>6. SpaceInv'
  BY <1>1 DEF PaceInv, SpaceInv, Pays
<1> QED
  BY <1>4, <1>5, <1>6 DEF PaceInv

\* A session that ends cleanly starts the count again.
LEMMA EndKeeps ==
  ASSUME PaceInv, SessionEnds
  PROVE  PaceInv'
<1>1. /\ pc = "up" /\ pc' = "top" /\ attempt' = 0 /\ fails' = 0
      /\ UNCHANGED <<cause, back, tries, delay, left, hold, waited, since>>
  BY DEF SessionEnds, Reset
<1>2. PaceTypeOK'
  BY <1>1, Numbers DEF PaceInv, PaceTypeOK
<1>3. CountInv' /\ TokenInv' /\ SlotInv' /\ SleepInv' /\ SpaceInv'
  BY <1>1 DEF PaceInv, CountInv, TokenInv, SlotInv, SleepInv, SpaceInv
<1> QED
  BY <1>2, <1>3 DEF PaceInv

\* A session stays up for a while.
LEMMA StayKeeps ==
  ASSUME PaceInv, SessionStays
  PROVE  PaceInv'
<1>1. /\ pc = "up"
      /\ UNCHANGED <<pc, cause, back, attempt, tries, delay, waited, fails>>
  BY DEF SessionStays
<1>2. PICK d \in Spans : Passes(d)
  BY DEF SessionStays
<1>3. d \in Nat /\ PaceTypeOK
  BY Numbers DEF PaceInv
<1>4. /\ left' \in Nat /\ hold' \in 0 .. Lease /\ hold' <= hold
      /\ since' \in 0 .. Maximum /\ since' >= since
  BY <1>2, <1>3, TimePasses
<1>5. PaceTypeOK'
  BY <1>1, <1>3, <1>4 DEF PaceTypeOK
<1>6. CountInv' /\ TokenInv' /\ SleepInv'
  BY <1>1 DEF PaceInv, CountInv, TokenInv, SleepInv
<1>7. SlotInv'
  BY <1>1, <1>3, <1>4, Numbers DEF PaceInv, PaceTypeOK, SlotInv
<1>8. SpaceInv'
  BY <1>1, <1>4, Numbers, StaysPaid DEF Pays
<1> QED
  BY <1>5, <1>6, <1>7, <1>8 DEF PaceInv

\* A session is pushed a new token.
LEMMA RotatedKeeps ==
  ASSUME PaceInv, Rotated
  PROVE  PaceInv'
<1>1. /\ pc = "up" /\ left' = Life
      /\ UNCHANGED <<pc, cause, back, attempt, tries, delay, hold, waited, fails, since>>
  BY DEF Rotated
<1>2. PaceTypeOK'
  BY <1>1, Numbers DEF PaceInv, PaceTypeOK
<1>3. CountInv' /\ TokenInv' /\ SlotInv' /\ SleepInv'
  BY <1>1 DEF PaceInv, CountInv, TokenInv, SlotInv, SleepInv
<1>4. SpaceInv'
  BY <1>1 DEF PaceInv, SpaceInv, Pays
<1> QED
  BY <1>2, <1>3, <1>4 DEF PaceInv

\* The sleep is over: the slot's lease has run out, the delay is paid.
LEMMA WakeKeeps ==
  ASSUME PaceInv, Wake
  PROVE  PaceInv'
<1>1. /\ pc = "sleep" /\ Passes(delay) /\ pc' \in {"enrol", "top"}
      /\ UNCHANGED <<cause, back, attempt, tries, delay, waited, fails>>
  BY DEF Wake
<1>2. PaceTypeOK /\ delay \in Nat /\ since \in Nat
  BY Numbers DEF PaceInv, PaceTypeOK
<1>3. /\ left' \in Nat
      /\ hold' \in 0 .. Lease /\ hold' <= hold /\ (hold <= delay => hold' = 0)
      /\ since' \in 0 .. Maximum /\ since' >= since
      /\ since' = Maximum \/ since' = since + delay
  BY <1>1, <1>2, TimePasses
<1>4. PaceTypeOK'
  BY <1>1, <1>2, <1>3 DEF PaceTypeOK
<1>5. CountInv' /\ TokenInv' /\ SleepInv'
  BY <1>1 DEF PaceInv, CountInv, TokenInv, SleepInv
<1>6. SlotInv'
  BY <1>1, <1>2, <1>3, Numbers DEF PaceInv, PaceTypeOK, SlotInv
<1>7. SpaceInv'
  <2>1. ~Pays'
    BY <1>1 DEF Pays
  <2>2. CASE ~Pays
    BY <1>1, <1>3, <2>1, <2>2, Numbers, StaysPaid
  <2>3. CASE Pays /\ fails > 0
    <3>1. fails \in 1 .. MaxAttempt
      BY <2>3, Numbers DEF PaceInv, PaceTypeOK, CountInv
    <3>2. Doubling[fails - 1] \in Nat /\ Doubling[fails - 1] <= Maximum
      BY <3>1, DoublingBounds
    <3>3. 4 * (since + delay) >= 3 * Doubling[fails - 1]
      BY <2>3 DEF PaceInv, SpaceInv
    <3>4. 4 * since' >= 3 * Doubling[fails - 1]
      BY <1>2, <1>3, <3>2, <3>3, Numbers
    <3> QED
      BY <1>1, <2>1, <3>4 DEF SpaceInv
  <2>4. CASE ~(fails > 0)
    BY <1>1, <2>4 DEF SpaceInv
  <2> QED
    BY <2>2, <2>3, <2>4
<1> QED
  BY <1>4, <1>5, <1>6, <1>7 DEF PaceInv

\* A new token outlasts the connect that follows its Register.
LEMMA RegisteredKeeps ==
  ASSUME PaceInv, Registered
  PROVE  PaceInv'
<1>1. /\ pc = "enrol" /\ pc' = back
      /\ UNCHANGED <<cause, back, attempt, tries, delay, waited, fails>>
  BY DEF Registered
<1>2. PICK d \in {0, ConnectMax} : /\ left' = Life - d
                                   /\ hold' = Minus(hold, d)
                                   /\ since' = MinOf(since + d, Maximum)
  BY DEF Registered
<1>3. d \in Nat /\ d <= ConnectMax /\ PaceTypeOK
  BY Numbers DEF PaceInv
<1>4. left' \in Nat /\ left' > ConnectMax
  BY <1>2, <1>3, Numbers
<1>5. hold' \in 0 .. Lease /\ hold' <= hold
  BY <1>2, <1>3, Numbers DEF Minus, PaceTypeOK
<1>6. since' \in 0 .. Maximum /\ since' >= since
  BY <1>2, <1>3, Numbers DEF MinOf, PaceTypeOK
<1>7. PaceTypeOK'
  BY <1>1, <1>3, <1>4, <1>5, <1>6 DEF PaceTypeOK
<1>8. pc' \in {"top", "open"}
  BY <1>1, <1>3 DEF PaceTypeOK
<1>9. CountInv' /\ TokenInv' /\ SleepInv'
  BY <1>1, <1>4, <1>8 DEF PaceInv, CountInv, TokenInv, SleepInv
<1>10. SlotInv'
  BY <1>1, <1>3, <1>5, <1>8, Numbers DEF PaceInv, PaceTypeOK, SlotInv
<1>11. SpaceInv'
  BY <1>1, <1>6, <1>8, Numbers, StaysPaid DEF Pays
<1> QED
  BY <1>7, <1>9, <1>10, <1>11 DEF PaceInv

\* Register fails and its own backoff grows.
LEMMA RegisterFailsKeeps ==
  ASSUME PaceInv, RegisterFails
  PROVE  PaceInv'
<1>1. /\ pc = "enrol" /\ delay' \in NextDelay(tries) /\ tries' = Bumped(tries)
      /\ pc' = "sleep" /\ cause' = "register"
      /\ UNCHANGED <<back, attempt, left, hold, waited, fails, since>>
  BY DEF RegisterFails
<1>2. /\ delay' \in Nat /\ tries' \in 1 .. MaxAttempt
      /\ 4 * delay' <= 5 * Doubling[tries' - 1]
  BY <1>1, DelayEarned DEF PaceInv, PaceTypeOK
<1>3. PaceTypeOK'
  BY <1>1, <1>2, Numbers DEF PaceInv, PaceTypeOK
<1>4. CountInv' /\ TokenInv' /\ SlotInv'
  BY <1>1 DEF PaceInv, CountInv, TokenInv, SlotInv
<1>5. SleepInv'
  BY <1>1, <1>2, Numbers DEF SleepInv
<1>6. SpaceInv'
  BY <1>1 DEF PaceInv, SpaceInv, Pays
<1> QED
  BY <1>3, <1>4, <1>5, <1>6 DEF PaceInv

\* Another Channel of the instance opens or speaks, and the lease starts over.
LEMMA SpeaksKeeps ==
  ASSUME PaceInv, HolderSpeaks
  PROVE  PaceInv'
<1>1. /\ hold' = Lease /\ waited' = FALSE
      /\ UNCHANGED <<pc, cause, back, attempt, tries, delay, left, fails, since>>
  BY DEF HolderSpeaks
<1>2. PaceTypeOK'
  <2>1. waited' \in BOOLEAN
    BY <1>1
  <2>2. hold' \in 0 .. Lease
    BY <1>1, Numbers
  <2> QED
    BY <1>1, <2>1, <2>2 DEF PaceInv, PaceTypeOK
<1>3. CountInv' /\ TokenInv' /\ SlotInv' /\ SleepInv'
  BY <1>1 DEF PaceInv, CountInv, TokenInv, SlotInv, SleepInv
<1>4. SpaceInv'
  BY <1>1 DEF PaceInv, SpaceInv, Pays
<1> QED
  BY <1>2, <1>3, <1>4 DEF PaceInv

----------------------------------------------------------------------------

\* Every step keeps the invariant.
THEOREM PaceStep == PaceInv /\ [Next]_vars => PaceInv'
<1> SUFFICES ASSUME PaceInv, [Next]_vars PROVE PaceInv'
  OBVIOUS
<1>1. CASE SessionErrs
  BY <1>1, FailsKeeps DEF SessionErrs
<1>2. CASE SessionRejected
  <2>1. CASE HasEnrollment
    BY <1>2, <2>1, FailsKeeps DEF SessionRejected
  <2>2. CASE ~HasEnrollment
    BY <1>2, <2>2, FailsKeeps DEF SessionRejected
  <2> QED
    BY <2>1, <2>2
<1>3. CASE UNCHANGED vars
  <2>1. PaceTypeOK' /\ CountInv' /\ TokenInv' /\ SlotInv'
    BY <1>3 DEF PaceInv, PaceTypeOK, CountInv, TokenInv, SlotInv, vars
  <2>2. SpaceInv' /\ SleepInv'
    BY <1>3 DEF PaceInv, SpaceInv, Pays, SleepInv, vars
  <2> QED
    BY <2>1, <2>2 DEF PaceInv
<1> QED
  BY <1>1, <1>2, <1>3, TopKeeps, OpenKeeps, AcceptedKeeps, SlotHeldKeeps, EndKeeps,
     StayKeeps, RotatedKeeps, WakeKeeps, RegisteredKeeps, RegisterFailsKeeps, SpeaksKeeps
     DEF Next

\* The counters, the sleep that is due and what is left of the token and of the
\* lease belong together at every step of the run loop (agent.rs run_loop and
\* retry_with_backoff, backoff.rs).
THEOREM PaceInvariant == Spec => []PaceInv
BY PaceInitially, PaceStep, PTL DEF Spec

\* A token presented by an agent that can enrol is live by the clock.
THEOREM LiveTokensOnly == Spec => []PresentsLiveToken
<1>1. PaceInv => PresentsLiveToken
  BY DEF PaceInv, TokenInv, PresentsLiveToken
<1> QED
  BY <1>1, PaceInvariant, PTL

\* The retry after a refusal for the slot lands after the slot frees.
THEOREM SlotRetriesLand == Spec => []SlotRetryLands
<1>1. PaceInv => SlotRetryLands
  BY DEF PaceInv, SlotInv, SlotRetryLands
<1> QED
  BY <1>1, PaceInvariant, PTL

\* Failing sessions are spaced by the delays they have earned, whatever comes
\* in between.
THEOREM FailuresAreSpaced == Spec => []BackoffSpaces
<1>1. PaceInv => BackoffSpaces
  BY DEF PaceInv, SpaceInv, Pays, BackoffSpaces
<1> QED
  BY <1>1, PaceInvariant, PTL

\* No sleep is longer than what its failures have earned.
THEOREM SleepsAreBounded == Spec => []SleepsBounded
<1>1. PaceInv => SleepsBounded
  BY DEF PaceInv, PaceTypeOK, SleepInv, SleepsBounded
<1> QED
  BY <1>1, PaceInvariant, PTL

============================================================================
