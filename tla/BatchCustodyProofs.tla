------------------------- MODULE BatchCustodyProofs -------------------------
(***************************************************************************)
(* The promises of the metrics buffer hold for every capacity, every batch *)
(* size and any number of calls: the type invariant, the ledger, the count *)
(* of non-billable rows, the bound on the buffer, the distinctness of rows *)
(* and of sequence numbers, and what a full ring gives up first.           *)
(*                                                                         *)
(* First come the facts about counting and cutting rows; then what each    *)
(* operation of the buffer does to what the buffer holds, where `Sound` is *)
(* the invariant the operations keep, and HeldBillable and HeldNonBillable *)
(* are the calls of each kind the buffer accounts for, rows and drop       *)
(* counts together; then the invariant of BatchCustody.                    *)
(*                                                                         *)
(* The ledger is not inductive by itself.  It needs the buffer to be sound *)
(* (a drain subtracts the non-billable rows it takes from a count that     *)
(* must be exact), the batches to be told apart by their sequence numbers  *)
(* (or a drained batch could already be among those held), and the lines   *)
(* of the batches to be finitely many (or their number means nothing).     *)
(***************************************************************************)
EXTENDS BatchCustody, FiniteSetTheorems, SequenceTheorems, WellFoundedInduction, TLAPS

----------------------------------------------------------------------------
\* Counting and cutting rows.

\* The positions of the non-billable rows.
NonBillableAt(s) == {i \in 1 .. Len(s) : ~IsBillable(s[i].outcome)}

\* The positions of the billable rows.
BillableAt(s) == {i \in 1 .. Len(s) : IsBillable(s[i].outcome)}

\* Every row is billable or it is not: the two counts add up to the length.
LEMMA CountsAddUp ==
  ASSUME NEW s \in Seq(Sample)
  PROVE  /\ NonBillableIn(s) \in Nat
         /\ BillableIn(s) \in Nat
         /\ BillableIn(s) + NonBillableIn(s) = Len(s)
         /\ IsFiniteSet(NonBillableAt(s)) /\ NonBillableIn(s) = Cardinality(NonBillableAt(s))
<1>1. Len(s) \in Nat /\ DOMAIN s = 1 .. Len(s)
  BY LenProperties
<1>2. IsFiniteSet(1 .. Len(s)) /\ Cardinality(1 .. Len(s)) = Len(s)
  BY <1>1, FS_Interval
<1>3. NonBillableIn(s) = Cardinality(NonBillableAt(s))
  BY <1>1 DEF NonBillableIn, NonBillableAt
<1>4. BillableIn(s) = Cardinality(BillableAt(s))
  BY <1>1 DEF BillableIn, BillableAt
<1>5. IsFiniteSet(NonBillableAt(s)) /\ Cardinality(NonBillableAt(s)) \in Nat
  BY <1>2, FS_Subset, FS_CardinalityType DEF NonBillableAt
<1>6. /\ (1 .. Len(s)) \ NonBillableAt(s) = BillableAt(s)
      /\ (1 .. Len(s)) \cap NonBillableAt(s) = NonBillableAt(s)
  BY DEF NonBillableAt, BillableAt
<1>7. /\ IsFiniteSet(BillableAt(s))
      /\ Cardinality(BillableAt(s)) = Len(s) - Cardinality(NonBillableAt(s))
  <2> DEFINE all == 1 .. Len(s)
             rest == NonBillableAt(s)
  <2>1. IsFiniteSet(all)
    BY <1>2
  <2>2. /\ IsFiniteSet(all \ rest)
        /\ Cardinality(all \ rest) = Cardinality(all) - Cardinality(all \cap rest)
    <3> HIDE DEF all, rest
    <3> QED  BY <2>1, FS_Difference
  <2> QED  BY <1>2, <1>6, <2>2
<1>8. Cardinality(BillableAt(s)) \in Nat
  BY <1>7, FS_CardinalityType
<1> QED
  BY <1>1, <1>3, <1>4, <1>5, <1>7, <1>8

\* The rows of a concatenation are the rows of its parts.
LEMMA CountConcat ==
  ASSUME NEW s \in Seq(Sample), NEW t \in Seq(Sample)
  PROVE  /\ NonBillableIn(s \o t) = NonBillableIn(s) + NonBillableIn(t)
         /\ BillableIn(s \o t) = BillableIn(s) + BillableIn(t)
<1> DEFINE shift == [i \in NonBillableAt(t) |-> Len(s) + i]
           image == {Len(s) + i : i \in NonBillableAt(t)}
<1>1. Len(s) \in Nat /\ Len(t) \in Nat
  BY LenProperties
<1>2. /\ s \o t \in Seq(Sample)
      /\ Len(s \o t) = Len(s) + Len(t)
      /\ \A i \in 1 .. Len(s) + Len(t) :
             (s \o t)[i] = IF i <= Len(s) THEN s[i] ELSE t[i - Len(s)]
  BY ConcatProperties
<1>3. NonBillableAt(s \o t) = NonBillableAt(s) \cup image
  <2>1. ASSUME NEW i \in NonBillableAt(s \o t) PROVE i \in NonBillableAt(s) \cup image
    <3>1. i \in 1 .. Len(s) + Len(t) /\ ~IsBillable((s \o t)[i].outcome)
      BY <1>2 DEF NonBillableAt
    <3>2. CASE i <= Len(s)
      BY <1>1, <1>2, <3>1, <3>2 DEF NonBillableAt
    <3>3. CASE ~(i <= Len(s))
      <4>1. (i - Len(s)) \in NonBillableAt(t)
        BY <1>1, <1>2, <3>1, <3>3 DEF NonBillableAt
      <4>2. i = Len(s) + (i - Len(s))
        BY <1>1, <3>1
      <4> QED
        BY <4>1, <4>2
    <3> QED
      BY <3>2, <3>3
  <2>2. ASSUME NEW i \in NonBillableAt(s) PROVE i \in NonBillableAt(s \o t)
    BY <1>1, <1>2 DEF NonBillableAt
  <2>3. ASSUME NEW i \in NonBillableAt(t) PROVE Len(s) + i \in NonBillableAt(s \o t)
    BY <1>1, <1>2 DEF NonBillableAt
  <2> QED
    BY <2>1, <2>2, <2>3
<1>4. NonBillableAt(s) \cap image = {}
  BY <1>1 DEF NonBillableAt
<1>5. shift \in Bijection(NonBillableAt(t), image)
  BY <1>1 DEF Bijection, Injection, Surjection, IsInjective, NonBillableAt
<1>6. IsFiniteSet(image) /\ Cardinality(image) = NonBillableIn(t)
  BY <1>5, CountsAddUp, FS_Bijection DEF ExistsBijection
<1>7. /\ IsFiniteSet(NonBillableAt(s)) /\ NonBillableIn(s) = Cardinality(NonBillableAt(s))
      /\ NonBillableIn(s) \in Nat /\ NonBillableIn(t) \in Nat
  BY CountsAddUp
<1> DEFINE u == s \o t
<1>8. /\ u \in Seq(Sample) /\ Len(u) = Len(s) + Len(t)
      /\ NonBillableAt(u) = NonBillableAt(s) \cup image
  BY <1>2, <1>3
<1> HIDE DEF u, image
<1>9. Cardinality(NonBillableAt(u))
          = Cardinality(NonBillableAt(s)) + Cardinality(image) - Cardinality({})
  BY <1>4, <1>6, <1>7, <1>8, FS_Union
<1>10. NonBillableIn(u) = NonBillableIn(s) + NonBillableIn(t)
  <2>1. NonBillableIn(u) = NonBillableIn(s) + NonBillableIn(t) - 0
    BY <1>6, <1>7, <1>8, <1>9, FS_EmptySet, CountsAddUp, Zenon
  <2>2. \A m, n \in Nat : m + n - 0 = m + n
    OBVIOUS
  <2> QED
    BY <1>7, <2>1, <2>2, Zenon
<1>11. BillableIn(u) = BillableIn(s) + BillableIn(t)
  <2>1. /\ BillableIn(s) \in Nat /\ BillableIn(s) + NonBillableIn(s) = Len(s)
        /\ BillableIn(t) \in Nat /\ BillableIn(t) + NonBillableIn(t) = Len(t)
        /\ BillableIn(u) \in Nat /\ BillableIn(u) + NonBillableIn(u) = Len(u)
    BY <1>8, CountsAddUp, Zenon
  <2>2. BillableIn(u) + (NonBillableIn(s) + NonBillableIn(t))
            = (BillableIn(s) + NonBillableIn(s)) + (BillableIn(t) + NonBillableIn(t))
    BY <1>8, <1>10, <2>1, Zenon
  <2> DEFINE bs == BillableIn(s)     bt == BillableIn(t)     bu == BillableIn(u)
             ns == NonBillableIn(s)  nt == NonBillableIn(t)
  <2>3. bs \in Nat /\ bt \in Nat /\ bu \in Nat /\ ns \in Nat /\ nt \in Nat
    BY <1>7, <2>1, Zenon
  <2>4. bu + (ns + nt) = (bs + ns) + (bt + nt)
    BY <2>2, Zenon
  <2> HIDE DEF bs, bt, bu, ns, nt
  <2>5. bu = bs + bt
    BY <2>3, <2>4
  <2> QED
    BY <2>5, Zenon DEF bs, bt, bu
<1> QED
  BY <1>10, <1>11, Zenon DEF u

\* What a row adds to the counts.
LEMMA CountOne ==
  ASSUME NEW x \in Sample
  PROVE  /\ <<x>> \in Seq(Sample)
         /\ NonBillableIn(<<x>>) = NonBillableOne(x)
         /\ BillableIn(<<x>>) = 1 - NonBillableOne(x)
<1> DEFINE u == <<x>>
<1>1. u \in Seq(Sample) /\ Len(u) = 1 /\ u[1] = x
  OBVIOUS
<1> HIDE DEF u
<1>2. NonBillableIn(u) = NonBillableOne(x) /\ NonBillableOne(x) \in {0, 1}
  <2>1. CASE IsBillable(x.outcome)
    <3>1. NonBillableAt(u) = {}
      BY <1>1, <2>1 DEF NonBillableAt
    <3> QED
      BY <1>1, <2>1, <3>1, CountsAddUp, FS_EmptySet DEF NonBillableOne
  <2>2. CASE ~IsBillable(x.outcome)
    <3>1. NonBillableAt(u) = {1}
      BY <1>1, <2>2 DEF NonBillableAt
    <3> QED
      BY <1>1, <2>2, <3>1, CountsAddUp, FS_Singleton DEF NonBillableOne
  <2> QED
    BY <2>1, <2>2
<1>3. BillableIn(u) \in Nat /\ BillableIn(u) + NonBillableOne(x) = 1
  BY <1>1, <1>2, CountsAddUp, Zenon
<1>4. BillableIn(u) = 1 - NonBillableOne(x)
  BY <1>2, <1>3
<1> QED
  BY <1>1, <1>2, <1>4, Zenon DEF u

\* A row that arrives adds what it counts for.
LEMMA CountAppend ==
  ASSUME NEW s \in Seq(Sample), NEW x \in Sample
  PROVE  /\ NonBillableIn(Append(s, x)) = NonBillableIn(s) + NonBillableOne(x)
         /\ BillableIn(Append(s, x)) = BillableIn(s) + (1 - NonBillableOne(x))
<1>1. Append(s, x) = s \o <<x>>
  BY AppendIsConcat
<1> QED
  BY <1>1, CountOne, CountConcat

\* The empty sequence has no rows of either kind.
LEMMA CountNone == NonBillableIn(<<>>) = 0 /\ BillableIn(<<>>) = 0
<1> DEFINE u == <<>>
<1>1. u \in Seq(Sample) /\ Len(u) = 0
  OBVIOUS
<1> HIDE DEF u
<1>2. /\ NonBillableIn(u) \in Nat /\ BillableIn(u) \in Nat
      /\ BillableIn(u) + NonBillableIn(u) = 0
  BY <1>1, CountsAddUp, Zenon
<1>3. NonBillableIn(u) = 0 /\ BillableIn(u) = 0
  BY <1>2
<1> QED
  BY <1>3, Zenon DEF u

\* A sequence cut at n is its two parts put together.
LEMMA CutAt ==
  ASSUME NEW s \in Seq(Sample), NEW n \in 0 .. Len(s)
  PROVE  /\ SubSeq(s, 1, n) \in Seq(Sample)
         /\ SubSeq(s, n + 1, Len(s)) \in Seq(Sample)
         /\ Len(SubSeq(s, 1, n)) = n
         /\ Len(SubSeq(s, n + 1, Len(s))) = Len(s) - n
         /\ s = SubSeq(s, 1, n) \o SubSeq(s, n + 1, Len(s))
<1>1. Len(s) \in Nat
  BY LenProperties
<1>2. SubSeq(s, 1, n) \o SubSeq(s, n + 1, Len(s)) = SubSeq(s, 1, Len(s))
  <2>1. 1 \in 1 .. Len(s) + 1 /\ n \in (1 - 1) .. Len(s) /\ Len(s) \in n .. Len(s)
    BY <1>1
  <2> QED
    BY <2>1, ConcatAdjacentSubSeq, Zenon
<1>3. SubSeq(s, 1, Len(s)) = s
  BY SubSeqFull
<1>4. \A i \in 1 .. Len(s) : s[i] \in Sample
  BY ElementOfSeq
<1>5. SubSeq(s, 1, n) \in Seq(Sample) /\ Len(SubSeq(s, 1, n)) = n
  BY <1>1, <1>4, SubSeqProperties
<1>6. /\ SubSeq(s, n + 1, Len(s)) \in Seq(Sample)
      /\ Len(SubSeq(s, n + 1, Len(s))) = Len(s) - n
  BY <1>1, <1>4, SubSeqProperties
<1> QED
  BY <1>2, <1>3, <1>5, <1>6

\* What is left of a sequence without its row i, and how the sequence is put
\* together from that and the row.
LEMMA RemoveParts ==
  ASSUME NEW s \in Seq(Sample), NEW i \in 1 .. Len(s)
  PROVE  /\ Len(s) \in Nat /\ s[i] \in Sample
         /\ SubSeq(s, 1, i - 1) \in Seq(Sample) /\ Len(SubSeq(s, 1, i - 1)) = i - 1
         /\ SubSeq(s, i + 1, Len(s)) \in Seq(Sample)
         /\ Len(SubSeq(s, i + 1, Len(s))) = Len(s) - i
         /\ SubSeq(s, 1, i) \in Seq(Sample)
         /\ SubSeq(s, 1, i) = SubSeq(s, 1, i - 1) \o <<s[i]>>
         /\ s = SubSeq(s, 1, i) \o SubSeq(s, i + 1, Len(s))
         /\ Without(s, i) = SubSeq(s, 1, i - 1) \o SubSeq(s, i + 1, Len(s))
<1>1. Len(s) \in Nat /\ s[i] \in Sample
  BY LenProperties, ElementOfSeq
<1>2. i - 1 \in 0 .. Len(s) /\ i \in 0 .. Len(s)
  BY <1>1
<1>3. /\ SubSeq(s, 1, i) \in Seq(Sample) /\ SubSeq(s, i + 1, Len(s)) \in Seq(Sample)
      /\ Len(SubSeq(s, i + 1, Len(s))) = Len(s) - i
      /\ s = SubSeq(s, 1, i) \o SubSeq(s, i + 1, Len(s))
  BY <1>2, CutAt, Zenon
<1>4. SubSeq(s, 1, i - 1) \in Seq(Sample) /\ Len(SubSeq(s, 1, i - 1)) = i - 1
  BY <1>2, CutAt, Zenon
<1>5. SubSeq(s, 1, i) = SubSeq(s, 1, i - 1) \o <<s[i]>>
  BY <1>1, SubSeqRecursiveSecond
<1>6. Without(s, i) = SubSeq(s, 1, i - 1) \o SubSeq(s, i + 1, Len(s))
  BY Zenon DEF Without
<1> QED
  BY <1>1, <1>3, <1>4, <1>5, <1>6, Zenon

\* A row taken out of a sequence takes what it counted for with it.
LEMMA CountRemove ==
  ASSUME NEW s \in Seq(Sample), NEW i \in 1 .. Len(s)
  PROVE  /\ s[i] \in Sample
         /\ Without(s, i) \in Seq(Sample)
         /\ Len(Without(s, i)) = Len(s) - 1
         /\ NonBillableIn(s) = NonBillableIn(Without(s, i)) + NonBillableOne(s[i])
         /\ BillableIn(s) = BillableIn(Without(s, i)) + (1 - NonBillableOne(s[i]))
<1> DEFINE front == SubSeq(s, 1, i - 1)
           back  == SubSeq(s, i + 1, Len(s))
           upto  == SubSeq(s, 1, i)
<1>1. Len(s) \in Nat /\ s[i] \in Sample
  BY RemoveParts, Zenon
<1>2. upto \in Seq(Sample) /\ back \in Seq(Sample) /\ Len(back) = Len(s) - i /\ s = upto \o back
  BY RemoveParts, Zenon
<1>3. front \in Seq(Sample) /\ Len(front) = i - 1
  BY RemoveParts, Zenon
<1>4. upto = front \o <<s[i]>>
  BY RemoveParts, Zenon
<1>5. NonBillableOne(s[i]) \in {0, 1}
  BY DEF NonBillableOne
<1> DEFINE rest == front \o back
<1>6. rest \in Seq(Sample) /\ Len(rest) = Len(front) + Len(back)
  BY <1>2, <1>3, ConcatProperties
<1>7. /\ NonBillableIn(rest) = NonBillableIn(front) + NonBillableIn(back)
      /\ BillableIn(rest) = BillableIn(front) + BillableIn(back)
  BY <1>2, <1>3, CountConcat, Zenon
<1>8. /\ NonBillableIn(upto) = NonBillableIn(front) + NonBillableIn(<<s[i]>>)
      /\ BillableIn(upto) = BillableIn(front) + BillableIn(<<s[i]>>)
  BY <1>1, <1>3, <1>4, CountOne, CountConcat, Zenon
<1>9. /\ NonBillableIn(<<s[i]>>) = NonBillableOne(s[i])
      /\ BillableIn(<<s[i]>>) = 1 - NonBillableOne(s[i])
  BY <1>1, CountOne, Zenon
<1>10. /\ NonBillableIn(s) = NonBillableIn(upto) + NonBillableIn(back)
       /\ BillableIn(s) = BillableIn(upto) + BillableIn(back)
  BY <1>2, CountConcat, Zenon
<1>11. /\ NonBillableIn(upto) = NonBillableIn(front) + NonBillableOne(s[i])
       /\ BillableIn(upto) = BillableIn(front) + (1 - NonBillableOne(s[i]))
  BY <1>8, <1>9, Zenon
<1>12. Without(s, i) = rest
  BY RemoveParts, Zenon
<1> HIDE DEF front, back, upto, rest
<1>13. /\ NonBillableIn(front) \in Nat /\ BillableIn(front) \in Nat
       /\ NonBillableIn(back) \in Nat /\ BillableIn(back) \in Nat
  BY <1>2, <1>3, CountsAddUp
<1>14. Len(rest) = Len(s) - 1
  BY <1>1, <1>2, <1>3, <1>6
<1>15. /\ NonBillableIn(s) = NonBillableIn(rest) + NonBillableOne(s[i])
       /\ BillableIn(s) = BillableIn(rest) + (1 - NonBillableOne(s[i]))
  BY <1>5, <1>7, <1>10, <1>11, <1>13
<1> QED
  BY <1>1, <1>6, <1>12, <1>14, <1>15, Zenon

----------------------------------------------------------------------------
\* The operations of the buffer.

Room == IF Cap = 0 THEN 1 ELSE Cap

Sound ==
    /\ BufferTypeOK
    /\ nonBillable = NonBillableIn(samples)
    /\ Len(samples) <= Room

HeldBillable == BillableIn(samples) + droppedOverflow

HeldNonBillable == NonBillableIn(samples) + droppedNonBillable

\* The numbers the steps below compute with.
LEMMA HeldNumbers ==
  ASSUME Sound
  PROVE  /\ samples \in Seq(Sample)
         /\ Len(samples) \in Nat /\ Room \in Nat /\ Cap \in Nat /\ BatchCap \in Nat
         /\ NonBillableIn(samples) \in Nat /\ BillableIn(samples) \in Nat
         /\ nonBillable = NonBillableIn(samples)
         /\ droppedOverflow \in Nat /\ droppedNonBillable \in Nat
         /\ seq \in Nat /\ events \in Nat
<1>1. samples \in Seq(Sample)
  BY DEF Sound, BufferTypeOK
<1>2. Len(samples) \in Nat
  BY <1>1, LenProperties
<1>3. NonBillableIn(samples) \in Nat /\ BillableIn(samples) \in Nat
  BY <1>1, CountsAddUp, Zenon
<1>4. Cap \in Nat /\ BatchCap \in Nat /\ Room \in Nat
  BY CapsAssumption DEF Room
<1> QED
  BY <1>1, <1>2, <1>3, <1>4, Zenon DEF Sound, BufferTypeOK

\* A row counts for one call of one kind.
LEMMA OneKind ==
  ASSUME NEW x
  PROVE  /\ NonBillableOne(x) \in {0, 1}
         /\ IsBillable(x.outcome) => NonBillableOne(x) = 0
         /\ ~IsBillable(x.outcome) => NonBillableOne(x) = 1
BY DEF NonBillableOne

\* A set of numbers that is not empty has a least one.
LEMMA FirstOf ==
  ASSUME NEW T, T \subseteq Nat, T # {}
  PROVE  \E m \in T : \A n \in T : m <= n
<1> DEFINE R == OpToRel(<, Nat)
<1>1. IsWellFoundedOn(R, Nat)
  BY NatLessThanWellFounded
<1>2. \A n, m \in Nat : n < m => <<n, m>> \in R
  BY DEF OpToRel
<1> HIDE DEF R
<1>3. PICK m \in T : \A n \in T : ~(<<n, m>> \in R)
  BY <1>1, WFMin
<1>4. ASSUME NEW n \in T PROVE m <= n
  <2>1. m \in Nat /\ n \in Nat /\ ~(n < m)
    BY <1>2, <1>3
  <2> QED
    BY <2>1
<1> QED
  BY <1>4

\* A full ring always has the row it gives up, and the row is non-billable
\* whenever the ring holds a non-billable one.
LEMMA VictimIsThere ==
  ASSUME Sound, samples # <<>>
  PROVE  /\ Victim \in 1 .. Len(samples)
         /\ IsBillable(samples[Victim].outcome)
              => \A i \in DOMAIN samples : IsBillable(samples[i].outcome)
<1>1. samples \in Seq(Sample) /\ Len(samples) \in Nat /\ DOMAIN samples = 1 .. Len(samples)
  BY HeldNumbers, LenProperties
<1>2. CASE NonBillableAt(samples) = {}
  <2>1. \A i \in DOMAIN samples : IsBillable(samples[i].outcome)
    BY <1>1, <1>2 DEF NonBillableAt
  <2>2. Victim = 1
    BY <2>1 DEF Victim
  <2>3. 1 \in 1 .. Len(samples)
    BY <1>1
  <2> QED
    BY <2>1, <2>2, <2>3
<1>3. CASE NonBillableAt(samples) # {}
  <2>1. nonBillable > 0
    <3>1. /\ IsFiniteSet(NonBillableAt(samples))
          /\ NonBillableIn(samples) = Cardinality(NonBillableAt(samples))
          /\ NonBillableIn(samples) \in Nat
      BY <1>1, CountsAddUp, Zenon
    <3>2. NonBillableIn(samples) # 0
      BY <1>3, <3>1, FS_EmptySet, Zenon
    <3> QED
      BY <3>1, <3>2 DEF Sound
  <2>2. PICK m \in NonBillableAt(samples) : \A n \in NonBillableAt(samples) : m <= n
    <3>1. NonBillableAt(samples) \subseteq Nat
      BY <1>1 DEF NonBillableAt
    <3> QED
      BY <1>3, <3>1, FirstOf
  <2> DEFINE First(i) == /\ ~IsBillable(samples[i].outcome)
                         /\ \A j \in 1 .. (i - 1) : IsBillable(samples[j].outcome)
  <2>3. m \in DOMAIN samples /\ First(m)
    BY <1>1, <2>2 DEF NonBillableAt
  <2>4. Victim = CHOOSE i \in DOMAIN samples : First(i)
    BY <2>1, <2>3 DEF Victim
  <2>5. Victim \in DOMAIN samples /\ First(Victim)
    BY <2>3, <2>4, Zenon
  <2> QED
    BY <1>1, <2>5
<1> QED
  BY <1>2, <1>3

\* `record` keeps the buffer sound and adds the one call to what it holds, be it
\* as a row, in place of an older row that is then counted, or as a count.
LEMMA RecordSound ==
  ASSUME Sound, NEW x \in Sample, Record(x)
  PROVE  /\ Sound'
         /\ HeldBillable' = HeldBillable + (1 - NonBillableOne(x))
         /\ HeldNonBillable' = HeldNonBillable + NonBillableOne(x)
         /\ seq' = seq /\ events' = events
         /\ droppedOverflow' > droppedOverflow
              => /\ Len(samples) >= Cap
                 /\ \A i \in DOMAIN samples : IsBillable(samples[i].outcome)
<1> DEFINE Counted ==
             /\ samples' \in Seq(Sample)
             /\ Len(samples') <= Room
             /\ nonBillable' = NonBillableIn(samples')
             /\ droppedOverflow' \in Nat /\ droppedNonBillable' \in Nat
             /\ HeldBillable' = HeldBillable + (1 - NonBillableOne(x))
             /\ HeldNonBillable' = HeldNonBillable + NonBillableOne(x)
             /\ droppedOverflow' > droppedOverflow
                  => /\ Len(samples) >= Cap
                     /\ \A i \in DOMAIN samples : IsBillable(samples[i].outcome)
<1>1. /\ samples \in Seq(Sample)
      /\ nonBillable = NonBillableIn(samples)
  BY HeldNumbers, Zenon
<1>2. /\ Len(samples) \in Nat /\ Cap \in Nat
      /\ NonBillableIn(samples) \in Nat /\ BillableIn(samples) \in Nat
      /\ droppedOverflow \in Nat /\ droppedNonBillable \in Nat
      /\ Len(samples) <= Room
  BY HeldNumbers, Zenon DEF Sound
<1>3. /\ NonBillableOne(x) \in {0, 1}
      /\ IsBillable(x.outcome) => NonBillableOne(x) = 0
      /\ ~IsBillable(x.outcome) => NonBillableOne(x) = 1
  BY OneKind, Zenon
<1>4. ASSUME RecordInRoom(x) PROVE Counted
  <2>1. samples' = Append(samples, x) /\ Len(samples) < Cap
    BY <1>4 DEF RecordInRoom
  <2>2. samples' \in Seq(Sample) /\ Len(samples') = Len(samples) + 1
    BY <1>1, <2>1, AppendProperties
  <2>3. /\ NonBillableIn(samples') = NonBillableIn(samples) + NonBillableOne(x)
        /\ BillableIn(samples') = BillableIn(samples) + (1 - NonBillableOne(x))
    BY <1>1, <2>1, CountAppend, Zenon
  <2>4. Len(samples') <= Room
    <3>1. Len(samples') = Len(samples) + 1
      BY <2>2, Zenon
    <3> QED
      BY <1>2, <2>1, <3>1 DEF Room
  <2>5. /\ nonBillable' = nonBillable + NonBillableOne(x)
        /\ droppedOverflow' = droppedOverflow /\ droppedNonBillable' = droppedNonBillable
    BY <1>4 DEF RecordInRoom
  <2>6. nonBillable' = NonBillableIn(samples')
    BY <1>1, <2>3, <2>5, Zenon
  <2>7. /\ HeldBillable' = HeldBillable + (1 - NonBillableOne(x))
        /\ HeldNonBillable' = HeldNonBillable + NonBillableOne(x)
    BY <1>2, <1>3, <2>3, <2>5 DEF HeldBillable, HeldNonBillable
  <2>8. ~(droppedOverflow' > droppedOverflow)
    BY <1>2, <2>5
  <2> QED
    BY <1>2, <2>2, <2>4, <2>5, <2>6, <2>7, <2>8, Zenon
<1>5. ASSUME RecordRefused(x) PROVE Counted
  <2>1. samples' = samples /\ nonBillable' = nonBillable
    BY <1>5 DEF RecordRefused
  <2>2. /\ droppedOverflow' = droppedOverflow + (1 - 1)
        /\ droppedNonBillable' = droppedNonBillable + 1
        /\ NonBillableOne(x) = 1
    BY <1>3, <1>5 DEF RecordRefused, CountDrop
  <2>3. /\ HeldBillable' = HeldBillable + (1 - NonBillableOne(x))
        /\ HeldNonBillable' = HeldNonBillable + NonBillableOne(x)
        /\ droppedOverflow' \in Nat /\ droppedNonBillable' \in Nat
        /\ ~(droppedOverflow' > droppedOverflow)
    BY <1>2, <2>1, <2>2 DEF HeldBillable, HeldNonBillable
  <2> QED
    BY <1>1, <1>2, <2>1, <2>3, Zenon
<1>6. ASSUME RecordEvicting(x) PROVE Counted
  <2> DEFINE gone == samples[Victim]
             rest == Without(samples, Victim)
  <2>1. Len(samples) >= Cap /\ IsBillable(x.outcome) /\ NonBillableOne(x) = 0
    BY <1>3, <1>6 DEF RecordEvicting
  <2>2. CASE samples = <<>>
    <3>1. samples' = <<x>>
      BY <1>6, <2>2 DEF RecordEvicting
    <3>2. /\ nonBillable' = nonBillable
          /\ droppedOverflow' = droppedOverflow /\ droppedNonBillable' = droppedNonBillable
      BY <1>6, <2>2 DEF RecordEvicting
    <3>3. /\ samples' \in Seq(Sample)
          /\ NonBillableIn(samples') = NonBillableOne(x)
          /\ BillableIn(samples') = 1 - NonBillableOne(x)
      BY <3>1, CountOne, Zenon
    <3>4. NonBillableIn(samples) = 0 /\ BillableIn(samples) = 0
      BY <2>2, CountNone, Zenon
    <3>5. Len(samples') = 1 /\ Len(samples) = 0
      BY <2>2, <3>1
    <3>6. Len(samples') <= Room
      BY <1>2, <2>1, <3>5 DEF Room
    <3>7. nonBillable' = NonBillableIn(samples')
      BY <1>1, <2>1, <3>2, <3>3, <3>4, Zenon
    <3>8. /\ HeldBillable' = HeldBillable + (1 - NonBillableOne(x))
          /\ HeldNonBillable' = HeldNonBillable + NonBillableOne(x)
          /\ ~(droppedOverflow' > droppedOverflow)
      <4>1. /\ NonBillableIn(samples') = 0
            /\ BillableIn(samples') = 1
        BY <2>1, <3>3
      <4> QED
        BY <1>2, <2>1, <3>2, <3>4, <4>1 DEF HeldBillable, HeldNonBillable
    <3> QED
      BY <1>2, <3>2, <3>3, <3>6, <3>7, <3>8, Zenon
  <2>3. CASE samples # <<>>
    <3>1. /\ Victim \in 1 .. Len(samples)
          /\ IsBillable(gone.outcome) => \A i \in DOMAIN samples : IsBillable(samples[i].outcome)
      BY <2>3, VictimIsThere, Zenon
    <3>2. /\ gone \in Sample
          /\ rest \in Seq(Sample)
          /\ Len(rest) = Len(samples) - 1
          /\ NonBillableIn(samples) = NonBillableIn(rest) + NonBillableOne(gone)
          /\ BillableIn(samples) = BillableIn(rest) + (1 - NonBillableOne(gone))
      BY <1>1, <3>1, CountRemove, Zenon
    <3>3. /\ samples' = Append(rest, x)
          /\ nonBillable' = SaturatingSub(nonBillable, NonBillableOne(gone))
          /\ droppedOverflow' = droppedOverflow + (1 - NonBillableOne(gone))
          /\ droppedNonBillable' = droppedNonBillable + NonBillableOne(gone)
      BY <1>6, <2>3 DEF RecordEvicting, CountDrop
    <3>4. /\ NonBillableOne(gone) \in {0, 1}
          /\ ~IsBillable(gone.outcome) => NonBillableOne(gone) = 1
      BY OneKind, Zenon
    <3> HIDE DEF gone, rest
    <3>5. samples' \in Seq(Sample) /\ Len(samples') = Len(rest) + 1
      BY <3>2, <3>3, AppendProperties
    <3>6. /\ NonBillableIn(samples') = NonBillableIn(rest) + NonBillableOne(x)
          /\ BillableIn(samples') = BillableIn(rest) + (1 - NonBillableOne(x))
      BY <3>2, <3>3, CountAppend, Zenon
    <3>7. NonBillableIn(rest) \in Nat /\ BillableIn(rest) \in Nat
      BY <3>2, CountsAddUp, Zenon
    <3>8. Len(samples') <= Room
      <4>1. Len(samples') = (Len(samples) - 1) + 1
        BY <3>2, <3>5, Zenon
      <4> QED
        BY <1>2, <4>1
    <3>9. /\ NonBillableIn(samples) = NonBillableIn(rest) + NonBillableOne(gone)
          /\ BillableIn(samples) = BillableIn(rest) + (1 - NonBillableOne(gone))
      BY <3>2, Zenon
    <3>10. nonBillable' = NonBillableIn(samples')
      <4>1. nonBillable' = SaturatingSub(NonBillableIn(rest) + NonBillableOne(gone),
                                         NonBillableOne(gone))
        BY <1>1, <3>3, <3>9, Zenon
      <4>2. NonBillableIn(samples') = NonBillableIn(rest)
        BY <2>1, <3>6, <3>7
      <4> QED
        BY <3>4, <3>7, <4>1, <4>2 DEF SaturatingSub
    <3>11. /\ HeldBillable' = HeldBillable + (1 - NonBillableOne(x))
           /\ HeldNonBillable' = HeldNonBillable + NonBillableOne(x)
           /\ droppedOverflow' \in Nat /\ droppedNonBillable' \in Nat
      <4>1. /\ droppedOverflow' = droppedOverflow + (1 - NonBillableOne(gone))
            /\ droppedNonBillable' = droppedNonBillable + NonBillableOne(gone)
        BY <3>3, Zenon
      <4>2. NonBillableIn(samples') = NonBillableIn(rest) /\ BillableIn(samples') = BillableIn(rest) + 1
        BY <2>1, <3>6, <3>7
      <4>3. HeldBillable' = HeldBillable + (1 - NonBillableOne(x)) /\ droppedOverflow' \in Nat
        <5>1. CASE NonBillableOne(gone) = 0
          <6>1. /\ droppedOverflow' = droppedOverflow + 1
                /\ BillableIn(samples) = BillableIn(rest) + 1
            BY <3>9, <4>1, <5>1
          <6> QED
            BY <1>2, <2>1, <3>7, <4>2, <6>1 DEF HeldBillable
        <5>2. CASE NonBillableOne(gone) = 1
          <6>1. /\ droppedOverflow' = droppedOverflow
                /\ BillableIn(samples) = BillableIn(rest)
            BY <1>2, <3>7, <3>9, <4>1, <5>2
          <6> QED
            BY <1>2, <2>1, <3>7, <4>2, <6>1 DEF HeldBillable
        <5> QED
          BY <3>4, <5>1, <5>2
      <4>4. HeldNonBillable' = HeldNonBillable + NonBillableOne(x) /\ droppedNonBillable' \in Nat
        BY <1>2, <2>1, <3>4, <3>7, <3>9, <4>1, <4>2 DEF HeldNonBillable
      <4> QED
        BY <4>3, <4>4
    <3>12. droppedOverflow' > droppedOverflow => IsBillable(gone.outcome)
      <4>1. droppedOverflow' = droppedOverflow + (1 - NonBillableOne(gone))
        BY <3>3, Zenon
      <4> QED
        BY <1>2, <3>4, <4>1
    <3> QED
      BY <2>1, <3>1, <3>5, <3>8, <3>10, <3>11, <3>12, Zenon
  <2> QED
    BY <2>2, <2>3
<1>7. Counted
  BY <1>4, <1>5, <1>6, Zenon DEF Record
<1> HIDE DEF Counted
<1>8. /\ seq' = seq /\ events' = events
      /\ flushEarly' = (flushEarly \/ Len(samples) + 1 >= FlushEarlyAt)
  BY DEF Record
<1>9. nonBillable' \in Nat
  BY <1>7, CountsAddUp, Zenon DEF Counted
<1>10. flushEarly' \in BOOLEAN
  BY <1>8, Zenon
<1>11. BufferTypeOK'
  BY <1>7, <1>8, <1>9, <1>10, Zenon DEF Counted, Sound, BufferTypeOK
<1>12. (Len(samples) <= Room)'
  BY <1>7, Zenon DEF Counted, Room
<1> QED
  BY <1>7, <1>8, <1>11, <1>12, Zenon DEF Counted, Sound

\* `drain` hands over the oldest rows and every count, and keeps the rest: what
\* the batch accounts for and what stays is what the buffer held.
LEMMA DrainSound ==
  ASSUME Sound, Drain
  PROVE  /\ Sound'
         /\ NextBatch \in Drained
         /\ samples = NextBatch.samples \o samples'
         /\ HeldBillable = HeldBillable' + (BillableIn(NextBatch.samples)
                                             + NextBatch.droppedOverflow)
         /\ HeldNonBillable = HeldNonBillable' + (NonBillableIn(NextBatch.samples)
                                                   + NextBatch.droppedNonBillable)
         /\ events = events' + NextBatch.events
         /\ seq' = seq + 1 /\ NextBatch.seq = seq + 1
<1> DEFINE taken == SubSeq(samples, 1, DrainCount)
<1>1. /\ samples \in Seq(Sample)
      /\ nonBillable = NonBillableIn(samples)
  BY HeldNumbers, Zenon
<1>2. /\ Len(samples) \in Nat /\ BatchCap \in Nat /\ Room \in Nat
      /\ droppedOverflow \in Nat /\ droppedNonBillable \in Nat
      /\ seq \in Nat /\ events \in Nat
      /\ Len(samples) <= Room
  BY HeldNumbers, Zenon DEF Sound
<1>3. DrainCount \in 0 .. Len(samples)
  BY <1>2 DEF DrainCount
<1>4. samples' = SubSeq(samples, DrainCount + 1, Len(samples))
  BY DEF Drain
<1>5. /\ taken \in Seq(Sample) /\ samples' \in Seq(Sample)
      /\ Len(samples') = Len(samples) - DrainCount
      /\ samples = taken \o samples'
  BY <1>1, <1>3, <1>4, CutAt, Zenon
<1>6. /\ NonBillableIn(samples) = NonBillableIn(taken) + NonBillableIn(samples')
      /\ BillableIn(samples) = BillableIn(taken) + BillableIn(samples')
  BY <1>5, CountConcat, Zenon
<1>7. /\ NextBatch.samples = taken
      /\ NextBatch.droppedOverflow = droppedOverflow
      /\ NextBatch.droppedNonBillable = droppedNonBillable
      /\ NextBatch.seq = seq + 1
      /\ NextBatch.events = events
  BY DEF NextBatch
<1> HIDE DEF taken
<1>8. NextBatch \in Drained
  <2>1. NextBatch = [samples |-> taken, droppedOverflow |-> droppedOverflow,
                     droppedNonBillable |-> droppedNonBillable,
                     seq |-> seq + 1, events |-> events]
    BY DEF NextBatch, taken
  <2>2. seq + 1 \in Nat
    BY <1>2
  <2> QED
    BY <1>2, <1>5, <2>1, <2>2 DEF Drained
<1>9. /\ NonBillableIn(taken) \in Nat /\ BillableIn(taken) \in Nat
      /\ NonBillableIn(samples') \in Nat /\ BillableIn(samples') \in Nat
  BY <1>5, CountsAddUp, Zenon
<1>10. /\ nonBillable' = SaturatingSub(nonBillable, NonBillableIn(taken))
       /\ droppedOverflow' = 0 /\ droppedNonBillable' = 0
       /\ seq' = seq + 1 /\ events' = 0 /\ flushEarly' = flushEarly
  BY <1>7, Zenon DEF Drain
<1>11. nonBillable' = NonBillableIn(samples')
  <2>1. nonBillable' = SaturatingSub(NonBillableIn(taken) + NonBillableIn(samples'),
                                     NonBillableIn(taken))
    BY <1>1, <1>6, <1>10, Zenon
  <2> QED
    BY <1>9, <2>1 DEF SaturatingSub
<1>12. Len(samples') <= Room
  <2>1. Len(samples') = Len(samples) - DrainCount
    BY <1>5, Zenon
  <2> QED
    BY <1>2, <1>3, <2>1
<1>13. /\ HeldBillable = HeldBillable' + (BillableIn(taken) + droppedOverflow)
       /\ HeldNonBillable = HeldNonBillable' + (NonBillableIn(taken) + droppedNonBillable)
       /\ events = events' + events
  BY <1>2, <1>6, <1>9, <1>10 DEF HeldBillable, HeldNonBillable
<1>14. seq' \in Nat /\ events' \in Nat /\ droppedOverflow' \in Nat /\ droppedNonBillable' \in Nat
  BY <1>2, <1>10
<1>15. BufferTypeOK'
  BY <1>5, <1>9, <1>10, <1>11, <1>14, Zenon DEF Sound, BufferTypeOK
<1>16. (Len(samples) <= Room)'
  BY <1>12, Zenon DEF Room
<1> QED
  BY <1>5, <1>7, <1>8, <1>10, <1>11, <1>13, <1>15, <1>16, Zenon DEF Sound

\* How much of a returned batch fits is a number of its rows, and no more than
\* the room there is.
LEMMA ReturnableFits ==
  ASSUME Sound, NEW b \in Drained
  PROVE  /\ Len(b.samples) \in Nat
         /\ Returnable(b) \in 0 .. Len(b.samples)
         /\ Returnable(b) + Len(samples) <= Room
<1>1. b.samples \in Seq(Sample)
  BY DEF Drained
<1>2. Len(b.samples) \in Nat
  BY <1>1, LenProperties
<1>3. Len(samples) \in Nat /\ Cap \in Nat /\ Len(samples) <= Room
  BY HeldNumbers, Zenon DEF Sound
<1> QED
  BY <1>2, <1>3 DEF Returnable, SaturatingSub, Room

\* `requeue_front` takes back all a batch accounts for: the rows that fit as rows,
\* the others, the oldest, as counts.
LEMMA RequeueSound ==
  ASSUME Sound, NEW b \in Drained, RequeueFront(b)
  PROVE  /\ Sound'
         /\ samples' = ReturnedRows(b) \o samples
         /\ b.samples = UnreturnedRows(b) \o ReturnedRows(b)
         /\ UnreturnedRows(b) \in Seq(Sample) /\ ReturnedRows(b) \in Seq(Sample)
         /\ HeldBillable' = HeldBillable + (BillableIn(b.samples) + b.droppedOverflow)
         /\ HeldNonBillable' = HeldNonBillable
                                + (NonBillableIn(b.samples) + b.droppedNonBillable)
         /\ events' = events + b.events
         /\ seq' = seq
<1> DEFINE cut == Len(b.samples) - Returnable(b)
           back == ReturnedRows(b)
           lost == UnreturnedRows(b)
<1>1. /\ samples \in Seq(Sample)
      /\ nonBillable = NonBillableIn(samples)
  BY HeldNumbers, Zenon
<1>2. /\ Len(samples) \in Nat
      /\ NonBillableIn(samples) \in Nat /\ BillableIn(samples) \in Nat
      /\ droppedOverflow \in Nat /\ droppedNonBillable \in Nat /\ events \in Nat
  BY HeldNumbers, Zenon
<1>3. b.samples \in Seq(Sample)
  BY DEF Drained
<1>4. b.droppedOverflow \in Nat /\ b.droppedNonBillable \in Nat /\ b.events \in Nat
  BY DEF Drained
<1>5. /\ Len(b.samples) \in Nat
      /\ Returnable(b) \in 0 .. Len(b.samples)
      /\ Returnable(b) + Len(samples) <= Room
  BY ReturnableFits, Zenon
<1>6. cut \in 0 .. Len(b.samples) /\ Len(b.samples) - cut = Returnable(b)
  BY <1>5
<1>7. /\ lost = SubSeq(b.samples, 1, cut)
      /\ back = SubSeq(b.samples, cut + 1, Len(b.samples))
  BY Zenon DEF ReturnedRows, UnreturnedRows
<1> HIDE DEF cut, back, lost
<1>8. /\ lost \in Seq(Sample) /\ back \in Seq(Sample)
      /\ Len(back) = Returnable(b)
      /\ b.samples = lost \o back
  BY <1>3, <1>6, <1>7, CutAt, Zenon
<1>9. /\ samples' = back \o samples
      /\ nonBillable' = nonBillable + NonBillableIn(back)
      /\ droppedOverflow' = droppedOverflow + BillableIn(lost) + b.droppedOverflow
      /\ droppedNonBillable' = droppedNonBillable + NonBillableIn(lost) + b.droppedNonBillable
      /\ events' = events + b.events
      /\ seq' = seq /\ flushEarly' = flushEarly
  BY Zenon DEF RequeueFront, back, lost
<1>10. /\ NonBillableIn(samples') = NonBillableIn(back) + NonBillableIn(samples)
       /\ BillableIn(samples') = BillableIn(back) + BillableIn(samples)
  BY <1>1, <1>8, <1>9, CountConcat, Zenon
<1>11. /\ NonBillableIn(b.samples) = NonBillableIn(lost) + NonBillableIn(back)
       /\ BillableIn(b.samples) = BillableIn(lost) + BillableIn(back)
  BY <1>8, CountConcat, Zenon
<1>12. /\ NonBillableIn(lost) \in Nat /\ BillableIn(lost) \in Nat
       /\ NonBillableIn(back) \in Nat /\ BillableIn(back) \in Nat
  BY <1>8, CountsAddUp, Zenon
<1>13. samples' \in Seq(Sample) /\ Len(samples') = Len(back) + Len(samples)
  BY <1>1, <1>8, <1>9, ConcatProperties
<1>14. (Len(samples) <= Room)'
  <2>1. Len(samples') = Returnable(b) + Len(samples)
    BY <1>8, <1>13, Zenon
  <2>2. Room' = Room
    BY Zenon DEF Room
  <2> QED
    BY <1>5, <2>1, <2>2, Zenon
<1>15. nonBillable' = NonBillableIn(samples') /\ nonBillable' \in Nat
  <2>1. nonBillable' = NonBillableIn(samples) + NonBillableIn(back)
    BY <1>1, <1>9, Zenon
  <2>2. NonBillableIn(samples') = NonBillableIn(back) + NonBillableIn(samples)
    BY <1>10, Zenon
  <2> QED
    BY <1>2, <1>12, <2>1, <2>2
<1>16. /\ HeldBillable' = HeldBillable + (BillableIn(b.samples) + b.droppedOverflow)
       /\ droppedOverflow' \in Nat
  <2> DEFINE rows == BillableIn(b.samples)  now  == BillableIn(samples)
             in   == BillableIn(back)       held == BillableIn(samples')
             out  == BillableIn(lost)       drops == b.droppedOverflow
  <2>1. /\ now \in Nat /\ in \in Nat /\ out \in Nat /\ drops \in Nat
        /\ rows = out + in
        /\ held = in + now
        /\ droppedOverflow' = droppedOverflow + out + drops
    BY <1>2, <1>4, <1>9, <1>10, <1>11, <1>12, Zenon
  <2> HIDE DEF rows, now, in, held, out, drops
  <2>2. droppedOverflow \in Nat
    BY <1>2, Zenon
  <2>3. /\ held + droppedOverflow' = (now + droppedOverflow) + (rows + drops)
        /\ droppedOverflow' \in Nat
    BY <2>1, <2>2
  <2> QED
    BY <2>3, Zenon DEF HeldBillable, rows, now, held, drops
<1>17. /\ HeldNonBillable' = HeldNonBillable
                             + (NonBillableIn(b.samples) + b.droppedNonBillable)
       /\ droppedNonBillable' \in Nat
  <2> DEFINE rows == NonBillableIn(b.samples)  now  == NonBillableIn(samples)
             in   == NonBillableIn(back)       held == NonBillableIn(samples')
             out  == NonBillableIn(lost)       drops == b.droppedNonBillable
  <2>1. /\ now \in Nat /\ in \in Nat /\ out \in Nat /\ drops \in Nat
        /\ rows = out + in
        /\ held = in + now
        /\ droppedNonBillable' = droppedNonBillable + out + drops
    BY <1>2, <1>4, <1>9, <1>10, <1>11, <1>12, Zenon
  <2> HIDE DEF rows, now, in, held, out, drops
  <2>2. droppedNonBillable \in Nat
    BY <1>2, Zenon
  <2>3. /\ held + droppedNonBillable' = (now + droppedNonBillable) + (rows + drops)
        /\ droppedNonBillable' \in Nat
    BY <2>1, <2>2
  <2> QED
    BY <2>3, Zenon DEF HeldNonBillable, rows, now, held, drops
<1>18. events' \in Nat
  <2>1. events' = events + b.events
    BY <1>9, Zenon
  <2> QED
    BY <1>2, <1>4, <2>1
<1>19. BufferTypeOK'
  BY <1>9, <1>13, <1>15, <1>16, <1>17, <1>18, Zenon DEF Sound, BufferTypeOK
<1> QED
  BY <1>8, <1>9, <1>14, <1>15, <1>16, <1>17, <1>19, Zenon DEF Sound, back, lost

----------------------------------------------------------------------------
\* The invariant of BatchCustody.

\* No two rows are the same call.
Distinct(s) == \A i, j \in DOMAIN s : i # j => s[i].id # s[j].id

\* A batch the buffer has handed out.
Batches == custody \union settled

\* RowsOnce with what keeps it: a batch's own rows are distinct calls, and no
\* row is a call still to come.
RowsInv ==
    /\ RowsOnce
    /\ Ids(samples) \subseteq 1 .. calls
    /\ \A b \in Batches : Distinct(b.samples) /\ Ids(b.samples) \subseteq 1 .. calls

LinesFinite == \A k \in Kinds : IsFiniteSet(Lines(Batches, k))

CustodyInv ==
    /\ TypeOK
    /\ NonBillableExact
    /\ BoundedBuffer
    /\ SeqUnique
    /\ LinesFinite
    /\ Ledger
    /\ RowsInv

----------------------------------------------------------------------------

\* What a batch accounts for is a number, zero for an empty batch.
LEMMA UnitsType ==
  ASSUME NEW b \in Drained, NEW k \in Kinds
  PROVE  /\ Units(b, k) \in Nat
         /\ IsEmpty(b) => Units(b, k) = 0
<1>1. b.samples \in Seq(Sample)
  BY DEF Drained
<1>2. b.droppedOverflow \in Nat /\ b.droppedNonBillable \in Nat /\ b.events \in Nat
  BY DEF Drained
<1>3. NonBillableIn(b.samples) \in Nat /\ BillableIn(b.samples) \in Nat
  BY <1>1, CountsAddUp, Zenon
<1>4. IsEmpty(b) => /\ NonBillableIn(b.samples) = 0 /\ BillableIn(b.samples) = 0
                    /\ b.droppedOverflow = 0 /\ b.droppedNonBillable = 0 /\ b.events = 0
  BY CountNone, Zenon DEF IsEmpty
<1> DEFINE nb == NonBillableIn(b.samples)  bi == BillableIn(b.samples)
           dn == b.droppedNonBillable      do == b.droppedOverflow      ev == b.events
<1>5. /\ k = "billable" => Units(b, k) = bi + do
      /\ k = "nonBillable" => Units(b, k) = nb + dn
      /\ k = "events" => Units(b, k) = ev
  BY DEF Units
<1>6. nb \in Nat /\ bi \in Nat /\ dn \in Nat /\ do \in Nat /\ ev \in Nat
  BY <1>2, <1>3, Zenon
<1>7. IsEmpty(b) => nb = 0 /\ bi = 0 /\ dn = 0 /\ do = 0 /\ ev = 0
  BY <1>4, Zenon
<1> HIDE DEF nb, bi, dn, do, ev
<1>8. bi + do \in Nat /\ nb + dn \in Nat
  BY <1>6
<1>9. IsEmpty(b) => bi + do = 0 /\ nb + dn = 0
  BY <1>7
<1> QED
  BY <1>5, <1>6, <1>7, <1>8, <1>9, Zenon DEF Kinds

\* A batch added to others adds its units to their total.
LEMMA LinesAdd ==
  ASSUME NEW S, NEW b, b \notin S, NEW k, Units(b, k) \in Nat,
         IsFiniteSet(Lines(S, k))
  PROVE  /\ IsFiniteSet(Lines(S \cup {b}, k))
         /\ Total(S \cup {b}, k) = Total(S, k) + Units(b, k)
         /\ Total(S, k) \in Nat
<1> DEFINE n == Units(b, k)
           own == {b} \X (1 .. n)
           number == [i \in 1 .. n |-> <<b, i>>]
<1>1. Lines(S \cup {b}, k) = Lines(S, k) \cup own
  BY Zenon DEF Lines
<1>2. Lines(S, k) \cap own = {}
  BY DEF Lines
<1>3. number \in Bijection(1 .. n, own)
  BY DEF Bijection, Injection, Surjection, IsInjective
<1> HIDE DEF n, own, number
<1>4. n \in Nat
  BY DEF n
<1>5. IsFiniteSet(1 .. n) /\ Cardinality(1 .. n) = n
  BY <1>4, FS_Interval
<1>6. IsFiniteSet(own) /\ Cardinality(own) = n
  BY <1>3, <1>5, FS_Bijection DEF ExistsBijection
<1>7. /\ IsFiniteSet(Lines(S, k) \cup own)
      /\ Cardinality(Lines(S, k) \cup own)
           = Cardinality(Lines(S, k)) + Cardinality(own) - Cardinality({})
  <2>1. /\ IsFiniteSet(Lines(S, k) \cup own)
        /\ Cardinality(Lines(S, k) \cup own)
             = Cardinality(Lines(S, k)) + Cardinality(own) - Cardinality(Lines(S, k) \cap own)
    BY <1>6, FS_Union, Zenon
  <2> QED
    BY <1>2, <2>1
<1>8. Cardinality(Lines(S, k)) \in Nat
  BY FS_CardinalityType
<1>9. Cardinality(Lines(S, k) \cup own) = Cardinality(Lines(S, k)) + n
  BY <1>4, <1>6, <1>7, <1>8, FS_EmptySet
<1> QED
  BY <1>1, <1>7, <1>8, <1>9, Zenon DEF Total, n

\* A batch taken away takes its units with it.
LEMMA LinesRemove ==
  ASSUME NEW S, NEW b \in S, NEW k, Units(b, k) \in Nat,
         IsFiniteSet(Lines(S, k))
  PROVE  /\ IsFiniteSet(Lines(S \ {b}, k))
         /\ Total(S, k) = Total(S \ {b}, k) + Units(b, k)
         /\ Total(S \ {b}, k) \in Nat
<1>1. Lines(S \ {b}, k) \subseteq Lines(S, k)
  BY DEF Lines
<1>2. IsFiniteSet(Lines(S \ {b}, k))
  BY <1>1, FS_Subset
<1> DEFINE R == S \ {b}
<1>3. R \cup {b} = S /\ b \notin R /\ IsFiniteSet(Lines(R, k))
  BY <1>2
<1> HIDE DEF R
<1>4. /\ Total(R \cup {b}, k) = Total(R, k) + Units(b, k)
      /\ Total(R, k) \in Nat
  BY <1>3, LinesAdd
<1> QED
  BY <1>2, <1>3, <1>4, Zenon DEF R

\* The rows of a concatenation are distinct calls when those of each part are
\* and the parts share none.
LEMMA DistinctConcat ==
  ASSUME NEW s \in Seq(Sample), NEW t \in Seq(Sample)
  PROVE  /\ Ids(s \o t) = Ids(s) \cup Ids(t)
         /\ Distinct(s \o t) <=> /\ Distinct(s) /\ Distinct(t)
                                 /\ Ids(s) \cap Ids(t) = {}
<1> DEFINE u == s \o t
<1>1. /\ u \in Seq(Sample)
      /\ Len(u) = Len(s) + Len(t)
      /\ \A i \in 1 .. Len(s) + Len(t) : u[i] = IF i <= Len(s) THEN s[i] ELSE t[i - Len(s)]
  BY ConcatProperties
<1> HIDE DEF u
<1>2. /\ Len(s) \in Nat /\ Len(t) \in Nat
      /\ DOMAIN s = 1 .. Len(s) /\ DOMAIN t = 1 .. Len(t) /\ DOMAIN u = 1 .. Len(s) + Len(t)
  BY <1>1, LenProperties
<1>3. \A i \in DOMAIN s : i \in DOMAIN u /\ u[i] = s[i]
  BY <1>1, <1>2
<1>4. \A i \in DOMAIN t : Len(s) + i \in DOMAIN u /\ u[Len(s) + i] = t[i]
  <2>1. ASSUME NEW i \in DOMAIN t PROVE Len(s) + i \in DOMAIN u /\ u[Len(s) + i] = t[i]
    <3>1. /\ i \in Nat /\ Len(s) + i \in 1 .. Len(s) + Len(t)
          /\ ~(Len(s) + i <= Len(s)) /\ (Len(s) + i) - Len(s) = i
      BY <1>2
    <3> QED
      BY <1>1, <1>2, <3>1
  <2> QED
    BY <2>1
<1>5. \A i \in DOMAIN u : \/ i \in DOMAIN s /\ u[i] = s[i]
                          \/ i - Len(s) \in DOMAIN t /\ u[i] = t[i - Len(s)]
  BY <1>1, <1>2
<1>6. Ids(u) = Ids(s) \cup Ids(t)
  <2>1. Ids(u) \subseteq Ids(s) \cup Ids(t)
    BY <1>5, Zenon DEF Ids
  <2>2. Ids(s) \subseteq Ids(u)
    BY <1>3, Zenon DEF Ids
  <2>3. Ids(t) \subseteq Ids(u)
    BY <1>4, Zenon DEF Ids
  <2> QED
    BY <2>1, <2>2, <2>3
<1>7. ASSUME Distinct(u) PROVE Distinct(s) /\ Distinct(t) /\ Ids(s) \cap Ids(t) = {}
  <2>1. Distinct(s)
    BY <1>3, <1>7, Zenon DEF Distinct
  <2>2. Distinct(t)
    <3>1. ASSUME NEW i \in DOMAIN t, NEW j \in DOMAIN t, i # j PROVE t[i].id # t[j].id
      <4>1. Len(s) + i # Len(s) + j
        BY <1>2, <3>1
      <4> QED
        BY <1>4, <1>7, <3>1, <4>1, Zenon DEF Distinct
    <3> QED
      BY <3>1, Zenon DEF Distinct
  <2>3. ASSUME NEW i \in DOMAIN s, NEW j \in DOMAIN t PROVE s[i].id # t[j].id
    <3>1. i # Len(s) + j
      BY <1>2
    <3>2. /\ i \in DOMAIN u /\ u[i] = s[i]
          /\ Len(s) + j \in DOMAIN u /\ u[Len(s) + j] = t[j]
      BY <1>3, <1>4
    <3>3. u[i].id # u[Len(s) + j].id
      BY <1>7, <3>1, <3>2, Zenon DEF Distinct
    <3> QED
      BY <3>2, <3>3, Zenon
  <2> QED
    BY <2>1, <2>2, <2>3, Zenon DEF Ids
<1>8. ASSUME Distinct(s), Distinct(t), Ids(s) \cap Ids(t) = {} PROVE Distinct(u)
  <2>1. ASSUME NEW i \in DOMAIN u, NEW j \in DOMAIN u, i # j PROVE u[i].id # u[j].id
    <3>1. \A m \in DOMAIN s, n \in DOMAIN t : s[m].id # t[n].id
      BY <1>8, Zenon DEF Ids
    <3>2. CASE i \in DOMAIN s /\ u[i] = s[i] /\ j \in DOMAIN s /\ u[j] = s[j]
      BY <1>8, <2>1, <3>2, Zenon DEF Distinct
    <3>3. CASE /\ i - Len(s) \in DOMAIN t /\ u[i] = t[i - Len(s)]
               /\ j - Len(s) \in DOMAIN t /\ u[j] = t[j - Len(s)]
      <4>1. i - Len(s) # j - Len(s)
        BY <1>2, <2>1
      <4> QED
        BY <1>8, <3>3, <4>1, Zenon DEF Distinct
    <3>4. CASE i \in DOMAIN s /\ u[i] = s[i] /\ j - Len(s) \in DOMAIN t /\ u[j] = t[j - Len(s)]
      BY <3>1, <3>4, Zenon
    <3>5. CASE j \in DOMAIN s /\ u[j] = s[j] /\ i - Len(s) \in DOMAIN t /\ u[i] = t[i - Len(s)]
      BY <3>1, <3>5, Zenon
    <3> QED
      BY <1>5, <3>2, <3>3, <3>4, <3>5, Zenon
  <2> QED
    BY <2>1, Zenon DEF Distinct
<1> QED
  BY <1>6, <1>7, <1>8, Zenon DEF u

\* One row is one call.
LEMMA DistinctOne ==
  ASSUME NEW x
  PROVE  Ids(<<x>>) = {x.id} /\ Distinct(<<x>>)
BY DEF Ids, Distinct

\* Taking a row out leaves the others distinct.
LEMMA DistinctRemove ==
  ASSUME NEW s \in Seq(Sample), NEW i \in 1 .. Len(s), Distinct(s)
  PROVE  /\ Without(s, i) \in Seq(Sample)
         /\ Distinct(Without(s, i))
         /\ Ids(Without(s, i)) \subseteq Ids(s)
<1> DEFINE front == SubSeq(s, 1, i - 1)
           back  == SubSeq(s, i + 1, Len(s))
           upto  == SubSeq(s, 1, i)
           one   == <<s[i]>>
<1>1. /\ front \in Seq(Sample) /\ back \in Seq(Sample) /\ upto \in Seq(Sample)
      /\ s[i] \in Sample
      /\ upto = front \o one /\ s = upto \o back /\ Without(s, i) = front \o back
  BY RemoveParts, Zenon
<1>2. one \in Seq(Sample)
  BY <1>1, CountOne, Zenon
<1> HIDE DEF front, back, upto, one
<1>3. /\ Distinct(upto) /\ Distinct(back) /\ Ids(upto) \cap Ids(back) = {}
      /\ Ids(s) = Ids(upto) \cup Ids(back)
  BY <1>1, DistinctConcat, Zenon
<1>4. Distinct(front) /\ Ids(upto) = Ids(front) \cup Ids(one)
  BY <1>1, <1>2, <1>3, DistinctConcat, Zenon
<1>5. Ids(front) \cap Ids(back) = {}
  BY <1>3, <1>4
<1>6. Distinct(front \o back) /\ Ids(front \o back) = Ids(front) \cup Ids(back)
  BY <1>1, <1>3, <1>4, <1>5, DistinctConcat, Zenon
<1>7. Ids(front) \cup Ids(back) \subseteq Ids(s)
  BY <1>3, <1>4
<1>8. Without(s, i) \in Seq(Sample)
  BY CountRemove, Zenon
<1> QED
  BY <1>1, <1>6, <1>7, <1>8, Zenon

\* `record` adds no row but the new call's.
LEMMA RecordRows ==
  ASSUME Sound, NEW x \in Sample, Record(x), Distinct(samples), x.id \notin Ids(samples)
  PROVE  Distinct(samples') /\ Ids(samples') \subseteq Ids(samples) \cup {x.id}
<1>1. samples \in Seq(Sample)
  BY HeldNumbers, Zenon
<1>2. <<x>> \in Seq(Sample) /\ Ids(<<x>>) = {x.id} /\ Distinct(<<x>>)
  BY CountOne, DistinctOne, Zenon
<1>3. ASSUME NEW s \in Seq(Sample), Distinct(s), Ids(s) \subseteq Ids(samples)
      PROVE  /\ Distinct(Append(s, x))
             /\ Ids(Append(s, x)) \subseteq Ids(samples) \cup {x.id}
  <2>1. Append(s, x) = s \o <<x>>
    BY AppendIsConcat
  <2>2. Ids(s) \cap Ids(<<x>>) = {}
    BY <1>2, <1>3, Zenon
  <2>3. Distinct(s \o <<x>>) /\ Ids(s \o <<x>>) = Ids(s) \cup Ids(<<x>>)
    BY <1>2, <1>3, <2>2, DistinctConcat, Zenon
  <2>4. Ids(s) \cup {x.id} \subseteq Ids(samples) \cup {x.id}
    BY <1>3, Zenon
  <2> QED
    BY <1>2, <2>1, <2>3, <2>4, Zenon
<1>4. CASE RecordInRoom(x)
  <2>1. samples' = Append(samples, x)
    BY <1>4 DEF RecordInRoom
  <2>2. Ids(samples) \subseteq Ids(samples)
    OBVIOUS
  <2> QED
    BY <1>1, <1>3, <2>1, <2>2, Zenon
<1>5. CASE RecordRefused(x)
  <2>1. samples' = samples
    BY <1>5 DEF RecordRefused
  <2> QED
    BY <2>1, Zenon
<1>6. CASE RecordEvicting(x)
  <2>1. CASE samples = <<>>
    <3>1. samples' = <<x>>
      BY <1>6, <2>1 DEF RecordEvicting
    <3> QED
      BY <1>2, <3>1, Zenon
  <2>2. CASE samples # <<>>
    <3> DEFINE rest == Without(samples, Victim)
    <3>1. samples' = Append(rest, x)
      BY <1>6, <2>2, Zenon DEF RecordEvicting
    <3>2. Victim \in 1 .. Len(samples)
      BY <2>2, VictimIsThere, Zenon
    <3>3. rest \in Seq(Sample) /\ Distinct(rest) /\ Ids(rest) \subseteq Ids(samples)
      BY <1>1, <3>2, DistinctRemove, Zenon
    <3> HIDE DEF rest
    <3> QED
      BY <1>3, <3>1, <3>3, Zenon
  <2> QED
    BY <2>1, <2>2
<1> QED
  BY <1>4, <1>5, <1>6, Zenon DEF Record

----------------------------------------------------------------------------

\* The buffer's share of the invariant, and back.
LEMMA SoundIsInv ==
  /\ Sound <=> BufferTypeOK /\ NonBillableExact /\ BoundedBuffer
  /\ Sound' <=> BufferTypeOK' /\ NonBillableExact' /\ BoundedBuffer'
BY Zenon DEF Sound, NonBillableExact, BoundedBuffer, Room

\* What a batch accounts for, kind by kind.
LEMMA UnitsByKind ==
  ASSUME NEW b
  PROVE  /\ Units(b, "billable") = BillableIn(b.samples) + b.droppedOverflow
         /\ Units(b, "nonBillable") = NonBillableIn(b.samples) + b.droppedNonBillable
         /\ Units(b, "events") = b.events
BY DEF Units

\* What the ledger says the buffer holds.
LEMMA BufferedUnits ==
  /\ Units(Buffered, "billable") = HeldBillable
  /\ Units(Buffered, "nonBillable") = HeldNonBillable
  /\ Units(Buffered, "events") = events
  /\ Units(Buffered', "billable") = HeldBillable'
  /\ Units(Buffered', "nonBillable") = HeldNonBillable'
  /\ Units(Buffered', "events") = events'
<1>1. /\ Buffered.samples = samples
      /\ Buffered.droppedOverflow = droppedOverflow
      /\ Buffered.droppedNonBillable = droppedNonBillable
      /\ Buffered.events = events
  BY DEF Buffered
<1>2. /\ Buffered'.samples = samples'
      /\ Buffered'.droppedOverflow = droppedOverflow'
      /\ Buffered'.droppedNonBillable = droppedNonBillable'
      /\ Buffered'.events = events'
  BY DEF Buffered
<1> QED
  BY <1>1, <1>2, UnitsByKind, Zenon DEF HeldBillable, HeldNonBillable

\* The sample `record` is called with.
LEMMA CallSample ==
  ASSUME calls \in Nat, NEW o \in Outcomes
  PROVE  LET x == [id |-> calls + 1, outcome |-> o]
         IN  /\ x \in Sample /\ x.id = calls + 1
             /\ KindOf(o) = "billable" => NonBillableOne(x) = 0
             /\ KindOf(o) = "nonBillable" => NonBillableOne(x) = 1
             /\ KindOf(o) \in {"billable", "nonBillable"}
BY DEF Sample, KindOf, NonBillableOne

\* Every step leaves the buffer sound and the batches batches.
LEMMA StepType ==
  ASSUME CustodyInv, [Next]_custodyVars
  PROVE  TypeOK' /\ Sound'
<1>1. Sound /\ BufferTypeOK
  BY SoundIsInv, Zenon DEF CustodyInv, TypeOK
<1>2. custody \in SUBSET Drained /\ settled \in SUBSET Drained
  BY Zenon DEF CustodyInv, TypeOK
<1>3. calls \in Nat /\ usage \in [Kinds -> Nat]
  BY Zenon DEF CustodyInv, TypeOK
<1>4. ASSUME NEW o \in Outcomes, RecordCall(o) PROVE TypeOK' /\ Sound'
  <2> DEFINE x == [id |-> calls + 1, outcome |-> o]
  <2>1. x \in Sample /\ Record(x)
    BY <1>3, <1>4, CallSample, Zenon DEF RecordCall
  <2> HIDE DEF x
  <2>2. Sound'
    BY <1>1, <2>1, RecordSound, Zenon
  <2>3. calls' = calls + 1 /\ usage' = [usage EXCEPT ![KindOf(o)] = @ + 1]
    BY <1>4, Zenon DEF RecordCall
  <2>4. calls' \in Nat /\ usage' \in [Kinds -> Nat]
    BY <1>3, <2>3 DEF Kinds, KindOf
  <2>5. custody' = custody /\ settled' = settled
    BY <1>4, Zenon DEF RecordCall
  <2> QED
    BY <1>2, <2>2, <2>4, <2>5, SoundIsInv, Zenon DEF TypeOK
<1>5. ASSUME NEW n \in 1 .. MaxUsage, RecordUsage(n) PROVE TypeOK' /\ Sound'
  <2>1. /\ samples' = samples /\ nonBillable' = nonBillable /\ flushEarly' = flushEarly
        /\ droppedOverflow' = droppedOverflow /\ droppedNonBillable' = droppedNonBillable
        /\ seq' = seq /\ events' = events + n
    BY <1>5 DEF RecordUsage, RecordEvents
  <2>2. events' \in Nat
    <3>1. n \in Nat /\ events \in Nat
      BY <1>1, CustodyAssumption DEF BufferTypeOK
    <3> QED
      BY <2>1, <3>1
  <2>3. Sound'
    BY <1>1, <2>1, <2>2, Zenon DEF Sound, BufferTypeOK, Room
  <2>4. /\ custody' = custody /\ settled' = settled /\ calls' = calls
        /\ usage' = [usage EXCEPT !["events"] = @ + n]
    BY <1>5, Zenon DEF RecordUsage
  <2>5. usage' \in [Kinds -> Nat]
    BY <1>3, <2>4, CustodyAssumption DEF Kinds
  <2> QED
    BY <1>2, <1>3, <2>3, <2>4, <2>5, SoundIsInv, Zenon DEF TypeOK
<1>6. ASSUME TakeBatch PROVE TypeOK' /\ Sound'
  <2>1. Sound' /\ NextBatch \in Drained
    BY <1>1, <1>6, DrainSound, Zenon DEF TakeBatch
  <2>2. /\ custody' = custody \union {b \in {NextBatch} : ~IsEmpty(b)}
        /\ settled' = settled /\ calls' = calls /\ usage' = usage
    BY <1>6, Zenon DEF TakeBatch
  <2>3. custody' \in SUBSET Drained
    BY <1>2, <2>1, <2>2, Zenon
  <2> QED
    BY <1>2, <1>3, <2>1, <2>2, <2>3, SoundIsInv, Zenon DEF TypeOK
<1>7. ASSUME NEW b \in custody, ReturnBatch(b) PROVE TypeOK' /\ Sound'
  <2>1. b \in Drained
    BY <1>2
  <2>2. Sound'
    BY <1>1, <1>7, <2>1, RequeueSound, Zenon DEF ReturnBatch
  <2>3. /\ custody' = custody \ {b}
        /\ settled' = settled /\ calls' = calls /\ usage' = usage
    BY <1>7, Zenon DEF ReturnBatch
  <2>4. custody' \in SUBSET Drained
    BY <1>2, <2>3
  <2> QED
    BY <1>2, <1>3, <2>2, <2>3, <2>4, SoundIsInv, Zenon DEF TypeOK
<1>8. ASSUME NEW b \in custody, SettleBatch(b) PROVE TypeOK' /\ Sound'
  <2>1. /\ custody' = custody \ {b} /\ settled' = settled \union {b}
        /\ calls' = calls /\ usage' = usage /\ UNCHANGED bufferVars
    BY <1>8, Zenon DEF SettleBatch
  <2>2. Sound'
    BY <1>1, <2>1 DEF Sound, BufferTypeOK, Room, bufferVars
  <2>3. custody' \in SUBSET Drained /\ settled' \in SUBSET Drained
    BY <1>2, <2>1
  <2> QED
    BY <1>3, <2>1, <2>2, <2>3, SoundIsInv, Zenon DEF TypeOK
<1>9. ASSUME TakePermit PROVE TypeOK' /\ Sound'
  <2>1. /\ samples' = samples /\ nonBillable' = nonBillable /\ flushEarly' = FALSE
        /\ droppedOverflow' = droppedOverflow /\ droppedNonBillable' = droppedNonBillable
        /\ seq' = seq /\ events' = events
        /\ custody' = custody /\ settled' = settled /\ calls' = calls /\ usage' = usage
    BY <1>9 DEF TakePermit
  <2>2. Sound'
    BY <1>1, <2>1, Zenon DEF Sound, BufferTypeOK, Room
  <2> QED
    BY <1>2, <1>3, <2>1, <2>2, SoundIsInv, Zenon DEF TypeOK
<1>10. CASE UNCHANGED custodyVars
  <2>1. Sound'
    BY <1>1, <1>10 DEF Sound, BufferTypeOK, Room, custodyVars
  <2>2. custody' = custody /\ settled' = settled /\ calls' = calls /\ usage' = usage
    BY <1>10 DEF custodyVars
  <2> QED
    BY <1>2, <1>3, <2>1, <2>2, SoundIsInv, Zenon DEF TypeOK
<1> QED
  BY <1>4, <1>5, <1>6, <1>7, <1>8, <1>9, <1>10, Zenon DEF Next

\* How each operation changes the set of batches handed out; the next batch is
\* never one of them.
LEMMA BatchesMove ==
  ASSUME CustodyInv
  PROVE  /\ NextBatch \notin Batches
         /\ TakeBatch => Batches' = Batches \cup {b \in {NextBatch} : ~IsEmpty(b)}
         /\ \A b \in custody : /\ b \in Batches
                               /\ ReturnBatch(b) => Batches' = Batches \ {b}
                               /\ SettleBatch(b) => Batches' = Batches
<1>1. NextBatch \notin Batches
  <2>1. NextBatch.seq = seq + 1 /\ seq \in Nat
    BY DEF NextBatch, CustodyInv, TypeOK, BufferTypeOK
  <2>2. \A b \in Batches : b.seq \in 1 .. seq
    BY Zenon DEF CustodyInv, SeqUnique, Batches
  <2>3. seq + 1 \notin 1 .. seq
    BY <2>1
  <2> QED
    BY <2>1, <2>2, <2>3, Zenon
<1>2. TakeBatch => Batches' = Batches \cup {b \in {NextBatch} : ~IsEmpty(b)}
  BY DEF TakeBatch, Batches
<1>3. ASSUME NEW b \in custody
      PROVE  /\ b \in Batches
             /\ ReturnBatch(b) => Batches' = Batches \ {b}
             /\ SettleBatch(b) => Batches' = Batches
  <2>1. b \notin settled
    BY Zenon DEF CustodyInv, SeqUnique
  <2> QED
    BY <2>1 DEF ReturnBatch, SettleBatch, Batches
<1> QED
  BY <1>1, <1>2, <1>3, Zenon

\* Batches keep being told apart by their sequence numbers.
LEMMA StepSeq ==
  ASSUME CustodyInv, [Next]_custodyVars
  PROVE  SeqUnique'
<1>1. /\ \A b \in Batches : b.seq \in 1 .. seq
      /\ \A b, c \in Batches : b.seq = c.seq => b = c
      /\ custody \cap settled = {}
  BY Zenon DEF CustodyInv, SeqUnique, Batches
<1>2. seq \in Nat
  BY Zenon DEF CustodyInv, TypeOK, BufferTypeOK
<1>3. ASSUME TakeBatch PROVE SeqUnique'
  <2>1. NextBatch.seq = seq + 1 /\ seq' = seq + 1
    BY <1>3 DEF NextBatch, TakeBatch, Drain
  <2>2. Batches' \subseteq Batches \cup {NextBatch}
    BY <1>3, BatchesMove
  <2>3. \A n \in 1 .. seq : n \in 1 .. seq + 1 /\ n # seq + 1
    BY <1>2
  <2>4. seq + 1 \in 1 .. seq + 1
    BY <1>2
  <2>5. \A b \in Batches' : b.seq \in 1 .. seq'
    BY <1>1, <2>1, <2>2, <2>3, <2>4, Zenon
  <2>6. \A b, c \in Batches' : b.seq = c.seq => b = c
    <3>1. ASSUME NEW b \in Batches', NEW c \in Batches', b.seq = c.seq PROVE b = c
      <4>1. CASE b \in Batches /\ c \in Batches
        BY <1>1, <3>1, <4>1, Zenon
      <4>2. CASE b = NextBatch /\ c = NextBatch
        BY <4>2
      <4>3. \A d \in Batches : d.seq # NextBatch.seq
        BY <1>1, <2>1, <2>3, Zenon
      <4> QED
        BY <2>2, <3>1, <4>1, <4>2, <4>3, Zenon
    <3> QED
      BY <3>1
  <2>7. (custody \cap settled = {})'
    <3>1. NextBatch \notin settled
      BY BatchesMove, Zenon DEF Batches
    <3> QED
      BY <1>1, <1>3, <3>1 DEF TakeBatch
  <2> QED
    BY <2>5, <2>6, <2>7, Zenon DEF SeqUnique, Batches
<1>4. ASSUME NEW b \in custody, ReturnBatch(b) PROVE SeqUnique'
  <2>1. Batches' \subseteq Batches /\ seq' = seq
    BY <1>4, BatchesMove DEF ReturnBatch, RequeueFront
  <2>2. custody' \cap settled' = {}
    BY <1>1, <1>4 DEF ReturnBatch
  <2> QED
    BY <1>1, <2>1, <2>2, Zenon DEF SeqUnique, Batches
<1>5. ASSUME NEW b \in custody, SettleBatch(b) PROVE SeqUnique'
  <2>1. Batches' = Batches
    BY <1>5, BatchesMove, Zenon
  <2>2. seq' = seq
    BY <1>5 DEF SettleBatch, bufferVars
  <2>3. custody' \cap settled' = {}
    BY <1>1, <1>5 DEF SettleBatch
  <2> QED
    BY <1>1, <2>1, <2>2, <2>3, Zenon DEF SeqUnique, Batches
<1>6. ASSUME custody' = custody, settled' = settled, seq' = seq PROVE SeqUnique'
  BY <1>1, <1>6, Zenon DEF SeqUnique, Batches
<1>7. ASSUME NEW o \in Outcomes, RecordCall(o) PROVE SeqUnique'
  BY <1>6, <1>7, Zenon DEF RecordCall, Record
<1>8. ASSUME NEW n \in 1 .. MaxUsage, RecordUsage(n) PROVE SeqUnique'
  BY <1>6, <1>8, Zenon DEF RecordUsage, RecordEvents
<1>9. ASSUME TakePermit PROVE SeqUnique'
  BY <1>6, <1>9, Zenon DEF TakePermit
<1>10. ASSUME UNCHANGED custodyVars PROVE SeqUnique'
  BY <1>6, <1>10, Zenon DEF custodyVars
<1> QED
  BY <1>3, <1>4, <1>5, <1>7, <1>8, <1>9, <1>10, Zenon DEF Next

\* What each operation adds to the units the buffer holds, or takes from them.
LEMMA HeldMoves ==
  ASSUME CustodyInv, NEW k \in Kinds
  PROVE  /\ Units(Buffered, k) \in Nat
         /\ \A o \in Outcomes : RecordCall(o) =>
                Units(Buffered', k) = Units(Buffered, k) + IF k = KindOf(o) THEN 1 ELSE 0
         /\ \A n \in 1 .. MaxUsage : RecordUsage(n) =>
                Units(Buffered', k) = Units(Buffered, k) + IF k = "events" THEN n ELSE 0
         /\ TakeBatch => /\ Units(Buffered, k) = Units(Buffered', k) + Units(NextBatch, k)
                         /\ Units(Buffered', k) \in Nat
         /\ \A b \in custody : ReturnBatch(b) =>
                Units(Buffered', k) = Units(Buffered, k) + Units(b, k)
<1>1. Sound
  BY SoundIsInv, Zenon DEF CustodyInv, TypeOK
<1>2. k = "billable" \/ k = "nonBillable" \/ k = "events"
  BY DEF Kinds
<1>3. HeldBillable \in Nat /\ HeldNonBillable \in Nat /\ events \in Nat
  <2>1. /\ NonBillableIn(samples) \in Nat /\ BillableIn(samples) \in Nat
        /\ droppedOverflow \in Nat /\ droppedNonBillable \in Nat /\ events \in Nat
    BY <1>1, HeldNumbers, Zenon
  <2> QED
    BY <2>1 DEF HeldBillable, HeldNonBillable
<1>4. Units(Buffered, k) \in Nat
  BY <1>2, <1>3, BufferedUnits, Zenon
<1>5. ASSUME NEW o \in Outcomes, RecordCall(o)
      PROVE  Units(Buffered', k) = Units(Buffered, k) + IF k = KindOf(o) THEN 1 ELSE 0
  <2> DEFINE x == [id |-> calls + 1, outcome |-> o]
  <2>1. calls \in Nat /\ Record(x)
    BY <1>5, Zenon DEF RecordCall, CustodyInv, TypeOK
  <2>2. /\ x \in Sample
        /\ KindOf(o) = "billable" => NonBillableOne(x) = 0
        /\ KindOf(o) = "nonBillable" => NonBillableOne(x) = 1
        /\ KindOf(o) \in {"billable", "nonBillable"}
    BY <2>1, CallSample, Zenon
  <2> HIDE DEF x
  <2>3. /\ HeldBillable' = HeldBillable + (1 - NonBillableOne(x))
        /\ HeldNonBillable' = HeldNonBillable + NonBillableOne(x)
        /\ events' = events
    BY <1>1, <2>1, <2>2, RecordSound, Zenon
  <2>4. CASE KindOf(o) = "billable"
    <3>1. /\ HeldBillable' = HeldBillable + 1
          /\ HeldNonBillable' = HeldNonBillable + 0
          /\ events' = events + 0
      BY <1>3, <2>2, <2>3, <2>4
    <3> QED
      BY <1>2, <2>4, <3>1, BufferedUnits
  <2>5. CASE KindOf(o) = "nonBillable"
    <3>1. /\ HeldBillable' = HeldBillable + 0
          /\ HeldNonBillable' = HeldNonBillable + 1
          /\ events' = events + 0
      BY <1>3, <2>2, <2>3, <2>5
    <3> QED
      BY <1>2, <2>5, <3>1, BufferedUnits
  <2> QED
    BY <2>2, <2>4, <2>5
<1>6. ASSUME NEW n \in 1 .. MaxUsage, RecordUsage(n)
      PROVE  Units(Buffered', k) = Units(Buffered, k) + IF k = "events" THEN n ELSE 0
  <2>1. /\ HeldBillable' = HeldBillable
        /\ HeldNonBillable' = HeldNonBillable
        /\ events' = events + n
    BY <1>6 DEF RecordUsage, RecordEvents, HeldBillable, HeldNonBillable
  <2>2. HeldBillable' = HeldBillable + 0 /\ HeldNonBillable' = HeldNonBillable + 0
    BY <1>3, <2>1
  <2> QED
    BY <1>2, <2>1, <2>2, BufferedUnits
<1>7. ASSUME TakeBatch
      PROVE  /\ Units(Buffered, k) = Units(Buffered', k) + Units(NextBatch, k)
             /\ Units(Buffered', k) \in Nat
  <2>1. Drain
    BY <1>7, Zenon DEF TakeBatch
  <2>2. /\ HeldBillable = HeldBillable' + Units(NextBatch, "billable")
        /\ HeldNonBillable = HeldNonBillable' + Units(NextBatch, "nonBillable")
        /\ events = events' + Units(NextBatch, "events")
        /\ Sound'
    BY <1>1, <2>1, DrainSound, UnitsByKind, Zenon
  <2>3. HeldBillable' \in Nat /\ HeldNonBillable' \in Nat /\ events' \in Nat
    <3>1. /\ samples' \in Seq(Sample) /\ droppedOverflow' \in Nat
          /\ droppedNonBillable' \in Nat /\ events' \in Nat
      BY <2>2, Zenon DEF Sound, BufferTypeOK
    <3>2. NonBillableIn(samples') \in Nat /\ BillableIn(samples') \in Nat
      BY <3>1, CountsAddUp, Zenon
    <3>3. droppedOverflow' \in Nat /\ droppedNonBillable' \in Nat /\ events' \in Nat
      BY <3>1, Zenon
    <3> QED
      BY <3>2, <3>3 DEF HeldBillable, HeldNonBillable
  <2> QED
    BY <1>2, <2>2, <2>3, BufferedUnits, Zenon
<1>8. ASSUME NEW b \in custody, ReturnBatch(b)
      PROVE  Units(Buffered', k) = Units(Buffered, k) + Units(b, k)
  <2>1. b \in Drained /\ RequeueFront(b)
    BY <1>8 DEF ReturnBatch, CustodyInv, TypeOK
  <2>2. /\ HeldBillable' = HeldBillable + Units(b, "billable")
        /\ HeldNonBillable' = HeldNonBillable + Units(b, "nonBillable")
        /\ events' = events + Units(b, "events")
    BY <1>1, <2>1, RequeueSound, UnitsByKind, Zenon
  <2> QED
    BY <1>2, <2>2, BufferedUnits, Zenon
<1> QED
  BY <1>4, <1>5, <1>6, <1>7, <1>8, Zenon

\* Every step keeps the ledger balanced.
LEMMA StepLedger ==
  ASSUME CustodyInv, [Next]_custodyVars
  PROVE  LinesFinite' /\ Ledger'
<1> DEFINE Balanced(k) ==
             /\ IsFiniteSet(Lines(Batches', k))
             /\ usage'[k] = Units(Buffered', k) + Total(Batches', k)
<1>1. custody \in SUBSET Drained /\ settled \in SUBSET Drained /\ usage \in [Kinds -> Nat]
  BY Zenon DEF CustodyInv, TypeOK
<1>2. ASSUME NEW k \in Kinds
      PROVE  /\ IsFiniteSet(Lines(Batches, k)) /\ Total(Batches, k) \in Nat
             /\ usage[k] = Units(Buffered, k) + Total(Batches, k)
             /\ Units(Buffered, k) \in Nat /\ usage[k] \in Nat
  <2>1. IsFiniteSet(Lines(Batches, k))
    BY Zenon DEF CustodyInv, LinesFinite
  <2>2. Total(Batches, k) \in Nat
    BY <2>1, FS_CardinalityType DEF Total
  <2>3. usage[k] = Units(Buffered, k) + Total(Batches, k)
    BY Zenon DEF CustodyInv, Ledger, Batches
  <2> QED
    BY <1>1, <2>1, <2>2, <2>3, HeldMoves, Zenon
<1>3. ASSUME NEW o \in Outcomes, RecordCall(o), NEW k \in Kinds PROVE Balanced(k)
  <2>1. Units(Buffered', k) = Units(Buffered, k) + IF k = KindOf(o) THEN 1 ELSE 0
    BY <1>3, HeldMoves, Zenon
  <2>2. Batches' = Batches
    BY <1>3, Zenon DEF RecordCall, Batches
  <2>3. usage'[k] = usage[k] + IF k = KindOf(o) THEN 1 ELSE 0
    <3>1. usage' = [usage EXCEPT ![KindOf(o)] = @ + 1]
      BY <1>3, Zenon DEF RecordCall
    <3>2. usage[k] \in Nat
      BY <1>2
    <3>3. usage'[k] = IF k = KindOf(o) THEN usage[k] + 1 ELSE usage[k]
      BY <1>1, <3>1
    <3> QED
      BY <3>2, <3>3
  <2>4. usage'[k] = Units(Buffered', k) + Total(Batches, k)
    BY <1>2, <2>1, <2>3
  <2> QED
    BY <1>2, <2>2, <2>4, Zenon
<1>4. ASSUME NEW n \in 1 .. MaxUsage, RecordUsage(n), NEW k \in Kinds PROVE Balanced(k)
  <2>1. Units(Buffered', k) = Units(Buffered, k) + IF k = "events" THEN n ELSE 0
    BY <1>4, HeldMoves, Zenon
  <2>2. Batches' = Batches
    BY <1>4, Zenon DEF RecordUsage, Batches
  <2>3. usage'[k] = usage[k] + IF k = "events" THEN n ELSE 0
    <3>1. usage' = [usage EXCEPT !["events"] = @ + n]
      BY <1>4, Zenon DEF RecordUsage
    <3>2. usage[k] \in Nat
      BY <1>2
    <3>3. usage'[k] = IF k = "events" THEN usage[k] + n ELSE usage[k]
      BY <1>1, <3>1
    <3> QED
      BY <3>2, <3>3
  <2>4. n \in Nat
    BY CustodyAssumption
  <2>5. usage'[k] = Units(Buffered', k) + Total(Batches, k)
    BY <1>2, <2>1, <2>3, <2>4
  <2> QED
    BY <1>2, <2>2, <2>5, Zenon
<1>5. ASSUME TakeBatch, NEW k \in Kinds PROVE Balanced(k)
  <2>1. NextBatch \in Drained
    BY <1>5, DrainSound, SoundIsInv, Zenon DEF TakeBatch, CustodyInv, TypeOK
  <2>2. Units(NextBatch, k) \in Nat /\ (IsEmpty(NextBatch) => Units(NextBatch, k) = 0)
    BY <2>1, UnitsType, Zenon
  <2>3. /\ Units(Buffered, k) = Units(Buffered', k) + Units(NextBatch, k)
        /\ Units(Buffered', k) \in Nat
    BY <1>5, HeldMoves, Zenon
  <2>4. usage' = usage
    BY <1>5, Zenon DEF TakeBatch
  <2>5. CASE IsEmpty(NextBatch)
    <3>1. Batches' = Batches
      BY <1>5, <2>5, BatchesMove
    <3>2. Units(Buffered, k) = Units(Buffered', k)
      BY <2>2, <2>3, <2>5
    <3> QED
      BY <1>2, <2>4, <3>1, <3>2, Zenon
  <2>6. CASE ~IsEmpty(NextBatch)
    <3>1. Batches' = Batches \cup {NextBatch} /\ NextBatch \notin Batches
      BY <1>5, <2>6, BatchesMove
    <3>2. /\ IsFiniteSet(Lines(Batches', k))
          /\ Total(Batches', k) = Total(Batches, k) + Units(NextBatch, k)
      BY <1>2, <2>2, <3>1, LinesAdd, ZenonT(30)
    <3>3. usage[k] = Units(Buffered', k) + Total(Batches', k)
      BY <1>2, <2>2, <2>3, <3>2
    <3> QED
      BY <2>4, <3>2, <3>3, Zenon
  <2> QED
    BY <2>5, <2>6
<1>6. ASSUME NEW b \in custody, ReturnBatch(b), NEW k \in Kinds PROVE Balanced(k)
  <2>1. Units(b, k) \in Nat
    BY <1>1, UnitsType
  <2>2. Units(Buffered', k) = Units(Buffered, k) + Units(b, k)
    BY <1>6, HeldMoves, Zenon
  <2>3. Batches' = Batches \ {b} /\ b \in Batches
    BY <1>6, BatchesMove, Zenon
  <2>4. /\ IsFiniteSet(Lines(Batches', k))
        /\ Total(Batches, k) = Total(Batches', k) + Units(b, k)
        /\ Total(Batches', k) \in Nat
    BY <1>2, <2>1, <2>3, LinesRemove, Zenon
  <2>5. usage[k] = Units(Buffered', k) + Total(Batches', k)
    BY <1>2, <2>1, <2>2, <2>4
  <2>6. usage' = usage
    BY <1>6, Zenon DEF ReturnBatch
  <2> QED
    BY <2>4, <2>5, <2>6, Zenon
<1>7. ASSUME Batches' = Batches, Buffered' = Buffered, usage' = usage, NEW k \in Kinds
      PROVE  Balanced(k)
  BY <1>2, <1>7, Zenon
<1>8. ASSUME NEW b \in custody, SettleBatch(b), NEW k \in Kinds PROVE Balanced(k)
  <2>1. Batches' = Batches
    BY <1>8, BatchesMove, Zenon
  <2>2. Buffered' = Buffered /\ usage' = usage
    BY <1>8 DEF SettleBatch, bufferVars, Buffered
  <2> QED
    BY <1>7, <2>1, <2>2, Zenon
<1>9. ASSUME TakePermit \/ UNCHANGED custodyVars, NEW k \in Kinds PROVE Balanced(k)
  <2>1. Batches' = Batches /\ Buffered' = Buffered /\ usage' = usage
    BY <1>9 DEF TakePermit, custodyVars, Batches, Buffered
  <2> QED
    BY <1>7, <2>1, Zenon
<1>10. ASSUME NEW k \in Kinds PROVE Balanced(k)
  BY <1>3, <1>4, <1>5, <1>6, <1>8, <1>9, Zenon DEF Next
<1> QED
  BY <1>10, Zenon DEF LinesFinite, Ledger, Batches, Kinds

\* No step makes a call two rows.
LEMMA StepRows ==
  ASSUME CustodyInv, [Next]_custodyVars
  PROVE  RowsInv'
<1>1. /\ Distinct(samples) /\ Ids(samples) \subseteq 1 .. calls
      /\ \A b \in Batches : /\ Distinct(b.samples)
                            /\ Ids(b.samples) \subseteq 1 .. calls
                            /\ Ids(b.samples) \cap Ids(samples) = {}
      /\ \A b, c \in Batches : b # c => Ids(b.samples) \cap Ids(c.samples) = {}
  BY Zenon DEF CustodyInv, RowsInv, RowsOnce, Distinct, Batches
<1>2. Sound /\ calls \in Nat /\ custody \in SUBSET Drained
  BY SoundIsInv, Zenon DEF CustodyInv, TypeOK
<1>3. ASSUME /\ Distinct(samples') /\ Ids(samples') \subseteq 1 .. calls'
             /\ \A b \in Batches' : /\ Distinct(b.samples)
                                    /\ Ids(b.samples) \subseteq 1 .. calls'
                                    /\ Ids(b.samples) \cap Ids(samples') = {}
             /\ \A b, c \in Batches' : b # c => Ids(b.samples) \cap Ids(c.samples) = {}
      PROVE  RowsInv'
  BY <1>3, Zenon DEF RowsInv, RowsOnce, Distinct, Batches
<1>4. ASSUME NEW o \in Outcomes, RecordCall(o) PROVE RowsInv'
  <2> DEFINE x == [id |-> calls + 1, outcome |-> o]
  <2>1. x \in Sample /\ x.id = calls + 1 /\ Record(x)
    BY <1>2, <1>4, CallSample, Zenon DEF RecordCall
  <2> HIDE DEF x
  <2>2. \A S : S \subseteq 1 .. calls => calls + 1 \notin S /\ S \subseteq 1 .. calls + 1
    BY <1>2
  <2>3. Distinct(samples') /\ Ids(samples') \subseteq Ids(samples) \cup {calls + 1}
    BY <1>1, <1>2, <2>1, <2>2, RecordRows, Zenon
  <2>4. Batches' = Batches /\ calls' = calls + 1
    BY <1>4, Zenon DEF RecordCall, Batches
  <2>5. Ids(samples') \subseteq 1 .. calls'
    <3>1. calls + 1 \in 1 .. calls + 1
      BY <1>2
    <3> QED
      BY <1>1, <2>2, <2>3, <2>4, <3>1, Zenon
  <2>6. \A b \in Batches : Ids(b.samples) \cap Ids(samples') = {}
    BY <1>1, <2>2, <2>3, Zenon
  <2> QED
    BY <1>1, <1>3, <2>2, <2>3, <2>4, <2>5, <2>6, Zenon
<1>5. ASSUME TakeBatch PROVE RowsInv'
  <2> DEFINE taken == NextBatch.samples
  <2>1. Drain /\ calls' = calls
    BY <1>5, Zenon DEF TakeBatch
  <2>2. NextBatch \in Drained /\ Sound' /\ samples = taken \o samples'
    BY <1>2, <2>1, DrainSound, Zenon
  <2>3. taken \in Seq(Sample) /\ samples' \in Seq(Sample)
    BY <2>2 DEF Drained, Sound, BufferTypeOK
  <2> HIDE DEF taken
  <2>4. /\ Distinct(taken) /\ Distinct(samples') /\ Ids(taken) \cap Ids(samples') = {}
        /\ Ids(samples) = Ids(taken) \cup Ids(samples')
    BY <1>1, <2>2, <2>3, DistinctConcat, Zenon
  <2>5. Ids(taken) \subseteq Ids(samples) /\ Ids(samples') \subseteq Ids(samples)
    BY <2>4
  <2>6. Batches' \subseteq Batches \cup {NextBatch}
    BY <1>5, BatchesMove
  <2>7. \A b \in Batches : /\ Ids(b.samples) \cap Ids(taken) = {}
                           /\ Ids(b.samples) \cap Ids(samples') = {}
    BY <1>1, <2>5, Zenon
  <2>8. /\ \A b \in Batches' : /\ Distinct(b.samples)
                               /\ Ids(b.samples) \subseteq 1 .. calls
                               /\ Ids(b.samples) \cap Ids(samples') = {}
        /\ Ids(samples') \subseteq 1 .. calls
    BY <1>1, <2>4, <2>5, <2>6, <2>7, Zenon DEF taken
  <2>9. \A b, c \in Batches' : b # c => Ids(b.samples) \cap Ids(c.samples) = {}
    BY <1>1, <2>6, <2>7, Zenon DEF taken
  <2> QED
    BY <1>3, <2>1, <2>4, <2>8, <2>9, Zenon
<1>6. ASSUME NEW b \in custody, ReturnBatch(b) PROVE RowsInv'
  <2> DEFINE back == ReturnedRows(b)
             lost == UnreturnedRows(b)
  <2>1. RequeueFront(b) /\ calls' = calls /\ b \in Drained
    BY <1>2, <1>6, Zenon DEF ReturnBatch
  <2>2. /\ samples' = back \o samples /\ b.samples = lost \o back
        /\ lost \in Seq(Sample) /\ back \in Seq(Sample)
    BY <1>2, <2>1, RequeueSound, Zenon
  <2>3. samples \in Seq(Sample)
    BY <1>2, HeldNumbers, Zenon
  <2> HIDE DEF back, lost
  <2>4. b \in Batches /\ Batches' = Batches \ {b}
    BY <1>6, BatchesMove, Zenon
  <2>5. Distinct(back) /\ Ids(b.samples) = Ids(lost) \cup Ids(back)
    <3>1. Distinct(lost \o back)
      BY <1>1, <2>2, <2>4, Zenon
    <3>2. Distinct(back) /\ Ids(lost \o back) = Ids(lost) \cup Ids(back)
      BY <2>2, <3>1, DistinctConcat, Zenon
    <3> QED
      BY <2>2, <3>2, Zenon
  <2>6. Ids(back) \subseteq Ids(b.samples)
    BY <2>5
  <2>7. Ids(back) \cap Ids(samples) = {}
    BY <1>1, <2>4, <2>6, Zenon
  <2>8. Distinct(samples') /\ Ids(samples') = Ids(back) \cup Ids(samples)
    BY <1>1, <2>2, <2>3, <2>5, <2>7, DistinctConcat, Zenon
  <2>9. Ids(samples') \subseteq 1 .. calls
    BY <1>1, <2>4, <2>6, <2>8, Zenon
  <2>10. ASSUME NEW c \in Batches' PROVE Ids(c.samples) \cap Ids(samples') = {}
    <3>1. c \in Batches /\ c # b
      BY <2>4, <2>10
    <3>2. Ids(c.samples) \cap Ids(b.samples) = {} /\ Ids(c.samples) \cap Ids(samples) = {}
      BY <1>1, <2>4, <3>1, Zenon
    <3> QED
      BY <2>6, <2>8, <3>2, Zenon
  <2>11. Batches' \subseteq Batches
    BY <2>4
  <2>12. \A c \in Batches' : Distinct(c.samples) /\ Ids(c.samples) \subseteq 1 .. calls
    BY <1>1, <2>11, Zenon
  <2>13. \A c, d \in Batches' : c # d => Ids(c.samples) \cap Ids(d.samples) = {}
    BY <1>1, <2>11, Zenon
  <2> QED
    BY <1>3, <2>1, <2>8, <2>9, <2>10, <2>12, <2>13, Zenon
<1>7. ASSUME Batches' = Batches, samples' = samples, calls' = calls PROVE RowsInv'
  BY <1>1, <1>3, <1>7, Zenon
<1>8. ASSUME NEW b \in custody, SettleBatch(b) PROVE RowsInv'
  <2>1. Batches' = Batches
    BY <1>8, BatchesMove, Zenon
  <2>2. samples' = samples /\ calls' = calls
    BY <1>8 DEF SettleBatch, bufferVars
  <2> QED
    BY <1>7, <2>1, <2>2, Zenon
<1>9. ASSUME NEW n \in 1 .. MaxUsage, RecordUsage(n) PROVE RowsInv'
  BY <1>7, <1>9, Zenon DEF RecordUsage, RecordEvents, Batches
<1>10. ASSUME TakePermit PROVE RowsInv'
  BY <1>7, <1>10, Zenon DEF TakePermit, Batches
<1>11. ASSUME UNCHANGED custodyVars PROVE RowsInv'
  BY <1>7, <1>11, Zenon DEF custodyVars, Batches
<1> QED
  BY <1>4, <1>5, <1>6, <1>8, <1>9, <1>10, <1>11, Zenon DEF Next

----------------------------------------------------------------------------

\* The empty buffer with no batch handed out balances.
LEMMA InitInv == Init => CustodyInv
<1> SUFFICES ASSUME Init PROVE CustodyInv
  OBVIOUS
<1>1. /\ samples = <<>> /\ nonBillable = 0 /\ droppedOverflow = 0 /\ droppedNonBillable = 0
      /\ seq = 0 /\ events = 0 /\ flushEarly = FALSE
  BY DEF Init, BufferInit
<1>2. custody = {} /\ settled = {} /\ calls = 0 /\ usage = [k \in Kinds |-> 0]
  BY DEF Init
<1>3. samples \in Seq(Sample) /\ Len(samples) = 0 /\ DOMAIN samples = {}
  BY <1>1
<1>4. NonBillableIn(samples) = 0 /\ BillableIn(samples) = 0
  BY <1>1, CountNone, Zenon
<1>5. TypeOK
  <2>1. custody \in SUBSET Drained /\ settled \in SUBSET Drained
    BY <1>2
  <2>2. calls \in Nat /\ usage \in [Kinds -> Nat]
    BY <1>2
  <2>3. BufferTypeOK
    BY <1>1, <1>3 DEF BufferTypeOK
  <2> QED
    BY <2>1, <2>2, <2>3 DEF TypeOK
<1>6. NonBillableExact /\ SeqUnique
  BY <1>1, <1>2, <1>4, Zenon DEF NonBillableExact, SeqUnique
<1>7. BoundedBuffer
  <2>1. Len(samples) = 0
    BY <1>3, Zenon
  <2> QED
    BY <2>1, CapsAssumption DEF BoundedBuffer
<1>8. \A k \in Kinds : Lines(Batches, k) = {}
  BY <1>2 DEF Lines, Batches
<1>9. LinesFinite
  BY <1>8, FS_EmptySet, Zenon DEF LinesFinite
<1>10. Ledger
  <2>1. ASSUME NEW k \in Kinds
        PROVE  usage[k] = Units(Buffered, k) + Total(custody \union settled, k)
    <3>1. Total(custody \union settled, k) = 0
      BY <1>8, FS_EmptySet, Zenon DEF Total, Batches
    <3>2. HeldBillable = 0 /\ HeldNonBillable = 0
      BY <1>1, <1>4 DEF HeldBillable, HeldNonBillable
    <3>3. Units(Buffered, k) = 0
      BY <1>1, <3>2, BufferedUnits, Zenon DEF Kinds
    <3>4. usage[k] = 0
      BY <1>2
    <3> QED
      BY <3>1, <3>3, <3>4
  <2> QED
    BY <2>1 DEF Ledger
<1>11. RowsInv
  BY <1>2, <1>3 DEF RowsInv, RowsOnce, Ids, Batches
<1> QED
  BY <1>5, <1>6, <1>7, <1>9, <1>10, <1>11 DEF CustodyInv

\* Every step of the buffer and its holders keeps the invariant.
LEMMA CustodyStep == CustodyInv /\ [Next]_custodyVars => CustodyInv'
<1> SUFFICES ASSUME CustodyInv, [Next]_custodyVars PROVE CustodyInv'
  OBVIOUS
<1>1. TypeOK' /\ NonBillableExact' /\ BoundedBuffer'
  BY StepType, SoundIsInv, Zenon
<1>2. SeqUnique' /\ LinesFinite' /\ Ledger' /\ RowsInv'
  BY StepSeq, StepLedger, StepRows, Zenon
<1> QED
  BY <1>1, <1>2, Zenon DEF CustodyInv

\* The invariant behind every theorem below.
THEOREM CustodyInvariant == Spec => []CustodyInv
BY InitInv, CustodyStep, PTL DEF Spec

\* The buffer's variables, the batches and the ledger keep their types: no
\* counter of metrics.rs goes below zero, whatever the callers do.
THEOREM CustodyTypeCorrect == Spec => []TypeOK
<1>1. CustodyInv => TypeOK
  BY DEF CustodyInv
<1> QED
  BY <1>1, CustodyInvariant, PTL

\* Every recorded call and unit of event usage is accounted for exactly once, for
\* any capacities, any number of callers and any order of record, drain,
\* requeue_front and hand-over.
THEOREM LedgerBalances == Spec => []Ledger
<1>1. CustodyInv => Ledger
  BY DEF CustodyInv
<1> QED
  BY <1>1, CustodyInvariant, PTL

\* Ring.non_billable is exact, so record's test of it replaces a scan.
THEOREM CountStaysExact == Spec => []NonBillableExact
<1>1. CustodyInv => NonBillableExact
  BY DEF CustodyInv
<1> QED
  BY <1>1, CustodyInvariant, PTL

\* Neither record nor requeue_front lets the ring outgrow its capacity.
THEOREM BufferStaysBounded == Spec => []BoundedBuffer
<1>1. CustodyInv => BoundedBuffer
  BY DEF CustodyInv
<1> QED
  BY <1>1, CustodyInvariant, PTL

\* A call is one row at most, in the buffer or in one batch.
THEOREM RowsStayOnce == Spec => []RowsOnce
<1>1. CustodyInv => RowsOnce
  BY DEF CustodyInv, RowsInv
<1> QED
  BY <1>1, CustodyInvariant, PTL

\* drain never hands out a sequence number twice.
THEOREM SeqStaysUnique == Spec => []SeqUnique
<1>1. CustodyInv => SeqUnique
  BY DEF CustodyInv
<1> QED
  BY <1>1, CustodyInvariant, PTL

\* record gives up a billable row only when every row of a full ring is billable.
THEOREM NonBillableGoFirst == Spec => SpendsNonBillableFirst
<1> DEFINE Fair == calls' # calls /\ droppedOverflow' > droppedOverflow
                   => /\ Len(samples) >= Cap
                      /\ \A i \in DOMAIN samples : IsBillable(samples[i].outcome)
<1>1. CustodyInv /\ [Next]_custodyVars => [Fair]_custodyVars
  <2> SUFFICES ASSUME CustodyInv, Next PROVE Fair
    OBVIOUS
  <2>1. ASSUME NEW o \in Outcomes, RecordCall(o) PROVE Fair
    <3> DEFINE x == [id |-> calls + 1, outcome |-> o]
    <3>1. Sound /\ calls \in Nat
      BY SoundIsInv, Zenon DEF CustodyInv, TypeOK
    <3>2. x \in Sample /\ Record(x)
      BY <2>1, <3>1, CallSample, Zenon DEF RecordCall
    <3> HIDE DEF x
    <3> QED
      BY <3>1, <3>2, RecordSound, Zenon
  <2>2. CASE calls' = calls
    BY <2>2
  <2> QED
    BY <2>1, <2>2, Zenon DEF Next, RecordUsage, TakeBatch, ReturnBatch, SettleBatch, TakePermit
<1> QED
  BY <1>1, CustodyInvariant, PTL DEF Spec, SpendsNonBillableFirst

=============================================================================
