------------------------------ MODULE WalProofs ------------------------------
(***************************************************************************)
(* Theorems about Wal for every set of goroutines and messages, every      *)
(* mode, and any number of operations and deliveries.                      *)
(*                                                                         *)
(* The log is a sequence, and what matters of it is where its records are: *)
(* W(s) is how far a reader gets, Is(s, i, k, m) says what stands at i,    *)
(* and Live, AttemptsIn and Listings are restated in these terms first.    *)
(* Then, on top of the structural BaseInv and of ApartInv (who has a       *)
(* message), one inductive invariant for each property of the run:         *)
(* GoneInv, OnceInv, SeenInv with DurInv and HereInv, and CountInv with    *)
(* NewInv and TryInv.                                                      *)
(***************************************************************************)
EXTENDS Wal, SequenceTheorems, FiniteSetTheorems, WellFoundedInduction, TLAPS

-----------------------------------------------------------------------------
(* Sets of numbers have a least element, and bounded ones a greatest. *)
LEMMA NatMin ==
  ASSUME NEW S \in SUBSET Nat, S # {}
  PROVE  \E x \in S : \A y \in S : x <= y
<1> DEFINE Less == {ss \in Nat \X Nat : ss[1] < ss[2]}
<1>1. IsWellFoundedOn(Less, Nat)
  BY NatLessThanWellFounded DEF OpToRel
<1>2. PICK x \in S : \A y \in S : ~ (<<y, x>> \in Less)
  <2> HIDE DEF Less
  <2> QED BY <1>1, WFMin
<1>3. \A y \in S : y < x => <<y, x>> \in Less
  OBVIOUS
<1>4. \A y \in S : ~ (y < x)
  <2> HIDE DEF Less
  <2> QED BY <1>2, <1>3
<1> QED BY <1>4

(* A bounded set of numbers has a greatest element. *)
LEMMA NatMax ==
  ASSUME NEW n \in Nat, NEW S \in SUBSET (1..n), S # {}
  PROVE  \E x \in S : \A y \in S : y <= x
<1> DEFINE R == {n - x : x \in S}
<1>1. R \in SUBSET Nat /\ R # {}
  <2>1. \A x \in S : n - x \in Nat
    OBVIOUS
  <2>2. PICK x \in S : TRUE
    OBVIOUS
  <2>3. n - x \in R
    OBVIOUS
  <2> QED BY <2>1, <2>3
<1>2. PICK r \in R : \A y \in R : r <= y
  <2> HIDE DEF R
  <2> QED BY <1>1, NatMin
<1>3. PICK x \in S : r = n - x
  BY <1>2
<1>4. \A y \in S : n - y \in R
  OBVIOUS
<1>5. \A y \in S : r <= n - y
  <2> HIDE DEF R
  <2> QED BY <1>2, <1>4
<1> QED BY <1>3, <1>5

Entries == [kind : {"enqueue", "attempt", "terminal"}, id : Messages, n : 0..MaxAttempts]
           \cup {Torn}

(* What a record holds, unless it is torn. *)
LEMMA EntryFields ==
  ASSUME NEW r \in Entries
  PROVE  /\ r.kind \in {"enqueue", "attempt", "terminal", "torn"}
         /\ r.kind = "torn" <=> r = Torn
         /\ r.kind # "torn" => r.id \in Messages /\ r.n \in 0..MaxAttempts
BY DEF Entries, Torn, Record

(* The records before the first torn one are what a reader sees. *)
LEMMA ReadablePart ==
  ASSUME NEW s \in Seq(Entries)
  PROVE  /\ Readable(s) \in Seq(Entries)
         /\ Len(Readable(s)) \in 0..Len(s)
         /\ \A i \in 1..Len(Readable(s)) : Readable(s)[i] = s[i] /\ s[i].kind # "torn"
         /\ Len(Readable(s)) < Len(s) => s[Len(Readable(s)) + 1].kind = "torn"
<1> DEFINE I == {i \in 1..Len(s) : s[i].kind = "torn"}
           bad == IF I # {} THEN Min(I) ELSE 0
<1>1. SelectInSeq(s, LAMBDA r : r.kind = "torn") = bad
  BY DEF SelectInSeq
<1>2. Readable(s) = IF bad = 0 THEN s ELSE SubSeq(s, 1, bad - 1)
  BY <1>1 DEF Readable
<1>3. Len(s) \in Nat /\ \A i \in 1..Len(s) : s[i] \in Entries
  BY LenProperties
<1>4. CASE I = {}
  BY <1>2, <1>3, <1>4
<1>5. CASE I # {}
  <2>1. \E x \in I : \A y \in I : x <= y
    <3>1. I \in SUBSET Nat
      BY <1>3
    <3> HIDE DEF I
    <3> QED BY <3>1, <1>5, NatMin
  <2>2. Min(I) \in I /\ \A y \in I : Min(I) <= y
    BY <2>1 DEF Min
  <2>3. bad = Min(I) /\ bad \in 1..Len(s) /\ s[bad].kind = "torn"
    BY <1>5, <2>2
  <2>4. \A i \in 1..(bad - 1) : s[i].kind # "torn"
    BY <2>2, <2>3, <1>3
  <2> HIDE DEF bad, I
  <2>5. Readable(s) = SubSeq(s, 1, bad - 1)
    BY <1>2, <2>3, <1>3
  <2>6. /\ SubSeq(s, 1, bad - 1) \in Seq(Entries)
        /\ Len(SubSeq(s, 1, bad - 1)) = bad - 1
        /\ \A i \in 1..(bad - 1) : SubSeq(s, 1, bad - 1)[i] = s[i]
    <3>1. bad - 1 \in Int /\ \A i \in 1..(bad - 1) : s[i] \in Entries
      BY <2>3, <1>3
    <3> QED BY <3>1, <2>3, <1>3, SubSeqProperties
  <2>7. /\ Readable(s) \in Seq(Entries)
        /\ Len(Readable(s)) = bad - 1
        /\ \A i \in 1..(bad - 1) : Readable(s)[i] = s[i]
    BY <2>5, <2>6, Zenon
  <2>8. (bad - 1) + 1 = bad /\ bad - 1 \in 0..Len(s)
    BY <2>3, <1>3
  <2> QED BY <2>3, <2>4, <2>7, <2>8, Zenon
<1> QED BY <1>4, <1>5

W(s) == Len(Readable(s))
Is(s, i, k, m) == s[i].kind = k /\ s[i].id = m

(* A reader gets as far as the first torn record. *)
LEMMA WholeIff ==
  ASSUME NEW s \in Seq(Entries)
  PROVE  /\ W(s) \in 0..Len(s)
         /\ \A i \in 1..Len(s) : i <= W(s) <=> \A j \in 1..i : s[j].kind # "torn"
         /\ \A i \in 1..W(s) : Readable(s)[i] = s[i]
<1>1. Len(s) \in Nat
  BY LenProperties
<1> QED BY <1>1, ReadablePart DEF W

(* LastOf finds the last record of a kind about a message. *)
LEMMA LastOfIs ==
  ASSUME NEW s \in Seq(Entries), NEW k, NEW m
  PROVE  /\ LastOf(s, k, m) \in 0..Len(s)
         /\ \A i \in 1..Len(s) : Is(s, i, k, m) => i <= LastOf(s, k, m)
         /\ LastOf(s, k, m) > 0 => Is(s, LastOf(s, k, m), k, m)
<1> DEFINE I == {i \in 1..Len(s) : s[i].kind = k /\ s[i].id = m}
<1>1. LastOf(s, k, m) = IF I # {} THEN Max(I) ELSE 0
  BY DEF SelectLastInSeq, LastOf
<1>2. Len(s) \in Nat
  BY LenProperties
<1>3. CASE I = {}
  BY <1>1, <1>2, <1>3 DEF Is
<1>4. CASE I # {}
  <2>1. \E x \in I : \A y \in I : y <= x
    <3>1. I \in SUBSET (1..Len(s))
      OBVIOUS
    <3> HIDE DEF I
    <3> QED BY <3>1, <1>2, <1>4, NatMax
  <2>2. Max(I) \in I /\ \A y \in I : y <= Max(I)
    <3>1. \E x \in I : \A y \in I : x >= y
      BY <2>1, <1>2
    <3> HIDE DEF I
    <3>2. Max(I) \in I /\ \A y \in I : Max(I) >= y
      BY <3>1 DEF Max
    <3>3. I \subseteq 1..Len(s)
      BY DEF I
    <3> QED BY <3>2, <3>3, <1>2
  <2> QED BY <2>2, <1>1, <1>2, <1>4 DEF Is
<1> QED BY <1>3, <1>4


-----------------------------------------------------------------------------
(* What a replay makes of a log, in terms of positions. *)
LEMMA LiveIff ==
  ASSUME NEW s \in Seq(Entries), NEW m \in Messages
  PROVE  m \in Live(s) <=>
           \E i \in 1..W(s) : /\ Is(s, i, "enqueue", m)
                              /\ \A j \in 1..W(s) : Is(s, j, "terminal", m) => j < i
<1> DEFINE r == Readable(s)
           e == LastOf(r, "enqueue", m)
           d == LastOf(r, "terminal", m)
<1>1. r \in Seq(Entries) /\ W(s) = Len(r) /\ W(s) \in Nat
  BY ReadablePart, LenProperties DEF W
<1>2. \A k : \A i \in 1..W(s) : Is(r, i, k, m) <=> Is(s, i, k, m)
  BY WholeIff DEF Is
<1>3. /\ e \in 0..W(s)
      /\ \A i \in 1..W(s) : Is(s, i, "enqueue", m) => i <= e
      /\ e > 0 => Is(s, e, "enqueue", m)
  <2> HIDE DEF r
  <2>1. /\ e \in 0..W(s)
        /\ \A i \in 1..W(s) : Is(r, i, "enqueue", m) => i <= e
        /\ e > 0 => Is(r, e, "enqueue", m)
    BY <1>1, LastOfIs
  <2> HIDE DEF e
  <2> QED BY <2>1, <1>1, <1>2
<1>4. /\ d \in 0..W(s)
      /\ \A i \in 1..W(s) : Is(s, i, "terminal", m) => i <= d
      /\ d > 0 => Is(s, d, "terminal", m)
  <2> HIDE DEF r
  <2>1. /\ d \in 0..W(s)
        /\ \A i \in 1..W(s) : Is(r, i, "terminal", m) => i <= d
        /\ d > 0 => Is(r, d, "terminal", m)
    BY <1>1, LastOfIs
  <2> HIDE DEF d
  <2> QED BY <2>1, <1>1, <1>2
<1>5. m \in Live(s) <=> e > d
  BY DEF Live
<1> HIDE DEF e, d, r
<1> QED BY <1>1, <1>3, <1>4, <1>5

(* The last readable word on the attempts of m: its record, unless the     *)
(* last enqueue record comes after it. *)
LEMMA AttemptsInIs ==
  ASSUME NEW s \in Seq(Entries), NEW m \in Messages
  PROVE  /\ AttemptsIn(s, m) \in 0..MaxAttempts
         /\ \A i \in 1..W(s) :
              /\ Is(s, i, "attempt", m)
              /\ \A j \in 1..W(s) : Is(s, j, "attempt", m) \/ Is(s, j, "enqueue", m) => j <= i
              => AttemptsIn(s, m) = s[i].n
         /\ (\A i \in 1..W(s) : Is(s, i, "attempt", m) =>
               \E j \in 1..W(s) : i < j /\ Is(s, j, "enqueue", m))
            => AttemptsIn(s, m) = 0
<1> DEFINE r == Readable(s)
           e == LastOf(r, "enqueue", m)
           a == LastOf(r, "attempt", m)
<1>1. r \in Seq(Entries) /\ W(s) = Len(r) /\ W(s) \in Nat
  BY ReadablePart, LenProperties DEF W
<1>2. \A k : \A i \in 1..W(s) : Is(r, i, k, m) <=> Is(s, i, k, m)
  BY WholeIff DEF Is
<1>3. /\ e \in 0..W(s)
      /\ \A i \in 1..W(s) : Is(s, i, "enqueue", m) => i <= e
      /\ e > 0 => Is(s, e, "enqueue", m)
  <2> HIDE DEF r
  <2>1. /\ e \in 0..W(s)
        /\ \A i \in 1..W(s) : Is(r, i, "enqueue", m) => i <= e
        /\ e > 0 => Is(r, e, "enqueue", m)
    BY <1>1, LastOfIs
  <2> HIDE DEF e
  <2> QED BY <2>1, <1>1, <1>2
<1>4. /\ a \in 0..W(s)
      /\ \A i \in 1..W(s) : Is(s, i, "attempt", m) => i <= a
      /\ a > 0 => Is(s, a, "attempt", m)
  <2> HIDE DEF r
  <2>1. /\ a \in 0..W(s)
        /\ \A i \in 1..W(s) : Is(r, i, "attempt", m) => i <= a
        /\ a > 0 => Is(r, a, "attempt", m)
    BY <1>1, LastOfIs
  <2> HIDE DEF a
  <2> QED BY <2>1, <1>1, <1>2
<1>5. AttemptsIn(s, m) = IF a > e THEN r[a].n ELSE 0
  BY DEF AttemptsIn
<1>6. \A i \in 1..W(s) : r[i] = s[i] /\ s[i] \in Entries /\ s[i].kind # "torn"
  BY WholeIff, LenProperties, <1>1, ReadablePart
<1>7. MaxAttempts \in Nat
  BY WalAssumption
<1> HIDE DEF e, a, r
<1>8. CASE a > e
  <2>1. a \in 1..W(s) /\ Is(s, a, "attempt", m) /\ AttemptsIn(s, m) = s[a].n
    BY <1>1, <1>3, <1>4, <1>5, <1>6, <1>8
  <2>2. s[a].n \in 0..MaxAttempts
    BY <2>1, <1>6, EntryFields
  <2>3. ASSUME NEW i \in 1..W(s), Is(s, i, "attempt", m),
               \A j \in 1..W(s) : Is(s, j, "attempt", m) => j <= i
        PROVE  i = a
    BY <2>1, <2>3, <1>1, <1>4
  <2>4. ~ \E j \in 1..W(s) : a < j /\ Is(s, j, "enqueue", m)
    BY <1>8, <1>1, <1>3, <1>4
  <2> QED BY <2>1, <2>2, <2>3, <2>4
<1>9. CASE ~ (a > e)
  <2>1. AttemptsIn(s, m) = 0
    BY <1>5, <1>9
  <2>2. ASSUME NEW i \in 1..W(s), Is(s, i, "attempt", m),
               \A j \in 1..W(s) : Is(s, j, "attempt", m) \/ Is(s, j, "enqueue", m) => j <= i
        PROVE  FALSE
    <3>1. i <= a /\ a <= e /\ e \in 1..W(s) /\ Is(s, e, "enqueue", m)
      BY <2>2, <1>1, <1>3, <1>4, <1>9
    <3>2. e = i
      BY <3>1, <2>2, <1>1, <1>3, <1>4
    <3> QED BY <3>1, <3>2, <2>2 DEF Is
  <2> QED BY <2>1, <2>2, <1>7
<1> QED BY <1>8, <1>9

(* One of the two always applies. *)
LEMMA LastWord ==
  ASSUME NEW s \in Seq(Entries), NEW m \in Messages
  PROVE  \/ \A i \in 1..W(s) : ~ Is(s, i, "attempt", m) /\ ~ Is(s, i, "enqueue", m)
         \/ \E i \in 1..W(s) :
              /\ Is(s, i, "attempt", m) \/ Is(s, i, "enqueue", m)
              /\ \A j \in 1..W(s) : Is(s, j, "attempt", m) \/ Is(s, j, "enqueue", m) => j <= i
<1> DEFINE I == {i \in 1..W(s) : Is(s, i, "attempt", m) \/ Is(s, i, "enqueue", m)}
<1>1. CASE I = {}
  BY <1>1
<1>2. CASE I # {}
  <2>1. W(s) \in Nat /\ I \in SUBSET (1..W(s))
    BY ReadablePart, LenProperties DEF W
  <2>2. PICK i \in I : \A j \in I : j <= i
    <3> HIDE DEF I
    <3> QED BY <2>1, <1>2, NatMax
  <2> QED BY <2>2
<1> QED BY <1>1, <1>2

-----------------------------------------------------------------------------
(* How far a reader gets in a log that has been changed. *)
LEMMA WholeBy ==
  ASSUME NEW s \in Seq(Entries), NEW n \in 0..Len(s),
         \A i \in 1..n : s[i].kind # "torn",
         n < Len(s) => s[n + 1].kind = "torn"
  PROVE  W(s) = n
<1>1. Len(s) \in Nat /\ W(s) \in 0..Len(s)
  BY LenProperties, ReadablePart DEF W
<1>2. ~ (W(s) < n)
  BY <1>1, ReadablePart DEF W
<1>3. ~ (n < W(s))
  BY <1>1, ReadablePart DEF W
<1> QED BY <1>1, <1>2, <1>3

(* A log without a torn record is read to its end. *)
LEMMA WholeSound ==
  ASSUME NEW s \in Seq(Entries)
  PROVE  Torn \notin ToSet(s) <=> W(s) = Len(s)
<1>1. Len(s) \in Nat /\ DOMAIN s = 1..Len(s) /\ \A i \in 1..Len(s) : s[i] \in Entries
  BY LenProperties
<1>2. Torn \notin ToSet(s) <=> \A i \in 1..Len(s) : s[i].kind # "torn"
  BY <1>1, EntryFields DEF ToSet
<1> QED BY <1>1, <1>2, ReadablePart DEF W

(* What one more record does to a log and to how far a reader gets. *)
LEMMA WholeAppend ==
  ASSUME NEW s \in Seq(Entries), NEW r \in Entries
  PROVE  /\ Append(s, r) \in Seq(Entries)
         /\ Len(Append(s, r)) = Len(s) + 1
         /\ \A i \in 1..Len(s) : Append(s, r)[i] = s[i]
         /\ Append(s, r)[Len(s) + 1] = r
         /\ W(Append(s, r)) = IF W(s) = Len(s) /\ r.kind # "torn" THEN Len(s) + 1 ELSE W(s)
<1>1. /\ Append(s, r) \in Seq(Entries)
      /\ Len(Append(s, r)) = Len(s) + 1
      /\ \A i \in 1..Len(s) : Append(s, r)[i] = s[i]
      /\ Append(s, r)[Len(s) + 1] = r
  BY AppendProperties
<1>2. Len(s) \in Nat /\ W(s) \in 0..Len(s)
  BY LenProperties, ReadablePart DEF W
<1>3. CASE W(s) = Len(s) /\ r.kind # "torn"
  <2>1. \A i \in 1..Len(s) + 1 : Append(s, r)[i].kind # "torn"
    BY <1>1, <1>2, <1>3, WholeIff
  <2>2. Len(s) + 1 \in 0..Len(Append(s, r)) /\ ~ (Len(s) + 1 < Len(Append(s, r)))
    BY <1>1, <1>2
  <2>3. W(Append(s, r)) = Len(s) + 1
    BY <2>1, <2>2, <1>1, WholeBy, Zenon
  <2> QED BY <2>3, <1>1, <1>3
<1>4. CASE ~ (W(s) = Len(s) /\ r.kind # "torn")
  <2>1. \A i \in 1..W(s) : Append(s, r)[i].kind # "torn"
    BY <1>1, <1>2, WholeIff
  <2>2. Append(s, r)[W(s) + 1].kind = "torn"
    <3>1. CASE W(s) = Len(s)
      BY <3>1, <1>1, <1>4
    <3>2. CASE W(s) < Len(s)
      <4>1. s[W(s) + 1].kind = "torn" /\ W(s) + 1 \in 1..Len(s)
        BY <3>2, <1>2, ReadablePart DEF W
      <4> QED BY <4>1, <1>1
    <3> QED BY <3>1, <3>2, <1>2
  <2>3. W(s) \in 0..Len(Append(s, r))
    BY <1>1, <1>2
  <2>4. W(Append(s, r)) = W(s)
    BY <2>1, <2>2, <2>3, <1>1, WholeBy
  <2> QED BY <2>4, <1>1, <1>4
<1> QED BY <1>3, <1>4

(* What a reader sees of the first k records. *)
LEMMA WholePrefix ==
  ASSUME NEW s \in Seq(Entries), NEW k \in 0..Len(s)
  PROVE  /\ SubSeq(s, 1, k) \in Seq(Entries)
         /\ Len(SubSeq(s, 1, k)) = k
         /\ \A i \in 1..k : SubSeq(s, 1, k)[i] = s[i]
         /\ W(SubSeq(s, 1, k)) = IF W(s) < k THEN W(s) ELSE k
<1>1. Len(s) \in Nat /\ W(s) \in 0..Len(s) /\ \A i \in 1..Len(s) : s[i] \in Entries
  BY LenProperties, ReadablePart DEF W
<1>2. /\ SubSeq(s, 1, k) \in Seq(Entries)
      /\ Len(SubSeq(s, 1, k)) = k
      /\ \A i \in 1..k : SubSeq(s, 1, k)[i] = s[i]
  <2>1. k \in Int /\ \A i \in 1..k : s[i] \in Entries
    BY <1>1
  <2>2. /\ SubSeq(s, 1, k) \in Seq(Entries)
        /\ Len(SubSeq(s, 1, k)) = IF 1 <= k THEN k - 1 + 1 ELSE 0
        /\ \A i \in 1..(k - 1 + 1) : SubSeq(s, 1, k)[i] = s[1 + i - 1]
    BY <2>1, SubSeqProperties
  <2>3. k - 1 + 1 = k /\ (IF 1 <= k THEN k - 1 + 1 ELSE 0) = k
    BY <2>1
  <2>4. \A i \in 1..k : 1 + i - 1 = i
    OBVIOUS
  <2> QED BY <2>2, <2>3, <2>4, Zenon
<1>3. CASE W(s) < k
  <2>1. \A i \in 1..W(s) : SubSeq(s, 1, k)[i].kind # "torn"
    BY <1>1, <1>2, <1>3, WholeIff
  <2>2. SubSeq(s, 1, k)[W(s) + 1].kind = "torn"
    <3>1. s[W(s) + 1].kind = "torn" /\ W(s) + 1 \in 1..k
      BY <1>1, <1>3, ReadablePart DEF W
    <3> QED BY <3>1, <1>2
  <2>3. W(s) \in 0..Len(SubSeq(s, 1, k))
    BY <1>1, <1>2, <1>3
  <2>4. W(SubSeq(s, 1, k)) = W(s)
    BY <2>1, <2>2, <2>3, <1>2, WholeBy
  <2> QED BY <2>4, <1>2, <1>3
<1>4. CASE ~ (W(s) < k)
  <2>1. \A i \in 1..k : SubSeq(s, 1, k)[i].kind # "torn"
    BY <1>1, <1>2, <1>4, WholeIff
  <2>2. k \in 0..Len(SubSeq(s, 1, k)) /\ ~ (k < Len(SubSeq(s, 1, k)))
    BY <1>1, <1>2
  <2>3. W(SubSeq(s, 1, k)) = k
    BY <2>1, <2>2, <1>2, WholeBy, Zenon
  <2> QED BY <2>3, <1>2, <1>4
<1> QED BY <1>3, <1>4


(* A suffix: a reader who starts past a torn record may get further. *)
LEMMA WholeSuffix ==
  ASSUME NEW s \in Seq(Entries), NEW a \in 0..Len(s)
  PROVE  LET t == SubSeq(s, a + 1, Len(s))
         IN /\ t \in Seq(Entries)
            /\ Len(t) = Len(s) - a
            /\ \A i \in 1..Len(t) : t[i] = s[a + i]
            /\ a <= W(s) => W(t) = W(s) - a
<1> DEFINE t == SubSeq(s, a + 1, Len(s))
<1>1. Len(s) \in Nat /\ W(s) \in 0..Len(s) /\ \A i \in 1..Len(s) : s[i] \in Entries
  BY LenProperties, ReadablePart DEF W
<1>2. /\ t \in Seq(Entries)
      /\ Len(t) = Len(s) - a
      /\ \A i \in 1..(Len(s) - a) : t[i] = s[a + i]
  <2>1. a + 1 \in Int /\ Len(s) \in Int /\ \A i \in (a + 1)..Len(s) : s[i] \in Entries
    BY <1>1
  <2>2. /\ t \in Seq(Entries)
        /\ Len(t) = IF a + 1 <= Len(s) THEN Len(s) - (a + 1) + 1 ELSE 0
        /\ \A i \in 1..(Len(s) - (a + 1) + 1) : t[i] = s[(a + 1) + i - 1]
    BY <2>1, SubSeqProperties
  <2>3. Len(s) - (a + 1) + 1 = Len(s) - a
    BY <1>1
  <2>4. (IF a + 1 <= Len(s) THEN Len(s) - (a + 1) + 1 ELSE 0) = Len(s) - a
    BY <1>1
  <2>5. \A i \in 1..(Len(s) - a) : (a + 1) + i - 1 = a + i
    BY <1>1
  <2> HIDE DEF t
  <2> QED BY <2>2, <2>3, <2>4, <2>5, Zenon
<1> HIDE DEF t
<1>3. ASSUME a <= W(s) PROVE W(t) = W(s) - a
  <2>1. W(s) - a \in 0..Len(t)
    BY <1>1, <1>2, <1>3
  <2>2. \A i \in 1..(W(s) - a) : t[i].kind # "torn"
    <3>1. \A i \in 1..(W(s) - a) : a + i \in 1..W(s) /\ t[i] = s[a + i]
      BY <1>1, <1>2, <1>3
    <3> QED BY <3>1, ReadablePart DEF W
  <2>3. W(s) - a < Len(t) => t[(W(s) - a) + 1].kind = "torn"
    <3>1. W(s) - a < Len(t) => W(s) < Len(s) /\ t[(W(s) - a) + 1] = s[W(s) + 1]
      <4>1. W(s) - a < Len(t) => (W(s) - a) + 1 \in 1..(Len(s) - a)
        BY <1>1, <1>2, <1>3
      <4>2. a + ((W(s) - a) + 1) = W(s) + 1
        BY <1>1
      <4> QED BY <4>1, <4>2, <1>1, <1>2
    <3> QED BY <3>1, ReadablePart DEF W
  <2> QED BY <2>1, <2>2, <2>3, <1>2, WholeBy, Zenon
<1> QED BY <1>1, <1>2, <1>3 DEF t

(* Behind a whole log the reader goes on. *)
LEMMA WholeConcat ==
  ASSUME NEW s \in Seq(Entries), NEW t \in Seq(Entries)
  PROVE  /\ s \o t \in Seq(Entries)
         /\ Len(s \o t) = Len(s) + Len(t)
         /\ \A i \in 1..Len(s) : (s \o t)[i] = s[i]
         /\ \A i \in 1..Len(t) : (s \o t)[Len(s) + i] = t[i]
         /\ W(s) = Len(s) => W(s \o t) = Len(s) + W(t)
<1>1. /\ Len(s) \in Nat /\ Len(t) \in Nat
      /\ W(s) \in 0..Len(s) /\ W(t) \in 0..Len(t)
  BY LenProperties, ReadablePart DEF W
<1>2. /\ s \o t \in Seq(Entries)
      /\ Len(s \o t) = Len(s) + Len(t)
      /\ \A i \in 1..Len(s) : (s \o t)[i] = s[i]
      /\ \A i \in 1..Len(t) : (s \o t)[Len(s) + i] = t[i]
  <2>1. /\ s \o t \in Seq(Entries)
        /\ Len(s \o t) = Len(s) + Len(t)
        /\ \A i \in 1..Len(s) + Len(t) :
             (s \o t)[i] = IF i <= Len(s) THEN s[i] ELSE t[i - Len(s)]
    BY ConcatProperties
  <2>2. ASSUME NEW i \in 1..Len(t) PROVE (s \o t)[Len(s) + i] = t[i]
    <3>1. Len(s) + i \in 1..Len(s) + Len(t) /\ ~ (Len(s) + i <= Len(s)) /\ (Len(s) + i) - Len(s) = i
      BY <1>1
    <3> QED BY <3>1, <2>1
  <2> QED BY <2>1, <2>2, <1>1
<1>3. ASSUME W(s) = Len(s) PROVE W(s \o t) = Len(s) + W(t)
  <2>1. Len(s) + W(t) \in 0..Len(s \o t)
    BY <1>1, <1>2
  <2>2. ASSUME NEW i \in 1..(Len(s) + W(t)) PROVE (s \o t)[i].kind # "torn"
    <3>1. CASE i <= Len(s)
      <4>1. i \in 1..W(s) /\ (s \o t)[i] = s[i]
        BY <3>1, <1>1, <1>2, <1>3
      <4> QED BY <4>1, ReadablePart DEF W
    <3>2. CASE ~ (i <= Len(s))
      <4>1. i - Len(s) \in 1..W(t) /\ i - Len(s) \in 1..Len(t) /\ Len(s) + (i - Len(s)) = i
        BY <3>2, <1>1
      <4>2. (s \o t)[i] = t[i - Len(s)]
        BY <4>1, <1>2
      <4> QED BY <4>1, <4>2, ReadablePart DEF W
    <3> QED BY <3>1, <3>2
  <2>3. ASSUME Len(s) + W(t) < Len(s \o t)
        PROVE  (s \o t)[(Len(s) + W(t)) + 1].kind = "torn"
    <3>1. W(t) < Len(t) /\ W(t) + 1 \in 1..Len(t) /\ (Len(s) + W(t)) + 1 = Len(s) + (W(t) + 1)
      BY <2>3, <1>1, <1>2
    <3>2. (s \o t)[Len(s) + (W(t) + 1)] = t[W(t) + 1]
      BY <3>1, <1>2
    <3> QED BY <3>1, <3>2, ReadablePart DEF W
  <2> QED BY <2>1, <2>2, <2>3, <1>2, WholeBy
<1> QED BY <1>2, <1>3

(* What a reader sees of what a reader has seen. *)
LEMMA WholeReadable ==
  ASSUME NEW s \in Seq(Entries)
  PROVE  /\ Readable(s) \in Seq(Entries)
         /\ Len(Readable(s)) = W(s) /\ W(Readable(s)) = W(s)
         /\ \A i \in 1..W(s) : Readable(s)[i] = s[i]
<1>1. /\ Readable(s) \in Seq(Entries) /\ Len(Readable(s)) = W(s) /\ W(s) \in Nat
      /\ \A i \in 1..W(s) : Readable(s)[i] = s[i] /\ s[i].kind # "torn"
  BY ReadablePart, LenProperties DEF W
<1>2. W(s) \in 0..Len(Readable(s)) /\ ~ (W(s) < Len(Readable(s)))
  BY <1>1
<1>3. \A i \in 1..W(s) : Readable(s)[i].kind # "torn"
  BY <1>1
<1>4. W(Readable(s)) = W(s)
  BY <1>1, <1>2, <1>3, WholeBy, Zenon
<1> QED BY <1>1, <1>4

(* An empty log says nothing. *)
LEMMA WholeEmpty ==
  /\ <<>> \in Seq(Entries) /\ Len(<<>>) = 0 /\ W(<<>>) = 0 /\ Live(<<>>) = {}
<1>1. <<>> \in Seq(Entries) /\ Len(<<>>) = 0
  BY EmptySeq
<1>2. \A s \in Seq(Entries) : Len(s) = 0 => W(s) = 0
  <2> SUFFICES ASSUME NEW s \in Seq(Entries), Len(s) = 0 PROVE W(s) = 0
    OBVIOUS
  <2>1. W(s) \in 0..Len(s)
    BY ReadablePart DEF W
  <2> QED BY <2>1
<1>3. \A s \in Seq(Entries) : Len(s) = 0 => Live(s) = {}
  <2> SUFFICES ASSUME NEW s \in Seq(Entries), Len(s) = 0 PROVE Live(s) = {}
    OBVIOUS
  <2>1. Live(s) \subseteq Messages
    BY DEF Live
  <2>0. W(s) = 0
    BY <1>2
  <2>2. \A i \in 1..W(s) : FALSE
    BY <2>0
  <2>3. \A m \in Messages : m \notin Live(s)
    BY <2>2, LiveIff
  <2> QED BY <2>1, <2>3
<1>4. W(<<>>) = 0 /\ Live(<<>>) = {}
  BY <1>1, <1>2, <1>3, Zenon
<1> QED BY <1>1, <1>4

(* What is live is live for a reason, and there are only so many. *)
LEMMA LiveIsFinite ==
  ASSUME NEW s \in Seq(Entries)
  PROVE  Live(s) \subseteq Messages /\ IsFiniteSet(Live(s))
<1>1. W(s) \in Nat
  BY ReadablePart, LenProperties DEF W
<1>2. IsFiniteSet(1..W(s))
  BY <1>1, FS_Interval
<1> DEFINE T == {s[i].id : i \in 1..W(s)}
           f == [i \in 1..W(s) |-> s[i].id]
<1>3. IsFiniteSet(T)
  <2>1. f \in Surjection(1..W(s), T)
    BY DEF Surjection
  <2> HIDE DEF f, T
  <2> QED BY <2>1, <1>2, FS_Surjection
<1>4. Live(s) \subseteq Messages
  BY DEF Live
<1>5. Live(s) \subseteq T
  BY <1>4, LiveIff DEF Is
<1> QED BY <1>3, <1>4, <1>5, FS_Subset

(* What Described returns: the lines of S, by number, enqueue record first. *)
Before(r, q) == r.id < q.id \/ (r.id = q.id /\ r.kind = "enqueue" /\ q.kind = "attempt")

IsDescribed(s, all) ==
  /\ s \in Seq(all)
  /\ \A r \in all : \E i \in 1..Len(s) : s[i] = r
  /\ \A i, j \in 1..Len(s) : i < j => Before(s[i], s[j])

AllLines(S) == UNION {ToSet(Lines(m)) : m \in S}

(* The lines of one message. *)
LEMMA LinesAre ==
  ASSUME att \in [Messages -> 0..MaxAttempts], NEW m \in Messages
  PROVE  /\ Record("enqueue", m, 0) \in Entries
         /\ Record("attempt", m, att[m]) \in Entries
         /\ ToSet(Lines(m)) = {Record("enqueue", m, 0)} \cup
              (IF att[m] > 0 THEN {Record("attempt", m, att[m])} ELSE {})
<1>1. /\ Record("enqueue", m, 0) \in Entries
      /\ Record("attempt", m, att[m]) \in Entries
  BY WalAssumption DEF Entries, Record
<1> DEFINE e == Record("enqueue", m, 0)
           a == Record("attempt", m, att[m])
<1> HIDE DEF e, a
<1>2. CASE att[m] > 0
  <2>1. Lines(m) = <<e, a>>
    BY <1>2 DEF Lines, e, a
  <2>3. ToSet(<<e, a>>) = {e, a}
    <3>1. DOMAIN <<e, a>> = {1, 2}
      OBVIOUS
    <3> QED BY <3>1 DEF ToSet
  <2> QED BY <1>1, <1>2, <2>1, <2>3 DEF e, a
<1>3. CASE ~ (att[m] > 0)
  <2>1. Lines(m) = <<e>>
    BY <1>3 DEF Lines, e, a
  <2>3. ToSet(<<e>>) = {e}
    <3>1. DOMAIN <<e>> = {1}
      OBVIOUS
    <3> QED BY <3>1 DEF ToSet
  <2> QED BY <1>1, <1>3, <2>1, <2>3 DEF e, a
<1> QED BY <1>2, <1>3

(* The lines of several messages. *)
LEMMA AllLinesAre ==
  ASSUME att \in [Messages -> 0..MaxAttempts], NEW S \in SUBSET Messages
  PROVE  /\ AllLines(S) \subseteq Entries
         /\ \A r \in AllLines(S) :
              /\ r.id \in S /\ r.kind \in {"enqueue", "attempt"}
              /\ r.kind = "attempt" => att[r.id] > 0 /\ r.n = att[r.id]
         /\ \A m \in S : Record("enqueue", m, 0) \in AllLines(S)
         /\ \A m \in S : att[m] > 0 => Record("attempt", m, att[m]) \in AllLines(S)
<1>1. \A r \in AllLines(S) : \E m \in S : r \in ToSet(Lines(m))
  BY DEF AllLines
<1>2. \A m \in S : ToSet(Lines(m)) \subseteq AllLines(S)
  BY DEF AllLines
<1>3. \A m \in S : \A r \in ToSet(Lines(m)) :
        /\ r \in Entries /\ r.id = m /\ r.kind \in {"enqueue", "attempt"}
        /\ r.kind = "attempt" => att[m] > 0 /\ r.n = att[m]
  <2> SUFFICES ASSUME NEW m \in S, NEW r \in ToSet(Lines(m))
               PROVE  /\ r \in Entries /\ r.id = m /\ r.kind \in {"enqueue", "attempt"}
                      /\ r.kind = "attempt" => att[m] > 0 /\ r.n = att[m]
    OBVIOUS
  <2>1. CASE r = Record("enqueue", m, 0)
    <3>1. r \in Entries
      BY <2>1, LinesAre
    <3> QED BY <3>1, <2>1 DEF Record
  <2>2. CASE r = Record("attempt", m, att[m]) /\ att[m] > 0
    <3>1. r \in Entries
      BY <2>2, LinesAre
    <3> QED BY <3>1, <2>2 DEF Record
  <2>3. \/ r = Record("enqueue", m, 0)
        \/ r = Record("attempt", m, att[m]) /\ att[m] > 0
    BY LinesAre
  <2> QED BY <2>1, <2>2, <2>3
<1>4. \A m \in S : /\ Record("enqueue", m, 0) \in ToSet(Lines(m))
                   /\ att[m] > 0 => Record("attempt", m, att[m]) \in ToSet(Lines(m))
  BY LinesAre
<1> QED BY <1>1, <1>2, <1>3, <1>4

(* One message taken out of several. *)
LEMMA AllLinesSplit ==
  ASSUME NEW S, NEW m \in S
  PROVE  AllLines(S) = AllLines(S \ {m}) \cup ToSet(Lines(m))
BY DEF AllLines

(* Two lines of different messages, or of one, are in some order. *)
LEMMA BeforeStrict ==
  ASSUME NEW r \in Entries, NEW q \in Entries, r.kind # "torn", q.kind # "torn",
         Before(r, q)
  PROVE  r # q
<1>1. r.id \in Nat /\ q.id \in Nat
  BY EntryFields, WalAssumption
<1> QED BY <1>1 DEF Before

(* A finite set of numbers has a bound. *)
LEMMA FiniteBound ==
  ASSUME NEW S \in SUBSET Nat, IsFiniteSet(S)
  PROVE  \E k \in Nat : \A x \in S : x <= k
<1> DEFINE Bad == {n \in Nat : \E T \in SUBSET Nat :
                     /\ IsFiniteSet(T) /\ Cardinality(T) = n
                     /\ ~ \E k \in Nat : \A x \in T : x <= k}
<1>1. SUFFICES ASSUME Bad # {} PROVE FALSE
  BY FS_CardinalityType
<1>2. PICK n \in Bad : \A k \in Bad : n <= k
  <2>1. Bad \in SUBSET Nat
    OBVIOUS
  <2> HIDE DEF Bad
  <2> QED BY <1>1, <2>1, NatMin
<1>3. PICK T \in SUBSET Nat : /\ IsFiniteSet(T) /\ Cardinality(T) = n
                              /\ ~ \E k \in Nat : \A x \in T : x <= k
  BY <1>2
<1>4. PICK y \in T : TRUE
  BY <1>3
<1> DEFINE R == T \ {y}
<1>5. IsFiniteSet(R) /\ Cardinality(R) = n - 1
  BY <1>3, FS_RemoveElement
<1>6. n \in Nat /\ n - 1 \in Nat
  <2>1. Cardinality(R) \in Nat
    BY <1>5, FS_CardinalityType
  <2> QED BY <1>5, <2>1, <1>2
<1>7. n - 1 \notin Bad
  <2>1. ~ (n <= n - 1)
    BY <1>6
  <2> HIDE DEF Bad
  <2> QED BY <2>1, <1>2
<1>8. PICK k \in Nat : \A x \in R : x <= k
  BY <1>5, <1>6, <1>7
<1>9. \A x \in T : x <= (IF y <= k THEN k ELSE y)
  BY <1>8
<1>10. (IF y <= k THEN k ELSE y) \in Nat
  BY <1>8
<1> QED BY <1>3, <1>9, <1>10

(* Such a sequence exists: the message with the greatest number comes last. *)
LEMMA Sortable ==
  ASSUME att \in [Messages -> 0..MaxAttempts]
  PROVE  \A S \in SUBSET Messages : IsFiniteSet(S) =>
            \E s : IsDescribed(s, AllLines(S))
<1> DEFINE Bad == {n \in Nat : \E S \in SUBSET Messages :
                     /\ IsFiniteSet(S) /\ Cardinality(S) = n
                     /\ ~ \E s : IsDescribed(s, AllLines(S))}
<1>1. SUFFICES ASSUME Bad # {} PROVE FALSE
  BY FS_CardinalityType
<1>2. PICK n \in Bad : \A k \in Bad : n <= k
  <2>1. Bad \in SUBSET Nat
    OBVIOUS
  <2> HIDE DEF Bad
  <2> QED BY <1>1, <2>1, NatMin
<1>3. PICK S \in SUBSET Messages :
        /\ IsFiniteSet(S) /\ Cardinality(S) = n
        /\ ~ \E s : IsDescribed(s, AllLines(S))
  BY <1>2
<1>4. S # {}
  <2> SUFFICES ASSUME S = {} PROVE FALSE
    OBVIOUS
  <2>1. AllLines(S) = {}
    BY DEF AllLines
  <2>2. <<>> \in Seq(AllLines(S)) /\ Len(<<>>) = 0
    BY EmptySeq
  <2>3. IsDescribed(<<>>, AllLines(S))
    BY <2>1, <2>2 DEF IsDescribed
  <2> QED BY <2>3, <1>3
<1>5. PICK m \in S : \A x \in S : x <= m
  <2>1. S \in SUBSET Nat
    BY WalAssumption
  <2>2. PICK k \in Nat : \A x \in S : x <= k
    BY <2>1, <1>3, FiniteBound
  <2>3. S \subseteq 1..k
    BY <2>1, <2>2, WalAssumption
  <2> QED BY <2>3, <2>2, <1>4, NatMax
<1> DEFINE R == S \ {m}
<1>6. PICK s : IsDescribed(s, AllLines(R))
  <2>1. IsFiniteSet(R) /\ Cardinality(R) = n - 1
    BY <1>3, FS_RemoveElement
  <2>2. n \in Nat /\ n - 1 \in Nat
    <3>1. Cardinality(R) \in Nat
      BY <2>1, FS_CardinalityType
    <3> QED BY <2>1, <3>1, <1>2
  <2>3. n - 1 \notin Bad
    <3>1. ~ (n <= n - 1)
      BY <2>2
    <3> HIDE DEF Bad
    <3> QED BY <3>1, <1>2
  <2> QED BY <2>1, <2>2, <2>3
<1> DEFINE e == Record("enqueue", m, 0)
           a == Record("attempt", m, att[m])
           t == IF att[m] > 0 THEN Append(Append(s, e), a) ELSE Append(s, e)
           all == AllLines(S)
<1>7. /\ ToSet(Lines(m)) = {e} \cup (IF att[m] > 0 THEN {a} ELSE {})
      /\ all = AllLines(R) \cup {e} \cup (IF att[m] > 0 THEN {a} ELSE {})
  BY LinesAre, AllLinesSplit
<1>8. /\ s \in Seq(all) /\ Len(s) \in Nat
      /\ \A i \in 1..Len(s) : s[i] \in AllLines(R) /\ s[i].id \in R /\ Before(s[i], e) /\ Before(s[i], a)
  <2>1. s \in Seq(AllLines(R)) /\ AllLines(R) \subseteq all
    BY <1>6, <1>7 DEF IsDescribed
  <2>2. s \in Seq(all) /\ Len(s) \in Nat /\ \A i \in 1..Len(s) : s[i] \in AllLines(R)
    <3> HIDE DEF all, R
    <3> QED BY <2>1, SeqMonotonic, LenProperties
  <2>3. R \in SUBSET Messages
    OBVIOUS
  <2>4. \A i \in 1..Len(s) : s[i].id \in R
    <3> HIDE DEF R
    <3> QED BY <2>2, <2>3, AllLinesAre
  <2>5. \A x \in R : x < m
    BY <1>5, WalAssumption
  <2>6. e.id = m /\ a.id = m
    BY DEF Record
  <2> HIDE DEF e, a, R
  <2>7. \A i \in 1..Len(s) : Before(s[i], e) /\ Before(s[i], a)
    BY <2>4, <2>5, <2>6 DEF Before
  <2> QED BY <2>2, <2>4, <2>7
<1>9. IsDescribed(t, all)
  <2> DEFINE s1 == Append(s, e)
  <2>1. /\ e \in all /\ s1 \in Seq(all) /\ Len(s1) = Len(s) + 1 /\ s1[Len(s) + 1] = e
        /\ \A i \in 1..Len(s) : s1[i] = s[i]
    <3> HIDE DEF e, a, all, R
    <3> QED BY <1>7, <1>8, AppendProperties
  <2>2. \A i, j \in 1..Len(s) : i < j => Before(s[i], s[j])
    BY <1>6 DEF IsDescribed
  <2>3. \A r \in AllLines(R) : \E i \in 1..Len(s) : s[i] = r
    BY <1>6 DEF IsDescribed
  <2>4. Before(e, a)
    BY DEF Before, Record
  <2> HIDE DEF s1, e, a, all, R
  <2>5. \A i, j \in 1..Len(s1) : i < j => Before(s1[i], s1[j])
    <3> SUFFICES ASSUME NEW i \in 1..Len(s1), NEW j \in 1..Len(s1), i < j
                 PROVE  Before(s1[i], s1[j])
      OBVIOUS
    <3>1. i \in 1..Len(s) /\ s1[i] = s[i]
      BY <2>1, <1>8
    <3>2. CASE j \in 1..Len(s)
      BY <3>1, <3>2, <2>1, <2>2
    <3>3. CASE j = Len(s) + 1
      BY <3>1, <3>3, <2>1, <1>8
    <3> QED BY <3>2, <3>3, <2>1, <1>8
  <2>6. \A r \in AllLines(R) \cup {e} : \E i \in 1..Len(s1) : s1[i] = r
    BY <2>1, <2>3, <1>8
  <2>7. CASE ~ (att[m] > 0)
    <3>1. t = s1 /\ all = AllLines(R) \cup {e}
      BY <2>7, <1>7 DEF s1
    <3> QED BY <3>1, <2>1, <2>5, <2>6 DEF IsDescribed
  <2>8. CASE att[m] > 0
    <3>1. t = Append(s1, a) /\ all = AllLines(R) \cup {e} \cup {a}
      BY <2>8, <1>7 DEF s1
    <3> HIDE DEF t
    <3>2. /\ t \in Seq(all) /\ Len(t) = Len(s1) + 1 /\ t[Len(s1) + 1] = a
          /\ \A i \in 1..Len(s1) : t[i] = s1[i]
      BY <3>1, <2>1, AppendProperties
    <3>3. \A i \in 1..Len(s1) : Before(s1[i], a)
      BY <2>1, <2>4, <1>8
    <3>4. \A i, j \in 1..Len(t) : i < j => Before(t[i], t[j])
      <4> SUFFICES ASSUME NEW i \in 1..Len(t), NEW j \in 1..Len(t), i < j
                   PROVE  Before(t[i], t[j])
        OBVIOUS
      <4>1. i \in 1..Len(s1) /\ t[i] = s1[i]
        BY <3>2, <2>1, <1>8
      <4>2. CASE j \in 1..Len(s1)
        BY <4>1, <4>2, <3>2, <2>5
      <4>3. CASE j = Len(s1) + 1
        BY <4>1, <4>3, <3>2, <3>3
      <4> QED BY <4>2, <4>3, <3>2, <2>1, <1>8
    <3>5. \A r \in all : \E i \in 1..Len(t) : t[i] = r
      BY <3>1, <3>2, <2>1, <2>6, <1>8
    <3> QED BY <3>2, <3>4, <3>5 DEF IsDescribed
  <2> QED BY <2>7, <2>8
<1> QED BY <1>3, <1>9


(* The first half of a compacted log: each message of S once, its attempts *)
(* behind it, and nothing else. *)
Tells(s, S, b) ==
  /\ s \in Seq(Entries) /\ W(s) = Len(s)
  /\ \A i \in 1..Len(s) : s[i].id \in S /\ s[i].kind \in {"enqueue", "attempt"}
  /\ \A m \in S : \E i \in 1..Len(s) : Is(s, i, "enqueue", m)
  /\ \A m \in S : b[m] > 0 => \E i \in 1..Len(s) : Is(s, i, "attempt", m)
  /\ \A i \in 1..Len(s) : s[i].kind = "attempt" =>
       /\ s[i].n = b[s[i].id] /\ b[s[i].id] > 0
       /\ \A j \in 1..Len(s) : Is(s, j, "enqueue", s[i].id) => j < i
       /\ \A j \in 1..Len(s) : Is(s, j, "attempt", s[i].id) => j = i

(* What the compactor writes of a snapshot tells of it and of nothing      *)
(* else.                                                                   *)
LEMMA DescribedTells ==
  ASSUME att \in [Messages -> 0..MaxAttempts], NEW S \in SUBSET Messages, IsFiniteSet(S)
  PROVE  Tells(Described(S), S, att)
<1> DEFINE all == AllLines(S)
           n == Cardinality(all)
           d == Described(S)
<1>1. PICK s : IsDescribed(s, all)
  BY Sortable
<1>2. /\ all \subseteq Entries
      /\ \A r \in all : /\ r.id \in S /\ r.kind \in {"enqueue", "attempt"}
                        /\ r.kind = "attempt" => att[r.id] > 0 /\ r.n = att[r.id]
      /\ \A m \in S : Record("enqueue", m, 0) \in all
      /\ \A m \in S : att[m] > 0 => Record("attempt", m, att[m]) \in all
  BY AllLinesAre
<1> HIDE DEF all
<1>3. \A r, q \in all : Before(r, q) => r # q
  BY <1>2, BeforeStrict
<1>4. Len(s) \in Nat /\ s \in [1..Len(s) -> all]
  BY <1>1, LenProperties DEF IsDescribed
<1>5. /\ IsFiniteSet(all) /\ Len(s) = n
      /\ s \in [1..n -> all] /\ \A i, j \in 1..n : i < j => Before(s[i], s[j])
  <2>1. s \in Surjection(1..Len(s), all)
    BY <1>1, <1>4 DEF IsDescribed, Surjection
  <2>2. \A i, j \in 1..Len(s) : i < j => s[i] # s[j]
    BY <1>1, <1>3, <1>4 DEF IsDescribed
  <2>3. \A i, j \in 1..Len(s) : s[i] = s[j] => i = j
    <3> SUFFICES ASSUME NEW i \in 1..Len(s), NEW j \in 1..Len(s), s[i] = s[j] PROVE i = j
      OBVIOUS
    <3>1. ~ (i < j) /\ ~ (j < i)
      BY <2>2
    <3> QED BY <3>1, <1>4
  <2>4. s \in Injection(1..Len(s), all)
    BY <2>3, <1>4 DEF Injection, IsInjective
  <2>5. IsFiniteSet(1..Len(s)) /\ Cardinality(1..Len(s)) = Len(s)
    BY <1>4, FS_Interval
  <2>6. IsFiniteSet(all) /\ n = Len(s)
    BY <2>1, <2>4, <2>5, FS_Surjection
  <2> HIDE DEF n
  <2> QED BY <2>6, <1>1, <1>4 DEF IsDescribed
<1>6. d = CHOOSE f \in [1..n -> all] : \A i, j \in 1..n : i < j => Before(f[i], f[j])
  BY DEF Described, Before, all, AllLines
<1>7. n \in Nat
  BY <1>4, <1>5
<1>8. d \in [1..n -> all] /\ \A i, j \in 1..n : i < j => Before(d[i], d[j])
  <2> HIDE DEF n, d
  <2> QED BY <1>5, <1>6
<1> HIDE DEF n, d
<1>9. \A r \in all : \E i \in 1..n : d[i] = r
  <2>1. \A i, j \in 1..n : i < j => d[i] # d[j]
    BY <1>8, <1>3
  <2>2. \A i, j \in 1..n : d[i] = d[j] => i = j
    <3> SUFFICES ASSUME NEW i \in 1..n, NEW j \in 1..n, d[i] = d[j] PROVE i = j
      OBVIOUS
    <3>1. ~ (i < j) /\ ~ (j < i)
      BY <2>1
    <3> QED BY <3>1, <1>7
  <2>3. d \in Injection(1..n, all)
    BY <2>2, <1>8 DEF Injection, IsInjective
  <2>4. IsFiniteSet(1..n) /\ Cardinality(1..n) = n
    BY <1>7, FS_Interval
  <2>5. d \in Surjection(1..n, all)
    BY <2>3, <2>4, <1>5, FS_Injection DEF n
  <2> QED BY <2>5 DEF Surjection
<1>10. d \in Seq(all) /\ Len(d) = n
  BY <1>7, <1>8
<1>11. d \in Seq(Entries)
  BY <1>2, <1>10, SeqMonotonic
<1>12. \A i \in 1..n : d[i] \in all /\ d[i] \in Entries
  BY <1>2, <1>8
<1>13. \A i \in 1..n : d[i].kind # "torn"
  BY <1>2, <1>12
<1>14. W(d) = n
  <2>1. n \in 0..Len(d) /\ ~ (n < Len(d))
    BY <1>7, <1>10
  <2> QED BY <2>1, <1>11, <1>13, WholeBy, Zenon
<1>15. ASSUME NEW m \in S PROVE \E i \in 1..n : Is(d, i, "enqueue", m)
  <2>1. PICK i \in 1..n : d[i] = Record("enqueue", m, 0)
    BY <1>2, <1>9
  <2> QED BY <2>1 DEF Is, Record
<1>16. ASSUME NEW m \in S, att[m] > 0 PROVE \E i \in 1..n : Is(d, i, "attempt", m)
  <2>1. PICK i \in 1..n : d[i] = Record("attempt", m, att[m])
    BY <1>2, <1>9, <1>16
  <2> QED BY <2>1 DEF Is, Record
<1>17. ASSUME NEW i \in 1..n, d[i].kind = "attempt", NEW j \in 1..n,
              d[j].id = d[i].id
       PROVE  /\ d[j].kind = "enqueue" => j < i
              /\ d[j].kind = "attempt" => j = i
  <2>1. d[i].id \in Nat
    BY <1>12, <1>13, EntryFields, WalAssumption
  <2>2. CASE i < j
    <3>1. Before(d[i], d[j])
      BY <2>2, <1>8
    <3> QED BY <3>1, <2>1, <1>17 DEF Before
  <2>3. CASE j < i
    <3>1. Before(d[j], d[i])
      BY <2>3, <1>8
    <3> QED BY <3>1, <2>1, <2>3, <1>17 DEF Before
  <2>4. CASE i = j
    BY <2>4, <1>17
  <2> QED BY <2>2, <2>3, <2>4, <1>7
<1>18. ASSUME NEW i \in 1..n, d[i].kind = "attempt"
       PROVE  /\ d[i].n = att[d[i].id] /\ att[d[i].id] > 0
              /\ \A j \in 1..n : Is(d, j, "enqueue", d[i].id) => j < i
              /\ \A j \in 1..n : Is(d, j, "attempt", d[i].id) => j = i
  BY <1>2, <1>12, <1>17, <1>18 DEF Is
<1>19. \A i \in 1..n : d[i].id \in S /\ d[i].kind \in {"enqueue", "attempt"}
  BY <1>2, <1>12
<1> QED BY <1>10, <1>11, <1>14, <1>15, <1>16, <1>18, <1>19 DEF Tells, d

Bringing == {"enqueue", "absorb"}

ThreadStates ==
  [pc   : {"idle", "open", "write", "sync", "flush", "publish", "failed", "cut"},
   op   : {"none", "enqueue", "absorb", "attempt", "terminal"},
   m    : Messages \cup {0},
   todo : SUBSET Messages,
   got  : SUBSET Messages,
   n    : 0..MaxAttempts]

FlushStates ==
  [by : Threads \cup {Nothing}, covers : SUBSET Threads, upto : Nat, swapped : BOOLEAN,
   synced : SUBSET Threads, err : BOOLEAN]

CompStates ==
  [pc : {"idle", "snapshot", "rewrite", "swap"}, mark : Nat, snap : SUBSET Messages,
   rec : Seq(Entries), missed : SUBSET Messages, stale : BOOLEAN]

Fates == {"new", "coming", "here", "back", "acked", "done", "leaving", "away", "lost"}

(* A goroutine as its own state shows it. *)
ThreadOK(th) ==
  /\ th.pc = "idle" => th = Idle
  /\ th.op = "none" => th.pc = "idle"
  /\ th.pc = "publish" => th.op = "absorb" /\ th.m = 0 /\ th.todo = {}
  /\ th.pc \notin {"idle", "publish"} => th.m \in Messages
  /\ th.pc \in {"sync", "flush", "cut"} => th.op \in Bringing
  /\ th.op # "absorb" => th.todo = {} /\ th.got = {}
  /\ th.m \notin th.todo \cup th.got /\ th.todo \cap th.got = {}
  /\ IsFiniteSet(th.got)

TypeInv ==
  /\ sync \in SyncModes
  /\ log \in Seq(Entries)
  /\ durable \in Nat
  /\ handle \in {"none", "path", "unlinked"}
  /\ mem \in SUBSET Messages /\ IsFiniteSet(mem)
  /\ att \in [Messages -> 0..MaxAttempts]
  /\ known \in BOOLEAN /\ up \in BOOLEAN
  /\ smu \in Threads \cup {Nothing}
  /\ thr \in [Threads -> ThreadStates]
  /\ \A t \in Threads : ThreadOK(thr[t])
  /\ flush \in FlushStates
  /\ comp \in CompStates /\ IsFiniteSet(comp.snap)
  /\ drop \in {"idle", "close", "remove"}
  /\ fate \in [Messages -> Fates]
  /\ exposed \in SUBSET Messages /\ ghosts \in SUBSET Messages
  /\ behind \in SUBSET Messages /\ again \in SUBSET Messages

(* What is left of a goroutine's operation when its append is over. *)
Goes(th, ok, x) ==
  \/ ~ (th.op = "absorb" /\ ok) /\ x = Idle
  \/ /\ th.op = "absorb" /\ ok /\ th.todo = {}
     /\ x = [th EXCEPT !.pc = "publish", !.m = 0, !.got = th.got \cup {th.m}]
  \/ /\ th.op = "absorb" /\ ok
     /\ \E y \in th.todo : x = [th EXCEPT !.pc = "open", !.m = y, !.got = th.got \cup {th.m},
                                          !.todo = th.todo \ {y}]

(* A goroutine that is free is in a good state. *)
LEMMA IdleOK == Idle \in ThreadStates /\ ThreadOK(Idle)
<1>1. Idle \in ThreadStates
  BY WalAssumption DEF Idle, ThreadStates
<1>2. ThreadOK(Idle)
  BY FS_EmptySet, WalAssumption DEF Idle, ThreadOK
<1> QED BY <1>1, <1>2

(* So are a flush and a compactor that do nothing. *)
LEMMA NoStates ==
  /\ NoFlush \in FlushStates
  /\ NoComp \in CompStates /\ IsFiniteSet(NoComp.snap)
BY FS_EmptySet, EmptySeq DEF NoFlush, FlushStates, NoComp, CompStates

(* What is left of an operation when its append is over is well formed. *)
LEMMA GoesOK ==
  ASSUME NEW th \in ThreadStates, ThreadOK(th), th.m \in Messages,
         NEW ok, NEW x, Goes(th, ok, x)
  PROVE  /\ x \in ThreadStates /\ ThreadOK(x) /\ x.pc \in {"idle", "publish", "open"}
         /\ th.op = "enqueue" => x = Idle
         /\ x # Idle => /\ th.op = "absorb" /\ x.op = "absorb"
                        /\ x.got = th.got \cup {th.m}
                        /\ {x.m} \cup x.todo \cup x.got = {x.m, th.m} \cup th.todo \cup th.got
                        /\ x.m \in th.todo \cup {0}
         /\ x.op = "enqueue" => FALSE
<1>0. 0 \notin Messages
  BY WalAssumption
<1>1. CASE x = Idle
  BY <1>1, IdleOK DEF Idle
<1>2. CASE /\ th.op = "absorb" /\ ok /\ th.todo = {}
           /\ x = [th EXCEPT !.pc = "publish", !.m = 0, !.got = th.got \cup {th.m}]
  <2>1. x \in ThreadStates
    BY <1>2 DEF ThreadStates
  <2>2. IsFiniteSet(x.got)
    BY <1>2, FS_AddElement DEF ThreadOK, ThreadStates
  <2>3. x.pc = "publish" /\ x.m = 0 /\ x.got = th.got \cup {th.m} /\ x.todo = {} /\ x.op = "absorb"
    BY <1>2 DEF ThreadStates
  <2> QED BY <2>1, <2>2, <2>3, <1>0, <1>2 DEF ThreadOK, ThreadStates, Idle, Bringing
<1>3. ASSUME th.op = "absorb", ok, NEW y \in th.todo,
             x = [th EXCEPT !.pc = "open", !.m = y, !.got = th.got \cup {th.m},
                            !.todo = th.todo \ {y}]
      PROVE  /\ x \in ThreadStates /\ ThreadOK(x) /\ x.pc = "open"
             /\ x.op = "absorb" /\ x.got = th.got \cup {th.m} /\ x.m = y /\ x.todo = th.todo \ {y}
  <2>1. y \in Messages
    BY DEF ThreadStates
  <2>2. x \in ThreadStates
    BY <1>3, <2>1 DEF ThreadStates
  <2>3. IsFiniteSet(x.got)
    BY <1>3, FS_AddElement DEF ThreadOK, ThreadStates
  <2>4. x.pc = "open" /\ x.m = y /\ x.got = th.got \cup {th.m} /\ x.todo = th.todo \ {y} /\ x.op = "absorb"
    BY <1>3 DEF ThreadStates
  <2>5. y # th.m /\ y \notin th.got /\ th.m \notin th.todo /\ th.todo \cap th.got = {}
    BY DEF ThreadOK
  <2>6. x.m \notin x.todo \cup x.got /\ x.todo \cap x.got = {}
    BY <2>4, <2>5
  <2>7. ThreadOK(x)
    BY <2>1, <2>3, <2>4, <2>6 DEF ThreadOK, Bringing
  <2> QED BY <2>2, <2>4, <2>7
<1> QED BY <1>1, <1>2, <1>3 DEF Goes

(* Return as a choice of what the goroutine does next. *)
LEMMA ReturnGoes ==
  ASSUME NEW t \in Threads, NEW ok \in BOOLEAN, Return(t, ok)
  PROVE  \E x : /\ Goes(thr[t], ok, x)
                /\ thr' = [thr EXCEPT ![t] = x]
                /\ smu' = IF thr[t].op = "enqueue" THEN Nothing ELSE smu
                /\ mem' = IF thr[t].op = "enqueue" /\ ok THEN mem \cup {thr[t].m} ELSE mem
BY DEF Return, Goes

(* A thread leaves its append in a good state. *)
LEMMA ReturnTypes ==
  ASSUME TypeInv, NEW t \in Threads, NEW ok \in BOOLEAN, Return(t, ok), thr[t].m \in Messages
  PROVE  /\ thr' \in [Threads -> ThreadStates]
         /\ \A u \in Threads : ThreadOK(thr'[u])
         /\ smu' \in Threads \cup {Nothing}
         /\ mem' \in SUBSET Messages /\ IsFiniteSet(mem')
<1>1. PICK x : /\ Goes(thr[t], ok, x)
               /\ thr' = [thr EXCEPT ![t] = x]
               /\ smu' = IF thr[t].op = "enqueue" THEN Nothing ELSE smu
               /\ mem' = IF thr[t].op = "enqueue" /\ ok THEN mem \cup {thr[t].m} ELSE mem
  BY ReturnGoes
<1>2. x \in ThreadStates /\ ThreadOK(x)
  BY <1>1, GoesOK DEF TypeInv
<1>3. IsFiniteSet(mem')
  BY <1>1, FS_AddElement DEF TypeInv
<1> QED BY <1>1, <1>2, <1>3 DEF TypeInv

(* The types hold at the start. *)
LEMMA InitType == Init => TypeInv
<1> SUFFICES ASSUME Init PROVE TypeInv
  OBVIOUS
<1>1. att \in [Messages -> 0..MaxAttempts] /\ fate \in [Messages -> Fates]
  BY WalAssumption DEF Init, Fates
<1>2. thr \in [Threads -> ThreadStates] /\ \A t \in Threads : ThreadOK(thr[t])
  BY IdleOK DEF Init
<1>3. IsFiniteSet(mem) /\ log \in Seq(Entries)
  BY FS_EmptySet, EmptySeq DEF Init
<1> QED BY <1>1, <1>2, <1>3, NoStates DEF Init, TypeInv

(* A thread that stays where it is but for its place in the code. *)
LEMMA MovesOn ==
  ASSUME NEW th \in ThreadStates, ThreadOK(th), th.pc # "idle", th.pc # "publish",
         NEW p \in {"open", "write", "failed", "sync", "flush", "cut"},
         p \in {"sync", "flush", "cut"} => th.op \in Bringing
  PROVE  [th EXCEPT !.pc = p] \in ThreadStates /\ ThreadOK([th EXCEPT !.pc = p])
<1> DEFINE x == [th EXCEPT !.pc = p]
<1>1. x \in ThreadStates
  BY DEF ThreadStates
<1>2. x.pc = p /\ x.op = th.op /\ x.m = th.m /\ x.todo = th.todo /\ x.got = th.got
  BY DEF ThreadStates
<1>3. ThreadOK(x)
  <2> HIDE DEF x
  <2> QED BY <1>2 DEF ThreadOK
<1> QED BY <1>1, <1>3

(* A goroutine that begins an operation is in a good state. *)
LEMMA Begins ==
  ASSUME NEW x \in ThreadStates, x.pc = "open", x.op \in {"enqueue", "absorb", "attempt", "terminal"},
         x.m \in Messages, x.m \notin x.todo, x.got = {}, x.op # "absorb" => x.todo = {}
  PROVE  ThreadOK(x)
BY FS_EmptySet DEF ThreadOK, Bringing

(* The fields of a goroutine that is free. *)
LEMMA IdleFields ==
  /\ Idle.pc = "idle" /\ Idle.op = "none" /\ Idle.m = 0
  /\ Idle.todo = {} /\ Idle.got = {} /\ Idle.n = 0
BY DEF Idle

(* The record a goroutine writes. *)
Its(th) == Record(IF th.op = "absorb" THEN "enqueue" ELSE th.op, th.m, th.n)

(* The record a goroutine writes is a whole one about its message. *)
LEMMA ItsEntry ==
  ASSUME NEW th \in ThreadStates, ThreadOK(th), th.pc \in {"write", "sync", "flush"}
  PROVE  /\ Its(th) \in Entries /\ Its(th).kind # "torn" /\ Its(th).id = th.m /\ th.m \in Messages
         /\ Its(th).kind = IF th.op = "absorb" THEN "enqueue" ELSE th.op
         /\ Its(th).n = th.n
BY DEF ThreadStates, ThreadOK, Its, Record, Entries

(* A torn record is an entry of a log. *)
LEMMA TornEntry == Torn \in Entries /\ Torn.kind = "torn"
BY DEF Torn, Entries, Record

(* What copyTail may find past the mark. *)
LEMMA TailsAre ==
  ASSUME TypeInv, NEW tail \in Tails, ~ comp.stale => comp.mark <= Len(log)
  PROVE  /\ tail \in Seq(Entries)
         /\ ~ comp.stale => tail = SubSeq(log, comp.mark + 1, Len(log))
         /\ comp.stale => \/ tail = <<>>
                          \/ \E a \in 0..Len(log) : tail = SubSeq(log, a + 1, Len(log))
                          \/ tail = <<Torn>>
<1>1. Len(log) \in Nat /\ comp.mark \in Nat
  BY LenProperties DEF TypeInv, CompStates
<1>2. CASE ~ comp.stale
  <2>1. tail = SubSeq(log, comp.mark + 1, Len(log))
    BY <1>2 DEF Tails
  <2>2. comp.mark \in 0..Len(log)
    BY <1>1, <1>2
  <2>3. tail \in Seq(Entries)
    BY <2>1, <2>2, WholeSuffix DEF TypeInv
  <2> QED BY <2>1, <2>3, <1>2
<1>3. CASE comp.stale
  <2>1. \/ tail = <<>>
        \/ \E i \in 1..Len(log) : tail = SubSeq(log, i, Len(log))
        \/ tail = <<Torn>>
    BY <1>3 DEF Tails
  <2>2. ASSUME NEW i \in 1..Len(log), tail = SubSeq(log, i, Len(log))
        PROVE  /\ tail \in Seq(Entries)
               /\ \E a \in 0..Len(log) : tail = SubSeq(log, a + 1, Len(log))
    <3>1. i - 1 \in 0..Len(log) /\ (i - 1) + 1 = i
      BY <1>1
    <3>2. tail \in Seq(Entries)
      BY <2>2, <3>1, WholeSuffix DEF TypeInv
    <3> QED BY <2>2, <3>1, <3>2
  <2>3. <<>> \in Seq(Entries) /\ <<Torn>> \in Seq(Entries)
    BY TornEntry, EmptySeq
  <2> QED BY <2>1, <2>2, <2>3, <1>3
<1> QED BY <1>2, <1>3

(* The compactor keeps a mark within the log until the log is removed. *)
CompInv ==
  /\ comp.pc = "idle" => comp = NoComp
  /\ comp.pc \in {"snapshot", "rewrite", "swap"} /\ ~ comp.stale => comp.mark <= Len(log)
  /\ comp.pc = "swap" => \E b \in [Messages -> 0..MaxAttempts] : Tells(comp.rec, comp.snap, b)

(* A compacted log is a log. *)
LEMMA NewLogType ==
  ASSUME TypeInv, CompInv, comp.pc = "swap", NEW tail \in Tails
  PROVE  /\ NewLog(tail) \in Seq(Entries)
         /\ tail \in Seq(Entries)
<1>1. tail \in Seq(Entries)
  BY TailsAre DEF CompInv
<1>2. comp.rec \in Seq(Entries)
  BY DEF TypeInv, CompStates
<1> QED BY <1>1, <1>2, WholeConcat DEF NewLog

(* Only goroutines that wait for a flush are covered by one. *)
WaitInv ==
  \A t \in Threads : /\ t \in flush.synced => thr[t].pc = "sync"
                     /\ t \in flush.covers => thr[t].pc \in {"sync", "flush"}

(* Every step keeps the types. *)
LEMMA NextType == TypeInv /\ CompInv /\ WaitInv /\ [Next]_vars => TypeInv'
<1> SUFFICES ASSUME TypeInv, CompInv, WaitInv, [Next]_vars PROVE TypeInv'
  OBVIOUS
<1>1. ASSUME NEW t \in Threads, NEW m \in Messages, BeginEnqueue(t, m) PROVE TypeInv'
  <2> DEFINE x == [Idle EXCEPT !.pc = "open", !.op = "enqueue", !.m = m]
  <2>1. /\ x \in ThreadStates /\ x.pc = "open" /\ x.op = "enqueue" /\ x.m = m
        /\ x.todo = {} /\ x.got = {}
    BY IdleOK, IdleFields DEF ThreadStates
  <2>2. x \in ThreadStates /\ ThreadOK(x)
    BY <2>1, Begins
  <2>3. thr' = [thr EXCEPT ![t] = x]
    BY <1>1 DEF BeginEnqueue
  <2> HIDE DEF x
  <2> QED BY <2>2, <2>3, <1>1 DEF TypeInv, BeginEnqueue, disk, history
<1>2. ASSUME NEW t \in Threads, NEW m \in Messages, Deliver(t, m) PROVE TypeInv'
  <2> DEFINE x == [Idle EXCEPT !.pc = "open", !.op = "attempt", !.m = m, !.n = att[m] + 1]
  <2>2. att[m] + 1 \in 0..MaxAttempts
    BY <1>2, WalAssumption DEF TypeInv, Deliver
  <2>1. /\ x \in ThreadStates /\ x.pc = "open" /\ x.op = "attempt" /\ x.m = m
        /\ x.todo = {} /\ x.got = {}
    BY IdleOK, IdleFields, <2>2 DEF ThreadStates
  <2>3. x \in ThreadStates /\ ThreadOK(x)
    BY <2>1, Begins
  <2>4. thr' = [thr EXCEPT ![t] = x] /\ att' = [att EXCEPT ![m] = att[m] + 1]
    BY <1>2 DEF Deliver
  <2> HIDE DEF x
  <2> QED BY <2>2, <2>3, <2>4, <1>2 DEF TypeInv, Deliver, disk, history
<1>3. ASSUME NEW t \in Threads, NEW m \in Messages, Ack(t, m) PROVE TypeInv'
  <2> DEFINE x == [Idle EXCEPT !.pc = "open", !.op = "terminal", !.m = m]
  <2>1. /\ x \in ThreadStates /\ x.pc = "open" /\ x.op = "terminal" /\ x.m = m
        /\ x.todo = {} /\ x.got = {}
    BY IdleOK, IdleFields DEF ThreadStates
  <2>2. x \in ThreadStates /\ ThreadOK(x)
    BY <2>1, Begins
  <2>3. thr' = [thr EXCEPT ![t] = x] /\ mem' = mem \ {m} /\ fate' = [fate EXCEPT ![m] = "acked"]
    BY <1>3 DEF Ack
  <2>4. IsFiniteSet(mem') /\ fate' \in [Messages -> Fates]
    BY <2>3, FS_RemoveElement DEF TypeInv, Fates
  <2> HIDE DEF x
  <2> QED BY <2>2, <2>3, <2>4, <1>3 DEF TypeInv, Ack, disk
<1>4. ASSUME NEW t \in Threads, NEW ms \in SUBSET Messages, BeginAbsorb(t, ms) PROVE TypeInv'
  <2>1. PICK m \in ms : thr' = [thr EXCEPT ![t] = [Idle EXCEPT !.pc = "open", !.op = "absorb",
                                                              !.m = m, !.todo = ms \ {m}]]
    BY <1>4 DEF BeginAbsorb
  <2> DEFINE x == [Idle EXCEPT !.pc = "open", !.op = "absorb", !.m = m, !.todo = ms \ {m}]
  <2>2. /\ x \in ThreadStates /\ x.pc = "open" /\ x.op = "absorb" /\ x.m = m
        /\ x.todo = ms \ {m} /\ x.got = {}
    BY IdleOK, IdleFields DEF ThreadStates
  <2>3. x \in ThreadStates /\ ThreadOK(x)
    BY <2>2, Begins
  <2>4. thr' = [thr EXCEPT ![t] = x]
    BY <2>1
  <2> HIDE DEF x
  <2> QED BY <2>3, <2>4, <1>4 DEF TypeInv, BeginAbsorb, disk, memory, history
<1>5. ASSUME NEW t \in Threads, Open(t) PROVE TypeInv'
  <2>1. [thr[t] EXCEPT !.pc = "write"] \in ThreadStates /\ ThreadOK([thr[t] EXCEPT !.pc = "write"])
    BY <1>5, MovesOn DEF TypeInv, Open
  <2>2. thr' = [thr EXCEPT ![t] = [thr[t] EXCEPT !.pc = "write"]]
    BY <1>5 DEF Open, TypeInv
  <2> QED BY <2>1, <2>2, <1>5 DEF TypeInv, Open, disk, memory, history
<1>6. ASSUME NEW t \in Threads, Write(t) PROVE TypeInv'
  <2>1. thr[t] \in ThreadStates /\ ThreadOK(thr[t]) /\ thr[t].pc = "write"
    BY <1>6 DEF TypeInv, Write
  <2>2. /\ Its(thr[t]) \in Entries /\ thr[t].m \in Messages
    BY <2>1, ItsEntry
  <2>3. log' \in Seq(Entries)
    BY <2>2, <1>6, WholeAppend DEF TypeInv, Write, Its
  <2>4. /\ thr' \in [Threads -> ThreadStates]
        /\ \A u \in Threads : ThreadOK(thr'[u])
        /\ smu' \in Threads \cup {Nothing}
        /\ mem' \in SUBSET Messages /\ IsFiniteSet(mem')
    <3>1. CASE NeedsFlush(t)
      <4>1. thr' = [thr EXCEPT ![t] = [thr[t] EXCEPT !.pc = "sync"]] /\ mem' = mem /\ smu' = smu
        BY <1>6, <3>1 DEF Write, TypeInv
      <4>2. [thr[t] EXCEPT !.pc = "sync"] \in ThreadStates /\ ThreadOK([thr[t] EXCEPT !.pc = "sync"])
        BY <2>1, <3>1, MovesOn DEF NeedsFlush, Bringing
      <4> QED BY <4>1, <4>2 DEF TypeInv
    <3>2. CASE ~ NeedsFlush(t)
      <4>1. Return(t, TRUE)
        BY <1>6, <3>2 DEF Write
      <4> QED BY <4>1, <2>2, ReturnTypes
    <3> QED BY <3>1, <3>2
  <2>5. fate' \in [Messages -> Fates]
    BY <1>6 DEF TypeInv, Write, Told, Fates
  <2>6. exposed' \in SUBSET Messages /\ behind' \in SUBSET Messages /\ again' \in SUBSET Messages
    BY <1>6, <2>2 DEF TypeInv, Write
  <2>7. UNCHANGED <<durable, handle, att, known, flush, comp, drop, sync, up, ghosts>>
    BY <1>6 DEF Write
  <2> QED BY <2>3, <2>4, <2>5, <2>6, <2>7 DEF TypeInv
<1>7. ASSUME NEW t \in Threads, WriteShort(t) PROVE TypeInv'
  <2>1. thr[t] \in ThreadStates /\ ThreadOK(thr[t]) /\ thr[t].m \in Messages
    BY <1>7 DEF TypeInv, WriteShort, ThreadOK
  <2>2. log' \in Seq(Entries)
    BY <1>7, TornEntry, WholeAppend DEF TypeInv, WriteShort
  <2>3. /\ thr' \in [Threads -> ThreadStates]
        /\ \A u \in Threads : ThreadOK(thr'[u])
        /\ smu' \in Threads \cup {Nothing}
        /\ mem' \in SUBSET Messages /\ IsFiniteSet(mem')
    BY <2>1, <1>7, ReturnTypes DEF WriteShort
  <2> QED BY <2>1, <2>2, <2>3, <1>7 DEF TypeInv, WriteShort
<1>8. ASSUME NEW t \in Threads, BeginFlush(t) PROVE TypeInv'
  <2>1. [thr[t] EXCEPT !.pc = "flush"] \in ThreadStates /\ ThreadOK([thr[t] EXCEPT !.pc = "flush"])
    <3>1. thr[t].op \in Bringing
      BY <1>8 DEF TypeInv, BeginFlush, ThreadOK
    <3> QED BY <1>8, <3>1, MovesOn DEF TypeInv, BeginFlush
  <2>2. thr' = [thr EXCEPT ![t] = [thr[t] EXCEPT !.pc = "flush"]]
    BY <1>8 DEF BeginFlush, TypeInv
  <2>3. flush' \in FlushStates
    <3>1. Len(log) \in Nat
      BY LenProperties DEF TypeInv
    <3> QED BY <3>1, <1>8 DEF TypeInv, BeginFlush, FlushStates
  <2> QED BY <2>1, <2>2, <2>3, <1>8 DEF TypeInv, BeginFlush, disk, memory, history
<1>9. ASSUME NEW t \in Threads, EndFlush(t) PROVE TypeInv'
  <2>1. PICK ok \in BOOLEAN :
          /\ durable' = IF ok /\ ~flush.swapped /\ handle = "path" /\ flush.upto > durable
                     THEN flush.upto ELSE durable
          /\ flush' = Flushed(t, ok)
          /\ Return(t, ok)
          /\ fate' = Told(t, ok, fate)
    BY <1>9 DEF EndFlush
  <2>2. thr[t].m \in Messages
    BY <1>9 DEF TypeInv, EndFlush, ThreadOK
  <2>3. /\ thr' \in [Threads -> ThreadStates]
        /\ \A u \in Threads : ThreadOK(thr'[u])
        /\ smu' \in Threads \cup {Nothing}
        /\ mem' \in SUBSET Messages /\ IsFiniteSet(mem')
    BY <2>1, <2>2, ReturnTypes
  <2>4. flush' \in FlushStates
    BY <2>1 DEF Flushed, TypeInv, FlushStates, NoFlush
  <2>5. durable' \in Nat /\ fate' \in [Messages -> Fates]
    BY <2>1 DEF TypeInv, FlushStates, Told, Fates
  <2> QED BY <2>3, <2>4, <2>5, <1>9 DEF TypeInv, EndFlush
<1>10. ASSUME NEW t \in Threads, Wake(t) PROVE TypeInv'
  <2>1. thr[t].m \in Messages
    BY <1>10 DEF TypeInv, Wake, ThreadOK
  <2>2. (~ flush.err) \in BOOLEAN /\ Return(t, ~ flush.err) /\ fate' = Told(t, ~ flush.err, fate)
    BY <1>10 DEF Wake
  <2>3. /\ thr' \in [Threads -> ThreadStates]
        /\ \A u \in Threads : ThreadOK(thr'[u])
        /\ smu' \in Threads \cup {Nothing}
        /\ mem' \in SUBSET Messages /\ IsFiniteSet(mem')
    BY <2>1, <2>2, ReturnTypes
  <2>4. flush' \in FlushStates /\ fate' \in [Messages -> Fates]
    BY <1>10 DEF Wake, TypeInv, FlushStates, Told, Fates
  <2> QED BY <2>3, <2>4, <1>10 DEF TypeInv, Wake, disk
<1>11. ASSUME NEW t \in Threads, ReturnDropped(t) PROVE TypeInv'
  <2>1. thr[t].m \in Messages
    BY <1>11 DEF TypeInv, ReturnDropped, ThreadOK
  <2>2. PICK ok \in BOOLEAN : Return(t, ok)
    BY <1>11 DEF ReturnDropped
  <2>3. /\ thr' \in [Threads -> ThreadStates]
        /\ \A u \in Threads : ThreadOK(thr'[u])
        /\ smu' \in Threads \cup {Nothing}
        /\ mem' \in SUBSET Messages /\ IsFiniteSet(mem')
    BY <2>1, <2>2, ReturnTypes
  <2>4. fate' \in [Messages -> Fates]
    BY <1>11 DEF ReturnDropped, TypeInv, Told, Fates
  <2> QED BY <2>1, <2>3, <2>4, <1>11 DEF TypeInv, ReturnDropped, disk
<1>12. ASSUME NEW t \in Threads, Publish(t) PROVE TypeInv'
  <2>1. thr[t] \in ThreadStates /\ IsFiniteSet(thr[t].got)
    BY DEF TypeInv, ThreadOK
  <2>2. mem' \in SUBSET Messages /\ IsFiniteSet(mem')
    BY <1>12, <2>1, FS_Union DEF TypeInv, Publish, ThreadStates
  <2>3. fate' \in [Messages -> Fates]
    BY <1>12 DEF Publish, TypeInv, Fates
  <2>4. thr' = [thr EXCEPT ![t] = Idle]
    BY <1>12 DEF Publish
  <2>5. thr' \in [Threads -> ThreadStates] /\ \A u \in Threads : ThreadOK(thr'[u])
    BY <2>4, IdleOK DEF TypeInv
  <2> QED BY <2>2, <2>3, <2>5, <1>12 DEF TypeInv, Publish, disk
<1>13. CASE SyncAll
  <2>1. Len(log) \in Nat
    BY LenProperties DEF TypeInv
  <2> QED BY <2>1, <1>13 DEF SyncAll, TypeInv, memory, history
<1>14. CASE Marks
  <2>1. Len(log) \in Nat
    BY LenProperties DEF TypeInv
  <2>2. comp' \in CompStates /\ IsFiniteSet(comp'.snap)
    <3>1. /\ NoComp.snap = {} /\ {m \in AllComing : LastOf(log, "enqueue", m) > 0} \subseteq Messages
      BY DEF NoComp, TypeInv, AllComing, Coming, ThreadStates
    <3>2. comp' = [NoComp EXCEPT !.pc = "snapshot", !.mark = Len(log),
                            !.missed = {m \in AllComing : LastOf(log, "enqueue", m) > 0}]
      BY <1>14 DEF Marks
    <3> QED BY <2>1, <3>1, <3>2, NoStates, FS_EmptySet DEF CompStates
  <2> QED BY <2>2, <1>14 DEF Marks, TypeInv, disk, memory, history
<1>15. CASE Snapshot
  <2>1. comp' \in CompStates /\ IsFiniteSet(comp'.snap)
    BY <1>15, NoStates DEF Snapshot, TypeInv, CompStates
  <2> QED BY <2>1, <1>15 DEF Snapshot, TypeInv, disk, memory, history
<1>16. CASE Rewrite
  <2>1. comp.snap \in SUBSET Messages /\ IsFiniteSet(comp.snap)
    BY DEF TypeInv, CompStates
  <2>2. Described(comp.snap) \in Seq(Entries)
    BY <2>1, DescribedTells DEF TypeInv, Tells
  <2>3. comp' \in CompStates /\ IsFiniteSet(comp'.snap)
    BY <1>16, <2>1, <2>2 DEF Rewrite, TypeInv, CompStates
  <2> QED BY <2>3, <1>16 DEF Rewrite, TypeInv, disk, memory, history
<1>17. CASE Swap
  <2>1. PICK tail \in Tails :
       /\ log' = NewLog(tail)
       /\ durable' = Len(NewLog(tail))
       /\ behind' = {m \in behind : m \in AllComing \/ AttemptsIn(NewLog(tail), m) # att[m]}
                    \cup (IF comp.stale THEN Messages ELSE {})
       /\ exposed' = IF comp.stale THEN exposed \cup mem \cup AllComing
                     ELSE (exposed \ Mended(tail)) \cup comp.missed
    BY <1>17 DEF Swap
  <2>2. log' \in Seq(Entries) /\ durable' \in Nat
    BY <2>1, <1>17, NewLogType, LenProperties DEF Swap
  <2>3. AllComing \subseteq Messages /\ comp.missed \subseteq Messages /\ comp.snap \subseteq Messages
    BY DEF TypeInv, AllComing, Coming, ThreadStates, CompStates
  <2>4. behind' \in SUBSET Messages /\ exposed' \in SUBSET Messages
    BY <2>1, <2>3 DEF TypeInv
  <2>5. comp' \in CompStates /\ IsFiniteSet(comp'.snap) /\ flush' \in FlushStates
        /\ ghosts' \in SUBSET Messages /\ handle' \in {"none", "path", "unlinked"}
    BY <1>17, <2>3, NoStates DEF Swap, TypeInv, FlushStates
  <2> QED BY <2>2, <2>4, <2>5, <1>17 DEF Swap, TypeInv, memory
<1>18. CASE CompactFails
  BY <1>18, NoStates DEF CompactFails, TypeInv, disk, memory, history
<1>19. CASE DropSlot
  <2>1. fate' \in [Messages -> Fates]
    BY <1>19 DEF DropSlot, TypeInv, Fates
  <2> QED BY <2>1, <1>19, FS_EmptySet DEF DropSlot, TypeInv, disk
<1>20. CASE CloseFile
  <2>1. PICK flushed \in BOOLEAN :
       LET safe == flush.synced \cup (IF flushed THEN flush.covers ELSE {})
       IN /\ durable' = IF flushed /\ ~flush.swapped /\ handle = "path" /\ flush.upto > durable
                        THEN flush.upto ELSE durable
          /\ thr' = [t \in Threads |->
               IF thr[t].pc \in {"write", "sync", "flush"}
               THEN [thr[t] EXCEPT !.pc = IF t \in safe THEN "cut" ELSE "failed"]
               ELSE thr[t]]
    BY <1>20 DEF CloseFile
  <2>2. durable' \in Nat
    BY <2>1 DEF TypeInv, FlushStates
  <2>3. ASSUME NEW t \in Threads PROVE thr'[t] \in ThreadStates /\ ThreadOK(thr'[t])
    <3>1. CASE thr[t].pc \in {"write", "sync", "flush"}
      <4>1. PICK p \in {"cut", "failed"} :
              /\ thr'[t] = [thr[t] EXCEPT !.pc = p]
              /\ p = "cut" => t \in flush.synced \cup flush.covers
        BY <2>1, <3>1
      <4>2. p = "cut" => thr[t].op \in Bringing
        BY <4>1 DEF WaitInv, TypeInv, ThreadOK
      <4>3. [thr[t] EXCEPT !.pc = p] \in ThreadStates /\ ThreadOK([thr[t] EXCEPT !.pc = p])
        BY <4>2, <3>1, MovesOn DEF TypeInv
      <4> QED BY <4>1, <4>3
    <3>2. CASE ~ (thr[t].pc \in {"write", "sync", "flush"})
      BY <2>1, <3>2 DEF TypeInv
    <3> QED BY <3>1, <3>2
  <2>4. thr' \in [Threads -> ThreadStates]
    BY <2>1, <2>3
  <2> QED BY <2>2, <2>3, <2>4, <1>20, NoStates DEF CloseFile, TypeInv, memory, history
<1>21. CASE RemoveFile
  <2>1. AllComing \subseteq Messages
    BY DEF TypeInv, AllComing, Coming, ThreadStates
  <2>2. fate' \in [Messages -> Fates] /\ log' \in Seq(Entries)
    BY <1>21, EmptySeq DEF RemoveFile, TypeInv, Fates
  <2>3. comp' \in CompStates /\ IsFiniteSet(comp'.snap)
    BY <1>21 DEF RemoveFile, TypeInv, CompStates
  <2>4. exposed' \in SUBSET Messages /\ behind' \in SUBSET Messages
    BY <1>21, <2>1 DEF RemoveFile, TypeInv
  <2> QED BY <2>2, <2>3, <2>4, <1>21 DEF RemoveFile, TypeInv, memory
<1>22. ASSUME NEW left \in Seq(Entries), Stop(left), durable' \in Nat, fate' \in [Messages -> Fates]
       PROVE  TypeInv'
  <2>1. thr' \in [Threads -> ThreadStates] /\ \A u \in Threads : ThreadOK(thr'[u])
    BY <1>22, IdleOK DEF Stop
  <2>2. /\ mem' \in SUBSET Messages /\ IsFiniteSet(mem')
        /\ flush' \in FlushStates /\ comp' \in CompStates /\ IsFiniteSet(comp'.snap)
    BY <1>22, NoStates, FS_EmptySet DEF Stop
  <2>3. log' \in Seq(Entries) /\ handle' = "none" /\ smu' = Nothing /\ drop' = "idle" /\ up' = FALSE
        /\ known' = FALSE
    BY <1>22 DEF Stop
  <2>4. UNCHANGED <<att, sync, exposed, ghosts, behind, again>>
    BY <1>22 DEF Stop
  <2> QED BY <2>1, <2>2, <2>3, <2>4, <1>22 DEF TypeInv
<1>23. CASE ProcessDies
  <2>1. log \in Seq(Entries) /\ Append(log, Torn) \in Seq(Entries)
    BY TornEntry, WholeAppend DEF TypeInv
  <2> QED BY <2>1, <1>22, <1>23 DEF ProcessDies, TypeInv
<1>24. CASE PowerLost
  <2>1. PICK k \in durable..Len(log) :
       \/ Stop(SubSeq(log, 1, k)) /\ durable' = k
       \/ k < Len(log) /\ Stop(Append(SubSeq(log, 1, k), Torn)) /\ durable' = k + 1
    BY <1>24 DEF PowerLost
  <2>2. k \in 0..Len(log) /\ k \in Nat
    BY LenProperties DEF TypeInv
  <2>3. SubSeq(log, 1, k) \in Seq(Entries) /\ Append(SubSeq(log, 1, k), Torn) \in Seq(Entries)
    BY <2>2, WholePrefix, WholeAppend, TornEntry DEF TypeInv
  <2>4. fate' \in [Messages -> Fates]
    BY <1>24 DEF PowerLost, TypeInv, Fates
  <2>5. CASE Stop(SubSeq(log, 1, k)) /\ durable' = k
    BY <2>2, <2>3, <2>4, <2>5, <1>22
  <2>6. CASE Stop(Append(SubSeq(log, 1, k), Torn)) /\ durable' = k + 1
    <3>1. durable' \in Nat
      BY <2>2, <2>6
    <3> QED BY <3>1, <2>3, <2>4, <2>6, <1>22
  <2> QED BY <2>1, <2>5, <2>6
<1>25. CASE Recover
  <2>1. log' \in Seq(Entries) /\ Len(log') \in Nat
    BY <1>25, WholeReadable, LenProperties DEF Recover, TypeInv
  <2>2. mem' \in SUBSET Messages /\ IsFiniteSet(mem')
    BY <1>25, LiveIsFinite DEF Recover, TypeInv
  <2>3. att' \in [Messages -> 0..MaxAttempts]
    BY <1>25, AttemptsInIs DEF Recover, TypeInv
  <2>4. fate' \in [Messages -> Fates]
    BY <1>25 DEF Recover, TypeInv, Fates
  <2>5. durable' \in Nat /\ known' \in BOOLEAN
    BY <1>25, <2>1 DEF Recover, TypeInv
  <2> QED BY <2>1, <2>2, <2>3, <2>4, <2>5, <1>25 DEF Recover, TypeInv
<1>26. CASE UNCHANGED vars
  BY <1>26 DEF vars, TypeInv
<1> QED
  BY <1>1, <1>2, <1>3, <1>4, <1>5, <1>6, <1>7, <1>8, <1>9, <1>10, <1>11, <1>12, <1>13, <1>14,
     <1>15, <1>16, <1>17, <1>18, <1>19, <1>20, <1>21, <1>23, <1>24, <1>25, <1>26
  DEF Next, Step

(* The slot's mutex is with whoever enqueues. *)
LockInv == \A t \in Threads : thr[t].op = "enqueue" <=> smu = t

(* One goroutine flushes, and those it covers wait. *)
FlushInv ==
  /\ \A t \in Threads : thr[t].pc = "flush" <=> flush.by = t
  /\ WaitInv
  /\ flush.by = Nothing => flush.covers = {} /\ ~ flush.swapped
  /\ flush.by # Nothing => flush.by \in flush.covers
  /\ flush.synced \cap flush.covers = {}

(* What the handle says of the file. *)
FileInv ==
  /\ durable <= Len(log)
  /\ handle = "unlinked" => log = <<>>
  /\ \A t \in Threads : thr[t].pc \in {"write", "sync", "flush"} => handle # "none"
  /\ flush.by # Nothing /\ ~ flush.swapped /\ handle = "path" => flush.upto <= Len(log)

(* A process that is down does nothing. *)
DownInv ==
  ~ up => /\ mem = {} /\ smu = Nothing /\ flush = NoFlush /\ comp = NoComp
          /\ drop = "idle" /\ handle = "none" /\ \A t \in Threads : thr[t] = Idle

BaseInv == TypeInv /\ CompInv /\ LockInv /\ FlushInv /\ FileInv /\ DownInv

(* A return says nothing of the other goroutines. *)
LEMMA ReturnMoves ==
  ASSUME TypeInv, NEW t \in Threads, NEW ok \in BOOLEAN, Return(t, ok), thr[t].m \in Messages
  PROVE  /\ \A u \in Threads \ {t} : thr'[u] = thr[u]
         /\ thr'[t].pc \in {"idle", "publish", "open"}
         /\ thr'[t].op # "enqueue"
         /\ smu' = IF thr[t].op = "enqueue" THEN Nothing ELSE smu
<1>1. PICK x : /\ Goes(thr[t], ok, x)
               /\ thr' = [thr EXCEPT ![t] = x]
               /\ smu' = IF thr[t].op = "enqueue" THEN Nothing ELSE smu
  BY ReturnGoes
<1>2. x \in ThreadStates /\ x.pc \in {"idle", "publish", "open"} /\ ~ (x.op = "enqueue")
  BY <1>1, GoesOK DEF TypeInv
<1> QED BY <1>1, <1>2 DEF TypeInv

(* Who acts, and what that changes of the goroutines: one operation may    *)
(* begin or go on, a file that is closed ends the appends to it, and a     *)
(* crash ends everything. *)
LEMMA NextThreads ==
  ASSUME TypeInv, [Next]_vars
  PROVE  \/ thr' = thr /\ smu' = smu
         \/ \E t \in Threads :
              /\ thr[t] = Idle /\ \A u \in Threads \ {t} : thr'[u] = thr[u]
              /\ thr'[t].pc = "open" /\ thr'[t].got = {}
              /\ \/ thr'[t].op = "enqueue" /\ smu = Nothing /\ smu' = t
                 \/ thr'[t].op # "enqueue" /\ smu' = smu
              /\ up
         \/ \E t \in Threads :
              /\ \A u \in Threads \ {t} : thr'[u] = thr[u]
              /\ smu' = smu
              /\ \/ Open(t) /\ thr'[t] = [thr[t] EXCEPT !.pc = "write"]
                 \/ Write(t) /\ NeedsFlush(t) /\ thr'[t] = [thr[t] EXCEPT !.pc = "sync"]
                 \/ BeginFlush(t) /\ thr'[t] = [thr[t] EXCEPT !.pc = "flush"]
                 \/ Publish(t) /\ thr'[t] = Idle
         \/ \E t \in Threads, ok \in BOOLEAN :
              /\ Return(t, ok) /\ thr[t].m \in Messages
              /\ \/ Write(t) /\ ~ NeedsFlush(t) /\ ok
                 \/ WriteShort(t) /\ ~ ok
                 \/ EndFlush(t) /\ flush' = Flushed(t, ok)
                 \/ Wake(t) /\ ok = ~ flush.err
                 \/ ReturnDropped(t)
         \/ CloseFile
         \/ ~ up' /\ (\A t \in Threads : thr'[t] = Idle) /\ smu' = Nothing
<1>1. ASSUME NEW t \in Threads, NEW m \in Messages,
             BeginEnqueue(t, m) \/ Deliver(t, m) \/ Ack(t, m)
      PROVE  /\ thr[t] = Idle /\ \A u \in Threads \ {t} : thr'[u] = thr[u]
             /\ thr'[t].pc = "open" /\ thr'[t].got = {}
             /\ \/ thr'[t].op = "enqueue" /\ smu = Nothing /\ smu' = t
                \/ thr'[t].op # "enqueue" /\ smu' = smu
             /\ up
  <2> DEFINE x == [Idle EXCEPT !.pc = "open", !.op = "enqueue", !.m = m]
             y == [Idle EXCEPT !.pc = "open", !.op = "attempt", !.m = m, !.n = att[m] + 1]
             z == [Idle EXCEPT !.pc = "open", !.op = "terminal", !.m = m]
  <2>1. /\ x.pc = "open" /\ x.op = "enqueue" /\ x.got = {}
        /\ y.pc = "open" /\ y.op = "attempt" /\ y.got = {}
        /\ z.pc = "open" /\ z.op = "terminal" /\ z.got = {}
    BY DEF Idle
  <2>2. CASE BeginEnqueue(t, m)
    <3>1. thr' = [thr EXCEPT ![t] = x] /\ smu = Nothing /\ smu' = t /\ thr[t] = Idle /\ up
      BY <2>2 DEF BeginEnqueue, Free, MayBegin
    <3> HIDE DEF x, y, z
    <3> QED BY <2>1, <3>1 DEF TypeInv
  <2>3. CASE Deliver(t, m)
    <3>1. thr' = [thr EXCEPT ![t] = y] /\ smu' = smu /\ thr[t] = Idle /\ up
      BY <2>3 DEF Deliver, Free, MayBegin
    <3> HIDE DEF x, y, z
    <3> QED BY <2>1, <3>1 DEF TypeInv
  <2>4. CASE Ack(t, m)
    <3>1. thr' = [thr EXCEPT ![t] = z] /\ smu' = smu /\ thr[t] = Idle /\ up
      BY <2>4 DEF Ack, Free, MayBegin
    <3> HIDE DEF x, y, z
    <3> QED BY <2>1, <3>1 DEF TypeInv
  <2> QED BY <1>1, <2>2, <2>3, <2>4
<1>2. ASSUME NEW t \in Threads, NEW ms \in SUBSET Messages, BeginAbsorb(t, ms)
      PROVE  /\ thr[t] = Idle /\ \A u \in Threads \ {t} : thr'[u] = thr[u]
             /\ thr'[t].pc = "open" /\ thr'[t].op = "absorb" /\ smu' = smu /\ up /\ thr'[t].got = {}
  BY <1>2, IdleOK, IdleFields DEF BeginAbsorb, TypeInv, ThreadStates, Free, MayBegin, memory
<1>3. ASSUME NEW t \in Threads, Open(t)
      PROVE  /\ \A u \in Threads \ {t} : thr'[u] = thr[u]
             /\ smu' = smu /\ thr'[t] = [thr[t] EXCEPT !.pc = "write"]
  BY <1>3 DEF Open, TypeInv, memory
<1>4. ASSUME NEW t \in Threads, Write(t), NeedsFlush(t)
      PROVE  /\ \A u \in Threads \ {t} : thr'[u] = thr[u]
             /\ smu' = smu /\ thr'[t] = [thr[t] EXCEPT !.pc = "sync"]
  BY <1>4 DEF Write, TypeInv
<1>5. ASSUME NEW t \in Threads, Write(t), ~ NeedsFlush(t)
      PROVE  Return(t, TRUE) /\ thr[t].m \in Messages
  BY <1>5 DEF Write, TypeInv, ThreadOK
<1>6. ASSUME NEW t \in Threads, WriteShort(t)
      PROVE  Return(t, FALSE) /\ thr[t].m \in Messages
  BY <1>6 DEF WriteShort, TypeInv, ThreadOK
<1>7. ASSUME NEW t \in Threads, BeginFlush(t)
      PROVE  /\ \A u \in Threads \ {t} : thr'[u] = thr[u]
             /\ smu' = smu /\ thr'[t] = [thr[t] EXCEPT !.pc = "flush"]
  BY <1>7 DEF BeginFlush, TypeInv, memory
<1>8. ASSUME NEW t \in Threads, EndFlush(t)
      PROVE  thr[t].m \in Messages /\ \E ok \in BOOLEAN : Return(t, ok) /\ flush' = Flushed(t, ok)
  BY <1>8 DEF EndFlush, TypeInv, ThreadOK
<1>9. ASSUME NEW t \in Threads, Wake(t)
      PROVE  Return(t, ~ flush.err) /\ thr[t].m \in Messages
  BY <1>9 DEF Wake, TypeInv, ThreadOK
<1>10. ASSUME NEW t \in Threads, ReturnDropped(t)
       PROVE  thr[t].m \in Messages /\ \E ok \in BOOLEAN : Return(t, ok)
  BY <1>10 DEF ReturnDropped, TypeInv, ThreadOK
<1>11. ASSUME NEW t \in Threads, Publish(t)
       PROVE  /\ \A u \in Threads \ {t} : thr'[u] = thr[u]
              /\ smu' = smu /\ thr'[t] = Idle
  BY <1>11 DEF Publish, TypeInv
<1>12. CASE SyncAll \/ Marks \/ Snapshot \/ Rewrite \/ Swap \/ CompactFails \/ DropSlot \/ RemoveFile
            \/ Recover \/ UNCHANGED vars
  <2>1. thr' = thr /\ smu' = smu
    BY <1>12 DEF SyncAll, Marks, Snapshot, Rewrite, Swap, CompactFails, DropSlot, RemoveFile, Recover,
                 vars, memory
  <2> QED BY <2>1
<1>13. CASE ProcessDies \/ PowerLost
  <2>1. \E left : Stop(left)
    BY <1>13 DEF ProcessDies, PowerLost
  <2>2. ~ up' /\ (\A t \in Threads : thr'[t] = Idle) /\ smu' = Nothing
    BY <2>1 DEF Stop
  <2> QED BY <2>2
<1>14. ASSUME NEW t \in Threads, Step(t) \/ WriteShort(t)
       PROVE \/ \E v \in Threads :
              /\ \A u \in Threads \ {v} : thr'[u] = thr[u]
              /\ smu' = smu
              /\ \/ Open(v) /\ thr'[v] = [thr[v] EXCEPT !.pc = "write"]
                 \/ Write(v) /\ NeedsFlush(v) /\ thr'[v] = [thr[v] EXCEPT !.pc = "sync"]
                 \/ BeginFlush(v) /\ thr'[v] = [thr[v] EXCEPT !.pc = "flush"]
                 \/ Publish(v) /\ thr'[v] = Idle
             \/ \E v \in Threads, ok \in BOOLEAN :
              /\ Return(v, ok) /\ thr[v].m \in Messages
              /\ \/ Write(v) /\ ~ NeedsFlush(v) /\ ok
                 \/ WriteShort(v) /\ ~ ok
                 \/ EndFlush(v) /\ flush' = Flushed(v, ok)
                 \/ Wake(v) /\ ok = ~ flush.err
                 \/ ReturnDropped(v)
  <2>1. CASE Open(t) \/ BeginFlush(t) \/ Publish(t) \/ (Write(t) /\ NeedsFlush(t))
    BY <2>1, <1>3, <1>4, <1>7, <1>11
  <2>2. CASE (Write(t) /\ ~ NeedsFlush(t)) \/ WriteShort(t) \/ EndFlush(t) \/ Wake(t) \/ ReturnDropped(t)
    <3>1. CASE Write(t) /\ ~ NeedsFlush(t)
      BY <3>1, <1>5
    <3>2. CASE WriteShort(t)
      BY <3>2, <1>6
    <3>3. CASE EndFlush(t)
      BY <3>3, <1>8
    <3>4. CASE Wake(t)
      <4>1. (~ flush.err) \in BOOLEAN
        OBVIOUS
      <4> QED BY <3>4, <1>9, <4>1
    <3>5. CASE ReturnDropped(t)
      BY <3>5, <1>10
    <3> QED BY <2>2, <3>1, <3>2, <3>3, <3>4, <3>5
  <2> QED BY <1>14, <2>1, <2>2 DEF Step
<1>15. \/ \E t \in Threads, m \in Messages : BeginEnqueue(t, m) \/ Deliver(t, m) \/ Ack(t, m)
       \/ \E t \in Threads, ms \in SUBSET Messages : BeginAbsorb(t, ms)
       \/ \E t \in Threads : Step(t) \/ WriteShort(t)
       \/ SyncAll \/ Marks \/ Snapshot \/ Rewrite \/ Swap \/ CompactFails \/ DropSlot \/ RemoveFile
            \/ Recover \/ UNCHANGED vars
       \/ CloseFile
       \/ ProcessDies \/ PowerLost
  BY DEF Next
<1>16. CASE \E t \in Threads, m \in Messages : BeginEnqueue(t, m) \/ Deliver(t, m) \/ Ack(t, m)
  <2>1. PICK t \in Threads, m \in Messages : BeginEnqueue(t, m) \/ Deliver(t, m) \/ Ack(t, m)
    BY <1>16
  <2> QED BY <2>1, <1>1
<1>17. CASE \E t \in Threads, ms \in SUBSET Messages : BeginAbsorb(t, ms)
  <2>1. PICK t \in Threads, ms \in SUBSET Messages : BeginAbsorb(t, ms)
    BY <1>17
  <2>2. thr'[t].op # "enqueue"
    BY <2>1, <1>2
  <2> QED BY <2>1, <2>2, <1>2
<1>18. CASE \E t \in Threads : Step(t) \/ WriteShort(t)
  <2>1. PICK t \in Threads : Step(t) \/ WriteShort(t)
    BY <1>18
  <2> QED BY <2>1, <1>14
<1> QED BY <1>12, <1>13, <1>15, <1>16, <1>17, <1>18

(* The structural invariants hold at the start. *)
LEMMA InitBase == Init => BaseInv
<1> SUFFICES ASSUME Init PROVE BaseInv
  OBVIOUS
<1>1. TypeInv
  BY InitType
<1>2. CompInv
  BY DEF Init, CompInv, NoComp
<1>3. \A t \in Threads : thr[t].pc = "idle" /\ thr[t].op = "none"
  BY IdleFields DEF Init
<1>4. flush.by = Nothing /\ flush.covers = {} /\ flush.synced = {} /\ ~ flush.swapped
  BY DEF Init, NoFlush
<1>5. Len(log) = 0 /\ durable = 0
  BY EmptySeq DEF Init
<1>6. LockInv /\ FlushInv /\ DownInv
  BY <1>3, <1>4, WalAssumption DEF Init, LockInv, FlushInv, WaitInv, DownInv
<1>7. FileInv
  BY <1>3, <1>4, <1>5 DEF Init, FileInv
<1> QED BY <1>1, <1>2, <1>6, <1>7 DEF BaseInv

(* What an append does to the log. *)
LEMMA WriteLog ==
  ASSUME TypeInv, NEW t \in Threads, Write(t)
  PROVE  /\ thr[t].m \in Messages /\ Its(thr[t]) \in Entries /\ Its(thr[t]).kind # "torn"
         /\ log' = IF handle = "path" THEN Append(log, Its(thr[t])) ELSE log
         /\ Len(log) \in Nat /\ Len(log') \in Nat
         /\ Len(log') >= Len(log) /\ handle # "path" => log' = log
<1>1. thr[t] \in ThreadStates /\ ThreadOK(thr[t]) /\ thr[t].pc = "write"
  BY DEF TypeInv, Write
<1>2. thr[t].m \in Messages /\ Its(thr[t]) \in Entries /\ Its(thr[t]).kind # "torn"
  BY <1>1, ItsEntry
<1>3. log' = IF handle = "path" THEN Append(log, Its(thr[t])) ELSE log
  BY DEF Write, Its
<1>4. log \in Seq(Entries) /\ Len(log) \in Nat
  BY LenProperties DEF TypeInv
<1>5. Len(Append(log, Its(thr[t]))) = Len(log) + 1
  BY <1>2, <1>4, WholeAppend
<1> QED BY <1>2, <1>3, <1>4, <1>5

(* A write that fails half way leaves a torn record. *)
LEMMA WriteShortLog ==
  ASSUME TypeInv, NEW t \in Threads, WriteShort(t)
  PROVE  /\ thr[t].m \in Messages
         /\ log' = Append(log, Torn)
         /\ Len(log) \in Nat /\ Len(log') = Len(log) + 1
<1>1. log \in Seq(Entries) /\ Len(log) \in Nat
  BY LenProperties DEF TypeInv
<1>2. log' = Append(log, Torn)
  BY DEF WriteShort
<1> QED BY <1>1, <1>2, TornEntry, WholeAppend DEF WriteShort, TypeInv, ThreadOK

(* Every step keeps the compactor consistent with the log. *)
LEMMA NextComp == TypeInv /\ CompInv /\ DownInv /\ [Next]_vars => CompInv'
<1> SUFFICES ASSUME TypeInv, CompInv, DownInv, [Next]_vars PROVE CompInv'
  OBVIOUS
<1>0. Len(log) \in Nat /\ comp.mark \in Nat /\ comp \in CompStates
  BY LenProperties DEF TypeInv, CompStates
<1>1. ASSUME comp' = comp, comp.pc = "idle" \/ (Len(log') \in Nat /\ Len(log') >= Len(log))
      PROVE  CompInv'
  BY <1>0, <1>1 DEF CompInv
<1>2. ASSUME comp' = NoComp PROVE CompInv'
  BY <1>2 DEF CompInv, NoComp
<1>3. CASE \/ \E t \in Threads, m \in Messages : BeginEnqueue(t, m) \/ Deliver(t, m) \/ Ack(t, m)
           \/ \E t \in Threads, ms \in SUBSET Messages : BeginAbsorb(t, ms)
           \/ \E t \in Threads : Open(t) \/ BeginFlush(t) \/ EndFlush(t) \/ Wake(t)
                                 \/ ReturnDropped(t) \/ Publish(t)
           \/ SyncAll \/ DropSlot \/ CloseFile \/ UNCHANGED vars
  <2>1. comp' = comp /\ log' = log
    BY <1>3 DEF BeginEnqueue, Deliver, Ack, BeginAbsorb, Open, BeginFlush, EndFlush, Wake,
                ReturnDropped, Publish, SyncAll, DropSlot, CloseFile, vars, disk
  <2> QED BY <2>1, <1>0, <1>1
<1>4. ASSUME NEW t \in Threads, Write(t) PROVE CompInv'
  <2>1. comp' = comp
    BY <1>4 DEF Write
  <2> QED BY <2>1, <1>1, <1>4, WriteLog
<1>5. ASSUME NEW t \in Threads, WriteShort(t) PROVE CompInv'
  <2>1. comp' = comp
    BY <1>5 DEF WriteShort
  <2>2. Len(log') \in Nat /\ Len(log') >= Len(log)
    BY <1>5, <1>0, WriteShortLog
  <2> QED BY <2>1, <2>2, <1>1
<1>6. CASE Marks
  <2>1. comp'.pc = "snapshot" /\ comp'.mark = Len(log) /\ log' = log
    BY <1>6 DEF Marks, NoComp, disk
  <2> QED BY <2>1, <1>0 DEF CompInv
<1>7. CASE Snapshot
  <2>1. CASE ~ known
    BY <2>1, <1>2, <1>7 DEF Snapshot
  <2>2. CASE known
    <3>1. comp'.pc = "rewrite" /\ comp'.mark = comp.mark /\ comp'.stale = comp.stale /\ log' = log
          /\ comp.pc = "snapshot"
      BY <2>2, <1>7, <1>0 DEF Snapshot, CompStates, disk
    <3> QED BY <3>1 DEF CompInv
  <2> QED BY <2>1, <2>2
<1>8. CASE Rewrite
  <2>1. /\ comp'.pc = "swap" /\ comp'.mark = comp.mark /\ comp'.stale = comp.stale /\ log' = log
        /\ comp.pc = "rewrite" /\ comp'.rec = Described(comp.snap) /\ comp'.snap = comp.snap
    BY <1>8, <1>0 DEF Rewrite, CompStates, disk
  <2>2. Tells(Described(comp.snap), comp.snap, att) /\ att \in [Messages -> 0..MaxAttempts]
    BY DescribedTells DEF TypeInv, CompStates
  <2> QED BY <2>1, <2>2 DEF CompInv
<1>9. CASE Swap \/ CompactFails
  BY <1>9, <1>2 DEF Swap, CompactFails
<1>10. CASE RemoveFile
  <2>1. CASE comp.pc = "idle"
    BY <2>1, <1>10, <1>1 DEF RemoveFile
  <2>2. CASE comp.pc # "idle"
    <3>1. comp'.pc = comp.pc /\ comp'.stale /\ comp'.rec = comp.rec /\ comp'.snap = comp.snap
      BY <2>2, <1>0, <1>10 DEF RemoveFile, CompStates
    <3> QED BY <3>1, <2>2 DEF CompInv
  <2> QED BY <2>1, <2>2
<1>11. CASE ProcessDies \/ PowerLost
  BY <1>11, <1>2 DEF ProcessDies, PowerLost, Stop
<1>12. CASE Recover
  <2>1. comp' = comp /\ comp.pc = "idle"
    BY <1>12 DEF Recover, DownInv, NoComp
  <2> QED BY <2>1, <1>1
<1> QED BY <1>3, <1>4, <1>5, <1>6, <1>7, <1>8, <1>9, <1>10, <1>11, <1>12 DEF Next, Step

(* Every step keeps the mutex with whoever enqueues. *)
LEMMA NextLock == TypeInv /\ LockInv /\ [Next]_vars => LockInv'
<1> SUFFICES ASSUME TypeInv, LockInv, [Next]_vars PROVE LockInv'
  OBVIOUS
<1>1. CASE thr' = thr /\ smu' = smu
  BY <1>1 DEF LockInv
<1>2. ASSUME NEW t \in Threads, thr[t] = Idle, \A u \in Threads \ {t} : thr'[u] = thr[u],
             \/ thr'[t].op = "enqueue" /\ smu = Nothing /\ smu' = t
             \/ thr'[t].op # "enqueue" /\ smu' = smu
      PROVE  LockInv'
  BY <1>2, WalAssumption, IdleFields DEF LockInv
<1>3. ASSUME NEW t \in Threads, \A u \in Threads \ {t} : thr'[u] = thr[u], smu' = smu,
             \/ thr'[t].op = thr[t].op
             \/ thr[t].op # "enqueue" /\ thr'[t].op # "enqueue"
      PROVE  LockInv'
  BY <1>3 DEF LockInv
<1>4. ASSUME NEW t \in Threads, NEW ok \in BOOLEAN, Return(t, ok), thr[t].m \in Messages
      PROVE  LockInv'
  <2>1. /\ \A u \in Threads \ {t} : thr'[u] = thr[u]
        /\ thr'[t].op # "enqueue"
        /\ smu' = IF thr[t].op = "enqueue" THEN Nothing ELSE smu
    BY <1>4, ReturnMoves
  <2>2. thr[t].op = "enqueue" <=> smu = t
    BY DEF LockInv
  <2> QED BY <2>1, <2>2, WalAssumption DEF LockInv
<1>5. ASSUME NEW t \in Threads, \A u \in Threads \ {t} : thr'[u] = thr[u], smu' = smu,
             \/ Open(t) /\ thr'[t] = [thr[t] EXCEPT !.pc = "write"]
             \/ Write(t) /\ NeedsFlush(t) /\ thr'[t] = [thr[t] EXCEPT !.pc = "sync"]
             \/ BeginFlush(t) /\ thr'[t] = [thr[t] EXCEPT !.pc = "flush"]
             \/ Publish(t) /\ thr'[t] = Idle
      PROVE LockInv'
  <2>0. thr[t] \in ThreadStates /\ ThreadOK(thr[t])
    BY DEF TypeInv
  <2>1. CASE Publish(t) /\ thr'[t] = Idle
    <3>1. thr[t].op # "enqueue" /\ thr'[t].op # "enqueue"
      BY <2>0, <2>1, IdleFields DEF Publish, ThreadOK
    <3> QED BY <3>1, <1>3, <1>5
  <2>2. CASE ~ (Publish(t) /\ thr'[t] = Idle)
    <3>1. thr'[t].op = thr[t].op
      BY <1>5, <2>2, <2>0 DEF ThreadStates
    <3> QED BY <3>1, <1>3, <1>5
  <2> QED BY <2>1, <2>2
<1>6. CASE CloseFile
  <2>1. /\ smu' = smu
        /\ \A t \in Threads : thr'[t].op = thr[t].op
    BY <1>6 DEF CloseFile, memory, TypeInv, ThreadStates
  <2> QED BY <2>1 DEF LockInv
<1>7. CASE (\A t \in Threads : thr'[t] = Idle) /\ smu' = Nothing
  BY <1>7, WalAssumption, IdleFields DEF LockInv
<1> QED BY <1>1, <1>2, <1>4, <1>5, <1>6, <1>7, NextThreads

(* The flush under way, when a goroutine that is not part of it moves. *)
LEMMA FlushAside ==
  ASSUME TypeInv, FlushInv, NEW t \in Threads, thr[t].pc \notin {"sync", "flush"},
         \A u \in Threads \ {t} : thr'[u] = thr[u], thr'[t].pc # "flush",
         flush' = flush
  PROVE  FlushInv'
<1>1. t \notin flush.synced /\ t \notin flush.covers /\ flush.by # t
  BY DEF FlushInv, WaitInv
<1> QED BY <1>1 DEF FlushInv, WaitInv

(* Every step keeps the account of the flush under way. *)
LEMMA NextFlush == TypeInv /\ FlushInv /\ [Next]_vars => FlushInv'
<1> SUFFICES ASSUME TypeInv, FlushInv, [Next]_vars PROVE FlushInv'
  OBVIOUS
<1>0. flush \in FlushStates /\ flush.covers \subseteq Threads /\ flush.synced \subseteq Threads
  BY DEF TypeInv, FlushStates
<1>1. CASE SyncAll \/ Marks \/ Snapshot \/ Rewrite \/ CompactFails \/ DropSlot \/ RemoveFile
            \/ Recover \/ UNCHANGED vars
  <2>1. thr' = thr /\ flush' = flush
    BY <1>1 DEF SyncAll, Marks, Snapshot, Rewrite, CompactFails, DropSlot, RemoveFile, Recover,
                 vars, memory
  <2> QED BY <2>1 DEF FlushInv, WaitInv
<1>2. CASE Swap
  <2>1. /\ thr' = thr /\ flush'.by = flush.by /\ flush'.covers = flush.covers
        /\ flush'.synced = flush.synced /\ flush'.swapped = (flush.by # Nothing /\ handle # "none")
    BY <1>2, <1>0 DEF Swap, memory, FlushStates
  <2> QED BY <2>1 DEF FlushInv, WaitInv
<1>3. ASSUME NEW t \in Threads, NEW m \in Messages, BeginEnqueue(t, m) \/ Deliver(t, m) \/ Ack(t, m)
      PROVE  FlushInv'
  <2>1. thr[t] = Idle /\ flush' = flush
    BY <1>3 DEF BeginEnqueue, Deliver, Ack, Free
  <2>2. \A u \in Threads \ {t} : thr'[u] = thr[u]
    BY <1>3 DEF BeginEnqueue, Deliver, Ack, TypeInv
  <2>3. thr'[t].pc = "open"
    BY <1>3, IdleOK DEF BeginEnqueue, Deliver, Ack, TypeInv, Idle
  <2>4. thr[t].pc \notin {"sync", "flush"} /\ thr'[t].pc # "flush"
    BY <2>1, <2>3, IdleFields
  <2> QED BY <2>1, <2>2, <2>4, FlushAside
<1>4. ASSUME NEW t \in Threads, NEW ms \in SUBSET Messages, BeginAbsorb(t, ms) PROVE FlushInv'
  <2>1. thr[t] = Idle /\ flush' = flush
    BY <1>4 DEF BeginAbsorb, Free
  <2>2. \A u \in Threads \ {t} : thr'[u] = thr[u]
    BY <1>4 DEF BeginAbsorb, TypeInv
  <2>3. thr'[t].pc = "open"
    BY <1>4, IdleOK DEF BeginAbsorb, TypeInv, Idle
  <2>4. thr[t].pc \notin {"sync", "flush"} /\ thr'[t].pc # "flush"
    BY <2>1, <2>3, IdleFields
  <2> QED BY <2>1, <2>2, <2>4, FlushAside
<1>5. ASSUME NEW t \in Threads, Open(t) \/ (Write(t) /\ NeedsFlush(t)) \/ Publish(t)
      PROVE FlushInv'
  <2>1. thr[t].pc \notin {"sync", "flush"} /\ flush' = flush
    BY <1>5 DEF Open, Write, Publish
  <2>2. \A u \in Threads \ {t} : thr'[u] = thr[u]
    BY <1>5 DEF Open, Write, Publish, TypeInv
  <2>3. thr'[t].pc # "flush"
    BY <1>5, IdleFields DEF Open, Write, Publish, TypeInv, ThreadStates
  <2> QED BY <2>1, <2>2, <2>3, FlushAside
<1>6. ASSUME NEW t \in Threads, (Write(t) /\ ~ NeedsFlush(t)) \/ WriteShort(t) \/ ReturnDropped(t)
      PROVE FlushInv'
  <2>1. /\ thr[t].pc \notin {"sync", "flush"} /\ flush' = flush
        /\ \E ok \in BOOLEAN : Return(t, ok)
    BY <1>6 DEF Write, WriteShort, ReturnDropped
  <2>2. thr[t].m \in Messages
    BY <1>6 DEF Write, WriteShort, ReturnDropped, TypeInv, ThreadOK
  <2>3. /\ \A u \in Threads \ {t} : thr'[u] = thr[u]
        /\ thr'[t].pc # "flush"
    BY <2>1, <2>2, ReturnMoves
  <2> QED BY <2>1, <2>3, FlushAside
<1>7. ASSUME NEW t \in Threads, BeginFlush(t) PROVE FlushInv'
  <2>1. /\ flush'.by = t
        /\ flush'.covers = {u \in Threads : thr[u].pc = "sync"} \ flush.synced
        /\ flush'.synced = flush.synced /\ ~ flush'.swapped
        /\ flush.by = Nothing /\ thr[t].pc = "sync" /\ t \notin flush.synced
    BY <1>7, <1>0 DEF BeginFlush, FlushStates
  <2>2. thr'[t].pc = "flush" /\ \A u \in Threads \ {t} : thr'[u] = thr[u]
    BY <1>7 DEF BeginFlush, TypeInv, ThreadStates
  <2> QED BY <2>1, <2>2, WalAssumption DEF FlushInv, WaitInv
<1>8. ASSUME NEW t \in Threads, EndFlush(t) PROVE FlushInv'
  <2>1. PICK ok \in BOOLEAN : flush' = Flushed(t, ok) /\ Return(t, ok)
    BY <1>8 DEF EndFlush
  <2>2. thr[t].pc = "flush" /\ thr[t].m \in Messages
    BY <1>8 DEF EndFlush, TypeInv, ThreadOK
  <2>3. /\ \A u \in Threads \ {t} : thr'[u] = thr[u]
        /\ thr'[t].pc # "flush" /\ thr'[t].pc # "sync"
    BY <2>1, <2>2, ReturnMoves
  <2>4. /\ flush'.by = Nothing /\ flush'.covers = {} /\ ~ flush'.swapped
        /\ flush'.synced = flush.synced \cup (IF ok THEN flush.covers \ {t} ELSE {})
    BY <2>1 DEF Flushed, NoFlush
  <2>5. flush.by = t
    BY <2>2 DEF FlushInv
  <2>6. \A u \in Threads \ {t} : thr[u].pc # "flush"
    BY <2>5 DEF FlushInv
  <2>7. \A u \in Threads \ {t} : u \in flush'.synced => thr[u].pc = "sync"
    BY <2>4, <2>6 DEF FlushInv, WaitInv
  <2>8. t \notin flush'.synced
    BY <2>2, <2>4 DEF FlushInv, WaitInv
  <2> QED BY <2>3, <2>4, <2>6, <2>7, <2>8, WalAssumption DEF FlushInv, WaitInv
<1>9. ASSUME NEW t \in Threads, Wake(t) PROVE FlushInv'
  <2>1. /\ flush'.by = flush.by /\ flush'.covers = flush.covers /\ flush'.swapped = flush.swapped
        /\ flush'.synced = flush.synced \ {t}
        /\ thr[t].pc = "sync" /\ t \in flush.synced
    BY <1>9, <1>0 DEF Wake, FlushStates
  <2>2. thr[t].m \in Messages /\ (~ flush.err) \in BOOLEAN /\ Return(t, ~ flush.err)
    BY <1>9 DEF Wake, TypeInv, ThreadOK
  <2>3. /\ \A u \in Threads \ {t} : thr'[u] = thr[u]
        /\ thr'[t].pc # "flush" /\ thr'[t].pc # "sync"
    BY <2>2, ReturnMoves
  <2>4. t \notin flush.covers /\ flush.by # t
    BY <2>1 DEF FlushInv
  <2> QED BY <2>1, <2>3, <2>4 DEF FlushInv, WaitInv
<1>10. CASE CloseFile
  <2>1. flush' = NoFlush /\ \A t \in Threads : thr'[t].pc # "flush"
    BY <1>10 DEF CloseFile, TypeInv, ThreadStates
  <2> QED BY <2>1, WalAssumption DEF FlushInv, WaitInv, NoFlush
<1>11. CASE ProcessDies \/ PowerLost
  <2>1. flush' = NoFlush /\ \A t \in Threads : thr'[t] = Idle
    BY <1>11 DEF ProcessDies, PowerLost, Stop
  <2> QED BY <2>1, WalAssumption, IdleFields DEF FlushInv, WaitInv, NoFlush
<1> QED BY <1>1, <1>2, <1>3, <1>4, <1>5, <1>6, <1>7, <1>8, <1>9, <1>10, <1>11 DEF Next, Step

(* Every step keeps handle, file and what is durable in agreement. *)
LEMMA NextFile == BaseInv /\ FlushInv' /\ [Next]_vars => FileInv'
<1> SUFFICES ASSUME BaseInv, FlushInv', [Next]_vars PROVE FileInv'
  OBVIOUS
<1> USE DEF BaseInv
<1>0. /\ flush \in FlushStates /\ Len(log) \in Nat /\ durable \in Nat /\ flush.upto \in Nat
      /\ log \in Seq(Entries) /\ \A t \in Threads : thr[t] \in ThreadStates /\ ThreadOK(thr[t])
  BY LenProperties DEF TypeInv, FlushStates
<1> DEFINE AtFile(th) == th.pc \in {"write", "sync", "flush"}
<1>01. /\ \A t \in Threads : AtFile(thr[t]) => handle # "none"
       /\ flush.by # Nothing => handle # "none"
  <2>1. \A t \in Threads : AtFile(thr[t]) => handle # "none"
    BY DEF FileInv
  <2>2. flush.by # Nothing => flush.by \in Threads /\ AtFile(thr[flush.by])
    BY <1>0 DEF FlushInv, FlushStates
  <2> QED BY <2>1, <2>2
<1>1. ASSUME UNCHANGED <<log, durable, handle>>,
             flush' = flush \/ flush'.by = Nothing,
             \A t \in Threads : AtFile(thr'[t]) => AtFile(thr[t])
      PROVE  FileInv'
  BY <1>1 DEF FileInv
<1>2. CASE SyncAll \/ Marks \/ Snapshot \/ Rewrite \/ CompactFails \/ DropSlot \/ UNCHANGED vars
  <2>1. thr' = thr /\ flush' = flush /\ log' = log /\ handle' = handle /\ durable' \in {durable, Len(log)}
    BY <1>2 DEF SyncAll, Marks, Snapshot, Rewrite, CompactFails, DropSlot, vars, memory, disk
  <2> QED BY <2>1, <1>0 DEF FileInv
<1>3. CASE Swap
  <2>1. PICK tail \in Tails : log' = NewLog(tail) /\ durable' = Len(NewLog(tail))
    BY <1>3 DEF Swap
  <2>2. NewLog(tail) \in Seq(Entries)
    BY <1>3, NewLogType DEF Swap
  <2>3. Len(log') \in Nat /\ durable' <= Len(log')
    <3> HIDE DEF AtFile
    <3> QED BY <2>1, <2>2, LenProperties
  <2>4. /\ thr' = thr /\ handle' = (IF handle = "none" THEN "none" ELSE "path")
        /\ flush'.by = flush.by /\ flush'.swapped = (flush.by # Nothing /\ handle # "none")
    BY <1>3, <1>0 DEF Swap, memory, FlushStates
  <2> QED BY <2>3, <2>4, <1>01 DEF FileInv
<1>4. ASSUME NEW t \in Threads, NEW m \in Messages, BeginEnqueue(t, m) \/ Deliver(t, m) \/ Ack(t, m)
      PROVE  FileInv'
  <2>1. UNCHANGED <<log, durable, handle>> /\ flush' = flush
    BY <1>4 DEF BeginEnqueue, Deliver, Ack, disk
  <2>2. \A u \in Threads \ {t} : thr'[u] = thr[u]
    BY <1>4 DEF BeginEnqueue, Deliver, Ack, TypeInv
  <2>3. thr'[t].pc = "open"
    BY <1>4, IdleOK DEF BeginEnqueue, Deliver, Ack, TypeInv, Idle
  <2> QED BY <2>1, <2>2, <2>3, <1>1
<1>5. ASSUME NEW t \in Threads, NEW ms \in SUBSET Messages, BeginAbsorb(t, ms) PROVE FileInv'
  <2>1. UNCHANGED <<log, durable, handle>> /\ flush' = flush
    BY <1>5 DEF BeginAbsorb, disk
  <2>2. \A u \in Threads \ {t} : thr'[u] = thr[u]
    BY <1>5 DEF BeginAbsorb, TypeInv
  <2>3. thr'[t].pc = "open"
    BY <1>5, IdleOK DEF BeginAbsorb, TypeInv, Idle
  <2> QED BY <2>1, <2>2, <2>3, <1>1
<1>6. ASSUME NEW t \in Threads, Open(t) PROVE FileInv'
  <2>1. UNCHANGED <<log, durable>> /\ handle' = (IF handle = "none" THEN "path" ELSE handle) /\ flush' = flush
    BY <1>6 DEF Open, disk
  <2>2. handle' # "none"
    BY <2>1
  <2> QED BY <2>1, <2>2, <1>01 DEF FileInv
<1>7. ASSUME NEW t \in Threads, Write(t) PROVE FileInv'
  <2>1. durable' = durable /\ handle' = handle /\ flush' = flush /\ thr[t].pc = "write"
    BY <1>7 DEF Write
  <2>2. Len(log') \in Nat /\ Len(log') >= Len(log) /\ (handle # "path" => log' = log)
    BY <1>7, WriteLog
  <2>3. \A u \in Threads : AtFile(thr'[u]) => AtFile(thr[u])
    <3>1. CASE NeedsFlush(t)
      BY <1>7, <3>1 DEF Write, TypeInv, ThreadStates
    <3>2. CASE ~ NeedsFlush(t)
      <4>1. Return(t, TRUE) /\ thr[t].m \in Messages
        BY <1>7, <3>2, WriteLog DEF Write
      <4> QED BY <4>1, ReturnMoves
    <3> QED BY <3>1, <3>2
  <2> QED BY <2>1, <2>2, <2>3, <1>0 DEF FileInv
<1>8. ASSUME NEW t \in Threads, WriteShort(t) PROVE FileInv'
  <2>1. durable' = durable /\ handle' = handle /\ flush' = flush /\ handle = "path" /\ Return(t, FALSE)
    BY <1>8 DEF WriteShort, Sound
  <2>2. Len(log') = Len(log) + 1 /\ thr[t].m \in Messages
    BY <1>8, WriteShortLog
  <2>3. \A u \in Threads : AtFile(thr'[u]) => AtFile(thr[u])
    BY <2>1, <2>2, ReturnMoves
  <2> QED BY <2>1, <2>2, <2>3, <1>0 DEF FileInv
<1>9. ASSUME NEW t \in Threads, BeginFlush(t) PROVE FileInv'
  <2>1. UNCHANGED <<log, durable, handle>> /\ flush'.upto = Len(log)
    BY <1>9, <1>0 DEF BeginFlush, FlushStates, disk
  <2>2. \A u \in Threads : AtFile(thr'[u]) => AtFile(thr[u])
    BY <1>9, <1>0 DEF BeginFlush, TypeInv, ThreadStates
  <2> QED BY <2>1, <2>2, <1>0 DEF FileInv
<1>10. ASSUME NEW t \in Threads, EndFlush(t) PROVE FileInv'
  <2>1. PICK ok \in BOOLEAN : /\ flush' = Flushed(t, ok) /\ Return(t, ok)
       /\ durable' = (IF ok /\ ~flush.swapped /\ handle = "path" /\ flush.upto > durable
                     THEN flush.upto ELSE durable)
       /\ log' = log /\ handle' = handle
    BY <1>10 DEF EndFlush
  <2>2. thr[t].pc = "flush" /\ thr[t].m \in Messages
    BY <1>10 DEF EndFlush, TypeInv, ThreadOK
  <2>3. \A u \in Threads : AtFile(thr'[u]) => AtFile(thr[u])
    BY <2>1, <2>2, ReturnMoves
  <2>4. flush'.by = Nothing
    BY <2>1 DEF Flushed, NoFlush
  <2>5. flush.by = t
    BY <2>2 DEF FlushInv
  <2>6. durable' <= Len(log)
    BY <2>1, <2>5, <1>0, WalAssumption DEF FileInv
  <2> QED BY <2>1, <2>3, <2>4, <2>6 DEF FileInv
<1>11. ASSUME NEW t \in Threads, Wake(t) PROVE FileInv'
  <2>1. UNCHANGED <<log, durable, handle>> /\ Return(t, ~ flush.err) /\ (~ flush.err) \in BOOLEAN
        /\ thr[t].m \in Messages
    BY <1>11 DEF Wake, disk, TypeInv, ThreadOK
  <2>2. \A u \in Threads : AtFile(thr'[u]) => AtFile(thr[u])
    BY <2>1, ReturnMoves
  <2>3. flush'.by = flush.by /\ flush'.upto = flush.upto /\ flush'.swapped = flush.swapped
    BY <1>11, <1>0 DEF Wake, FlushStates
  <2> QED BY <2>1, <2>2, <2>3 DEF FileInv
<1>12. ASSUME NEW t \in Threads, ReturnDropped(t) PROVE FileInv'
  <2>1. /\ UNCHANGED <<log, durable, handle>> /\ thr[t].m \in Messages /\ flush' = flush
        /\ \E ok \in BOOLEAN : Return(t, ok)
    BY <1>12 DEF ReturnDropped, disk, TypeInv, ThreadOK
  <2>2. \A u \in Threads : AtFile(thr'[u]) => AtFile(thr[u])
    BY <2>1, ReturnMoves
  <2> QED BY <2>1, <2>2, <1>1
<1>13. ASSUME NEW t \in Threads, Publish(t) PROVE FileInv'
  <2>1. UNCHANGED <<log, durable, handle>> /\ flush' = flush /\ thr' = [thr EXCEPT ![t] = Idle]
    BY <1>13 DEF Publish, disk
  <2>2. \A u \in Threads : AtFile(thr'[u]) => AtFile(thr[u])
    BY <2>1, <1>0, IdleFields DEF TypeInv
  <2> QED BY <2>1, <2>2, <1>1
<1>14. CASE CloseFile
  <2>1. /\ handle' = "none" /\ log' = log /\ flush' = NoFlush
        /\ \A t \in Threads : ~ AtFile(thr'[t])
    BY <1>14, <1>0 DEF CloseFile, ThreadStates
  <2>2. durable' <= Len(log)
    <3>1. durable' = durable \/ (flush.by # Nothing /\ ~ flush.swapped /\ handle = "path" /\ durable' = flush.upto)
      BY <1>14 DEF CloseFile
    <3> QED BY <3>1 DEF FileInv
  <2>3. flush'.by = Nothing
    BY <2>1 DEF NoFlush
  <2> QED BY <2>1, <2>2, <2>3 DEF FileInv
<1>15. CASE RemoveFile
  <2>1. /\ log' = <<>> /\ Len(<<>>) = 0 /\ durable' = 0 /\ thr' = thr /\ flush' = flush
        /\ handle' = IF handle = "path" THEN "unlinked" ELSE handle
    BY <1>15, EmptySeq DEF RemoveFile
  <2> QED BY <2>1, <1>0 DEF FileInv, TypeInv
<1>16. ASSUME flush' = NoFlush, \A t \in Threads : thr'[t] = Idle, handle' = "none", durable' <= Len(log')
       PROVE  FileInv'
  BY <1>16, IdleFields DEF FileInv, NoFlush
<1>17. CASE ProcessDies
  <2>1. /\ flush' = NoFlush /\ (\A t \in Threads : thr'[t] = Idle) /\ handle' = "none" /\ durable' = durable
        /\ log' = log \/ log' = Append(log, Torn)
    BY <1>17 DEF ProcessDies, Stop
  <2>2. Len(Append(log, Torn)) = Len(log) + 1
    BY <1>0, TornEntry, WholeAppend
  <2>3. durable' <= Len(log')
    BY <2>1, <2>2, <1>0 DEF FileInv
  <2> QED BY <2>1, <2>3, <1>16
<1>18. CASE PowerLost
  <2>1. PICK k \in durable..Len(log) :
       \/ Stop(SubSeq(log, 1, k)) /\ durable' = k
       \/ k < Len(log) /\ Stop(Append(SubSeq(log, 1, k), Torn)) /\ durable' = k + 1
    BY <1>18 DEF PowerLost
  <2>2. k \in 0..Len(log) /\ k \in Nat
    BY <1>0
  <2>3. Len(SubSeq(log, 1, k)) = k /\ Len(Append(SubSeq(log, 1, k), Torn)) = k + 1
    BY <2>2, <1>0, WholePrefix, WholeAppend, TornEntry
  <2>4. durable' <= Len(log')
    BY <2>1, <2>2, <2>3 DEF Stop
  <2>5. flush' = NoFlush /\ (\A t \in Threads : thr'[t] = Idle) /\ handle' = "none"
    BY <2>1 DEF Stop
  <2> QED BY <2>4, <2>5, <1>16
<1>19. CASE Recover
  <2>1. /\ flush' = NoFlush /\ (\A t \in Threads : thr'[t] = Idle) /\ handle' = "none"
    BY <1>19 DEF Recover, DownInv
  <2>2. log' = Readable(log) /\ Len(log') \in Nat
        /\ durable' = IF durable > Len(log') THEN Len(log') ELSE durable
    BY <1>0, <1>19, WholeReadable, LenProperties DEF Recover
  <2>3. durable' <= Len(log')
    BY <2>2, <1>0
  <2> QED BY <2>1, <2>3, <1>16
<1> QED BY <1>2, <1>3, <1>4, <1>5, <1>6, <1>7, <1>8, <1>9, <1>10, <1>11, <1>12, <1>13, <1>14,
           <1>15, <1>17, <1>18, <1>19 DEF Next, Step

(* A process that is down stays as it is until it recovers. *)
LEMMA NextDown == BaseInv /\ [Next]_vars => DownInv'
<1> SUFFICES ASSUME BaseInv, [Next]_vars PROVE DownInv'
  OBVIOUS
<1> USE DEF BaseInv
<1>1. CASE up'
  BY <1>1 DEF DownInv
<1>2. CASE ProcessDies \/ PowerLost
  BY <1>2 DEF ProcessDies, PowerLost, Stop, DownInv
<1>3. CASE UNCHANGED vars
  BY <1>3 DEF vars, DownInv
<1>4. CASE Recover
  BY <1>4 DEF Recover, DownInv
<1>5. CASE up
  <2>1. ASSUME NEW t \in Threads,
               \/ \E m \in Messages : BeginEnqueue(t, m) \/ Deliver(t, m) \/ Ack(t, m)
               \/ \E ms \in SUBSET Messages : BeginAbsorb(t, ms)
        PROVE  up' = up
    BY <2>1 DEF BeginEnqueue, Deliver, Ack, BeginAbsorb
  <2>2. ASSUME NEW t \in Threads, Step(t) \/ WriteShort(t) PROVE up' = up
    <3>1. CASE Open(t) \/ BeginFlush(t) \/ EndFlush(t)
      BY <3>1 DEF Open, BeginFlush, EndFlush
    <3>2. CASE Write(t)
      BY <3>2 DEF Write
    <3>3. CASE Wake(t) \/ ReturnDropped(t) \/ Publish(t) \/ WriteShort(t)
      BY <3>3 DEF Wake, ReturnDropped, Publish, WriteShort
    <3> QED BY <2>2, <3>1, <3>2, <3>3 DEF Step
  <2>3. ASSUME SyncAll \/ Marks \/ Snapshot \/ Rewrite \/ Swap \/ CompactFails \/ DropSlot \/ CloseFile
               \/ RemoveFile
        PROVE  up' = up
    BY <2>3 DEF SyncAll, Marks, Snapshot, Rewrite, Swap, CompactFails, DropSlot, CloseFile, RemoveFile
  <2>4. Recover => up'
    BY DEF Recover
  <2>5. up' \/ ProcessDies \/ PowerLost \/ UNCHANGED vars
    BY <2>1, <2>2, <2>3, <2>4, <1>5 DEF Next
  <2> QED BY <2>5, <1>1, <1>2, <1>3
<1>6. CASE ~ up
  <2>1. /\ \A t \in Threads : thr[t].pc = "idle"
        /\ comp.pc = "idle" /\ drop = "idle"
    BY <1>6, IdleFields DEF DownInv, NoComp
  <2>2. Recover \/ UNCHANGED vars
    BY <1>6, <2>1
    DEF Next, Step, BeginEnqueue, Deliver, Ack, BeginAbsorb, Open, Write, BeginFlush, EndFlush,
           Wake, ReturnDropped, Publish, WriteShort, SyncAll, Marks, Snapshot, Rewrite, Swap,
           CompactFails, DropSlot, CloseFile, RemoveFile, Free, MayBegin, ProcessDies, PowerLost, Stop
  <2> QED BY <2>2, <1>3, <1>4
<1> QED BY <1>5, <1>6

(* The structural invariants together are inductive. *)
LEMMA NextBase == BaseInv /\ [Next]_vars => BaseInv'
<1> SUFFICES ASSUME BaseInv, [Next]_vars PROVE BaseInv'
  OBVIOUS
<1>1. TypeInv' /\ CompInv' /\ LockInv' /\ FlushInv'
  BY NextType, NextComp, NextLock, NextFlush DEF BaseInv, FlushInv
<1>2. FileInv' /\ DownInv'
  BY <1>1, NextFile, NextDown
<1> QED BY <1>1, <1>2 DEF BaseInv

(* They hold in every reachable state. *)
LEMMA BaseAlways == Spec => []BaseInv
BY InitBase, NextBase, PTL DEF Spec

(* What the run checks as TypeOK, for any goroutines, messages, modes and  *)
(* bounds.                                                                 *)
THEOREM WalTypeCorrect == Spec => []TypeOK
<1>1. BaseInv => TypeOK
  <2> SUFFICES ASSUME BaseInv PROVE TypeOK
    OBVIOUS
  <2> USE DEF BaseInv
  <2>1. Entries \subseteq Records
    BY WalAssumption DEF Entries, Records
  <2>2. log \in Seq(Records) /\ durable \in 0..Len(log)
    BY <2>1, SeqMonotonic, LenProperties DEF TypeInv, FileInv
  <2>3. smu = Nothing \/ (smu \in Threads /\ thr[smu].op = "enqueue")
    BY DEF TypeInv, LockInv
  <2>4. \A t \in Threads :
       /\ thr[t].pc \in {"idle", "open", "write", "sync", "flush", "publish", "failed", "cut"}
       /\ thr[t].op \in {"none", "enqueue", "absorb", "attempt", "terminal"}
       /\ thr[t].todo \cup thr[t].got \subseteq Messages
    BY DEF TypeInv, ThreadStates
  <2>5. flush.by \in Threads \cup {Nothing} /\ flush.synced \cup flush.covers \subseteq Threads
        /\ comp.pc \in {"idle", "snapshot", "rewrite", "swap"}
    BY DEF TypeInv, FlushStates, CompStates
  <2> QED BY <2>2, <2>3, <2>4, <2>5 DEF TypeOK, TypeInv, Fates
<1> QED BY <1>1, BaseAlways, PTL

(* What the run checks as CommitGoesOn: syncThrough never leaves a waiter  *)
(* that nobody covers and that nobody will flush for.                      *)
THEOREM GroupCommitGoesOn == Spec => []CommitGoesOn
<1>1. BaseInv => CommitGoesOn
  BY DEF BaseInv, FlushInv, CommitGoesOn, TypeInv, FlushStates
<1> QED BY <1>1, BaseAlways, PTL

(* What a goroutine is bringing in, and what of it is in the log. *)
ComingOf(th) == IF th.op \in Bringing THEN ({th.m} \cup th.todo \cup th.got) \ {0} ELSE {}
WrittenOf(th) ==
  th.got \cup (IF th.op \in Bringing /\ th.pc \in {"sync", "flush", "cut"} THEN {th.m} ELSE {})
Written(t) == WrittenOf(thr[t])

(* Coming, as a goroutine's own state shows it. *)
LEMMA ComingIs == \A t : Coming(t) = ComingOf(thr[t])
BY DEF Coming, ComingOf, Bringing

(* How what is coming, what is written and where a goroutine is hang       *)
(* together.                                                               *)
LEMMA Views ==
  ASSUME NEW th \in ThreadStates, ThreadOK(th)
  PROVE  /\ ComingOf(th) \subseteq Messages /\ WrittenOf(th) \subseteq ComingOf(th)
         /\ th.got \subseteq WrittenOf(th)
         /\ th.op \in Bringing /\ th.pc # "publish" => th.m \in ComingOf(th)
         /\ th.op \in Bringing /\ th.pc \in {"sync", "flush", "cut"} => th.m \in WrittenOf(th)
         /\ th.pc = "publish" => ComingOf(th) = th.got /\ WrittenOf(th) = th.got
         /\ th.op \notin Bringing => ComingOf(th) = {} /\ WrittenOf(th) = {}
<1>1. 0 \notin Messages
  BY WalAssumption
<1>2. th.todo \in SUBSET Messages /\ th.got \in SUBSET Messages /\ th.m \in Messages \cup {0}
  BY DEF ThreadStates
<1>3. th.op \notin Bringing => th.got = {}
  BY DEF ThreadOK, Bringing
<1>4. th.op \in Bringing /\ th.pc # "publish" => th.m \in Messages
  BY IdleFields DEF ThreadOK, Bringing
<1>5. th.pc = "publish" => th.op \in Bringing /\ th.m = 0 /\ th.todo = {}
  BY DEF ThreadOK, Bringing
<1> QED BY <1>1, <1>2, <1>3, <1>4, <1>5 DEF ComingOf, WrittenOf

(* Who is free brings nothing in. *)
LEMMA IdleView == ComingOf(Idle) = {} /\ WrittenOf(Idle) = {}
BY IdleFields DEF ComingOf, WrittenOf, Bringing

(* A goroutine that is only elsewhere in the code. *)
Elsewhere(th, x) ==
  x.op = th.op /\ x.m = th.m /\ x.todo = th.todo /\ x.got = th.got /\ x.n = th.n

(* Going elsewhere in the code changes what is written, not what is        *)
(* coming.                                                                 *)
LEMMA ElsewhereView ==
  ASSUME NEW th, NEW x, Elsewhere(th, x)
  PROVE  /\ ComingOf(x) = ComingOf(th)
         /\ WrittenOf(x) = th.got \cup (IF th.op \in Bringing /\ x.pc \in {"sync", "flush", "cut"}
                                        THEN {th.m} ELSE {})
BY DEF Elsewhere, ComingOf, WrittenOf

Others(t) == \A u \in Threads \ {t} : thr'[u] = thr[u]

(* How an append ends: an absorb goes on with one message more behind it,  *)
(* an enqueue has brought its message to memory, or the goroutine is free. *)
LEMMA ReturnView ==
  ASSUME TypeInv, NEW t \in Threads, NEW ok \in BOOLEAN, Return(t, ok), thr[t].m \in Messages
  PROVE  /\ Others(t)
         /\ \/ /\ thr[t].op = "absorb" /\ ok /\ mem' = mem
               /\ thr'[t].op = "absorb" /\ thr'[t].pc \in {"open", "publish"}
               /\ thr'[t].got = thr[t].got \cup {thr[t].m}
               /\ ComingOf(thr'[t]) = ComingOf(thr[t])
               /\ WrittenOf(thr'[t]) = thr[t].got \cup {thr[t].m}
            \/ /\ thr[t].op = "enqueue" /\ ok /\ mem' = mem \cup {thr[t].m}
               /\ thr'[t] = Idle
            \/ /\ thr[t].op \in Bringing => ~ ok
               /\ mem' = mem /\ thr'[t] = Idle
<1>1. PICK x : /\ Goes(thr[t], ok, x)
               /\ thr' = [thr EXCEPT ![t] = x]
               /\ mem' = IF thr[t].op = "enqueue" /\ ok THEN mem \cup {thr[t].m} ELSE mem
  BY ReturnGoes
<1>2. thr[t] \in ThreadStates /\ ThreadOK(thr[t])
  BY DEF TypeInv
<1>3. /\ x \in ThreadStates /\ ThreadOK(x) /\ x.pc \in {"idle", "publish", "open"}
      /\ thr[t].op = "enqueue" => x = Idle
      /\ x # Idle => /\ thr[t].op = "absorb" /\ x.op = "absorb"
                     /\ x.got = thr[t].got \cup {thr[t].m}
                     /\ {x.m} \cup x.todo \cup x.got = {x.m, thr[t].m} \cup thr[t].todo \cup thr[t].got
                     /\ x.m \in thr[t].todo \cup {0}
  BY <1>1, <1>2, GoesOK
<1>4. thr'[t] = x /\ Others(t)
  BY <1>1 DEF TypeInv, Others
<1>5. CASE x # Idle
  <2>1. x.pc # "idle"
    BY <1>3, <1>5 DEF ThreadOK
  <2>2. ok
    BY <1>1, <1>5 DEF Goes
  <2>3. ComingOf(x) = ComingOf(thr[t])
    BY <1>3, <1>5, WalAssumption DEF ComingOf, Bringing
  <2>4. WrittenOf(x) = thr[t].got \cup {thr[t].m}
    BY <1>3, <1>5 DEF WrittenOf
  <2>5. thr[t].op = "absorb" /\ mem' = mem
    BY <1>1, <1>3, <1>5
  <2> QED BY <1>3, <1>4, <1>5, <2>1, <2>2, <2>3, <2>4, <2>5
<1>6. CASE x = Idle
  <2>1. thr[t].op = "absorb" => ~ ok
    <3> DEFINE got == thr[t].got \cup {thr[t].m}
    <3>1. ASSUME x = [thr[t] EXCEPT !.pc = "publish", !.m = 0, !.got = got] PROVE FALSE
      <4>1. x.pc = "publish"
        BY <1>2, <3>1 DEF ThreadStates
      <4> QED BY <4>1, <1>6, IdleFields
    <3>2. ASSUME NEW y, x = [thr[t] EXCEPT !.pc = "open", !.m = y, !.got = got, !.todo = thr[t].todo \ {y}]
          PROVE  FALSE
      <4>1. x.pc = "open"
        BY <1>2, <3>2 DEF ThreadStates
      <4> QED BY <4>1, <1>6, IdleFields
    <3> QED BY <3>1, <3>2, <1>1 DEF Goes
  <2> QED BY <2>1, <1>1, <1>4, <1>6 DEF Bringing
<1> QED BY <1>5, <1>6

(* The goroutines of a step. *)
LEMMA BeginView ==
  ASSUME TypeInv, NEW t \in Threads
  PROVE  /\ \A m \in Messages : BeginEnqueue(t, m) =>
              /\ Others(t) /\ thr[t] = Idle /\ thr'[t].op = "enqueue" /\ thr'[t].m = m
              /\ ComingOf(thr'[t]) = {m} /\ WrittenOf(thr'[t]) = {} /\ thr'[t].got = {}
              /\ thr'[t].pc = "open"
         /\ \A m \in Messages : Deliver(t, m) =>
              /\ Others(t) /\ thr[t] = Idle /\ thr'[t].op = "attempt" /\ thr'[t].m = m
              /\ ComingOf(thr'[t]) = {} /\ WrittenOf(thr'[t]) = {} /\ thr'[t].got = {}
              /\ thr'[t].pc = "open" /\ thr'[t].n = att[m] + 1
         /\ \A m \in Messages : Ack(t, m) =>
              /\ Others(t) /\ thr[t] = Idle /\ thr'[t].op = "terminal" /\ thr'[t].m = m
              /\ ComingOf(thr'[t]) = {} /\ WrittenOf(thr'[t]) = {} /\ thr'[t].got = {}
              /\ thr'[t].pc = "open"
         /\ \A ms \in SUBSET Messages : BeginAbsorb(t, ms) =>
              /\ Others(t) /\ thr[t] = Idle /\ thr'[t].op = "absorb" /\ thr'[t].m \in ms
              /\ ComingOf(thr'[t]) = ms /\ WrittenOf(thr'[t]) = {} /\ thr'[t].got = {}
              /\ thr'[t].pc = "open"
<1>1. ASSUME NEW m \in Messages, BeginEnqueue(t, m)
      PROVE  /\ Others(t) /\ thr[t] = Idle /\ thr'[t].op = "enqueue" /\ thr'[t].m = m
             /\ ComingOf(thr'[t]) = {m} /\ WrittenOf(thr'[t]) = {} /\ thr'[t].got = {}
             /\ thr'[t].pc = "open"
  <2> DEFINE x == [Idle EXCEPT !.pc = "open", !.op = "enqueue", !.m = m]
  <2>1. x.op = "enqueue" /\ x.m = m /\ x.pc = "open" /\ x.got = {} /\ x.todo = {}
    BY DEF Idle
  <2>2. thr'[t] = x /\ thr[t] = Idle /\ Others(t)
    BY <1>1 DEF BeginEnqueue, Free, TypeInv, Others
  <2> HIDE DEF x
  <2> QED BY <2>1, <2>2, WalAssumption DEF ComingOf, WrittenOf, Bringing
<1>2. ASSUME NEW m \in Messages, Deliver(t, m)
      PROVE  /\ Others(t) /\ thr[t] = Idle /\ thr'[t].op = "attempt" /\ thr'[t].m = m
             /\ ComingOf(thr'[t]) = {} /\ WrittenOf(thr'[t]) = {} /\ thr'[t].got = {}
             /\ thr'[t].pc = "open" /\ thr'[t].n = att[m] + 1
  <2> DEFINE x == [Idle EXCEPT !.pc = "open", !.op = "attempt", !.m = m, !.n = att[m] + 1]
  <2>1. x.op = "attempt" /\ x.m = m /\ x.pc = "open" /\ x.got = {} /\ x.n = att[m] + 1
    BY DEF Idle
  <2>2. thr'[t] = x /\ thr[t] = Idle /\ Others(t)
    BY <1>2 DEF Deliver, Free, TypeInv, Others
  <2> HIDE DEF x
  <2> QED BY <2>1, <2>2 DEF ComingOf, WrittenOf, Bringing
<1>3. ASSUME NEW m \in Messages, Ack(t, m)
      PROVE  /\ Others(t) /\ thr[t] = Idle /\ thr'[t].op = "terminal" /\ thr'[t].m = m
             /\ ComingOf(thr'[t]) = {} /\ WrittenOf(thr'[t]) = {} /\ thr'[t].got = {}
             /\ thr'[t].pc = "open"
  <2> DEFINE x == [Idle EXCEPT !.pc = "open", !.op = "terminal", !.m = m]
  <2>1. x.op = "terminal" /\ x.m = m /\ x.pc = "open" /\ x.got = {}
    BY DEF Idle
  <2>2. thr'[t] = x /\ thr[t] = Idle /\ Others(t)
    BY <1>3 DEF Ack, Free, TypeInv, Others
  <2> HIDE DEF x
  <2> QED BY <2>1, <2>2 DEF ComingOf, WrittenOf, Bringing
<1>4. ASSUME NEW ms \in SUBSET Messages, BeginAbsorb(t, ms)
      PROVE  /\ Others(t) /\ thr[t] = Idle /\ thr'[t].op = "absorb" /\ thr'[t].m \in ms
             /\ ComingOf(thr'[t]) = ms /\ WrittenOf(thr'[t]) = {} /\ thr'[t].got = {}
             /\ thr'[t].pc = "open"
  <2>1. PICK m \in ms : thr' = [thr EXCEPT ![t] = [Idle EXCEPT !.pc = "open", !.op = "absorb",
                                                              !.m = m, !.todo = ms \ {m}]]
    BY <1>4 DEF BeginAbsorb
  <2> DEFINE x == [Idle EXCEPT !.pc = "open", !.op = "absorb", !.m = m, !.todo = ms \ {m}]
  <2>2. x.pc = "open" /\ x.op = "absorb" /\ x.m = m /\ x.todo = ms \ {m} /\ x.got = {}
    BY DEF Idle
  <2>3. thr'[t] = x /\ thr[t] = Idle /\ Others(t)
    BY <2>1, <1>4 DEF BeginAbsorb, Free, TypeInv, Others
  <2> HIDE DEF x
  <2> QED BY <2>1, <2>2, <2>3, WalAssumption DEF ComingOf, WrittenOf, Bringing
<1> QED BY <1>1, <1>2, <1>3, <1>4

(* The goroutine of a step that is not the end of an append. *)
LEMMA GoView ==
  ASSUME TypeInv, NEW t \in Threads
  PROVE  /\ Open(t) => Others(t) /\ Elsewhere(thr[t], thr'[t]) /\ thr[t].pc = "open" /\ thr'[t].pc = "write"
         /\ Write(t) /\ NeedsFlush(t) =>
              Others(t) /\ Elsewhere(thr[t], thr'[t]) /\ thr[t].pc = "write" /\ thr'[t].pc = "sync"
         /\ BeginFlush(t) =>
              Others(t) /\ Elsewhere(thr[t], thr'[t]) /\ thr[t].pc = "sync" /\ thr'[t].pc = "flush"
         /\ Publish(t) => Others(t) /\ thr[t].pc = "publish" /\ thr'[t] = Idle
<1>0. thr[t] \in ThreadStates
  BY DEF TypeInv
<1>1. ASSUME Open(t)
      PROVE  Others(t) /\ Elsewhere(thr[t], thr'[t]) /\ thr[t].pc = "open" /\ thr'[t].pc = "write"
  BY <1>0, <1>1 DEF Open, TypeInv, Others, Elsewhere, ThreadStates
<1>2. ASSUME Write(t), NeedsFlush(t)
      PROVE  Others(t) /\ Elsewhere(thr[t], thr'[t]) /\ thr[t].pc = "write" /\ thr'[t].pc = "sync"
  BY <1>0, <1>2 DEF Write, TypeInv, Others, Elsewhere, ThreadStates
<1>3. ASSUME BeginFlush(t)
      PROVE  Others(t) /\ Elsewhere(thr[t], thr'[t]) /\ thr[t].pc = "sync" /\ thr'[t].pc = "flush"
  BY <1>0, <1>3 DEF BeginFlush, TypeInv, Others, Elsewhere, ThreadStates
<1>4. ASSUME Publish(t)
      PROVE  Others(t) /\ thr[t].pc = "publish" /\ thr'[t] = Idle
  BY <1>0, <1>4 DEF Publish, TypeInv, Others
<1> QED BY <1>1, <1>2, <1>3, <1>4

(* A flush that ends, and what waited for one: the record is written. *)
LEMMA EndView ==
  ASSUME TypeInv, WaitInv, NEW t \in Threads, EndFlush(t) \/ Wake(t) \/ ReturnDropped(t)
  PROVE  /\ thr[t].m \in Messages
         /\ \E ok \in BOOLEAN : /\ Return(t, ok) /\ fate' = Told(t, ok, fate)
                                /\ ok => thr[t].pc \in {"sync", "flush", "cut"}
         /\ thr[t].pc \in {"sync", "flush", "cut", "failed"}
         /\ UNCHANGED <<log, att, comp, drop, sync, up, exposed, ghosts, again>>
<1>1. thr[t].pc \in {"sync", "flush", "cut", "failed"}
  BY DEF EndFlush, Wake, ReturnDropped
<1>2. thr[t].m \in Messages
  BY <1>1 DEF TypeInv, ThreadOK
<1>3. CASE EndFlush(t)
  BY <1>1, <1>2, <1>3 DEF EndFlush
<1>4. CASE Wake(t)
  <2>1. (~ flush.err) \in BOOLEAN
    OBVIOUS
  <2> QED BY <1>1, <1>2, <1>4, <2>1 DEF Wake, disk
<1>5. CASE ReturnDropped(t)
  <2>1. CASE thr[t].pc = "failed" /\ Return(t, FALSE) /\ fate' = fate
    BY <1>1, <1>2, <1>5, <2>1 DEF ReturnDropped, disk, Told
  <2>2. CASE thr[t].pc = "cut" /\ Return(t, TRUE) /\ fate' = Told(t, TRUE, fate)
    BY <1>1, <1>2, <1>5, <2>2 DEF ReturnDropped, disk
  <2>3. CASE thr[t].pc = "cut" /\ Return(t, FALSE) /\ fate' = fate
    BY <1>1, <1>2, <1>5, <2>3 DEF ReturnDropped, disk, Told
  <2> QED BY <1>5, <2>1, <2>2, <2>3 DEF ReturnDropped
<1> QED BY <1>3, <1>4, <1>5

(* A file that is closed leaves every goroutine with what it had. *)
LEMMA CloseView ==
  ASSUME TypeInv, WaitInv, CloseFile
  PROVE  /\ \A t \in Threads : /\ Elsewhere(thr[t], thr'[t])
                               /\ WrittenOf(thr'[t]) \subseteq WrittenOf(thr[t])
         /\ UNCHANGED <<log, mem, att, comp, sync, up, fate, exposed, ghosts, behind, again>>
<1>1. PICK flushed \in BOOLEAN :
       LET safe == flush.synced \cup (IF flushed THEN flush.covers ELSE {})
       IN thr' = [t \in Threads |->
               IF thr[t].pc \in {"write", "sync", "flush"}
               THEN [thr[t] EXCEPT !.pc = IF t \in safe THEN "cut" ELSE "failed"]
               ELSE thr[t]]
  BY DEF CloseFile
<1>2. ASSUME NEW t \in Threads
      PROVE  /\ Elsewhere(thr[t], thr'[t])
             /\ WrittenOf(thr'[t]) \subseteq WrittenOf(thr[t])
  <2>0. thr[t] \in ThreadStates
    BY DEF TypeInv
  <2>1. CASE thr[t].pc \in {"write", "sync", "flush"}
    <3>1. PICK p \in {"cut", "failed"} :
              /\ thr'[t] = [thr[t] EXCEPT !.pc = p]
              /\ p = "cut" => t \in flush.synced \cup flush.covers
      BY <1>1, <2>1
    <3>2. Elsewhere(thr[t], thr'[t]) /\ thr'[t].pc = p
      BY <3>1, <2>0 DEF Elsewhere, ThreadStates
    <3>3. thr'[t].pc = "cut" => thr[t].pc \in {"sync", "flush"}
      BY <3>1, <3>2 DEF WaitInv
    <3>4. WrittenOf(thr'[t]) \subseteq WrittenOf(thr[t])
      BY <3>1, <3>2, <3>3, ElsewhereView DEF WrittenOf
    <3> QED BY <3>2, <3>4
  <2>2. CASE ~ (thr[t].pc \in {"write", "sync", "flush"})
    BY <1>1, <2>2 DEF Elsewhere
  <2> QED BY <2>1, <2>2
<1> QED BY <1>2 DEF CloseFile, memory, history

(* Who has a message: memory, or one goroutine that brings it in; and what *)
(* its callers know then. *)
ApartInv ==
  /\ \A t \in Threads : mem \cap ComingOf(thr[t]) = {}
  /\ \A t, u \in Threads : t # u => ComingOf(thr[t]) \cap ComingOf(thr[u]) = {}
  /\ \A m \in mem : fate[m] \in {"here", "back"}
  /\ up => \A m \in Messages : fate[m] = "here" => m \in mem
  /\ \A t \in Threads : \A m \in ComingOf(thr[t]) : fate[m] \in {"new", "coming", "away", "done"}
  /\ \A t \in Threads : \A m \in WrittenOf(thr[t]) : fate[m] = "coming"
  /\ \A t \in Threads : thr[t].op = "terminal" => thr[t].m \in Messages /\ fate[thr[t].m] = "acked"
  /\ \A t, u \in Threads : t # u /\ thr[t].op = "terminal" /\ thr[u].op = "terminal"
                           => thr[t].m # thr[u].m

(* The same for all goroutines together. *)
LEMMA AllComingIs == AllComing = UNION {ComingOf(thr[t]) : t \in Threads}
BY ComingIs DEF AllComing

(* At the start nobody has anything. *)
LEMMA InitApart == Init => ApartInv
BY IdleView, IdleFields DEF Init, ApartInv

(* Nobody changes what he is bringing in or has written. *)
LEMMA ApartSame ==
  ASSUME ApartInv, UNCHANGED <<mem, fate, up>>,
         \A t \in Threads : /\ ComingOf(thr'[t]) = ComingOf(thr[t])
                            /\ WrittenOf(thr'[t]) \subseteq WrittenOf(thr[t])
                            /\ thr'[t].op = thr[t].op /\ thr'[t].m = thr[t].m
  PROVE  ApartInv'
BY DEF ApartInv

(* A goroutine that only goes elsewhere keeps messages apart. *)
LEMMA ApartElsewhere ==
  ASSUME ApartInv, NEW t \in Threads, Others(t), Elsewhere(thr[t], thr'[t]),
         WrittenOf(thr'[t]) \subseteq WrittenOf(thr[t]), UNCHANGED <<mem, fate, up>>
  PROVE  ApartInv'
<1>1. ComingOf(thr'[t]) = ComingOf(thr[t]) /\ thr'[t].op = thr[t].op /\ thr'[t].m = thr[t].m
  BY ElsewhereView DEF Elsewhere
<1>2. \A u \in Threads : u = t \/ thr'[u] = thr[u]
  BY DEF Others
<1> QED BY <1>1, <1>2, ApartSame

(* An append that ends, after fate has been set to f. *)
LEMMA ApartReturn ==
  ASSUME BaseInv, ApartInv, NEW t \in Threads, NEW ok \in BOOLEAN, Return(t, ok),
         thr[t].m \in Messages, up' = up, fate \in [Messages -> Fates],
         NEW f, f = fate \/ (f = [fate EXCEPT ![thr[t].m] = "done"] /\ thr[t].op = "terminal")
                \/ (f = [fate EXCEPT ![thr[t].m] = "coming"] /\ thr[t].op \in Bringing),
         thr[t].op \in Bringing /\ ok => f[thr[t].m] = "coming",
         thr[t].pc # "publish",
         fate' = Told(t, ok, f)
  PROVE  ApartInv'
<1> USE DEF BaseInv
<1>0. thr[t] \in ThreadStates /\ ThreadOK(thr[t])
  BY DEF TypeInv
<1> DEFINE m == thr[t].m
<1>1. Others(t)
  BY ReturnView
<1>2. /\ \A x \in Messages \ {m} : fate'[x] = fate[x]
      /\ fate'[m] = IF thr[t].op = "enqueue" /\ ok THEN "here" ELSE f[m]
  BY DEF Told
<1>3. thr[t].op \in Bringing => m \in ComingOf(thr[t])
  BY <1>0, Views
<1>4. \A u \in Threads \ {t} : m \in ComingOf(thr[t]) => m \notin ComingOf(thr[u])
  BY DEF ApartInv
<1>5. \A u \in Threads : WrittenOf(thr[u]) \subseteq ComingOf(thr[u]) /\ ComingOf(thr[u]) \subseteq Messages
  BY Views DEF TypeInv
<1>6. mem \subseteq Messages
  BY DEF TypeInv
<1>7. CASE /\ thr[t].op = "absorb" /\ ok /\ mem' = mem
           /\ thr'[t].op = "absorb"
           /\ ComingOf(thr'[t]) = ComingOf(thr[t])
           /\ WrittenOf(thr'[t]) = thr[t].got \cup {thr[t].m}
  <2>1. fate'[m] = "coming" /\ m \in ComingOf(thr[t])
    BY <1>2, <1>3, <1>7 DEF Bringing
  <2>2. thr[t].got \subseteq WrittenOf(thr[t])
    BY <1>0, Views
  <2>3. m \notin mem
    BY <2>1 DEF ApartInv
  <2>4. \A u \in Threads \ {t} : m \notin ComingOf(thr[u]) /\ thr'[u] = thr[u]
    BY <1>1, <1>4, <2>1 DEF Others
  <2>5. fate[m] # "acked" /\ (up => fate[m] # "here")
    BY <2>1, <1>6 DEF ApartInv
  <2> HIDE DEF m
  <2>6. /\ \A u \in Threads : mem' \cap ComingOf(thr'[u]) = {}
        /\ \A v, u \in Threads : v # u => ComingOf(thr'[v]) \cap ComingOf(thr'[u]) = {}
    BY <2>4, <1>7 DEF ApartInv
  <2>7. /\ \A x \in mem' : fate'[x] \in {"here", "back"}
        /\ up' => \A x \in Messages : fate'[x] = "here" => x \in mem'
    BY <2>1, <2>3, <1>2, <1>6, <1>7 DEF ApartInv
  <2>8. /\ \A u \in Threads : \A x \in ComingOf(thr'[u]) : fate'[x] \in {"new", "coming", "away", "done"}
    BY <2>1, <2>4, <1>2, <1>5, <1>7 DEF ApartInv
  <2>11. \A u \in Threads : u = t \/ thr'[u] = thr[u]
    BY <2>4
  <2>9. \A u \in Threads : \A x \in WrittenOf(thr'[u]) : fate'[x] = "coming"
    <3> SUFFICES ASSUME NEW u \in Threads, NEW x \in WrittenOf(thr'[u]) PROVE fate'[x] = "coming"
      OBVIOUS
    <3>1. CASE u = t
      <4>1. x = m \/ x \in WrittenOf(thr[t])
        BY <3>1, <1>7, <2>2 DEF m
      <4>2. x \in WrittenOf(thr[t]) => fate[x] = "coming" /\ x \in Messages
        BY <1>5 DEF ApartInv
      <4> QED BY <4>1, <4>2, <2>1, <1>2
    <3>2. CASE u # t
      <4>1. x \in WrittenOf(thr[u]) /\ x # m /\ x \in Messages
        BY <3>2, <2>4, <1>5
      <4> QED BY <4>1, <1>2 DEF ApartInv
    <3> QED BY <3>1, <3>2
  <2>12. \A u \in Threads : thr'[u].op = "terminal" =>
            u # t /\ thr[u].op = "terminal" /\ thr'[u].m = thr[u].m /\ thr[u].m \in Messages \ {m}
            /\ fate[thr[u].m] = "acked"
    BY <2>11, <2>5, <1>7 DEF ApartInv
  <2>10. /\ \A u \in Threads : thr'[u].op = "terminal" => thr'[u].m \in Messages /\ fate'[thr'[u].m] = "acked"
         /\ \A v, u \in Threads : v # u /\ thr'[v].op = "terminal" /\ thr'[u].op = "terminal"
                           => thr'[v].m # thr'[u].m
    BY <2>12, <1>2 DEF ApartInv
  <2> QED BY <2>6, <2>7, <2>8, <2>9, <2>10 DEF ApartInv
<1>8. ASSUME thr'[t] = Idle, mem' = (IF thr[t].op = "enqueue" /\ ok THEN mem \cup {m} ELSE mem),
             thr[t].op = "absorb" => ~ ok
      PROVE  ApartInv'
  <2>1. \A u \in Threads : u = t \/ thr'[u] = thr[u]
    BY <1>1 DEF Others
  <2>2. ComingOf(thr'[t]) = {} /\ WrittenOf(thr'[t]) = {} /\ thr'[t].op = "none"
    BY <1>8, IdleView, IdleFields
  <2>3. CASE thr[t].op \in Bringing
    <3>1. /\ m \notin mem /\ fate[m] # "acked" /\ (up => fate[m] # "here") /\ m \in ComingOf(thr[t])
          /\ \A u \in Threads \ {t} : m \notin ComingOf(thr[u])
          /\ fate[m] \in {"new", "coming", "away", "done"}
      BY <2>3, <1>3, <1>4 DEF ApartInv
    <3>2. fate'[m] = (IF mem' = mem THEN fate'[m] ELSE "here") /\ fate'[m] \in {fate[m], "coming", "here"}
          /\ (fate'[m] = "here" => m \in mem' \/ fate[m] = "here")
      BY <2>3, <1>2, <1>8 DEF Bringing
    <3> HIDE DEF m
    <3> QED BY <2>1, <2>2, <3>1, <3>2, <1>2, <1>5, <1>6, <1>8 DEF ApartInv
  <2>4. CASE thr[t].op = "terminal"
    <3>1. /\ fate[m] = "acked" /\ m \notin mem /\ \A u \in Threads : m \notin ComingOf(thr[u])
          /\ \A u \in Threads \ {t} : thr[u].op = "terminal" => thr[u].m # m
      BY <2>4 DEF ApartInv
    <3>2. fate'[m] \in {"acked", "done", "coming"} /\ mem' = mem
      BY <2>4, <3>1, <1>2, <1>8
    <3> HIDE DEF m
    <3> QED BY <2>1, <2>2, <3>1, <3>2, <1>2, <1>5, <1>6 DEF ApartInv
  <2>5. CASE thr[t].op \notin Bringing \cup {"terminal"}
    <3>1. fate' = fate /\ mem' = mem
      BY <2>5, <1>8 DEF Told, Bringing
    <3> QED BY <2>1, <2>2, <3>1 DEF ApartInv
  <2> QED BY <2>3, <2>4, <2>5
<1>9. thr[t].op = "enqueue" => thr[t].op # "absorb"
  OBVIOUS
<1> QED BY <1>7, <1>8, <1>9, ReturnView DEF Bringing

(* What fate says of the record that is being written. *)
WriteFate(t) ==
  CASE thr[t].op \in Bringing          -> [fate EXCEPT ![thr[t].m] = "coming"]
    [] thr[t].op = "terminal" /\ Sound -> [fate EXCEPT ![thr[t].m] = "done"]
    [] OTHER                           -> fate

(* What a write does but for the log. *)
LEMMA WriteView ==
  ASSUME TypeInv, NEW t \in Threads, Write(t)
  PROVE  /\ IF NeedsFlush(t) THEN fate' = WriteFate(t) /\ mem' = mem
            ELSE Return(t, TRUE) /\ fate' = Told(t, TRUE, WriteFate(t))
         /\ thr[t].pc = "write" /\ thr[t].m \in Messages
         /\ thr[t].op \in {"enqueue", "absorb", "attempt", "terminal"}
         /\ UNCHANGED <<durable, handle, att, flush, comp, drop, sync, up, ghosts>>
         /\ thr[t].op \in Bringing => WriteFate(t) = [fate EXCEPT ![thr[t].m] = "coming"]
         /\ thr[t].op = "terminal" => WriteFate(t) = IF Sound THEN [fate EXCEPT ![thr[t].m] = "done"] ELSE fate
         /\ thr[t].op = "attempt" => WriteFate(t) = fate
<1>1. thr[t].pc = "write" /\ thr[t].m \in Messages
      /\ thr[t].op \in {"enqueue", "absorb", "attempt", "terminal"}
  BY DEF Write, TypeInv, ThreadOK, ThreadStates
<1>2. IF NeedsFlush(t) THEN fate' = WriteFate(t) /\ mem' = mem
            ELSE Return(t, TRUE) /\ fate' = Told(t, TRUE, WriteFate(t))
  BY DEF Write, WriteFate, Bringing
<1>3. UNCHANGED <<durable, handle, att, flush, comp, drop, sync, up, ghosts>>
  BY DEF Write
<1>4. thr[t].op \in Bringing => WriteFate(t) = [fate EXCEPT ![thr[t].m] = "coming"]
  BY DEF WriteFate, Bringing
<1>5. thr[t].op = "terminal" => WriteFate(t) = IF Sound THEN [fate EXCEPT ![thr[t].m] = "done"] ELSE fate
  BY DEF WriteFate, Bringing
<1>6. thr[t].op = "attempt" => WriteFate(t) = fate
  BY DEF WriteFate, Bringing
<1> QED BY <1>1, <1>2, <1>3, <1>4, <1>5, <1>6

(* Every step keeps messages apart and their fates in agreement. *)
LEMMA NextApart == BaseInv /\ ApartInv /\ [Next]_vars => ApartInv'
<1> SUFFICES ASSUME BaseInv, ApartInv, [Next]_vars PROVE ApartInv'
  OBVIOUS
<1> USE DEF BaseInv
<1>0. /\ \A u \in Threads : thr[u] \in ThreadStates /\ ThreadOK(thr[u])
      /\ \A u \in Threads : WrittenOf(thr[u]) \subseteq ComingOf(thr[u]) /\ ComingOf(thr[u]) \subseteq Messages
      /\ mem \subseteq Messages /\ fate \in [Messages -> Fates] /\ FlushInv /\ WaitInv
  BY Views DEF TypeInv, FlushInv
<1>1. CASE SyncAll \/ Marks \/ Snapshot \/ Rewrite \/ Swap \/ CompactFails \/ UNCHANGED vars
  <2>1. UNCHANGED <<thr, mem, fate, up>>
    BY <1>1 DEF SyncAll, Marks, Snapshot, Rewrite, Swap, CompactFails, vars, memory, history
  <2> QED BY <2>1, ApartSame
<1>2. ASSUME NEW t \in Threads, NEW m \in Messages, BeginEnqueue(t, m) PROVE ApartInv'
  <2>1. /\ Others(t) /\ thr[t] = Idle /\ thr'[t].op = "enqueue"
        /\ ComingOf(thr'[t]) = {m} /\ WrittenOf(thr'[t]) = {}
    BY <1>2, BeginView
  <2>2. /\ UNCHANGED <<mem, fate, up>> /\ fate[m] = "new" /\ m \notin AllComing
    BY <1>2 DEF BeginEnqueue, history
  <2>3. \A u \in Threads : m \notin ComingOf(thr[u])
    BY <2>2, AllComingIs
  <2>4. \A u \in Threads : u = t \/ thr'[u] = thr[u]
    BY <2>1 DEF Others
  <2>5. m \notin mem
    BY <2>2 DEF ApartInv
  <2> QED BY <2>1, <2>2, <2>3, <2>4, <2>5 DEF ApartInv
<1>3. ASSUME NEW t \in Threads, NEW ms \in SUBSET Messages, BeginAbsorb(t, ms) PROVE ApartInv'
  <2>1. /\ Others(t) /\ thr[t] = Idle /\ thr'[t].op = "absorb"
        /\ ComingOf(thr'[t]) = ms /\ WrittenOf(thr'[t]) = {}
    BY <1>3, BeginView
  <2>2. /\ UNCHANGED <<mem, fate, up>> /\ ms \cap (mem \cup AllComing) = {}
        /\ \A m \in ms : fate[m] \in {"new", "coming", "away", "done"}
    BY <1>3 DEF BeginAbsorb, history, memory
  <2>3. \A u \in Threads : ms \cap ComingOf(thr[u]) = {}
    BY <2>2, AllComingIs
  <2>4. \A u \in Threads : u = t \/ thr'[u] = thr[u]
    BY <2>1 DEF Others
  <2> QED BY <2>1, <2>2, <2>3, <2>4 DEF ApartInv
<1>4. ASSUME NEW t \in Threads, NEW m \in Messages, Deliver(t, m) PROVE ApartInv'
  <2>1. /\ Others(t) /\ thr[t] = Idle /\ thr'[t].op = "attempt"
        /\ ComingOf(thr'[t]) = {} /\ WrittenOf(thr'[t]) = {}
    BY <1>4, BeginView
  <2>2. UNCHANGED <<mem, fate, up>>
    BY <1>4 DEF Deliver, history
  <2>4. \A u \in Threads : u = t \/ thr'[u] = thr[u]
    BY <2>1 DEF Others
  <2> QED BY <2>1, <2>2, <2>4 DEF ApartInv
<1>5. ASSUME NEW t \in Threads, NEW m \in Messages, Ack(t, m) PROVE ApartInv'
  <2>1. /\ Others(t) /\ thr[t] = Idle /\ thr'[t].op = "terminal" /\ thr'[t].m = m
        /\ ComingOf(thr'[t]) = {} /\ WrittenOf(thr'[t]) = {}
    BY <1>5, BeginView
  <2>2. mem' = mem \ {m} /\ fate' = [fate EXCEPT ![m] = "acked"] /\ up' = up /\ m \in mem
    BY <1>5 DEF Ack
  <2>4. \A u \in Threads : u = t \/ thr'[u] = thr[u]
    BY <2>1 DEF Others
  <2>5. /\ \A u \in Threads : m \notin ComingOf(thr[u])
        /\ fate[m] \in {"here", "back"}
    BY <2>2 DEF ApartInv
  <2>6. \A x \in Messages \ {m} : fate'[x] = fate[x]
    BY <2>2
  <2>7. fate'[m] = "acked"
    BY <2>2, <1>0
  <2>8. \A u \in Threads : thr[u].op = "terminal" => thr[u].m # m
    BY <2>5 DEF ApartInv
  <2>9. /\ \A u \in Threads : mem' \cap ComingOf(thr'[u]) = {}
        /\ \A v, u \in Threads : v # u => ComingOf(thr'[v]) \cap ComingOf(thr'[u]) = {}
    BY <2>1, <2>2, <2>4 DEF ApartInv
  <2>10. /\ \A x \in mem' : fate'[x] \in {"here", "back"}
         /\ up' => \A x \in Messages : fate'[x] = "here" => x \in mem'
    BY <2>2, <2>6, <2>7, <1>0 DEF ApartInv
  <2>11. /\ \A u \in Threads : \A x \in ComingOf(thr'[u]) : fate'[x] \in {"new", "coming", "away", "done"}
         /\ \A u \in Threads : \A x \in WrittenOf(thr'[u]) : fate'[x] = "coming"
    BY <2>1, <2>4, <2>5, <2>6, <1>0 DEF ApartInv
  <2>12. /\ \A u \in Threads : thr'[u].op = "terminal" => thr'[u].m \in Messages /\ fate'[thr'[u].m] = "acked"
         /\ \A v, u \in Threads : v # u /\ thr'[v].op = "terminal" /\ thr'[u].op = "terminal"
                           => thr'[v].m # thr'[u].m
    BY <2>1, <2>4, <2>6, <2>7, <2>8 DEF ApartInv
  <2> QED BY <2>9, <2>10, <2>11, <2>12 DEF ApartInv
<1>6. ASSUME NEW t \in Threads, Open(t) \/ BeginFlush(t) PROVE ApartInv'
  <2>1. /\ Others(t) /\ Elsewhere(thr[t], thr'[t])
        /\ \/ thr[t].pc = "open" /\ thr'[t].pc = "write"
           \/ thr[t].pc = "sync" /\ thr'[t].pc = "flush"
    BY <1>6, GoView
  <2>2. UNCHANGED <<mem, fate, up>>
    BY <1>6 DEF Open, BeginFlush, memory, history
  <2>3. WrittenOf(thr'[t]) \subseteq WrittenOf(thr[t])
    BY <2>1, ElsewhereView DEF WrittenOf
  <2> QED BY <2>1, <2>2, <2>3, ApartElsewhere
<1>7. ASSUME NEW t \in Threads, Write(t), NeedsFlush(t) PROVE ApartInv'
  <2>1. Others(t) /\ Elsewhere(thr[t], thr'[t]) /\ thr[t].pc = "write" /\ thr'[t].pc = "sync"
    BY <1>7, GoView
  <2> DEFINE m == thr[t].m
  <2>2. /\ mem' = mem /\ up' = up /\ fate' = [fate EXCEPT ![m] = "coming"]
        /\ thr[t].op \in Bringing /\ m \in Messages
    BY <1>7, WriteView DEF NeedsFlush, Bringing
  <2>3. m \in ComingOf(thr[t])
    BY <2>1, <2>2, <1>0, Views
  <2>4. ComingOf(thr'[t]) = ComingOf(thr[t]) /\ WrittenOf(thr'[t]) \subseteq WrittenOf(thr[t]) \cup {m}
    BY <2>1, ElsewhereView DEF WrittenOf
  <2>5. /\ m \notin mem /\ fate[m] # "acked" /\ (up => fate[m] # "here")
        /\ \A u \in Threads \ {t} : m \notin ComingOf(thr[u])
    BY <2>3, <1>0 DEF ApartInv
  <2>6. \A x \in Messages : fate'[x] = IF x = m THEN "coming" ELSE fate[x]
    BY <2>2, <1>0
  <2>7. /\ \A u \in Threads : u = t \/ thr'[u] = thr[u]
        /\ thr'[t].op = thr[t].op /\ thr[t].op # "terminal"
    BY <2>1, <2>2 DEF Others, Elsewhere, Bringing
  <2> HIDE DEF m
  <2>9. /\ \A u \in Threads : mem' \cap ComingOf(thr'[u]) = {}
        /\ \A v, u \in Threads : v # u => ComingOf(thr'[v]) \cap ComingOf(thr'[u]) = {}
    BY <2>2, <2>4, <2>7 DEF ApartInv
  <2>10. /\ \A x \in mem' : fate'[x] \in {"here", "back"}
         /\ up' => \A x \in Messages : fate'[x] = "here" => x \in mem'
    BY <2>2, <2>5, <2>6, <1>0 DEF ApartInv
  <2>11. /\ \A u \in Threads : \A x \in ComingOf(thr'[u]) : fate'[x] \in {"new", "coming", "away", "done"}
         /\ \A u \in Threads : \A x \in WrittenOf(thr'[u]) : fate'[x] = "coming"
    <3> SUFFICES ASSUME NEW u \in Threads
                 PROVE  /\ \A x \in ComingOf(thr'[u]) : fate'[x] \in {"new", "coming", "away", "done"}
                        /\ \A x \in WrittenOf(thr'[u]) : fate'[x] = "coming"
      OBVIOUS
    <3>1. CASE u = t
      <4>1. /\ \A x \in ComingOf(thr[t]) : fate[x] \in {"new", "coming", "away", "done"} /\ x \in Messages
            /\ \A x \in WrittenOf(thr[t]) : fate[x] = "coming" /\ x \in Messages
        BY <1>0 DEF ApartInv
      <4>2. m \in Messages
        BY <2>2 DEF m
      <4> QED BY <3>1, <2>4, <2>6, <4>1, <4>2
    <3>2. CASE u # t
      <4>1. thr'[u] = thr[u] /\ m \notin ComingOf(thr[u])
        BY <3>2, <2>5, <2>7
      <4> QED BY <4>1, <2>6, <1>0 DEF ApartInv
    <3> QED BY <3>1, <3>2
  <2>12. /\ \A u \in Threads : thr'[u].op = "terminal" => thr'[u].m \in Messages /\ fate'[thr'[u].m] = "acked"
         /\ \A v, u \in Threads : v # u /\ thr'[v].op = "terminal" /\ thr'[u].op = "terminal"
                           => thr'[v].m # thr'[u].m
    BY <2>5, <2>6, <2>7 DEF ApartInv
  <2> QED BY <2>9, <2>10, <2>11, <2>12 DEF ApartInv
<1>8. ASSUME NEW t \in Threads, Write(t), ~ NeedsFlush(t) PROVE ApartInv'
  <2>1. /\ Return(t, TRUE) /\ fate' = Told(t, TRUE, WriteFate(t)) /\ thr[t].m \in Messages /\ up' = up
        /\ thr[t].pc = "write"
    BY <1>8, WriteView
  <2>2. /\ \/ WriteFate(t) = fate
           \/ WriteFate(t) = [fate EXCEPT ![thr[t].m] = "done"] /\ thr[t].op = "terminal"
           \/ WriteFate(t) = [fate EXCEPT ![thr[t].m] = "coming"] /\ thr[t].op \in Bringing
        /\ thr[t].op \in Bringing => WriteFate(t)[thr[t].m] = "coming"
    BY <1>8, <1>0, WriteView DEF Bringing
  <2> HIDE DEF BaseInv
  <2> QED BY <2>1, <2>2, <1>0, ApartReturn
<1>9. ASSUME NEW t \in Threads, WriteShort(t) PROVE ApartInv'
  <2>1. /\ Return(t, FALSE) /\ fate' = Told(t, FALSE, fate) /\ thr[t].m \in Messages /\ up' = up
        /\ thr[t].pc = "write"
    BY <1>9, WriteShortLog DEF WriteShort, Told
  <2> HIDE DEF BaseInv
  <2> QED BY <2>1, <1>0, ApartReturn
<1>10. ASSUME NEW t \in Threads, EndFlush(t) \/ Wake(t) \/ ReturnDropped(t) PROVE ApartInv'
  <2>1. /\ thr[t].m \in Messages /\ up' = up /\ thr[t].pc # "publish"
    BY <1>10, <1>0, EndView
  <2>2. PICK ok \in BOOLEAN : /\ Return(t, ok) /\ fate' = Told(t, ok, fate)
                              /\ ok => thr[t].pc \in {"sync", "flush", "cut"}
    BY <1>10, <1>0, EndView
  <2>3. thr[t].op \in Bringing /\ ok => fate[thr[t].m] = "coming"
    BY <2>2, <1>0, Views DEF ApartInv
  <2> HIDE DEF BaseInv
  <2> QED BY <2>1, <2>2, <2>3, <1>0, ApartReturn
<1>11. ASSUME NEW t \in Threads, Publish(t) PROVE ApartInv'
  <2>1. Others(t) /\ thr[t].pc = "publish" /\ thr'[t] = Idle
    BY <1>11, GoView
  <2>2. /\ ComingOf(thr[t]) = thr[t].got /\ ComingOf(thr'[t]) = {} /\ WrittenOf(thr'[t]) = {}
        /\ thr'[t].op = "none"
    BY <2>1, <1>0, Views, IdleView, IdleFields
  <2>3. /\ mem' = mem \cup ComingOf(thr[t]) /\ up' = up
        /\ \A x \in Messages : fate'[x] = IF x \in ComingOf(thr[t]) THEN "here" ELSE fate[x]
    BY <1>11, <2>2 DEF Publish
  <2>4. \A u \in Threads : u = t \/ thr'[u] = thr[u]
    BY <2>1 DEF Others
  <2>5. \A u \in Threads \ {t} : ComingOf(thr[u]) \cap ComingOf(thr[t]) = {}
    BY DEF ApartInv
  <2>9. /\ \A u \in Threads : mem' \cap ComingOf(thr'[u]) = {}
        /\ \A v, u \in Threads : v # u => ComingOf(thr'[v]) \cap ComingOf(thr'[u]) = {}
    BY <2>2, <2>3, <2>4, <2>5 DEF ApartInv
  <2>10. /\ \A x \in mem' : fate'[x] \in {"here", "back"}
         /\ up' => \A x \in Messages : fate'[x] = "here" => x \in mem'
    BY <2>3, <1>0 DEF ApartInv
  <2>11. /\ \A u \in Threads : \A x \in ComingOf(thr'[u]) : fate'[x] \in {"new", "coming", "away", "done"}
         /\ \A u \in Threads : \A x \in WrittenOf(thr'[u]) : fate'[x] = "coming"
    BY <2>2, <2>3, <2>4, <2>5, <1>0 DEF ApartInv
  <2>13. \A u \in Threads : thr[u].op = "terminal" => thr[u].m \notin ComingOf(thr[t])
    BY DEF ApartInv
  <2>12. /\ \A u \in Threads : thr'[u].op = "terminal" => thr'[u].m \in Messages /\ fate'[thr'[u].m] = "acked"
         /\ \A v, u \in Threads : v # u /\ thr'[v].op = "terminal" /\ thr'[u].op = "terminal"
                           => thr'[v].m # thr'[u].m
    BY <2>2, <2>3, <2>4, <2>13 DEF ApartInv
  <2> QED BY <2>9, <2>10, <2>11, <2>12 DEF ApartInv
<1>12. CASE CloseFile
  <2>1. /\ UNCHANGED <<mem, fate, up>>
        /\ \A t \in Threads : Elsewhere(thr[t], thr'[t]) /\ WrittenOf(thr'[t]) \subseteq WrittenOf(thr[t])
    BY <1>12, <1>0, CloseView
  <2>2. \A t \in Threads : ComingOf(thr'[t]) = ComingOf(thr[t])
    BY <2>1, ElsewhereView
  <2> QED BY <2>1, <2>2, ApartSame DEF Elsewhere
<1>13. CASE DropSlot
  <2>1. /\ mem' = {} /\ thr' = thr /\ up' = up /\ up
        /\ \A x \in Messages : fate'[x] = IF x \in mem THEN "leaving" ELSE fate[x]
    BY <1>13 DEF DropSlot, MayBegin
  <2>2. \A t \in Threads : \A x \in ComingOf(thr[t]) : x \notin mem
    BY DEF ApartInv
  <2>3. \A u \in Threads : thr[u].op = "terminal" => thr[u].m \notin mem
    BY DEF ApartInv
  <2> QED BY <2>1, <2>2, <2>3, <1>0 DEF ApartInv
<1>14. CASE RemoveFile
  <2>1. /\ mem' = mem /\ thr' = thr /\ up' = up
        /\ \A x \in Messages : fate'[x] = IF fate[x] = "leaving" THEN "away" ELSE fate[x]
    BY <1>14 DEF RemoveFile, memory
  <2> QED BY <2>1, <1>0 DEF ApartInv
<1>15. CASE ProcessDies \/ PowerLost
  <2>1. mem' = {} /\ up' = FALSE /\ \A t \in Threads : thr'[t] = Idle
    BY <1>15 DEF ProcessDies, PowerLost, Stop
  <2> QED BY <2>1, IdleView, IdleFields DEF ApartInv
<1>16. CASE Recover
  <2>1. \A t \in Threads : thr'[t] = Idle
    BY <1>16 DEF Recover, DownInv
  <2>2. /\ mem' = Live(log) /\ mem' \subseteq Messages
        /\ \A x \in Messages : /\ x \in mem' => fate'[x] \in {"here", "back"}
                               /\ x \notin mem' => fate'[x] # "here"
    BY <1>16 DEF Recover, Live
  <2> QED BY <2>1, <2>2, IdleView, IdleFields DEF ApartInv
<1> QED BY <1>1, <1>2, <1>3, <1>4, <1>5, <1>6, <1>7, <1>8, <1>9, <1>10, <1>11, <1>12, <1>13, <1>14,
           <1>15, <1>16 DEF Next, Step

(* So they are in every reachable state. *)
LEMMA ApartAlways == Spec => [](BaseInv /\ ApartInv)
<1>1. Init => BaseInv /\ ApartInv
  BY InitBase, InitApart
<1>2. (BaseInv /\ ApartInv) /\ [Next]_vars => (BaseInv /\ ApartInv)'
  BY NextBase, NextApart
<1> QED BY <1>1, <1>2, PTL DEF Spec

(* Where the records of a compacted log come from: the snapshot's lines,   *)
(* then what was past position a of the old file, as readable as it was. *)
Spliced(r, s, a) == r \o SubSeq(s, a + 1, Len(s))

(* Where each record of q is, if q is r followed by s past a. *)
SplicedAt(q, r, s, a) ==
  /\ q \in Seq(Entries) /\ Len(q) = Len(r) + (Len(s) - a)
  /\ \A i \in 1..Len(r) : q[i] = r[i]
  /\ \A i \in (a + 1)..Len(s) : q[Len(r) + (i - a)] = s[i]
  /\ \A i \in (a + 1)..W(s) : Len(r) + (i - a) \in 1..W(q)
  /\ Len(r) <= W(q)
  /\ a <= W(s) => W(q) = Len(r) + (W(s) - a)

(* A compacted log has its records where SplicedAt says. *)
LEMMA NewLogAt ==
  ASSUME NEW s \in Seq(Entries), NEW r \in Seq(Entries), W(r) = Len(r), NEW a \in 0..Len(s)
  PROVE  SplicedAt(Spliced(r, s, a), r, s, a)
<1> DEFINE q == Spliced(r, s, a)
<1> DEFINE t == SubSeq(s, a + 1, Len(s))
<1>1. /\ Len(s) \in Nat /\ Len(r) \in Nat /\ W(s) \in 0..Len(s) /\ a \in Nat
  BY LenProperties, WholeIff
<1>2. /\ t \in Seq(Entries)
      /\ Len(t) = Len(s) - a
      /\ \A i \in 1..Len(t) : t[i] = s[a + i]
      /\ a <= W(s) => W(t) = W(s) - a
  BY WholeSuffix
<1> HIDE DEF t
<1>3. W(t) \in 0..Len(t)
  BY <1>2, WholeIff
<1>4. /\ q \in Seq(Entries)
      /\ Len(q) = Len(r) + Len(t)
      /\ \A i \in 1..Len(r) : q[i] = r[i]
      /\ \A i \in 1..Len(t) : q[Len(r) + i] = t[i]
      /\ W(q) = Len(r) + W(t)
  BY <1>2, WholeConcat DEF t, Spliced
<1> HIDE DEF q
<1>5. ASSUME NEW i \in (a + 1)..Len(s) PROVE q[Len(r) + (i - a)] = s[i]
  <2>1. i - a \in 1..Len(t) /\ a + (i - a) = i
    BY <1>1, <1>2
  <2> QED BY <2>1, <1>2, <1>4
<1>6. ASSUME NEW i \in (a + 1)..W(s) PROVE Len(r) + (i - a) \in 1..W(q)
  <2>1. a <= W(s) /\ i - a \in 1..(W(s) - a)
    BY <1>1
  <2> QED BY <2>1, <1>1, <1>2, <1>4
<1>7. SplicedAt(q, r, s, a)
  BY <1>1, <1>2, <1>3, <1>4, <1>5, <1>6 DEF SplicedAt
<1> QED BY <1>7 DEF q

(* The tails a compaction may copy, with their place in the old file. *)
LEMMA SwapLog ==
  ASSUME TypeInv, CompInv, comp.pc = "swap", NEW tail \in Tails
  PROVE  /\ NewLog(tail) \in Seq(Entries)
         /\ comp.rec \in Seq(Entries) /\ W(comp.rec) = Len(comp.rec)
         /\ ~ comp.stale => comp.mark \in 0..Len(log) /\ tail = SubSeq(log, comp.mark + 1, Len(log))
         /\ \/ \E a \in 0..Len(log) :
                 /\ NewLog(tail) = Spliced(comp.rec, log, a)
                 /\ ~ comp.stale => a = comp.mark
            \/ comp.stale /\ tail = <<Torn>>
<1>1. comp.rec \in Seq(Entries) /\ W(comp.rec) = Len(comp.rec)
  BY DEF CompInv, Tells
<1>2. Len(log) \in Nat /\ comp.mark \in Nat /\ log \in Seq(Entries)
  BY LenProperties DEF TypeInv, CompStates
<1>3. ~ comp.stale => comp.mark \in 0..Len(log)
  BY <1>2 DEF CompInv
<1>4. /\ ~ comp.stale => tail = SubSeq(log, comp.mark + 1, Len(log))
      /\ comp.stale => \/ tail = <<>>
                       \/ \E a \in 0..Len(log) : tail = SubSeq(log, a + 1, Len(log))
                       \/ tail = <<Torn>>
  BY TailsAre DEF CompInv
<1>5. <<>> = SubSeq(log, Len(log) + 1, Len(log))
  <2>1. Len(log) \in 0..Len(log) /\ Len(log) - Len(log) = 0
    BY <1>2
  <2>2. SubSeq(log, Len(log) + 1, Len(log)) \in Seq(Entries)
        /\ Len(SubSeq(log, Len(log) + 1, Len(log))) = 0
    BY <2>1, <1>2, WholeSuffix
  <2> QED BY <2>2, EmptySeq
<1>6. Len(log) \in 0..Len(log)
  BY <1>2
<1>7. \/ \E a \in 0..Len(log) : tail = SubSeq(log, a + 1, Len(log)) /\ (~ comp.stale => a = comp.mark)
      \/ comp.stale /\ tail = <<Torn>>
  BY <1>3, <1>4, <1>5, <1>6, Zenon
<1> QED BY <1>1, <1>3, <1>4, <1>7, NewLogType DEF NewLog, Spliced

(* Every enqueue record of m is undone by a terminal record that a replay  *)
(* reaches. *)
Gone(s, m) ==
  \A i \in 1..Len(s) : Is(s, i, "enqueue", m) =>
    \E j \in 1..W(s) : i < j /\ Is(s, j, "terminal", m)

(* A replay does not bring back what is gone. *)
LEMMA GoneIsDead ==
  ASSUME NEW s \in Seq(Entries), NEW m \in Messages, Gone(s, m)
  PROVE  m \notin Live(s)
<1>1. W(s) \in 0..Len(s) /\ Len(s) \in Nat
  BY WholeIff, LenProperties
<1> QED BY <1>1, LiveIff DEF Gone

(* A log of which a reader sees all, or all that matters. *)
LEMMA DeadIsGone ==
  ASSUME NEW s \in Seq(Entries), NEW m \in Messages, m \notin Live(s),
         \A i \in 1..Len(s) : Is(s, i, "enqueue", m) => i <= W(s)
  PROVE  Gone(s, m)
<1>1. W(s) \in 0..Len(s) /\ Len(s) \in Nat
  BY WholeIff, LenProperties
<1> SUFFICES ASSUME NEW i \in 1..Len(s), Is(s, i, "enqueue", m)
             PROVE  \E j \in 1..W(s) : i < j /\ Is(s, j, "terminal", m)
  BY DEF Gone
<1>2. i \in 1..W(s)
  BY <1>1
<1>3. PICK j \in 1..W(s) : Is(s, j, "terminal", m) /\ ~ (j < i)
  BY <1>2, LiveIff
<1>4. j # i
  BY <1>3 DEF Is
<1> QED BY <1>1, <1>3, <1>4

(* It stays gone until it is enqueued again. *)
LEMMA GoneAppend ==
  ASSUME NEW s \in Seq(Entries), NEW r \in Entries, NEW m, Gone(s, m),
         ~ (r.kind = "enqueue" /\ r.id = m)
  PROVE  Gone(Append(s, r), m)
<1>1. Len(s) \in Nat /\ W(s) \in 0..Len(s)
  BY WholeIff, LenProperties
<1>2. /\ Len(Append(s, r)) = Len(s) + 1
      /\ \A i \in 1..Len(s) : Append(s, r)[i] = s[i]
      /\ Append(s, r)[Len(s) + 1] = r
      /\ W(Append(s, r)) >= W(s)
  BY <1>1, WholeAppend
<1> HIDE DEF Gone
<1> SUFFICES ASSUME NEW i \in 1..(Len(s) + 1), Is(Append(s, r), i, "enqueue", m)
             PROVE  \E j \in 1..W(Append(s, r)) : i < j /\ Is(Append(s, r), j, "terminal", m)
  BY <1>2 DEF Gone
<1>3. i \in 1..Len(s) /\ Is(s, i, "enqueue", m)
  BY <1>1, <1>2 DEF Is
<1>4. PICK j \in 1..W(s) : i < j /\ Is(s, j, "terminal", m)
  BY <1>3 DEF Gone
<1>5. W(Append(s, r)) \in Nat
  BY <1>2, WholeAppend, WholeIff, LenProperties
<1>6. j \in 1..W(Append(s, r)) /\ j \in 1..Len(s)
  BY <1>1, <1>2, <1>4, <1>5
<1> QED BY <1>2, <1>4, <1>6 DEF Is

(* q is what a crash leaves of s: its first k records, and perhaps a torn  *)
(* one behind them. *)
Cut(s, q, k) ==
  /\ q \in Seq(Entries) /\ k \in 0..Len(s) /\ Len(q) \in {k, k + 1}
  /\ \A i \in 1..k : q[i] = s[i]
  /\ Len(q) = k + 1 => q[k + 1] = Torn
  /\ W(q) = IF W(s) < k THEN W(s) ELSE k

(* The two logs that a machine leaves when it dies are cuts. *)
LEMMA CutHere ==
  ASSUME NEW s \in Seq(Entries), NEW k \in 0..Len(s)
  PROVE  Cut(s, SubSeq(s, 1, k), k) /\ Cut(s, Append(SubSeq(s, 1, k), Torn), k)
<1> DEFINE p == SubSeq(s, 1, k)
<1>1. Len(s) \in Nat /\ k \in Nat /\ W(s) \in 0..Len(s)
  BY WholeIff, LenProperties
<1>2. /\ p \in Seq(Entries) /\ Len(p) = k /\ \A i \in 1..k : p[i] = s[i]
      /\ W(p) = IF W(s) < k THEN W(s) ELSE k
  BY WholePrefix
<1> HIDE DEF p
<1>3. Cut(s, p, k)
  BY <1>1, <1>2 DEF Cut
<1>4. /\ Append(p, Torn) \in Seq(Entries) /\ Len(Append(p, Torn)) = k + 1
      /\ \A i \in 1..k : Append(p, Torn)[i] = s[i]
      /\ Append(p, Torn)[k + 1] = Torn
      /\ W(Append(p, Torn)) = W(p)
  BY <1>2, TornEntry, WholeAppend
<1>5. Cut(s, Append(p, Torn), k)
  BY <1>1, <1>2, <1>4 DEF Cut
<1> QED BY <1>3, <1>5 DEF p

(* So are those a process leaves. *)
LEMMA CutWhole ==
  ASSUME NEW s \in Seq(Entries)
  PROVE  Cut(s, s, Len(s)) /\ Cut(s, Append(s, Torn), Len(s))
<1>1. Len(s) \in Nat /\ W(s) \in 0..Len(s)
  BY WholeIff, LenProperties
<1>2. Cut(s, s, Len(s))
  BY <1>1 DEF Cut
<1>4. /\ Append(s, Torn) \in Seq(Entries) /\ Len(Append(s, Torn)) = Len(s) + 1
      /\ \A i \in 1..Len(s) : Append(s, Torn)[i] = s[i]
      /\ Append(s, Torn)[Len(s) + 1] = Torn
      /\ W(Append(s, Torn)) = W(s)
  BY TornEntry, WholeAppend
<1>5. Cut(s, Append(s, Torn), Len(s))
  BY <1>1, <1>4 DEF Cut
<1> QED BY <1>2, <1>5

(* A torn record at the end of a cut hides nothing that is before it. *)
LEMMA CutLive ==
  ASSUME NEW s \in Seq(Entries), NEW q, NEW k, Cut(s, q, k), NEW m \in Messages
  PROVE  m \in Live(q) <=> m \in Live(SubSeq(s, 1, k))
<1>1. Cut(s, SubSeq(s, 1, k), k)
  BY CutHere DEF Cut
<1> DEFINE p == SubSeq(s, 1, k)
<1> HIDE DEF p
<1>2. q \in Seq(Entries) /\ p \in Seq(Entries) /\ W(q) = W(p) /\ W(q) \in Nat /\ W(q) <= k /\ k \in Nat
  <2>1. Len(s) \in Nat /\ W(s) \in 0..Len(s)
    BY WholeIff, LenProperties
  <2> QED BY <1>1, <2>1 DEF Cut, p
<1>3. \A i \in 1..W(q) : q[i] = p[i]
  BY <1>1, <1>2 DEF Cut, p
<1>4. \A x : \A i \in 1..W(q) : Is(q, i, x, m) <=> Is(p, i, x, m)
  BY <1>3 DEF Is
<1>5. /\ m \in Live(q) <=>
           \E i \in 1..W(q) : /\ Is(q, i, "enqueue", m)
                              /\ \A j \in 1..W(q) : Is(q, j, "terminal", m) => j < i
      /\ m \in Live(p) <=>
           \E i \in 1..W(q) : /\ Is(p, i, "enqueue", m)
                              /\ \A j \in 1..W(q) : Is(p, j, "terminal", m) => j < i
  BY <1>2, LiveIff
<1> QED BY <1>4, <1>5 DEF p

(* What a crash does. *)
LEMMA CrashCuts ==
  ASSUME TypeInv, durable <= Len(log), ProcessDies \/ PowerLost
  PROVE  /\ \E k \in 0..Len(log) :
              /\ Cut(log, log', k)
              /\ \/ ProcessDies /\ k = Len(log) /\ fate' = fate /\ durable' = durable
                 \/ /\ PowerLost /\ durable <= k /\ durable' = Len(log')
                    /\ fate' = [m \in Messages |->
                         CASE fate[m] = "here" /\ m \notin Live(log') /\ sync # "always" -> "lost"
                           [] fate[m] = "done" /\ m \in Live(log')                     -> "acked"
                           [] OTHER                                                   -> fate[m]]
         /\ up /\ ~ up' /\ mem' = {} /\ comp' = NoComp /\ flush' = NoFlush
         /\ \A t \in Threads : thr'[t] = Idle
         /\ UNCHANGED <<begun, att, sync, exposed, ghosts, behind, again>>
<1>1. log \in Seq(Entries) /\ Len(log) \in Nat /\ durable \in Nat
  BY LenProperties DEF TypeInv
<1>2. PICK rest : Stop(rest)
  BY DEF ProcessDies, PowerLost
<1>3. /\ up /\ ~ up' /\ mem' = {} /\ comp' = NoComp /\ flush' = NoFlush
      /\ \A t \in Threads : thr'[t] = Idle
      /\ UNCHANGED <<begun, att, sync, exposed, ghosts, behind, again>>
  BY <1>2 DEF Stop
<1>4. ASSUME ProcessDies
      PROVE  Cut(log, log', Len(log)) /\ fate' = fate /\ durable' = durable
  BY <1>1, <1>4, CutWhole DEF ProcessDies, Stop
<1>5. ASSUME PowerLost
      PROVE  \E k \in 0..Len(log) : /\ Cut(log, log', k) /\ durable <= k /\ durable' = Len(log')
                    /\ fate' = [m \in Messages |->
                         CASE fate[m] = "here" /\ m \notin Live(log') /\ sync # "always" -> "lost"
                           [] fate[m] = "done" /\ m \in Live(log')                     -> "acked"
                           [] OTHER                                                   -> fate[m]]
  <2>1. PICK k \in durable..Len(log) :
       /\ \/ Stop(SubSeq(log, 1, k)) /\ durable' = k
          \/ k < Len(log) /\ Stop(Append(SubSeq(log, 1, k), Torn)) /\ durable' = k + 1
       /\ fate' = [m \in Messages |->
            LET left == m \in Live(SubSeq(log, 1, k))
            IN CASE fate[m] = "here" /\ ~left /\ sync # "always" -> "lost"
                 [] fate[m] = "done" /\ left                     -> "acked"
                 [] OTHER                                        -> fate[m]]
    BY <1>5 DEF PowerLost
  <2>2. k \in 0..Len(log) /\ durable <= k
    BY <1>1
  <2>3. Cut(log, log', k) /\ durable' = Len(log')
    <3>1. Cut(log, SubSeq(log, 1, k), k) /\ Cut(log, Append(SubSeq(log, 1, k), Torn), k)
      BY <1>1, <2>2, CutHere
    <3>2. Len(SubSeq(log, 1, k)) = k /\ Len(Append(SubSeq(log, 1, k), Torn)) = k + 1
      BY <1>1, <2>2, WholePrefix, TornEntry, WholeAppend
    <3> QED BY <2>1, <3>1, <3>2 DEF Stop
  <2>4. \A m \in Messages : m \in Live(log') <=> m \in Live(SubSeq(log, 1, k))
    BY <1>1, <2>3, CutLive
  <2>5. fate' = [m \in Messages |->
            CASE fate[m] = "here" /\ m \notin Live(log') /\ sync # "always" -> "lost"
                 [] fate[m] = "done" /\ m \in Live(log')                   -> "acked"
                 [] OTHER                                                 -> fate[m]]
    BY <2>1, <2>4, Zenon
  <2> QED BY <2>2, <2>3, <2>5
<1>6. Len(log) \in 0..Len(log)
  BY <1>1
<1> QED BY <1>3, <1>4, <1>5, <1>6

-----------------------------------------------------------------------------
GoneInv ==
  /\ \A m \in Messages : fate[m] = "away" => \A i \in 1..Len(log) : ~ Is(log, i, "terminal", m)
  /\ \A m \in Messages \ ghosts : fate[m] \in {"done", "away"} => Gone(log, m)
  /\ comp.pc \in {"rewrite", "swap"} /\ ~ comp.stale =>
       \A m \in comp.snap \ ghosts :
          /\ fate[m] # "away"
          /\ fate[m] = "done" => \E j \in 1..W(log) : j > comp.mark /\ Is(log, j, "terminal", m)

(* Nothing is gone at the start. *)
LEMMA InitGone == Init => GoneInv
<1> SUFFICES ASSUME Init PROVE GoneInv
  OBVIOUS
<1>1. Len(log) = 0 /\ comp.pc = "idle"
  BY EmptySeq DEF Init, NoComp
<1>2. \A m \in Messages : fate[m] = "new"
  BY DEF Init
<1> QED BY <1>1, <1>2 DEF GoneInv, Gone

(* Steps that leave the log alone and take no message to its end. *)
LEMMA GoneSameLog ==
  ASSUME BaseInv, GoneInv, log' = log, ghosts' = ghosts,
         comp' = comp \/ comp'.pc \notin {"rewrite", "swap"},
         \A m \in Messages : fate'[m] \in {"done", "away"} => fate'[m] = fate[m]
  PROVE  GoneInv'
<1>1. W(log') = W(log)
  BY DEF W
<1>2. \A m \in Messages : Gone(log', m) <=> Gone(log, m)
  OBVIOUS
<1>3. \A m \in Messages \ ghosts : fate'[m] \in {"done", "away"} => Gone(log', m)
  BY <1>2 DEF GoneInv
<1>4. \A m \in Messages : fate'[m] = "away" => \A i \in 1..Len(log') : ~ Is(log', i, "terminal", m)
  BY DEF GoneInv, Is
<1>5. comp.snap \subseteq Messages
  BY DEF BaseInv, TypeInv, CompStates
<1> QED BY <1>1, <1>3, <1>4, <1>5 DEF GoneInv, Is

(* A record is appended: nothing that is over comes back. *)
LEMMA GoneGrows ==
  ASSUME BaseInv, GoneInv, NEW r \in Entries, log' = Append(log, r), ghosts' = ghosts, comp' = comp,
         \A m \in Messages :
            fate'[m] \in {"done", "away"} =>
              /\ fate'[m] = fate[m] => /\ r.kind = "enqueue" => r.id # m
                                       /\ r.kind = "terminal" /\ r.id = m => fate[m] # "away"
              /\ fate'[m] # fate[m] => /\ r.kind = "terminal" /\ r.id = m /\ fate'[m] = "done"
                                       /\ W(log) = Len(log)
  PROVE  GoneInv'
<1> USE DEF BaseInv
<1>1. log \in Seq(Entries) /\ Len(log) \in Nat /\ W(log) \in 0..Len(log) /\ comp.mark \in Nat
  BY WholeIff, LenProperties DEF TypeInv, CompStates
<1>2. /\ log' \in Seq(Entries) /\ Len(log') = Len(log) + 1
      /\ \A i \in 1..Len(log) : log'[i] = log[i]
      /\ log'[Len(log) + 1] = r
      /\ W(log') = IF W(log) = Len(log) /\ r.kind # "torn" THEN Len(log) + 1 ELSE W(log)
  BY <1>1, WholeAppend
<1>3. \A k, m : \A i \in 1..Len(log) : Is(log', i, k, m) <=> Is(log, i, k, m)
  BY <1>2 DEF Is
<1>4. \A k, m : Is(log', Len(log) + 1, k, m) <=> r.kind = k /\ r.id = m
  BY <1>2 DEF Is
<1>5. 1..Len(log') = 1..Len(log) \cup {Len(log) + 1}
  BY <1>1, <1>2
<1>6. ASSUME NEW m \in Messages, fate'[m] = "away"
      PROVE  \A i \in 1..Len(log') : ~ Is(log', i, "terminal", m)
  <2>1. fate[m] = "away" /\ ~ (r.kind = "terminal" /\ r.id = m)
    BY <1>6
  <2> QED BY <2>1, <1>3, <1>4, <1>5 DEF GoneInv
<1>7. ASSUME NEW m \in Messages \ ghosts, fate'[m] \in {"done", "away"}
      PROVE  Gone(log', m)
  <2>1. CASE fate'[m] = fate[m]
    <3>1. Gone(log, m) /\ ~ (r.kind = "enqueue" /\ r.id = m)
      BY <2>1, <1>7 DEF GoneInv
    <3> QED BY <3>1, <1>1, GoneAppend
  <2>2. CASE fate'[m] # fate[m]
    <3>1. r.kind = "terminal" /\ r.id = m /\ W(log) = Len(log)
      BY <2>2, <1>7
    <3>2. W(log') = Len(log) + 1 /\ Is(log', Len(log) + 1, "terminal", m)
      BY <3>1, <1>2, <1>4
    <3>3. \A i \in 1..Len(log') : Is(log', i, "enqueue", m) => i < Len(log) + 1
      BY <3>1, <1>1, <1>4, <1>5
    <3> QED BY <3>2, <3>3, <1>1 DEF Gone
  <2> QED BY <2>1, <2>2
<1>8. ASSUME comp.pc \in {"rewrite", "swap"}, ~ comp.stale, NEW m \in comp.snap \ ghosts
      PROVE  /\ fate'[m] # "away"
             /\ fate'[m] = "done" => \E j \in 1..W(log') : j > comp.mark /\ Is(log', j, "terminal", m)
  <2>0. m \in Messages
    BY DEF TypeInv, CompStates
  <2>1. fate'[m] # "away"
    BY <1>8, <2>0 DEF GoneInv
  <2>2. CASE fate'[m] = "done" /\ fate[m] = "done"
    <3>1. PICK j \in 1..W(log) : j > comp.mark /\ Is(log, j, "terminal", m)
      BY <1>8, <2>2 DEF GoneInv
    <3> QED BY <3>1, <2>1, <1>1, <1>2, <1>3
  <2>3. CASE fate'[m] = "done" /\ fate[m] # "done"
    <3>1. r.kind = "terminal" /\ r.id = m /\ W(log) = Len(log)
      BY <2>3, <2>0
    <3>2. W(log') = Len(log) + 1 /\ Is(log', Len(log) + 1, "terminal", m)
      BY <3>1, <1>2, <1>4
    <3>3. comp.mark <= Len(log)
      BY <1>8 DEF CompInv
    <3> QED BY <3>2, <3>3, <2>1, <1>1
  <2> QED BY <2>1, <2>2, <2>3
<1> QED BY <1>6, <1>7, <1>8 DEF GoneInv

(* What a step that is over does to the others' knowledge of a message. *)
LEMMA ToldIs ==
  ASSUME NEW t \in Threads, NEW ok \in BOOLEAN, NEW f \in [Messages -> Fates], fate' = Told(t, ok, f)
  PROVE  \A m \in Messages : fate'[m] = f[m] \/ (fate'[m] = "here" /\ m = thr[t].m /\ ok /\ thr[t].op = "enqueue")
BY DEF Told

(* A compaction that has been let alone puts nothing in front of an end,   *)
(* and one that has not is written down in ghosts. *)
LEMMA GoneSwap == BaseInv /\ GoneInv /\ Swap => GoneInv'
<1> SUFFICES ASSUME BaseInv, GoneInv, Swap PROVE GoneInv'
  OBVIOUS
<1> USE DEF BaseInv
<1>1. PICK tail \in Tails : log' = NewLog(tail)
  BY DEF Swap
<1>2. /\ comp.pc = "swap" /\ comp' = NoComp /\ fate' = fate
      /\ ghosts' = IF comp.stale THEN ghosts \cup comp.snap ELSE ghosts
  BY DEF Swap
<1>3. comp'.pc = "idle"
  BY <1>2 DEF NoComp
<1>4. /\ comp.rec \in Seq(Entries) /\ W(comp.rec) = Len(comp.rec) /\ log' \in Seq(Entries)
      /\ \/ \E a \in 0..Len(log) :
                 /\ log' = Spliced(comp.rec, log, a)
                 /\ ~ comp.stale => a = comp.mark
         \/ comp.stale /\ tail = <<Torn>>
  BY <1>1, <1>2, SwapLog
<1>5. \A i \in 1..Len(comp.rec) : comp.rec[i].id \in comp.snap /\ comp.rec[i].kind \in {"enqueue", "attempt"}
  BY <1>2 DEF CompInv, Tells
<1>6. log \in Seq(Entries) /\ Len(log) \in Nat /\ W(log) \in 0..Len(log) /\ Len(comp.rec) \in Nat
  BY <1>4, WholeIff, LenProperties DEF TypeInv
<1> DEFINE rec == comp.rec
           n == Len(rec)
<1>61. /\ rec \in Seq(Entries) /\ W(rec) = Len(rec) /\ n \in Nat
       /\ \A i \in 1..n : rec[i].id \in comp.snap /\ rec[i].kind \in {"enqueue", "attempt"}
  BY <1>4, <1>5, <1>6
<1> HIDE DEF rec
<1>7. ASSUME NEW a \in 0..Len(log), log' = Spliced(rec, log, a),
             ~ comp.stale => a = comp.mark
      PROVE  GoneInv'
  <2>1. /\ Len(log') = n + (Len(log) - a)
        /\ \A i \in 1..n : log'[i] = rec[i]
        /\ \A i \in (a + 1)..Len(log) : log'[n + (i - a)] = log[i]
        /\ \A i \in (a + 1)..W(log) : n + (i - a) \in 1..W(log')
    <3>1. SplicedAt(log', rec, log, a)
      BY <1>6, <1>61, <1>7, NewLogAt
    <3> QED BY <3>1 DEF SplicedAt
  <2>2. \A i \in 1..Len(log') : i \in 1..n \/ \E j \in (a + 1)..Len(log) : i = n + (j - a)
    <3>0. n \in Nat /\ Len(log) \in Nat /\ a \in 0..Len(log)
      BY <1>6, <1>61
    <3> SUFFICES ASSUME NEW i \in 1..(n + (Len(log) - a)), i > n
                 PROVE  \E j \in (a + 1)..Len(log) : i = n + (j - a)
      <4>1. \A i \in 1..(n + (Len(log) - a)) : i > n \/ i \in 1..n
        <5> HIDE DEF n
        <5> QED BY <3>0
      <4> QED BY <2>1, <4>1, Zenon
    <3>1. (i - n) + a \in (a + 1)..Len(log) /\ i = n + (((i - n) + a) - a)
      <4> HIDE DEF n
      <4> QED BY <3>0
    <3> QED BY <3>1
  <2>3. \A k, m : \A i \in 1..n : Is(log', i, k, m) => k \in {"enqueue", "attempt"} /\ m \in comp.snap
    BY <1>61, <2>1 DEF Is
  <2>4. \A k, m : \A i \in (a + 1)..Len(log) : Is(log', n + (i - a), k, m) <=> Is(log, i, k, m)
    BY <2>1 DEF Is
  <2>5. \A m \in Messages : fate[m] = "away" => \A i \in 1..Len(log') : ~ Is(log', i, "terminal", m)
    <3> SUFFICES ASSUME NEW m \in Messages, fate[m] = "away", NEW i \in 1..Len(log'),
                        Is(log', i, "terminal", m)
                 PROVE  FALSE
      OBVIOUS
    <3>1. \A l \in (a + 1)..Len(log) : l \in 1..Len(log)
      BY <1>6
    <3>2. \A l \in (a + 1)..Len(log) : ~ Is(log, l, "terminal", m)
      BY <3>1 DEF GoneInv
    <3>3. i \notin 1..n
      BY <2>3
    <3> QED BY <2>2, <2>4, <3>2, <3>3
  <2>6. ASSUME NEW m \in Messages \ ghosts', fate[m] \in {"done", "away"} PROVE Gone(log', m)
    <3>0. Gone(log, m) /\ m \notin ghosts
      BY <2>6, <1>2 DEF GoneInv
    <3> SUFFICES ASSUME NEW i \in 1..Len(log'), Is(log', i, "enqueue", m)
                 PROVE  \E j \in 1..W(log') : i < j /\ Is(log', j, "terminal", m)
      BY DEF Gone
    <3>1. CASE i \in 1..n
      <4>1. m \in comp.snap /\ ~ comp.stale
        BY <2>3, <2>6, <3>1, <1>2
      <4>2. PICK j \in 1..W(log) : j > comp.mark /\ Is(log, j, "terminal", m)
        BY <4>1, <3>0, <2>6, <1>2 DEF GoneInv
      <4>3. j \in (a + 1)..W(log) /\ j \in (a + 1)..Len(log)
        BY <4>1, <4>2, <1>6, <1>7
      <4>4. n + (j - a) \in 1..W(log') /\ i < n + (j - a) /\ Is(log', n + (j - a), "terminal", m)
        BY <4>2, <4>3, <3>1, <2>1, <2>4, <1>6, <1>61
      <4> QED BY <4>4
    <3>2. CASE \E l \in (a + 1)..Len(log) : i = n + (l - a)
      <4>1. PICK l \in (a + 1)..Len(log) : i = n + (l - a)
        BY <3>2
      <4>2. Is(log, l, "enqueue", m) /\ l \in 1..Len(log)
        BY <4>1, <2>4, <1>6, <1>61
      <4>3. PICK j \in 1..W(log) : l < j /\ Is(log, j, "terminal", m)
        BY <4>2, <3>0 DEF Gone
      <4>4. j \in (a + 1)..W(log) /\ j \in (a + 1)..Len(log)
        BY <4>1, <4>3, <1>6, <1>61
      <4>5. n + (j - a) \in 1..W(log') /\ i < n + (j - a) /\ Is(log', n + (j - a), "terminal", m)
        BY <4>1, <4>3, <4>4, <2>1, <2>4, <1>6, <1>61
      <4> QED BY <4>5
    <3> QED BY <3>1, <3>2, <2>2
  <2> HIDE DEF n
  <2> QED BY <2>5, <2>6, <1>2, <1>3 DEF GoneInv
<1>8. ASSUME comp.stale, tail = <<Torn>> PROVE GoneInv'
  <2>1. log' = rec \o <<Torn>> /\ Len(<<Torn>>) = 1 /\ <<Torn>> \in Seq(Entries) /\ <<Torn>>[1] = Torn
    BY <1>1, <1>8, TornEntry DEF NewLog, rec
  <2>2. /\ Len(log') = n + 1 /\ \A i \in 1..n : log'[i] = rec[i]
        /\ log'[n + 1] = Torn
    <3> DEFINE q == <<Torn>>
    <3>1. q \in Seq(Entries) /\ Len(q) = 1 /\ q[1] = Torn /\ 1 \in 1..Len(q)
      BY <2>1
    <3> HIDE DEF q
    <3>2. /\ Len(rec \o q) = n + Len(q) /\ \A i \in 1..n : (rec \o q)[i] = rec[i]
          /\ \A i \in 1..Len(q) : (rec \o q)[n + i] = q[i]
      BY <3>1, <1>61, WholeConcat
    <3> QED BY <2>1, <3>1, <3>2 DEF q
  <2>3. \A k, m : \A i \in 1..Len(log') : Is(log', i, k, m) /\ k \in {"enqueue", "terminal"} =>
            k = "enqueue" /\ m \in comp.snap
    <3>1. \A k, m : Is(log', n + 1, k, m) => k = "torn"
      BY <2>2, TornEntry DEF Is
    <3>2. \A k, m : \A i \in 1..n : Is(log', i, k, m) => k \in {"enqueue", "attempt"} /\ m \in comp.snap
      BY <1>61, <2>2 DEF Is
    <3>3. 1..Len(log') = 1..n \cup {n + 1}
      BY <2>2, <1>6, <1>61
    <3> QED BY <3>1, <3>2, <3>3
  <2>4. comp.snap \subseteq ghosts'
    BY <1>2, <1>8
  <2> HIDE DEF n
  <2> QED BY <2>3, <2>4, <1>2, <1>3 DEF GoneInv, Gone
<1> QED BY <1>4, <1>7, <1>8 DEF rec

(* A crash brings nothing back that was at its end, or its fate says so. *)
LEMMA GoneCrash == BaseInv /\ GoneInv /\ (ProcessDies \/ PowerLost) => GoneInv'
<1> SUFFICES ASSUME BaseInv, GoneInv, ProcessDies \/ PowerLost PROVE GoneInv'
  OBVIOUS
<1> USE DEF BaseInv
<1>1. PICK k \in 0..Len(log) :
              /\ Cut(log, log', k)
              /\ \/ ProcessDies /\ k = Len(log) /\ fate' = fate
                 \/ fate' = [m \in Messages |->
                         CASE fate[m] = "here" /\ m \notin Live(log') /\ sync # "always" -> "lost"
                           [] fate[m] = "done" /\ m \in Live(log')                     -> "acked"
                           [] OTHER                                                   -> fate[m]]
  BY CrashCuts DEF FileInv
<1>2. comp'.pc = "idle" /\ ghosts' = ghosts
  BY CrashCuts DEF FileInv, NoComp
<1>3. log \in Seq(Entries) /\ Len(log) \in Nat /\ W(log) \in 0..Len(log) /\ log' \in Seq(Entries)
      /\ W(log') \in 0..Len(log')
  BY <1>1, WholeIff, LenProperties DEF TypeInv, Cut
<1>4. /\ \A x, m : \A i \in 1..k : Is(log', i, x, m) <=> Is(log, i, x, m)
      /\ \A x, m : \A i \in 1..Len(log') : Is(log', i, x, m) /\ x # "torn" => i \in 1..k
      /\ W(log') = (IF W(log) < k THEN W(log) ELSE k) /\ k <= Len(log')
  BY <1>1, <1>3, TornEntry DEF Cut, Is
<1>5. ASSUME NEW m \in Messages, fate'[m] \in {"done", "away"}
      PROVE  /\ fate'[m] = fate[m]
             /\ \/ ProcessDies /\ k = Len(log)
                \/ fate[m] = "away"
                \/ m \notin Live(log')
  <2>1. CASE ProcessDies /\ k = Len(log) /\ fate' = fate
    BY <2>1
  <2>2. CASE fate' = [x \in Messages |->
                         CASE fate[x] = "here" /\ x \notin Live(log') /\ sync # "always" -> "lost"
                           [] fate[x] = "done" /\ x \in Live(log')                     -> "acked"
                           [] OTHER                                                   -> fate[x]]
    BY <2>2, <1>5
  <2> QED BY <1>1, <2>1, <2>2
<1>6. ASSUME NEW m \in Messages, fate'[m] = "away"
      PROVE  \A i \in 1..Len(log') : ~ Is(log', i, "terminal", m)
  <2>1. \A i \in 1..Len(log) : ~ Is(log, i, "terminal", m)
    BY <1>5, <1>6 DEF GoneInv
  <2> QED BY <2>1, <1>3, <1>4
<1>7. ASSUME NEW m \in Messages \ ghosts, fate'[m] \in {"done", "away"}
      PROVE  Gone(log', m)
  <2>0. Gone(log, m)
    BY <1>5, <1>7 DEF GoneInv
  <2>1. CASE ProcessDies /\ k = Len(log)
    BY <2>0, <2>1, <1>3, <1>4 DEF Gone
  <2>2. CASE fate[m] = "away"
    <3>1. \A i \in 1..Len(log) : ~ Is(log, i, "terminal", m)
      BY <2>2 DEF GoneInv
    <3>2. \A i \in 1..Len(log) : ~ Is(log, i, "enqueue", m)
      BY <3>1, <2>0, <1>3 DEF Gone
    <3> QED BY <3>2, <1>3, <1>4 DEF Gone
  <2>3. CASE m \notin Live(log')
    <3>1. \A i \in 1..Len(log') : Is(log', i, "enqueue", m) => i <= W(log')
      <4> SUFFICES ASSUME NEW i \in 1..Len(log'), Is(log', i, "enqueue", m) PROVE i <= W(log')
        OBVIOUS
      <4>1. i \in 1..k /\ i \in 1..Len(log) /\ Is(log, i, "enqueue", m)
        BY <1>3, <1>4
      <4>2. PICK j \in 1..W(log) : i < j
        BY <4>1, <2>0 DEF Gone
      <4> QED BY <4>1, <4>2, <1>3, <1>4
    <3> QED BY <3>1, <2>3, <1>3, DeadIsGone
  <2> QED BY <2>1, <2>2, <2>3, <1>5, <1>7
<1> QED BY <1>2, <1>6, <1>7 DEF GoneInv

(* A recovery leaves what is gone where it is. *)
LEMMA GoneRecover == BaseInv /\ GoneInv /\ Recover => GoneInv'
<1> SUFFICES ASSUME BaseInv, GoneInv, Recover PROVE GoneInv'
  OBVIOUS
<1> USE DEF BaseInv
<1>1. comp'.pc = "idle" /\ log' = Readable(log) /\ mem' = Live(log)
  BY DEF Recover, DownInv, NoComp
<1>2. /\ log \in Seq(Entries) /\ Len(log) \in Nat /\ W(log) \in 0..Len(log) /\ log' \in Seq(Entries)
      /\ Len(log') = W(log) /\ W(log') = W(log)
      /\ \A i \in 1..W(log) : log'[i] = log[i]
  BY <1>1, WholeIff, WholeReadable, LenProperties DEF TypeInv
<1>3. \A x, m : \A i \in 1..W(log) : Is(log', i, x, m) <=> Is(log, i, x, m)
  BY <1>2 DEF Is
<1>4. \A m \in Messages : m \in Live(log') <=> m \in Live(log)
  BY <1>2, <1>3, LiveIff
<1>5. \A m \in Messages : fate'[m] \in {"done", "away"} => fate'[m] = fate[m] /\ m \notin Live(log)
  BY <1>1 DEF Recover
<1>6. ASSUME NEW m \in Messages, fate'[m] \in {"done", "away"} PROVE Gone(log', m)
  BY <1>2, <1>4, <1>5, <1>6, DeadIsGone
<1>7. ASSUME NEW m \in Messages, fate'[m] = "away"
      PROVE  \A i \in 1..Len(log') : ~ Is(log', i, "terminal", m)
  <2>1. \A i \in 1..Len(log) : ~ Is(log, i, "terminal", m)
    BY <1>5, <1>7 DEF GoneInv
  <2> QED BY <2>1, <1>2, <1>3
<1> QED BY <1>1, <1>6, <1>7 DEF GoneInv

(* Every step keeps what is gone from coming back. *)
LEMMA NextGone == BaseInv /\ ApartInv /\ GoneInv /\ [Next]_vars => GoneInv'
<1> SUFFICES ASSUME BaseInv, ApartInv, GoneInv, [Next]_vars PROVE GoneInv'
  OBVIOUS
<1> USE DEF BaseInv
<1>0. fate \in [Messages -> Fates] /\ log \in Seq(Entries) /\ WaitInv /\ comp \in CompStates
  BY DEF TypeInv, FlushInv
<1>1. CASE \/ \E t \in Threads, m \in Messages : BeginEnqueue(t, m) \/ Deliver(t, m)
           \/ \E t \in Threads, ms \in SUBSET Messages : BeginAbsorb(t, ms)
           \/ \E t \in Threads : Open(t) \/ BeginFlush(t)
           \/ SyncAll \/ CloseFile \/ Marks \/ CompactFails \/ UNCHANGED vars
  <2>1. /\ log' = log /\ ghosts' = ghosts /\ fate' = fate
        /\ comp' = comp \/ comp'.pc \notin {"rewrite", "swap"}
    <3>1. CASE \/ \E t \in Threads, m \in Messages : BeginEnqueue(t, m) \/ Deliver(t, m)
               \/ \E t \in Threads, ms \in SUBSET Messages : BeginAbsorb(t, ms)
      BY <3>1 DEF BeginEnqueue, Deliver, BeginAbsorb, disk, history
    <3>2. CASE \E t \in Threads : Open(t) \/ BeginFlush(t)
      BY <3>2 DEF Open, BeginFlush, disk, history
    <3>3. CASE SyncAll \/ CloseFile \/ UNCHANGED vars
      BY <3>3 DEF SyncAll, CloseFile, vars, history
    <3>4. CASE Marks
      <4>1. comp'.pc = "snapshot"
        BY <3>4 DEF Marks, NoComp
      <4> QED BY <3>4, <4>1 DEF Marks, disk, history
    <3>5. CASE CompactFails
      <4>1. comp'.pc = "idle"
        BY <3>5 DEF CompactFails, NoComp
      <4> QED BY <3>5, <4>1 DEF CompactFails, disk, history
    <3> QED BY <1>1, <3>1, <3>2, <3>3, <3>4, <3>5
  <2> QED BY <2>1, GoneSameLog
<1>2. CASE \E t \in Threads, m \in Messages : Ack(t, m)
  <2>1. PICK t \in Threads, m \in Messages : Ack(t, m)
    BY <1>2
  <2>2. /\ log' = log /\ ghosts' = ghosts /\ comp' = comp /\ fate' = [fate EXCEPT ![m] = "acked"]
    BY <2>1 DEF Ack, disk
  <2> QED BY <2>2, <1>0, GoneSameLog
<1>3. ASSUME NEW t \in Threads, EndFlush(t) \/ Wake(t) \/ ReturnDropped(t) PROVE GoneInv'
  <2>1. log' = log /\ ghosts' = ghosts /\ comp' = comp
    BY <1>3, <1>0, EndView
  <2>2. PICK ok \in BOOLEAN : fate' = Told(t, ok, fate)
    BY <1>3, <1>0, EndView
  <2>3. \A m \in Messages : fate'[m] = fate[m] \/ fate'[m] = "here"
    BY <2>2, <1>0, ToldIs
  <2> QED BY <2>1, <2>3, GoneSameLog
<1>4. ASSUME NEW t \in Threads, Publish(t) PROVE GoneInv'
  <2>1. /\ log' = log /\ ghosts' = ghosts /\ comp' = comp
        /\ \A m \in Messages : fate'[m] = fate[m] \/ fate'[m] = "here"
    BY <1>4 DEF Publish, disk
  <2> QED BY <2>1, GoneSameLog
<1>5. CASE DropSlot
  <2>1. /\ log' = log /\ ghosts' = ghosts /\ comp' = comp
        /\ \A m \in Messages : fate'[m] = fate[m] \/ fate'[m] = "leaving"
    BY <1>5 DEF DropSlot, disk
  <2> QED BY <2>1, GoneSameLog
<1>6. CASE Snapshot
  <2>0. /\ log' = log /\ ghosts' = ghosts /\ fate' = fate
    BY <1>6 DEF Snapshot, disk, history
  <2>1. CASE ~ known
    <3>1. comp'.pc = "idle"
      BY <1>6, <2>1 DEF Snapshot, NoComp
    <3> QED BY <3>1, <2>0, GoneSameLog
  <2>2. CASE known
    <3>1. comp'.snap = mem
      BY <1>6, <2>2, <1>0 DEF Snapshot, CompStates
    <3>2. \A m \in mem : fate[m] \in {"here", "back"}
      BY DEF ApartInv
    <3> QED BY <3>1, <3>2, <2>0 DEF GoneInv, Gone, W
  <2> QED BY <2>1, <2>2
<1>7. CASE Rewrite
  <2>1. /\ comp'.snap = comp.snap /\ comp'.mark = comp.mark /\ comp'.stale = comp.stale
        /\ comp.pc = "rewrite" /\ log' = log /\ ghosts' = ghosts /\ fate' = fate
    BY <1>7, <1>0 DEF Rewrite, CompStates, disk, history
  <2> QED BY <2>1 DEF GoneInv, Gone, W
<1>8. CASE RemoveFile
  <2>1. /\ log' = <<>> /\ Len(<<>>) = 0 /\ ghosts' = ghosts
        /\ comp' = IF comp.pc = "idle" THEN comp ELSE [comp EXCEPT !.stale = TRUE]
    BY <1>8, EmptySeq DEF RemoveFile
  <2>2. comp'.pc \notin {"rewrite", "swap"} \/ comp'.stale
    BY <2>1, <1>0 DEF CompStates
  <2> QED BY <2>1, <2>2 DEF GoneInv, Gone
<1>9. ASSUME NEW t \in Threads, WriteShort(t) PROVE GoneInv'
  <2>1. log' = Append(log, Torn) /\ ghosts' = ghosts /\ comp' = comp /\ fate' = fate
    BY <1>9 DEF WriteShort
  <2> HIDE DEF BaseInv
  <2> QED BY <2>1, TornEntry, GoneGrows
<1>10. ASSUME NEW t \in Threads, Write(t) PROVE GoneInv'
  <2> DEFINE r == Its(thr[t])
             m == thr[t].m
  <2>1. /\ m \in Messages /\ r \in Entries /\ r.kind # "torn"
        /\ log' = IF handle = "path" THEN Append(log, r) ELSE log
    BY <1>10, WriteLog
  <2>2. /\ r.id = m /\ r.kind = (IF thr[t].op = "absorb" THEN "enqueue" ELSE thr[t].op)
    BY DEF Its, Record
  <2>3. ghosts' = ghosts /\ comp' = comp
    BY <1>10, WriteView
  <2>4. /\ thr[t].op \in {"enqueue", "absorb", "attempt", "terminal"}
        /\ thr[t].op \in Bringing => WriteFate(t) = [fate EXCEPT ![m] = "coming"]
        /\ thr[t].op = "terminal" => WriteFate(t) = (IF Sound THEN [fate EXCEPT ![m] = "done"] ELSE fate)
        /\ thr[t].op = "attempt" => WriteFate(t) = fate
    BY <1>10, WriteView
  <2>5. WriteFate(t) \in [Messages -> Fates]
    BY <2>1, <2>4, <1>0 DEF Bringing, Fates
  <2>6. \A x \in Messages : fate'[x] = WriteFate(t)[x] \/ fate'[x] = "here"
    <3>1. fate' = WriteFate(t) \/ fate' = Told(t, TRUE, WriteFate(t))
      BY <1>10, WriteView
    <3>2. ASSUME fate' = Told(t, TRUE, WriteFate(t))
          PROVE  \A x \in Messages : fate'[x] = WriteFate(t)[x] \/ fate'[x] = "here"
      BY <3>2, <2>5, ToldIs
    <3> QED BY <3>1, <3>2
  <2>7. Sound => W(log) = Len(log) /\ handle = "path"
    BY <1>0, WholeSound DEF Sound
  <2>8. thr[t].op = "terminal" => fate[m] = "acked"
    BY DEF ApartInv
  <2> HIDE DEF r, m
  <2>9. \A x \in Messages : fate'[x] \in {"done", "away"} =>
          /\ fate'[x] = fate[x] => /\ r.kind = "enqueue" => r.id # x
                                   /\ r.kind = "terminal" /\ r.id = x => fate[x] # "away"
          /\ fate'[x] # fate[x] => /\ r.kind = "terminal" /\ r.id = x /\ fate'[x] = "done"
                                   /\ W(log) = Len(log) /\ handle = "path"
    <3> SUFFICES ASSUME NEW x \in Messages, fate'[x] \in {"done", "away"}
          PROVE
          /\ fate'[x] = fate[x] => /\ r.kind = "enqueue" => r.id # x
                                   /\ r.kind = "terminal" /\ r.id = x => fate[x] # "away"
          /\ fate'[x] # fate[x] => /\ r.kind = "terminal" /\ r.id = x /\ fate'[x] = "done"
                                   /\ W(log) = Len(log) /\ handle = "path"
      OBVIOUS
    <3>1. fate'[x] = WriteFate(t)[x]
      BY <2>6
    <3>2. CASE thr[t].op \in Bringing
      BY <3>1, <3>2, <2>1, <2>2, <2>4, <1>0 DEF Bringing
    <3>3. CASE thr[t].op = "terminal"
      BY <3>1, <3>3, <2>1, <2>2, <2>4, <2>7, <2>8, <1>0
    <3>4. CASE thr[t].op = "attempt"
      BY <3>1, <3>4, <2>1, <2>2, <2>4, <1>0
    <3> QED BY <3>2, <3>3, <3>4, <2>4 DEF Bringing
  <2>10. CASE handle = "path"
    <3>1. log' = Append(log, r)
      BY <2>1, <2>10
    <3> HIDE DEF BaseInv
    <3> QED BY <3>1, <2>1, <2>3, <2>9, GoneGrows
  <2>11. CASE handle # "path"
    <3>1. log' = log /\ \A x \in Messages : fate'[x] \in {"done", "away"} => fate'[x] = fate[x]
      BY <2>1, <2>9, <2>11
    <3> QED BY <3>1, <2>3, GoneSameLog
  <2> QED BY <2>10, <2>11
<1> QED BY <1>1, <1>2, <1>3, <1>4, <1>5, <1>6, <1>7, <1>8, <1>9, <1>10, GoneSwap, GoneCrash, GoneRecover
        DEF Next, Step

(* What the run checks as StaysGone: no replay brings back a message whose *)
(* end is in the log or whose log was removed, unless ghosts names it.     *)
THEOREM GoneForGood == Spec => []StaysGone
<1>1. Init => BaseInv /\ ApartInv /\ GoneInv
  BY InitBase, InitApart, InitGone
<1>2. (BaseInv /\ ApartInv /\ GoneInv) /\ [Next]_vars => (BaseInv /\ ApartInv /\ GoneInv)'
  BY NextBase, NextApart, NextGone
<1>3. BaseInv /\ ApartInv /\ GoneInv => StaysGone
  BY GoneIsDead DEF BaseInv, TypeInv, GoneInv, StaysGone
<1> QED BY <1>1, <1>2, <1>3, PTL DEF Spec

-----------------------------------------------------------------------------
(* ReplaysOnce.  No enqueue record of a message stands behind a terminal   *)
(* record of it - so that only the first one finds it not live. *)

NoLater(s, m) ==
  \A i, j \in 1..Len(s) : Is(s, i, "terminal", m) /\ Is(s, j, "enqueue", m) => j < i
NoEnd(s, m) == \A i \in 1..Len(s) : ~ Is(s, i, "terminal", m)
EndsSeen(s, m) == \A i \in 1..Len(s) : Is(s, i, "terminal", m) => i <= W(s)

Fresh == {"new", "coming", "here", "away", "leaving"}

OnceInv ==
  \A m \in Messages \ again :
     /\ NoLater(log, m)
     /\ fate[m] \in Fresh \/ m \in mem => NoEnd(log, m)
     /\ fate[m] = "done" => EndsSeen(log, m)

(* An enqueue brings a message in that has not been here before. *)
FirstInv == \A t \in Threads : thr[t].op = "enqueue" => fate[thr[t].m] \in {"new", "coming"}

(* Without an enqueue record behind a terminal one, a message is listed    *)
(* once.                                                                   *)
LEMMA OneListing ==
  ASSUME NEW s \in Seq(Entries), NEW m \in Messages, NoLater(s, m)
  PROVE  Listings(s, m) <= 1
<1> DEFINE r == Readable(s)
           S == {i \in DOMAIN r : /\ r[i].kind = "enqueue" /\ r[i].id = m
                                  /\ m \notin Live(SubSeq(r, 1, i - 1))}
<1>1. /\ r \in Seq(Entries) /\ Len(r) = W(s) /\ W(r) = W(s)
      /\ \A i \in 1..W(s) : r[i] = s[i]
      /\ W(s) \in 0..Len(s) /\ Len(s) \in Nat
  BY WholeReadable, WholeIff, LenProperties
<1>2. DOMAIN r = 1..W(s)
  BY <1>1, LenProperties
<1> HIDE DEF r
<1>3. ASSUME NEW i \in S, NEW j \in S PROVE ~ (i < j)
  <2> SUFFICES ASSUME i < j PROVE FALSE
    OBVIOUS
  <2>1. i \in 1..W(s) /\ j \in 1..W(s) /\ Is(s, i, "enqueue", m) /\ Is(s, j, "enqueue", m)
    BY <1>1, <1>2 DEF Is
  <2> DEFINE k == j - 1
             p == SubSeq(r, 1, k)
  <2>2. k \in 0..Len(r) /\ k \in 0..W(s) /\ i \in 1..k
    BY <1>1, <2>1
  <2>3. p \in Seq(Entries) /\ W(p) = k /\ \A l \in 1..k : p[l] = r[l]
    BY <1>1, <2>2, WholePrefix
  <2> HIDE DEF p, k
  <2>4. \A l \in 1..k : l \in 1..W(s) /\ l \in 1..Len(s) /\ l < j /\ p[l] = s[l]
    BY <1>1, <2>1, <2>2, <2>3 DEF k
  <2>5. \A l \in 1..k : ~ Is(p, l, "terminal", m)
    <3> SUFFICES ASSUME NEW l \in 1..k, Is(p, l, "terminal", m) PROVE FALSE
      OBVIOUS
    <3>1. Is(s, l, "terminal", m) /\ l < j /\ l \in 1..Len(s) /\ j \in 1..Len(s)
      BY <2>1, <2>4, <1>1 DEF Is
    <3> QED BY <3>1, <2>1 DEF NoLater
  <2>6. Is(p, i, "enqueue", m)
    BY <2>1, <2>2, <2>4 DEF Is
  <2>7. m \in Live(p)
    BY <2>2, <2>3, <2>5, <2>6, LiveIff
  <2> QED BY <2>7 DEF p, k
<1>4. S \subseteq 1..W(s)
  BY <1>2
<1>5. \A i, j \in S : i = j
  BY <1>1, <1>3, <1>4
<1> HIDE DEF S
<1>6. Cardinality(S) <= 1
  <2>1. CASE S = {}
    BY <2>1, FS_EmptySet
  <2>2. CASE S # {}
    <3>1. PICK i \in S : TRUE
      BY <2>2
    <3>2. S = {i}
      BY <3>1, <1>5
    <3>3. Cardinality({i}) = 1
      BY FS_Singleton
    <3> QED BY <3>2, <3>3
  <2> QED BY <2>1, <2>2
<1> QED BY <1>6 DEF Listings, r, S

(* An empty log lists nothing. *)
LEMMA InitOnce == Init => FirstInv /\ OnceInv
<1> SUFFICES ASSUME Init PROVE FirstInv /\ OnceInv
  OBVIOUS
<1>1. Len(log) = 0
  BY EmptySeq DEF Init
<1>2. \A t \in Threads : thr[t].op = "none"
  BY IdleFields DEF Init
<1> QED BY <1>1, <1>2 DEF FirstInv, OnceInv, NoLater, NoEnd, EndsSeen

(* One more record. *)
LEMMA OnceAppend ==
  ASSUME NEW s \in Seq(Entries), NEW r \in Entries, NEW m
  PROVE  /\ NoLater(s, m) /\ (~ (r.kind = "enqueue" /\ r.id = m) \/ NoEnd(s, m))
              => NoLater(Append(s, r), m)
         /\ NoEnd(s, m) /\ ~ (r.kind = "terminal" /\ r.id = m) => NoEnd(Append(s, r), m)
         /\ EndsSeen(s, m) /\ (r.kind = "terminal" /\ r.id = m => W(s) = Len(s))
              => EndsSeen(Append(s, r), m)
<1> DEFINE q == Append(s, r)
<1>1. Len(s) \in Nat /\ W(s) \in 0..Len(s)
  BY WholeIff, LenProperties
<1>2. /\ Len(q) = Len(s) + 1
      /\ \A i \in 1..Len(s) : q[i] = s[i]
      /\ q[Len(s) + 1] = r
      /\ W(q) = IF W(s) = Len(s) /\ r.kind # "torn" THEN Len(s) + 1 ELSE W(s)
  BY <1>1, WholeAppend
<1> HIDE DEF q
<1>3. \A k : \A i \in 1..Len(s) : Is(q, i, k, m) <=> Is(s, i, k, m)
  BY <1>2 DEF Is
<1>4. \A k : Is(q, Len(s) + 1, k, m) <=> r.kind = k /\ r.id = m
  BY <1>2 DEF Is
<1>5. 1..Len(q) = 1..Len(s) \cup {Len(s) + 1}
  BY <1>1, <1>2
<1>6. ASSUME NoLater(s, m), ~ (r.kind = "enqueue" /\ r.id = m) \/ NoEnd(s, m) PROVE NoLater(q, m)
  <2> SUFFICES ASSUME NEW i \in 1..Len(q), NEW j \in 1..Len(q),
                      Is(q, i, "terminal", m), Is(q, j, "enqueue", m)
               PROVE  j < i
    BY DEF NoLater
  <2>1. CASE i \in 1..Len(s) /\ j \in 1..Len(s)
    BY <2>1, <1>3, <1>6 DEF NoLater
  <2>2. CASE i \in 1..Len(s) /\ j = Len(s) + 1
    BY <2>2, <1>3, <1>4, <1>6 DEF NoEnd
  <2>3. CASE i = Len(s) + 1 /\ j \in 1..Len(s)
    BY <2>3, <1>1
  <2>4. CASE i = Len(s) + 1 /\ j = Len(s) + 1
    BY <2>4, <1>4
  <2> QED BY <2>1, <2>2, <2>3, <2>4, <1>5
<1>7. ASSUME NoEnd(s, m), ~ (r.kind = "terminal" /\ r.id = m) PROVE NoEnd(q, m)
  BY <1>3, <1>4, <1>5, <1>7 DEF NoEnd
<1>8. ASSUME EndsSeen(s, m), r.kind = "terminal" /\ r.id = m => W(s) = Len(s) PROVE EndsSeen(q, m)
  <2> SUFFICES ASSUME NEW i \in 1..Len(q), Is(q, i, "terminal", m) PROVE i <= W(q)
    BY DEF EndsSeen
  <2>1. CASE i \in 1..Len(s)
    <3>1. i <= W(s)
      BY <2>1, <1>3, <1>8 DEF EndsSeen
    <3> QED BY <3>1, <1>1, <1>2
  <2>2. CASE i = Len(s) + 1
    BY <2>2, <1>1, <1>2, <1>4, <1>8
  <2> QED BY <2>1, <2>2, <1>5
<1> QED BY <1>6, <1>7, <1>8 DEF q

(* What is left of a log. *)
LEMMA OnceCut ==
  ASSUME NEW s \in Seq(Entries), NEW q, NEW k, Cut(s, q, k), NEW m
  PROVE  /\ NoLater(s, m) => NoLater(q, m)
         /\ NoEnd(s, m) => NoEnd(q, m)
         /\ EndsSeen(s, m) => EndsSeen(q, m)
<1>1. Len(s) \in Nat /\ W(s) \in 0..Len(s) /\ k \in 0..Len(s) /\ q \in Seq(Entries)
  BY WholeIff, LenProperties DEF Cut
<1>2. ASSUME NEW i \in 1..Len(q), NEW x, x # "torn", Is(q, i, x, m)
      PROVE  i \in 1..k /\ i \in 1..Len(s) /\ Is(s, i, x, m)
  BY <1>1, <1>2, TornEntry DEF Cut, Is
<1>3. NoLater(s, m) => NoLater(q, m)
  BY <1>2 DEF NoLater
<1>4. NoEnd(s, m) => NoEnd(q, m)
  BY <1>2 DEF NoEnd
<1>5. ASSUME EndsSeen(s, m), NEW i \in 1..Len(q), Is(q, i, "terminal", m) PROVE i <= W(q)
  <2>1. i \in 1..k /\ i <= W(s)
    BY <1>2, <1>5 DEF EndsSeen
  <2> QED BY <2>1, <1>1 DEF Cut
<1> QED BY <1>3, <1>4, <1>5 DEF EndsSeen

(* What a compaction makes of it. *)
LEMMA OnceSplice ==
  ASSUME NEW s \in Seq(Entries), NEW r \in Seq(Entries), NEW a \in 0..Len(s), NEW q,
         SplicedAt(q, r, s, a),
         \A i \in 1..Len(r) : r[i].kind \in {"enqueue", "attempt"}, NEW m
  PROVE  /\ NoLater(s, m) => NoLater(q, m)
         /\ NoEnd(s, m) => NoEnd(q, m)
         /\ EndsSeen(s, m) => EndsSeen(q, m)
<1> DEFINE n == Len(r)
<1>1. Len(s) \in Nat /\ W(s) \in 0..Len(s) /\ n \in Nat
  BY WholeIff, LenProperties
<1>2. /\ Len(q) = n + (Len(s) - a)
      /\ \A i \in 1..n : q[i] = r[i]
      /\ \A i \in (a + 1)..Len(s) : q[n + (i - a)] = s[i]
      /\ \A i \in (a + 1)..W(s) : n + (i - a) \in 1..W(q)
  BY DEF SplicedAt
<1>3. \A i \in 1..n : ~ Is(q, i, "terminal", m)
  BY <1>2 DEF Is
<1> HIDE DEF n
<1>4. ASSUME NEW i \in 1..Len(q), i > n
      PROVE  \E l \in (a + 1)..Len(s) : /\ i = n + (l - a) /\ l \in 1..Len(s)
                                        /\ \A k : Is(q, i, k, m) <=> Is(s, l, k, m)
  <2> DEFINE l == (i - n) + a
  <2>1. l \in (a + 1)..Len(s) /\ i = n + (l - a) /\ l \in 1..Len(s)
    BY <1>1, <1>2, <1>4
  <2> HIDE DEF l
  <2>2. q[i] = s[l]
    BY <2>1, <1>2
  <2> QED BY <2>1, <2>2 DEF Is
<1>5. ASSUME NEW i \in 1..Len(q), Is(q, i, "terminal", m) PROVE i > n
  <2>1. i > n \/ i \in 1..n
    BY <1>1, <1>2
  <2> QED BY <2>1, <1>3, <1>5
<1>6. ASSUME NoLater(s, m) PROVE NoLater(q, m)
  <2> SUFFICES ASSUME NEW i \in 1..Len(q), NEW j \in 1..Len(q),
                      Is(q, i, "terminal", m), Is(q, j, "enqueue", m)
               PROVE  j < i
    BY DEF NoLater
  <2>1. PICK l \in (a + 1)..Len(s) : i = n + (l - a) /\ l \in 1..Len(s) /\ Is(s, l, "terminal", m)
    BY <1>4, <1>5
  <2>2. CASE j > n
    <3>1. PICK h \in (a + 1)..Len(s) : j = n + (h - a) /\ h \in 1..Len(s) /\ Is(s, h, "enqueue", m)
      BY <2>2, <1>4
    <3>2. h < l
      BY <2>1, <3>1, <1>6 DEF NoLater
    <3> QED BY <3>1, <3>2, <2>1, <1>1
  <2>3. CASE ~ (j > n)
    BY <2>3, <1>5, <1>1, <1>2
  <2> QED BY <2>2, <2>3
<1>7. ASSUME NoEnd(s, m) PROVE NoEnd(q, m)
  BY <1>4, <1>5, <1>7 DEF NoEnd
<1>8. ASSUME EndsSeen(s, m) PROVE EndsSeen(q, m)
  <2> SUFFICES ASSUME NEW i \in 1..Len(q), Is(q, i, "terminal", m) PROVE i <= W(q)
    BY DEF EndsSeen
  <2>1. PICK l \in (a + 1)..Len(s) : i = n + (l - a) /\ l \in 1..Len(s) /\ Is(s, l, "terminal", m)
    BY <1>4, <1>5
  <2>2. l <= W(s)
    BY <2>1, <1>8 DEF EndsSeen
  <2>3. l \in (a + 1)..W(s)
    BY <2>1, <2>2, <1>1
  <2>4. i \in 1..W(q)
    BY <2>1, <2>3, <1>2
  <2> QED BY <2>4
<1> QED BY <1>6, <1>7, <1>8

(* What a step does to the fates of messages it does not bring in itself. *)
LEMMA NextFirst == BaseInv /\ ApartInv /\ FirstInv /\ [Next]_vars => FirstInv'
<1> SUFFICES ASSUME BaseInv, ApartInv, FirstInv, [Next]_vars PROVE FirstInv'
  OBVIOUS
<1> USE DEF BaseInv
<1>0. /\ fate \in [Messages -> Fates] /\ thr \in [Threads -> ThreadStates] /\ WaitInv
      /\ \A t \in Threads : ThreadOK(thr[t])
  BY DEF TypeInv, FlushInv
<1>01. ASSUME NEW t \in Threads, thr[t].op = "enqueue"
       PROVE  /\ thr[t].m \in Messages /\ thr[t].m \in ComingOf(thr[t])
              /\ thr[t].pc \notin {"idle", "publish"}
  <2>1. thr[t].pc \notin {"idle", "publish"}
    BY <1>01, <1>0, IdleFields DEF ThreadOK
  <2> QED BY <2>1, <1>01, <1>0, Views DEF Bringing, ThreadOK
<1>02. ASSUME NEW t \in Threads, Others(t), NEW f, f = fate,
              thr'[t].op = "enqueue" => fate'[thr'[t].m] \in {"new", "coming"},
              \A x \in Messages : fate'[x] = fate[x] \/ x \in ComingOf(thr[t]) \/ fate[x] \notin {"new", "coming"}
       PROVE  FirstInv'
  <2> SUFFICES ASSUME NEW u \in Threads, thr'[u].op = "enqueue", u # t
               PROVE  fate'[thr'[u].m] \in {"new", "coming"}
    BY <1>02 DEF FirstInv
  <2>1. thr'[u] = thr[u] /\ fate[thr[u].m] \in {"new", "coming"}
    BY <1>02 DEF Others, FirstInv
  <2>2. thr[u].m \in Messages /\ thr[u].m \notin ComingOf(thr[t])
    BY <1>01, <2>1 DEF ApartInv
  <2> QED BY <2>1, <2>2, <1>02
<1>1. CASE UNCHANGED vars \/ SyncAll \/ Marks \/ Snapshot \/ Rewrite \/ Swap \/ CompactFails
  <2>1. thr' = thr /\ fate' = fate
    BY <1>1 DEF vars, SyncAll, Marks, Snapshot, Rewrite, Swap, CompactFails, history
  <2> QED BY <2>1 DEF FirstInv
<1>2. CASE CloseFile
  <2>1. fate' = fate /\ \A t \in Threads : Elsewhere(thr[t], thr'[t])
    BY <1>2, <1>0, CloseView
  <2> QED BY <2>1 DEF FirstInv, Elsewhere
<1>3. CASE DropSlot \/ RemoveFile
  <2>1. /\ thr' = thr
        /\ \A x \in Messages : fate'[x] = fate[x] \/ x \in mem \/ fate[x] = "leaving"
    BY <1>3 DEF DropSlot, RemoveFile, memory
  <2>2. \A t \in Threads : thr[t].op = "enqueue" => thr[t].m \notin mem /\ thr[t].m \in Messages
    BY <1>01 DEF ApartInv
  <2> QED BY <2>1, <2>2 DEF FirstInv
<1>4. CASE ProcessDies \/ PowerLost
  <2>1. \A t \in Threads : thr'[t] = Idle
    BY <1>4 DEF ProcessDies, PowerLost, Stop
  <2> QED BY <2>1, IdleFields DEF FirstInv
<1>5. CASE Recover
  <2>1. \A t \in Threads : thr'[t] = Idle
    BY <1>5 DEF Recover, DownInv
  <2> QED BY <2>1, IdleFields DEF FirstInv
<1>6. ASSUME NEW t \in Threads, NEW m \in Messages, BeginEnqueue(t, m) PROVE FirstInv'
  <2>1. Others(t) /\ thr'[t].m = m /\ fate' = fate /\ fate[m] = "new"
    BY <1>6, BeginView DEF BeginEnqueue, history
  <2> QED BY <2>1, <1>02
<1>7. ASSUME NEW t \in Threads, NEW m \in Messages, Deliver(t, m) \/ Ack(t, m) PROVE FirstInv'
  <2>1. Others(t) /\ thr'[t].op # "enqueue"
    BY <1>7, BeginView
  <2>2. \A x \in Messages : fate'[x] = fate[x] \/ fate[x] \notin {"new", "coming"}
    <3>1. \A x \in Messages : fate'[x] = fate[x] \/ (x = m /\ m \in mem)
      BY <1>7, <1>0 DEF Deliver, Ack, history
    <3> QED BY <3>1 DEF ApartInv
  <2> QED BY <2>1, <2>2, <1>02
<1>8. ASSUME NEW t \in Threads, NEW ms \in SUBSET Messages, BeginAbsorb(t, ms) PROVE FirstInv'
  <2>1. Others(t) /\ thr'[t].op = "absorb"
    BY <1>8, BeginView
  <2>2. fate' = fate
    BY <1>8 DEF BeginAbsorb, history
  <2> QED BY <2>1, <2>2, <1>02
<1>9. ASSUME NEW t \in Threads, Open(t) \/ BeginFlush(t) PROVE FirstInv'
  <2>1. Others(t) /\ Elsewhere(thr[t], thr'[t]) /\ fate' = fate
    BY <1>9, GoView DEF Open, BeginFlush, history
  <2>2. thr'[t].op = "enqueue" => fate'[thr'[t].m] \in {"new", "coming"}
    BY <2>1 DEF Elsewhere, FirstInv
  <2> QED BY <2>1, <2>2, <1>02
<1>10. ASSUME NEW t \in Threads, NEW ok \in BOOLEAN, Return(t, ok), thr[t].m \in Messages,
              thr[t].op \in Bringing /\ thr[t].pc # "publish",
              \A x \in Messages : x = thr[t].m \/ fate'[x] = fate[x]
       PROVE  FirstInv'
  <2>1. Others(t) /\ thr'[t].op # "enqueue"
    BY <1>10, ReturnView, IdleFields
  <2>2. thr[t].m \in ComingOf(thr[t])
    BY <1>10, <1>0, Views
  <2> QED BY <2>1, <2>2, <1>10, <1>02
<1>11. ASSUME NEW t \in Threads, NEW ok \in BOOLEAN, Return(t, ok), thr[t].m \in Messages,
              thr[t].op \notin Bringing,
              \A x \in Messages : fate'[x] = fate[x] \/ fate[x] \notin {"new", "coming"}
       PROVE  FirstInv'
  <2>1. Others(t) /\ thr'[t].op # "enqueue"
    BY <1>11, ReturnView, IdleFields
  <2> QED BY <2>1, <1>11, <1>02
<1>12. ASSUME NEW t \in Threads, NEW ok \in BOOLEAN, NEW f \in [Messages -> Fates], fate' = Told(t, ok, f)
       PROVE  \A x \in Messages : x = thr[t].m \/ fate'[x] = f[x]
  BY <1>12 DEF Told
<1>13. ASSUME NEW t \in Threads, WriteShort(t) PROVE FirstInv'
  <2>1. Return(t, FALSE) /\ fate' = fate /\ thr[t].m \in Messages /\ thr[t].pc = "write"
    BY <1>13, WriteShortLog DEF WriteShort
  <2> QED BY <2>1, <1>10, <1>11
<1>14. ASSUME NEW t \in Threads, EndFlush(t) \/ Wake(t) \/ ReturnDropped(t) PROVE FirstInv'
  <2>1. PICK ok \in BOOLEAN : Return(t, ok) /\ fate' = Told(t, ok, fate)
    BY <1>14, <1>0, EndView
  <2>2. thr[t].m \in Messages /\ thr[t].pc # "publish"
    BY <1>14, <1>0, EndView
  <2>3. CASE thr[t].op \in Bringing
    <3>1. \A x \in Messages : x = thr[t].m \/ fate'[x] = fate[x]
      BY <2>1, <1>12, <1>0
    <3> QED BY <3>1, <2>1, <2>2, <2>3, <1>10
  <2>4. CASE thr[t].op \notin Bringing
    <3>1. fate' = fate
      BY <2>1, <2>4 DEF Told, Bringing
    <3> QED BY <3>1, <2>1, <2>2, <2>4, <1>11
  <2> QED BY <2>3, <2>4
<1>15. ASSUME NEW t \in Threads, Write(t), NeedsFlush(t) PROVE FirstInv'
  <2>1. /\ fate' = [fate EXCEPT ![thr[t].m] = "coming"] /\ thr[t].pc = "write"
        /\ thr[t].op \in Bringing /\ thr[t].m \in Messages
    BY <1>15, WriteView DEF NeedsFlush, Bringing
  <2>2. Others(t) /\ Elsewhere(thr[t], thr'[t])
    BY <1>15, GoView
  <2>3. thr[t].m \in ComingOf(thr[t])
    BY <2>1, <1>0, Views
  <2>4. fate'[thr'[t].m] = "coming"
    BY <2>1, <2>2, <1>0 DEF Elsewhere
  <2>5. \A x \in Messages : x = thr[t].m \/ fate'[x] = fate[x]
    BY <2>1, <1>0
  <2> QED BY <2>2, <2>3, <2>4, <2>5, <1>02
<1>16. ASSUME NEW t \in Threads, Write(t), ~ NeedsFlush(t) PROVE FirstInv'
  <2>1. /\ Return(t, TRUE) /\ fate' = Told(t, TRUE, WriteFate(t)) /\ thr[t].m \in Messages
        /\ thr[t].pc = "write"
        /\ thr[t].op \in Bringing => WriteFate(t) = [fate EXCEPT ![thr[t].m] = "coming"]
        /\ thr[t].op = "terminal" =>
             WriteFate(t) = IF Sound THEN [fate EXCEPT ![thr[t].m] = "done"] ELSE fate
        /\ thr[t].op = "attempt" => WriteFate(t) = fate
        /\ thr[t].op \in {"enqueue", "absorb", "attempt", "terminal"}
    BY <1>16, WriteView
  <2>2. CASE thr[t].op \in Bringing
    <3>1. WriteFate(t) \in [Messages -> Fates] /\ \A x \in Messages : x = thr[t].m \/ WriteFate(t)[x] = fate[x]
      BY <2>1, <2>2, <1>0 DEF Fates
    <3>2. \A x \in Messages : x = thr[t].m \/ fate'[x] = WriteFate(t)[x]
      BY <2>1, <3>1, <1>12
    <3>3. \A x \in Messages : x = thr[t].m \/ fate'[x] = fate[x]
      BY <3>1, <3>2
    <3> QED BY <2>1, <2>2, <3>3, <1>10
  <2>3. CASE thr[t].op \notin Bringing
    <3>1. fate' = WriteFate(t)
      BY <2>1, <2>3 DEF Told, Bringing
    <3>2. thr[t].op = "terminal" => fate[thr[t].m] = "acked"
      BY DEF ApartInv
    <3>3. \A x \in Messages : fate'[x] = fate[x] \/ fate[x] \notin {"new", "coming"}
      BY <2>1, <2>3, <3>1, <3>2, <1>0 DEF Bringing
    <3> QED BY <2>1, <2>3, <3>3, <1>11
  <2> QED BY <2>2, <2>3
<1>17. ASSUME NEW t \in Threads, Publish(t) PROVE FirstInv'
  <2>1. Others(t) /\ thr[t].pc = "publish" /\ thr'[t] = Idle
    BY <1>17, GoView
  <2>2. ComingOf(thr[t]) = thr[t].got
    BY <2>1, <1>0, Views
  <2>3. \A x \in Messages : fate'[x] = fate[x] \/ x \in ComingOf(thr[t])
    BY <1>17, <2>2 DEF Publish
  <2> QED BY <2>1, <2>3, <1>02, IdleFields
<1> QED BY <1>1, <1>2, <1>3, <1>4, <1>5, <1>6, <1>7, <1>8, <1>9, <1>13, <1>14, <1>15, <1>16, <1>17
        DEF Next, Step

(* Steps that leave the log alone. *)
LEMMA OnceSame ==
  ASSUME OnceInv, log' = log, again \subseteq again',
         \A x \in Messages :
            /\ fate'[x] \in Fresh \/ x \in mem' => fate[x] \in Fresh \/ x \in mem
            /\ fate'[x] = "done" => fate[x] = "done"
  PROVE  OnceInv'
<1> SUFFICES ASSUME NEW m \in Messages \ again'
             PROVE  /\ NoLater(log', m)
                    /\ fate'[m] \in Fresh \/ m \in mem' => NoEnd(log', m)
                    /\ fate'[m] = "done" => EndsSeen(log', m)
  BY DEF OnceInv, NoLater, NoEnd, EndsSeen, W
<1>1. m \in Messages \ again
  OBVIOUS
<1> QED BY <1>1 DEF OnceInv

(* An append that is over. *)
LEMMA OnceReturn ==
  ASSUME BaseInv, ApartInv, OnceInv, log' = log, again' = again, NEW t \in Threads,
         NEW ok \in BOOLEAN, Return(t, ok), thr[t].m \in Messages, fate' = Told(t, ok, fate),
         thr[t].op = "enqueue" /\ ok => fate[thr[t].m] = "coming"
  PROVE  OnceInv'
<1>1. fate \in [Messages -> Fates]
  BY DEF BaseInv, TypeInv
<1>2. mem' = mem \/ (thr[t].op = "enqueue" /\ ok /\ mem' = mem \cup {thr[t].m})
  BY DEF Return
<1>3. \A x \in Messages : fate'[x] = fate[x] \/ (fate'[x] = "here" /\ x = thr[t].m /\ fate[x] = "coming")
  BY <1>1, ToldIs
<1>4. \A x \in mem' : x \in mem \/ fate[x] = "coming"
  BY <1>2
<1> QED BY <1>3, <1>4, OnceSame DEF Fresh

(* A record is appended, or written to a file that has no name. *)
LEMMA OnceGrows ==
  ASSUME OnceInv, log \in Seq(Entries), NEW r \in Entries, log' \in {log, Append(log, r)},
         again \subseteq again',
         \A x \in Messages \ again' :
            /\ r.kind = "enqueue" /\ r.id = x => NoEnd(log, x)
            /\ fate'[x] \in Fresh \/ x \in mem' => /\ ~ (r.kind = "terminal" /\ r.id = x)
                                                   /\ NoEnd(log, x)
            /\ fate'[x] = "done" => /\ EndsSeen(log, x)
                                    /\ r.kind = "terminal" /\ r.id = x => W(log) = Len(log)
  PROVE  OnceInv'
<1> SUFFICES ASSUME NEW m \in Messages \ again'
             PROVE  /\ NoLater(log', m)
                    /\ fate'[m] \in Fresh \/ m \in mem' => NoEnd(log', m)
                    /\ fate'[m] = "done" => EndsSeen(log', m)
  BY DEF OnceInv, NoLater, NoEnd, EndsSeen, W
<1>1. m \in Messages \ again /\ NoLater(log, m)
  BY DEF OnceInv
<1>2. CASE log' = Append(log, r)
  BY <1>1, <1>2, OnceAppend
<1>3. CASE log' = log
  BY <1>1, <1>3
<1> QED BY <1>2, <1>3

(* A message that is brought in has no end in the log, unless again names  *)
(* it now. *)
LEMMA NoEndYet ==
  ASSUME BaseInv, ApartInv, FirstInv, OnceInv, NEW t \in Threads, Write(t),
         thr[t].op \in Bringing, thr[t].m \notin again'
  PROVE  NoEnd(log, thr[t].m)
<1> DEFINE m == thr[t].m
<1>1. /\ thr[t].pc = "write" /\ m \in Messages /\ log \in Seq(Entries)
      /\ m \notin again /\ m \notin again'
      /\ again' = IF thr[t].op = "absorb" /\ m \notin Live(log) /\ LastOf(Readable(log), "terminal", m) > 0
                  THEN again \cup {m} ELSE again
  BY WriteView DEF Write, BaseInv, TypeInv
<1>2. m \in ComingOf(thr[t])
  BY <1>1, Views DEF BaseInv, TypeInv
<1>3. fate[m] \in {"new", "coming", "away", "done"}
  BY <1>2 DEF ApartInv
<1> HIDE DEF m
<1>4. CASE fate[m] # "done"
  BY <1>1, <1>3, <1>4 DEF OnceInv, Fresh, m
<1>5. CASE fate[m] = "done"
  <2>1. thr[t].op = "absorb"
    BY <1>5 DEF FirstInv, Bringing, m
  <2>2. EndsSeen(log, m) /\ NoLater(log, m)
    BY <1>1, <1>5 DEF OnceInv
  <2> SUFFICES ASSUME NEW i \in 1..Len(log), Is(log, i, "terminal", m) PROVE FALSE
    BY DEF NoEnd, m
  <2>3. /\ Len(log) \in Nat /\ W(log) \in 0..Len(log)
        /\ Readable(log) \in Seq(Entries) /\ Len(Readable(log)) = W(log)
        /\ \A j \in 1..W(log) : Readable(log)[j] = log[j]
    BY <1>1, WholeIff, WholeReadable, LenProperties
  <2>4. i \in 1..W(log)
    BY <2>2, <2>3 DEF EndsSeen
  <2>5. Is(Readable(log), i, "terminal", m)
    BY <2>3, <2>4 DEF Is
  <2>6. LastOf(Readable(log), "terminal", m) > 0
    BY <2>3, <2>4, <2>5, LastOfIs
  <2>7. m \notin Live(log)
    <3> SUFFICES ASSUME m \in Live(log) PROVE FALSE
      OBVIOUS
    <3>1. PICK e \in 1..W(log) : /\ Is(log, e, "enqueue", m)
                                 /\ \A j \in 1..W(log) : Is(log, j, "terminal", m) => j < e
      BY <1>1, LiveIff
    <3>2. i < e
      BY <3>1, <2>4
    <3>3. e < i
      BY <3>1, <2>2, <2>3 DEF NoLater
    <3> QED BY <3>2, <3>3, <2>3
  <2> QED BY <1>1, <2>1, <2>6, <2>7
<1> QED BY <1>4, <1>5 DEF m

(* A write adds no second listing that again does not name. *)
LEMMA OnceWrite ==
  ASSUME BaseInv, ApartInv, FirstInv, OnceInv, NEW t \in Threads, Write(t)
  PROVE  OnceInv'
<1> DEFINE r == Its(thr[t])
           m == thr[t].m
<1>0. fate \in [Messages -> Fates] /\ log \in Seq(Entries) /\ again \in SUBSET Messages
  BY DEF BaseInv, TypeInv
<1>1. /\ m \in Messages /\ r \in Entries /\ r.kind # "torn"
      /\ log' = IF handle = "path" THEN Append(log, r) ELSE log
  BY WriteLog DEF BaseInv
<1>2. /\ r.id = m /\ r.kind = (IF thr[t].op = "absorb" THEN "enqueue" ELSE thr[t].op)
  BY DEF Its, Record
<1>3. /\ again \subseteq again'
      /\ again' \subseteq again \cup {m}
  BY DEF Write
<1>4. /\ thr[t].op \in {"enqueue", "absorb", "attempt", "terminal"}
      /\ thr[t].op \in Bringing => WriteFate(t) = [fate EXCEPT ![m] = "coming"]
      /\ thr[t].op = "terminal" => WriteFate(t) = (IF Sound THEN [fate EXCEPT ![m] = "done"] ELSE fate)
      /\ thr[t].op = "attempt" => WriteFate(t) = fate
      /\ IF NeedsFlush(t) THEN fate' = WriteFate(t) /\ mem' = mem
         ELSE Return(t, TRUE) /\ fate' = Told(t, TRUE, WriteFate(t))
  BY WriteView DEF BaseInv
<1>5. Sound => W(log) = Len(log)
  BY <1>0, WholeSound DEF Sound
<1>6. thr[t].op = "terminal" => fate[m] = "acked" /\ m \notin mem
  BY DEF ApartInv
<1>7. thr[t].op \in Bringing /\ m \notin again' => NoEnd(log, m)
  BY NoEndYet
<1>8. CASE thr[t].op \in Bringing
  <2>1. \A x \in Messages : x = m \/ (fate'[x] = fate[x] /\ (x \in mem' => x \in mem))
    <3>1. WriteFate(t) = [fate EXCEPT ![m] = "coming"]
      BY <1>4, <1>8
    <3>2. fate' = WriteFate(t) \/ fate' = [WriteFate(t) EXCEPT ![m] = "here"]
      BY <1>4 DEF Told
    <3>3. mem' \subseteq mem \cup {m}
      BY <1>4 DEF Return
    <3> HIDE DEF m
    <3> QED BY <3>1, <3>2, <3>3, <1>0
  <2>2. fate'[m] \in {"coming", "here"}
    <3>1. WriteFate(t) = [fate EXCEPT ![m] = "coming"]
      BY <1>4, <1>8
    <3>2. fate' = WriteFate(t) \/ fate' = [WriteFate(t) EXCEPT ![m] = "here"]
      BY <1>4 DEF Told
    <3> HIDE DEF m
    <3> QED BY <3>1, <3>2, <1>0, <1>1
  <2>3. r.kind = "enqueue"
    BY <1>2, <1>8 DEF Bringing
  <2> HIDE DEF m, r
  <2>4. \A x \in Messages \ again' :
            /\ r.kind = "enqueue" /\ r.id = x => NoEnd(log, x)
            /\ fate'[x] \in Fresh \/ x \in mem' => /\ ~ (r.kind = "terminal" /\ r.id = x)
                                                   /\ NoEnd(log, x)
            /\ fate'[x] = "done" => /\ EndsSeen(log, x)
                                    /\ r.kind = "terminal" /\ r.id = x => W(log) = Len(log)
    <3> SUFFICES ASSUME NEW x \in Messages \ again'
          PROVE
            /\ r.kind = "enqueue" /\ r.id = x => NoEnd(log, x)
            /\ fate'[x] \in Fresh \/ x \in mem' => /\ ~ (r.kind = "terminal" /\ r.id = x)
                                                   /\ NoEnd(log, x)
            /\ fate'[x] = "done" => /\ EndsSeen(log, x)
                                    /\ r.kind = "terminal" /\ r.id = x => W(log) = Len(log)
      OBVIOUS
    <3>1. CASE x = m
      BY <3>1, <2>2, <2>3, <1>2, <1>7, <1>8
    <3>2. CASE x # m
      BY <3>2, <2>1, <2>3, <1>2, <1>3 DEF OnceInv
    <3> QED BY <3>1, <3>2
  <2> QED BY <2>4, <1>0, <1>1, <1>3, OnceGrows
<1>9. CASE thr[t].op \notin Bringing
  <2>1. fate' = WriteFate(t)
    BY <1>4, <1>9 DEF Told, Bringing
  <2>2. mem' \subseteq mem
    BY <1>4, <1>9 DEF Return, Bringing
  <2>3. r.kind = thr[t].op /\ r.kind \in {"attempt", "terminal"}
    BY <1>2, <1>4, <1>9 DEF Bringing
  <2> HIDE DEF m, r
  <2>4. \A x \in Messages : /\ fate'[x] = fate[x] \/ (fate'[x] = "done" /\ x = m /\ r.kind = "terminal" /\ Sound)
                            /\ x = m /\ r.kind = "terminal" => fate'[x] \in {"acked", "done"} /\ (fate'[x] = "done" => Sound)
    BY <2>1, <2>3, <1>0, <1>1, <1>4, <1>6
  <2>5. \A x \in Messages \ again' : x = m /\ r.kind = "terminal" => NoLater(log, x)
    BY <1>3 DEF OnceInv
  <2>6. Sound => \A x \in Messages : EndsSeen(log, x)
    BY <1>5, <1>0, LenProperties DEF EndsSeen
  <2>7. \A x \in Messages \ again' :
            /\ r.kind = "enqueue" /\ r.id = x => NoEnd(log, x)
            /\ fate'[x] \in Fresh \/ x \in mem' => /\ ~ (r.kind = "terminal" /\ r.id = x)
                                                   /\ NoEnd(log, x)
            /\ fate'[x] = "done" => /\ EndsSeen(log, x)
                                    /\ r.kind = "terminal" /\ r.id = x => W(log) = Len(log)
    <3> SUFFICES ASSUME NEW x \in Messages \ again'
          PROVE
            /\ fate'[x] \in Fresh \/ x \in mem' => /\ ~ (r.kind = "terminal" /\ r.id = x)
                                                   /\ NoEnd(log, x)
            /\ fate'[x] = "done" => /\ EndsSeen(log, x)
                                    /\ r.kind = "terminal" /\ r.id = x => W(log) = Len(log)
      BY <2>3
    <3>0. x \in Messages \ again
      BY <1>3
    <3>1. CASE x = m /\ r.kind = "terminal"
      BY <3>1, <2>2, <2>3, <2>4, <2>6, <1>5, <1>6 DEF Fresh
    <3>2. CASE ~ (x = m /\ r.kind = "terminal")
      BY <3>0, <3>2, <2>2, <2>4, <1>2 DEF OnceInv
    <3> QED BY <3>1, <3>2
  <2> QED BY <2>7, <1>0, <1>1, <1>3, OnceGrows
<1> QED BY <1>8, <1>9

(* Nor does a compaction, though it describes a message twice. *)
LEMMA OnceSwap ==
  ASSUME BaseInv, OnceInv, Swap
  PROVE  OnceInv'
<1> USE DEF BaseInv
<1>1. PICK tail \in Tails : log' = NewLog(tail)
  BY DEF Swap
<1>2. comp.pc = "swap" /\ fate' = fate /\ again' = again /\ mem' = mem
  BY DEF Swap, memory
<1>4. /\ comp.rec \in Seq(Entries) /\ W(comp.rec) = Len(comp.rec) /\ log' \in Seq(Entries)
      /\ \/ \E a \in 0..Len(log) : log' = Spliced(comp.rec, log, a)
         \/ log' = comp.rec \o <<Torn>>
  BY <1>1, <1>2, SwapLog DEF NewLog
<1>5. \A i \in 1..Len(comp.rec) : comp.rec[i].kind \in {"enqueue", "attempt"}
  BY <1>2 DEF CompInv, Tells
<1>6. log \in Seq(Entries) /\ Len(log) \in Nat /\ Len(comp.rec) \in Nat
  BY <1>4, LenProperties DEF TypeInv
<1> DEFINE rec == comp.rec
<1>61. /\ rec \in Seq(Entries) /\ W(rec) = Len(rec) /\ Len(rec) \in Nat
       /\ \A i \in 1..Len(rec) : rec[i].kind \in {"enqueue", "attempt"}
  BY <1>4, <1>5, <1>6
<1> HIDE DEF rec
<1>7. ASSUME NEW a \in 0..Len(log), log' = Spliced(rec, log, a) PROVE OnceInv'
  <2>1. SplicedAt(log', rec, log, a)
    BY <1>6, <1>61, <1>7, NewLogAt
  <2>2. \A m : /\ NoLater(log, m) => NoLater(log', m)
               /\ NoEnd(log, m) => NoEnd(log', m)
               /\ EndsSeen(log, m) => EndsSeen(log', m)
    BY <1>6, <1>61, <2>1, OnceSplice
  <2> QED BY <1>2, <2>2 DEF OnceInv
<1>8. ASSUME log' = rec \o <<Torn>> PROVE OnceInv'
  <2> DEFINE q == <<Torn>>
  <2>1. q \in Seq(Entries) /\ Len(q) = 1 /\ q[1] = Torn /\ 1 \in 1..Len(q)
    BY TornEntry
  <2> HIDE DEF q
  <2>2. /\ Len(rec \o q) = Len(rec) + Len(q) /\ \A i \in 1..Len(rec) : (rec \o q)[i] = rec[i]
        /\ \A i \in 1..Len(q) : (rec \o q)[Len(rec) + i] = q[i]
    BY <2>1, <1>61, WholeConcat
  <2>3. /\ Len(log') = Len(rec) + 1 /\ \A i \in 1..Len(rec) : log'[i] = rec[i]
        /\ log'[Len(rec) + 1] = Torn
    BY <1>8, <2>1, <2>2 DEF q
  <2>4. 1..Len(log') = 1..Len(rec) \cup {Len(rec) + 1}
    BY <2>3, <1>61
  <2>5. \A m : \A i \in 1..Len(log') : ~ Is(log', i, "terminal", m)
    BY <2>3, <2>4, <1>61, TornEntry DEF Is
  <2> QED BY <2>5 DEF OnceInv, NoLater, NoEnd, EndsSeen
<1> QED BY <1>4, <1>7, <1>8 DEF rec

(* Nor does a recovery. *)
LEMMA OnceRecover == BaseInv /\ OnceInv /\ Recover => OnceInv'
<1> SUFFICES ASSUME BaseInv, OnceInv, Recover PROVE OnceInv'
  OBVIOUS
<1> USE DEF BaseInv
<1>1. log' = Readable(log) /\ mem' = Live(log) /\ again' = again
  BY DEF Recover
<1>2. /\ log \in Seq(Entries) /\ Len(log) \in Nat /\ W(log) \in 0..Len(log)
      /\ Len(log') = W(log) /\ W(log') = W(log)
      /\ \A i \in 1..W(log) : log'[i] = log[i]
  BY <1>1, WholeIff, WholeReadable, LenProperties DEF TypeInv
<1>3. \A x, m : \A i \in 1..Len(log') : i \in 1..W(log) /\ i \in 1..Len(log) /\ (Is(log', i, x, m) <=> Is(log, i, x, m))
  BY <1>2 DEF Is
<1>4. ASSUME NEW m \in Messages \ again PROVE NoLater(log', m) /\ EndsSeen(log', m)
  <2>1. NoLater(log, m)
    BY DEF OnceInv
  <2> QED BY <2>1, <1>2, <1>3 DEF NoLater, EndsSeen
<1>5. ASSUME NEW m \in Messages \ again, m \in mem' PROVE NoEnd(log', m)
  <2> SUFFICES ASSUME NEW i \in 1..Len(log'), Is(log', i, "terminal", m) PROVE FALSE
    BY DEF NoEnd
  <2>1. i \in 1..W(log) /\ i \in 1..Len(log) /\ Is(log, i, "terminal", m)
    BY <1>3
  <2>2. PICK e \in 1..W(log) : /\ Is(log, e, "enqueue", m)
                               /\ \A j \in 1..W(log) : Is(log, j, "terminal", m) => j < e
    BY <1>1, <1>2, <1>5, LiveIff
  <2>3. i < e
    BY <2>1, <2>2
  <2>4. e < i
    BY <2>1, <2>2, <1>2 DEF NoLater, OnceInv
  <2> QED BY <2>3, <2>4, <2>1, <2>2, <1>2
<1>6. \A m \in Messages : m \notin mem' /\ fate'[m] \in Fresh => fate[m] \in Fresh
  BY <1>1 DEF Recover, Fresh
<1>7. ASSUME NEW m \in Messages \ again, fate'[m] \in Fresh \/ m \in mem' PROVE NoEnd(log', m)
  <2>1. CASE m \in mem'
    BY <2>1, <1>5
  <2>2. CASE m \notin mem'
    <3>1. NoEnd(log, m)
      BY <2>2, <1>6, <1>7 DEF OnceInv
    <3> QED BY <3>1, <1>3 DEF NoEnd
  <2> QED BY <2>1, <2>2
<1> QED BY <1>1, <1>4, <1>7 DEF OnceInv

(* Nor does a crash. *)
LEMMA OnceCrash == BaseInv /\ OnceInv /\ (ProcessDies \/ PowerLost) => OnceInv'
<1> SUFFICES ASSUME BaseInv, OnceInv, ProcessDies \/ PowerLost PROVE OnceInv'
  OBVIOUS
<1> USE DEF BaseInv
<1>1. PICK k \in 0..Len(log) :
              /\ Cut(log, log', k)
              /\ \/ fate' = fate
                 \/ fate' = [m \in Messages |->
                         CASE fate[m] = "here" /\ m \notin Live(log') /\ sync # "always" -> "lost"
                           [] fate[m] = "done" /\ m \in Live(log')                     -> "acked"
                           [] OTHER                                                   -> fate[m]]
  BY CrashCuts DEF FileInv
<1>2. mem' = {} /\ again' = again
  BY CrashCuts DEF FileInv
<1>3. \A m \in Messages : fate'[m] = fate[m] \/ fate'[m] \in {"lost", "acked"}
  BY <1>1
<1>4. \A m : /\ NoLater(log, m) => NoLater(log', m)
             /\ NoEnd(log, m) => NoEnd(log', m)
             /\ EndsSeen(log, m) => EndsSeen(log', m)
  BY <1>1, OnceCut DEF TypeInv
<1> QED BY <1>2, <1>3, <1>4 DEF OnceInv, Fresh

(* Every step keeps the listings single. *)
LEMMA NextOnce == BaseInv /\ ApartInv /\ FirstInv /\ OnceInv /\ [Next]_vars => OnceInv'
<1> SUFFICES ASSUME BaseInv, ApartInv, FirstInv, OnceInv, [Next]_vars PROVE OnceInv'
  OBVIOUS
<1> USE DEF BaseInv
<1>0. fate \in [Messages -> Fates] /\ log \in Seq(Entries) /\ WaitInv /\ thr \in [Threads -> ThreadStates]
      /\ \A t \in Threads : ThreadOK(thr[t])
  BY DEF TypeInv, FlushInv
<1>1. CASE \/ \E t \in Threads, m \in Messages : BeginEnqueue(t, m) \/ Deliver(t, m)
           \/ \E t \in Threads, ms \in SUBSET Messages : BeginAbsorb(t, ms)
           \/ \E t \in Threads : Open(t) \/ BeginFlush(t)
           \/ SyncAll \/ CloseFile \/ Marks \/ Snapshot \/ Rewrite \/ CompactFails \/ UNCHANGED vars
  <2>1. log' = log /\ again' = again /\ fate' = fate /\ mem' = mem
    <3>1. CASE \/ \E t \in Threads, m \in Messages : BeginEnqueue(t, m) \/ Deliver(t, m)
               \/ \E t \in Threads, ms \in SUBSET Messages : BeginAbsorb(t, ms)
      BY <3>1 DEF BeginEnqueue, Deliver, BeginAbsorb, disk, history, memory
    <3>2. CASE \E t \in Threads : Open(t) \/ BeginFlush(t)
      BY <3>2 DEF Open, BeginFlush, disk, history, memory
    <3>3. CASE SyncAll \/ CloseFile \/ Marks \/ Snapshot \/ Rewrite \/ CompactFails \/ UNCHANGED vars
      BY <3>3 DEF SyncAll, CloseFile, Marks, Snapshot, Rewrite, CompactFails, vars, disk, history, memory
    <3> QED BY <1>1, <3>1, <3>2, <3>3
  <2> QED BY <2>1, OnceSame
<1>2. ASSUME NEW t \in Threads, NEW m \in Messages, Ack(t, m) PROVE OnceInv'
  <2>1. /\ log' = log /\ again' = again /\ mem' = mem \ {m} /\ fate' = [fate EXCEPT ![m] = "acked"]
    BY <1>2 DEF Ack, disk
  <2>2. \A x \in Messages : fate'[x] = fate[x] \/ fate'[x] = "acked"
    BY <2>1, <1>0
  <2> QED BY <2>1, <2>2, OnceSame DEF Fresh
<1>3. ASSUME NEW t \in Threads, EndFlush(t) \/ Wake(t) \/ ReturnDropped(t) PROVE OnceInv'
  <2>1. log' = log /\ again' = again /\ thr[t].m \in Messages
    BY <1>3, <1>0, EndView
  <2>2. PICK ok \in BOOLEAN : /\ Return(t, ok) /\ fate' = Told(t, ok, fate)
                              /\ ok => thr[t].pc \in {"sync", "flush", "cut"}
    BY <1>3, <1>0, EndView
  <2>3. thr[t].op = "enqueue" /\ ok => fate[thr[t].m] = "coming"
    BY <2>2, <1>0, Views DEF ApartInv, Bringing
  <2> HIDE DEF BaseInv
  <2> QED BY <2>1, <2>2, <2>3, OnceReturn
<1>4. ASSUME NEW t \in Threads, WriteShort(t) PROVE OnceInv'
  <2>1. /\ log' = Append(log, Torn) /\ again' = again /\ fate' = fate /\ Return(t, FALSE)
    BY <1>4 DEF WriteShort
  <2>2. mem' = mem
    BY <2>1 DEF Return
  <2>3. Torn \in Entries /\ Torn.kind = "torn"
    BY TornEntry
  <2> HIDE DEF BaseInv
  <2> QED BY <2>1, <2>2, <2>3, <1>0, OnceGrows DEF OnceInv
<1>5. ASSUME NEW t \in Threads, Publish(t) PROVE OnceInv'
  <2>1. /\ log' = log /\ again' = again /\ mem' = mem \cup thr[t].got
        /\ \A x \in Messages : fate'[x] = IF x \in thr[t].got THEN "here" ELSE fate[x]
    BY <1>5 DEF Publish, disk
  <2>2. \A x \in thr[t].got : fate[x] = "coming"
    BY <1>0, Views DEF ApartInv
  <2> QED BY <2>1, <2>2, OnceSame DEF Fresh
<1>6. CASE DropSlot
  <2>1. /\ log' = log /\ again' = again /\ mem' = {}
        /\ \A x \in Messages : fate'[x] = IF x \in mem THEN "leaving" ELSE fate[x]
    BY <1>6 DEF DropSlot, disk
  <2> QED BY <2>1, OnceSame DEF Fresh
<1>7. CASE RemoveFile
  <2>1. Len(log') = 0
    BY <1>7, EmptySeq DEF RemoveFile
  <2> QED BY <2>1 DEF OnceInv, NoLater, NoEnd, EndsSeen
<1>8. ASSUME NEW t \in Threads, Write(t) PROVE OnceInv'
  BY <1>8, OnceWrite
<1> QED BY <1>1, <1>2, <1>3, <1>4, <1>5, <1>6, <1>7, <1>8, OnceSwap, OnceCrash, OnceRecover
        DEF Next, Step

(* A replay lists a message once: the theorem, for every number of         *)
(* goroutines and messages, of what the run checks as ReplaysOnce. *)
THEOREM ListedOnce == Spec => []ReplaysOnce
<1>1. Init => BaseInv /\ ApartInv /\ FirstInv /\ OnceInv
  BY InitBase, InitApart, InitOnce
<1>2. (BaseInv /\ ApartInv /\ FirstInv /\ OnceInv) /\ [Next]_vars
        => (BaseInv /\ ApartInv /\ FirstInv /\ OnceInv)'
  BY NextBase, NextApart, NextFirst, NextOnce
<1>3. BaseInv /\ ApartInv /\ FirstInv /\ OnceInv => ReplaysOnce
  BY OneListing DEF BaseInv, TypeInv, OnceInv, ReplaysOnce
<1> QED BY <1>1, <1>2, <1>3, PTL DEF Spec

-----------------------------------------------------------------------------
(* ReportedSurvives.  First, what is live in logs that are much the same. *)

(* What is live is a message. *)
LEMMA LiveIsHere == \A s : Live(s) \subseteq Messages
  BY DEF Live

(* Two logs of which a reader sees the same. *)
LEMMA LiveSame ==
  ASSUME NEW p \in Seq(Entries), NEW q \in Seq(Entries), W(p) = W(q),
         \A i \in 1..W(p) : p[i] = q[i]
  PROVE  Live(p) = Live(q)
<1>1. ASSUME NEW m \in Messages PROVE m \in Live(p) <=> m \in Live(q)
  <2>1. \A x : \A i \in 1..W(p) : Is(p, i, x, m) <=> Is(q, i, x, m)
    BY DEF Is
  <2>2. /\ m \in Live(p) <=>
             \E i \in 1..W(p) : /\ Is(p, i, "enqueue", m)
                                /\ \A j \in 1..W(p) : Is(p, j, "terminal", m) => j < i
        /\ m \in Live(q) <=>
             \E i \in 1..W(p) : /\ Is(q, i, "enqueue", m)
                                /\ \A j \in 1..W(p) : Is(q, j, "terminal", m) => j < i
    BY LiveIff
  <2> QED BY <2>1, <2>2
<1>2. Live(p) \subseteq Messages /\ Live(q) \subseteq Messages
  BY LiveIsHere
<1>3. \A m : m \in Live(p) <=> m \in Live(q)
  BY <1>1, <1>2
<1> QED BY <1>3

(* What one more record does to what is live. *)
LEMMA LiveAppend ==
  ASSUME NEW s \in Seq(Entries), NEW r \in Entries, NEW m \in Messages
  PROVE  /\ ~ (r.kind = "enqueue" /\ r.id = m) /\ m \in Live(Append(s, r)) => m \in Live(s)
         /\ ~ (r.kind = "terminal" /\ r.id = m) /\ m \in Live(s) => m \in Live(Append(s, r))
         /\ r.kind = "enqueue" /\ r.id = m /\ W(s) = Len(s) => m \in Live(Append(s, r))
         /\ W(s) < Len(s) => Live(Append(s, r)) = Live(s)
<1> DEFINE q == Append(s, r)
<1>1. Len(s) \in Nat /\ W(s) \in 0..Len(s)
  BY WholeIff, LenProperties
<1>2. /\ q \in Seq(Entries) /\ Len(q) = Len(s) + 1
      /\ \A i \in 1..Len(s) : q[i] = s[i]
      /\ q[Len(s) + 1] = r
      /\ W(q) = IF W(s) = Len(s) /\ r.kind # "torn" THEN Len(s) + 1 ELSE W(s)
  BY <1>1, WholeAppend
<1> HIDE DEF q
<1>3. \A k : \A i \in 1..W(s) : i \in 1..Len(s) /\ (Is(q, i, k, m) <=> Is(s, i, k, m))
  BY <1>1, <1>2 DEF Is
<1>4. \A k : Is(q, Len(s) + 1, k, m) <=> r.kind = k /\ r.id = m
  BY <1>2 DEF Is
<1>5. \/ W(q) = W(s)
      \/ W(s) = Len(s) /\ r.kind # "torn" /\ W(q) = Len(s) + 1 /\ 1..W(q) = 1..W(s) \cup {Len(s) + 1}
  BY <1>1, <1>2
<1>6. /\ m \in Live(s) <=>
           \E i \in 1..W(s) : /\ Is(s, i, "enqueue", m)
                              /\ \A j \in 1..W(s) : Is(s, j, "terminal", m) => j < i
      /\ m \in Live(q) <=>
           \E i \in 1..W(q) : /\ Is(q, i, "enqueue", m)
                              /\ \A j \in 1..W(q) : Is(q, j, "terminal", m) => j < i
  BY <1>2, LiveIff
<1>7. ASSUME ~ (r.kind = "enqueue" /\ r.id = m), m \in Live(q) PROVE m \in Live(s)
  <2>1. PICK i \in 1..W(q) : Is(q, i, "enqueue", m) /\ \A j \in 1..W(q) : Is(q, j, "terminal", m) => j < i
    BY <1>6, <1>7
  <2>2. i \in 1..W(s)
    BY <2>1, <1>4, <1>5, <1>7
  <2>3. \A j \in 1..W(s) : j \in 1..W(q)
    BY <1>5
  <2> QED BY <2>1, <2>2, <2>3, <1>3, <1>6
<1>8. ASSUME ~ (r.kind = "terminal" /\ r.id = m), m \in Live(s) PROVE m \in Live(q)
  <2>1. PICK i \in 1..W(s) : Is(s, i, "enqueue", m) /\ \A j \in 1..W(s) : Is(s, j, "terminal", m) => j < i
    BY <1>6, <1>8
  <2>2. i \in 1..W(q)
    BY <1>5
  <2>3. \A j \in 1..W(q) : Is(q, j, "terminal", m) => j \in 1..W(s)
    BY <1>4, <1>5, <1>8
  <2> QED BY <2>1, <2>2, <2>3, <1>3, <1>6
<1>9. ASSUME r.kind = "enqueue", r.id = m, W(s) = Len(s) PROVE m \in Live(q)
  <2>1. W(q) = Len(s) + 1 /\ Is(q, W(q), "enqueue", m)
    BY <1>2, <1>4, <1>9
  <2>2. \A j \in 1..W(q) : Is(q, j, "terminal", m) => j < W(q)
    BY <1>1, <1>4, <1>9, <2>1
  <2> QED BY <2>1, <2>2, <1>1, <1>6
<1>10. ASSUME W(s) < Len(s) PROVE Live(q) = Live(s)
  <2>1. W(q) = W(s) /\ \A i \in 1..W(s) : q[i] = s[i]
    BY <1>1, <1>2, <1>10
  <2> QED BY <2>1, <1>2, LiveSame
<1> QED BY <1>7, <1>8, <1>9, <1>10 DEF q

(* m is live in whatever is left of s beyond its first d records. *)
Firm(s, m, d) == m \in Live(s) => \A k \in d..Len(s) : m \in Live(SubSeq(s, 1, k))

(* What survives any cut past d survives any cut past a later point. *)
LEMMA FirmLater ==
  ASSUME NEW s \in Seq(Entries), NEW m, NEW d \in Nat, NEW e \in Nat, d <= e, Firm(s, m, d)
  PROVE  Firm(s, m, e)
<1>1. Len(s) \in Nat
  BY LenProperties
<1>2. \A k \in e..Len(s) : k \in d..Len(s)
  BY <1>1
<1> QED BY <1>2 DEF Firm

(* What is live in the whole log survives a cut at its end. *)
LEMMA FirmEnd ==
  ASSUME NEW s \in Seq(Entries), NEW m
  PROVE  Firm(s, m, Len(s))
<1>1. Len(s) \in Nat /\ Len(s) \in 0..Len(s) /\ W(s) \in 0..Len(s)
  BY LenProperties, WholeIff
<1>2. \A k \in Len(s)..Len(s) : k = Len(s)
  BY <1>1
<1> DEFINE q == SubSeq(s, 1, Len(s))
<1>3. q \in Seq(Entries) /\ W(q) = W(s) /\ \A i \in 1..W(s) : q[i] = s[i]
  BY <1>1, WholePrefix
<1>4. Live(q) = Live(s)
  <2> HIDE DEF q
  <2> QED BY <1>3, LiveSame
<1> QED BY <1>2, <1>4 DEF Firm

(* Nothing is lost from an empty log. *)
LEMMA FirmEmpty == \A m, d : Firm(<<>>, m, d)
  BY WholeEmpty DEF Firm

(* A record that is not the enqueue record of m leaves m as safe as it     *)
(* was.                                                                    *)
LEMMA FirmAppend ==
  ASSUME NEW s \in Seq(Entries), NEW r \in Entries, NEW m, NEW d \in Nat, Firm(s, m, d),
         ~ (r.kind = "enqueue" /\ r.id = m)
  PROVE  Firm(Append(s, r), m, d)
<1> DEFINE q == Append(s, r)
<1>1. Len(s) \in Nat /\ W(s) \in 0..Len(s)
  BY WholeIff, LenProperties
<1>2. /\ q \in Seq(Entries) /\ Len(q) = Len(s) + 1
      /\ \A i \in 1..Len(s) : q[i] = s[i]
      /\ W(q) = IF W(s) = Len(s) /\ r.kind # "torn" THEN Len(s) + 1 ELSE W(s)
  BY <1>1, WholeAppend
<1>3. m \in Live(q) => m \in Live(s)
  BY LiveAppend, LiveIsHere
<1> HIDE DEF q
<1> SUFFICES ASSUME m \in Live(q), NEW k \in d..Len(q) PROVE m \in Live(SubSeq(q, 1, k))
  BY DEF Firm, q
<1>4. CASE k <= Len(s)
  <2>1. k \in 0..Len(s) /\ k \in 0..Len(q) /\ k \in d..Len(s)
    BY <1>1, <1>2, <1>4
  <2> DEFINE x == SubSeq(s, 1, k)
             y == SubSeq(q, 1, k)
  <2>2. /\ x \in Seq(Entries) /\ \A i \in 1..k : x[i] = s[i]
        /\ W(x) = IF W(s) < k THEN W(s) ELSE k
    BY <2>1, WholePrefix
  <2>3. /\ y \in Seq(Entries) /\ \A i \in 1..k : y[i] = q[i]
        /\ W(y) = IF W(q) < k THEN W(q) ELSE k
    BY <1>2, <2>1, WholePrefix
  <2>4. m \in Live(x)
    BY <1>3, <2>1 DEF Firm
  <2> HIDE DEF x, y
  <2>5. W(x) = W(y) /\ W(x) <= k
    BY <1>1, <1>2, <2>1, <2>2, <2>3
  <2>6. \A i \in 1..W(x) : i \in 1..k /\ i \in 1..Len(s)
    BY <1>1, <2>1, <2>2, <2>5
  <2>7. \A i \in 1..W(x) : x[i] = y[i]
    BY <2>2, <2>3, <2>6, <1>2
  <2>8. Live(x) = Live(y)
    BY <2>2, <2>3, <2>5, <2>7, LiveSame
  <2> QED BY <2>4, <2>8 DEF x, y
<1>5. CASE k > Len(s)
  <2>1. k = Len(q) /\ k \in Len(q)..Len(q)
    BY <1>1, <1>2, <1>5
  <2> QED BY <2>1, <1>2, FirmEnd DEF Firm
<1> QED BY <1>1, <1>2, <1>4, <1>5

(* A replay drops what it cannot read. *)
LEMMA FirmReadable ==
  ASSUME NEW s \in Seq(Entries), NEW m, NEW d \in Nat, Firm(s, m, d)
  PROVE  Firm(Readable(s), m, IF d > W(s) THEN W(s) ELSE d)
<1> DEFINE q == Readable(s)
<1>1. Len(s) \in Nat /\ W(s) \in 0..Len(s)
  BY WholeIff, LenProperties
<1>2. /\ q \in Seq(Entries) /\ Len(q) = W(s) /\ W(q) = W(s)
      /\ \A i \in 1..W(s) : q[i] = s[i]
  BY WholeReadable
<1> HIDE DEF q
<1>3. Live(q) = Live(s)
  BY <1>2, LiveSame
<1>4. CASE d > W(s)
  BY <1>2, <1>4, FirmEnd DEF q
<1>5. CASE ~ (d > W(s))
  <2> SUFFICES ASSUME m \in Live(q), NEW k \in d..Len(q) PROVE m \in Live(SubSeq(q, 1, k))
    BY <1>5 DEF Firm, q
  <2>1. k \in 0..Len(s) /\ k \in 0..Len(q) /\ k \in d..Len(s) /\ k <= W(s)
    BY <1>1, <1>2
  <2> DEFINE x == SubSeq(s, 1, k)
             y == SubSeq(q, 1, k)
  <2>2. /\ x \in Seq(Entries) /\ W(x) = k /\ \A i \in 1..k : x[i] = s[i]
    BY <1>1, <2>1, WholePrefix
  <2>3. /\ y \in Seq(Entries) /\ W(y) = k /\ \A i \in 1..k : y[i] = q[i]
    BY <1>1, <1>2, <2>1, WholePrefix
  <2>4. m \in Live(x)
    BY <1>3, <2>1 DEF Firm
  <2> HIDE DEF x, y
  <2>5. \A i \in 1..k : i \in 1..W(s)
    BY <1>1, <2>1
  <2>6. W(x) = W(y) /\ \A i \in 1..W(x) : x[i] = y[i]
    <3>1. \A i \in 1..k : x[i] = y[i]
      BY <2>2, <2>3, <2>5, <1>2
    <3> QED BY <2>2, <2>3, <3>1
  <2>8. Live(x) = Live(y)
    BY <2>2, <2>3, <2>6, LiveSame
  <2> QED BY <2>4, <2>8 DEF x, y
<1> QED BY <1>4, <1>5 DEF q

(* A terminal record that no reader sees is one of a message that is       *)
(* acknowledged and nothing more: no snapshot of it can be behind it. *)
Ending == Fresh \cup {"done"}

SeenInv == \A m \in Messages : fate[m] \in Ending \/ m \in mem => EndsSeen(log, m)

(* A step that leaves the log alone keeps the ends in sight. *)
LEMMA SeenSame ==
  ASSUME SeenInv, log' = log,
         \A x \in Messages : fate'[x] \in Ending \/ x \in mem' => fate[x] \in Ending \/ x \in mem
  PROVE  SeenInv'
<1> SUFFICES ASSUME NEW m \in Messages, fate'[m] \in Ending \/ m \in mem' PROVE EndsSeen(log, m)
  BY DEF SeenInv, EndsSeen, W
<1> QED BY DEF SeenInv

(* So does an append, if the end it may write is behind a whole log. *)
LEMMA SeenGrows ==
  ASSUME SeenInv, log \in Seq(Entries), NEW r \in Entries, log' \in {log, Append(log, r)},
         \A x \in Messages : fate'[x] \in Ending \/ x \in mem' =>
            /\ EndsSeen(log, x)
            /\ r.kind = "terminal" /\ r.id = x => W(log) = Len(log)
  PROVE  SeenInv'
<1> SUFFICES ASSUME NEW m \in Messages, fate'[m] \in Ending \/ m \in mem' PROVE EndsSeen(log', m)
  BY DEF SeenInv, EndsSeen, W
<1>1. CASE log' = Append(log, r)
  BY <1>1, OnceAppend
<1>2. CASE log' = log
  BY <1>2
<1> QED BY <1>1, <1>2

(* So does an append that is over. *)
LEMMA SeenReturn ==
  ASSUME BaseInv, SeenInv, log' = log, NEW t \in Threads,
         NEW ok \in BOOLEAN, Return(t, ok), thr[t].m \in Messages, fate' = Told(t, ok, fate),
         thr[t].op = "enqueue" /\ ok => fate[thr[t].m] = "coming"
  PROVE  SeenInv'
<1>1. fate \in [Messages -> Fates]
  BY DEF BaseInv, TypeInv
<1>2. mem' = mem \/ (thr[t].op = "enqueue" /\ ok /\ mem' = mem \cup {thr[t].m})
  BY DEF Return
<1>3. \A x \in Messages : fate'[x] = fate[x] \/ (fate'[x] = "here" /\ x = thr[t].m /\ fate[x] = "coming")
  BY <1>1, ToldIs
<1>4. \A x \in mem' : x \in mem \/ fate[x] = "coming"
  BY <1>2
<1> QED BY <1>3, <1>4, SeenSame DEF Ending, Fresh

(* So does a write. *)
LEMMA SeenWrite ==
  ASSUME BaseInv, ApartInv, SeenInv, NEW t \in Threads, Write(t)
  PROVE  SeenInv'
<1> DEFINE r == Its(thr[t])
           m == thr[t].m
<1>0. fate \in [Messages -> Fates] /\ log \in Seq(Entries)
      /\ thr \in [Threads -> ThreadStates] /\ \A u \in Threads : ThreadOK(thr[u])
  BY DEF BaseInv, TypeInv
<1>1. /\ m \in Messages /\ r \in Entries /\ r.kind # "torn"
      /\ log' \in {log, Append(log, r)}
  BY WriteLog DEF BaseInv
<1>2. /\ r.id = m /\ r.kind = (IF thr[t].op = "absorb" THEN "enqueue" ELSE thr[t].op)
  BY DEF Its, Record
<1>4. /\ thr[t].op \in {"enqueue", "absorb", "attempt", "terminal"} /\ thr[t].pc = "write"
      /\ thr[t].op \in Bringing => WriteFate(t) = [fate EXCEPT ![m] = "coming"]
      /\ thr[t].op = "terminal" => WriteFate(t) = (IF Sound THEN [fate EXCEPT ![m] = "done"] ELSE fate)
      /\ thr[t].op = "attempt" => WriteFate(t) = fate
      /\ IF NeedsFlush(t) THEN fate' = WriteFate(t) /\ mem' = mem
         ELSE Return(t, TRUE) /\ fate' = Told(t, TRUE, WriteFate(t))
  BY WriteView DEF BaseInv
<1>5. Sound => W(log) = Len(log)
  BY <1>0, WholeSound DEF Sound
<1>6. thr[t].op = "terminal" => fate[m] = "acked" /\ m \notin mem
  BY DEF ApartInv
<1>7. thr[t].op \in Bringing => fate[m] \in Ending
  <2>1. thr[t].op \in Bringing => m \in ComingOf(thr[t])
    BY <1>0, <1>4, Views
  <2> QED BY <2>1 DEF ApartInv, Ending, Fresh
<1>8. CASE thr[t].op \in Bringing
  <2>1. \A x \in Messages : x = m \/ (fate'[x] = fate[x] /\ (x \in mem' => x \in mem))
    <3>1. WriteFate(t) = [fate EXCEPT ![m] = "coming"]
      BY <1>4, <1>8
    <3>2. fate' = WriteFate(t) \/ fate' = [WriteFate(t) EXCEPT ![m] = "here"]
      BY <1>4 DEF Told
    <3>3. mem' \subseteq mem \cup {m}
      BY <1>4 DEF Return
    <3> HIDE DEF m
    <3> QED BY <3>1, <3>2, <3>3, <1>0
  <2>2. r.kind = "enqueue"
    BY <1>2, <1>8 DEF Bringing
  <2> HIDE DEF m, r
  <2>3. \A x \in Messages : fate'[x] \in Ending \/ x \in mem' => EndsSeen(log, x)
    BY <2>1, <1>1, <1>7, <1>8 DEF SeenInv
  <2> QED BY <2>2, <2>3, <1>0, <1>1, SeenGrows
<1>9. CASE thr[t].op \notin Bringing
  <2>1. fate' = WriteFate(t)
    BY <1>4, <1>9 DEF Told, Bringing
  <2>2. mem' \subseteq mem
    BY <1>4, <1>9 DEF Return, Bringing
  <2>3. r.kind = thr[t].op /\ r.kind \in {"attempt", "terminal"}
    BY <1>2, <1>4, <1>9 DEF Bringing
  <2> HIDE DEF m, r
  <2>4. \A x \in Messages : /\ fate'[x] = fate[x] \/ (x = m /\ r.kind = "terminal" /\ Sound)
                            /\ x = m /\ r.kind = "terminal" => Sound \/ (fate'[x] = "acked" /\ x \notin mem)
    BY <2>1, <2>3, <1>0, <1>1, <1>4, <1>6
  <2>6. Sound => \A x \in Messages : EndsSeen(log, x)
    BY <1>5, <1>0, LenProperties DEF EndsSeen
  <2>7. \A x \in Messages : fate'[x] \in Ending \/ x \in mem' =>
            /\ EndsSeen(log, x)
            /\ r.kind = "terminal" /\ r.id = x => W(log) = Len(log)
    BY <2>2, <2>4, <2>6, <1>2, <1>5 DEF SeenInv, Ending, Fresh
  <2> QED BY <2>7, <1>0, <1>1, SeenGrows
<1> QED BY <1>8, <1>9

(* So does a compaction. *)
LEMMA SeenSwap ==
  ASSUME BaseInv, SeenInv, Swap
  PROVE  SeenInv'
<1> USE DEF BaseInv
<1>1. PICK tail \in Tails : log' = NewLog(tail)
  BY DEF Swap
<1>2. comp.pc = "swap" /\ fate' = fate /\ mem' = mem
  BY DEF Swap, memory
<1>4. /\ comp.rec \in Seq(Entries) /\ W(comp.rec) = Len(comp.rec)
      /\ \/ \E a \in 0..Len(log) : log' = Spliced(comp.rec, log, a)
         \/ log' = comp.rec \o <<Torn>>
  BY <1>1, <1>2, SwapLog DEF NewLog
<1>5. \A i \in 1..Len(comp.rec) : comp.rec[i].kind \in {"enqueue", "attempt"}
  BY <1>2 DEF CompInv, Tells
<1>6. log \in Seq(Entries) /\ Len(comp.rec) \in Nat
  BY <1>4, LenProperties DEF TypeInv
<1> DEFINE rec == comp.rec
<1>61. /\ rec \in Seq(Entries) /\ W(rec) = Len(rec) /\ Len(rec) \in Nat
       /\ \A i \in 1..Len(rec) : rec[i].kind \in {"enqueue", "attempt"}
  BY <1>4, <1>5, <1>6
<1> HIDE DEF rec
<1>7. ASSUME NEW a \in 0..Len(log), log' = Spliced(rec, log, a) PROVE SeenInv'
  <2>1. SplicedAt(log', rec, log, a)
    BY <1>6, <1>61, <1>7, NewLogAt
  <2>2. \A m : EndsSeen(log, m) => EndsSeen(log', m)
    BY <1>6, <1>61, <2>1, OnceSplice
  <2> QED BY <1>2, <2>2 DEF SeenInv
<1>8. ASSUME log' = rec \o <<Torn>> PROVE SeenInv'
  <2> DEFINE q == <<Torn>>
  <2>1. q \in Seq(Entries) /\ Len(q) = 1 /\ q[1] = Torn /\ 1 \in 1..Len(q)
    BY TornEntry
  <2> HIDE DEF q
  <2>2. /\ Len(rec \o q) = Len(rec) + Len(q) /\ \A i \in 1..Len(rec) : (rec \o q)[i] = rec[i]
        /\ \A i \in 1..Len(q) : (rec \o q)[Len(rec) + i] = q[i]
    BY <2>1, <1>61, WholeConcat
  <2>3. /\ Len(log') = Len(rec) + 1 /\ \A i \in 1..Len(rec) : log'[i] = rec[i]
        /\ log'[Len(rec) + 1] = Torn
    BY <1>8, <2>1, <2>2 DEF q
  <2>4. 1..Len(log') = 1..Len(rec) \cup {Len(rec) + 1}
    BY <2>3, <1>61
  <2>5. \A m : \A i \in 1..Len(log') : ~ Is(log', i, "terminal", m)
    BY <2>3, <2>4, <1>61, TornEntry DEF Is
  <2> QED BY <2>5 DEF SeenInv, EndsSeen
<1> QED BY <1>4, <1>7, <1>8 DEF rec

(* Every step keeps the ends in sight. *)
LEMMA NextSeen == BaseInv /\ ApartInv /\ SeenInv /\ [Next]_vars => SeenInv'
<1> SUFFICES ASSUME BaseInv, ApartInv, SeenInv, [Next]_vars PROVE SeenInv'
  OBVIOUS
<1> USE DEF BaseInv
<1>0. fate \in [Messages -> Fates] /\ log \in Seq(Entries) /\ WaitInv /\ thr \in [Threads -> ThreadStates]
      /\ \A t \in Threads : ThreadOK(thr[t])
  BY DEF TypeInv, FlushInv
<1>1. CASE \/ \E t \in Threads, m \in Messages : BeginEnqueue(t, m) \/ Deliver(t, m)
           \/ \E t \in Threads, ms \in SUBSET Messages : BeginAbsorb(t, ms)
           \/ \E t \in Threads : Open(t) \/ BeginFlush(t)
           \/ SyncAll \/ CloseFile \/ Marks \/ Snapshot \/ Rewrite \/ CompactFails \/ UNCHANGED vars
  <2>1. log' = log /\ fate' = fate /\ mem' = mem
    <3>1. CASE \/ \E t \in Threads, m \in Messages : BeginEnqueue(t, m) \/ Deliver(t, m)
               \/ \E t \in Threads, ms \in SUBSET Messages : BeginAbsorb(t, ms)
      BY <3>1 DEF BeginEnqueue, Deliver, BeginAbsorb, disk, history, memory
    <3>2. CASE \E t \in Threads : Open(t) \/ BeginFlush(t)
      BY <3>2 DEF Open, BeginFlush, disk, history, memory
    <3>3. CASE SyncAll \/ CloseFile \/ Marks \/ Snapshot \/ Rewrite \/ CompactFails \/ UNCHANGED vars
      BY <3>3 DEF SyncAll, CloseFile, Marks, Snapshot, Rewrite, CompactFails, vars, disk, history, memory
    <3> QED BY <1>1, <3>1, <3>2, <3>3
  <2> QED BY <2>1, SeenSame
<1>2. ASSUME NEW t \in Threads, NEW m \in Messages, Ack(t, m) PROVE SeenInv'
  <2>1. /\ log' = log /\ mem' = mem \ {m} /\ fate' = [fate EXCEPT ![m] = "acked"]
    BY <1>2 DEF Ack, disk
  <2>2. \A x \in Messages : fate'[x] = fate[x] \/ fate'[x] = "acked"
    BY <2>1, <1>0
  <2> QED BY <2>1, <2>2, SeenSame DEF Ending, Fresh
<1>3. ASSUME NEW t \in Threads, EndFlush(t) \/ Wake(t) \/ ReturnDropped(t) PROVE SeenInv'
  <2>1. log' = log /\ thr[t].m \in Messages
    BY <1>3, <1>0, EndView
  <2>2. PICK ok \in BOOLEAN : /\ Return(t, ok) /\ fate' = Told(t, ok, fate)
                              /\ ok => thr[t].pc \in {"sync", "flush", "cut"}
    BY <1>3, <1>0, EndView
  <2>3. thr[t].op = "enqueue" /\ ok => fate[thr[t].m] = "coming"
    BY <2>2, <1>0, Views DEF ApartInv, Bringing
  <2> HIDE DEF BaseInv
  <2> QED BY <2>1, <2>2, <2>3, SeenReturn
<1>4. ASSUME NEW t \in Threads, WriteShort(t) PROVE SeenInv'
  <2>1. /\ log' = Append(log, Torn) /\ fate' = fate /\ Return(t, FALSE)
    BY <1>4 DEF WriteShort
  <2>2. mem' = mem
    BY <2>1 DEF Return
  <2>3. Torn \in Entries /\ Torn.kind = "torn"
    BY TornEntry
  <2> HIDE DEF BaseInv
  <2> QED BY <2>1, <2>2, <2>3, <1>0, SeenGrows DEF SeenInv
<1>5. ASSUME NEW t \in Threads, Publish(t) PROVE SeenInv'
  <2>1. /\ log' = log /\ mem' = mem \cup thr[t].got
        /\ \A x \in Messages : fate'[x] = IF x \in thr[t].got THEN "here" ELSE fate[x]
    BY <1>5 DEF Publish, disk
  <2>2. \A x \in thr[t].got : fate[x] = "coming"
    BY <1>0, Views DEF ApartInv
  <2> QED BY <2>1, <2>2, SeenSame DEF Ending, Fresh
<1>6. CASE DropSlot
  <2>1. /\ log' = log /\ mem' = {}
        /\ \A x \in Messages : fate'[x] = IF x \in mem THEN "leaving" ELSE fate[x]
    BY <1>6 DEF DropSlot, disk
  <2> QED BY <2>1, SeenSame DEF Ending, Fresh
<1>7. CASE RemoveFile
  <2>1. Len(log') = 0
    BY <1>7, EmptySeq DEF RemoveFile
  <2> QED BY <2>1 DEF SeenInv, EndsSeen
<1>8. ASSUME NEW t \in Threads, Write(t) PROVE SeenInv'
  BY <1>8, SeenWrite
<1>9. CASE Recover
  <2>1. Len(log') = W(log) /\ W(log') = W(log) /\ W(log) \in Nat
    BY <1>9, <1>0, WholeReadable, WholeIff, LenProperties DEF Recover
  <2> QED BY <2>1 DEF SeenInv, EndsSeen
<1>10. CASE ProcessDies \/ PowerLost
  <2>1. PICK k \in 0..Len(log) :
              /\ Cut(log, log', k)
              /\ \/ fate' = fate
                 \/ fate' = [m \in Messages |->
                         CASE fate[m] = "here" /\ m \notin Live(log') /\ sync # "always" -> "lost"
                           [] fate[m] = "done" /\ m \in Live(log')                     -> "acked"
                           [] OTHER                                                   -> fate[m]]
    BY <1>10, CrashCuts DEF FileInv
  <2>2. mem' = {}
    BY <1>10, CrashCuts DEF FileInv
  <2>3. \A m \in Messages : fate'[m] = fate[m] \/ fate'[m] \in {"lost", "acked"}
    BY <2>1
  <2>4. \A m : EndsSeen(log, m) => EndsSeen(log', m)
    BY <2>1, OnceCut DEF TypeInv
  <2> QED BY <2>2, <2>3, <2>4 DEF SeenInv, Ending, Fresh
<1> QED BY <1>1, <1>2, <1>3, <1>4, <1>5, <1>6, <1>7, <1>8, <1>9, <1>10, SeenSwap
        DEF Next, Step

-----------------------------------------------------------------------------
(* What is promised is on stable storage: a message some caller knows to   *)
(* be safe, and one whose goroutine a successful flush has covered.  What  *)
(* the flush under way covers is within what it will make durable. *)

Promised(m) ==
  \/ fate[m] = "here"
  \/ \E t \in Threads : \/ m \in thr[t].got
                        \/ thr[t].m = m /\ (t \in flush.synced \/ thr[t].pc = "cut")
Covered(m) == \E t \in flush.covers : thr[t].m = m

FirmInv ==
  \A m \in Messages :
    /\ Promised(m) => Firm(log, m, durable)
    /\ flush.by # Nothing /\ Covered(m) =>
         Firm(log, m, IF flush.swapped THEN durable ELSE flush.upto)

DurInv == sync = "always" => FirmInv

(* Nothing has been promised at the start. *)
LEMMA InitDur == Init => DurInv
<1> SUFFICES ASSUME Init PROVE FirmInv
  BY DEF DurInv
<1>1. log = <<>>
  BY DEF Init
<1> QED BY <1>1, FirmEmpty DEF FirmInv

(* A step that promises nothing new, and appends no record of what has     *)
(* been promised. *)
LEMMA FirmKeep ==
  ASSUME TypeInv, FirmInv, durable' \in Nat, durable <= durable',
         \/ log' = log
         \/ \E r \in Entries : /\ log' = Append(log, r)
                               /\ \A m \in Messages : r.kind = "enqueue" /\ r.id = m =>
                                    ~ Promised(m) /\ ~ Covered(m),
         \A m \in Messages : Promised(m)' => Promised(m),
         \/ flush'.by = Nothing
         \/ /\ flush'.by = flush.by /\ flush'.swapped = flush.swapped /\ flush'.upto = flush.upto
            /\ \A m \in Messages : Covered(m)' => Covered(m)
  PROVE  FirmInv'
<1>0. log \in Seq(Entries) /\ durable \in Nat /\ flush.upto \in Nat
  BY DEF TypeInv, FlushStates
<1>1. \A m \in Messages, d \in Nat : (Promised(m) \/ Covered(m)) /\ Firm(log, m, d) => Firm(log', m, d)
  BY <1>0, FirmAppend
<1>2. log' \in Seq(Entries)
  BY <1>0, WholeAppend
<1> SUFFICES ASSUME NEW m \in Messages
             PROVE  /\ Promised(m)' => Firm(log', m, durable')
                    /\ flush'.by # Nothing /\ Covered(m)' =>
                         Firm(log', m, IF flush'.swapped THEN durable' ELSE flush'.upto)
  BY DEF FirmInv
<1>3. ASSUME Promised(m)' PROVE Firm(log', m, durable')
  <2>1. Promised(m) /\ Firm(log, m, durable)
    BY <1>3 DEF FirmInv
  <2>2. Firm(log', m, durable)
    BY <2>1, <1>0, <1>1
  <2> QED BY <2>2, <1>0, <1>2, FirmLater
<1>4. ASSUME flush'.by # Nothing, Covered(m)'
      PROVE  Firm(log', m, IF flush'.swapped THEN durable' ELSE flush'.upto)
  <2>1. /\ flush'.by = flush.by /\ flush'.swapped = flush.swapped /\ flush'.upto = flush.upto
        /\ Covered(m) /\ flush.by # Nothing
    BY <1>4
  <2>2. Firm(log, m, IF flush.swapped THEN durable ELSE flush.upto)
    BY <2>1 DEF FirmInv
  <2>3. Firm(log', m, IF flush.swapped THEN durable ELSE flush.upto)
    BY <2>1, <2>2, <1>0, <1>1
  <2>4. CASE flush.swapped
    BY <2>1, <2>3, <2>4, <1>0, <1>2, FirmLater
  <2>5. CASE ~ flush.swapped
    BY <2>1, <2>3, <2>5
  <2> QED BY <2>4, <2>5
<1> QED BY <1>3, <1>4

(* A successful flush makes durable what it covers. *)
LEMMA FlushFirm ==
  ASSUME BaseInv, FirmInv, flush.by # Nothing, NEW m \in Messages, Covered(m),
         durable' = IF ~ flush.swapped /\ handle = "path" /\ flush.upto > durable
                    THEN flush.upto ELSE durable
  PROVE  Firm(log, m, durable')
<1>0. log \in Seq(Entries) /\ durable \in Nat /\ flush.upto \in Nat /\ flush.by \in Threads
      /\ handle \in {"none", "path", "unlinked"}
  BY DEF BaseInv, TypeInv, FlushStates
<1>1. Firm(log, m, IF flush.swapped THEN durable ELSE flush.upto)
  BY DEF FirmInv
<1>2. CASE flush.swapped
  BY <1>1, <1>2
<1>3. CASE ~ flush.swapped /\ handle = "path"
  <2>1. flush.upto <= durable' /\ durable' \in Nat
    BY <1>0, <1>3
  <2> QED BY <2>1, <1>0, <1>1, <1>3, FirmLater
<1>4. CASE handle # "path"
  <2>1. thr[flush.by].pc = "flush"
    BY <1>0 DEF BaseInv, FlushInv
  <2>2. handle = "unlinked"
    BY <2>1, <1>0, <1>4 DEF BaseInv, FileInv
  <2>3. log = <<>>
    BY <2>2 DEF BaseInv, FileInv
  <2> QED BY <2>3, FirmEmpty
<1> QED BY <1>2, <1>3, <1>4

(* An append that is over promises what it was about. *)
LEMMA PromisedReturn ==
  ASSUME BaseInv, FlushInv', NEW t \in Threads, NEW ok \in BOOLEAN, Return(t, ok), thr[t].m \in Messages,
         NEW f \in [Messages -> Fates], fate' = Told(t, ok, f),
         \A x \in Messages : f[x] = "here" => fate[x] = "here"
  PROVE  \A m \in Messages : Promised(m)' =>
           \/ Promised(m)
           \/ ok /\ thr[t].op \in Bringing /\ m = thr[t].m
           \/ \E u \in flush'.synced \ flush.synced : u # t /\ thr[u].m = m
<1> SUFFICES ASSUME NEW m \in Messages, Promised(m)',
                    ~ (ok /\ thr[t].op \in Bringing /\ m = thr[t].m),
                    ~ \E u \in flush'.synced \ flush.synced : u # t /\ thr[u].m = m
             PROVE  Promised(m)
  OBVIOUS
<1>1. /\ \A u \in Threads \ {t} : thr'[u] = thr[u]
      /\ thr'[t].pc \in {"idle", "publish", "open"}
      /\ thr'[t].got = {} \/ (thr[t].op = "absorb" /\ ok /\ thr'[t].got = thr[t].got \cup {thr[t].m})
  BY ReturnMoves, ReturnView, IdleFields DEF BaseInv
<1>2. CASE fate'[m] = "here"
  <2>1. fate'[m] = f[m] \/ (m = thr[t].m /\ ok /\ thr[t].op = "enqueue")
    BY ToldIs
  <2> QED BY <2>1, <1>2 DEF Promised, Bringing
<1>3. ASSUME NEW u \in Threads, m \in thr'[u].got PROVE Promised(m)
  <2>1. CASE u = t
    BY <2>1, <1>1, <1>3 DEF Promised, Bringing
  <2>2. CASE u # t
    BY <2>2, <1>1, <1>3 DEF Promised
  <2> QED BY <2>1, <2>2
<1>4. ASSUME NEW u \in Threads, thr'[u].m = m, u \in flush'.synced \/ thr'[u].pc = "cut"
      PROVE  Promised(m)
  <2>1. u # t
    BY <1>1, <1>4 DEF FlushInv, WaitInv
  <2>2. thr'[u] = thr[u]
    BY <2>1, <1>1
  <2> QED BY <2>1, <2>2, <1>4 DEF Promised
<1> QED BY <1>2, <1>3, <1>4 DEF Promised

(* A goroutine that goes elsewhere, or that begins or is done. *)
LEMMA PromisedMoves ==
  ASSUME NEW t \in Threads, Others(t), \A x \in Messages : fate'[x] = "here" => fate[x] = "here",
         thr'[t].got \subseteq thr[t].got,
         flush'.synced \subseteq flush.synced, t \notin flush'.synced, thr'[t].pc # "cut"
  PROVE  \A m \in Messages : Promised(m)' => Promised(m)
<1> SUFFICES ASSUME NEW m \in Messages, Promised(m)' PROVE Promised(m)
  OBVIOUS
<1>1. CASE fate'[m] = "here"
  BY <1>1 DEF Promised
<1>2. ASSUME NEW u \in Threads, m \in thr'[u].got PROVE Promised(m)
  BY <1>2 DEF Promised, Others
<1>3. ASSUME NEW u \in Threads, thr'[u].m = m, u \in flush'.synced \/ thr'[u].pc = "cut"
      PROVE  Promised(m)
  BY <1>3 DEF Promised, Others
<1> QED BY <1>1, <1>2, <1>3 DEF Promised

(* The goroutines that are neither covered nor waiting. *)
LEMMA FirmAside ==
  ASSUME BaseInv, FirmInv, NEW t \in Threads, thr[t].pc \notin {"sync", "flush"}, Others(t),
         thr'[t].pc # "cut", thr'[t].got \subseteq thr[t].got,
         \A x \in Messages : fate'[x] = "here" => fate[x] = "here",
         flush' = flush, durable' = durable,
         \/ log' = log
         \/ \E r \in Entries : /\ log' = Append(log, r)
                               /\ \A m \in Messages : r.kind = "enqueue" /\ r.id = m =>
                                    ~ Promised(m) /\ ~ Covered(m)
  PROVE  FirmInv'
<1>1. t \notin flush.synced /\ t \notin flush.covers /\ flush.covers \subseteq Threads
  BY DEF BaseInv, TypeInv, FlushInv, WaitInv, FlushStates
<1>2. \A m \in Messages : Promised(m)' => Promised(m)
  BY <1>1, PromisedMoves
<1>3. \A m \in Messages : Covered(m)' => Covered(m)
  BY <1>1 DEF Covered, Others
<1>4. durable \in Nat
  BY DEF BaseInv, TypeInv
<1> QED BY <1>2, <1>3, <1>4, FirmKeep DEF BaseInv

(* A record is not written for what has been promised already. *)
LEMMA NotTwice ==
  ASSUME BaseInv, ApartInv, NEW t \in Threads, thr[t].pc = "write", thr[t].op \in Bringing
  PROVE  ~ Promised(thr[t].m) /\ ~ Covered(thr[t].m)
<1> DEFINE m == thr[t].m
<1>0. /\ thr \in [Threads -> ThreadStates] /\ \A u \in Threads : ThreadOK(thr[u])
      /\ flush.covers \subseteq Threads /\ WaitInv
  BY DEF BaseInv, TypeInv, FlushInv, FlushStates
<1>1. m \in ComingOf(thr[t]) /\ m \notin thr[t].got
  BY <1>0, Views DEF ThreadOK
<1>2. fate[m] # "here" /\ \A u \in Threads \ {t} : m \notin ComingOf(thr[u])
  BY <1>1 DEF ApartInv
<1> HIDE DEF m
<1>3. \A u \in Threads : m \notin thr[u].got
  BY <1>0, <1>1, <1>2, Views
<1>4. \A u \in Threads : thr[u].pc \in {"sync", "flush", "cut"} => thr[u].m # m
  <2> SUFFICES ASSUME NEW u \in Threads, thr[u].pc \in {"sync", "flush", "cut"} PROVE thr[u].m # m
    OBVIOUS
  <2>1. u # t
    OBVIOUS
  <2>2. thr[u].m \in ComingOf(thr[u])
    BY <1>0, Views DEF ThreadOK
  <2> QED BY <2>1, <2>2, <1>2
<1> QED BY <1>0, <1>2, <1>3, <1>4 DEF Promised, Covered, WaitInv, m

(* A flush that ends has made durable what it covers, or promises nothing. *)
LEMMA FirmEndFlush ==
  ASSUME BaseInv, FlushInv', FirmInv, NEW t \in Threads, EndFlush(t)
  PROVE  FirmInv'
<1>0. /\ fate \in [Messages -> Fates] /\ log \in Seq(Entries) /\ durable \in Nat /\ WaitInv /\ TypeInv
      /\ flush \in FlushStates /\ thr[t].m \in Messages
  BY EndView DEF BaseInv, TypeInv, FlushInv
<1>1. PICK ok \in BOOLEAN :
        /\ durable' = IF ok /\ ~flush.swapped /\ handle = "path" /\ flush.upto > durable
                      THEN flush.upto ELSE durable
        /\ flush' = Flushed(t, ok) /\ Return(t, ok) /\ fate' = Told(t, ok, fate)
  BY DEF EndFlush
<1>2. /\ log' = log /\ flush.by = t /\ t \in flush.covers /\ flush.by # Nothing
      /\ flush'.by = Nothing
      /\ flush'.synced = flush.synced \cup (IF ok THEN flush.covers \ {t} ELSE {})
  BY <1>1, WalAssumption DEF EndFlush, BaseInv, FlushInv, Flushed, NoFlush
<1>3. \A m \in Messages : Promised(m)' => Promised(m) \/ (ok /\ Covered(m))
  <2>1. \A m \in Messages : Promised(m)' =>
           \/ Promised(m)
           \/ ok /\ thr[t].op \in Bringing /\ m = thr[t].m
           \/ \E u \in flush'.synced \ flush.synced : u # t /\ thr[u].m = m
    BY <1>0, <1>1, PromisedReturn
  <2> QED BY <2>1, <1>2 DEF Covered
<1>4. durable' \in Nat /\ durable <= durable'
  BY <1>0, <1>1 DEF FlushStates
<1> SUFFICES ASSUME NEW m \in Messages, Promised(m)' PROVE Firm(log, m, durable')
  BY <1>2 DEF FirmInv
<1>5. CASE Promised(m)
  BY <1>5, <1>0, <1>4, FirmLater DEF FirmInv
<1>6. CASE ok /\ Covered(m)
  BY <1>1, <1>2, <1>6, FlushFirm
<1> QED BY <1>3, <1>5, <1>6

(* Who was covered returns with what the flush has made durable. *)
LEMMA FirmWake ==
  ASSUME BaseInv, FlushInv', FirmInv, NEW t \in Threads, Wake(t) \/ ReturnDropped(t)
  PROVE  FirmInv'
<1>0. /\ fate \in [Messages -> Fates] /\ durable \in Nat /\ WaitInv /\ TypeInv
      /\ thr[t].m \in Messages /\ flush \in FlushStates
      /\ thr \in [Threads -> ThreadStates] /\ ThreadOK(thr[t])
  BY EndView DEF BaseInv, TypeInv, FlushInv
<1>1. PICK ok \in BOOLEAN : /\ Return(t, ok) /\ fate' = Told(t, ok, fate)
                            /\ ok => t \in flush.synced \/ thr[t].pc = "cut"
  BY DEF Wake, ReturnDropped, Told
<1>2. /\ log' = log /\ durable' = durable /\ t \notin flush.covers
      /\ flush'.by = flush.by /\ flush'.swapped = flush.swapped /\ flush'.upto = flush.upto
      /\ flush'.covers = flush.covers /\ flush'.synced \subseteq flush.synced
  <2>1. CASE Wake(t)
    <3>1. t \in flush.synced /\ flush' = [flush EXCEPT !.synced = flush.synced \ {t}]
          /\ log' = log /\ durable' = durable
      BY <2>1 DEF Wake, disk
    <3>2. t \notin flush.covers
      BY <3>1 DEF BaseInv, FlushInv
    <3> QED BY <3>1, <3>2, <1>0 DEF FlushStates
  <2>2. CASE ReturnDropped(t)
    <3>1. thr[t].pc \in {"failed", "cut"} /\ flush' = flush /\ log' = log /\ durable' = durable
      BY <2>2 DEF ReturnDropped, disk
    <3> QED BY <3>1, <1>0 DEF WaitInv
  <2> QED BY <2>1, <2>2
<1>3. \A m \in Messages : Promised(m)' => Promised(m)
  <2>1. \A m \in Messages : Promised(m)' =>
           \/ Promised(m)
           \/ ok /\ thr[t].op \in Bringing /\ m = thr[t].m
           \/ \E u \in flush'.synced \ flush.synced : u # t /\ thr[u].m = m
    BY <1>0, <1>1, PromisedReturn
  <2> QED BY <2>1, <1>1, <1>2 DEF Promised
<1>4. Others(t)
  BY <1>0, <1>1, ReturnView
<1>5. \A m \in Messages : Covered(m)' => Covered(m)
  BY <1>0, <1>2, <1>4 DEF Covered, Others, FlushStates
<1> QED BY <1>0, <1>2, <1>3, <1>5, FirmKeep

(* A file that is closed was flushed for those who are told so. *)
LEMMA FirmClose ==
  ASSUME BaseInv, FirmInv, CloseFile
  PROVE  FirmInv'
<1>0. /\ log \in Seq(Entries) /\ durable \in Nat /\ WaitInv /\ TypeInv /\ flush \in FlushStates
  BY DEF BaseInv, TypeInv, FlushInv
<1>1. PICK flushed \in BOOLEAN :
        LET safe == flush.synced \cup (IF flushed THEN flush.covers ELSE {})
        IN /\ flushed => flush.by # Nothing
           /\ durable' = IF flushed /\ ~flush.swapped /\ handle = "path" /\ flush.upto > durable
                         THEN flush.upto ELSE durable
           /\ thr' = [t \in Threads |->
                IF thr[t].pc \in {"write", "sync", "flush"}
                THEN [thr[t] EXCEPT !.pc = IF t \in safe THEN "cut" ELSE "failed"]
                ELSE thr[t]]
  BY DEF CloseFile
<1>2. log' = log /\ fate' = fate /\ flush'.by = Nothing /\ flush'.synced = {}
  BY DEF CloseFile, history, NoFlush
<1>3. \A t \in Threads : Elsewhere(thr[t], thr'[t])
  BY <1>0, CloseView
<1>4. \A t \in Threads : thr'[t].pc = "cut" =>
         \/ thr[t].pc = "cut" \/ t \in flush.synced
         \/ flushed /\ t \in flush.covers
  <2> SUFFICES ASSUME NEW t \in Threads, thr'[t].pc = "cut", thr[t].pc # "cut", t \notin flush.synced
               PROVE  flushed /\ t \in flush.covers
    OBVIOUS
  <2>1. /\ thr[t].pc \in {"write", "sync", "flush"}
        /\ thr'[t].pc = IF t \in flush.synced \cup (IF flushed THEN flush.covers ELSE {})
                        THEN "cut" ELSE "failed"
    BY <1>0, <1>1 DEF TypeInv, ThreadStates
  <2> QED BY <2>1
<1>5. \A m \in Messages : Promised(m)' => Promised(m) \/ (flushed /\ Covered(m))
  BY <1>2, <1>3, <1>4 DEF Promised, Covered, Elsewhere
<1>6. durable' \in Nat /\ durable <= durable'
  BY <1>0, <1>1 DEF FlushStates
<1> SUFFICES ASSUME NEW m \in Messages, Promised(m)' PROVE Firm(log, m, durable')
  BY <1>2 DEF FirmInv
<1>7. CASE Promised(m)
  BY <1>7, <1>0, <1>6, FirmLater DEF FirmInv
<1>8. CASE flushed /\ Covered(m)
  BY <1>1, <1>8, FlushFirm
<1> QED BY <1>5, <1>7, <1>8

(* A write appends no record of what has been promised. *)
LEMMA FirmWrite ==
  ASSUME BaseInv, FlushInv', ApartInv, FirmInv, sync = "always", NEW t \in Threads, Write(t)
  PROVE  FirmInv'
<1> DEFINE r == Its(thr[t])
           m == thr[t].m
<1>0. fate \in [Messages -> Fates] /\ WaitInv /\ TypeInv /\ flush.covers \subseteq Threads /\ durable \in Nat
  BY DEF BaseInv, TypeInv, FlushInv, FlushStates
<1>1. /\ m \in Messages /\ r \in Entries
      /\ log' = log \/ log' = Append(log, r)
  BY <1>0, WriteLog
<1>2. /\ r.id = m /\ r.kind = (IF thr[t].op = "absorb" THEN "enqueue" ELSE thr[t].op)
  BY DEF Its, Record
<1>3. /\ thr[t].pc = "write" /\ flush' = flush /\ durable' = durable
      /\ thr[t].op \in {"enqueue", "absorb", "attempt", "terminal"}
      /\ thr[t].op \in Bringing => WriteFate(t) = [fate EXCEPT ![m] = "coming"]
      /\ thr[t].op = "terminal" => WriteFate(t) = (IF Sound THEN [fate EXCEPT ![m] = "done"] ELSE fate)
      /\ thr[t].op = "attempt" => WriteFate(t) = fate
      /\ IF NeedsFlush(t) THEN fate' = WriteFate(t) /\ mem' = mem
         ELSE Return(t, TRUE) /\ fate' = Told(t, TRUE, WriteFate(t))
  BY <1>0, WriteView
<1>4. WriteFate(t) \in [Messages -> Fates] /\ \A x \in Messages : WriteFate(t)[x] = "here" => fate[x] = "here"
  <2> HIDE DEF m, r
  <2>1. \/ WriteFate(t) = fate
        \/ WriteFate(t) = [fate EXCEPT ![m] = "coming"]
        \/ WriteFate(t) = [fate EXCEPT ![m] = "done"]
    BY <1>3 DEF Bringing
  <2> QED BY <2>1, <1>0, <1>1 DEF Fates
<1>5. NeedsFlush(t) <=> thr[t].op \in Bringing
  BY DEF NeedsFlush, Bringing
<1>6. CASE thr[t].op \in Bringing
  <2>1. Others(t) /\ Elsewhere(thr[t], thr'[t]) /\ thr'[t].pc = "sync"
    BY <1>0, <1>5, <1>6, GoView
  <2>2. fate' = WriteFate(t)
    BY <1>3, <1>5, <1>6
  <2>3. ~ Promised(m) /\ ~ Covered(m)
    BY <1>3, <1>6, NotTwice
  <2>4. \/ log' = log
        \/ \E x \in Entries : /\ log' = Append(log, x)
                              /\ \A y \in Messages : x.kind = "enqueue" /\ x.id = y =>
                                    ~ Promised(y) /\ ~ Covered(y)
    <3> HIDE DEF m, r
    <3> QED BY <1>1, <1>2, <2>3
  <2> QED BY <2>1, <2>2, <2>4, <1>3, <1>4, FirmAside DEF Elsewhere
<1>7. CASE thr[t].op \notin Bringing
  <2>1. Return(t, TRUE) /\ fate' = Told(t, TRUE, WriteFate(t))
    BY <1>3, <1>5, <1>7
  <2>2. r.kind # "enqueue"
    BY <1>2, <1>7 DEF Bringing
  <2>3. \A x \in Messages : Promised(x)' => Promised(x)
    <3>1. \A x \in Messages : Promised(x)' =>
           \/ Promised(x)
           \/ TRUE /\ thr[t].op \in Bringing /\ x = thr[t].m
           \/ \E u \in flush'.synced \ flush.synced : u # t /\ thr[u].m = x
      BY <2>1, <1>1, <1>4, PromisedReturn
    <3> QED BY <3>1, <1>3, <1>7
  <2>4. Others(t)
    BY <2>1, <1>0, <1>1, ReturnView
  <2>5. t \notin flush.covers
    BY <1>0, <1>3 DEF WaitInv
  <2>6. \A x \in Messages : Covered(x)' => Covered(x)
    BY <2>4, <2>5, <1>0, <1>3 DEF Covered, Others
  <2> HIDE DEF r, m
  <2> QED BY <2>2, <2>3, <2>6, <1>0, <1>1, <1>3, FirmKeep
<1> QED BY <1>6, <1>7

(* What is promised is in any log a crash may leave. *)
LEMMA FirmCrash ==
  ASSUME BaseInv, FirmInv, ProcessDies \/ PowerLost
  PROVE  FirmInv'
<1>0. /\ log \in Seq(Entries) /\ durable \in Nat /\ TypeInv
  BY DEF BaseInv, TypeInv
<1>1. /\ \E k \in 0..Len(log) :
              /\ Cut(log, log', k)
              /\ \/ ProcessDies /\ k = Len(log) /\ fate' = fate /\ durable' = durable
                 \/ PowerLost /\ durable' = Len(log')
      /\ flush' = NoFlush /\ \A t \in Threads : thr'[t] = Idle
  BY CrashCuts DEF BaseInv, FileInv
<1>2. flush'.by = Nothing /\ flush'.synced = {}
  BY <1>1 DEF NoFlush
<1>3. \A m \in Messages : Promised(m)' => fate'[m] = "here"
  BY <1>1, <1>2, IdleFields DEF Promised
<1>4. CASE ProcessDies /\ fate' = fate /\ durable' = durable
  <2>1. log' = log \/ log' = Append(log, Torn)
    BY <1>4 DEF ProcessDies, Stop
  <2>2. Torn \in Entries /\ Torn.kind # "enqueue"
    BY TornEntry
  <2>3. \A m \in Messages : Promised(m)' => Promised(m)
    BY <1>3, <1>4 DEF Promised
  <2> QED BY <2>1, <2>2, <2>3, <1>0, <1>2, <1>4, FirmKeep
<1>5. CASE durable' = Len(log') /\ log' \in Seq(Entries)
  <2>1. \A m \in Messages : Firm(log', m, durable')
    BY <1>5, FirmEnd
  <2> QED BY <2>1, <1>2 DEF FirmInv
<1> QED BY <1>1, <1>4, <1>5 DEF Cut

(* A recovery loses nothing of what is promised. *)
LEMMA FirmRecover ==
  ASSUME BaseInv, FirmInv, Recover
  PROVE  FirmInv'
<1>0. /\ log \in Seq(Entries) /\ durable \in Nat
  BY DEF BaseInv, TypeInv
<1>1. /\ log' = Readable(log) /\ flush' = NoFlush /\ \A t \in Threads : thr'[t] = Idle
      /\ durable' = IF durable > Len(log') THEN Len(log') ELSE durable
  BY DEF Recover, BaseInv, DownInv
<1>2. Len(log') = W(log)
  BY <1>1 DEF W
<1>3. flush'.by = Nothing /\ flush'.synced = {}
  BY <1>1 DEF NoFlush
<1>4. \A m \in Messages : fate'[m] = "here" => fate[m] = "here"
  BY DEF Recover
<1>5. \A m \in Messages : Promised(m)' => Promised(m)
  BY <1>1, <1>3, <1>4, IdleFields DEF Promised
<1>6. \A m \in Messages : Firm(log, m, durable) => Firm(log', m, durable')
  BY <1>0, <1>1, <1>2, FirmReadable
<1> QED BY <1>3, <1>5, <1>6 DEF FirmInv

(* A compacted log is flushed before it takes the place of the old one. *)
LEMMA FirmSwap ==
  ASSUME BaseInv, FirmInv, Swap
  PROVE  FirmInv'
<1>1. PICK tail \in Tails : log' = NewLog(tail) /\ durable' = Len(NewLog(tail))
  BY DEF Swap
<1>2. log' \in Seq(Entries) /\ durable' = Len(log')
  BY <1>1, NewLogType DEF Swap, BaseInv
<1>3. \A m \in Messages : Firm(log', m, durable')
  BY <1>2, FirmEnd
<1>4. flush'.by # Nothing => flush'.swapped
  <2>1. /\ flush' = [flush EXCEPT !.swapped = flush.by # Nothing /\ handle # "none"]
        /\ flush \in FlushStates
    BY DEF Swap, BaseInv, TypeInv
  <2>2. flush'.by = flush.by /\ flush'.swapped = (flush.by # Nothing /\ handle # "none")
    BY <2>1 DEF FlushStates
  <2>3. flush.by # Nothing => handle # "none"
    BY <2>1 DEF BaseInv, FlushInv, FileInv, FlushStates
  <2> QED BY <2>2, <2>3
<1> QED BY <1>3, <1>4 DEF FirmInv

(* The mode does not change. *)
LEMMA SyncStays == [Next]_vars => sync' = sync
BY DEF Next, vars, BeginEnqueue, Deliver, Ack, BeginAbsorb, Step, Open, Write, BeginFlush, EndFlush, Wake,
       ReturnDropped, Publish, WriteShort, SyncAll, Marks, Snapshot, Rewrite, Swap, CompactFails, DropSlot,
       CloseFile, RemoveFile, ProcessDies, PowerLost, Recover, Stop

(* Every step keeps what is promised on stable storage in the mode always. *)
LEMMA NextDur == BaseInv /\ ApartInv /\ DurInv /\ FlushInv' /\ [Next]_vars => DurInv'
<1> SUFFICES ASSUME BaseInv, ApartInv, DurInv, FlushInv', [Next]_vars, sync = "always" PROVE FirmInv'
  BY SyncStays DEF DurInv
<1>0. /\ fate \in [Messages -> Fates] /\ log \in Seq(Entries) /\ WaitInv /\ TypeInv /\ FirmInv
      /\ thr \in [Threads -> ThreadStates] /\ durable \in Nat
      /\ \A t \in Threads : ThreadOK(thr[t])
  BY DEF BaseInv, TypeInv, FlushInv, DurInv
<1>1. CASE UNCHANGED vars \/ Marks \/ Snapshot \/ Rewrite \/ CompactFails
  <2>1. log' = log /\ durable' = durable /\ thr' = thr /\ flush' = flush /\ fate' = fate
    BY <1>1 DEF vars, Marks, Snapshot, Rewrite, CompactFails, disk, history
  <2> QED BY <2>1, <1>0 DEF FirmInv, Promised, Covered
<1>2. CASE SyncAll
  BY <1>2 DEF SyncAll
<1>3. ASSUME NEW t \in Threads, NEW m \in Messages, BeginEnqueue(t, m) \/ Deliver(t, m) \/ Ack(t, m)
      PROVE  FirmInv'
  <2>1. /\ Others(t) /\ thr[t] = Idle /\ thr'[t].got = {} /\ thr'[t].pc = "open"
    BY <1>3, <1>0, BeginView
  <2>2. /\ flush' = flush /\ durable' = durable /\ log' = log
        /\ \A x \in Messages : fate'[x] = "here" => fate[x] = "here"
    BY <1>3, <1>0 DEF BeginEnqueue, Deliver, Ack, disk, history
  <2> QED BY <2>1, <2>2, <1>0, IdleFields, FirmAside
<1>4. ASSUME NEW t \in Threads, NEW ms \in SUBSET Messages, BeginAbsorb(t, ms) PROVE FirmInv'
  <2>1. /\ Others(t) /\ thr[t] = Idle /\ thr'[t].got = {} /\ thr'[t].pc = "open"
    BY <1>4, <1>0, BeginView
  <2>2. /\ flush' = flush /\ durable' = durable /\ log' = log /\ fate' = fate
    BY <1>4 DEF BeginAbsorb, disk, history
  <2> QED BY <2>1, <2>2, <1>0, IdleFields, FirmAside
<1>5. ASSUME NEW t \in Threads, Open(t) PROVE FirmInv'
  <2>1. Others(t) /\ Elsewhere(thr[t], thr'[t]) /\ thr[t].pc = "open" /\ thr'[t].pc = "write"
    BY <1>5, <1>0, GoView
  <2>2. /\ flush' = flush /\ durable' = durable /\ log' = log /\ fate' = fate
    BY <1>5 DEF Open, disk, history
  <2> QED BY <2>1, <2>2, <1>0, FirmAside DEF Elsewhere
<1>6. ASSUME NEW t \in Threads, BeginFlush(t) PROVE FirmInv'
  <2>1. Others(t) /\ Elsewhere(thr[t], thr'[t]) /\ thr'[t].pc = "flush"
    BY <1>6, <1>0, GoView
  <2>2. /\ flush' = [flush EXCEPT !.by = t,
                            !.covers = {u \in Threads : thr[u].pc = "sync"} \ flush.synced,
                            !.upto = Len(log),
                            !.swapped = FALSE]
        /\ durable' = durable /\ log' = log /\ fate' = fate /\ t \notin flush.synced
    BY <1>6 DEF BeginFlush, disk, history
  <2>3. flush'.synced = flush.synced /\ flush'.upto = Len(log) /\ ~ flush'.swapped
    BY <2>2, <1>0 DEF TypeInv, FlushStates
  <2>4. \A m \in Messages : Promised(m)' => Promised(m)
    BY <2>1, <2>2, <2>3, PromisedMoves DEF Elsewhere
  <2>5. \A m \in Messages : Firm(log, m, Len(log))
    BY <1>0, FirmEnd
  <2> QED BY <2>2, <2>3, <2>4, <2>5, <1>0 DEF FirmInv
<1>7. ASSUME NEW t \in Threads, EndFlush(t) \/ Wake(t) \/ ReturnDropped(t) PROVE FirmInv'
  BY <1>7, <1>0, FirmEndFlush, FirmWake
<1>8. ASSUME NEW t \in Threads, Publish(t) PROVE FirmInv'
  <2>1. Others(t) /\ thr[t].pc = "publish" /\ thr'[t] = Idle
    BY <1>8, <1>0, GoView
  <2>2. /\ log' = log /\ durable' = durable /\ flush' = flush
        /\ \A x \in Messages : fate'[x] = IF x \in thr[t].got THEN "here" ELSE fate[x]
    BY <1>8 DEF Publish, disk
  <2>3. t \notin flush.covers /\ flush.covers \subseteq Threads
    BY <2>1, <1>0 DEF WaitInv, TypeInv, FlushStates
  <2>4. \A x \in Messages : Covered(x)' => Covered(x)
    BY <2>1, <2>2, <2>3 DEF Covered, Others
  <2>5. ASSUME NEW x \in Messages, Promised(x)' PROVE Promised(x)
    <3>1. CASE fate'[x] = "here"
      BY <3>1, <2>2 DEF Promised
    <3>2. ASSUME NEW u \in Threads, \/ x \in thr'[u].got
                                    \/ thr'[u].m = x /\ (u \in flush'.synced \/ thr'[u].pc = "cut")
          PROVE  Promised(x)
      <4>1. u # t
        BY <3>2, <2>1, <2>2, <1>0, IdleFields DEF WaitInv
      <4> QED BY <4>1, <3>2, <2>1, <2>2 DEF Promised, Others
    <3> QED BY <3>1, <3>2, <2>5 DEF Promised
  <2> QED BY <2>2, <2>4, <2>5, <1>0, FirmKeep
<1>9. CASE CloseFile
  BY <1>9, <1>0, FirmClose
<1>10. CASE DropSlot
  <2>1. /\ log' = log /\ durable' = durable /\ thr' = thr /\ flush' = flush
        /\ \A x \in Messages : fate'[x] = "here" => fate[x] = "here"
    BY <1>10 DEF DropSlot, disk
  <2> QED BY <2>1, <1>0 DEF FirmInv, Promised, Covered
<1>11. CASE RemoveFile
  <2>1. log' = <<>>
    BY <1>11 DEF RemoveFile
  <2> QED BY <2>1, FirmEmpty DEF FirmInv
<1>12. ASSUME NEW t \in Threads, WriteShort(t) PROVE FirmInv'
  <2>1. /\ log' = Append(log, Torn) /\ fate' = fate /\ Return(t, FALSE) /\ flush' = flush /\ durable' = durable
        /\ thr[t].m \in Messages /\ thr[t].pc = "write"
    BY <1>12, <1>0, WriteShortLog DEF WriteShort
  <2>2. Others(t) /\ thr'[t] = Idle
    BY <2>1, <1>0, ReturnView
  <2>3. Torn \in Entries /\ Torn.kind # "enqueue"
    BY TornEntry
  <2> QED BY <2>1, <2>2, <2>3, <1>0, IdleFields, FirmAside
<1>13. ASSUME NEW t \in Threads, Write(t) PROVE FirmInv'
  BY <1>13, <1>0, FirmWrite
<1>14. CASE Swap
  BY <1>14, <1>0, FirmSwap
<1>15. CASE ProcessDies \/ PowerLost
  BY <1>15, <1>0, FirmCrash
<1>16. CASE Recover
  BY <1>16, <1>0, FirmRecover
<1> QED BY <1>1, <1>2, <1>3, <1>4, <1>5, <1>6, <1>7, <1>8, <1>9, <1>10, <1>11, <1>12, <1>13, <1>14, <1>15, <1>16
        DEF Next, Step

-----------------------------------------------------------------------------
(* A message some caller knows to be safe, or whose record is written on   *)
(* behalf of a caller that is about to know. *)
Reported(m) == fate[m] = "here" \/ \E t \in Threads : m \in WrittenOf(thr[t])
Kept(m) == Reported(m) /\ m \notin exposed

(* It has an enqueue record past the compactor's mark. *)
PastMark(m) == \E i \in 1..W(log) : i > comp.mark /\ Is(log, i, "enqueue", m)

(* A replay finds what is kept, and so it does after the compaction: by    *)
(* the snapshot, or by what is past the mark. *)
HereInv ==
  /\ \A m \in Messages : Kept(m) => m \in Live(log)
  /\ comp.pc = "snapshot" /\ ~ comp.stale =>
       \A m \in Messages : Kept(m) => m \in mem \/ m \in comp.missed \/ PastMark(m)
  /\ comp.pc \in {"rewrite", "swap"} /\ ~ comp.stale =>
       \A m \in Messages : Kept(m) => m \in comp.snap \/ m \in comp.missed \/ PastMark(m)

(* Nothing has been reported at the start. *)
LEMMA InitHere == Init => HereInv
<1> SUFFICES ASSUME Init PROVE HereInv
  OBVIOUS
<1>1. comp.pc = "idle"
  BY DEF Init, NoComp
<1>2. \A m \in Messages : ~ Reported(m)
  BY IdleView DEF Init, Reported
<1> QED BY <1>1, <1>2 DEF HereInv, Kept

(* A snapshot and a tail: what is live stays so if either names it. *)
LEMMA SpliceLive ==
  ASSUME NEW s \in Seq(Entries), NEW r \in Seq(Entries), NEW a \in 0..Len(s), NEW q,
         SplicedAt(q, r, s, a),
         \A i \in 1..Len(r) : r[i].kind \in {"enqueue", "attempt"},
         NEW m \in Messages, EndsSeen(s, m), m \in Live(s),
         \/ \E i \in 1..Len(r) : Is(r, i, "enqueue", m)
         \/ \E i \in 1..W(s) : i > a /\ Is(s, i, "enqueue", m)
  PROVE  m \in Live(q)
<1> DEFINE n == Len(r)
<1>1. Len(s) \in Nat /\ W(s) \in 0..Len(s) /\ n \in Nat /\ q \in Seq(Entries)
  BY WholeIff, LenProperties DEF SplicedAt
<1>11. W(q) \in 0..Len(q) /\ Len(q) \in Nat
  BY <1>1, WholeIff, LenProperties
<1>2. /\ Len(q) = n + (Len(s) - a)
      /\ \A i \in 1..n : q[i] = r[i]
      /\ \A i \in (a + 1)..Len(s) : q[n + (i - a)] = s[i]
      /\ \A i \in (a + 1)..W(s) : n + (i - a) \in 1..W(q)
      /\ n <= W(q)
  BY DEF SplicedAt
<1>3. \A i \in 1..n : ~ Is(q, i, "terminal", m)
  BY <1>2 DEF Is
<1>30. \A k : \A i \in 1..n : Is(q, i, k, m) <=> Is(r, i, k, m)
  BY <1>2 DEF Is
<1> HIDE DEF n
<1>4. PICK e \in 1..W(s) : /\ Is(s, e, "enqueue", m)
                           /\ \A j \in 1..W(s) : Is(s, j, "terminal", m) => j < e
  BY LiveIff
<1>5. ASSUME NEW i \in 1..W(q), Is(q, i, "terminal", m)
      PROVE  \E l \in (a + 1)..W(s) : i = n + (l - a) /\ l < e
  <2>1. i > n
    <3>1. i > n \/ i \in 1..n
      BY <1>1, <1>11
    <3> QED BY <3>1, <1>3, <1>5
  <2> DEFINE l == (i - n) + a
  <2>2. l \in (a + 1)..Len(s) /\ i = n + (l - a) /\ l \in 1..Len(s)
    BY <1>1, <1>11, <1>2, <2>1
  <2> HIDE DEF l
  <2>3. Is(s, l, "terminal", m)
    BY <2>2, <1>2, <1>5 DEF Is
  <2>4. l <= W(s)
    BY <2>2, <2>3 DEF EndsSeen
  <2>5. l \in (a + 1)..W(s) /\ l \in 1..W(s)
    BY <2>2, <2>4, <1>1
  <2> QED BY <2>2, <2>3, <2>5, <1>4
<1>6. ASSUME NEW l \in (a + 1)..W(s), Is(s, l, "enqueue", m)
      PROVE  n + (l - a) \in 1..W(q) /\ Is(q, n + (l - a), "enqueue", m)
  <2>1. l \in (a + 1)..Len(s)
    BY <1>1
  <2> QED BY <2>1, <1>2, <1>6 DEF Is
<1>7. CASE e > a
  <2>1. e \in (a + 1)..W(s)
    BY <1>7, <1>1
  <2>2. n + (e - a) \in 1..W(q) /\ Is(q, n + (e - a), "enqueue", m)
    BY <2>1, <1>4, <1>6
  <2>3. \A i \in 1..W(q) : Is(q, i, "terminal", m) => i < n + (e - a)
    <3> SUFFICES ASSUME NEW i \in 1..W(q), Is(q, i, "terminal", m) PROVE i < n + (e - a)
      OBVIOUS
    <3>1. PICK l \in (a + 1)..W(s) : i = n + (l - a) /\ l < e
      BY <1>5
    <3> QED BY <3>1, <2>1, <1>1
  <2> QED BY <2>2, <2>3, <1>1, LiveIff
<1>8. CASE ~ (e > a)
  <2>1. \A i \in 1..W(q) : ~ Is(q, i, "terminal", m)
    <3> SUFFICES ASSUME NEW i \in 1..W(q), Is(q, i, "terminal", m) PROVE FALSE
      OBVIOUS
    <3>1. PICK l \in (a + 1)..W(s) : i = n + (l - a) /\ l < e
      BY <1>5
    <3> QED BY <3>1, <1>8, <1>1, <1>4
  <2>2. \E i \in 1..W(q) : Is(q, i, "enqueue", m)
    <3>1. CASE \E i \in 1..n : Is(r, i, "enqueue", m)
      <4>1. PICK i \in 1..n : Is(r, i, "enqueue", m)
        BY <3>1
      <4>2. i \in 1..W(q)
        BY <1>1, <1>11, <1>2
      <4> QED BY <4>1, <4>2, <1>30
    <3>2. CASE \E i \in 1..W(s) : i > a /\ Is(s, i, "enqueue", m)
      <4>1. PICK i \in 1..W(s) : i > a /\ Is(s, i, "enqueue", m)
        BY <3>2
      <4>2. i \in (a + 1)..W(s)
        BY <4>1, <1>1
      <4> QED BY <4>1, <4>2, <1>6
    <3> QED BY <3>1, <3>2 DEF n
  <2> QED BY <2>1, <2>2, <1>1, LiveIff
<1> QED BY <1>7, <1>8, <1>1, <1>4

(* What the snapshot mends: nothing in the tail undoes it. *)
LEMMA SpliceMends ==
  ASSUME NEW s \in Seq(Entries), NEW r \in Seq(Entries), W(r) = Len(r),
         \A i \in 1..Len(r) : r[i].kind \in {"enqueue", "attempt"},
         NEW tail \in Seq(Entries), NEW m \in Messages,
         \A i \in DOMAIN tail : tail[i].kind # "torn" /\ ~ (tail[i].kind = "terminal" /\ tail[i].id = m),
         \E i \in 1..Len(r) : Is(r, i, "enqueue", m)
  PROVE  m \in Live(r \o tail)
<1> DEFINE q == r \o tail
<1>1. /\ q \in Seq(Entries) /\ Len(q) = Len(r) + Len(tail)
      /\ \A i \in 1..Len(r) : q[i] = r[i]
      /\ \A i \in 1..Len(tail) : q[Len(r) + i] = tail[i]
      /\ W(q) = Len(r) + W(tail)
      /\ Len(r) \in Nat /\ Len(tail) \in Nat /\ W(tail) \in 0..Len(tail)
  BY WholeConcat, WholeIff, LenProperties
<1> HIDE DEF q
<1>2. \A i \in 1..W(q) : ~ Is(q, i, "terminal", m)
  <2> SUFFICES ASSUME NEW i \in 1..W(q), Is(q, i, "terminal", m) PROVE FALSE
    OBVIOUS
  <2>1. CASE i <= Len(r)
    <3>1. i \in 1..Len(r)
      BY <2>1, <1>1
    <3> QED BY <3>1, <1>1 DEF Is
  <2>2. CASE i > Len(r)
    <3> DEFINE j == i - Len(r)
    <3>1. j \in 1..Len(tail) /\ i = Len(r) + j
      BY <2>2, <1>1
    <3> HIDE DEF j
    <3>2. DOMAIN tail = 1..Len(tail)
      BY LenProperties
    <3>3. q[i] = tail[j]
      BY <3>1, <1>1
    <3> QED BY <3>1, <3>2, <3>3 DEF Is
  <2> QED BY <2>1, <2>2, <1>1
<1>3. PICK i \in 1..Len(r) : Is(r, i, "enqueue", m)
  OBVIOUS
<1>4. i \in 1..W(q) /\ Is(q, i, "enqueue", m)
  BY <1>1, <1>3 DEF Is
<1> QED BY <1>1, <1>2, <1>4, LiveIff DEF q

-----------------------------------------------------------------------------
(* Steps that leave the log and the compactor alone, and report nothing. *)
LEMMA HereSame ==
  ASSUME HereInv, log' = log, comp' = comp \/ comp'.pc = "idle",
         \A m \in Messages : Kept(m)' => Kept(m) /\ (m \in mem => m \in mem')
  PROVE  HereInv'
<1>1. \A m \in Messages : Kept(m)' => m \in Live(log)'
  BY DEF HereInv
<1>2. CASE comp' = comp
  BY <1>1, <1>2 DEF HereInv, PastMark
<1>3. CASE comp'.pc = "idle"
  BY <1>1, <1>3 DEF HereInv
<1> QED BY <1>2, <1>3

(* A record is appended, or written to a file that has no name. *)
LEMMA HereGrows ==
  ASSUME BaseInv, HereInv, NEW r \in Entries, log' \in {log, Append(log, r)}, comp' = comp,
         mem \subseteq mem',
         \A m \in Messages : Kept(m)' =>
           \/ Kept(m) /\ ~ (r.kind = "terminal" /\ r.id = m)
           \/ r.kind = "enqueue" /\ r.id = m /\ W(log) = Len(log) /\ log' = Append(log, r)
  PROVE  HereInv'
<1>1. log \in Seq(Entries) /\ Len(log) \in Nat /\ W(log) \in 0..Len(log)
  BY WholeIff, LenProperties DEF BaseInv, TypeInv
<1>2. CASE log' = log
  <2>1. \A m \in Messages : Kept(m)' => Kept(m)
    <3> SUFFICES ASSUME NEW m \in Messages, Kept(m)', log' = Append(log, r) PROVE Kept(m)
      BY <1>2
    <3>1. Len(Append(log, r)) = Len(log) + 1
      BY <1>1, WholeAppend
    <3> QED BY <1>1, <1>2, <3>1
  <2> QED BY <1>2, <2>1, HereSame
<1>3. CASE log' = Append(log, r)
  <2>1. /\ Len(log') = Len(log) + 1
        /\ \A i \in 1..Len(log) : log'[i] = log[i]
        /\ log'[Len(log) + 1] = r
        /\ W(log') = IF W(log) = Len(log) /\ r.kind # "torn" THEN Len(log) + 1 ELSE W(log)
    BY <1>1, <1>3, WholeAppend
  <2>2. \A m \in Messages : Kept(m)' => m \in Live(log')
    BY <1>1, <1>3, LiveAppend DEF HereInv
  <2>3. \A m \in Messages : PastMark(m) => PastMark(m)'
    <3> SUFFICES ASSUME NEW m \in Messages, NEW i \in 1..W(log), i > comp.mark, Is(log, i, "enqueue", m)
                 PROVE  i \in 1..W(log') /\ i > comp'.mark /\ Is(log', i, "enqueue", m)
      BY DEF PastMark
    <3> QED BY <1>1, <2>1 DEF Is
  <2>4. ASSUME comp.pc \in {"snapshot", "rewrite", "swap"}, ~ comp.stale, NEW m \in Messages,
               r.kind = "enqueue", r.id = m, W(log) = Len(log)
        PROVE  PastMark(m)'
    <3>1. comp.mark <= Len(log) /\ comp.mark \in Nat
      BY <2>4 DEF BaseInv, CompInv, TypeInv, CompStates
    <3>2. Len(log) + 1 \in 1..W(log') /\ Len(log) + 1 > comp'.mark
      BY <2>1, <2>4, <3>1, <1>1
    <3> QED BY <2>1, <2>4, <3>2 DEF PastMark, Is
  <2>5. ASSUME comp.pc = "snapshot", ~ comp.stale, NEW m \in Messages, Kept(m)'
        PROVE  m \in mem' \/ m \in comp'.missed \/ PastMark(m)'
    BY <2>3, <2>4, <2>5 DEF HereInv
  <2>6. ASSUME comp.pc \in {"rewrite", "swap"}, ~ comp.stale, NEW m \in Messages, Kept(m)'
        PROVE  m \in comp'.snap \/ m \in comp'.missed \/ PastMark(m)'
    BY <2>3, <2>4, <2>6 DEF HereInv
  <2>7. (comp.pc = "snapshot" /\ ~ comp.stale => \A m \in Messages : Kept(m)' => m \in mem' \/ m \in comp'.missed \/ PastMark(m)')
    BY <2>5
  <2>8. (comp.pc \in {"rewrite", "swap"} /\ ~ comp.stale => \A m \in Messages : Kept(m)' => m \in comp'.snap \/ m \in comp'.missed \/ PastMark(m)')
    BY <2>6
  <2> QED BY <2>2, <2>7, <2>8 DEF HereInv
<1> QED BY <1>2, <1>3

(* An append that is over reports what it was about, and no more. *)
LEMMA ReportedReturn ==
  ASSUME BaseInv, NEW t \in Threads, NEW ok \in BOOLEAN, Return(t, ok), thr[t].m \in Messages,
         NEW f \in [Messages -> Fates], fate' = Told(t, ok, f),
         \A x \in Messages : f[x] = "here" => fate[x] = "here"
  PROVE  \A m \in Messages : Reported(m)' =>
           Reported(m) \/ (ok /\ thr[t].op \in Bringing /\ m = thr[t].m)
<1> USE DEF Bringing
<1>0. TypeInv
  BY DEF BaseInv
<1> SUFFICES ASSUME NEW m \in Messages, Reported(m)'
             PROVE  Reported(m) \/ (ok /\ thr[t].op \in Bringing /\ m = thr[t].m)
  OBVIOUS
<1>1. CASE fate'[m] = "here"
  BY <1>1, ToldIs DEF Reported
<1>2. CASE \E u \in Threads : m \in WrittenOf(thr'[u])
  <2>1. PICK u \in Threads : m \in WrittenOf(thr'[u])
    BY <1>2
  <2>2. CASE u # t
    BY <2>1, <2>2, <1>0, ReturnView DEF Reported, Others
  <2>3. CASE u = t
    <3>1. thr[t].got \subseteq WrittenOf(thr[t])
      BY DEF WrittenOf
    <3>2. \/ thr[t].op = "absorb" /\ ok /\ WrittenOf(thr'[t]) = thr[t].got \cup {thr[t].m}
          \/ thr'[t] = Idle
      BY <1>0, ReturnView
    <3> QED BY <2>1, <2>3, <3>1, <3>2, IdleView DEF Reported
  <2> QED BY <2>2, <2>3
<1> QED BY <1>1, <1>2 DEF Reported

(* A write makes its message live, or exposed names it. *)
LEMMA HereWrite ==
  ASSUME BaseInv, ApartInv, HereInv, NEW t \in Threads, Write(t)
  PROVE  HereInv'
<1> USE DEF Bringing
<1> DEFINE r == Its(thr[t])
<1>0. TypeInv /\ fate \in [Messages -> Fates] /\ log \in Seq(Entries) /\ thr[t] \in ThreadStates /\ ThreadOK(thr[t])
  BY DEF BaseInv, TypeInv
<1>1. /\ thr[t].m \in Messages /\ r \in Entries /\ thr[t].pc = "write"
      /\ log' = IF handle = "path" THEN Append(log, r) ELSE log
      /\ thr[t].op \in {"enqueue", "absorb", "attempt", "terminal"}
      /\ comp' = comp
  BY <1>0, WriteLog, WriteView
<1>2. r.id = thr[t].m /\ r.kind = IF thr[t].op = "absorb" THEN "enqueue" ELSE thr[t].op
  BY <1>0, <1>1, ItsEntry
<1> HIDE DEF r
<1>3. /\ WriteFate(t) \in [Messages -> Fates]
      /\ \A x \in Messages : WriteFate(t)[x] = "here" => fate[x] = "here"
  BY <1>0, <1>1, WriteView DEF Fates
<1>4. \A m \in Messages : Reported(m)' => Reported(m) \/ (thr[t].op \in Bringing /\ m = thr[t].m)
  <2>1. CASE NeedsFlush(t)
    <3>1. fate' = WriteFate(t) /\ Others(t) /\ Elsewhere(thr[t], thr'[t])
      BY <1>0, <2>1, WriteView, GoView
    <3>2. WrittenOf(thr'[t]) \subseteq thr[t].got \cup (IF thr[t].op \in Bringing THEN {thr[t].m} ELSE {})
      BY <3>1, ElsewhereView
    <3>3. thr[t].got \subseteq WrittenOf(thr[t])
      BY DEF WrittenOf
    <3> QED BY <1>3, <3>1, <3>2, <3>3 DEF Reported, Others
  <2>2. CASE ~ NeedsFlush(t)
    <3>1. Return(t, TRUE) /\ fate' = Told(t, TRUE, WriteFate(t))
      BY <1>0, <2>2, WriteView
    <3> HIDE DEF WriteFate
    <3> QED BY <1>1, <1>3, <3>1, ReportedReturn
  <2> QED BY <2>1, <2>2
<1>5. mem \subseteq mem'
  BY <1>0, <1>1, WriteView, ReturnView
<1>6. /\ thr[t].op \notin {"enqueue", "absorb"} => exposed' = exposed
      /\ thr[t].op \in {"enqueue", "absorb"} /\ Sound => exposed' = exposed \ {thr[t].m}
      /\ thr[t].op \in {"enqueue", "absorb"} /\ ~ Sound => exposed' = exposed \cup {thr[t].m}
  BY DEF Write
<1>7. ASSUME NEW m \in Messages, Kept(m)'
      PROVE  \/ Kept(m) /\ ~ (r.kind = "terminal" /\ r.id = m)
             \/ r.kind = "enqueue" /\ r.id = m /\ W(log) = Len(log) /\ log' = Append(log, r)
  <2>0. Reported(m)' /\ m \notin exposed'
    BY <1>7 DEF Kept
  <2>1. CASE thr[t].op \in Bringing /\ Sound
    <3>1. W(log) = Len(log) /\ log' = Append(log, r)
      BY <2>1, <1>0, <1>1, WholeSound DEF Sound
    <3>2. exposed' = exposed \ {thr[t].m}
      BY <2>1, <1>6
    <3> QED BY <2>0, <2>1, <3>1, <3>2, <1>2, <1>4 DEF Kept
  <2>2. CASE thr[t].op \in Bringing /\ ~ Sound
    <3>1. exposed' = exposed \cup {thr[t].m}
      BY <2>2, <1>6
    <3> QED BY <2>0, <2>2, <3>1, <1>2, <1>4 DEF Kept
  <2>3. CASE thr[t].op \notin Bringing
    <3>1. exposed' = exposed
      BY <2>3, <1>6
    <3>2. Kept(m)
      BY <2>0, <2>3, <3>1, <1>4 DEF Kept
    <3>3. thr[t].op = "terminal" => thr[t].m # m
      BY <3>2 DEF Kept, Reported, ApartInv
    <3> QED BY <3>2, <3>3, <1>2
  <2> QED BY <2>1, <2>2, <2>3
<1> QED BY <1>1, <1>5, <1>7, HereGrows

(* Who has been told, and who is about to be. *)
LEMMA ReportedWhere ==
  ASSUME BaseInv, ApartInv, NEW m \in Messages, Reported(m)
  PROVE  /\ fate[m] \in {"here", "coming"}
         /\ up => m \in mem \/ m \in AllComing
<1>1. TypeInv
  BY DEF BaseInv
<1>2. \A t \in Threads : WrittenOf(thr[t]) \subseteq ComingOf(thr[t])
  BY <1>1, Views DEF TypeInv
<1> QED BY <1>2, AllComingIs DEF Reported, ApartInv

(* At the mark, what is kept is in memory or missed. *)
LEMMA HereMarks ==
  ASSUME BaseInv, ApartInv, HereInv, Marks
  PROVE  HereInv'
<1>0. TypeInv /\ log \in Seq(Entries) /\ up
  BY DEF BaseInv, TypeInv, Marks, MayBegin
<1>1. \A m \in Messages : Kept(m)' <=> Kept(m)
  BY DEF Marks, Kept, Reported, history, WrittenOf, Bringing
<1>2. /\ log' = log /\ mem' = mem /\ comp'.pc = "snapshot"
      /\ comp'.missed = {m \in AllComing : LastOf(log, "enqueue", m) > 0}
  BY DEF Marks, NoComp, disk, memory
<1>3. ASSUME NEW m \in Messages, Kept(m)
      PROVE  m \in mem \/ m \in comp'.missed
  <2>1. m \in mem \/ m \in AllComing
    BY <1>0, <1>3, ReportedWhere DEF Kept
  <2>2. m \in Live(log)
    BY <1>3 DEF HereInv
  <2>3. PICK i \in 1..W(log) : Is(log, i, "enqueue", m)
    BY <2>2, <1>0, LiveIff
  <2>4. i \in 1..Len(log) /\ Len(log) \in Nat /\ LastOf(log, "enqueue", m) \in 0..Len(log)
        /\ i <= LastOf(log, "enqueue", m)
    BY <2>3, <1>0, WholeIff, LastOfIs, LenProperties
  <2>5. LastOf(log, "enqueue", m) > 0
    BY <2>4
  <2> QED BY <2>1, <2>5, <1>2
<1> QED BY <1>1, <1>2, <1>3 DEF HereInv

(* The snapshot has what memory has. *)
LEMMA HereSnapshot ==
  ASSUME BaseInv, HereInv, Snapshot
  PROVE  HereInv'
<1>1. \A m \in Messages : Kept(m)' <=> Kept(m)
  BY DEF Snapshot, Kept, Reported, history, WrittenOf, Bringing
<1>2. CASE known
  <2>1. /\ comp' = [comp EXCEPT !.pc = "rewrite", !.snap = mem, !.missed = comp.missed \ mem]
        /\ comp.pc = "snapshot" /\ log' = log /\ comp \in CompStates
    BY <1>2 DEF Snapshot, disk, BaseInv, TypeInv
  <2>2. /\ comp'.pc = "rewrite" /\ comp'.stale = comp.stale /\ comp'.snap = mem
        /\ comp'.missed = comp.missed \ mem /\ comp'.mark = comp.mark
    BY <2>1 DEF CompStates
  <2>3. \A m \in Messages : PastMark(m)' <=> PastMark(m)
    BY <2>1, <2>2 DEF PastMark
  <2> QED BY <1>1, <2>1, <2>2, <2>3 DEF HereInv
<1>3. CASE ~ known
  <2>1. comp'.pc = "idle" /\ log' = log /\ mem' = mem
    BY <1>3 DEF Snapshot, NoComp, disk, memory
  <2> QED BY <1>1, <2>1, HereSame
<1> QED BY <1>2, <1>3

(* A compaction that has been let alone loses what it missed and names it, *)
(* and one that has not names all there is. *)
LEMMA HereSwap ==
  ASSUME BaseInv, ApartInv, SeenInv, HereInv, Swap
  PROVE  HereInv'
<1>0. TypeInv /\ CompInv /\ log \in Seq(Entries) /\ comp.pc = "swap" /\ comp' = NoComp /\ up
  BY DEF BaseInv, TypeInv, Swap, DownInv, NoComp
<1>1. PICK tail \in Tails :
        /\ log' = NewLog(tail)
        /\ exposed' = IF comp.stale THEN exposed \cup mem \cup AllComing
                      ELSE (exposed \ Mended(tail)) \cup comp.missed
  BY DEF Swap
<1>2. \A m \in Messages : Reported(m)' <=> Reported(m)
  BY DEF Swap, Reported, WrittenOf, Bringing, memory
<1>3. comp'.pc = "idle"
  BY <1>0 DEF NoComp
<1>4. ASSUME NEW m \in Messages, Kept(m)'
      PROVE  m \in Live(log')
  <2>0. Reported(m) /\ m \notin exposed'
    BY <1>2, <1>4 DEF Kept
  <2>1. CASE comp.stale
    BY <1>0, <1>1, <2>0, <2>1, ReportedWhere
  <2>2. CASE ~ comp.stale
    <3>1. /\ comp.mark \in 0..Len(log) /\ tail = SubSeq(log, comp.mark + 1, Len(log))
          /\ comp.rec \in Seq(Entries) /\ W(comp.rec) = Len(comp.rec)
      BY <1>0, <2>2, SwapLog
    <3>2. PICK b \in [Messages -> 0..MaxAttempts] : Tells(comp.rec, comp.snap, b)
      BY <1>0 DEF CompInv
    <3>3. /\ \A i \in 1..Len(comp.rec) : comp.rec[i].kind \in {"enqueue", "attempt"}
          /\ \A x \in comp.snap : \E i \in 1..Len(comp.rec) : Is(comp.rec, i, "enqueue", x)
      BY <3>2 DEF Tells
    <3>4. tail \in Seq(Entries)
      BY <1>0, <3>1, WholeSuffix
    <3>5. CASE m \in Mended(tail)
      <4>1. m \in comp.snap /\ \A i \in DOMAIN tail :
               tail[i].kind # "torn" /\ ~ (tail[i].kind = "terminal" /\ tail[i].id = m)
        BY <3>5 DEF Mended
      <4>2. m \in Live(comp.rec \o tail)
        BY <3>1, <3>3, <3>4, <4>1, SpliceMends
      <4> QED BY <4>2, <1>1 DEF NewLog
    <3>6. CASE m \notin Mended(tail)
      <4>1. m \notin comp.missed /\ Kept(m)
        BY <1>1, <2>0, <2>2, <3>6 DEF Kept
      <4>2. m \in Live(log) /\ (m \in comp.snap \/ PastMark(m))
        BY <4>1, <1>0, <2>2 DEF HereInv
      <4>3. EndsSeen(log, m)
        BY <2>0, ReportedWhere DEF SeenInv, Ending, Fresh
      <4>4. SplicedAt(log', comp.rec, log, comp.mark)
        BY <1>0, <1>1, <3>1, NewLogAt DEF NewLog, Spliced
      <4>5. \/ \E i \in 1..Len(comp.rec) : Is(comp.rec, i, "enqueue", m)
            \/ \E i \in 1..W(log) : i > comp.mark /\ Is(log, i, "enqueue", m)
        BY <4>2, <3>3 DEF PastMark
      <4> QED BY <1>0, <3>1, <3>3, <4>2, <4>3, <4>4, <4>5, SpliceLive
    <3> QED BY <3>5, <3>6
  <2> QED BY <2>1, <2>2
<1> QED BY <1>3, <1>4 DEF HereInv

(* A file that is removed takes only what exposed names then. *)
LEMMA HereRemove ==
  ASSUME BaseInv, ApartInv, HereInv, RemoveFile
  PROVE  HereInv'
<1>1. up
  BY DEF BaseInv, DownInv, RemoveFile
<1>2. ASSUME NEW m \in Messages, Kept(m)' PROVE FALSE
  <2>1. Reported(m) /\ m \notin exposed /\ ~ (m \in Live(log) /\ (m \in mem \/ m \in AllComing))
    BY <1>2 DEF RemoveFile, Kept, Reported, WrittenOf, Bringing, BaseInv, TypeInv, Fates
  <2> QED BY <1>1, <2>1, ReportedWhere DEF HereInv, Kept
<1> QED BY <1>2 DEF HereInv

(* A crash leaves what is kept in the log. *)
LEMMA HereCrash ==
  ASSUME BaseInv, DurInv, HereInv, ProcessDies \/ PowerLost
  PROVE  HereInv'
<1>0. TypeInv /\ log \in Seq(Entries) /\ durable <= Len(log) /\ durable \in Nat /\ Len(log) \in Nat
  BY LenProperties DEF BaseInv, TypeInv, FileInv
<1>1. /\ comp'.pc = "idle" /\ exposed' = exposed /\ \A t \in Threads : thr'[t] = Idle
  BY <1>0, CrashCuts DEF NoComp
<1>2. PICK k \in 0..Len(log) :
        /\ Cut(log, log', k)
        /\ \/ ProcessDies /\ k = Len(log) /\ fate' = fate /\ durable' = durable
           \/ /\ PowerLost /\ durable <= k /\ durable' = Len(log')
              /\ fate' = [m \in Messages |->
                   CASE fate[m] = "here" /\ m \notin Live(log') /\ sync # "always" -> "lost"
                     [] fate[m] = "done" /\ m \in Live(log')                     -> "acked"
                     [] OTHER                                                   -> fate[m]]
  BY <1>0, CrashCuts
<1>3. ASSUME NEW m \in Messages, Kept(m)' PROVE m \in Live(log')
  <2>1. fate'[m] = "here" /\ m \notin exposed
    BY <1>1, <1>3, IdleView DEF Kept, Reported
  <2>2. CASE ProcessDies /\ k = Len(log) /\ fate' = fate
    <3>1. m \in Live(log)
      BY <2>1, <2>2 DEF HereInv, Kept, Reported
    <3>2. Cut(log, log, Len(log))
      BY <1>0, CutWhole
    <3>3. m \in Live(SubSeq(log, 1, Len(log)))
      BY <1>0, <3>1, <3>2, CutLive
    <3> QED BY <1>0, <1>2, <2>2, <3>3, CutLive
  <2>3. CASE durable <= k /\ fate'[m] = CASE fate[m] = "here" /\ m \notin Live(log') /\ sync # "always" -> "lost"
                     [] fate[m] = "done" /\ m \in Live(log')                     -> "acked"
                     [] OTHER                                                   -> fate[m]
    <3>1. fate[m] = "here"
      BY <2>1, <2>3
    <3>2. m \in Live(log') \/ sync = "always"
      BY <2>1, <2>3, <3>1
    <3>3. m \in Live(log)
      BY <2>1, <3>1 DEF HereInv, Kept, Reported
    <3>4. CASE sync = "always"
      <4>1. Firm(log, m, durable)
        BY <3>1, <3>4 DEF DurInv, FirmInv, Promised
      <4>2. k \in durable..Len(log)
        BY <1>0, <2>3
      <4>3. m \in Live(SubSeq(log, 1, k))
        BY <3>3, <4>1, <4>2 DEF Firm
      <4> QED BY <1>0, <1>2, <4>3, CutLive
    <3> QED BY <3>2, <3>4
  <2> QED BY <1>2, <2>2, <2>3
<1> QED BY <1>1, <1>3 DEF HereInv

(* A recovery brings it back. *)
LEMMA HereRecover ==
  ASSUME BaseInv, HereInv, Recover
  PROVE  HereInv'
<1>0. TypeInv /\ log \in Seq(Entries) /\ comp'.pc = "idle" /\ \A t \in Threads : thr'[t] = Idle
  BY DEF BaseInv, TypeInv, DownInv, Recover, NoComp
<1>1. ASSUME NEW m \in Messages, Kept(m)' PROVE m \in Live(log')
  <2>1. fate'[m] = "here"
    BY <1>0, <1>1, IdleView DEF Kept, Reported
  <2>2. m \in Live(log)
    BY <2>1 DEF Recover
  <2>3. log' = Readable(log)
    BY DEF Recover
  <2>4. Live(log) = Live(Readable(log))
    <3>1. /\ Readable(log) \in Seq(Entries) /\ W(Readable(log)) = W(log)
          /\ \A i \in 1..W(log) : Readable(log)[i] = log[i]
      BY <1>0, WholeReadable
    <3> QED BY <1>0, <3>1, LiveSame
  <2> QED BY <2>2, <2>3, <2>4
<1> QED BY <1>0, <1>1 DEF HereInv

(* An append that fails half way, or whose record was flushed. *)
LEMMA HereReturn ==
  ASSUME BaseInv, HereInv, NEW t \in Threads, NEW ok \in BOOLEAN, Return(t, ok), thr[t].m \in Messages,
         fate' = Told(t, ok, fate), exposed' = exposed,
         ok /\ thr[t].op \in Bringing => thr[t].m \in WrittenOf(thr[t])
  PROVE  /\ mem \subseteq mem'
         /\ \A m \in Messages : Kept(m)' => Kept(m)
<1>1. TypeInv /\ fate \in [Messages -> Fates]
  BY DEF BaseInv, TypeInv
<1>2. \A m \in Messages : Reported(m)' => Reported(m) \/ (ok /\ thr[t].op \in Bringing /\ m = thr[t].m)
  BY <1>1, ReportedReturn
<1>3. mem \subseteq mem'
  BY <1>1, ReturnView
<1> QED BY <1>2, <1>3 DEF Kept, Reported

(* Every step keeps what has been reported in the log. *)
LEMMA NextHere ==
  BaseInv /\ ApartInv /\ SeenInv /\ DurInv /\ HereInv /\ [Next]_vars => HereInv'
<1> SUFFICES ASSUME BaseInv, ApartInv, SeenInv, DurInv, HereInv, [Next]_vars PROVE HereInv'
  OBVIOUS
<1>0. /\ TypeInv /\ CompInv /\ WaitInv /\ fate \in [Messages -> Fates] /\ log \in Seq(Entries)
      /\ thr \in [Threads -> ThreadStates] /\ \A t \in Threads : ThreadOK(thr[t])
  BY DEF BaseInv, TypeInv, FlushInv
<1>1. ASSUME NEW t \in Threads, NEW m \in Messages, BeginEnqueue(t, m) \/ Deliver(t, m) \/ Ack(t, m)
      PROVE  HereInv'
  <2>1. Others(t) /\ WrittenOf(thr'[t]) = {}
    BY <1>0, <1>1, BeginView
  <2>2. log' = log /\ comp' = comp /\ exposed' = exposed
    BY <1>1 DEF BeginEnqueue, Deliver, Ack, disk, history
  <2>3. \/ fate' = fate /\ mem' = mem
        \/ m \in mem /\ mem' = mem \ {m} /\ fate' = [fate EXCEPT ![m] = "acked"]
    BY <1>1 DEF BeginEnqueue, Deliver, Ack, memory, history
  <2>4. \A x \in Messages : fate'[x] = "here" => fate[x] = "here" /\ (x \in mem => x \in mem')
    BY <2>3, <1>0
  <2>5. \A x \in Messages, u \in Threads : x \in WrittenOf(thr[u]) => x \notin mem
    BY <1>0, Views DEF ApartInv
  <2>6. \A x \in Messages : Kept(x)' => Kept(x) /\ (x \in mem => x \in mem')
    BY <2>1, <2>2, <2>4, <2>5 DEF Kept, Reported, Others
  <2> QED BY <2>2, <2>6, HereSame
<1>2. ASSUME NEW t \in Threads, NEW ms \in SUBSET Messages, BeginAbsorb(t, ms)
      PROVE  HereInv'
  <2>1. Others(t) /\ WrittenOf(thr'[t]) = {}
    BY <1>0, <1>2, BeginView
  <2>2. log' = log /\ comp' = comp /\ exposed' = exposed /\ fate' = fate /\ mem' = mem
    BY <1>2 DEF BeginAbsorb, disk, history, memory
  <2>3. \A x \in Messages : Kept(x)' => Kept(x)
    BY <2>1, <2>2 DEF Kept, Reported, Others
  <2> QED BY <2>2, <2>3, HereSame
<1>3. ASSUME NEW t \in Threads, Open(t) \/ BeginFlush(t)
      PROVE  HereInv'
  <2>1. Others(t) /\ WrittenOf(thr'[t]) \subseteq WrittenOf(thr[t])
    <3>1. /\ Others(t) /\ Elsewhere(thr[t], thr'[t])
          /\ thr'[t].pc = "write" \/ thr[t].pc = "sync"
      BY <1>0, <1>3, GoView
    <3> QED BY <3>1, ElsewhereView DEF WrittenOf
  <2>2. log' = log /\ comp' = comp /\ exposed' = exposed /\ fate' = fate /\ mem' = mem
    BY <1>3 DEF Open, BeginFlush, disk, history, memory
  <2>3. \A x \in Messages : Kept(x)' => Kept(x)
    BY <2>1, <2>2 DEF Kept, Reported, Others
  <2> QED BY <2>2, <2>3, HereSame
<1>4. ASSUME NEW t \in Threads, EndFlush(t) \/ Wake(t) \/ ReturnDropped(t)
      PROVE  HereInv'
  <2>1. /\ thr[t].m \in Messages /\ log' = log /\ comp' = comp /\ exposed' = exposed
    BY <1>0, <1>4, EndView
  <2>2. PICK ok \in BOOLEAN : /\ Return(t, ok) /\ fate' = Told(t, ok, fate)
                              /\ ok => thr[t].pc \in {"sync", "flush", "cut"}
    BY <1>0, <1>4, EndView
  <2>3. ok /\ thr[t].op \in Bringing => thr[t].m \in WrittenOf(thr[t])
    BY <2>2 DEF WrittenOf
  <2>4. mem \subseteq mem' /\ \A m \in Messages : Kept(m)' => Kept(m)
    BY <2>1, <2>2, <2>3, HereReturn
  <2> QED BY <2>1, <2>4, HereSame
<1>5. ASSUME NEW t \in Threads, WriteShort(t)
      PROVE  HereInv'
  <2>1. thr[t].m \in Messages /\ log' = Append(log, Torn)
    BY <1>0, <1>5, WriteShortLog
  <2>2. Return(t, FALSE) /\ fate' = fate /\ exposed' = exposed /\ comp' = comp
    BY <1>5 DEF WriteShort
  <2>3. fate' = Told(t, FALSE, fate)
    BY <2>2 DEF Told
  <2>4. mem \subseteq mem' /\ \A m \in Messages : Kept(m)' => Kept(m)
    BY <2>1, <2>2, <2>3, HereReturn
  <2>5. Torn \in Entries /\ Torn.kind = "torn"
    BY TornEntry
  <2> QED BY <2>1, <2>2, <2>4, <2>5, HereGrows
<1>6. ASSUME NEW t \in Threads, Publish(t)
      PROVE  HereInv'
  <2>1. Others(t) /\ WrittenOf(thr'[t]) = {} /\ thr[t].got \subseteq WrittenOf(thr[t])
    BY <1>0, <1>6, GoView, IdleView DEF WrittenOf
  <2>2. /\ log' = log /\ comp' = comp /\ exposed' = exposed /\ mem' = mem \cup thr[t].got
        /\ \A x \in Messages : fate'[x] = IF x \in thr[t].got THEN "here" ELSE fate[x]
    BY <1>6 DEF Publish, disk
  <2>3. \A x \in Messages : Kept(x)' => Kept(x)
    BY <2>1, <2>2 DEF Kept, Reported, Others
  <2> QED BY <2>2, <2>3, HereSame
<1>7. CASE SyncAll \/ CompactFails \/ UNCHANGED vars
  <2>1. /\ log' = log
        /\ comp' = comp \/ comp'.pc = "idle"
        /\ exposed' = exposed /\ fate' = fate /\ mem' = mem /\ thr' = thr
    BY <1>7 DEF SyncAll, CompactFails, vars, disk, history, memory, NoComp
  <2>2. \A x \in Messages : Kept(x)' => Kept(x)
    BY <2>1 DEF Kept, Reported
  <2> QED BY <2>1, <2>2, HereSame
<1>8. CASE Rewrite
  <2>1. /\ log' = log /\ exposed' = exposed /\ fate' = fate /\ mem' = mem /\ thr' = thr
        /\ comp.pc = "rewrite" /\ comp' = [comp EXCEPT !.pc = "swap", !.rec = Described(comp.snap)]
        /\ comp \in CompStates
    BY <1>0, <1>8 DEF Rewrite, disk, history, memory, TypeInv
  <2>2. /\ comp'.pc = "swap" /\ comp'.stale = comp.stale /\ comp'.snap = comp.snap
        /\ comp'.missed = comp.missed /\ comp'.mark = comp.mark
    BY <2>1 DEF CompStates
  <2>3. \A m \in Messages : (Kept(m)' <=> Kept(m)) /\ (PastMark(m)' <=> PastMark(m))
    BY <2>1, <2>2 DEF Kept, Reported, PastMark
  <2> QED BY <2>1, <2>2, <2>3 DEF HereInv
<1>9. CASE DropSlot
  <2>1. /\ log' = log /\ comp' = comp /\ exposed' = exposed /\ mem' = {} /\ thr' = thr
        /\ \A x \in Messages : fate'[x] = IF x \in mem THEN "leaving" ELSE fate[x]
    BY <1>9 DEF DropSlot, disk
  <2>2. \A x \in Messages, u \in Threads : x \in WrittenOf(thr[u]) => x \notin mem
    BY <1>0, Views DEF ApartInv
  <2>3. \A x \in Messages : Kept(x)' => Kept(x) /\ x \notin mem
    BY <2>1, <2>2 DEF Kept, Reported
  <2> QED BY <2>1, <2>3, HereSame
<1>10. CASE CloseFile
  <2>1. /\ \A u \in Threads : WrittenOf(thr'[u]) \subseteq WrittenOf(thr[u])
        /\ log' = log /\ comp' = comp /\ exposed' = exposed /\ mem' = mem /\ fate' = fate
    BY <1>0, <1>10, CloseView
  <2>2. \A x \in Messages : Kept(x)' => Kept(x)
    BY <2>1 DEF Kept, Reported
  <2> QED BY <2>1, <2>2, HereSame
<1>11. ASSUME NEW t \in Threads, Write(t) PROVE HereInv'
  BY <1>11, HereWrite
<1> QED BY <1>1, <1>2, <1>3, <1>4, <1>5, <1>6, <1>7, <1>8, <1>9, <1>10, <1>11, HereMarks, HereSnapshot,
           HereSwap, HereRemove, HereCrash, HereRecover DEF Next, Step

(* An empty log has no ends. *)
LEMMA InitSeen == Init => SeenInv
  BY EmptySeq DEF Init, SeenInv, EndsSeen

(* What the run checks as ReportedSurvives: whatever number of goroutines  *)
(* enqueue, absorb and compact, what a caller was told is safe is found by *)
(* a replay of the log, and of any part of it past what is durable. *)
THEOREM ReportedIsKept == Spec => []ReportedSurvives
<1> DEFINE I == BaseInv /\ ApartInv /\ SeenInv /\ DurInv /\ HereInv
<1>1. Init => I
  BY InitBase, InitApart, InitSeen, InitDur, InitHere
<1>2. I /\ [Next]_vars => I'
  <2> SUFFICES ASSUME I, [Next]_vars PROVE I'
    OBVIOUS
  <2>1. BaseInv' /\ FlushInv'
    BY NextBase DEF BaseInv
  <2> QED BY <2>1, NextApart, NextSeen, NextDur, NextHere
<1>3. I => ReportedSurvives
  <2> SUFFICES ASSUME I, NEW m \in Messages, fate[m] = "here", m \notin exposed
               PROVE  /\ m \in Live(log)
                      /\ sync = "always" => \A k \in durable..Len(log) : m \in Live(SubSeq(log, 1, k))
    BY DEF ReportedSurvives
  <2>1. m \in Live(log)
    BY DEF HereInv, Kept, Reported
  <2>2. sync = "always" => Firm(log, m, durable)
    BY DEF DurInv, FirmInv, Promised
  <2> QED BY <2>1, <2>2 DEF Firm
<1> QED BY <1>1, <1>2, <1>3, PTL DEF Spec

-----------------------------------------------------------------------------
(* AttemptsKept.  What the last readable word on the attempts of m says:   *)
(* nothing, or that its attempts begin afresh, or how many there were. *)
Word(s, i, m) == Is(s, i, "attempt", m) \/ Is(s, i, "enqueue", m)
Afresh(s, m) ==
  \A i \in 1..W(s) : Is(s, i, "attempt", m) => \E j \in 1..W(s) : i < j /\ Is(s, j, "enqueue", m)
Counted(s, m, v) ==
  \E i \in 1..W(s) : /\ Is(s, i, "attempt", m) /\ s[i].n = v
                     /\ \A j \in 1..W(s) : Word(s, j, m) => j <= i
Said(s, m, v) == (v = 0 /\ Afresh(s, m)) \/ Counted(s, m, v)

(* The last word and what AttemptsIn returns are the same. *)
LEMMA SaidIff ==
  ASSUME NEW s \in Seq(Entries), NEW m \in Messages
  PROVE  \A v : Said(s, m, v) <=> v = AttemptsIn(s, m)
<1>0. W(s) \in Nat
  BY WholeIff, LenProperties
<1>1. ASSUME NEW v, Said(s, m, v) PROVE v = AttemptsIn(s, m)
  BY <1>1, AttemptsInIs DEF Said, Afresh, Counted, Word
<1>2. \E v : Said(s, m, v)
  <2>1. CASE \A i \in 1..W(s) : ~ Is(s, i, "attempt", m) /\ ~ Is(s, i, "enqueue", m)
    <3>1. Said(s, m, 0)
      BY <2>1 DEF Said, Afresh
    <3> QED BY <3>1
  <2>2. ASSUME NEW i \in 1..W(s), Word(s, i, m),
               \A j \in 1..W(s) : Word(s, j, m) => j <= i
        PROVE  \E v : Said(s, m, v)
    <3>1. CASE Is(s, i, "attempt", m)
      <4>1. Said(s, m, s[i].n)
        BY <2>2, <3>1 DEF Said, Counted
      <4> QED BY <4>1
    <3>2. CASE Is(s, i, "enqueue", m)
      <4>1. \A j \in 1..W(s) : Is(s, j, "attempt", m) => j < i
        <5> SUFFICES ASSUME NEW j \in 1..W(s), Is(s, j, "attempt", m) PROVE j < i
          OBVIOUS
        <5>1. j <= i /\ j # i
          BY <2>2, <3>2 DEF Word, Is
        <5> QED BY <5>1, <1>0
      <4>2. Said(s, m, 0)
        BY <3>2, <4>1 DEF Said, Afresh
      <4> QED BY <4>2
    <3> QED BY <2>2, <3>1, <3>2 DEF Word
  <2> QED BY <2>1, <2>2, LastWord DEF Word
<1> QED BY <1>1, <1>2

(* One more record. *)
LEMMA AttemptsAppend ==
  ASSUME NEW s \in Seq(Entries), NEW r \in Entries, NEW m \in Messages
  PROVE  /\ ~ (r.kind \in {"attempt", "enqueue"} /\ r.id = m)
              => AttemptsIn(Append(s, r), m) = AttemptsIn(s, m)
         /\ W(s) < Len(s) => AttemptsIn(Append(s, r), m) = AttemptsIn(s, m)
         /\ W(s) = Len(s) /\ r.kind = "attempt" /\ r.id = m => AttemptsIn(Append(s, r), m) = r.n
         /\ W(s) = Len(s) /\ r.kind = "enqueue" /\ r.id = m => AttemptsIn(Append(s, r), m) = 0
<1> DEFINE q == Append(s, r)
           v == AttemptsIn(s, m)
<1>1. /\ q \in Seq(Entries) /\ Len(q) = Len(s) + 1
      /\ \A i \in 1..Len(s) : q[i] = s[i]
      /\ q[Len(s) + 1] = r
      /\ W(q) = IF W(s) = Len(s) /\ r.kind # "torn" THEN Len(s) + 1 ELSE W(s)
      /\ Len(s) \in Nat /\ W(s) \in 0..Len(s)
  BY WholeAppend, WholeIff, LenProperties
<1>2. Said(s, m, v)
  BY SaidIff
<1> HIDE DEF q, v
<1>3. \A k : \A i \in 1..W(s) : i \in 1..W(q) /\ (Is(q, i, k, m) <=> Is(s, i, k, m)) /\ q[i] = s[i]
  BY <1>1 DEF Is
<1>4. ASSUME \A i \in 1..W(q) : Word(q, i, m) => i \in 1..W(s)
      PROVE  AttemptsIn(q, m) = v
  <2>1. ASSUME v = 0, Afresh(s, m) PROVE v = 0 /\ Afresh(q, m)
    <3> SUFFICES ASSUME NEW i \in 1..W(q), Is(q, i, "attempt", m)
                 PROVE  \E j \in 1..W(q) : i < j /\ Is(q, j, "enqueue", m)
      BY <2>1 DEF Afresh
    <3>1. i \in 1..W(s) /\ Is(s, i, "attempt", m)
      BY <1>3, <1>4 DEF Word
    <3>2. PICK j \in 1..W(s) : i < j /\ Is(s, j, "enqueue", m)
      BY <2>1, <3>1 DEF Afresh
    <3> QED BY <1>3, <3>2
  <2>2. ASSUME Counted(s, m, v) PROVE Counted(q, m, v)
    <3>1. PICK i \in 1..W(s) : /\ Is(s, i, "attempt", m) /\ s[i].n = v
                               /\ \A j \in 1..W(s) : Word(s, j, m) => j <= i
      BY <2>2 DEF Counted
    <3>2. \A j \in 1..W(q) : Word(q, j, m) => j <= i
      BY <1>3, <1>4, <3>1 DEF Word
    <3> QED BY <1>3, <3>1, <3>2 DEF Counted
  <2>3. Said(q, m, v)
    BY <1>2, <2>1, <2>2 DEF Said
  <2> QED BY <2>3, <1>1, SaidIff
<1>5. ASSUME ~ (r.kind \in {"attempt", "enqueue"} /\ r.id = m) PROVE AttemptsIn(q, m) = v
  <2>1. \A i \in 1..W(q) : i \in 1..W(s) \/ i = Len(s) + 1
    BY <1>1
  <2>2. ~ Word(q, Len(s) + 1, m)
    BY <1>1, <1>5 DEF Word, Is
  <2> QED BY <1>4, <2>1, <2>2
<1>6. ASSUME W(s) < Len(s) PROVE AttemptsIn(q, m) = v
  <2>1. \A i \in 1..W(q) : i \in 1..W(s)
    BY <1>1, <1>6
  <2> QED BY <1>4, <2>1
<1>7. ASSUME W(s) = Len(s), r.kind = "attempt", r.id = m PROVE AttemptsIn(q, m) = r.n
  <2>1. Len(s) + 1 \in 1..W(q) /\ Is(q, Len(s) + 1, "attempt", m) /\ q[Len(s) + 1].n = r.n
        /\ \A j \in 1..W(q) : j <= Len(s) + 1
    BY <1>1, <1>7 DEF Is
  <2>2. Said(q, m, r.n)
    BY <2>1 DEF Said, Counted
  <2> QED BY <2>2, <1>1, SaidIff
<1>8. ASSUME W(s) = Len(s), r.kind = "enqueue", r.id = m PROVE AttemptsIn(q, m) = 0
  <2>1. Len(s) + 1 \in 1..W(q) /\ Is(q, Len(s) + 1, "enqueue", m) /\ ~ Is(q, Len(s) + 1, "attempt", m)
        /\ \A j \in 1..W(q) : j = Len(s) + 1 \/ j < Len(s) + 1
    BY <1>1, <1>8 DEF Is
  <2>2. Said(q, m, 0)
    BY <2>1 DEF Said, Afresh
  <2> QED BY <2>2, <1>1, SaidIff
<1> QED BY <1>5, <1>6, <1>7, <1>8 DEF q, v

(* A log without attempts of m. *)
NoTry(s, m) == \A i \in 1..Len(s) : ~ Is(s, i, "attempt", m)

(* A log without attempts says there were none. *)
LEMMA NoTryNone ==
  ASSUME NEW s \in Seq(Entries), NEW m \in Messages, NoTry(s, m)
  PROVE  AttemptsIn(s, m) = 0
<1>1. W(s) \in 0..Len(s) /\ Len(s) \in Nat
  BY WholeIff, LenProperties
<1>2. Said(s, m, 0)
  BY <1>1 DEF Said, Afresh, NoTry
<1> QED BY <1>2, SaidIff

(* What a reader does not see makes no difference. *)
LEMMA AttemptsReadable ==
  ASSUME NEW s \in Seq(Entries), NEW m \in Messages
  PROVE  AttemptsIn(Readable(s), m) = AttemptsIn(s, m)
<1> DEFINE q == Readable(s)
           v == AttemptsIn(s, m)
<1>1. q \in Seq(Entries) /\ W(q) = W(s) /\ \A i \in 1..W(s) : q[i] = s[i]
  BY WholeReadable
<1>2. Said(s, m, v)
  BY SaidIff
<1> HIDE DEF q, v
<1>3. Said(q, m, v)
  BY <1>1, <1>2 DEF Said, Afresh, Counted, Word, Is
<1> QED BY <1>1, <1>3, SaidIff DEF q, v

-----------------------------------------------------------------------------
(* What a reader finds in a compacted log: the snapshot, or what was past  *)
(* the cut. *)
Placed(q, r, s, a) ==
  \A p \in 1..W(q) : \/ p \in 1..Len(r)
                     \/ \E l \in (a + 1)..Len(s) : /\ p = Len(r) + (l - a) /\ q[p] = s[l]
                                                   /\ a <= W(s) => l \in (a + 1)..W(s)

(* The records of a compacted log, from both sides. *)
LEMMA SplicePlaces ==
  ASSUME NEW s \in Seq(Entries), NEW r \in Seq(Entries), NEW a \in 0..Len(s), NEW q,
         SplicedAt(q, r, s, a)
  PROVE  /\ q \in Seq(Entries) /\ W(q) \in Nat /\ Len(r) \in Nat /\ W(s) \in 0..Len(s) /\ Len(s) \in Nat
         /\ Len(r) <= W(q)
         /\ \A p \in 1..Len(r) : p \in 1..W(q) /\ q[p] = r[p]
         /\ \A l \in (a + 1)..W(s) : Len(r) + (l - a) \in 1..W(q) /\ q[Len(r) + (l - a)] = s[l]
         /\ Placed(q, r, s, a)
<1> DEFINE n == Len(r)
<1>1. /\ Len(s) \in Nat /\ W(s) \in 0..Len(s) /\ n \in Nat /\ q \in Seq(Entries) /\ a \in Nat
      /\ W(q) \in 0..Len(q) /\ Len(q) \in Nat
  BY WholeIff, LenProperties DEF SplicedAt
<1>2. /\ Len(q) = n + (Len(s) - a)
      /\ \A i \in 1..n : q[i] = r[i]
      /\ \A i \in (a + 1)..Len(s) : q[n + (i - a)] = s[i]
      /\ \A i \in (a + 1)..W(s) : n + (i - a) \in 1..W(q)
      /\ n <= W(q)
      /\ a <= W(s) => W(q) = n + (W(s) - a)
  BY DEF SplicedAt
<1> HIDE DEF n
<1>3. \A p \in 1..n : p \in 1..W(q) /\ q[p] = r[p]
  BY <1>1, <1>2
<1>4. \A l \in (a + 1)..W(s) : n + (l - a) \in 1..W(q) /\ q[n + (l - a)] = s[l]
  <2> SUFFICES ASSUME NEW l \in (a + 1)..W(s) PROVE n + (l - a) \in 1..W(q) /\ q[n + (l - a)] = s[l]
    OBVIOUS
  <2>1. l \in (a + 1)..Len(s)
    BY <1>1
  <2> QED BY <2>1, <1>2
<1>5. ASSUME NEW p \in 1..W(q), p \notin 1..n
      PROVE  \E l \in (a + 1)..Len(s) : p = n + (l - a) /\ q[p] = s[l] /\ (a <= W(s) => l \in (a + 1)..W(s))
  <2> DEFINE l == (p - n) + a
  <2>1. l \in (a + 1)..Len(s) /\ p = n + (l - a)
    BY <1>1, <1>2, <1>5
  <2>2. a <= W(s) => l \in (a + 1)..W(s)
    BY <1>1, <1>2, <1>5
  <2> HIDE DEF l
  <2> QED BY <2>1, <2>2, <1>2
<1> QED BY <1>1, <1>2, <1>3, <1>4, <1>5 DEF n, Placed

(* The last word on m stays the last if it is behind the cut. *)
LEMMA CountedBehind ==
  ASSUME NEW s \in Seq(Entries), NEW r \in Seq(Entries), NEW a \in 0..Len(s), NEW q,
         SplicedAt(q, r, s, a), NEW m, NEW i \in 1..W(s), i > a, Is(s, i, "attempt", m),
         \A j \in 1..W(s) : Word(s, j, m) => j <= i
  PROVE  Counted(q, m, s[i].n)
<1> DEFINE n == Len(r)
<1>1. /\ W(q) \in Nat /\ n \in Nat /\ W(s) \in 0..Len(s) /\ Len(s) \in Nat /\ a \in Nat
  BY SplicePlaces
<1>2. \A p \in 1..W(q) : \/ p \in 1..n
                         \/ \E l \in (a + 1)..Len(s) : /\ p = n + (l - a) /\ q[p] = s[l]
                                                       /\ a <= W(s) => l \in (a + 1)..W(s)
  BY SplicePlaces DEF Placed
<1>3. i \in (a + 1)..W(s) /\ a <= W(s)
  BY <1>1
<1>4. n + (i - a) \in 1..W(q) /\ q[n + (i - a)] = s[i]
  BY <1>3, SplicePlaces
<1> HIDE DEF n
<1>5. ASSUME NEW p \in 1..W(q), Word(q, p, m) PROVE p <= n + (i - a)
  <2>1. CASE p \in 1..n
    BY <2>1, <1>1, <1>3
  <2>2. CASE p \notin 1..n
    <3>1. PICK l \in (a + 1)..W(s) : p = n + (l - a) /\ q[p] = s[l]
      BY <2>2, <1>2, <1>3
    <3>2. Word(s, l, m) /\ l \in 1..W(s)
      BY <3>1, <1>1, <1>5 DEF Word, Is
    <3> QED BY <3>1, <3>2, <1>1
  <2> QED BY <2>1, <2>2
<1> QED BY <1>4, <1>5 DEF Counted, Is

(* What begins afresh does so behind a snapshot that says nothing else. *)
LEMMA AfreshBehind ==
  ASSUME NEW s \in Seq(Entries), NEW r \in Seq(Entries), NEW a \in 0..Len(s), NEW q,
         SplicedAt(q, r, s, a), NEW m \in Messages,
         AttemptsIn(s, m) = 0,
         \A i \in 1..Len(s) : s[i].kind = "attempt" => s[i].n > 0,
         \A i \in 1..Len(r) : ~ Is(r, i, "attempt", m),
         W(s) < a => \A i \in (a + 1)..Len(s) : ~ Is(s, i, "attempt", m)
  PROVE  Afresh(q, m)
<1> DEFINE n == Len(r)
<1>1. /\ W(q) \in Nat /\ n \in Nat /\ W(s) \in 0..Len(s) /\ Len(s) \in Nat /\ a \in Nat
      /\ \A p \in 1..n : p \in 1..W(q) /\ q[p] = r[p]
      /\ \A l \in (a + 1)..W(s) : n + (l - a) \in 1..W(q) /\ q[n + (l - a)] = s[l]
  BY SplicePlaces
<1>2. \A p \in 1..W(q) : \/ p \in 1..n
                         \/ \E l \in (a + 1)..Len(s) : /\ p = n + (l - a) /\ q[p] = s[l]
                                                       /\ a <= W(s) => l \in (a + 1)..W(s)
  BY SplicePlaces DEF Placed
<1>3. Afresh(s, m)
  <2>1. Said(s, m, 0)
    BY SaidIff
  <2>2. ~ Counted(s, m, 0)
    BY <1>1 DEF Counted, Is
  <2> QED BY <2>1, <2>2 DEF Said
<1>4. \A p \in 1..n : ~ Is(q, p, "attempt", m)
  BY <1>1 DEF Is
<1> HIDE DEF n
<1> SUFFICES ASSUME NEW p \in 1..W(q), Is(q, p, "attempt", m)
             PROVE  \E k \in 1..W(q) : p < k /\ Is(q, k, "enqueue", m)
  BY DEF Afresh
<1>5. PICK l \in (a + 1)..Len(s) : /\ p = n + (l - a) /\ q[p] = s[l]
                                   /\ a <= W(s) => l \in (a + 1)..W(s)
  BY <1>2, <1>4
<1>6. Is(s, l, "attempt", m)
  BY <1>5 DEF Is
<1>7. l \in 1..W(s)
  BY <1>1, <1>5, <1>6
<1>8. PICK j \in 1..W(s) : l < j /\ Is(s, j, "enqueue", m)
  BY <1>3, <1>6, <1>7 DEF Afresh
<1>9. j \in (a + 1)..W(s)
  BY <1>1, <1>5, <1>8
<1>10. n + (j - a) \in 1..W(q) /\ Is(q, n + (j - a), "enqueue", m)
  BY <1>1, <1>8, <1>9 DEF Is
<1>11. p < n + (j - a)
  BY <1>1, <1>5, <1>8
<1> QED BY <1>10, <1>11

(* A message that is not in the snapshot, and whose attempts are all behind *)
(* the cut. *)
LEMMA AttemptsOutside ==
  ASSUME NEW s \in Seq(Entries), NEW r \in Seq(Entries), NEW a \in 0..Len(s), NEW q,
         SplicedAt(q, r, s, a), NEW m \in Messages,
         \A i \in 1..Len(s) : s[i].kind = "attempt" => s[i].n > 0,
         \A i \in 1..Len(r) : r[i].id # m,
         W(s) < a => \A i \in (a + 1)..Len(s) : ~ Is(s, i, "attempt", m),
         \A i \in 1..a : ~ Is(s, i, "attempt", m)
  PROVE  AttemptsIn(q, m) = AttemptsIn(s, m)
<1>1. q \in Seq(Entries) /\ W(s) \in 0..Len(s) /\ Len(s) \in Nat /\ a \in Nat
  BY SplicePlaces
<1>2. CASE AttemptsIn(s, m) = 0
  <2>1. \A i \in 1..Len(r) : ~ Is(r, i, "attempt", m)
    BY DEF Is
  <2>2. Said(q, m, 0)
    BY <1>2, <2>1, AfreshBehind DEF Said
  <2> QED BY <1>1, <1>2, <2>2, SaidIff
<1>3. CASE AttemptsIn(s, m) # 0
  <2>1. Counted(s, m, AttemptsIn(s, m))
    BY <1>3, SaidIff DEF Said
  <2>2. PICK i \in 1..W(s) : /\ Is(s, i, "attempt", m) /\ s[i].n = AttemptsIn(s, m)
                             /\ \A j \in 1..W(s) : Word(s, j, m) => j <= i
    BY <2>1 DEF Counted
  <2>3. i > a
    BY <1>1, <2>2
  <2>4. Said(q, m, AttemptsIn(s, m))
    BY <2>2, <2>3, CountedBehind DEF Said
  <2> QED BY <1>1, <2>4, SaidIff
<1> QED BY <1>2, <1>3

(* A message the snapshot knows as well as the log does. *)
LEMMA AttemptsInside ==
  ASSUME NEW s \in Seq(Entries), NEW r \in Seq(Entries), NEW a \in 0..Len(s), NEW q,
         SplicedAt(q, r, s, a), NEW m \in Messages,
         \A i \in 1..Len(s) : s[i].kind = "attempt" => s[i].n > 0,
         NEW S, NEW b, Tells(r, S, b), m \in S, b[m] = AttemptsIn(s, m),
         W(s) < a => \A i \in (a + 1)..Len(s) : ~ Is(s, i, "attempt", m),
         (\E i \in (a + 1)..Len(s) : Is(s, i, "enqueue", m)) => \A i \in 1..a : ~ Is(s, i, "attempt", m)
  PROVE  AttemptsIn(q, m) = AttemptsIn(s, m)
<1> DEFINE n == Len(r)
<1>1. /\ q \in Seq(Entries) /\ W(q) \in Nat /\ n \in Nat /\ W(s) \in 0..Len(s) /\ Len(s) \in Nat /\ a \in Nat
      /\ \A p \in 1..n : p \in 1..W(q) /\ q[p] = r[p]
  BY SplicePlaces
<1>10. AttemptsIn(s, m) \in Nat
  <2>1. AttemptsIn(s, m) \in 0..MaxAttempts
    BY AttemptsInIs
  <2> QED BY <2>1, WalAssumption
<1>2. \A p \in 1..W(q) : \/ p \in 1..n
                         \/ \E l \in (a + 1)..Len(s) : /\ p = n + (l - a) /\ q[p] = s[l]
                                                       /\ a <= W(s) => l \in (a + 1)..W(s)
  BY SplicePlaces DEF Placed
<1>3. CASE AttemptsIn(s, m) = 0
  <2>1. \A i \in 1..Len(r) : ~ Is(r, i, "attempt", m)
    BY <1>3 DEF Is, Tells
  <2>2. Said(q, m, 0)
    BY <1>3, <2>1, AfreshBehind DEF Said
  <2> QED BY <1>1, <1>3, <2>2, SaidIff
<1>4. CASE AttemptsIn(s, m) # 0
  <2>1. Counted(s, m, AttemptsIn(s, m))
    BY <1>4, SaidIff DEF Said
  <2>2. PICK i \in 1..W(s) : /\ Is(s, i, "attempt", m) /\ s[i].n = AttemptsIn(s, m)
                             /\ \A j \in 1..W(s) : Word(s, j, m) => j <= i
    BY <2>1 DEF Counted
  <2>3. CASE i > a
    <3>1. Said(q, m, AttemptsIn(s, m))
      BY <2>2, <2>3, CountedBehind DEF Said
    <3> QED BY <1>1, <3>1, SaidIff
  <2>4. CASE ~ (i > a)
    <3>1. i \in 1..a
      BY <2>4, <1>1
    <3>2. \A l \in (a + 1)..Len(s) : ~ Is(s, l, "enqueue", m)
      BY <2>2, <3>1
    <3>3. PICK k \in 1..Len(r) : Is(r, k, "attempt", m)
      BY <1>10, <1>4 DEF Tells
    <3>4. /\ r[k].n = AttemptsIn(s, m)
          /\ \A j \in 1..Len(r) : Is(r, j, "enqueue", m) => j < k
          /\ \A j \in 1..Len(r) : Is(r, j, "attempt", m) => j = k
      BY <3>3 DEF Tells, Is
    <3> HIDE DEF n
    <3>5. k \in 1..n /\ n = Len(r)
      BY DEF n
    <3>6. ASSUME NEW p \in 1..W(q), Word(q, p, m) PROVE p <= k
      <4>1. CASE p \in 1..n
        <5>1. Word(r, p, m) /\ p \in 1..Len(r)
          BY <4>1, <3>6, <1>1, <3>5 DEF Word, Is
        <5> QED BY <5>1, <3>4, <3>5, <1>1 DEF Word
      <4>2. CASE p \notin 1..n
        <5>1. PICK l \in (a + 1)..Len(s) : /\ p = n + (l - a) /\ q[p] = s[l]
                                           /\ a <= W(s) => l \in (a + 1)..W(s)
          BY <4>2, <1>2
        <5>2. Is(s, l, "attempt", m)
          BY <5>1, <3>2, <3>6 DEF Word, Is
        <5>3. l \in 1..W(s)
          BY <5>1, <5>2, <1>1
        <5>4. l <= i
          BY <5>2, <5>3, <2>2 DEF Word
        <5> QED BY <5>1, <5>4, <3>1, <1>1
      <4> QED BY <4>1, <4>2
    <3>7. k \in 1..W(q) /\ Is(q, k, "attempt", m) /\ q[k].n = AttemptsIn(s, m)
      BY <1>1, <3>3, <3>4, <3>5 DEF Is
    <3>8. Said(q, m, AttemptsIn(s, m))
      BY <3>6, <3>7 DEF Said, Counted
    <3> QED BY <1>1, <3>8, SaidIff
  <2> QED BY <2>3, <2>4
<1> QED BY <1>3, <1>4

(* The compacted log grows with the old one. *)
LEMMA SplicedAppend ==
  ASSUME NEW s \in Seq(Entries), NEW r \in Seq(Entries), NEW a \in 0..Len(s), NEW e \in Entries,
         W(r) = Len(r)
  PROVE  /\ Spliced(r, Append(s, e), a) = Append(Spliced(r, s, a), e)
         /\ Spliced(r, s, a) \in Seq(Entries)
         /\ W(s) = Len(s) => W(Spliced(r, s, a)) = Len(Spliced(r, s, a))
<1> DEFINE p == Spliced(r, Append(s, e), a)
           q == Spliced(r, s, a)
           z == Append(q, e)
<1>1. Append(s, e) \in Seq(Entries) /\ Len(Append(s, e)) = Len(s) + 1
      /\ (\A i \in 1..Len(s) : Append(s, e)[i] = s[i]) /\ Append(s, e)[Len(s) + 1] = e
      /\ Len(s) \in Nat /\ Len(r) \in Nat /\ a \in Nat /\ W(s) \in 0..Len(s)
  BY WholeAppend, LenProperties, WholeIff
<1>2. SplicedAt(q, r, s, a)
  BY NewLogAt
<1>3. SplicedAt(p, r, Append(s, e), a)
  <2>1. a \in 0..Len(Append(s, e))
    BY <1>1
  <2> QED BY <1>1, <2>1, NewLogAt
<1>4. q \in Seq(Entries) /\ Len(q) = Len(r) + (Len(s) - a)
      /\ (\A i \in 1..Len(r) : q[i] = r[i])
      /\ (\A i \in (a + 1)..Len(s) : q[Len(r) + (i - a)] = s[i])
      /\ (a <= W(s) => W(q) = Len(r) + (W(s) - a))
  BY <1>2 DEF SplicedAt
<1>5. p \in Seq(Entries) /\ Len(p) = Len(r) + ((Len(s) + 1) - a)
      /\ (\A i \in 1..Len(r) : p[i] = r[i])
      /\ (\A i \in (a + 1)..(Len(s) + 1) : p[Len(r) + (i - a)] = Append(s, e)[i])
  BY <1>1, <1>3 DEF SplicedAt
<1>6. z \in Seq(Entries) /\ Len(z) = Len(q) + 1 /\ (\A i \in 1..Len(q) : z[i] = q[i]) /\ z[Len(q) + 1] = e
  BY <1>4, WholeAppend
<1> HIDE DEF p, q, z
<1>7. Len(p) = Len(z)
  BY <1>1, <1>4, <1>5, <1>6
<1>8. ASSUME NEW i \in 1..Len(p) PROVE p[i] = z[i]
  <2>1. CASE i \in 1..Len(r)
    <3>1. i \in 1..Len(q)
      BY <2>1, <1>1, <1>4
    <3> QED BY <2>1, <3>1, <1>4, <1>5, <1>6
  <2>2. CASE i \notin 1..Len(r)
    <3> DEFINE l == (i - Len(r)) + a
    <3>1. l \in (a + 1)..(Len(s) + 1) /\ i = Len(r) + (l - a)
      BY <2>2, <1>1, <1>5
    <3> HIDE DEF l
    <3>2. p[i] = Append(s, e)[l]
      BY <3>1, <1>5
    <3>3. CASE l = Len(s) + 1
      <4>1. i = Len(q) + 1
        BY <3>1, <3>3, <1>1, <1>4
      <4> QED BY <4>1, <3>2, <3>3, <1>1, <1>6
    <3>4. CASE l # Len(s) + 1
      <4>0. l \in (a + 1)..Len(s)
        BY <3>1, <3>4, <1>1
      <4>1. l \in (a + 1)..Len(s) /\ l \in 1..Len(s) /\ i \in 1..Len(q)
        BY <4>0, <3>1, <1>1, <1>4
      <4>2. z[i] = q[i] /\ q[i] = s[l]
        BY <4>1, <3>1, <1>4, <1>6
      <4> QED BY <4>1, <4>2, <3>2, <1>1
    <3> QED BY <3>3, <3>4
  <2> QED BY <2>1, <2>2
<1>9. p = z
  BY <1>5, <1>6, <1>7, <1>8, SeqEqual
<1>10. W(s) = Len(s) => W(q) = Len(q)
  BY <1>1, <1>4
<1> QED BY <1>4, <1>9, <1>10 DEF p, q, z

-----------------------------------------------------------------------------
(* The numbers: a delivery under way is one of those counted, who enqueues *)
(* brings something new, and who acknowledges was delivered to. *)
Counts(th) ==
  /\ th.op = "attempt" => th.n \in 1..att[th.m]
  /\ th.op = "enqueue" => att[th.m] = 0
  /\ th.op = "terminal" => att[th.m] > 0
CountInv ==
  /\ \A t \in Threads : Counts(thr[t])
  /\ \A m \in Messages : /\ fate[m] = "new" => att[m] = 0
                         /\ fate[m] = "done" => att[m] > 0
  /\ \A i \in 1..Len(comp.rec) : comp.rec[i].kind = "attempt" => comp.rec[i].n \in 1..att[comp.rec[i].id]

(* Nothing has been delivered at the start. *)
LEMMA InitCount == Init => CountInv
<1> SUFFICES ASSUME Init PROVE CountInv
  OBVIOUS
<1>1. \A t \in Threads : thr[t].op = "none"
  BY IdleFields DEF Init
<1>2. \A m \in Messages : fate[m] = "new" /\ att[m] = 0
  BY DEF Init
<1>3. Len(comp.rec) = 0
  BY EmptySeq DEF Init, NoComp
<1> QED BY <1>1, <1>2, <1>3 DEF CountInv, Counts

(* A goroutine that goes elsewhere keeps its count. *)
LEMMA CountsElsewhere ==
  ASSUME NEW th, NEW x, Elsewhere(th, x), Counts(th)
  PROVE  Counts(x)
BY DEF Elsewhere, Counts

(* A step that delivers nothing keeps the counts. *)
LEMMA CountSame ==
  ASSUME CountInv, att' = att, \A t \in Threads : Counts(thr'[t]),
         \A m \in Messages : fate'[m] = "new" => fate[m] = "new",
         \A m \in Messages : fate'[m] = "done" => fate[m] = "done" \/ att[m] > 0,
         comp'.rec = comp.rec \/ comp'.rec = <<>>
  PROVE  CountInv'
<1>1. \A t \in Threads : Counts(thr[t])'
  BY DEF Counts
<1>2. \A i \in 1..Len(comp'.rec) :
         comp'.rec[i].kind = "attempt" => comp'.rec[i].n \in 1..att'[comp'.rec[i].id]
  <2>1. CASE comp'.rec = comp.rec
    BY <2>1 DEF CountInv
  <2>2. CASE comp'.rec = <<>>
    <3>1. Len(comp'.rec) = 0
      BY <2>2, EmptySeq
    <3> QED BY <3>1
  <2> QED BY <2>1, <2>2
<1>3. \A m \in Messages : (fate'[m] = "new" => att'[m] = 0) /\ (fate'[m] = "done" => att'[m] > 0)
  BY DEF CountInv
<1> QED BY <1>1, <1>2, <1>3 DEF CountInv

(* So does an append that is over. *)
LEMMA CountReturn ==
  ASSUME BaseInv, CountInv, NEW t \in Threads, NEW ok \in BOOLEAN, Return(t, ok), thr[t].m \in Messages
  PROVE  \A u \in Threads : Counts(thr'[u])
<1>1. TypeInv
  BY DEF BaseInv
<1>2. Others(t) /\ (thr'[t].op = "absorb" \/ thr'[t] = Idle)
  BY <1>1, ReturnView
<1> QED BY <1>2, IdleFields DEF Others, CountInv, Counts

(* So does a write. *)
LEMMA CountWrite ==
  ASSUME BaseInv, CountInv, NEW t \in Threads, Write(t)
  PROVE  CountInv'
<1>0. TypeInv /\ fate \in [Messages -> Fates]
  BY DEF BaseInv, TypeInv
<1>1. /\ thr[t].m \in Messages /\ comp' = comp /\ att' = att
      /\ thr[t].op \in {"enqueue", "absorb", "attempt", "terminal"}
  BY <1>0, WriteView
<1>2. WriteFate(t) \in [Messages -> Fates]
  BY <1>0, <1>1, WriteView DEF Bringing, Fates
<1>3. \A m \in Messages : /\ WriteFate(t)[m] = "new" => fate[m] = "new"
                          /\ WriteFate(t)[m] = "done" => fate[m] = "done" \/ (m = thr[t].m /\ thr[t].op = "terminal")
  BY <1>0, <1>1, WriteView DEF Bringing, Fates
<1>4. (\A u \in Threads : Counts(thr'[u])) /\ (\A m \in Messages : fate'[m] = WriteFate(t)[m] \/ fate'[m] = "here")
  <2> HIDE DEF WriteFate
  <2>1. CASE NeedsFlush(t)
    <3>1. Others(t) /\ Elsewhere(thr[t], thr'[t]) /\ fate' = WriteFate(t)
      BY <1>0, <2>1, GoView, WriteView
    <3> QED BY <3>1, CountsElsewhere DEF Others, CountInv
  <2>2. CASE ~ NeedsFlush(t)
    <3>1. Return(t, TRUE) /\ fate' = Told(t, TRUE, WriteFate(t))
      BY <1>0, <2>2, WriteView
    <3>2. \A m \in Messages : fate'[m] = WriteFate(t)[m] \/ fate'[m] = "here"
      BY <1>2, <3>1, ToldIs
    <3>3. \A u \in Threads : Counts(thr'[u])
      BY <1>1, <3>1, CountReturn
    <3> QED BY <3>2, <3>3
  <2> QED BY <2>1, <2>2
<1>5. thr[t].op = "terminal" => att[thr[t].m] > 0
  BY DEF CountInv, Counts
<1>6. \A m \in Messages : fate'[m] = "new" => fate[m] = "new"
  BY <1>3, <1>4
<1>7. \A m \in Messages : fate'[m] = "done" => fate[m] = "done" \/ att[m] > 0
  BY <1>3, <1>4, <1>5
<1> QED BY <1>1, <1>4, <1>6, <1>7, CountSame

(* A delivery counts one more. *)
LEMMA CountDeliver ==
  ASSUME BaseInv, ApartInv, CountInv, NEW t \in Threads, NEW m \in Messages, Deliver(t, m)
  PROVE  CountInv'
<1>0. TypeInv /\ att \in [Messages -> 0..MaxAttempts] /\ MaxAttempts \in Nat
  BY WalAssumption DEF BaseInv, TypeInv
<1>1. /\ m \in mem /\ att' = [att EXCEPT ![m] = att[m] + 1] /\ fate' = fate /\ comp' = comp
  BY DEF Deliver, history
<1>2. /\ Others(t) /\ thr'[t].op = "attempt" /\ thr'[t].m = m /\ thr'[t].n = att[m] + 1
  BY <1>0, BeginView
<1>3. \A x \in Messages : att[x] \in Nat /\ att'[x] \in Nat /\ att[x] <= att'[x] /\ (x # m => att'[x] = att[x])
  BY <1>0, <1>1
<1>30. att'[m] = att[m] + 1 /\ att[m] \in Nat
  BY <1>0, <1>1
<1>4. fate[m] \in {"here", "back"} /\ \A u \in Threads : m \notin ComingOf(thr[u])
  BY <1>1 DEF ApartInv
<1>5. ASSUME NEW u \in Threads PROVE Counts(thr[u])'
  <2>1. CASE u = t
    BY <2>1, <1>2, <1>30 DEF Counts
  <2>2. CASE u # t
    <3>1. thr'[u] = thr[u] /\ Counts(thr[u]) /\ thr[u] \in ThreadStates /\ ThreadOK(thr[u])
      BY <2>2, <1>0, <1>2 DEF Others, CountInv, TypeInv
    <3>2. thr[u].op \in {"attempt", "enqueue", "terminal"} => thr[u].m \in Messages
      BY <3>1 DEF ThreadOK, Idle
    <3>3. thr[u].op = "enqueue" => thr[u].m # m
      BY <3>1, <1>4, Views DEF ThreadOK, Bringing
    <3> QED BY <3>1, <3>2, <3>3, <1>3 DEF Counts
  <2> QED BY <2>1, <2>2
<1>6. \A x \in Messages : (fate'[x] = "new" => att'[x] = 0) /\ (fate'[x] = "done" => att'[x] > 0)
  BY <1>1, <1>3, <1>4 DEF CountInv
<1>7. ASSUME NEW i \in 1..Len(comp'.rec), comp'.rec[i].kind = "attempt"
      PROVE  comp'.rec[i].n \in 1..att'[comp'.rec[i].id]
  <2>1. comp.rec \in Seq(Entries)
    BY <1>0 DEF TypeInv, CompStates
  <2>2. comp.rec[i] \in Entries /\ comp.rec[i].id \in Messages
    BY <2>1, <1>1, <1>7, ElementOfSeq, EntryFields
  <2> QED BY <2>2, <1>1, <1>3, <1>7 DEF CountInv
<1> QED BY <1>5, <1>6, <1>7 DEF CountInv

(* A recovery takes the counts of the log, and nobody is under way. *)
LEMMA CountRecover ==
  ASSUME BaseInv, CountInv, Recover
  PROVE  CountInv'
<1>1. /\ \A t \in Threads : thr'[t].op = "none"
      /\ comp'.rec = <<>>
  BY IdleFields DEF Recover, BaseInv, DownInv, NoComp
<1>2. Len(comp'.rec) = 0
  BY <1>1, EmptySeq
<1>3. \A m \in Messages : /\ m \notin mem' => att'[m] = att[m]
                          /\ fate'[m] \in {"new", "done"} => fate'[m] = fate[m] /\ m \notin mem'
  BY DEF Recover
<1>4. \A m \in Messages : (fate'[m] = "new" => att'[m] = 0) /\ (fate'[m] = "done" => att'[m] > 0)
  BY <1>3 DEF CountInv
<1> QED BY <1>1, <1>2, <1>4 DEF CountInv, Counts

(* The new file has the counts of now. *)
LEMMA CountRewrite ==
  ASSUME BaseInv, CountInv, Rewrite
  PROVE  CountInv'
<1>1. /\ comp'.rec = Described(comp.snap) /\ att' = att /\ thr' = thr /\ fate' = fate
      /\ att \in [Messages -> 0..MaxAttempts] /\ comp.snap \in SUBSET Messages /\ IsFiniteSet(comp.snap)
      /\ MaxAttempts \in Nat
  BY WalAssumption DEF BaseInv, TypeInv, Rewrite, CompStates, memory, history
<1>2. Tells(Described(comp.snap), comp.snap, att)
  BY <1>1, DescribedTells
<1>3. ASSUME NEW i \in 1..Len(comp'.rec), comp'.rec[i].kind = "attempt"
      PROVE  comp'.rec[i].n \in 1..att'[comp'.rec[i].id]
  <2>1. comp'.rec[i].id \in Messages /\ comp'.rec[i].n = att[comp'.rec[i].id] /\ att[comp'.rec[i].id] > 0
    BY <1>1, <1>2, <1>3 DEF Tells
  <2>2. att[comp'.rec[i].id] \in Nat
    BY <1>1, <2>1
  <2> QED BY <1>1, <2>1, <2>2
<1> QED BY <1>1, <1>3 DEF CountInv, Counts

(* Every step keeps the counts. *)
LEMMA NextCount == BaseInv /\ ApartInv /\ CountInv /\ [Next]_vars => CountInv'
<1> SUFFICES ASSUME BaseInv, ApartInv, CountInv, [Next]_vars PROVE CountInv'
  OBVIOUS
<1>0. /\ TypeInv /\ WaitInv /\ fate \in [Messages -> Fates]
      /\ thr \in [Threads -> ThreadStates] /\ \A t \in Threads : ThreadOK(thr[t])
  BY DEF BaseInv, TypeInv, FlushInv
<1>00. \A t \in Threads : Counts(thr[t])
  BY DEF CountInv
<1>1. ASSUME NEW t \in Threads, NEW m \in Messages, BeginEnqueue(t, m) \/ Ack(t, m)
      PROVE  CountInv'
  <2>1. /\ Others(t)
        /\ \/ thr'[t].op = "enqueue" /\ thr'[t].m = m /\ fate[m] = "new"
           \/ thr'[t].op = "terminal" /\ thr'[t].m = m /\ att[m] > 0
    BY <1>0, <1>1, BeginView DEF BeginEnqueue, Ack
  <2>2. comp' = comp /\ att' = att /\ (fate' = fate \/ fate' = [fate EXCEPT ![m] = "acked"])
    BY <1>1 DEF BeginEnqueue, Ack, history
  <2>3. \A u \in Threads : Counts(thr'[u])
    BY <1>00, <2>1 DEF Others, CountInv, Counts
  <2>4. \A x \in Messages : fate'[x] = fate[x] \/ fate'[x] = "acked"
    BY <1>0, <2>2
  <2> QED BY <2>2, <2>3, <2>4, CountSame
<1>2. ASSUME NEW t \in Threads, NEW ms \in SUBSET Messages, BeginAbsorb(t, ms)
      PROVE  CountInv'
  <2>1. Others(t) /\ thr'[t].op = "absorb"
    BY <1>0, <1>2, BeginView
  <2>2. comp' = comp /\ att' = att /\ fate' = fate
    BY <1>2 DEF BeginAbsorb, history, memory
  <2>3. \A u \in Threads : Counts(thr'[u])
    BY <1>00, <2>1 DEF Others, Counts
  <2> QED BY <2>2, <2>3, CountSame
<1>3. ASSUME NEW t \in Threads, Open(t) \/ BeginFlush(t)
      PROVE  CountInv'
  <2>1. Others(t) /\ Elsewhere(thr[t], thr'[t])
    BY <1>0, <1>3, GoView
  <2>2. comp' = comp /\ att' = att /\ fate' = fate
    BY <1>3 DEF Open, BeginFlush, history, memory
  <2>3. \A u \in Threads : Counts(thr'[u])
    BY <1>00, <2>1, CountsElsewhere DEF Others
  <2> QED BY <2>2, <2>3, CountSame
<1>4. ASSUME NEW t \in Threads, EndFlush(t) \/ Wake(t) \/ ReturnDropped(t)
      PROVE  CountInv'
  <2>1. thr[t].m \in Messages /\ comp' = comp /\ att' = att
    BY <1>0, <1>4, EndView
  <2>2. PICK ok \in BOOLEAN : Return(t, ok) /\ fate' = Told(t, ok, fate)
    BY <1>0, <1>4, EndView
  <2>3. \A u \in Threads : Counts(thr'[u])
    BY <2>1, <2>2, CountReturn
  <2>4. \A x \in Messages : fate'[x] = fate[x] \/ fate'[x] = "here"
    BY <1>0, <2>2, ToldIs
  <2> QED BY <2>1, <2>3, <2>4, CountSame
<1>5. ASSUME NEW t \in Threads, WriteShort(t)
      PROVE  CountInv'
  <2>1. thr[t].m \in Messages
    BY <1>0, <1>5, WriteShortLog
  <2>2. Return(t, FALSE) /\ fate' = fate /\ comp' = comp /\ att' = att
    BY <1>5 DEF WriteShort
  <2>3. \A u \in Threads : Counts(thr'[u])
    BY <2>1, <2>2, CountReturn
  <2> QED BY <2>2, <2>3, CountSame
<1>6. ASSUME NEW t \in Threads, Publish(t)
      PROVE  CountInv'
  <2>1. Others(t) /\ thr'[t] = Idle
    BY <1>0, <1>6, GoView
  <2>2. /\ comp' = comp /\ att' = att
        /\ \A x \in Messages : fate'[x] = fate[x] \/ fate'[x] = "here"
    BY <1>6 DEF Publish
  <2>3. \A u \in Threads : Counts(thr'[u])
    BY <1>00, <2>1, IdleFields DEF Others, Counts
  <2> QED BY <2>2, <2>3, CountSame
<1>7. CASE SyncAll \/ Marks \/ Snapshot \/ CompactFails \/ UNCHANGED vars
  <2>1. comp \in CompStates
    BY <1>0 DEF TypeInv
  <2>2. att' = att /\ fate' = fate /\ thr' = thr
    BY <1>7 DEF SyncAll, Marks, Snapshot, CompactFails, vars, history, memory
  <2>3. comp'.rec = comp.rec \/ comp'.rec = <<>>
    <3>1. CASE Marks
      BY <3>1 DEF Marks, NoComp
    <3>2. CASE Snapshot
      BY <3>2, <2>1 DEF Snapshot, NoComp, CompStates
    <3>3. CASE SyncAll \/ CompactFails \/ UNCHANGED vars
      BY <3>3 DEF SyncAll, CompactFails, vars, NoComp
    <3> QED BY <1>7, <3>1, <3>2, <3>3
  <2> QED BY <1>00, <2>2, <2>3, CountSame
<1>8. CASE Swap \/ DropSlot \/ RemoveFile
  <2>1. comp \in CompStates
    BY <1>0 DEF TypeInv
  <2>2. /\ att' = att /\ thr' = thr
        /\ \A x \in Messages : fate'[x] = fate[x] \/ fate'[x] \in {"leaving", "away"}
    BY <1>8 DEF Swap, DropSlot, RemoveFile, memory
  <2>3. comp'.rec = comp.rec \/ comp'.rec = <<>>
    BY <1>8, <2>1 DEF Swap, DropSlot, RemoveFile, NoComp, CompStates
  <2> QED BY <1>00, <2>2, <2>3, CountSame
<1>9. CASE CloseFile
  <2>1. /\ \A u \in Threads : Elsewhere(thr[u], thr'[u])
        /\ comp' = comp /\ att' = att /\ fate' = fate
    BY <1>0, <1>9, CloseView
  <2>2. \A u \in Threads : Counts(thr'[u])
    BY <1>00, <2>1, CountsElsewhere
  <2> QED BY <2>1, <2>2, CountSame
<1>10. CASE ProcessDies \/ PowerLost
  <2>1. /\ comp' = NoComp /\ att' = att /\ \A t \in Threads : thr'[t] = Idle
    BY <1>10, CrashCuts DEF BaseInv, FileInv
  <2>2. \A x \in Messages : fate'[x] = fate[x] \/ fate'[x] \in {"lost", "acked"}
    BY <1>10 DEF ProcessDies, PowerLost
  <2>3. \A u \in Threads : Counts(thr'[u])
    BY <2>1, IdleFields DEF Counts
  <2>4. comp'.rec = <<>>
    BY <2>1 DEF NoComp
  <2> QED BY <2>1, <2>2, <2>3, <2>4, CountSame
<1>11. ASSUME NEW t \in Threads, NEW m \in Messages, Deliver(t, m) PROVE CountInv'
  BY <1>11, CountDeliver
<1>12. ASSUME NEW t \in Threads, Write(t) PROVE CountInv'
  BY <1>12, CountWrite
<1> QED BY <1>1, <1>2, <1>3, <1>4, <1>5, <1>6, <1>7, <1>8, <1>9, <1>10, <1>11, <1>12,
           CountRewrite, CountRecover DEF Next, Step

-----------------------------------------------------------------------------
(* A message that was never delivered has no attempts in the log while it  *)
(* is away or on its way in. *)
NewFates == {"new", "coming", "away"}
NewInv ==
  /\ \A i \in 1..Len(log) : log[i].kind = "attempt" => log[i].n > 0
  /\ \A m \in Messages : fate[m] \in NewFates /\ att[m] = 0 => NoTry(log, m)

(* An empty log has no attempts. *)
LEMMA InitNew == Init => NewInv
  BY EmptySeq DEF Init, NewInv, NoTry

(* Every attempt in the log was there, or is one of those counted. *)
LEMMA NewFrom ==
  ASSUME NewInv,
         \A i \in 1..Len(log') : log'[i].kind = "attempt" =>
           \/ \E j \in 1..Len(log) : log[j] = log'[i]
           \/ log'[i].n > 0 /\ att[log'[i].id] > 0,
         \A m \in Messages : fate'[m] \in NewFates =>
           att'[m] = att[m] /\ (fate[m] \in NewFates \/ att[m] > 0)
  PROVE  NewInv'
<1>1. \A i \in 1..Len(log') : log'[i].kind = "attempt" => log'[i].n > 0
  BY DEF NewInv
<1>2. ASSUME NEW m \in Messages, fate'[m] \in NewFates, att'[m] = 0
      PROVE  NoTry(log', m)
  <2>1. att[m] = 0 /\ fate[m] \in NewFates
    BY <1>2
  <2>2. NoTry(log, m)
    BY <2>1 DEF NewInv
  <2> QED BY <2>1, <2>2 DEF NoTry, Is
<1> QED BY <1>1, <1>2 DEF NewInv

(* A step that leaves the log alone adds no attempt to it. *)
LEMMA NewSame ==
  ASSUME NewInv, log' = log,
         \A m \in Messages : fate'[m] \in NewFates =>
           att'[m] = att[m] /\ (fate[m] \in NewFates \/ att[m] > 0)
  PROVE  NewInv'
BY NewFrom

(* An append adds those that were counted. *)
LEMMA NewGrows ==
  ASSUME NewInv, log \in Seq(Entries), NEW r \in Entries, log' \in {log, Append(log, r)},
         r.kind = "attempt" => r.n > 0 /\ att[r.id] > 0,
         \A m \in Messages : fate'[m] \in NewFates =>
           att'[m] = att[m] /\ (fate[m] \in NewFates \/ att[m] > 0)
  PROVE  NewInv'
<1>1. CASE log' = log
  BY <1>1, NewSame
<1>2. CASE log' = Append(log, r)
  <2>1. /\ Len(log') = Len(log) + 1 /\ log'[Len(log) + 1] = r
        /\ \A i \in 1..Len(log) : log'[i] = log[i]
        /\ Len(log) \in Nat
    BY <1>2, WholeAppend, LenProperties
  <2>2. \A i \in 1..Len(log') : log'[i].kind = "attempt" =>
           \/ \E j \in 1..Len(log) : log[j] = log'[i]
           \/ log'[i].n > 0 /\ att[log'[i].id] > 0
    <3> SUFFICES ASSUME NEW i \in 1..Len(log'), log'[i].kind = "attempt"
                 PROVE  \/ \E j \in 1..Len(log) : log[j] = log'[i]
                        \/ log'[i].n > 0 /\ att[log'[i].id] > 0
      OBVIOUS
    <3>1. i \in 1..Len(log) \/ i = Len(log) + 1
      BY <2>1
    <3> QED BY <2>1, <3>1
  <2> QED BY <2>2, NewFrom
<1> QED BY <1>1, <1>2

(* So does a write. *)
LEMMA NewWrite ==
  ASSUME BaseInv, ApartInv, CountInv, NewInv, NEW t \in Threads, Write(t)
  PROVE  NewInv'
<1>0. TypeInv /\ fate \in [Messages -> Fates] /\ log \in Seq(Entries) /\ thr[t] \in ThreadStates /\ ThreadOK(thr[t])
  BY DEF BaseInv, TypeInv
<1>1. /\ thr[t].m \in Messages /\ att' = att /\ Its(thr[t]) \in Entries
      /\ log' \in {log, Append(log, Its(thr[t]))}
      /\ thr[t].op \in {"enqueue", "absorb", "attempt", "terminal"} /\ thr[t].pc = "write"
  BY <1>0, WriteView, WriteLog
<1>2. Its(thr[t]).kind = "attempt" => Its(thr[t]).n > 0 /\ att[Its(thr[t]).id] > 0
  <2>1. /\ Its(thr[t]).id = thr[t].m /\ Its(thr[t]).n = thr[t].n
        /\ Its(thr[t]).kind = IF thr[t].op = "absorb" THEN "enqueue" ELSE thr[t].op
    BY <1>0, <1>1, ItsEntry
  <2>2. thr[t].op = "attempt" => thr[t].n \in 1..att[thr[t].m] /\ att[thr[t].m] \in 0..MaxAttempts
    BY <1>0, <1>1 DEF CountInv, Counts, TypeInv
  <2>3. thr[t].op = "attempt" => thr[t].n > 0 /\ att[thr[t].m] > 0
    BY <2>2, WalAssumption
  <2> QED BY <2>1, <2>3
<1>3. WriteFate(t) \in [Messages -> Fates]
  BY <1>0, <1>1, WriteView DEF Bringing, Fates
<1>4. \A m \in Messages : fate'[m] = WriteFate(t)[m] \/ fate'[m] = "here"
  <2> HIDE DEF WriteFate
  <2>1. CASE NeedsFlush(t)
    BY <1>0, <2>1, WriteView
  <2>2. CASE ~ NeedsFlush(t)
    <3>1. fate' = Told(t, TRUE, WriteFate(t))
      BY <1>0, <2>2, WriteView
    <3> QED BY <1>3, <3>1, ToldIs
  <2> QED BY <2>1, <2>2
<1>5. ASSUME NEW m \in Messages, fate'[m] \in NewFates
      PROVE  fate[m] \in NewFates \/ att[m] > 0
  <2>1. WriteFate(t)[m] \in NewFates
    BY <1>4, <1>5 DEF NewFates
  <2>2. CASE thr[t].op \in Bringing /\ m = thr[t].m
    <3>1. fate[m] \in {"new", "coming", "away", "done"}
      BY <1>0, <1>1, <2>2, Views DEF ApartInv
    <3> QED BY <3>1 DEF CountInv, NewFates
  <2>3. CASE ~ (thr[t].op \in Bringing /\ m = thr[t].m)
    BY <1>0, <1>1, <2>1, <2>3, WriteView DEF Bringing, NewFates
  <2> QED BY <2>2, <2>3
<1> QED BY <1>0, <1>1, <1>2, <1>5, NewGrows

(* Where the records of a compacted log come from. *)
LEMMA SpliceFrom ==
  ASSUME NEW s \in Seq(Entries), NEW r \in Seq(Entries), NEW a \in 0..Len(s), NEW q,
         SplicedAt(q, r, s, a), NEW i \in 1..Len(q)
  PROVE  \/ i \in 1..Len(r) /\ q[i] = r[i]
         \/ \E l \in 1..Len(s) : q[i] = s[l]
<1> DEFINE n == Len(r)
<1>1. /\ Len(s) \in Nat /\ n \in Nat /\ a \in Nat
      /\ Len(q) = n + (Len(s) - a)
      /\ \A j \in 1..n : q[j] = r[j]
      /\ \A j \in (a + 1)..Len(s) : q[n + (j - a)] = s[j]
  BY LenProperties DEF SplicedAt
<1> HIDE DEF n
<1>2. CASE i \in 1..n
  BY <1>1, <1>2 DEF n
<1>3. CASE i \notin 1..n
  <2> DEFINE l == (i - n) + a
  <2>01. i \in Int /\ i >= 1 /\ i <= Len(q)
    BY <1>1
  <2>02. i > n
    BY <1>1, <1>3, <2>01
  <2>03. l \in Int
    BY <1>1, <2>01
  <2>04. l > a
    BY <1>1, <2>01, <2>02
  <2>05. l <= Len(s)
    BY <1>1, <2>01, <2>02
  <2>06. i = n + (l - a)
    BY <1>1, <2>01, <2>02
  <2> HIDE DEF l
  <2>1. l \in (a + 1)..Len(s) /\ i = n + (l - a) /\ l \in 1..Len(s)
    BY <1>1, <2>03, <2>04, <2>05, <2>06
  <2> HIDE DEF l
  <2> QED BY <1>1, <2>1
<1> QED BY <1>2, <1>3

(* A compaction adds those of its snapshot, which were counted. *)
LEMMA NewSwap ==
  ASSUME BaseInv, CountInv, NewInv, Swap
  PROVE  NewInv'
<1>0. TypeInv /\ CompInv /\ log \in Seq(Entries) /\ comp.pc = "swap" /\ att' = att /\ fate' = fate
  BY DEF BaseInv, TypeInv, Swap, memory
<1>1. PICK tail \in Tails : log' = NewLog(tail)
  BY DEF Swap
<1>2. /\ comp.rec \in Seq(Entries) /\ W(comp.rec) = Len(comp.rec)
      /\ \/ \E a \in 0..Len(log) : NewLog(tail) = Spliced(comp.rec, log, a)
         \/ tail = <<Torn>>
  BY <1>0, SwapLog
<1>3. PICK b \in [Messages -> 0..MaxAttempts] : Tells(comp.rec, comp.snap, b)
  BY <1>0 DEF CompInv
<1>4. \A i \in 1..Len(comp.rec) : comp.rec[i].kind = "attempt" => comp.rec[i].n > 0 /\ att[comp.rec[i].id] > 0
  <2> SUFFICES ASSUME NEW i \in 1..Len(comp.rec), comp.rec[i].kind = "attempt"
               PROVE  comp.rec[i].n > 0 /\ att[comp.rec[i].id] > 0
    OBVIOUS
  <2>1. comp.rec[i] \in Entries /\ comp.rec[i].id \in Messages
    BY <1>2, ElementOfSeq, EntryFields
  <2>2. att[comp.rec[i].id] \in 0..MaxAttempts
    BY <2>1, <1>0 DEF TypeInv
  <2>3. comp.rec[i].n \in 1..att[comp.rec[i].id]
    BY DEF CountInv
  <2> QED BY <2>2, <2>3, WalAssumption
<1>5. ASSUME NEW i \in 1..Len(log'), log'[i].kind = "attempt"
      PROVE  \/ \E j \in 1..Len(log) : log[j] = log'[i]
             \/ log'[i].n > 0 /\ att[log'[i].id] > 0
  <2>1. ASSUME NEW a \in 0..Len(log), NewLog(tail) = Spliced(comp.rec, log, a)
        PROVE  \/ \E j \in 1..Len(log) : log[j] = log'[i]
               \/ log'[i].n > 0 /\ att[log'[i].id] > 0
    <3>1. SplicedAt(log', comp.rec, log, a)
      BY <1>0, <1>1, <1>2, <2>1, NewLogAt
    <3>2. \/ i \in 1..Len(comp.rec) /\ log'[i] = comp.rec[i]
          \/ \E l \in 1..Len(log) : log'[i] = log[l]
      BY <1>0, <1>2, <3>1, SpliceFrom
    <3> QED BY <1>4, <1>5, <3>2
  <2>2. CASE tail = <<Torn>>
    <3>1. <<Torn>> \in Seq(Entries) /\ Len(<<Torn>>) = 1 /\ <<Torn>>[1] = Torn /\ Torn.kind = "torn"
      BY TornEntry
    <3>2. /\ Len(log') = Len(comp.rec) + 1 /\ Len(comp.rec) \in Nat
          /\ \A j \in 1..Len(comp.rec) : log'[j] = comp.rec[j]
          /\ \A j \in 1..Len(<<Torn>>) : log'[Len(comp.rec) + j] = <<Torn>>[j]
      BY <1>1, <1>2, <2>2, <3>1, WholeConcat, LenProperties DEF NewLog
    <3>3. log'[Len(comp.rec) + 1] = Torn
      BY <3>1, <3>2
    <3>4. i \in 1..Len(comp.rec)
      BY <1>5, <3>1, <3>2, <3>3
    <3> QED BY <1>4, <1>5, <3>2, <3>4
  <2> QED BY <1>2, <2>1, <2>2
<1>6. \A m \in Messages : fate'[m] \in NewFates =>
           att'[m] = att[m] /\ (fate[m] \in NewFates \/ att[m] > 0)
  BY <1>0
<1> QED BY <1>5, <1>6, NewFrom

(* Every step keeps what was never delivered without attempts. *)
LEMMA NextNew == BaseInv /\ ApartInv /\ CountInv /\ NewInv /\ [Next]_vars => NewInv'
<1> SUFFICES ASSUME BaseInv, ApartInv, CountInv, NewInv, [Next]_vars PROVE NewInv'
  OBVIOUS
<1>0. /\ TypeInv /\ WaitInv /\ fate \in [Messages -> Fates] /\ log \in Seq(Entries) /\ Len(log) \in Nat
      /\ durable <= Len(log)
  BY LenProperties DEF BaseInv, TypeInv, FlushInv, FileInv
<1>1. CASE \/ \E t \in Threads, m \in Messages : BeginEnqueue(t, m)
           \/ \E t \in Threads, ms \in SUBSET Messages : BeginAbsorb(t, ms)
           \/ \E t \in Threads : Open(t) \/ BeginFlush(t)
           \/ SyncAll \/ CloseFile \/ Marks \/ Snapshot \/ Rewrite \/ CompactFails \/ UNCHANGED vars
  <2>1. log' = log /\ fate' = fate /\ att' = att
    <3>1. CASE \/ \E t \in Threads, m \in Messages : BeginEnqueue(t, m)
               \/ \E t \in Threads, ms \in SUBSET Messages : BeginAbsorb(t, ms)
      BY <3>1 DEF BeginEnqueue, BeginAbsorb, disk, history, memory
    <3>2. CASE \E t \in Threads : Open(t) \/ BeginFlush(t)
      BY <3>2 DEF Open, BeginFlush, disk, history, memory
    <3>3. CASE SyncAll \/ CloseFile \/ Marks \/ Snapshot \/ Rewrite \/ CompactFails \/ UNCHANGED vars
      BY <3>3 DEF SyncAll, CloseFile, Marks, Snapshot, Rewrite, CompactFails, vars, disk, history, memory
    <3> QED BY <1>1, <3>1, <3>2, <3>3
  <2> QED BY <2>1, NewSame
<1>2. ASSUME NEW t \in Threads, NEW m \in Messages, Deliver(t, m) \/ Ack(t, m)
      PROVE  NewInv'
  <2>1. /\ log' = log /\ m \in mem
        /\ \/ att' = [att EXCEPT ![m] = att[m] + 1] /\ fate' = fate
           \/ att' = att /\ fate' = [fate EXCEPT ![m] = "acked"]
    BY <1>2 DEF Deliver, Ack, disk, history
  <2>2. fate[m] \notin NewFates
    BY <2>1 DEF ApartInv, NewFates
  <2>3. \A x \in Messages : fate'[x] \in NewFates =>
           att'[x] = att[x] /\ (fate[x] \in NewFates \/ att[x] > 0)
    BY <1>0, <2>1, <2>2 DEF NewFates, TypeInv
  <2> QED BY <2>1, <2>3, NewSame
<1>3. ASSUME NEW t \in Threads, EndFlush(t) \/ Wake(t) \/ ReturnDropped(t)
      PROVE  NewInv'
  <2>1. log' = log /\ att' = att
    BY <1>0, <1>3, EndView
  <2>2. PICK ok \in BOOLEAN : fate' = Told(t, ok, fate)
    BY <1>0, <1>3, EndView
  <2>3. \A x \in Messages : fate'[x] = fate[x] \/ fate'[x] = "here"
    BY <1>0, <2>2, ToldIs
  <2>4. \A x \in Messages : fate'[x] \in NewFates =>
           att'[x] = att[x] /\ (fate[x] \in NewFates \/ att[x] > 0)
    BY <2>1, <2>3 DEF NewFates
  <2> QED BY <2>1, <2>4, NewSame
<1>4. ASSUME NEW t \in Threads, WriteShort(t)
      PROVE  NewInv'
  <2>1. log' = Append(log, Torn) /\ fate' = fate /\ att' = att
    BY <1>4 DEF WriteShort
  <2> QED BY <1>0, <2>1, TornEntry, NewGrows
<1>5. ASSUME NEW t \in Threads, Publish(t)
      PROVE  NewInv'
  <2>1. /\ log' = log /\ att' = att
        /\ \A x \in Messages : fate'[x] = fate[x] \/ fate'[x] = "here"
    BY <1>5 DEF Publish, disk
  <2>2. \A x \in Messages : fate'[x] \in NewFates =>
           att'[x] = att[x] /\ (fate[x] \in NewFates \/ att[x] > 0)
    BY <2>1 DEF NewFates
  <2> QED BY <2>1, <2>2, NewSame
<1>6. CASE DropSlot
  <2>1. /\ log' = log /\ att' = att
        /\ \A x \in Messages : fate'[x] = fate[x] \/ fate'[x] = "leaving"
    BY <1>6 DEF DropSlot, disk
  <2>2. \A x \in Messages : fate'[x] \in NewFates =>
           att'[x] = att[x] /\ (fate[x] \in NewFates \/ att[x] > 0)
    BY <2>1 DEF NewFates
  <2> QED BY <2>1, <2>2, NewSame
<1>7. CASE RemoveFile
  <2>1. Len(log') = 0
    BY <1>7, EmptySeq DEF RemoveFile
  <2> QED BY <2>1 DEF NewInv, NoTry
<1>8. CASE ProcessDies \/ PowerLost
  <2>1. PICK k \in 0..Len(log) : Cut(log, log', k)
    BY <1>0, <1>8, CrashCuts
  <2>2. att' = att
    BY <1>0, <1>8, CrashCuts
  <2>3. \A x \in Messages : fate'[x] = fate[x] \/ fate'[x] \in {"lost", "acked"}
    BY <1>8 DEF ProcessDies, PowerLost
  <2>4. ASSUME NEW i \in 1..Len(log'), log'[i].kind = "attempt"
        PROVE  \E j \in 1..Len(log) : log[j] = log'[i]
    <3>1. Len(log') \in {k, k + 1} /\ (\A j \in 1..k : log'[j] = log[j]) /\ (Len(log') = k + 1 => log'[k + 1] = Torn)
      BY <2>1 DEF Cut
    <3>2. i \in 1..k \/ (Len(log') = k + 1 /\ i = k + 1)
      BY <3>1, <1>0
    <3>3. i \in 1..k
      BY <3>1, <3>2, <2>4, TornEntry
    <3>4. i \in 1..Len(log)
      BY <3>3, <1>0
    <3> QED BY <3>1, <3>3, <3>4
  <2>5. \A x \in Messages : fate'[x] \in NewFates =>
           att'[x] = att[x] /\ (fate[x] \in NewFates \/ att[x] > 0)
    BY <2>2, <2>3 DEF NewFates
  <2> QED BY <2>4, <2>5, NewFrom
<1>9. CASE Recover
  <2>1. log' = Readable(log)
    BY <1>9 DEF Recover
  <2>2. \A i \in 1..Len(log') : log'[i] = log[i] /\ i \in 1..Len(log)
    BY <1>0, <2>1, ReadablePart
  <2>3. \A x \in Messages : fate'[x] \in NewFates =>
           att'[x] = att[x] /\ (fate[x] \in NewFates \/ att[x] > 0)
    BY <1>9 DEF Recover, NewFates
  <2> QED BY <2>2, <2>3, NewFrom
<1>10. ASSUME NEW t \in Threads, Write(t) PROVE NewInv'
  BY <1>10, NewWrite
<1> QED BY <1>1, <1>2, <1>3, <1>4, <1>5, <1>6, <1>7, <1>8, <1>9, <1>10, NewSwap DEF Next, Step

-----------------------------------------------------------------------------
(* What the log knows of the attempts of a message that memory holds or a  *)
(* goroutine has written: the latest delivery is being journalled, or it   *)
(* is the last one in the log.  While a compaction is under way the same   *)
(* holds of the log it is about to make. *)
Pending(m) == \E t \in Threads : thr[t].op = "attempt" /\ thr[t].m = m /\ thr[t].n = att[m]
InHand(m)  == \E t \in Threads : m \in WrittenOf(thr[t])
Tracked(m) == m \in mem \/ InHand(m)
Knows(s, m) == Pending(m) \/ AttemptsIn(s, m) = att[m]
Making == comp.pc # "idle" /\ ~ comp.stale
Behind(k, m) == \E i \in (comp.mark + 1)..Len(log) : Is(log, i, k, m)
InFront(k, m) == \E i \in 1..comp.mark : Is(log, i, k, m)

TryOf(m) ==
  /\ InHand(m) => att[m] = 0
  /\ Tracked(m) => Knows(log, m)
  /\ Making /\ W(log) < comp.mark => ~ Behind("attempt", m)
  /\ Making /\ Tracked(m) /\ (Behind("enqueue", m) \/ (comp.pc # "snapshot" /\ m \notin comp.snap))
       => ~ InFront("attempt", m)
  /\ Making /\ comp.pc = "swap" /\ m \in comp.snap /\ Tracked(m)
       => Knows(Spliced(comp.rec, log, comp.mark), m)
TryInv == \A m \in Messages \ behind : TryOf(m)

(* Nothing is tracked at the start. *)
LEMMA InitTry == Init => TryInv
<1> SUFFICES ASSUME Init PROVE TryInv
  OBVIOUS
<1>1. comp.pc = "idle"
  BY DEF Init, NoComp
<1>2. \A m \in Messages : ~ Tracked(m) /\ ~ InHand(m)
  BY IdleView DEF Init, Tracked, InHand
<1> QED BY <1>1, <1>2 DEF TryInv, TryOf, Making

(* A step that leaves the log alone. *)
LEMMA TrySame ==
  ASSUME NEW m \in Messages, TryOf(m), att'[m] = att[m], log' = log, comp' = comp \/ comp'.pc = "idle",
         InHand(m)' => InHand(m), Tracked(m)' => Tracked(m),
         Tracked(m)' /\ Pending(m) => Pending(m)'
  PROVE  TryOf(m)'
<1>1. \A s : Tracked(m)' /\ Knows(s, m) => Pending(m)' \/ AttemptsIn(s, m) = att'[m]
  BY DEF Knows
<1>2. CASE comp'.pc = "idle"
  BY <1>1, <1>2 DEF TryOf, Knows, Making
<1>3. CASE comp' = comp
  <2>1. Making' = Making /\ (\A k : Behind(k, m)' = Behind(k, m)) /\ \A k : InFront(k, m)' = InFront(k, m)
    BY <1>3 DEF Making, Behind, InFront
  <2>2. Knows(log, m)' = (Pending(m)' \/ AttemptsIn(log, m) = att'[m])
    BY DEF Knows
  <2>3. Knows(Spliced(comp.rec, log, comp.mark), m)' =
          (Pending(m)' \/ AttemptsIn(Spliced(comp.rec, log, comp.mark), m) = att'[m])
    BY <1>3 DEF Knows, Spliced
  <2>4. Behind("attempt", m)' = Behind("attempt", m) /\ Behind("enqueue", m)' = Behind("enqueue", m)
        /\ InFront("attempt", m)' = InFront("attempt", m)
    BY <2>1
  <2>5. (Making /\ comp.pc = "swap" /\ m \in comp.snap /\ Tracked(m))' => Knows(Spliced(comp.rec, log, comp.mark), m)'
    BY <1>1, <1>3, <2>1, <2>3 DEF TryOf
  <2>6. Tracked(m)' => Knows(log, m)'
    BY <1>1, <2>2 DEF TryOf
  <2> QED BY <1>3, <2>1, <2>4, <2>5, <2>6 DEF TryOf
<1> QED BY <1>2, <1>3

(* What an append does to the places of the records. *)
LEMMA AppendPlaces ==
  ASSUME BaseInv, NEW r \in Entries, log' = Append(log, r), comp' = comp, Making, NEW m, NEW k
  PROVE  /\ Behind(k, m)' => Behind(k, m) \/ (r.kind = k /\ r.id = m)
         /\ InFront(k, m)' => InFront(k, m)
         /\ W(log') < comp'.mark => W(log) < comp.mark
         /\ comp.mark \in 0..Len(log)
<1>1. log \in Seq(Entries) /\ Len(log) \in Nat /\ comp.mark \in Nat /\ comp.mark <= Len(log)
      /\ W(log) \in 0..Len(log)
  BY WholeIff, LenProperties DEF BaseInv, TypeInv, CompInv, Making, CompStates
<1>2. /\ Len(log') = Len(log) + 1
      /\ \A i \in 1..Len(log) : log'[i] = log[i]
      /\ log'[Len(log) + 1] = r
      /\ W(log') >= W(log)
  BY <1>1, WholeAppend
<1>3. W(log') \in Nat
  BY <1>1, WholeAppend
<1>4. ASSUME NEW i \in (comp.mark + 1)..Len(log'), Is(log', i, k, m)
      PROVE  Behind(k, m) \/ (r.kind = k /\ r.id = m)
  <2>1. CASE i = Len(log) + 1
    BY <1>2, <1>4, <2>1 DEF Is
  <2>2. CASE i # Len(log) + 1
    <3>1. i \in (comp.mark + 1)..Len(log) /\ i \in 1..Len(log)
      BY <1>1, <1>2, <2>2
    <3> QED BY <1>2, <1>4, <3>1 DEF Is, Behind
  <2> QED BY <2>1, <2>2
<1>5. ASSUME NEW i \in 1..comp.mark, Is(log', i, k, m)
      PROVE  InFront(k, m)
  <2>1. i \in 1..Len(log)
    BY <1>1
  <2> QED BY <1>2, <1>5, <2>1 DEF Is, InFront
<1>6. W(log') < comp'.mark => W(log) < comp.mark
  BY <1>1, <1>2, <1>3
<1> QED BY <1>1, <1>4, <1>5, <1>6 DEF Behind, InFront

(* The log the compaction is about to make grows with the old one. *)
LEMMA MakingAppend ==
  ASSUME BaseInv, NEW r \in Entries, log' = Append(log, r), comp' = comp, Making, comp.pc = "swap"
  PROVE  /\ Spliced(comp'.rec, log', comp'.mark) = Append(Spliced(comp.rec, log, comp.mark), r)
         /\ Spliced(comp.rec, log, comp.mark) \in Seq(Entries)
         /\ W(log) = Len(log) => W(Spliced(comp.rec, log, comp.mark)) = Len(Spliced(comp.rec, log, comp.mark))
<1>1. log \in Seq(Entries) /\ comp.rec \in Seq(Entries) /\ W(comp.rec) = Len(comp.rec)
  BY DEF BaseInv, TypeInv, CompInv, CompStates, Tells
<1>2. comp.mark \in 0..Len(log)
  BY AppendPlaces
<1> QED BY <1>1, <1>2, SplicedAppend

(* A record is appended that says nothing of the attempts of m. *)
LEMMA TryGrows ==
  ASSUME BaseInv, NEW m \in Messages, TryOf(m), att'[m] = att[m], comp' = comp,
         NEW r \in Entries, log' = Append(log, r), ~ (r.kind \in {"attempt", "enqueue"} /\ r.id = m),
         InHand(m)' => InHand(m), Tracked(m)' => Tracked(m),
         Tracked(m)' /\ Pending(m) => Pending(m)'
  PROVE  TryOf(m)'
<1>0. log \in Seq(Entries)
  BY DEF BaseInv, TypeInv
<1>1. AttemptsIn(log', m) = AttemptsIn(log, m)
  BY <1>0, AttemptsAppend
<1>2. Tracked(m)' => Knows(log, m)'
  BY <1>1 DEF TryOf, Knows
<1>3. ASSUME Making PROVE
        /\ W(log') < comp'.mark => ~ Behind("attempt", m)'
        /\ Tracked(m)' /\ (Behind("enqueue", m)' \/ (comp'.pc # "snapshot" /\ m \notin comp'.snap))
             => ~ InFront("attempt", m)'
  <2>1. /\ Behind("attempt", m)' => Behind("attempt", m)
        /\ Behind("enqueue", m)' => Behind("enqueue", m)
        /\ InFront("attempt", m)' => InFront("attempt", m)
        /\ W(log') < comp'.mark => W(log) < comp.mark
    BY <1>3, AppendPlaces
  <2> QED BY <2>1, <1>3 DEF TryOf
<1>4. ASSUME Making, comp.pc = "swap", m \in comp.snap, Tracked(m)'
      PROVE  Knows(Spliced(comp.rec, log, comp.mark), m)'
  <2>1. AttemptsIn(Spliced(comp'.rec, log', comp'.mark), m) = AttemptsIn(Spliced(comp.rec, log, comp.mark), m)
    BY <1>4, MakingAppend, AttemptsAppend
  <2>2. Knows(Spliced(comp.rec, log, comp.mark), m)
    BY <1>4 DEF TryOf
  <2> QED BY <1>4, <2>1, <2>2 DEF Knows, Spliced
<1>5. Making' = Making
  BY DEF Making
<1> QED BY <1>2, <1>3, <1>4, <1>5 DEF TryOf

(* A message without attempts anywhere. *)
LEMMA TryFresh ==
  ASSUME BaseInv', CountInv', NEW m \in Messages, att'[m] = 0, NoTry(log', m)
  PROVE  TryOf(m)'
<1>0. /\ log' \in Seq(Entries) /\ comp' \in CompStates /\ Len(log') \in Nat
      /\ comp'.rec \in Seq(Entries)
  BY LenProperties DEF BaseInv, TypeInv, CompStates
<1>1. AttemptsIn(log', m) = 0
  BY <1>0, NoTryNone
<1>2. ASSUME Making' PROVE ~ Behind("attempt", m)' /\ ~ InFront("attempt", m)'
  <2>1. comp'.mark \in Nat /\ comp'.mark <= Len(log')
    BY <1>0, <1>2 DEF BaseInv, CompInv, Making, CompStates
  <2>2. \A i \in 1..comp'.mark : i \in 1..Len(log')
    BY <1>0, <2>1
  <2>3. \A i \in (comp'.mark + 1)..Len(log') : i \in 1..Len(log')
    BY <1>0, <2>1
  <2> QED BY <2>2, <2>3 DEF Behind, InFront, NoTry
<1>3. ASSUME Making', comp'.pc = "swap"
      PROVE  AttemptsIn(Spliced(comp'.rec, log', comp'.mark), m) = 0
  <2>1. comp'.mark \in 0..Len(log') /\ W(comp'.rec) = Len(comp'.rec)
    BY <1>0, <1>3 DEF BaseInv, CompInv, Making, CompStates, Tells
  <2> DEFINE q == Spliced(comp'.rec, log', comp'.mark)
  <2>2. SplicedAt(q, comp'.rec, log', comp'.mark)
    BY <1>0, <2>1, NewLogAt
  <2>3. q \in Seq(Entries)
    BY <2>2 DEF SplicedAt
  <2>4. \A i \in 1..Len(comp'.rec) : ~ Is(comp'.rec, i, "attempt", m)
    <3> SUFFICES ASSUME NEW i \in 1..Len(comp'.rec), Is(comp'.rec, i, "attempt", m) PROVE FALSE
      OBVIOUS
    <3>1. comp'.rec[i].n \in 1..att'[m]
      BY DEF CountInv, Is
    <3> QED BY <3>1
  <2>5. NoTry(q, m)
    <3> SUFFICES ASSUME NEW i \in 1..Len(q), Is(q, i, "attempt", m) PROVE FALSE
      BY DEF NoTry
    <3>1. \/ i \in 1..Len(comp'.rec) /\ q[i] = comp'.rec[i]
          \/ \E l \in 1..Len(log') : q[i] = log'[l]
      BY <1>0, <2>1, <2>2, SpliceFrom
    <3> HIDE DEF q
    <3> QED BY <3>1, <2>4 DEF NoTry, Is
  <2> HIDE DEF q
  <2>6. AttemptsIn(q, m) = 0
    BY <2>3, <2>5, NoTryNone
  <2> QED BY <2>6 DEF q
<1>4. Knows(log, m)'
  BY <1>1 DEF Knows
<1>5. Making' /\ comp'.pc = "swap" => Knows(Spliced(comp.rec, log, comp.mark), m)'
  BY <1>3 DEF Knows, Spliced
<1> QED BY <1>2, <1>4, <1>5 DEF TryOf

(* Who moves takes nothing new in hand, or keeps what he journals. *)
LEMMA TrackedMoves ==
  ASSUME NEW t \in Threads, Others(t), WrittenOf(thr'[t]) \subseteq WrittenOf(thr[t]),
         mem' \subseteq mem \cup WrittenOf(thr[t]), NEW m
  PROVE  (InHand(m)' => InHand(m)) /\ (Tracked(m)' => Tracked(m))
BY DEF Others, InHand, Tracked

(* Who journals a delivery goes on doing so while another moves. *)
LEMMA PendingMoves ==
  ASSUME NEW t \in Threads, Others(t), NEW m, att'[m] = att[m], Pending(m),
         thr[t].op # "attempt" \/ thr[t].m # m \/ Elsewhere(thr[t], thr'[t])
  PROVE  Pending(m)'
BY DEF Others, Pending, Elsewhere

(* An append that is over. *)
LEMMA TryReturn ==
  ASSUME BaseInv, NEW t \in Threads, NEW ok \in BOOLEAN, Return(t, ok), thr[t].m \in Messages,
         ok /\ thr[t].op \in Bringing => thr[t].m \in WrittenOf(thr[t]), NEW m
  PROVE  (InHand(m)' => InHand(m)) /\ (Tracked(m)' => Tracked(m)) /\ Others(t)
<1> USE DEF Bringing
<1>1. TypeInv
  BY DEF BaseInv
<1>2. thr[t].got \subseteq WrittenOf(thr[t])
  BY DEF WrittenOf
<1>3. /\ Others(t)
      /\ \/ thr[t].op = "absorb" /\ ok /\ mem' = mem /\ WrittenOf(thr'[t]) = thr[t].got \cup {thr[t].m}
         \/ thr[t].op = "enqueue" /\ ok /\ mem' = mem \cup {thr[t].m} /\ thr'[t] = Idle
         \/ mem' = mem /\ thr'[t] = Idle
  BY <1>1, ReturnView
<1>4. WrittenOf(thr'[t]) \subseteq WrittenOf(thr[t]) /\ mem' \subseteq mem \cup WrittenOf(thr[t])
  BY <1>2, <1>3, IdleView
<1> QED BY <1>3, <1>4, TrackedMoves

(* The attempt is in the log.  One of an earlier delivery that would take  *)
(* the place of a later one is written down in behind. *)
LEMMA TryAttempt ==
  ASSUME BaseInv, CountInv, NEW t \in Threads, Write(t), thr[t].op = "attempt",
         NEW m \in Messages, m = thr[t].m, TryOf(m), m \notin behind'
  PROVE  TryOf(m)'
<1> DEFINE r == Its(thr[t])
<1>0. /\ TypeInv /\ log \in Seq(Entries) /\ thr[t] \in ThreadStates /\ ThreadOK(thr[t])
      /\ Len(log) \in Nat
  BY LenProperties DEF BaseInv, TypeInv
<1>1. /\ att' = att /\ comp' = comp /\ r \in Entries /\ thr[t].pc = "write"
      /\ log' = IF handle = "path" THEN Append(log, r) ELSE log
  BY <1>0, WriteView, WriteLog
<1>2. r.kind = "attempt" /\ r.id = m /\ r.n = thr[t].n
  BY <1>0, <1>1, ItsEntry
<1> HIDE DEF r
<1>3. Sound /\ ~ (thr[t].n < AttemptsIn(log, m))
  BY DEF Write
<1>4. log' = Append(log, r) /\ W(log) = Len(log)
  BY <1>0, <1>1, <1>3, WholeSound DEF Sound
<1>5. thr[t].n \in 1..att[m] /\ att[m] \in Nat /\ AttemptsIn(log, m) \in Nat
  <2>1. att[m] \in 0..MaxAttempts /\ AttemptsIn(log, m) \in 0..MaxAttempts
    BY <1>0, AttemptsInIs DEF TypeInv
  <2> QED BY <2>1, WalAssumption DEF CountInv, Counts
<1>6. Return(t, TRUE)
  <2>1. ~ NeedsFlush(t)
    BY DEF NeedsFlush
  <2> QED BY <1>0, <2>1, WriteView
<1>7. (InHand(m)' => InHand(m)) /\ (Tracked(m)' => Tracked(m)) /\ Others(t)
  BY <1>6, TryReturn DEF Bringing
<1>8. ASSUME NEW u \in Threads, u # t, thr[u].op = "attempt", thr[u].m = m, thr[u].n = att[m]
      PROVE  Pending(m)'
  BY <1>1, <1>7, <1>8 DEF Others, Pending
<1>9. thr[t].n = att[m] \/ (Pending(m) /\ Pending(m)') \/ ~ Pending(m)
  BY <1>8 DEF Pending
<1>10. Tracked(m) => thr[t].n = att[m] \/ Pending(m)'
  <2>1. Tracked(m) => Pending(m) \/ AttemptsIn(log, m) = att[m]
    BY DEF TryOf, Knows
  <2> QED BY <2>1, <1>3, <1>5, <1>9
<1>11. Tracked(m)' => Knows(log, m)'
  <2>1. AttemptsIn(log', m) = thr[t].n
    BY <1>0, <1>1, <1>2, <1>4, AttemptsAppend
  <2> QED BY <1>1, <1>7, <1>10, <2>1 DEF Knows
<1>12. ASSUME Making PROVE
        /\ ~ (W(log') < comp'.mark)
        /\ Tracked(m)' /\ (Behind("enqueue", m)' \/ (comp'.pc # "snapshot" /\ m \notin comp'.snap))
             => ~ InFront("attempt", m)'
  <2>1. /\ Behind("enqueue", m)' => Behind("enqueue", m)
        /\ InFront("attempt", m)' => InFront("attempt", m)
        /\ W(log') < comp'.mark => W(log) < comp.mark
        /\ comp.mark \in 0..Len(log)
    BY <1>1, <1>2, <1>4, <1>12, AppendPlaces
  <2>2. ~ (W(log) < comp.mark)
    BY <1>0, <1>4, <2>1
  <2> QED BY <2>1, <2>2, <1>1, <1>7, <1>12 DEF TryOf
<1>13. ASSUME Making, comp.pc = "swap", m \in comp.snap, Tracked(m)'
       PROVE  Knows(Spliced(comp.rec, log, comp.mark), m)'
  <2> DEFINE q == Spliced(comp.rec, log, comp.mark)
  <2>1. /\ Spliced(comp'.rec, log', comp'.mark) = Append(q, r)
        /\ q \in Seq(Entries) /\ W(q) = Len(q)
    BY <1>1, <1>4, <1>13, MakingAppend
  <2> HIDE DEF q
  <2>2. AttemptsIn(Spliced(comp'.rec, log', comp'.mark), m) = thr[t].n
    BY <1>1, <1>2, <2>1, AttemptsAppend
  <2>3. thr[t].n = att[m] \/ Pending(m)'
    BY <1>7, <1>10, <1>13
  <2> QED BY <1>1, <2>2, <2>3 DEF Knows, Spliced
<1>14. Making' = Making
  BY <1>1 DEF Making
<1>15. InHand(m)' => att'[m] = 0
  BY <1>1, <1>7 DEF TryOf
<1> QED BY <1>1, <1>11, <1>12, <1>13, <1>14, <1>15 DEF TryOf

(* A write: an attempt becomes the last word, an enqueue is of a message   *)
(* that has none, and the others are left alone.                           *)
LEMMA TryWrite ==
  ASSUME BaseInv, BaseInv', ApartInv, CountInv, CountInv', NewInv, TryInv, NEW t \in Threads, Write(t)
  PROVE  TryInv'
<1> USE DEF Bringing
<1> DEFINE r == Its(thr[t])
<1>0. TypeInv /\ log \in Seq(Entries) /\ thr[t] \in ThreadStates /\ ThreadOK(thr[t])
  BY DEF BaseInv, TypeInv
<1>1. /\ att' = att /\ comp' = comp /\ r \in Entries /\ thr[t].pc = "write" /\ thr[t].m \in Messages
      /\ log' \in {log, Append(log, r)}
      /\ thr[t].op \in {"enqueue", "absorb", "attempt", "terminal"}
  BY <1>0, WriteView, WriteLog
<1>2. r.id = thr[t].m /\ r.kind = IF thr[t].op = "absorb" THEN "enqueue" ELSE thr[t].op
  BY <1>0, <1>1, ItsEntry
<1> HIDE DEF r
<1>3. /\ behind \subseteq behind'
      /\ thr[t].op = "absorb" /\ att[thr[t].m] > 0 => thr[t].m \in behind'
  BY DEF Write
<1>4. /\ Others(t)
      /\ WrittenOf(thr'[t]) \subseteq WrittenOf(thr[t]) \cup (IF thr[t].op \in Bringing THEN {thr[t].m} ELSE {})
      /\ mem' \subseteq mem \cup (IF thr[t].op \in Bringing THEN {thr[t].m} ELSE {})
  <2>1. thr[t].got \subseteq WrittenOf(thr[t])
    BY DEF WrittenOf
  <2>2. CASE NeedsFlush(t)
    <3>1. Others(t) /\ Elsewhere(thr[t], thr'[t]) /\ mem' = mem
      BY <1>0, <2>2, WriteView, GoView
    <3>2. WrittenOf(thr'[t]) \subseteq thr[t].got \cup (IF thr[t].op \in Bringing THEN {thr[t].m} ELSE {})
      BY <3>1, ElsewhereView
    <3> QED BY <2>1, <3>1, <3>2
  <2>3. CASE ~ NeedsFlush(t)
    <3>1. Return(t, TRUE)
      BY <1>0, <2>3, WriteView
    <3>2. /\ Others(t)
          /\ \/ thr[t].op = "absorb" /\ mem' = mem /\ WrittenOf(thr'[t]) = thr[t].got \cup {thr[t].m}
             \/ thr[t].op = "enqueue" /\ mem' = mem \cup {thr[t].m} /\ thr'[t] = Idle
             \/ mem' = mem /\ thr'[t] = Idle
      BY <1>0, <1>1, <3>1, ReturnView
    <3> QED BY <2>1, <3>2, IdleView
  <2> QED BY <2>2, <2>3
<1> SUFFICES ASSUME NEW m \in Messages, m \notin behind' PROVE TryOf(m)'
  BY DEF TryInv
<1>5. TryOf(m)
  BY <1>3 DEF TryInv
<1>6. CASE thr[t].op \in Bringing /\ m = thr[t].m
  <2>1. att[m] \in 0..MaxAttempts
    BY <1>0 DEF TypeInv
  <2>2. att[m] = 0
    BY <1>3, <1>6, <2>1, WalAssumption DEF CountInv, Counts
  <2>3. fate[m] \in {"new", "coming", "away", "done"}
    BY <1>0, <1>1, <1>6, Views DEF ApartInv
  <2>4. NoTry(log, m)
    BY <2>1, <2>2, <2>3 DEF NewInv, NewFates, CountInv
  <2>5. NoTry(log', m)
    <3>1. CASE log' = log
      BY <2>4, <3>1
    <3>2. CASE log' = Append(log, r)
      <4>1. /\ Len(log') = Len(log) + 1 /\ log'[Len(log) + 1] = r
            /\ \A i \in 1..Len(log) : log'[i] = log[i]
            /\ Len(log) \in Nat
        BY <1>0, <1>1, <3>2, WholeAppend, LenProperties
      <4>2. r.kind = "enqueue"
        BY <1>2, <1>6
      <4>3. \A i \in 1..Len(log') : i \in 1..Len(log) \/ i = Len(log) + 1
        BY <4>1
      <4> QED BY <2>4, <4>1, <4>2, <4>3 DEF NoTry, Is
    <3> QED BY <1>1, <3>1, <3>2
  <2> QED BY <1>1, <2>2, <2>5, TryFresh
<1>7. CASE thr[t].op = "attempt" /\ m = thr[t].m
  BY <1>5, <1>7, TryAttempt
<1>8. CASE ~ (thr[t].op \in {"enqueue", "absorb", "attempt"} /\ m = thr[t].m)
  <2>1. (InHand(m)' => InHand(m)) /\ (Tracked(m)' => Tracked(m))
    BY <1>4, <1>8 DEF Others, InHand, Tracked
  <2>2. Pending(m) => Pending(m)'
    BY <1>1, <1>4, <1>8, PendingMoves
  <2>3. ~ (r.kind \in {"attempt", "enqueue"} /\ r.id = m)
    BY <1>1, <1>2, <1>8
  <2>4. CASE log' = log
    BY <1>1, <1>5, <2>1, <2>2, <2>4, TrySame
  <2>5. CASE log' = Append(log, r)
    BY <1>1, <1>5, <2>1, <2>2, <2>3, <2>5, TryGrows
  <2> QED BY <1>1, <2>4, <2>5
<1> QED BY <1>6, <1>7, <1>8

(* One goroutine moves, and what it journals stays in hand. *)
LEMMA TryMoves ==
  ASSUME TryInv, NEW t \in Threads, Others(t), log' = log, att' = att, comp' = comp, behind \subseteq behind',
         WrittenOf(thr'[t]) \subseteq WrittenOf(thr[t]), mem' \subseteq mem \cup WrittenOf(thr[t]),
         \A m \in Messages \ behind' : \/ thr[t].op # "attempt" \/ thr[t].m # m
                                       \/ Elsewhere(thr[t], thr'[t])
  PROVE  TryInv'
<1> SUFFICES ASSUME NEW m \in Messages, m \notin behind' PROVE TryOf(m)'
  BY DEF TryInv
<1>1. TryOf(m)
  BY DEF TryInv
<1>2. (InHand(m)' => InHand(m)) /\ (Tracked(m)' => Tracked(m))
  BY TrackedMoves
<1>3. Pending(m) => Pending(m)'
  BY PendingMoves
<1> QED BY <1>1, <1>2, <1>3, TrySame

(* A delivery is counted, and will be journalled. *)
LEMMA TryDeliver ==
  ASSUME BaseInv, ApartInv, TryInv, NEW t \in Threads, NEW d \in Messages, Deliver(t, d)
  PROVE  TryInv'
<1>0. TypeInv
  BY DEF BaseInv
<1>1. /\ Others(t) /\ thr[t] = Idle /\ thr'[t].op = "attempt" /\ thr'[t].m = d
      /\ WrittenOf(thr'[t]) = {} /\ thr'[t].n = att[d] + 1
  BY <1>0, BeginView
<1>2. /\ log' = log /\ comp' = comp /\ behind' = behind /\ mem' = mem /\ d \in mem
      /\ att' = [att EXCEPT ![d] = @ + 1]
  BY DEF Deliver, disk, history
<1>3. att'[d] = att[d] + 1 /\ \A m \in Messages \ {d} : att'[m] = att[m]
  BY <1>0, <1>2 DEF TypeInv
<1> SUFFICES ASSUME NEW m \in Messages, m \notin behind PROVE TryOf(m)'
  BY <1>2 DEF TryInv
<1>4. TryOf(m)
  BY DEF TryInv
<1>5. (InHand(m)' => InHand(m)) /\ (Tracked(m)' => Tracked(m))
  BY <1>1, <1>2, TrackedMoves
<1>6. CASE m = d
  <2>1. Pending(m)'
    BY <1>1, <1>3, <1>6 DEF Pending
  <2>2. ~ InHand(m)
    <3> SUFFICES ASSUME NEW u \in Threads, m \in WrittenOf(thr[u]) PROVE FALSE
      BY DEF InHand
    <3>1. thr[u] \in ThreadStates /\ ThreadOK(thr[u])
      BY <1>0 DEF TypeInv
    <3>2. m \in ComingOf(thr[u])
      BY <3>1, Views
    <3> QED BY <1>2, <1>6, <3>2 DEF ApartInv
  <2>3. Knows(log, m)' /\ Knows(Spliced(comp.rec, log, comp.mark), m)'
    BY <2>1 DEF Knows
  <2>4. /\ Making' = Making /\ Behind("attempt", m)' = Behind("attempt", m)
        /\ Behind("enqueue", m)' = Behind("enqueue", m) /\ InFront("attempt", m)' = InFront("attempt", m)
    BY <1>2 DEF Making, Behind, InFront
  <2>5. Making' /\ W(log') < comp'.mark => ~ Behind("attempt", m)'
    BY <1>2, <1>4, <2>4 DEF TryOf
  <2>6. Making' /\ Tracked(m)' /\ (Behind("enqueue", m)' \/ (comp'.pc # "snapshot" /\ m \notin comp'.snap))
          => ~ InFront("attempt", m)'
    BY <1>2, <1>4, <1>5, <2>4 DEF TryOf
  <2> QED BY <1>5, <2>2, <2>3, <2>5, <2>6 DEF TryOf
<1>7. CASE m # d
  <2>1. Pending(m) => Pending(m)'
    BY <1>1, <1>3, <1>7, IdleFields, PendingMoves
  <2> QED BY <1>2, <1>3, <1>4, <1>5, <1>7, <2>1, TrySame
<1> QED BY <1>6, <1>7

(* A message in some goroutine's hand that is not in memory is on its way  *)
(* in: the log has no attempts of it. *)
LEMMA InHandNew ==
  ASSUME BaseInv, ApartInv, NewInv, NEW m \in Messages, TryOf(m), InHand(m)
  PROVE  att[m] = 0 /\ NoTry(log, m) /\ m \in AllComing
<1>1. PICK t \in Threads : m \in WrittenOf(thr[t])
  BY DEF InHand
<1>2. thr[t] \in ThreadStates /\ ThreadOK(thr[t])
  BY DEF BaseInv, TypeInv
<1>3. m \in ComingOf(thr[t])
  BY <1>1, <1>2, Views
<1>4. fate[m] = "coming"
  BY <1>1 DEF ApartInv
<1>5. att[m] = 0
  BY DEF TryOf
<1>6. NoTry(log, m)
  BY <1>4, <1>5 DEF NewInv, NewFates
<1>7. m \in AllComing
  BY <1>3, AllComingIs
<1> QED BY <1>5, <1>6, <1>7

(* The mark: nothing is behind it yet. *)
LEMMA TryMarks ==
  ASSUME BaseInv, TryInv, Marks
  PROVE  TryInv'
<1>1. /\ log' = log /\ mem' = mem /\ thr' = thr /\ att' = att /\ behind' = behind
      /\ comp'.pc = "snapshot" /\ comp'.mark = Len(log)
  BY DEF Marks, NoComp, disk, memory, history
<1>2. Len(log) \in Nat
  BY LenProperties DEF BaseInv, TypeInv
<1> SUFFICES ASSUME NEW m \in Messages, m \notin behind PROVE TryOf(m)'
  BY <1>1 DEF TryInv
<1>3. TryOf(m)
  BY DEF TryInv
<1>4. Tracked(m)' = Tracked(m) /\ InHand(m)' = InHand(m) /\ Pending(m)' = Pending(m)
  BY <1>1 DEF Tracked, InHand, Pending
<1>5. Knows(log, m)' = Knows(log, m)
  BY <1>1, <1>4 DEF Knows
<1>6. ~ Behind("attempt", m)' /\ ~ Behind("enqueue", m)'
  <2>1. \A i \in (Len(log) + 1)..Len(log) : FALSE
    BY <1>2
  <2> QED BY <1>1, <2>1 DEF Behind
<1> QED BY <1>1, <1>3, <1>4, <1>5, <1>6 DEF TryOf

(* The snapshot: what it leaves out is new to the log. *)
LEMMA TrySnapshot ==
  ASSUME BaseInv, ApartInv, NewInv, TryInv, Snapshot
  PROVE  TryInv'
<1>1. /\ log' = log /\ mem' = mem /\ thr' = thr /\ att' = att /\ behind' = behind
      /\ \/ comp' = NoComp
         \/ /\ comp'.pc = "rewrite" /\ comp'.snap = mem /\ comp'.mark = comp.mark
            /\ comp'.stale = comp.stale /\ comp.pc = "snapshot"
  BY DEF Snapshot, disk, memory, history, BaseInv, TypeInv, CompStates
<1> SUFFICES ASSUME NEW m \in Messages, m \notin behind PROVE TryOf(m)'
  BY <1>1 DEF TryInv
<1>2. TryOf(m)
  BY DEF TryInv
<1>3. Tracked(m)' = Tracked(m) /\ InHand(m)' = InHand(m) /\ Pending(m)' = Pending(m)
  BY <1>1 DEF Tracked, InHand, Pending
<1>4. CASE comp' = NoComp
  <2>1. comp'.pc = "idle"
    BY <1>4 DEF NoComp
  <2> QED BY <1>1, <1>2, <1>3, <2>1, TrySame
<1>5. CASE comp' # NoComp
  <2>1. /\ Making' => Making
        /\ Behind("attempt", m)' = Behind("attempt", m)
        /\ Behind("enqueue", m)' = Behind("enqueue", m) /\ InFront("attempt", m)' = InFront("attempt", m)
    BY <1>1, <1>5 DEF Making, Behind, InFront
  <2>2. Knows(log, m)' = Knows(log, m)
    BY <1>1, <1>3 DEF Knows
  <2>3. ASSUME Making, Tracked(m), m \notin mem PROVE ~ InFront("attempt", m)
    <3>1. NoTry(log, m)
      BY <1>2, <2>3, InHandNew DEF Tracked
    <3>2. log \in Seq(Entries) /\ comp.mark \in Nat /\ comp.mark <= Len(log) /\ Len(log) \in Nat
      BY <2>3, LenProperties DEF BaseInv, TypeInv, CompInv, CompStates, Making
    <3>3. \A i \in 1..comp.mark : i \in 1..Len(log)
      BY <3>2
    <3> QED BY <3>1, <3>3 DEF InFront, NoTry
  <2>4. Making' /\ Tracked(m)' /\ (Behind("enqueue", m)' \/ (comp'.pc # "snapshot" /\ m \notin comp'.snap))
          => ~ InFront("attempt", m)'
    BY <1>1, <1>2, <1>3, <1>5, <2>1, <2>3 DEF TryOf
  <2>5. Making' /\ W(log') < comp'.mark => ~ Behind("attempt", m)'
    BY <1>1, <1>2, <1>5, <2>1 DEF TryOf
  <2>6. comp'.pc # "swap"
    BY <1>1, <1>5
  <2> QED BY <1>1, <1>2, <1>3, <2>2, <2>4, <2>5, <2>6 DEF TryOf
<1> QED BY <1>4, <1>5

(* The head of the new file: it has the attempts of now, and those the     *)
(* tail tells of are no older. *)
LEMMA TryRewrite ==
  ASSUME BaseInv, NewInv, TryInv, Rewrite
  PROVE  TryInv'
<1>0. /\ log \in Seq(Entries) /\ comp \in CompStates /\ att \in [Messages -> 0..MaxAttempts]
      /\ IsFiniteSet(comp.snap) /\ comp.snap \in SUBSET Messages
  BY DEF BaseInv, TypeInv, CompStates
<1>1. /\ log' = log /\ mem' = mem /\ thr' = thr /\ att' = att /\ behind' = behind
      /\ comp.pc = "rewrite" /\ comp'.pc = "swap" /\ comp'.snap = comp.snap /\ comp'.mark = comp.mark
      /\ comp'.stale = comp.stale /\ comp'.rec = Described(comp.snap)
  BY <1>0 DEF Rewrite, disk, memory, history, CompStates
<1>2. Tells(Described(comp.snap), comp.snap, att)
  BY <1>0, DescribedTells
<1> SUFFICES ASSUME NEW m \in Messages, m \notin behind PROVE TryOf(m)'
  BY <1>1 DEF TryInv
<1>3. TryOf(m)
  BY DEF TryInv
<1>4. /\ Tracked(m)' = Tracked(m) /\ InHand(m)' = InHand(m) /\ Pending(m)' = Pending(m)
      /\ Making' = Making /\ Behind("attempt", m)' = Behind("attempt", m)
      /\ Behind("enqueue", m)' = Behind("enqueue", m) /\ InFront("attempt", m)' = InFront("attempt", m)
  BY <1>1 DEF Tracked, InHand, Pending, Making, Behind, InFront
<1>5. Knows(log, m)' = Knows(log, m)
  BY <1>1, <1>4 DEF Knows
<1>6. ASSUME Making, m \in comp.snap, Tracked(m), ~ Pending(m)
      PROVE  AttemptsIn(Spliced(Described(comp.snap), log, comp.mark), m) = att[m]
  <2> DEFINE r == Described(comp.snap)
             q == Spliced(Described(comp.snap), log, comp.mark)
  <2>1. comp.mark \in 0..Len(log) /\ Len(log) \in Nat
    BY <1>0, <1>1, <1>6, LenProperties DEF BaseInv, CompInv, Making, CompStates
  <2>2. r \in Seq(Entries) /\ W(r) = Len(r)
    BY <1>2 DEF Tells
  <2>3. SplicedAt(q, r, log, comp.mark)
    BY <1>0, <2>1, <2>2, NewLogAt
  <2>4. att[m] = AttemptsIn(log, m)
    BY <1>3, <1>6 DEF TryOf, Knows
  <2>5. W(log) < comp.mark => \A i \in (comp.mark + 1)..Len(log) : ~ Is(log, i, "attempt", m)
    BY <1>3, <1>6 DEF TryOf, Behind
  <2>6. (\E i \in (comp.mark + 1)..Len(log) : Is(log, i, "enqueue", m))
          => \A i \in 1..comp.mark : ~ Is(log, i, "attempt", m)
    BY <1>3, <1>6 DEF TryOf, Behind, InFront
  <2>7. \A i \in 1..Len(log) : log[i].kind = "attempt" => log[i].n > 0
    BY DEF NewInv
  <2>8. Tells(r, comp.snap, att)
    BY <1>2
  <2> HIDE DEF r, q
  <2>9. AttemptsIn(q, m) = AttemptsIn(log, m)
    BY <1>0, <1>6, <2>1, <2>2, <2>3, <2>4, <2>5, <2>6, <2>7, <2>8, AttemptsInside
  <2> QED BY <2>4, <2>9 DEF q
<1>7. Making /\ m \in comp.snap /\ Tracked(m) => Knows(Spliced(comp.rec, log, comp.mark), m)'
  BY <1>1, <1>4, <1>6 DEF Knows, Spliced
<1> QED BY <1>1, <1>3, <1>4, <1>5, <1>7 DEF TryOf

(* The new file takes the place of the old one: what it tells of a message *)
(* is what the compaction had made of it. *)
LEMMA TrySwap ==
  ASSUME BaseInv, NewInv, TryInv, Swap
  PROVE  TryInv'
<1>0. /\ TypeInv /\ CompInv /\ log \in Seq(Entries) /\ comp \in CompStates /\ comp.pc = "swap"
      /\ comp.rec \in Seq(Entries)
  BY DEF Swap, BaseInv, TypeInv, CompStates
<1>1. PICK tail \in Tails :
        /\ log' = NewLog(tail)
        /\ behind' = {m \in behind : m \in AllComing \/ AttemptsIn(NewLog(tail), m) # att[m]}
                     \cup (IF comp.stale THEN Messages ELSE {})
  BY DEF Swap
<1>2. mem' = mem /\ thr' = thr /\ att' = att /\ comp'.pc = "idle"
  BY DEF Swap, memory, NoComp
<1> SUFFICES ASSUME NEW m \in Messages, m \notin behind' PROVE TryOf(m)'
  BY DEF TryInv
<1>3. /\ Tracked(m)' = Tracked(m) /\ InHand(m)' = InHand(m) /\ Pending(m)' = Pending(m)
      /\ ~ Making'
  BY <1>2 DEF Tracked, InHand, Pending, Making
<1>4. ~ comp.stale
  BY <1>1
<1> DEFINE q == Spliced(comp.rec, log, comp.mark)
<1>5. /\ W(comp.rec) = Len(comp.rec) /\ comp.mark \in 0..Len(log)
      /\ tail = SubSeq(log, comp.mark + 1, Len(log))
  BY <1>0, <1>4, SwapLog
<1>6. log' = q
  BY <1>1, <1>5 DEF NewLog, Spliced
<1>7. SplicedAt(q, comp.rec, log, comp.mark)
  BY <1>0, <1>5, NewLogAt
<1> HIDE DEF q
<1>8. CASE m \in behind
  <2>1. m \notin AllComing /\ AttemptsIn(log', m) = att[m]
    BY <1>1, <1>8
  <2>2. ~ InHand(m)
    <3> SUFFICES ASSUME NEW t \in Threads, m \in WrittenOf(thr[t]) PROVE FALSE
      BY DEF InHand
    <3>1. thr[t] \in ThreadStates /\ ThreadOK(thr[t])
      BY <1>0 DEF TypeInv
    <3> QED BY <2>1, <3>1, Views, AllComingIs
  <2> QED BY <1>2, <1>3, <2>1, <2>2 DEF TryOf, Knows
<1>9. CASE m \notin behind
  <2>1. TryOf(m) /\ Making
    BY <1>0, <1>4, <1>9 DEF TryInv, Making
  <2>2. ASSUME Tracked(m), ~ Pending(m), m \in comp.snap PROVE AttemptsIn(log', m) = att[m]
    BY <1>0, <1>6, <2>1, <2>2 DEF TryOf, Knows, q
  <2>3. ASSUME Tracked(m), ~ Pending(m), m \notin comp.snap PROVE AttemptsIn(log', m) = att[m]
    <3>1. \A i \in 1..Len(comp.rec) : comp.rec[i].id # m
      BY <1>0, <2>3 DEF CompInv, Tells
    <3>2. W(log) < comp.mark => \A i \in (comp.mark + 1)..Len(log) : ~ Is(log, i, "attempt", m)
      BY <2>1 DEF TryOf, Behind
    <3>3. \A i \in 1..comp.mark : ~ Is(log, i, "attempt", m)
      BY <1>0, <2>1, <2>3 DEF TryOf, InFront
    <3>4. \A i \in 1..Len(log) : log[i].kind = "attempt" => log[i].n > 0
      BY DEF NewInv
    <3>5. AttemptsIn(q, m) = AttemptsIn(log, m)
      <4> DEFINE r == comp.rec
                 a == comp.mark
      <4>1. /\ r \in Seq(Entries) /\ a \in 0..Len(log) /\ SplicedAt(q, r, log, a)
            /\ \A i \in 1..Len(r) : r[i].id # m
            /\ W(log) < a => \A i \in (a + 1)..Len(log) : ~ Is(log, i, "attempt", m)
            /\ \A i \in 1..a : ~ Is(log, i, "attempt", m)
        BY <1>0, <1>5, <1>7, <3>1, <3>2, <3>3
      <4>2. log \in Seq(Entries)
        BY <1>0
      <4> HIDE DEF r, a
      <4> QED BY <4>1, <4>2, <3>4, AttemptsOutside
    <3> QED BY <1>6, <2>1, <2>3, <3>5 DEF TryOf, Knows
  <2>4. Tracked(m)' => Knows(log, m)'
    BY <1>2, <1>3, <2>2, <2>3 DEF Knows
  <2> QED BY <1>2, <1>3, <2>1, <2>4 DEF TryOf
<1> QED BY <1>8, <1>9

(* The file is removed: what memory holds is written down in behind. *)
LEMMA TryRemove ==
  ASSUME BaseInv, TryInv, RemoveFile
  PROVE  TryInv'
<1>1. /\ log' = <<>> /\ behind' = behind \cup mem /\ mem' = mem /\ thr' = thr /\ att' = att
      /\ comp' = IF comp.pc = "idle" THEN comp ELSE [comp EXCEPT !.stale = TRUE]
  BY DEF RemoveFile, memory
<1>2. ~ Making'
  BY <1>1 DEF Making, BaseInv, TypeInv, CompStates
<1> SUFFICES ASSUME NEW m \in Messages, m \notin behind' PROVE TryOf(m)'
  BY DEF TryInv
<1>3. TryOf(m) /\ m \notin mem
  BY <1>1 DEF TryInv
<1>4. Tracked(m)' = Tracked(m) /\ InHand(m)' = InHand(m)
  BY <1>1 DEF Tracked, InHand
<1>5. AttemptsIn(<<>>, m) = 0
  <2>1. <<>> \in Seq(Entries) /\ Len(<<>>) = 0
    BY WholeEmpty
  <2>2. NoTry(<<>>, m)
    BY <2>1 DEF NoTry
  <2> QED BY <2>1, <2>2, NoTryNone
<1>6. Tracked(m)' => Knows(log, m)'
  <2>1. Tracked(m) => att[m] = 0
    BY <1>3 DEF TryOf, Tracked
  <2> QED BY <1>1, <1>4, <1>5, <2>1 DEF Knows
<1> QED BY <1>1, <1>2, <1>3, <1>4, <1>6 DEF TryOf

(* After a crash nothing is tracked. *)
LEMMA TryCrash ==
  ASSUME BaseInv, ProcessDies \/ PowerLost
  PROVE  TryInv'
<1>1. mem' = {} /\ comp' = NoComp /\ \A t \in Threads : thr'[t] = Idle
  BY CrashCuts DEF BaseInv, FileInv
<1>2. ~ Making' /\ \A m \in Messages : ~ Tracked(m)' /\ ~ InHand(m)'
  BY <1>1, IdleView DEF Making, NoComp, Tracked, InHand
<1> QED BY <1>2 DEF TryInv, TryOf

(* A replay takes from the log what the log knows. *)
LEMMA TryRecover ==
  ASSUME BaseInv, Recover
  PROVE  TryInv'
<1>0. log \in Seq(Entries)
  BY DEF BaseInv, TypeInv
<1>1. /\ log' = Readable(log) /\ mem' = Live(log) /\ thr' = thr /\ comp' = comp
      /\ \A m \in mem' : m \in Messages => att'[m] = AttemptsIn(log, m)
      /\ ~ up
  BY DEF Recover
<1>2. comp' = NoComp /\ \A t \in Threads : thr'[t] = Idle
  BY <1>1 DEF BaseInv, DownInv
<1>3. ~ Making' /\ \A m \in Messages : ~ InHand(m)'
  BY <1>2, IdleView DEF Making, NoComp, InHand
<1>4. ASSUME NEW m \in Messages, m \in mem' PROVE Knows(log, m)'
  BY <1>0, <1>1, <1>4, AttemptsReadable DEF Knows
<1> QED BY <1>3, <1>4 DEF TryInv, TryOf, Tracked

(* The disk is full: an attempt that is lost is written down in behind. *)
LEMMA TryShort ==
  ASSUME BaseInv, TryInv, NEW t \in Threads, WriteShort(t)
  PROVE  TryInv'
<1>0. TypeInv
  BY DEF BaseInv
<1>1. /\ thr[t].m \in Messages /\ log' = Append(log, Torn) /\ Torn \in Entries /\ Torn.kind = "torn"
      /\ Return(t, FALSE) /\ att' = att /\ comp' = comp
      /\ behind' = IF thr[t].op = "attempt" THEN behind \cup {thr[t].m} ELSE behind
  BY <1>0, WriteShortLog, TornEntry DEF WriteShort
<1> SUFFICES ASSUME NEW m \in Messages, m \notin behind' PROVE TryOf(m)'
  BY DEF TryInv
<1>2. TryOf(m)
  BY <1>1 DEF TryInv
<1>3. (InHand(m)' => InHand(m)) /\ (Tracked(m)' => Tracked(m)) /\ Others(t)
  BY <1>1, TryReturn
<1>4. Pending(m) => Pending(m)'
  BY <1>1, <1>3, PendingMoves
<1> QED BY <1>1, <1>2, <1>3, <1>4, TryGrows

(* An append that is over, whatever its outcome. *)
LEMMA TryEnds ==
  ASSUME BaseInv, TryInv, NEW t \in Threads, EndFlush(t) \/ Wake(t) \/ ReturnDropped(t)
  PROVE  TryInv'
<1>0. TypeInv /\ WaitInv /\ thr[t] \in ThreadStates /\ ThreadOK(thr[t])
  BY DEF BaseInv, TypeInv, FlushInv
<1>1. PICK ok \in BOOLEAN : Return(t, ok) /\ (ok => thr[t].pc \in {"sync", "flush", "cut"})
  BY <1>0, EndView
<1>2. /\ thr[t].m \in Messages /\ log' = log /\ att' = att /\ comp' = comp
      /\ thr[t].pc \in {"sync", "flush", "cut", "failed"}
  BY <1>0, EndView
<1>3. behind \subseteq behind' /\ (thr[t].op = "attempt" => thr[t].m \in behind')
  <2>1. thr[t].pc \in {"sync", "flush", "cut"} => thr[t].op # "attempt"
    BY <1>0 DEF ThreadOK, Bringing
  <2> QED BY <1>2, <2>1 DEF EndFlush, Wake, ReturnDropped, history
<1> SUFFICES ASSUME NEW m \in Messages, m \notin behind' PROVE TryOf(m)'
  BY DEF TryInv
<1>4. TryOf(m)
  BY <1>3 DEF TryInv
<1>5. ok /\ thr[t].op \in Bringing => thr[t].m \in WrittenOf(thr[t])
  BY <1>0, <1>1, Views
<1>6. (InHand(m)' => InHand(m)) /\ (Tracked(m)' => Tracked(m)) /\ Others(t)
  BY <1>1, <1>2, <1>5, TryReturn
<1>7. Pending(m) => Pending(m)'
  BY <1>2, <1>3, <1>6, PendingMoves
<1> QED BY <1>2, <1>4, <1>6, <1>7, TrySame

(* Every step keeps what the log knows of the attempts. *)
LEMMA NextTry ==
  BaseInv /\ BaseInv' /\ ApartInv /\ CountInv /\ CountInv' /\ NewInv /\ TryInv /\ [Next]_vars => TryInv'
<1> SUFFICES ASSUME BaseInv, BaseInv', ApartInv, CountInv, CountInv', NewInv, TryInv, [Next]_vars
             PROVE  TryInv'
  OBVIOUS
<1>0. TypeInv /\ WaitInv
  BY DEF BaseInv, FlushInv
<1>1. ASSUME NEW t \in Threads, NEW m \in Messages, BeginEnqueue(t, m) \/ Ack(t, m)
      PROVE  TryInv'
  <2>1. Others(t) /\ thr[t] = Idle /\ WrittenOf(thr'[t]) = {}
    BY <1>0, <1>1, BeginView
  <2>2. log' = log /\ att' = att /\ comp' = comp /\ behind' = behind /\ mem' \subseteq mem
    BY <1>1 DEF BeginEnqueue, Ack, disk, history
  <2>3. thr[t].op # "attempt"
    BY <2>1, IdleFields
  <2> QED BY <2>1, <2>2, <2>3, TryMoves
<1>2. ASSUME NEW t \in Threads, NEW ms \in SUBSET Messages, BeginAbsorb(t, ms)
      PROVE  TryInv'
  <2>1. Others(t) /\ thr[t] = Idle /\ WrittenOf(thr'[t]) = {}
    BY <1>0, <1>2, BeginView
  <2>2. log' = log /\ att' = att /\ comp' = comp /\ behind' = behind /\ mem' \subseteq mem
    BY <1>2 DEF BeginAbsorb, disk, memory, history
  <2>3. thr[t].op # "attempt"
    BY <2>1, IdleFields
  <2> QED BY <2>1, <2>2, <2>3, TryMoves
<1>3. ASSUME NEW t \in Threads, Open(t) \/ BeginFlush(t)
      PROVE  TryInv'
  <2>1. /\ Others(t) /\ Elsewhere(thr[t], thr'[t])
        /\ \/ thr[t].pc = "open" /\ thr'[t].pc = "write"
           \/ thr[t].pc = "sync" /\ thr'[t].pc = "flush"
    BY <1>0, <1>3, GoView
  <2>2. WrittenOf(thr'[t]) \subseteq WrittenOf(thr[t])
    BY <2>1, ElsewhereView DEF WrittenOf
  <2>3. log' = log /\ att' = att /\ comp' = comp /\ behind' = behind /\ mem' = mem
    BY <1>3 DEF Open, BeginFlush, disk, memory, history
  <2> QED BY <2>1, <2>2, <2>3, TryMoves
<1>4. ASSUME NEW t \in Threads, Publish(t)
      PROVE  TryInv'
  <2>1. Others(t) /\ thr[t].pc = "publish" /\ thr'[t] = Idle
    BY <1>0, <1>4, GoView
  <2>2. thr[t].op = "absorb" /\ thr[t].got \subseteq WrittenOf(thr[t])
    BY <1>0, <2>1 DEF TypeInv, ThreadOK, WrittenOf
  <2>3. log' = log /\ att' = att /\ comp' = comp /\ behind' = behind /\ mem' = mem \cup thr[t].got
    BY <1>4 DEF Publish, disk
  <2> QED BY <2>1, <2>2, <2>3, IdleView, TryMoves
<1>5. CASE SyncAll \/ CompactFails \/ DropSlot \/ UNCHANGED vars
  <2>1. /\ log' = log /\ att' = att /\ behind' = behind /\ mem' \subseteq mem /\ thr' = thr
        /\ comp' = comp \/ comp'.pc = "idle"
    BY <1>5 DEF SyncAll, CompactFails, DropSlot, vars, disk, memory, history, NoComp
  <2> SUFFICES ASSUME NEW m \in Messages, m \notin behind PROVE TryOf(m)'
    BY <2>1 DEF TryInv
  <2>2. TryOf(m)
    BY DEF TryInv
  <2>3. (InHand(m)' => InHand(m)) /\ (Tracked(m)' => Tracked(m)) /\ (Pending(m) => Pending(m)')
    BY <2>1 DEF InHand, Tracked, Pending
  <2> QED BY <2>1, <2>2, <2>3, TrySame
<1>6. CASE CloseFile
  <2>1. /\ \A u \in Threads : /\ Elsewhere(thr[u], thr'[u])
                              /\ WrittenOf(thr'[u]) \subseteq WrittenOf(thr[u])
        /\ UNCHANGED <<log, mem, att, comp, behind>>
    BY <1>0, <1>6, CloseView
  <2> SUFFICES ASSUME NEW m \in Messages, m \notin behind PROVE TryOf(m)'
    BY <2>1 DEF TryInv
  <2>2. TryOf(m)
    BY DEF TryInv
  <2>3. (InHand(m)' => InHand(m)) /\ (Tracked(m)' => Tracked(m)) /\ (Pending(m) => Pending(m)')
    BY <2>1 DEF InHand, Tracked, Pending, Elsewhere
  <2> QED BY <2>1, <2>2, <2>3, TrySame
<1>7. ASSUME NEW t \in Threads, Write(t) PROVE TryInv'
  BY <1>7, TryWrite
<1>8. ASSUME NEW t \in Threads, WriteShort(t) PROVE TryInv'
  BY <1>8, TryShort
<1>9. ASSUME NEW t \in Threads, EndFlush(t) \/ Wake(t) \/ ReturnDropped(t) PROVE TryInv'
  BY <1>9, TryEnds
<1>10. ASSUME NEW t \in Threads, NEW m \in Messages, Deliver(t, m) PROVE TryInv'
  BY <1>10, TryDeliver
<1> QED BY <1>1, <1>2, <1>3, <1>4, <1>5, <1>6, <1>7, <1>8, <1>9, <1>10, TryMarks, TrySnapshot, TryRewrite,
           TrySwap, TryRemove, TryCrash, TryRecover DEF Next, Step

(* What the run checks as AttemptsKept: whatever compactions, drops and    *)
(* restarts there have been, the log knows how often a message in memory   *)
(* was delivered, once its last delivery has been journalled - the         *)
(* messages that behind names excepted. *)
THEOREM TriesAreKept == Spec => []AttemptsKept
<1> DEFINE I == BaseInv /\ ApartInv /\ CountInv /\ NewInv /\ TryInv
<1>1. Init => I
  BY InitBase, InitApart, InitCount, InitNew, InitTry
<1>2. I /\ [Next]_vars => I'
  <2> SUFFICES ASSUME I, [Next]_vars PROVE I'
    OBVIOUS
  <2>1. BaseInv' /\ CountInv'
    BY NextBase, NextCount
  <2> QED BY <2>1, NextApart, NextNew, NextTry
<1>3. I => AttemptsKept
  <2> SUFFICES ASSUME I, NEW m \in mem \ behind, \A t \in Threads : thr[t].m # m
               PROVE  AttemptsIn(log, m) = att[m]
    BY DEF AttemptsKept
  <2>1. m \in Messages
    BY DEF BaseInv, TypeInv
  <2>2. TryOf(m) /\ Tracked(m) /\ ~ Pending(m)
    BY <2>1 DEF TryInv, Tracked, Pending
  <2> QED BY <2>2 DEF TryOf, Knows
<1> QED BY <1>1, <1>2, <1>3, PTL DEF Spec

=============================================================================
