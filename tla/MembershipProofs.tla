-------------------------- MODULE MembershipProofs --------------------------
(***************************************************************************)
(* Theorems about Membership for any nodes, gateways, addresses and keys,  *)
(* any weights, and any number of starts, stops and faults.                *)
(***************************************************************************)
EXTENDS Membership, FiniteSetTheorems, SequenceTheorems, WellFoundedInduction, TLAPS

(* A non-empty set of naturals has a least element, and a bounded one has  *)
(* a greatest.                                                             *)
LEMMA NatMin ==
  ASSUME NEW S \in SUBSET Nat, S # {}
  PROVE  \E x \in S : \A y \in S : x <= y
<1> DEFINE Less == {ss \in Nat \X Nat : ss[1] < ss[2]}
<1>1. IsWellFoundedOn(Less, Nat)
  BY NatLessThanWellFounded DEF OpToRel
<1>2. PICK x \in S : \A y \in S : ~ (<<y, x>> \in Less)
  <2> HIDE DEF Less
  <2> QED BY <1>1, WFMin
<1>3. \A y \in S : y < x => <<y, x>> \in Less
  OBVIOUS
<1>4. \A y \in S : ~ (y < x)
  <2> HIDE DEF Less
  <2> QED BY <1>2, <1>3
<1> QED BY <1>4

LEMMA NatMax ==
  ASSUME NEW S \in SUBSET Nat, S # {}, NEW top \in Nat, \A x \in S : x <= top
  PROVE  \E x \in S : \A y \in S : y <= x
<1> DEFINE R == {top - x : x \in S}
<1>1. R \in SUBSET Nat /\ R # {}
  <2>1. \A x \in S : top - x \in Nat
    OBVIOUS
  <2>2. PICK x : x \in S
    OBVIOUS
  <2>3. top - x \in R
    BY <2>2
  <2> QED BY <2>1, <2>3
<1>2. PICK r \in R : \A q \in R : r <= q
  <2> HIDE DEF R
  <2> QED BY <1>1, NatMin
<1>3. PICK x \in S : r = top - x
  BY <1>2
<1>4. ASSUME NEW y \in S PROVE y <= x
  <2>1. top - y \in R
    OBVIOUS
  <2>2. top - x <= top - y
    BY <1>2, <1>3, <2>1
  <2> QED BY <2>2
<1> QED BY <1>4

-----------------------------------------------------------------------------
(* The history of the members' keys *)

(* i is the place of the last change of n.                                 *)
IsLatest(h, n, i) ==
  /\ i \in 0..Len(h)
  /\ i # 0 => h[i].node = n
  /\ \A j \in 1..Len(h) : h[j].node = n => j <= i

LEMMA LatestIs ==
  ASSUME NEW S, NEW h \in Seq(S), NEW n
  PROVE  IsLatest(h, n, Latest(h, n))
<1> DEFINE M == {0} \cup {i \in DOMAIN h : h[i].node = n}
<1>1. Len(h) \in Nat /\ DOMAIN h = 1..Len(h)
  OBVIOUS
<1>2. M \in SUBSET Nat /\ M # {} /\ \A i \in M : i <= Len(h)
  BY <1>1
<1>3. \E i \in M : \A j \in M : j <= i
  <2> HIDE DEF M
  <2> QED BY <1>1, <1>2, NatMax
<1>4. Latest(h, n) \in M /\ \A j \in M : j <= Latest(h, n)
  BY <1>3 DEF Latest
<1> QED BY <1>1, <1>4 DEF IsLatest

LEMMA OneLatest ==
  ASSUME NEW S, NEW h \in Seq(S), NEW n, NEW i, IsLatest(h, n, i)
  PROVE  Latest(h, n) = i
<1>1. IsLatest(h, n, Latest(h, n)) /\ Len(h) \in Nat
  BY LatestIs
<1>2. PICK l \in 0..Len(h), k \in 0..Len(h) : l = Latest(h, n) /\ k = i
  BY <1>1 DEF IsLatest
<1>3. /\ l # 0 => h[l].node = n
      /\ k # 0 => h[k].node = n
      /\ \A j \in 1..Len(h) : h[j].node = n => j <= l /\ j <= k
  BY <1>1, <1>2 DEF IsLatest
<1>4. l <= k
  BY <1>1, <1>3
<1>5. k <= l
  BY <1>1, <1>3
<1> QED BY <1>1, <1>2, <1>4, <1>5

(* A change of m is the last one of m, and nobody else's.                  *)
LEMMA LatestAppend ==
  ASSUME NEW S, NEW h \in Seq(S), NEW c \in S, NEW n
  PROVE  Latest(Append(h, c), n) = IF c.node = n THEN Len(h) + 1 ELSE Latest(h, n)
<1> DEFINE a == Append(h, c)
<1>1. /\ Len(h) \in Nat /\ a \in Seq(S) /\ Len(a) = Len(h) + 1 /\ a[Len(h) + 1] = c
      /\ \A j \in 1..Len(h) : a[j] = h[j]
  OBVIOUS
<1> HIDE DEF a
<1>2. IsLatest(h, n, Latest(h, n))
  BY LatestIs
<1>3. CASE c.node = n
  <2>1. IsLatest(a, n, Len(h) + 1)
    BY <1>1, <1>3 DEF IsLatest
  <2> QED BY <1>1, <1>3, <2>1, OneLatest DEF a
<1>4. CASE c.node # n
  <2>1. PICK l \in 0..Len(h) : l = Latest(h, n)
    BY <1>2 DEF IsLatest
  <2>2. /\ l # 0 => a[l].node = n
        /\ \A j \in 1..Len(h) : a[j].node = n => j <= l
    BY <1>1, <1>2, <2>1 DEF IsLatest
  <2>3. \A j \in 1..Len(a) : a[j].node = n => j <= l
    BY <1>1, <1>4, <2>2
  <2>4. IsLatest(a, n, l)
    BY <1>1, <2>2, <2>3 DEF IsLatest
  <2> QED BY <1>1, <1>4, <2>1, <2>4, OneLatest DEF a
<1> QED BY <1>3, <1>4

LEMMA Part ==
  ASSUME NEW S, NEW h \in Seq(S), NEW s \in Nat, NEW k \in s..Len(h)
  PROVE  /\ SubSeq(h, s + 1, k) \in Seq(S) /\ Len(SubSeq(h, s + 1, k)) = k - s
         /\ \A i \in 1..(k - s) : SubSeq(h, s + 1, k)[i] = h[s + i]
<1> DEFINE m == SubSeq(h, s + 1, k)
<1>1. m = [i \in 1..(k - s) |-> h[i + s]]
  OBVIOUS
<1>2. k - s \in Nat /\ Len(h) \in Nat
  OBVIOUS
<1>3. \A i \in 1..(k - s) : h[i + s] \in S
  <2>1. \A i \in 1..(k - s) : i + s \in 1..Len(h)
    BY <1>2
  <2> QED BY <2>1
<1>4. m \in Seq(S) /\ Len(m) = k - s
  BY <1>1, <1>2, <1>3
<1> QED BY <1>1, <1>2, <1>4

LEMMA Beginning ==
  ASSUME NEW S, NEW h \in Seq(S), NEW k \in 0..Len(h)
  PROVE  /\ SubSeq(h, 1, k) \in Seq(S) /\ Len(SubSeq(h, 1, k)) = k
         /\ \A i \in 1..k : SubSeq(h, 1, k)[i] = h[i]
         /\ k = Len(h) => SubSeq(h, 1, k) = h
         /\ \A c \in S : SubSeq(Append(h, c), 1, k) = SubSeq(h, 1, k)
<1> DEFINE m == SubSeq(h, 1, k)
<1>1. m = [i \in 1..k |-> h[i]] /\ Len(h) \in Nat /\ k \in Nat
  OBVIOUS
<1>2. \A i \in 1..k : i \in 1..Len(h)
  BY <1>1
<1>3. \A i \in 1..k : h[i] \in S
  BY <1>2
<1>4. m \in Seq(S) /\ Len(m) = k /\ \A i \in 1..k : m[i] = h[i]
  BY <1>1, <1>3
<1>5. k = Len(h) => m = h
  BY <1>1
<1>6. ASSUME NEW c \in S PROVE SubSeq(Append(h, c), 1, k) = m
  <2>1. SubSeq(Append(h, c), 1, k) = [i \in 1..k |-> Append(h, c)[i]]
    OBVIOUS
  <2>2. \A i \in 1..k : Append(h, c)[i] = h[i]
    BY <1>2
  <2> QED BY <1>1, <2>1, <2>2
<1> QED BY <1>4, <1>5, <1>6

(* The changes up to k are those up to s and then the others.              *)
LEMMA AfterBoth ==
  ASSUME NEW h \in Seq(Changes), NEW s \in 0..Len(h), NEW k \in s..Len(h), NEW from
  PROVE  After(After(from, SubSeq(h, 1, s)), SubSeq(h, s + 1, k)) = After(from, SubSeq(h, 1, k))
<1> DEFINE A == SubSeq(h, 1, s)
           B == SubSeq(h, s + 1, k)
           C == SubSeq(h, 1, k)
<1>1. Len(h) \in Nat /\ s \in Nat /\ k \in Nat /\ s <= k /\ k <= Len(h) /\ k \in 0..Len(h)
  OBVIOUS
<1>2. /\ A \in Seq(Changes) /\ Len(A) = s /\ \A i \in 1..s : A[i] = h[i]
      /\ C \in Seq(Changes) /\ Len(C) = k /\ \A i \in 1..k : C[i] = h[i]
  BY <1>1, Beginning
<1>3. B \in Seq(Changes) /\ Len(B) = k - s /\ \A i \in 1..(k - s) : B[i] = h[s + i]
  BY <1>1, Part
<1> HIDE DEF A, B, C
<1>4. ASSUME NEW n \in Nodes
      PROVE  \/ Latest(B, n) # 0 /\ Latest(C, n) # 0 /\ C[Latest(C, n)] = B[Latest(B, n)]
             \/ Latest(B, n) = 0 /\ Latest(A, n) # 0 /\ Latest(C, n) # 0
                /\ C[Latest(C, n)] = A[Latest(A, n)]
             \/ Latest(B, n) = 0 /\ Latest(A, n) = 0 /\ Latest(C, n) = 0
  <2>1. IsLatest(A, n, Latest(A, n)) /\ IsLatest(B, n, Latest(B, n))
    BY <1>2, <1>3, LatestIs
  <2>2. PICK a \in 0..s, b \in 0..(k - s) : a = Latest(A, n) /\ b = Latest(B, n)
    BY <1>2, <1>3, <2>1 DEF IsLatest
  <2>3. /\ a # 0 => h[a].node = n
        /\ \A j \in 1..s : h[j].node = n => j <= a
    BY <1>1, <1>2, <2>1, <2>2 DEF IsLatest
  <2>4. /\ b # 0 => h[s + b].node = n
        /\ \A j \in 1..(k - s) : h[s + j].node = n => j <= b
    BY <1>1, <1>3, <2>1, <2>2 DEF IsLatest
  <2>5. CASE b # 0
    <3>1. ASSUME NEW j \in 1..k, h[j].node = n PROVE j <= s + b
      <4>1. CASE j <= s
        BY <1>1, <4>1
      <4>2. CASE j > s
        <5>1. j - s \in 1..(k - s) /\ s + (j - s) = j
          BY <1>1, <4>2
        <5>2. PICK i \in 1..(k - s) : s + i = j
          BY <5>1
        <5>3. i <= b
          BY <2>4, <3>1, <5>2
        <5> QED BY <1>1, <5>2, <5>3
      <4> QED BY <1>1, <4>1, <4>2
    <3>2. s + b \in 1..k
      BY <1>1, <2>5
    <3>3. IsLatest(C, n, s + b)
      BY <1>1, <1>2, <2>4, <2>5, <3>1, <3>2 DEF IsLatest
    <3>4. Latest(C, n) = s + b /\ s + b # 0
      BY <1>1, <1>2, <2>5, <3>3, OneLatest
    <3> QED BY SMTT(30), <1>1, <1>2, <1>3, <2>2, <2>5, <3>2, <3>4
  <2>6. CASE b = 0
    <3>1. ASSUME NEW j \in 1..k, h[j].node = n PROVE j <= a
      <4>1. CASE j <= s
        BY <1>1, <2>3, <3>1, <4>1
      <4>2. CASE j > s
        <5>1. j - s \in 1..(k - s) /\ s + (j - s) = j
          BY <1>1, <4>2
        <5>2. PICK i \in 1..(k - s) : s + i = j
          BY <5>1
        <5>3. i <= b
          BY <2>4, <3>1, <5>2
        <5> QED BY <2>6, <5>2, <5>3
      <4> QED BY <1>1, <4>1, <4>2
    <3>2. IsLatest(C, n, a)
      BY <1>1, <1>2, <2>3, <3>1 DEF IsLatest
    <3>3. Latest(C, n) = a
      BY <1>2, <3>2, OneLatest
    <3> QED BY <1>1, <1>2, <2>2, <2>6, <3>3
  <2> QED BY <2>5, <2>6
<1>5. ASSUME NEW n \in Nodes
      PROVE  After(After(from, A), B)[n] = After(from, C)[n]
  BY <1>4 DEF After
<1>6. After(After(from, A), B) = After(from, C)
  BY <1>5 DEF After
<1> QED BY <1>6 DEF A, B, C

LEMMA AfterType ==
  ASSUME NEW h \in Seq(Changes), NEW from \in [Nodes -> Addrs \cup {None}]
  PROVE  After(from, h) \in [Nodes -> Addrs \cup {None}]
<1>1. ASSUME NEW n \in Nodes, Latest(h, n) # 0 PROVE h[Latest(h, n)].addr \in Addrs \cup {None}
  <2>1. IsLatest(h, n, Latest(h, n))
    BY LatestIs
  <2>2. Latest(h, n) \in 1..Len(h)
    BY <1>1, <2>1 DEF IsLatest
  <2>3. h[Latest(h, n)] \in Changes
    BY <2>2
  <2> QED BY <2>3 DEF Changes
<1> QED BY <1>1 DEF After

-----------------------------------------------------------------------------
(* Where a queue belongs *)

(* Among any members there is one that scores highest, because a score is  *)
(* a word of bounded width.                                                *)
LEMMA Highest ==
  ASSUME NEW k \in Keys \cup Queues, NEW M \in SUBSET Nodes, M # {}
  PROVE  \E m \in M : \A x \in M : Score[k][x] <= Score[k][m]
<1> DEFINE R == {Score[k][x] : x \in M}
<1>1. /\ Score[k] \in [Nodes -> 0..MaxScore] /\ MaxScore \in Nat
  BY PlacementAssumption
<1>2. R \in SUBSET Nat /\ R # {} /\ \A r \in R : r <= MaxScore
  BY <1>1
<1>3. PICK r \in R : \A q \in R : q <= r
  <2> HIDE DEF R
  <2> QED BY <1>1, <1>2, NatMax
<1>4. PICK m \in M : r = Score[k][m]
  OBVIOUS
<1>5. \A x \in M : Score[k][x] \in R
  OBVIOUS
<1> QED BY <1>3, <1>4, <1>5

LEMMA OwnerThere ==
  ASSUME NEW k \in Keys \cup Queues, NEW M \in SUBSET Nodes, M # {}
  PROVE  OwnerFor(k, M) \in M
BY Highest DEF OwnerFor

(* A queue may always go somewhere.                                        *)
LEMMA CandidatesThere ==
  ASSUME NEW q \in Queues, NEW M \in SUBSET Nodes, M # {}, NEW width \in Nat
  PROVE  CandidatesFor(q, M, width) \in SUBSET M /\ CandidatesFor(q, M, width) # {}
<1>1. CASE width = 0 \/ width >= Cardinality(M)
  BY <1>1 DEF CandidatesFor
<1>2. CASE ~ (width = 0 \/ width >= Cardinality(M))
  <2>1. PICK m \in M : \A x \in M : Score[q][x] <= Score[q][m]
    BY Highest
  <2>2. \A x \in M : Score[q][x] \in Nat
    BY PlacementAssumption
  <2>3. {x \in M : Score[q][x] > Score[q][m]} = {}
    BY <2>1, <2>2
  <2>4. Cardinality({x \in M : Score[q][x] > Score[q][m]}) < width
    BY <1>2, <2>3, FS_EmptySet
  <2>5. CandidatesFor(q, M, width) = {y \in M : Cardinality({x \in M : Score[q][x] > Score[q][y]}) < width}
    BY <1>2 DEF CandidatesFor
  <2> QED BY <2>4, <2>5
<1> QED BY <1>1, <1>2

LEMMA WantedThere ==
  ASSUME NEW k \in Keys, NEW M \in SUBSET Nodes, M # {}
  PROVE  Wanted(k, M) \in M
<1>1. QueueOf[k] \in Queues /\ Width[k] \in Nat
  BY PlacementAssumption
<1>2. PICK C \in SUBSET M : C = CandidatesFor(QueueOf[k], M, Width[k]) /\ C # {}
  BY <1>1, CandidatesThere
<1>3. OwnerFor(k, C) \in C
  BY <1>2, OwnerThere
<1> QED BY <1>2, <1>3 DEF Wanted

-----------------------------------------------------------------------------
(* The invariant *)

(* The registry: the leases are numbered in the order they were granted.   *)
EtcdType ==
  /\ history \in Seq(Changes) /\ compacted \in 0..Len(history)
  /\ granted \in Nat /\ leases \subseteq 1..granted

ProcType ==
  /\ proc \in [Nodes -> Proc]
  /\ \A n \in Nodes : proc[n].lease <= granted /\ (proc[n].pc = "down" => proc[n] = Down)

ViewType ==
  /\ members \in [Gateways -> [Nodes -> Addrs \cup {None}]]
  /\ seen \in [Gateways -> Nat] /\ \A g \in Gateways : seen[g] <= Len(history)
  /\ watching \subseteq Gateways

StreamType ==
  /\ open \in [Gateways -> [Nodes -> Addrs \cup {None}]]
  /\ live \subseteq Gateways \X Nodes
  /\ \A g \in Gateways, n \in Nodes : <<g, n>> \in live => Answers(n, open[g][n])

PassType ==
  /\ signal \subseteq Gateways \X Listeners
  /\ settle \in [Gateways -> 0..Settle]
  /\ placed \in [Keys -> Nodes \cup {None}]

BoundType == starts \in 0..MaxStarts /\ faults \in 0..MaxFaults

TypeInv == EtcdType /\ ProcType /\ ViewType /\ StreamType /\ PassType /\ BoundType

(* The key of a node whose lease is kept is the one it wrote: under its    *)
(* lease, with its address.                                                *)
HoldsKey ==
  \A n \in Nodes : proc[n].pc = "kept" /\ proc[n].lease \in leases =>
    Key(n).addr = proc[n].addr /\ Key(n).lease = proc[n].lease

IInv == TypeInv /\ HoldsKey /\ ListWasTrue

(* What becomes of the keys when a change is added to the history.         *)
LEMMA KeyAppend ==
  ASSUME history \in Seq(Changes), NEW c \in Changes, history' = Append(history, c), NEW n \in Nodes
  PROVE  Key(n)' = IF c.node = n THEN c ELSE Key(n)
<1>1. Latest(Append(history, c), n) = IF c.node = n THEN Len(history) + 1 ELSE Latest(history, n)
  BY LatestAppend
<1>2. /\ Len(history) \in Nat /\ Append(history, c)[Len(history) + 1] = c
      /\ \A j \in 1..Len(history) : Append(history, c)[j] = history[j]
  OBVIOUS
<1>3. Latest(history, n) \in 0..Len(history)
  BY LatestIs DEF IsLatest
<1>4. CASE c.node = n
  BY <1>1, <1>2, <1>4 DEF Key
<1>5. CASE c.node # n
  <2>1. Latest(history', n) = Latest(history, n)
    BY <1>1, <1>5
  <2>2. Latest(history, n) # 0 => history'[Latest(history, n)] = history[Latest(history, n)]
    BY <1>2, <1>3
  <2> QED BY <1>5, <2>1, <2>2 DEF Key
<1> QED BY <1>4, <1>5

LEMMA KeySame == history' = history => \A n : Key(n)' = Key(n)
BY DEF Key

(* What a gateway has seen stays where it is in the history.               *)
LEMMA ListKept ==
  ASSUME TypeInv, ListWasTrue, UNCHANGED <<members, seen>>,
         \/ history' = history
         \/ \E c \in Changes : history' = Append(history, c)
  PROVE  ListWasTrue' /\ \A g \in Gateways : seen'[g] <= Len(history')
<1>1. ASSUME NEW g \in Gateways
      PROVE  /\ SubSeq(history', 1, seen[g]) = SubSeq(history, 1, seen[g])
             /\ seen[g] <= Len(history')
  <2>1. history \in Seq(Changes) /\ seen[g] \in 0..Len(history) /\ Len(history) \in Nat
    BY DEF TypeInv, EtcdType, ViewType
  <2>2. CASE history' = history
    BY <2>1, <2>2
  <2>3. ASSUME NEW c \in Changes, history' = Append(history, c)
        PROVE  /\ SubSeq(history', 1, seen[g]) = SubSeq(history, 1, seen[g])
               /\ seen[g] <= Len(history')
    BY <2>1, <2>3, Beginning
  <2> QED BY <2>2, <2>3
<1> QED BY <1>1 DEF ListWasTrue

LEMMA Starting == Init => IInv
<1> SUFFICES ASSUME Init PROVE IInv
  OBVIOUS
<1> USE DEF Init
<1>1. EtcdType /\ PassType /\ BoundType
  BY MembershipAssumption DEF EtcdType, PassType, BoundType
<1>2. ProcType
  BY DEF ProcType, Proc, Down
<1>3. Nobody \in [Nodes -> Addrs \cup {None}]
  BY DEF Nobody
<1>4. ViewType /\ StreamType
  BY <1>3 DEF ViewType, StreamType
<1>5. HoldsKey
  BY DEF HoldsKey, Down
<1>6. ListWasTrue
  <2>1. \A n \in Nodes : Latest(<<>>, n) = 0
    <3>0. <<>> \in Seq(Changes) /\ Len(<<>>) = 0
      OBVIOUS
    <3>1. PICK h \in Seq(Changes) : h = <<>> /\ Len(h) = 0
      BY <3>0
    <3>2. \A n \in Nodes : IsLatest(h, n, 0)
      BY <3>1 DEF IsLatest
    <3>3. \A n \in Nodes : Latest(h, n) = 0
      BY <3>2, OneLatest
    <3> QED BY <3>1, <3>3
  <2>2. SubSeq(<<>>, 1, 0) = <<>>
    OBVIOUS
  <2>3. After(Nobody, <<>>) = Nobody
    BY <2>1 DEF After, Nobody
  <2> QED BY <2>2, <2>3 DEF ListWasTrue
<1> QED BY <1>1, <1>2, <1>4, <1>5, <1>6 DEF IInv, TypeInv

-----------------------------------------------------------------------------
(* The node's steps *)

(* A process that is put where it has not answered before; nobody's stream *)
(* is to it.                                                               *)
LEMMA StreamsStay ==
  ASSUME TypeInv, NEW n \in Nodes, NEW r \in Proc, proc' = [proc EXCEPT ![n] = r],
         open' = open, live' = live,
         proc[n].known => r.known /\ r.addr = proc[n].addr
  PROVE  StreamType'
<1>1. \A m \in Nodes : \A a : Answers(m, a) => Answers(m, a)'
  BY DEF Answers, TypeInv, ProcType
<1>2. ASSUME NEW g \in Gateways, NEW m \in Nodes, <<g, m>> \in live PROVE Answers(m, open[g][m])'
  <2>1. Answers(m, open[g][m])
    BY <1>2 DEF TypeInv, StreamType
  <2>2. proc[m].known /\ proc[m].addr = open[g][m]
    BY <2>1 DEF Answers
  <2>3. proc'[m].known /\ proc'[m].addr = open[g][m]
    BY <2>2 DEF TypeInv, ProcType
  <2> QED BY <2>3 DEF Answers
<1>3. \A g \in Gateways, m \in Nodes : <<g, m>> \in live' => Answers(m, open[g][m])'
  BY <1>2
<1> QED BY <1>3 DEF StreamType, TypeInv

LEMMA StartKeeps ==
  ASSUME IInv, NEW n \in Nodes, NEW a \in Listens[n], Start(n, a)
  PROVE  IInv'
<1>1. PICK r \in Proc : r = [Down EXCEPT !.pc = "publish", !.addr = a]
  BY MembershipAssumption DEF Down, Proc
<1>2. r.pc = "publish" /\ r.lease = 0
  BY <1>1 DEF Down, Proc
<1>3. /\ proc[n] = Down /\ proc' = [proc EXCEPT ![n] = r] /\ proc \in [Nodes -> Proc]
      /\ starts' = starts + 1 /\ starts < MaxStarts
      /\ UNCHANGED <<history, compacted, leases, granted, members, seen, watching, signal, open,
                     live, settle, placed, faults>>
  BY <1>1 DEF Start, IInv, TypeInv, ProcType, etcd, view, stream
<1>4. EtcdType' /\ ViewType' /\ PassType' /\ BoundType'
  BY <1>3, MembershipAssumption DEF IInv, TypeInv, EtcdType, ViewType, PassType, BoundType
<1>5. ProcType'
  BY <1>2, <1>3 DEF IInv, TypeInv, EtcdType, ProcType
<1>6. StreamType'
  <2>1. ~ proc[n].known
    BY <1>3 DEF Down
  <2> QED BY <1>3, <2>1, StreamsStay DEF IInv
<1>7. HoldsKey'
  <2>1. \A m : Key(m)' = Key(m)
    BY <1>3, KeySame
  <2> QED BY <1>2, <1>3, <2>1 DEF HoldsKey, IInv
<1>8. ListWasTrue'
  BY <1>3, ListKept DEF IInv
<1> QED BY <1>4, <1>5, <1>6, <1>7, <1>8 DEF IInv, TypeInv

(* publish: the key of n, under a new lease.                               *)
Put(n) ==
  /\ granted' = granted + 1
  /\ leases' = leases \cup {granted'}
  /\ history' = Append(history, [node |-> n, addr |-> proc[n].addr, lease |-> granted'])

(* A key is written, or not, and n goes on in one way or another.          *)
LEMMA PutKeeps ==
  ASSUME IInv, NEW n \in Nodes, Put(n), NEW r \in Proc, proc' = [proc EXCEPT ![n] = r],
         r.pc # "kept" \/ r.lease = granted', r.lease <= granted', r.pc = "down" => r = Down,
         r.pc = "kept" => r.addr = proc[n].addr,
         compacted' = compacted
  PROVE  /\ EtcdType' /\ ProcType' /\ HoldsKey'
         /\ \E c \in Changes : history' = Append(history, c)
<1>1. PICK c \in Changes : c = [node |-> n, addr |-> proc[n].addr, lease |-> granted + 1]
  <2>1. PICK p \in Proc : p = proc[n]
    BY DEF IInv, TypeInv, ProcType
  <2>2. p.addr \in Addrs \cup {None} /\ granted + 1 \in Nat
    BY DEF Proc, IInv, TypeInv, EtcdType
  <2> QED BY <2>1, <2>2 DEF Changes
<1>2. c.node = n /\ c.addr = proc[n].addr /\ c.lease = granted + 1
  BY <1>1
<1>3. /\ granted' = granted + 1 /\ leases' = leases \cup {granted + 1} /\ granted \in Nat
      /\ history' = Append(history, c) /\ history \in Seq(Changes) /\ proc \in [Nodes -> Proc]
      /\ leases \subseteq 1..granted
  BY <1>1 DEF Put, IInv, TypeInv, EtcdType, ProcType
<1>4. EtcdType'
  BY <1>3 DEF IInv, TypeInv, EtcdType
<1>5. ProcType'
  <2>1. \A m \in Nodes : proc[m].lease \in Nat /\ proc[m].lease <= granted
    BY <1>3 DEF IInv, TypeInv, ProcType, Proc
  <2>2. \A m \in Nodes : m # n => proc'[m] = proc[m]
    BY <1>3
  <2>3. \A m \in Nodes : proc'[m].lease <= granted'
    <3>1. proc'[n] = r
      BY <1>3
    <3> QED BY <1>3, <2>1, <2>2, <3>1
  <2> QED BY <1>3, <2>3 DEF IInv, TypeInv, ProcType
<1>6. ASSUME NEW m \in Nodes, proc'[m].pc = "kept", proc'[m].lease \in leases'
      PROVE  Key(m)' .addr = proc'[m].addr /\ Key(m)' .lease = proc'[m].lease
  <2>1. Key(m)' = IF c.node = m THEN c ELSE Key(m)
    BY <1>3, KeyAppend
  <2>2. CASE m = n
    BY <1>2, <1>3, <1>6, <2>1, <2>2
  <2>3. CASE m # n
    <3>1. proc'[m] = proc[m] /\ proc[m].lease \in Nat /\ proc[m].lease <= granted
      BY <1>3, <2>3 DEF IInv, TypeInv, ProcType, Proc
    <3>2. proc[m].lease \in leases
      BY <1>3, <1>6, <3>1
    <3> QED BY <1>2, <1>6, <2>1, <2>3, <3>1, <3>2 DEF IInv, HoldsKey
  <2> QED BY <2>2, <2>3
<1>7. HoldsKey'
  BY <1>6 DEF HoldsKey
<1> QED BY <1>3, <1>4, <1>5, <1>7

LEMMA PublishKeeps ==
  ASSUME IInv, NEW n \in Nodes, Publish(n)
  PROVE  IInv'
<1>1. PICK p \in Proc : p = proc[n] /\ p.pc = "publish" /\ p.lease <= granted
  BY DEF Publish, IInv, TypeInv, ProcType
<1>2. /\ UNCHANGED <<compacted, members, seen, watching, signal, open, live, settle, placed, starts>>
      /\ proc \in [Nodes -> Proc] /\ granted \in Nat /\ p.lease \in Nat
  BY <1>1 DEF Publish, view, stream, IInv, TypeInv, ProcType, EtcdType, Proc
<1>3. Down \in Proc /\ Down.lease = 0 /\ Down.pc = "down"
  BY DEF Down, Proc
<1>4. PICK r \in Proc :
        /\ proc' = [proc EXCEPT ![n] = r]
        /\ \/ /\ Put(n) /\ r.pc = "kept" /\ r.lease = granted' /\ r.addr = p.addr /\ r.known
           \/ Put(n) /\ r = (IF p.known THEN p ELSE Down)
           \/ UNCHANGED <<history, granted, leases>> /\ r = (IF p.known THEN p ELSE Down)
  <2>1. CASE /\ Put(n)
             /\ proc' = [proc EXCEPT ![n] = [p EXCEPT !.pc = "kept", !.lease = granted', !.known = TRUE]]
    <3>1. PICK l \in Nat : l = granted'
      BY <1>2, <2>1 DEF Put
    <3>2. PICK r \in Proc : r = [p EXCEPT !.pc = "kept", !.lease = l, !.known = TRUE]
      BY <3>1 DEF Proc
    <3>3. r.pc = "kept" /\ r.lease = l /\ r.addr = p.addr /\ r.known
      BY <3>2 DEF Proc
    <3> QED BY <2>1, <3>1, <3>2, <3>3
  <2>2. CASE /\ Put(n) \/ UNCHANGED <<history, granted, leases>>
             /\ proc' = [proc EXCEPT ![n] = IF p.known THEN p ELSE Down]
    BY <1>1, <1>3, <2>2
  <2> QED BY <1>1, <2>1, <2>2 DEF Publish, Put
<1>5. EtcdType' /\ ProcType' /\ HoldsKey'
      /\ (history' = history \/ \E c \in Changes : history' = Append(history, c))
  <2>1. CASE Put(n)
    <3>1. granted' = granted + 1
      BY <2>1 DEF Put
    <3>2. /\ r.pc # "kept" \/ r.lease = granted'
          /\ r.lease <= granted' /\ (r.pc = "down" => r = Down)
          /\ r.pc = "kept" => r.addr = proc[n].addr
      BY <1>1, <1>2, <1>3, <1>4, <3>1
    <3> QED BY <1>2, <1>4, <2>1, <3>2, PutKeeps
  <2>2. CASE UNCHANGED <<history, granted, leases>> /\ r = (IF p.known THEN p ELSE Down)
    <3>1. r.pc # "kept" /\ r.lease <= granted /\ (r.pc = "down" => r = Down)
      BY <1>1, <1>2, <1>3, <2>2
    <3>2. EtcdType' /\ ProcType'
      BY <1>2, <1>4, <2>2, <3>1 DEF IInv, TypeInv, EtcdType, ProcType
    <3>3. \A m : Key(m)' = Key(m)
      BY <2>2, KeySame
    <3>4. HoldsKey'
      BY <1>2, <1>4, <2>2, <3>1, <3>3 DEF IInv, HoldsKey
    <3> QED BY <2>2, <3>2, <3>4
  <2> QED BY <1>4, <2>1, <2>2
<1>6. StreamType'
  <2>1. proc[n].known => r.known /\ r.addr = proc[n].addr
    BY <1>1, <1>4
  <2> QED BY <1>2, <1>4, <2>1, StreamsStay DEF IInv
<1>7. ListWasTrue' /\ ViewType'
  BY <1>2, <1>5, ListKept DEF IInv, TypeInv, ViewType
<1>8. PassType' /\ BoundType'
  <2>1. faults' = faults \/ (faults < MaxFaults /\ faults' = faults + 1)
    BY DEF Publish, MayFail
  <2> QED BY <1>2, <2>1, MembershipAssumption DEF IInv, TypeInv, PassType, BoundType
<1> QED BY <1>5, <1>6, <1>7, <1>8 DEF IInv, TypeInv

LEMMA LeaseLostKeeps ==
  ASSUME IInv, NEW n \in Nodes, LeaseLost(n)
  PROVE  IInv'
<1>1. PICK p \in Proc : p = proc[n]
  BY DEF IInv, TypeInv, ProcType
<1>2. PICK r \in Proc : r = [p EXCEPT !.pc = "publish", !.lease = 0]
  BY DEF Proc
<1>3. r.pc = "publish" /\ r.lease = 0 /\ r.known = p.known /\ r.addr = p.addr
  BY <1>2 DEF Proc
<1>4. /\ proc' = [proc EXCEPT ![n] = r] /\ proc \in [Nodes -> Proc]
      /\ UNCHANGED <<history, compacted, leases, granted, members, seen, watching, signal, open,
                     live, settle, placed, starts>>
  BY <1>1, <1>2 DEF LeaseLost, Republish, IInv, TypeInv, ProcType, view, stream
<1>5. faults' = faults \/ (faults < MaxFaults /\ faults' = faults + 1)
  BY DEF LeaseLost, MayFail
<1>6. EtcdType' /\ ViewType' /\ PassType' /\ BoundType'
  BY <1>4, <1>5, MembershipAssumption DEF IInv, TypeInv, EtcdType, ViewType, PassType, BoundType
<1>7. ProcType'
  BY <1>3, <1>4 DEF IInv, TypeInv, EtcdType, ProcType
<1>8. StreamType'
  BY <1>1, <1>3, <1>4, StreamsStay DEF IInv
<1>9. HoldsKey'
  <2>1. \A m : Key(m)' = Key(m)
    BY <1>4, KeySame
  <2> QED BY <1>3, <1>4, <2>1 DEF HoldsKey, IInv
<1>10. ListWasTrue'
  BY <1>4, ListKept DEF IInv
<1> QED BY <1>6, <1>7, <1>8, <1>9, <1>10 DEF IInv, TypeInv

LEMMA NodeDiesKeeps ==
  ASSUME IInv, NEW n \in Nodes, NodeDies(n)
  PROVE  IInv'
<1>1. Down \in Proc /\ Down.lease = 0 /\ Down.pc = "down"
  BY DEF Down, Proc
<1>2. /\ proc' = [proc EXCEPT ![n] = Down] /\ proc \in [Nodes -> Proc]
      /\ live' = {s \in live : s[2] # n}
      /\ UNCHANGED <<history, compacted, leases, granted, members, seen, watching, signal, open,
                     settle, placed, starts, faults>>
  BY DEF NodeDies, IInv, TypeInv, ProcType, etcd, view
<1>3. EtcdType' /\ ViewType' /\ PassType' /\ BoundType'
  BY <1>2 DEF IInv, TypeInv, EtcdType, ViewType, PassType, BoundType
<1>4. ProcType'
  BY <1>1, <1>2 DEF IInv, TypeInv, EtcdType, ProcType
<1>5. StreamType'
  <2>1. ASSUME NEW g \in Gateways, NEW m \in Nodes, <<g, m>> \in live'
        PROVE  Answers(m, open[g][m])'
    <3>1. <<g, m>> \in live /\ m # n
      BY <1>2, <2>1
    <3>2. proc[m].known /\ proc[m].addr = open[g][m]
      BY <3>1 DEF Answers, IInv, TypeInv, StreamType
    <3>3. proc'[m] = proc[m]
      BY <1>2, <3>1
    <3> QED BY <1>2, <3>2, <3>3 DEF Answers
  <2> QED BY <1>2, <2>1 DEF IInv, TypeInv, StreamType
<1>6. HoldsKey'
  <2>1. \A m : Key(m)' = Key(m)
    BY <1>2, KeySame
  <2> QED BY <1>1, <1>2, <2>1 DEF HoldsKey, IInv
<1>7. ListWasTrue'
  BY <1>2, ListKept DEF IInv
<1> QED BY <1>3, <1>4, <1>5, <1>6, <1>7 DEF IInv, TypeInv

-----------------------------------------------------------------------------
(* etcd's steps *)

(* Steps that leave the processes and the streams alone.                   *)
LEMMA ProcsStay ==
  ASSUME TypeInv, UNCHANGED <<proc, open, live>>, granted' = granted
  PROVE  ProcType' /\ StreamType'
BY DEF TypeInv, ProcType, StreamType, Answers

LEMMA LeaseEndsKeeps ==
  ASSUME IInv, NEW l \in leases, LeaseEnds(l)
  PROVE  IInv'
<1> DEFINE gone == {n \in Nodes : Key(n).lease = l /\ Key(n).addr # None}
<1>1. /\ leases' = leases \ {l}
      /\ UNCHANGED <<compacted, granted, proc, members, seen, watching, signal, open, live,
                     settle, placed, starts>>
  BY DEF LeaseEnds, view, stream
<1>2. history' = history
      \/ \E n \in gone : history' = Append(history, [node |-> n, addr |-> None, lease |-> 0])
  BY DEF LeaseEnds
<1>3. faults' = faults \/ (faults < MaxFaults /\ faults' = faults + 1)
  BY DEF LeaseEnds, MayFail
<1>4. PassType' /\ BoundType' /\ ProcType' /\ StreamType'
  <2>1. ProcType' /\ StreamType'
    BY <1>1, ProcsStay DEF IInv
  <2> QED BY <1>1, <1>3, <2>1, MembershipAssumption DEF IInv, TypeInv, PassType, BoundType
<1>5. history \in Seq(Changes) /\ granted \in Nat /\ compacted \in 0..Len(history)
  BY DEF IInv, TypeInv, EtcdType
<1>6. CASE history' = history
  <2>1. \A m : Key(m)' = Key(m)
    BY <1>6, KeySame
  <2>2. HoldsKey'
    BY <1>1, <2>1 DEF HoldsKey, IInv
  <2>3. EtcdType' /\ ViewType'
    BY <1>1, <1>6 DEF IInv, TypeInv, EtcdType, ViewType
  <2>4. ListWasTrue'
    BY <1>1, <1>6, ListKept DEF IInv
  <2> QED BY <1>4, <2>2, <2>3, <2>4 DEF IInv, TypeInv
<1>7. ASSUME NEW n \in gone, history' = Append(history, [node |-> n, addr |-> None, lease |-> 0])
      PROVE  IInv'
  <2>1. PICK c \in Changes : c = [node |-> n, addr |-> None, lease |-> 0]
    BY DEF Changes
  <2>2. c.node = n /\ history' = Append(history, c) /\ n \in Nodes /\ Key(n).lease = l
    BY <1>7, <2>1
  <2>3. ASSUME NEW m \in Nodes, proc'[m].pc = "kept", proc'[m].lease \in leases'
        PROVE  Key(m)' .addr = proc'[m].addr /\ Key(m)' .lease = proc'[m].lease
    <3>1. Key(m)' = IF c.node = m THEN c ELSE Key(m)
      BY <1>5, <2>2, KeyAppend
    <3>2. Key(m).addr = proc[m].addr /\ Key(m).lease = proc[m].lease /\ proc[m].lease # l
      BY <1>1, <2>3 DEF IInv, HoldsKey
    <3>3. m # n
      BY <2>2, <3>2
    <3> QED BY <1>1, <2>2, <3>1, <3>2, <3>3
  <2>4. HoldsKey'
    BY <2>3 DEF HoldsKey
  <2>5. EtcdType'
    BY <1>1, <1>5, <2>2 DEF IInv, TypeInv, EtcdType
  <2>6. ListWasTrue' /\ ViewType'
    BY <1>1, <2>2, ListKept DEF IInv, TypeInv, ViewType
  <2> QED BY <1>4, <2>4, <2>5, <2>6 DEF IInv, TypeInv
<1> QED BY <1>2, <1>6, <1>7

LEMMA CompactKeeps ==
  ASSUME IInv, Compact
  PROVE  IInv'
<1>1. /\ compacted' = Len(history)
      /\ UNCHANGED <<history, leases, granted, proc, members, seen, watching, signal, open, live,
                     settle, placed, starts>>
  BY DEF Compact, view, stream
<1>2. faults < MaxFaults /\ faults' = faults + 1
  BY DEF Compact, MayFail
<1>3. EtcdType'
  <2>1. history \in Seq(Changes) /\ Len(history) \in Nat
    BY DEF IInv, TypeInv, EtcdType
  <2>2. compacted' \in 0..Len(history')
    BY <1>1, <2>1
  <2> QED BY <1>1, <2>2 DEF IInv, TypeInv, EtcdType
<1>4. ProcType' /\ StreamType' /\ ViewType' /\ PassType' /\ BoundType'
  <2>1. ProcType' /\ StreamType'
    BY <1>1, ProcsStay DEF IInv
  <2> QED BY <1>1, <1>2, <2>1, MembershipAssumption DEF IInv, TypeInv, ViewType, PassType, BoundType
<1>5. HoldsKey'
  <2>1. \A m : Key(m)' = Key(m)
    BY <1>1, KeySame
  <2> QED BY <1>1, <2>1 DEF HoldsKey, IInv
<1>6. ListWasTrue'
  BY <1>1, ListKept DEF IInv
<1> QED BY <1>3, <1>4, <1>5, <1>6 DEF IInv, TypeInv

-----------------------------------------------------------------------------
(* The gateway's steps *)

(* Steps that leave the registry alone.                                    *)
LEMMA KeysStay ==
  ASSUME IInv, UNCHANGED <<history, compacted, leases, granted, proc>>
  PROVE  EtcdType' /\ ProcType' /\ HoldsKey'
<1>1. EtcdType' /\ ProcType'
  BY DEF IInv, TypeInv, EtcdType, ProcType
<1>2. \A m : Key(m)' = Key(m)
  BY KeySame
<1>3. HoldsKey'
  BY <1>2 DEF HoldsKey, IInv
<1> QED BY <1>1, <1>3

LEMMA Signals ==
  ASSUME TypeInv, NEW g \in Gateways, Notify(g), settle' = settle, placed' = placed
  PROVE  PassType'
BY DEF TypeInv, PassType, Notify

LEMMA FollowKeeps ==
  ASSUME IInv, NEW g \in Gateways, Follow(g)
  PROVE  IInv'
<1>1. UNCHANGED <<history, compacted, leases, granted, proc, watching, open, live, settle, placed,
                  starts, faults>>
  BY DEF Follow, etcd, stream
<1>2. PICK k \in (seen[g] + 1)..Len(history) :
        /\ members' = [members EXCEPT ![g] = After(members[g], SubSeq(history, seen[g] + 1, k))]
        /\ seen' = [seen EXCEPT ![g] = k]
  BY DEF Follow
<1>3. /\ history \in Seq(Changes) /\ Len(history) \in Nat /\ seen \in [Gateways -> Nat]
      /\ seen[g] \in 0..Len(history) /\ k \in seen[g]..Len(history) /\ k \in Nat
      /\ members \in [Gateways -> [Nodes -> Addrs \cup {None}]]
  <2>1. /\ history \in Seq(Changes) /\ Len(history) \in Nat /\ seen \in [Gateways -> Nat]
        /\ seen[g] \in Nat /\ seen[g] <= Len(history)
        /\ members \in [Gateways -> [Nodes -> Addrs \cup {None}]]
    BY DEF IInv, TypeInv, EtcdType, ViewType
  <2> QED BY <1>2, <2>1
<1>4. /\ SubSeq(history, seen[g] + 1, k) \in Seq(Changes)
      /\ members[g] = After(Nobody, SubSeq(history, 1, seen[g]))
  BY <1>3, Part DEF IInv, ListWasTrue
<1>5. PICK new \in [Nodes -> Addrs \cup {None}] :
        /\ new = After(members[g], SubSeq(history, seen[g] + 1, k))
        /\ new = After(Nobody, SubSeq(history, 1, k))
  <2>1. members[g] \in [Nodes -> Addrs \cup {None}]
    BY <1>3
  <2>2. PICK part \in Seq(Changes) : part = SubSeq(history, seen[g] + 1, k)
    BY <1>4
  <2>3. After(members[g], part) \in [Nodes -> Addrs \cup {None}]
    BY <2>1, AfterType
  <2>4. PICK s \in 0..Len(history) : s = seen[g] /\ k \in s..Len(history)
    BY <1>3
  <2>5. After(After(Nobody, SubSeq(history, 1, s)), SubSeq(history, s + 1, k))
          = After(Nobody, SubSeq(history, 1, k))
    BY <1>3, <2>4, AfterBoth
  <2> QED BY <1>4, <2>2, <2>3, <2>4, <2>5
<1>6. members' = [members EXCEPT ![g] = new]
  BY <1>2, <1>5
<1>7. ViewType'
  BY <1>1, <1>2, <1>3, <1>6 DEF IInv, TypeInv, ViewType
<1>8. ListWasTrue'
  <2>1. ASSUME NEW h \in Gateways PROVE members'[h] = After(Nobody, SubSeq(history, 1, seen'[h]))
    <3>1. CASE h = g
      BY <1>2, <1>3, <1>5, <1>6, <3>1
    <3>2. CASE h # g
      <4>1. members'[h] = members[h] /\ seen'[h] = seen[h]
        BY <1>2, <1>3, <1>6, <3>2
      <4> QED BY <4>1 DEF IInv, ListWasTrue
    <3> QED BY <3>1, <3>2
  <2> QED BY <1>1, <2>1 DEF ListWasTrue
<1>9. EtcdType' /\ ProcType' /\ HoldsKey' /\ PassType' /\ StreamType' /\ BoundType'
  <2>1. EtcdType' /\ ProcType' /\ HoldsKey'
    BY <1>1, KeysStay
  <2>2. PassType'
    BY <1>1, Signals DEF IInv, Follow
  <2>3. StreamType'
    BY <1>1, ProcsStay DEF IInv
  <2> QED BY <1>1, <2>1, <2>2, <2>3 DEF IInv, TypeInv, BoundType
<1> QED BY <1>7, <1>8, <1>9 DEF IInv, TypeInv

LEMMA WatchEndsKeeps ==
  ASSUME IInv, NEW g \in Gateways, WatchEnds(g)
  PROVE  IInv'
<1>1. /\ UNCHANGED <<history, compacted, leases, granted, proc, members, seen, open, live, signal,
                     settle, placed, starts>>
      /\ watching' = watching \ {g}
  BY DEF WatchEnds, etcd, stream
<1>2. faults' = faults \/ (faults < MaxFaults /\ faults' = faults + 1)
  BY DEF WatchEnds, MayFail
<1>3. EtcdType' /\ ProcType' /\ HoldsKey'
  BY <1>1, KeysStay
<1>4. StreamType' /\ ListWasTrue'
  BY <1>1, ProcsStay, ListKept DEF IInv
<1>5. ViewType' /\ PassType' /\ BoundType'
  BY <1>1, <1>2, MembershipAssumption DEF IInv, TypeInv, ViewType, PassType, BoundType
<1> QED BY <1>3, <1>4, <1>5 DEF IInv, TypeInv

(* The list that is read is what the changes so far come to.               *)
LEMMA ListedIs ==
  ASSUME TypeInv, NEW g \in Gateways
  PROVE  Listed(g) = After(Nobody, SubSeq(history, 1, Len(history)))
<1>1. SubSeq(history, 1, Len(history)) = history
  BY Beginning DEF TypeInv, EtcdType
<1>2. \A n \in Nodes : Listed(g)[n] = After(Nobody, history)[n]
  BY DEF Listed, Key, After, Nobody
<1> QED BY <1>1, <1>2 DEF Listed, After

LEMMA ResyncKeeps ==
  ASSUME IInv, NEW g \in Gateways, Resync(g)
  PROVE  IInv'
<1>1. /\ UNCHANGED <<history, compacted, leases, granted, proc, open, live, settle, placed, starts>>
      /\ watching' = watching \cup {g}
  BY DEF Resync, etcd, stream
<1>2. faults' = faults \/ (faults < MaxFaults /\ faults' = faults + 1)
  BY DEF Resync, MayFail
<1>3. EtcdType' /\ ProcType' /\ HoldsKey'
  BY <1>1, KeysStay
<1>4. StreamType' /\ BoundType'
  <2>1. StreamType'
    BY <1>1, ProcsStay DEF IInv
  <2> QED BY <1>1, <1>2, <2>1, MembershipAssumption DEF IInv, TypeInv, BoundType
<1>5. CASE UNCHANGED <<members, seen, signal>>
  <2>1. ListWasTrue'
    BY <1>1, <1>5, ListKept DEF IInv
  <2>2. ViewType' /\ PassType'
    BY <1>1, <1>5 DEF IInv, TypeInv, ViewType, PassType
  <2> QED BY <1>3, <1>4, <2>1, <2>2 DEF IInv, TypeInv
<1>6. CASE /\ members' = [members EXCEPT ![g] = Listed(g)]
           /\ seen' = [seen EXCEPT ![g] = Len(history)]
           /\ Notify(g)
  <2>1. /\ history \in Seq(Changes) /\ Len(history) \in Nat /\ seen \in [Gateways -> Nat]
        /\ members \in [Gateways -> [Nodes -> Addrs \cup {None}]]
    BY DEF IInv, TypeInv, EtcdType, ViewType
  <2>2. Nobody \in [Nodes -> Addrs \cup {None}]
    BY DEF Nobody
  <2>3. SubSeq(history, 1, Len(history)) = history
    BY <2>1, Beginning
  <2>4. PICK new \in [Nodes -> Addrs \cup {None}] :
          new = Listed(g) /\ new = After(Nobody, SubSeq(history, 1, Len(history)))
    BY <2>1, <2>2, <2>3, AfterType, ListedIs DEF IInv
  <2>5. members' = [members EXCEPT ![g] = new]
    BY <1>6, <2>4
  <2>6. ViewType'
    BY <1>1, <1>6, <2>1, <2>5 DEF IInv, TypeInv, ViewType
  <2>7. ASSUME NEW h \in Gateways PROVE members'[h] = After(Nobody, SubSeq(history, 1, seen'[h]))
    <3>1. CASE h = g
      BY <1>6, <2>1, <2>4, <2>5, <3>1
    <3>2. CASE h # g
      <4>1. members'[h] = members[h] /\ seen'[h] = seen[h]
        BY <1>6, <2>1, <2>5, <3>2
      <4> QED BY <4>1 DEF IInv, ListWasTrue
    <3> QED BY <3>1, <3>2
  <2>8. ListWasTrue'
    BY <1>1, <2>7 DEF ListWasTrue
  <2>9. PassType'
    BY <1>1, <1>6, Signals DEF IInv
  <2> QED BY <1>3, <1>4, <2>6, <2>8, <2>9 DEF IInv, TypeInv
<1> QED BY <1>5, <1>6 DEF Resync

LEMMA SubscribeKeeps ==
  ASSUME IInv, NEW g \in Gateways, Subscribe(g)
  PROVE  IInv'
<1>1. /\ UNCHANGED <<history, compacted, leases, granted, proc, members, seen, watching, settle,
                     placed, starts, faults>>
      /\ signal' = signal \ {<<g, "subscriber">>}
      /\ open' = [open EXCEPT ![g] = Streams(g)]
      /\ live' = {s \in live : s[1] = g => open'[g][s[2]] = open[g][s[2]]}
  BY DEF Subscribe, etcd, view
<1>2. EtcdType' /\ ProcType' /\ HoldsKey'
  BY <1>1, KeysStay
<1>3. ListWasTrue' /\ ViewType' /\ PassType' /\ BoundType'
  <2>1. ListWasTrue'
    BY <1>1, ListKept DEF IInv
  <2> QED BY <1>1, <2>1 DEF IInv, TypeInv, ViewType, PassType, BoundType
<1>4. StreamType'
  <2>1. Streams(g) \in [Nodes -> Addrs \cup {None}]
    BY DEF Streams, IInv, TypeInv, ViewType
  <2>2. open \in [Gateways -> [Nodes -> Addrs \cup {None}]] /\ live \subseteq Gateways \X Nodes
    BY DEF IInv, TypeInv, StreamType
  <2>3. open' \in [Gateways -> [Nodes -> Addrs \cup {None}]] /\ live' \subseteq Gateways \X Nodes
    BY <1>1, <2>1, <2>2
  <2>4. ASSUME NEW h \in Gateways, NEW m \in Nodes, <<h, m>> \in live'
        PROVE  Answers(m, open[h][m])'
    <3>1. <<h, m>> \in live /\ open'[h][m] = open[h][m]
      BY <1>1, <2>2, <2>4
    <3>2. proc[m].known /\ proc[m].addr = open[h][m]
      BY <3>1 DEF IInv, TypeInv, StreamType, Answers
    <3> QED BY <1>1, <3>1, <3>2 DEF Answers
  <2> QED BY <2>3, <2>4 DEF StreamType
<1> QED BY <1>2, <1>3, <1>4 DEF IInv, TypeInv

LEMMA ConnectKeeps ==
  ASSUME IInv, NEW g \in Gateways, NEW n \in Nodes, Connect(g, n)
  PROVE  IInv'
<1>1. /\ UNCHANGED <<history, compacted, leases, granted, proc, members, seen, watching, signal, open,
                     settle, placed, starts, faults>>
      /\ live' = live \cup {<<g, n>>} /\ Answers(n, open[g][n])
  BY DEF Connect, etcd, view
<1>2. EtcdType' /\ ProcType' /\ HoldsKey'
  BY <1>1, KeysStay
<1>3. ListWasTrue' /\ ViewType' /\ PassType' /\ BoundType'
  <2>1. ListWasTrue'
    BY <1>1, ListKept DEF IInv
  <2> QED BY <1>1, <2>1 DEF IInv, TypeInv, ViewType, PassType, BoundType
<1>4. StreamType'
  BY <1>1 DEF IInv, TypeInv, StreamType, Answers
<1> QED BY <1>2, <1>3, <1>4 DEF IInv, TypeInv

(* A pass moves queues to nodes there are, and so does the first request.  *)
LEMMA RebalanceType ==
  ASSUME TypeInv, NEW g \in Gateways, Rebalance(g)
  PROVE  placed' \in [Keys -> Nodes \cup {None}]
<1>1. placed \in [Keys -> Nodes \cup {None}] /\ Alive(g) \in SUBSET Nodes
  BY DEF TypeInv, PassType, Alive
<1>2. ASSUME NEW k \in Keys, Movable(g, k) PROVE Wanted(k, Alive(g)) \in Nodes
  <2>1. Alive(g) # {}
    BY <1>2 DEF Movable
  <2> QED BY <1>1, <2>1, WantedThere
<1>3. PICK now : placed' = [k \in Keys |->
            IF QueueOf[k] \in now /\ Movable(g, k) THEN Wanted(k, Alive(g)) ELSE placed[k]]
  BY DEF Rebalance
<1> QED BY <1>1, <1>2, <1>3

LEMMA PassKeeps ==
  ASSUME IInv, NEW g \in Gateways,
         Changed(g) \/ Tick(g) \/ Sweep(g) \/ \E k \in Keys : Place(g, k)
  PROVE  IInv'
<1>1. UNCHANGED <<history, compacted, leases, granted, proc, members, seen, watching, open, live,
                  starts, faults>>
  BY DEF Changed, Tick, Sweep, Place, etcd, view, stream
<1>2. EtcdType' /\ ProcType' /\ HoldsKey'
  BY <1>1, KeysStay
<1>3. ListWasTrue' /\ StreamType' /\ ViewType' /\ BoundType'
  <2>1. ListWasTrue' /\ StreamType'
    BY <1>1, ListKept, ProcsStay DEF IInv
  <2> QED BY <1>1, <2>1 DEF IInv, TypeInv, ViewType, BoundType
<1>4. PassType'
  <2> USE DEF IInv, TypeInv, PassType
  <2>1. CASE Changed(g)
    BY <2>1, MembershipAssumption DEF Changed
  <2>2. CASE Tick(g)
    <3>1. placed' \in [Keys -> Nodes \cup {None}]
      BY <2>2, RebalanceType DEF Tick
    <3>2. settle' = [settle EXCEPT ![g] = settle[g] - 1] /\ settle[g] > 0 /\ signal' = signal
      BY <2>2 DEF Tick
    <3>3. settle' \in [Gateways -> 0..Settle]
      BY <3>2, MembershipAssumption
    <3> QED BY <3>1, <3>2, <3>3
  <2>3. CASE Sweep(g)
    BY <2>3, RebalanceType DEF Sweep
  <2>4. ASSUME NEW k \in Keys, Place(g, k) PROVE PassType'
    <3>1. Alive(g) \in SUBSET Nodes /\ Alive(g) # {}
      BY <2>4 DEF Place, Alive
    <3>2. Wanted(k, Alive(g)) \in Nodes
      BY <3>1, WantedThere
    <3> QED BY <2>4, <3>2 DEF Place
  <2> QED BY <2>1, <2>2, <2>3, <2>4
<1> QED BY <1>2, <1>3, <1>4 DEF IInv, TypeInv

-----------------------------------------------------------------------------
LEMMA Stuttering == IInv /\ UNCHANGED vars => IInv'
<1> SUFFICES ASSUME IInv, UNCHANGED vars PROVE IInv'
  OBVIOUS
<1> USE DEF vars
<1>1. EtcdType' /\ ProcType' /\ HoldsKey'
  BY KeysStay
<1>2. ListWasTrue' /\ StreamType'
  BY ListKept, ProcsStay DEF IInv
<1>3. ViewType' /\ PassType' /\ BoundType'
  BY DEF IInv, TypeInv, ViewType, PassType, BoundType
<1> QED BY <1>1, <1>2, <1>3 DEF IInv, TypeInv

LEMMA Keeping == IInv /\ [Next]_vars => IInv'
<1> SUFFICES ASSUME IInv, [Next]_vars PROVE IInv'
  OBVIOUS
<1>1. CASE UNCHANGED vars
  BY <1>1, Stuttering
<1>2. ASSUME NEW n \in Nodes, (\E a \in Listens[n] : Start(n, a)) \/ NodeStep(n) \/ NodeDies(n)
      PROVE  IInv'
  BY <1>2, StartKeeps, PublishKeeps, LeaseLostKeeps, NodeDiesKeeps DEF NodeStep
<1>3. ASSUME NEW l \in leases, LeaseEnds(l) PROVE IInv'
  BY <1>3, LeaseEndsKeeps
<1>4. CASE Compact
  BY <1>4, CompactKeeps
<1>5. ASSUME NEW g \in Gateways, WatchStep(g) \/ StreamStep(g) PROVE IInv'
  BY <1>5, FollowKeeps, WatchEndsKeeps, ResyncKeeps, SubscribeKeeps, ConnectKeeps
     DEF WatchStep, StreamStep
<1>6. ASSUME NEW g \in Gateways, Changed(g) \/ Tick(g) \/ Sweep(g) \/ \E k \in Keys : Place(g, k)
      PROVE  IInv'
  BY <1>6, PassKeeps
<1> QED BY <1>1, <1>2, <1>3, <1>4, <1>5, <1>6 DEF Next

LEMMA Always == Spec => []IInv
BY Starting, Keeping, PTL DEF Spec

LEMMA Typed == IInv => TypeOK
<1> SUFFICES ASSUME TypeInv PROVE TypeOK
  BY DEF IInv
<1>1. \A g \in Gateways : seen[g] \in 0..Len(history)
  BY DEF TypeInv, EtcdType, ViewType
<1>2. ASSUME NEW s \in live PROVE Answers(s[2], open[s[1]][s[2]])
  <2>1. PICK g \in Gateways, n \in Nodes : s = <<g, n>>
    BY DEF TypeInv, StreamType
  <2> QED BY <2>1 DEF TypeInv, StreamType
<1> QED BY <1>1, <1>2 DEF TypeOK, TypeInv, EtcdType, ProcType, ViewType, StreamType, PassType, BoundType

-----------------------------------------------------------------------------
(* The variables keep their types, no gateway has seen more than there is, *)
(* and a connected stream is to where the node answers, for any number of  *)
(* nodes and gateways (membershipetcd/repo.go,                             *)
(* dequeue-wait-logic.go:82-163).                                          *)
THEOREM TypeCorrect == Spec => []TypeOK
BY Always, Typed, PTL

(* A gateway's list is one the registry has had, whatever was compacted    *)
(* and however often its watch broke (gateway membershipetcd/repo.go:      *)
(* 72-169).                                                                *)
THEOREM ListIsTrue == Spec => []ListWasTrue
<1>1. IInv => ListWasTrue
  BY DEF IInv
<1> QED BY <1>1, Always, PTL

(* No lease but its own takes a node off the list: the end of an older     *)
(* one leaves the key it no longer has (queue membershipetcd/repo.go:      *)
(* 43-106).                                                                *)
THEOREM KeyIsKept == Spec => []KeepsItsKey
<1>1. IInv => KeepsItsKey
  BY DEF IInv, HoldsKey, KeepsItsKey
<1> QED BY <1>1, Always, PTL

=============================================================================
