---------------------------- MODULE EngineProofs ----------------------------
(***************************************************************************)
(* Theorems about Engine for any number of slots, producers, consumers and *)
(* messages, any priorities, any cap, and any number of slots moved.       *)
(***************************************************************************)
EXTENDS Engine, FiniteSetTheorems, SequenceTheorems, WellFoundedInduction, TLAPS

Producing == [pc : {"idle", "depth", "frozen", "land", "count", "release"},
              slot : Slots \cup {NoSlot}, prio : Priorities \cup {0}, pending : Nat]

Consuming == [pc : {"idle", "look", "hint", "seq", "take", "work", "count"},
              at : Nat, h : Nat, best : Slots \cup {NoSlot}, band : Int, seq : Nat,
              tries : Nat, msg : Messages \cup {0}]

Sweeping == [pc : {"idle", "look", "sweep", "count"}, todo : SUBSET Slots,
             at : Slots \cup {NoSlot}, removed : Nat]

Moving == [pc : {"idle", "copy", "moving", "thaw", "dropped", "absorbed"},
           slot : Slots \cup {NoSlot}, copy : SUBSET Messages, count : Nat]

(* What a goroutine knows by the time it gets somewhere. *)
Producer(r) == r.pc # "idle" => r.slot \in Slots /\ r.prio \in Priorities

Consumer(r) ==
  /\ r.pc \in {"hint", "seq"} => r.at \in Slots
  /\ r.pc = "seq" => r.h - 1 \in Priorities
  /\ r.best # NoSlot => r.band \in Priorities
  /\ r.pc = "take" => r.best # NoSlot
  /\ r.pc = "work" <=> r.msg # 0

(* The queue itself: TypeOK and NotTwice, and that what was never in the   *)
(* queue is not out.                                                       *)
QueueType ==
  /\ msgs \in Seq([slot : Slots, prio : Priorities]) /\ Len(msgs) <= MaxMessages
  /\ line \in [Slots -> [Priorities -> Seq(0..Len(msgs))]]
  /\ lease \in [Messages -> Consumers \cup {Nobody}]
  /\ lapsed \subseteq 1..Len(msgs)
  /\ frozen \in [Slots -> BOOLEAN]

QueueInv ==
  /\ QueueType
  /\ \A n \in Messages : lease[n] # Nobody => n <= Len(msgs)
  /\ NotTwice

ProdType == prod \in [Producers -> Producing] /\ \A p \in Producers : Producer(prod[p])

ConsType ==
  /\ cons \in [Consumers -> Consuming] /\ \A c \in Consumers : Consumer(cons[c])
  /\ \A c \in Consumers : cons[c].msg <= Len(msgs)

SweepType ==
  /\ sweep \in Sweeping
  /\ sweep.pc = "sweep" => sweep.at \in Slots
  /\ sweep.pc = "idle" => sweep.removed = 0

MoveType ==
  /\ move \in Moving
  /\ move.pc \in {"copy", "moving", "thaw"} => move.slot \in Slots
  /\ move.pc \in {"idle", "copy", "moving"} => move.count = 0

TypeInv ==
  /\ QueueInv
  /\ depth \in Int /\ reserved \in Nat /\ leaked \in Nat /\ absorbed \in Nat
  /\ ProdType /\ ConsType /\ SweepType /\ MoveType

-----------------------------------------------------------------------------
(* Numbers and sequences *)

(* A non-empty set of naturals has a least element, and a bounded one has  *)
(* a greatest.                                                             *)
LEMMA NatMin ==
  ASSUME NEW S \in SUBSET Nat, S # {}
  PROVE  \E x \in S : \A y \in S : x <= y
<1> DEFINE Less == {ss \in Nat \X Nat : ss[1] < ss[2]}
<1>1. IsWellFoundedOn(Less, Nat)
  BY NatLessThanWellFounded DEF OpToRel
<1>2. PICK x \in S : \A y \in S : ~ (<<y, x>> \in Less)
  <2> HIDE DEF Less
  <2> QED BY <1>1, WFMin
<1>3. \A y \in S : y < x => <<y, x>> \in Less
  OBVIOUS
<1>4. \A y \in S : ~ (y < x)
  <2> HIDE DEF Less
  <2> QED BY <1>2, <1>3
<1> QED BY <1>4

LEMMA NatMax ==
  ASSUME NEW S \in SUBSET Nat, S # {}, NEW top \in Nat, \A x \in S : x <= top
  PROVE  \E x \in S : \A y \in S : y <= x
<1> DEFINE R == {top - x : x \in S}
<1>1. R \in SUBSET Nat /\ R # {}
  <2>1. \A x \in S : top - x \in Nat
    OBVIOUS
  <2>2. PICK x : x \in S
    OBVIOUS
  <2>3. top - x \in R
    BY <2>2
  <2> QED BY <2>1, <2>3
<1>2. PICK r \in R : \A q \in R : r <= q
  <2> HIDE DEF R
  <2> QED BY <1>1, NatMin
<1>3. PICK x \in S : r = top - x
  BY <1>2
<1>4. ASSUME NEW y \in S PROVE y <= x
  <2>1. top - y \in R
    OBVIOUS
  <2>2. top - x <= top - y
    BY <1>2, <1>3, <2>1
  <2> QED BY <2>2
<1> QED BY <1>4

Once(l) == \A i, j \in DOMAIN l : l[i] = l[j] /\ i # j => l[i] = 0
Els(l)  == {l[i] : i \in DOMAIN l} \ {0}

(* The end of a sequence. *)
LEMMA Suffix ==
  ASSUME NEW S, NEW l \in Seq(S), NEW k \in 0..Len(l)
  PROVE  LET m == SubSeq(l, k + 1, Len(l)) IN
         /\ m \in Seq(S) /\ Len(m) = Len(l) - k
         /\ \A i \in 1..(Len(l) - k) : m[i] = l[k + i]
<1> DEFINE m == SubSeq(l, k + 1, Len(l))
<1>1. m = [i \in 1..(Len(l) - k) |-> l[i + k]]
  OBVIOUS
<1>2. Len(l) - k \in Nat /\ Len(l) \in Nat
  OBVIOUS
<1>3. \A i \in 1..(Len(l) - k) : l[i + k] \in S
  BY <1>2
<1>4. m \in Seq(S) /\ Len(m) = Len(l) - k
  BY <1>1, <1>2, <1>3
<1> QED BY <1>1, <1>2, <1>4

LEMMA SuffixEls ==
  ASSUME NEW S \in SUBSET Nat, NEW l \in Seq(S), NEW k \in 0..Len(l), Once(l)
  PROVE  LET m == SubSeq(l, k + 1, Len(l)) IN
         /\ Once(m) /\ Els(m) \subseteq Els(l)
         /\ (\A i \in 1..k : l[i] = 0) => Els(m) = Els(l)
         /\ (\A i \in 1..(k - 1) : l[i] = 0) /\ k > 0 => Els(m) = Els(l) \ {l[k]}
<1> DEFINE m == SubSeq(l, k + 1, Len(l))
<1>1. /\ m \in Seq(S) /\ Len(m) = Len(l) - k
      /\ \A i \in 1..(Len(l) - k) : m[i] = l[k + i]
  BY Suffix
<1> HIDE DEF m
<1>2. DOMAIN m = 1..(Len(l) - k) /\ DOMAIN l = 1..Len(l) /\ Len(l) \in Nat
  BY <1>1
<1>3. Once(m)
  <2> SUFFICES ASSUME NEW i \in DOMAIN m, NEW j \in DOMAIN m, m[i] = m[j], i # j
               PROVE  m[i] = 0
    BY DEF Once
  <2>1. /\ k + i \in DOMAIN l /\ k + j \in DOMAIN l /\ k + i # k + j
        /\ m[i] = l[k + i] /\ m[j] = l[k + j]
    BY <1>1, <1>2
  <2> QED BY <2>1 DEF Once
<1>4. Els(m) \subseteq Els(l)
  <2> SUFFICES ASSUME NEW i \in DOMAIN m PROVE m[i] \in {l[j] : j \in DOMAIN l}
    BY DEF Els
  <2>1. k + i \in DOMAIN l /\ m[i] = l[k + i]
    BY <1>1, <1>2
  <2> QED BY <2>1
<1>5. ASSUME NEW j \in DOMAIN l, j > k PROVE l[j] \in {m[i] : i \in DOMAIN m}
  <2>1. j - k \in DOMAIN m /\ m[j - k] = l[j]
    BY <1>1, <1>2, <1>5
  <2> QED BY <2>1
<1>6. ASSUME \A i \in 1..k : l[i] = 0 PROVE Els(m) = Els(l)
  <2>1. Els(l) \subseteq Els(m)
    BY <1>2, <1>5, <1>6 DEF Els
  <2> QED BY <1>4, <2>1
<1>7. ASSUME \A i \in 1..(k - 1) : l[i] = 0, k > 0 PROVE Els(m) = Els(l) \ {l[k]}
  <2>1. Els(l) \ {l[k]} \subseteq Els(m)
    BY <1>2, <1>5, <1>7 DEF Els
  <2>2. l[k] \notin Els(m)
    <3> SUFFICES ASSUME NEW i \in DOMAIN m, m[i] = l[k] PROVE l[k] = 0
      BY DEF Els
    <3>1. k + i \in DOMAIN l /\ k \in DOMAIN l /\ l[k + i] = l[k] /\ k + i # k
      BY <1>1, <1>2, <1>7
    <3> QED BY <3>1 DEF Once
  <2> QED BY <1>4, <2>1, <2>2
<1> QED BY <1>3, <1>4, <1>6, <1>7 DEF m

LEMMA AppendEls ==
  ASSUME NEW S \in SUBSET Nat, NEW l \in Seq(S), NEW n \in S \ {0}, n \notin Els(l), Once(l)
  PROVE  Append(l, n) \in Seq(S) /\ Once(Append(l, n)) /\ Els(Append(l, n)) = Els(l) \cup {n}
<1> DEFINE m == Append(l, n)
<1>1. /\ m \in Seq(S) /\ DOMAIN m = 1..(Len(l) + 1) /\ m[Len(l) + 1] = n
      /\ \A i \in 1..Len(l) : m[i] = l[i]
      /\ DOMAIN l = 1..Len(l) /\ Len(l) \in Nat
  OBVIOUS
<1> HIDE DEF m
<1>2. \A i \in DOMAIN m : i \in DOMAIN l \/ i = Len(l) + 1
  BY <1>1
<1>3. \A i \in DOMAIN l : i \in DOMAIN m /\ m[i] = l[i] /\ i # Len(l) + 1
  BY <1>1
<1>4. \A i \in DOMAIN l : l[i] # n
  BY DEF Els
<1>5. Once(m)
  BY <1>1, <1>2, <1>3, <1>4 DEF Once
<1>6. Els(m) = Els(l) \cup {n}
  BY <1>1, <1>2, <1>3 DEF Els
<1> QED BY <1>1, <1>5, <1>6 DEF m

LEMMA WiderSeq ==
  ASSUME NEW S, NEW T, S \subseteq T, NEW l \in Seq(S)
  PROVE  l \in Seq(T)
OBVIOUS

(* Behind is what is left of a band without the stale entries ahead.       *)
LEMMA BehindIs ==
  ASSUME QueueType, NEW s \in Slots, NEW b \in Priorities
  PROVE  \E k \in 0..Len(line[s][b]) :
           /\ Behind(s, b) = SubSeq(line[s][b], k + 1, Len(line[s][b]))
           /\ \A i \in 1..k : line[s][b][i] = 0
           /\ k < Len(line[s][b]) => line[s][b][k + 1] # 0
<1> DEFINE l == line[s][b]
           Z == {i \in 1..(Len(l) + 1) : i \notin Stale(s, b)}
<1>1. l \in Seq(0..Len(msgs)) /\ DOMAIN l = 1..Len(l) /\ Len(l) \in Nat
  BY DEF QueueType
<1>2. Stale(s, b) = {i \in 1..Len(l) : \A j \in 1..i : l[j] = 0}
  BY <1>1 DEF Stale
<1> HIDE DEF l
<1>3. Z \in SUBSET Nat /\ Len(l) + 1 \in Z
  BY <1>1, <1>2
<1>4. PICK z \in Z : \A y \in Z : z <= y
  BY <1>3, NatMin
<1>5. z \in 1..(Len(l) + 1) /\ z \notin Stale(s, b)
  OBVIOUS
<1>6. Stale(s, b) = 1..(z - 1)
  <2>1. ASSUME NEW i \in 1..(z - 1) PROVE i \in Stale(s, b)
    <3>1. i \in 1..(Len(l) + 1) /\ i < z
      BY <1>1, <1>5
    <3> QED BY <1>4, <3>1
  <2>2. ASSUME NEW i \in Stale(s, b) PROVE i \in 1..(z - 1)
    <3>1. i \in 1..Len(l) /\ \A j \in 1..i : l[j] = 0
      BY <1>2
    <3>2. z <= i => z \in Stale(s, b)
      BY <1>1, <1>2, <1>5, <3>1
    <3> QED BY <1>1, <1>5, <3>1, <3>2
  <2> QED BY <2>1, <2>2
<1>7. Cardinality(Stale(s, b)) = z - 1
  BY <1>1, <1>5, <1>6, FS_Interval
<1>8. z - 1 \in 0..Len(l) /\ \A i \in 1..(z - 1) : l[i] = 0
  BY SMTT(30), <1>1, <1>2, <1>5, <1>6
<1>9. z - 1 < Len(l) => l[(z - 1) + 1] # 0
  <2> SUFFICES ASSUME z - 1 < Len(l), l[z] = 0 PROVE z \in Stale(s, b)
    BY <1>1, <1>5
  <2>1. \A j \in 1..z : l[j] = 0
    BY <1>1, <1>5, <1>8
  <2> QED BY <1>1, <1>2, <1>5, <2>1
<1> QED BY <1>7, <1>8, <1>9 DEF Behind, l

(* The hint is a band of the slot, and the head's number a natural. *)
LEMMA HintIs ==
  ASSUME QueueType, NEW s \in Slots
  PROVE  /\ Hint(s) \in Nat /\ (Hint(s) # 0 => Hint(s) - 1 \in Priorities)
         /\ HeadSeq(s) \in Nat
<1> DEFINE S == {p \in Priorities : line[s][p] # <<>>}
<1>1. S \in SUBSET Nat /\ \A p \in S : p <= 100
  <2>1. \A p \in Priorities : p \in Nat /\ p <= 100
    BY EngineAssumption
  <2> QED BY <2>1
<1>2. S # {} => \E p \in S : \A q \in S : q <= p
  BY <1>1, NatMax
<1>3. S = {} => Hint(s) = 0
  BY DEF Hint
<1>4. S # {} => /\ Hint(s) - 1 \in Priorities /\ Hint(s) \in Nat /\ Hint(s) # 0
                /\ line[s][Hint(s) - 1] # <<>>
  <2> SUFFICES ASSUME S # {} PROVE /\ Hint(s) - 1 \in Priorities /\ Hint(s) \in Nat
                                   /\ Hint(s) # 0 /\ line[s][Hint(s) - 1] # <<>>
    OBVIOUS
  <2> DEFINE h == CHOOSE p \in Priorities : /\ line[s][p] # <<>>
                                            /\ \A q \in Priorities : line[s][q] # <<>> => q <= p
  <2>1. h \in Priorities /\ line[s][h] # <<>>
    BY <1>2
  <2>2. Hint(s) = 1 + h
    BY DEF Hint
  <2> HIDE DEF h
  <2> QED BY <2>1, <2>2, EngineAssumption
<1>5. HeadSeq(s) \in Nat
  <2>1. NoHead \in Nat
    BY EngineAssumption DEF NoHead
  <2>2. CASE S = {}
    BY <1>3, <2>1, <2>2 DEF HeadSeq
  <2>3. CASE S # {}
    <3> DEFINE b == line[s][Hint(s) - 1]
               live == {i \in DOMAIN b : b[i] # 0}
               i == CHOOSE j \in live : \A k \in live : j <= k
    <3>1. b \in Seq(0..Len(msgs)) /\ Len(msgs) \in Nat
      BY <1>4, <2>3 DEF QueueType
    <3>2. live # {} => b[i] \in Nat
      <4>1. live \in SUBSET Nat
        BY <3>1
      <4>2. live # {} => i \in live
        <5> HIDE DEF live
        <5> QED BY <4>1, NatMin
      <4> HIDE DEF i
      <4> QED BY <3>1, <4>2
    <3> HIDE DEF b
    <3>3. HeadSeq(s) = IF Hint(s) = 0 \/ live = {} THEN NoHead ELSE b[i]
      BY DEF HeadSeq, b
    <3> HIDE DEF live, i
    <3> QED BY <2>1, <3>2, <3>3
  <2> QED BY <2>2, <2>3
<1> QED BY <1>3, <1>4, <1>5

-----------------------------------------------------------------------------
(* What the queue holds *)

On(n) == lease[n] # Nobody \/ n \in Els(line[msgs[n].slot][msgs[n].prio])

(* The queue's invariant, band by band. *)
Bands ==
  \A s \in Slots, p \in Priorities :
    /\ Once(line[s][p])
    /\ \A n \in Els(line[s][p]) : lease[n] = Nobody /\ msgs[n] = [slot |-> s, prio |-> p]

LEMMA BandsThere == NotTwice <=> Bands
BY DEF NotTwice, Bands, Once, Els, Listed

LEMMA BandsNext == NotTwice' <=> Bands'
BY BandsThere, PTL

(* A message that is held is in the slot and the band it was enqueued to,  *)
(* or out.                                                                 *)
HeldIs ==
  /\ AllHeld = {n \in 1..Len(msgs) : On(n)}
  /\ \A s \in Slots : Held(s) = {n \in 1..Len(msgs) : msgs[n].slot = s /\ On(n)}

(* What a message is. *)
LEMMA MessageIs ==
  ASSUME QueueType, NEW n \in 1..Len(msgs)
  PROVE  /\ msgs[n].slot \in Slots /\ msgs[n].prio \in Priorities
         /\ n \in Messages /\ n \in Nat /\ n # 0
<1>1. msgs[n] \in [slot : Slots, prio : Priorities]
  BY ElementOfSeq DEF QueueType
<1>2. n \in Messages
  BY EngineAssumption DEF QueueType, Messages
<1> QED BY <1>1, <1>2

LEMMA HeldThere == QueueInv => HeldIs
<1> SUFFICES ASSUME QueueInv PROVE HeldIs
  OBVIOUS
<1>1. ASSUME NEW s \in Slots, NEW p \in Priorities, NEW n \in Els(line[s][p])
      PROVE  n \in 1..Len(msgs) /\ msgs[n].slot = s /\ msgs[n].prio = p
  <2>1. line[s][p] \in Seq(0..Len(msgs)) /\ Len(msgs) \in Nat
    BY DEF QueueInv, QueueType
  <2>2. n \in 1..Len(msgs)
    BY <2>1 DEF Els
  <2>3. msgs[n] = [slot |-> s, prio |-> p]
    BY BandsThere DEF QueueInv, Bands
  <2> QED BY <2>2, <2>3
<1>2. ASSUME NEW n \in 1..Len(msgs)
      PROVE  msgs[n].slot \in Slots /\ msgs[n].prio \in Priorities /\ n \in Messages
  BY MessageIs DEF QueueInv
<1>3. DOMAIN msgs = 1..Len(msgs)
  BY DEF QueueInv, QueueType
<1>4. ASSUME NEW s \in Slots
      PROVE  Held(s) = {n \in 1..Len(msgs) : msgs[n].slot = s /\ On(n)}
  <2>1. ASSUME NEW n \in Held(s) PROVE n \in 1..Len(msgs) /\ msgs[n].slot = s /\ On(n)
    <3>1. CASE n \in Leased(s)
      BY <1>3, <3>1 DEF Leased, On
    <3>2. CASE n \in Ready(s)
      <4>1. PICK p \in Priorities : n \in Els(line[s][p])
        BY <3>2 DEF Ready, Listed, Els
      <4> QED BY <1>1, <4>1 DEF On
    <3> QED BY <3>1, <3>2 DEF Held
  <2>2. ASSUME NEW n \in 1..Len(msgs), msgs[n].slot = s, On(n) PROVE n \in Held(s)
    <3>1. CASE lease[n] # Nobody
      BY <1>3, <2>2, <3>1 DEF Held, Leased
    <3>2. CASE n \in Els(line[s][msgs[n].prio])
      BY <1>2, <3>2 DEF Held, Ready, Listed, Els
    <3> QED BY <2>2, <3>1, <3>2 DEF On
  <2> QED BY <2>1, <2>2
<1>5. AllHeld = {n \in 1..Len(msgs) : On(n)}
  <2>1. ASSUME NEW n \in AllHeld PROVE n \in 1..Len(msgs) /\ On(n)
    <3>1. PICK s \in Slots : n \in Held(s)
      BY DEF AllHeld
    <3> QED BY <1>4, <3>1
  <2>2. ASSUME NEW n \in 1..Len(msgs), On(n) PROVE n \in AllHeld
    <3>1. n \in Held(msgs[n].slot)
      BY <1>2, <1>4, <2>2
    <3> QED BY <1>2, <3>1 DEF AllHeld
  <2> QED BY <2>1, <2>2
<1> QED BY <1>4, <1>5 DEF HeldIs

LEMMA HeldNext == QueueInv' => HeldIs'
BY HeldThere, PTL

(* Holdings are finite. *)
LEMMA HeldFinite ==
  ASSUME QueueInv, NEW S \in SUBSET AllHeld
  PROVE  IsFiniteSet(S) /\ Cardinality(S) \in Nat
<1>1. Len(msgs) \in Nat /\ AllHeld \subseteq 1..Len(msgs)
  BY HeldThere DEF HeldIs, QueueInv, QueueType
<1>2. IsFiniteSet(S)
  <2>1. IsFiniteSet(1..Len(msgs)) /\ S \subseteq 1..Len(msgs)
    BY <1>1, FS_Interval
  <2> QED BY <2>1, FS_Subset
<1> QED BY <1>2, FS_CardinalityType

(* Something leaves the queue. *)
LEMMA HeldLess ==
  ASSUME QueueInv, NEW R \in SUBSET AllHeld
  PROVE  Cardinality(AllHeld \ R) = Cardinality(AllHeld) - Cardinality(R)
<1>1. IsFiniteSet(AllHeld) /\ AllHeld \cap R = R
  BY HeldFinite
<1> QED BY <1>1, FS_Difference

-----------------------------------------------------------------------------
(* The steps of the queue *)

LEMMA LinePut ==
  ASSUME NEW S, NEW L \in [Slots -> [Priorities -> S]], NEW s \in Slots, NEW p \in Priorities,
         NEW x \in S
  PROVE  LET M == [L EXCEPT ![s][p] = x] IN
         /\ M \in [Slots -> [Priorities -> S]] /\ M[s][p] = x
         /\ \A t \in Slots, q \in Priorities : t # s \/ q # p => M[t][q] = L[t][q]
OBVIOUS

(* A message gets in. *)
LEMMA EnterStep ==
  ASSUME QueueInv, NEW s \in Slots, NEW pr \in Priorities, Enter(s, pr),
         lapsed' = lapsed, frozen' = frozen
  PROVE  /\ QueueInv' /\ Len(msgs') = Len(msgs) + 1
         /\ AllHeld' = AllHeld \cup {Len(msgs) + 1} /\ Len(msgs) + 1 \notin AllHeld
         /\ \A t \in Slots : Held(t)' = Held(t) \cup (IF t = s THEN {Len(msgs) + 1} ELSE {})
<1>0. PICK n \in Nat : n = Len(msgs) + 1
  BY DEF QueueInv, QueueType
<1> DEFINE new == [slot |-> s, prio |-> pr]
<1>1. /\ Len(msgs) \in Nat /\ n = Len(msgs) + 1 /\ n <= MaxMessages /\ n \in Messages /\ n # 0
      /\ msgs' = Append(msgs, new) /\ lease' = lease
      /\ line' = [line EXCEPT ![s][pr] = Append(line[s][pr], n)]
  BY <1>0, EngineAssumption DEF QueueInv, QueueType, Enter, Messages
<1>2. new \in [slot : Slots, prio : Priorities] /\ new.slot = s /\ new.prio = pr
  OBVIOUS
<1>3. /\ Len(msgs') = n /\ msgs' \in Seq([slot : Slots, prio : Priorities])
      /\ msgs'[n] = new /\ \A m \in 1..Len(msgs) : msgs'[m] = msgs[m]
  BY <1>1, <1>2 DEF QueueInv, QueueType
<1>5. ASSUME NEW t \in Slots, NEW p \in Priorities
      PROVE  /\ line[t][p] \in Seq(0..n) /\ Once(line[t][p]) /\ Els(line[t][p]) \subseteq 1..Len(msgs)
             /\ \A m \in Els(line[t][p]) : lease[m] = Nobody /\ msgs[m] = [slot |-> t, prio |-> p]
  <2>1. line[t][p] \in Seq(0..Len(msgs))
    BY DEF QueueInv, QueueType
  <2>2. line[t][p] \in Seq(0..n)
    <3>1. 0..Len(msgs) \subseteq 0..n
      BY <1>1
    <3> QED BY <2>1, <3>1, WiderSeq
  <2>3. Els(line[t][p]) \subseteq 1..Len(msgs)
    BY <1>1, <2>1 DEF Els
  <2> QED BY <2>2, <2>3, BandsThere DEF QueueInv, Bands
<1>6. lease[n] = Nobody
  BY <1>1 DEF QueueInv
<1>7. LET x == Append(line[s][pr], n) IN
      x \in Seq(0..n) /\ Once(x) /\ Els(x) = Els(line[s][pr]) \cup {n}
  <2>1. 0..n \in SUBSET Nat /\ n \in (0..n) \ {0} /\ n \notin Els(line[s][pr])
    BY <1>1, <1>5
  <2> DEFINE l == line[s][pr]
  <2>2. l \in Seq(0..n) /\ Once(l) /\ n \notin Els(l)
    BY <1>5, <2>1
  <2> HIDE DEF l
  <2>3. Append(l, n) \in Seq(0..n) /\ Once(Append(l, n)) /\ Els(Append(l, n)) = Els(l) \cup {n}
    BY <2>1, <2>2, AppendEls
  <2> QED BY <2>3 DEF l
<1>4. /\ line' \in [Slots -> [Priorities -> Seq(0..n)]]
      /\ Once(line'[s][pr]) /\ Els(line'[s][pr]) = Els(line[s][pr]) \cup {n}
      /\ \A t \in Slots, p \in Priorities : t # s \/ p # pr => line'[t][p] = line[t][p]
  <2>1. line \in [Slots -> [Priorities -> Seq(0..n)]]
    BY <1>5 DEF QueueInv, QueueType
  <2> DEFINE x == Append(line[s][pr], n)
  <2>2. line' = [line EXCEPT ![s][pr] = x] /\ x \in Seq(0..n)
    BY <1>1, <1>7
  <2> HIDE DEF x
  <2>3. /\ line' \in [Slots -> [Priorities -> Seq(0..n)]] /\ line'[s][pr] = x
        /\ \A t \in Slots, p \in Priorities : t # s \/ p # pr => line'[t][p] = line[t][p]
    BY <2>1, <2>2, LinePut
  <2> QED BY <1>7, <2>3 DEF x
<1>8. ASSUME NEW t \in Slots, NEW p \in Priorities
      PROVE  /\ line'[t][p] \in Seq(0..n) /\ Once(line'[t][p])
             /\ \A m \in Els(line'[t][p]) : lease'[m] = Nobody /\ msgs'[m] = [slot |-> t, prio |-> p]
  <2>1. CASE t = s /\ p = pr
    BY <1>1, <1>3, <1>4, <1>5, <1>6, <2>1
  <2>2. CASE ~(t = s /\ p = pr)
    BY <1>1, <1>3, <1>4, <1>5, <2>2
  <2> QED BY <2>1, <2>2
<1>9. QueueType'
  <2>1. lapsed' \subseteq 1..n
    BY <1>1 DEF QueueInv, QueueType
  <2> QED BY <1>1, <1>3, <1>4, <2>1 DEF QueueInv, QueueType
<1>10. QueueInv'
  <2>1. Bands'
    BY <1>8 DEF Bands
  <2>2. \A m \in Messages : lease'[m] # Nobody => m <= Len(msgs')
    BY <1>1, <1>3 DEF QueueInv, Messages
  <2> QED BY <1>9, <2>1, <2>2, BandsNext DEF QueueInv
<1>11. HeldIs /\ HeldIs'
  BY <1>10, HeldThere, HeldNext
<1>12. ASSUME NEW m \in 1..Len(msgs) PROVE (On(m)' <=> On(m)) /\ msgs'[m] = msgs[m]
  <2>1. msgs'[m] = msgs[m] /\ msgs[m].slot \in Slots /\ msgs[m].prio \in Priorities /\ m # n
    BY <1>1, <1>3, MessageIs DEF QueueInv
  <2>2. m \in Els(line'[msgs[m].slot][msgs[m].prio]) <=> m \in Els(line[msgs[m].slot][msgs[m].prio])
    BY <1>4, <2>1
  <2> QED BY <1>1, <2>1, <2>2 DEF On
<1>13. On(n)' /\ msgs'[n].slot = s
  <2>1. msgs'[n].slot = s /\ msgs'[n].prio = pr
    BY <1>3
  <2>2. n \in Els(line'[s][pr])
    BY <1>4
  <2> QED BY <2>1, <2>2 DEF On
<1>14. 1..Len(msgs') = (1..Len(msgs)) \cup {n} /\ n \notin 1..Len(msgs)
  BY <1>1, <1>3
<1> HIDE DEF new
<1>15. AllHeld' = AllHeld \cup {n} /\ n \notin AllHeld
  BY <1>11, <1>12, <1>13, <1>14 DEF HeldIs
<1>16. ASSUME NEW t \in Slots PROVE Held(t)' = Held(t) \cup (IF t = s THEN {n} ELSE {})
  <2>1. /\ Held(t) = {m \in 1..Len(msgs) : msgs[m].slot = t /\ On(m)}
        /\ Held(t)' = {m \in 1..Len(msgs') : msgs'[m].slot = t /\ On(m)'}
    BY <1>11 DEF HeldIs
  <2> QED BY <1>12, <1>13, <1>14, <2>1
<1> QED BY <1>1, <1>3, <1>10, <1>15, <1>16

(* What is listed has been enqueued to the slot and the band. *)
LEMMA ElsIn ==
  ASSUME QueueInv, NEW s \in Slots, NEW p \in Priorities
  PROVE  /\ line[s][p] \in Seq(0..Len(msgs)) /\ Once(line[s][p]) /\ Len(msgs) \in Nat
         /\ Els(line[s][p]) \subseteq 1..Len(msgs)
         /\ \A n \in Els(line[s][p]) :
              /\ lease[n] = Nobody /\ n \in Messages
              /\ msgs[n].slot = s /\ msgs[n].prio = p /\ msgs[n] = [slot |-> s, prio |-> p]
<1>1. /\ line[s][p] \in Seq(0..Len(msgs)) /\ Len(msgs) \in Nat
      /\ \A i \in DOMAIN line[s][p] : line[s][p][i] \in 0..Len(msgs)
  BY DEF QueueInv, QueueType
<1>2. Els(line[s][p]) \subseteq 1..Len(msgs)
  BY <1>1 DEF Els
<1>3. /\ Once(line[s][p])
      /\ \A n \in Els(line[s][p]) : lease[n] = Nobody /\ msgs[n] = [slot |-> s, prio |-> p]
  BY BandsThere DEF QueueInv, Bands
<1>4. \A n \in Els(line[s][p]) : n \in Messages
  BY <1>2, MessageIs DEF QueueInv
<1>5. [slot |-> s, prio |-> p].slot = s /\ [slot |-> s, prio |-> p].prio = p
  OBVIOUS
<1> QED BY <1>1, <1>2, <1>3, <1>4, <1>5

LEMMA ElsAt ==
  ASSUME QueueInv, NEW s \in Slots, NEW p \in Priorities, NEW n, n \in Els(line[s][p])
  PROVE  /\ msgs[n].slot = s /\ msgs[n].prio = p
         /\ lease[n] = Nobody /\ n \in 1..Len(msgs) /\ n \in Messages
<1>1. msgs[n] = [slot |-> s, prio |-> p] /\ lease[n] = Nobody
  BY BandsThere DEF QueueInv, Bands
<1>2. n \in 1..Len(msgs)
  BY ElsIn
<1>3. n \in Messages
  BY <1>2, MessageIs DEF QueueInv
<1> QED BY <1>1, <1>2, <1>3

LEMMA ElsWhole ==
  ASSUME QueueInv, NEW s \in Slots, NEW p \in Priorities, NEW n, n \in Els(line[s][p])
  PROVE  msgs[n] = [slot |-> s, prio |-> p]
BY BandsThere DEF QueueInv, Bands

(* The bands of a slot change and perhaps some leases: the rest of the     *)
(* queue is as it was.                                                     *)
LEMMA SlotStep ==
  ASSUME QueueInv, NEW s \in Slots, NEW X \in [Priorities -> Seq(0..Len(msgs))],
         msgs' = msgs, line' = [line EXCEPT ![s] = X], lapsed' = lapsed, frozen' = frozen,
         lease' \in [Messages -> Consumers \cup {Nobody}],
         \A p \in Priorities : Once(X[p]),
         \A p \in Priorities : \A n \in Els(X[p]) :
           lease'[n] = Nobody /\ msgs[n] = [slot |-> s, prio |-> p],
         \A n \in Messages :
           \/ lease'[n] = lease[n]
           \/ n <= Len(msgs) /\ lease'[n] = Nobody
           \/ \E p \in Priorities : n \in Els(line[s][p])
  PROVE  /\ QueueInv' /\ Len(msgs') = Len(msgs)
         /\ \A n \in 1..Len(msgs) : On(n)' <=>
              \/ lease'[n] # Nobody
              \/ msgs[n].slot = s /\ n \in Els(X[msgs[n].prio])
              \/ msgs[n].slot # s /\ n \in Els(line[msgs[n].slot][msgs[n].prio])
<1>1. /\ line' \in [Slots -> [Priorities -> Seq(0..Len(msgs))]] /\ line'[s] = X
      /\ \A t \in Slots : t # s => line'[t] = line[t]
  BY DEF QueueInv, QueueType
<1>2. QueueType'
  BY <1>1 DEF QueueInv, QueueType
<1>3. ASSUME NEW n \in Messages, lease'[n] # Nobody PROVE n <= Len(msgs')
  <2>1. ASSUME NEW p \in Priorities, n \in Els(line[s][p]) PROVE n <= Len(msgs)
    <3>1. n \in 1..Len(msgs) /\ Len(msgs) \in Nat
      BY <2>1, ElsIn
    <3> QED BY <3>1
  <2> QED BY <1>3, <2>1 DEF QueueInv
<1>4. ASSUME NEW t \in Slots, NEW q \in Priorities
      PROVE  /\ Once(line'[t][q])
             /\ \A n \in Els(line'[t][q]) : lease'[n] = Nobody /\ msgs'[n] = [slot |-> t, prio |-> q]
  <2>1. CASE t = s
    BY <1>1, <2>1
  <2>2. CASE t # s
    <3>1. line'[t][q] = line[t][q] /\ Once(line[t][q])
      BY <1>1, <2>2, ElsIn
    <3>2. ASSUME NEW n \in Els(line[t][q])
          PROVE  lease'[n] = Nobody /\ msgs'[n] = [slot |-> t, prio |-> q]
      <4>1. /\ lease[n] = Nobody /\ n \in Messages /\ msgs[n].slot = t
            /\ msgs[n] = [slot |-> t, prio |-> q]
        BY <3>2, ElsIn
      <4>2. ASSUME NEW p \in Priorities, n \in Els(line[s][p]) PROVE FALSE
        <5>1. msgs[n].slot = s
          BY <4>2, ElsAt
        <5> QED BY <2>2, <4>1, <5>1
      <4> QED BY <4>1, <4>2
    <3> QED BY <3>1, <3>2
  <2> QED BY <2>1, <2>2
<1>5. QueueInv'
  <2>1. Bands'
    BY <1>4 DEF Bands
  <2> QED BY <1>2, <1>3, <2>1, BandsNext DEF QueueInv
<1>6. ASSUME NEW n \in 1..Len(msgs)
      PROVE  On(n)' <=>
              \/ lease'[n] # Nobody
              \/ msgs[n].slot = s /\ n \in Els(X[msgs[n].prio])
              \/ msgs[n].slot # s /\ n \in Els(line[msgs[n].slot][msgs[n].prio])
  <2>1. msgs[n].slot \in Slots /\ msgs[n].prio \in Priorities
    BY MessageIs DEF QueueInv
  <2> QED BY <1>1, <2>1 DEF On
<1> QED BY <1>5, <1>6

(* The same for one band. *)
LEMMA BandStep ==
  ASSUME QueueInv, NEW s \in Slots, NEW b \in Priorities, NEW x \in Seq(0..Len(msgs)), Once(x),
         msgs' = msgs, line' = [line EXCEPT ![s][b] = x], lapsed' = lapsed, frozen' = frozen,
         lease' \in [Messages -> Consumers \cup {Nobody}],
         \A n \in Els(x) : lease'[n] = Nobody /\ msgs[n] = [slot |-> s, prio |-> b],
         \A n \in Messages :
           \/ lease'[n] = lease[n]
           \/ n <= Len(msgs) /\ lease'[n] = Nobody
           \/ n \in Els(line[s][b])
  PROVE  /\ QueueInv' /\ Len(msgs') = Len(msgs)
         /\ \A n \in 1..Len(msgs) : On(n)' <=>
              \/ lease'[n] # Nobody
              \/ msgs[n].slot = s /\ msgs[n].prio = b /\ n \in Els(x)
              \/ (msgs[n].slot # s \/ msgs[n].prio # b)
                   /\ n \in Els(line[msgs[n].slot][msgs[n].prio])
<1> DEFINE X == [line[s] EXCEPT ![b] = x]
<1>1. /\ line' = [line EXCEPT ![s] = X] /\ X \in [Priorities -> Seq(0..Len(msgs))]
      /\ X[b] = x /\ \A p \in Priorities : p # b => X[p] = line[s][p]
  BY DEF QueueInv, QueueType
<1> HIDE DEF X
<1>2. ASSUME NEW p \in Priorities
      PROVE  /\ Once(X[p])
             /\ \A n \in Els(X[p]) : lease'[n] = Nobody /\ msgs[n] = [slot |-> s, prio |-> p]
  <2>1. CASE p = b
    BY <1>1, <2>1
  <2>2. CASE p # b
    <3>1. X[p] = line[s][p] /\ Once(line[s][p])
      BY <1>1, <2>2, ElsIn
    <3>2. ASSUME NEW n \in Els(line[s][p])
          PROVE  lease'[n] = Nobody /\ msgs[n] = [slot |-> s, prio |-> p]
      <4>1. /\ lease[n] = Nobody /\ n \in Messages /\ msgs[n].prio = p
            /\ msgs[n] = [slot |-> s, prio |-> p]
        BY <3>2, ElsIn
      <4>2. ASSUME n \in Els(line[s][b]) PROVE FALSE
        <5>1. msgs[n].prio = b
          BY <4>2, ElsIn
        <5> QED BY <2>2, <4>1, <5>1
      <4> QED BY <4>1, <4>2
    <3> QED BY <3>1, <3>2
  <2> QED BY <2>1, <2>2
<1>3. /\ QueueInv' /\ Len(msgs') = Len(msgs)
      /\ \A n \in 1..Len(msgs) : On(n)' <=>
           \/ lease'[n] # Nobody
           \/ msgs[n].slot = s /\ n \in Els(X[msgs[n].prio])
           \/ msgs[n].slot # s /\ n \in Els(line[msgs[n].slot][msgs[n].prio])
  <2>1. \A p \in Priorities : Once(X[p])
    BY <1>2
  <2>2. \A p \in Priorities : \A n \in Els(X[p]) :
          lease'[n] = Nobody /\ msgs[n] = [slot |-> s, prio |-> p]
    BY <1>2
  <2>3. \A n \in Messages :
           \/ lease'[n] = lease[n]
           \/ n <= Len(msgs) /\ lease'[n] = Nobody
           \/ \E p \in Priorities : n \in Els(line[s][p])
    OBVIOUS
  <2> QED BY <1>1, <2>1, <2>2, <2>3, SlotStep
<1>4. \A n \in 1..Len(msgs) : msgs[n].prio \in Priorities
  BY MessageIs DEF QueueInv
<1> QED BY <1>1, <1>3, <1>4

(* The queue is where it was, but that R has gone. *)
LEMMA Goes ==
  ASSUME QueueInv, QueueInv', msgs' = msgs, NEW R \in SUBSET AllHeld,
         \A n \in 1..Len(msgs) : On(n)' <=> On(n) /\ n \notin R
  PROVE  AllHeld' = AllHeld \ R /\ \A s \in Slots : Held(s)' = Held(s) \ R
<1>1. HeldIs /\ HeldIs'
  BY HeldThere, HeldNext
<1>2. AllHeld' = AllHeld \ R
  BY <1>1 DEF HeldIs
<1>3. ASSUME NEW s \in Slots PROVE Held(s)' = Held(s) \ R
  <2>1. /\ Held(s) = {m \in 1..Len(msgs) : msgs[m].slot = s /\ On(m)}
        /\ Held(s)' = {m \in 1..Len(msgs') : msgs'[m].slot = s /\ On(m)'}
    BY <1>1 DEF HeldIs
  <2> QED BY <2>1
<1> QED BY <1>2, <1>3

(* A band is not served from behind its stale entries. *)
LEMMA HeadOfBand ==
  ASSUME QueueInv, NEW s \in Slots, NEW b \in Priorities
  PROVE  LET rest == Behind(s, b) IN
         /\ rest = <<>> => Els(line[s][b]) = {}
         /\ rest # <<>> => /\ Head(rest) \in Els(line[s][b])
                           /\ Tail(rest) \in Seq(0..Len(msgs)) /\ Once(Tail(rest))
                           /\ Els(Tail(rest)) = Els(line[s][b]) \ {Head(rest)}
<1>1. \E l : l = line[s][b]
  OBVIOUS
<1>2. PICK l : l = line[s][b]
  BY <1>1
<1>3. l \in Seq(0..Len(msgs)) /\ Once(l) /\ Len(msgs) \in Nat
  BY <1>2, ElsIn
<1>4. \E S \in SUBSET Nat : S = 0..Len(msgs)
  BY <1>3
<1>5. PICK S \in SUBSET Nat : S = 0..Len(msgs)
  BY <1>4
<1>6. PICK k \in 0..Len(l) :
        /\ Behind(s, b) = SubSeq(l, k + 1, Len(l))
        /\ \A i \in 1..k : l[i] = 0
        /\ k < Len(l) => l[k + 1] # 0
  BY <1>2, BehindIs DEF QueueInv
<1> DEFINE rest == SubSeq(l, k + 1, Len(l))
<1>7. l \in Seq(S)
  BY <1>3, <1>5
<1>8. /\ rest \in Seq(S) /\ Len(rest) = Len(l) - k
      /\ \A i \in 1..(Len(l) - k) : rest[i] = l[k + i]
  BY <1>7, Suffix
<1>9. Once(rest) /\ Els(rest) = Els(l)
  BY <1>3, <1>6, <1>7, SuffixEls
<1>10. Len(l) \in Nat /\ Len(rest) \in Nat
  BY <1>7, <1>8
<1> HIDE DEF rest
<1>11. rest = <<>> => Els(l) = {}
  <2>1. Els(<<>>) = {}
    BY DEF Els
  <2> QED BY <1>9, <2>1
<1>12. ASSUME rest # <<>>
       PROVE  /\ Head(rest) \in Els(l) /\ Tail(rest) \in Seq(S) /\ Once(Tail(rest))
              /\ Els(Tail(rest)) = Els(l) \ {Head(rest)}
  <2>1. /\ Len(rest) > 0 /\ 1 \in DOMAIN rest /\ Head(rest) = rest[1]
        /\ 1 \in 0..Len(rest) /\ Tail(rest) \in Seq(S)
    BY <1>8, <1>10, <1>12
  <2>2. rest[1] # 0
    <3>1. k < Len(l) /\ 1 \in 1..(Len(l) - k)
      BY <1>8, <1>10, <2>1
    <3> QED BY <1>6, <1>8, <3>1
  <2>3. Tail(rest) = SubSeq(rest, 1 + 1, Len(rest))
    BY <1>8, <1>10, <2>1
  <2>4. /\ Once(SubSeq(rest, 1 + 1, Len(rest)))
        /\ Els(SubSeq(rest, 1 + 1, Len(rest))) = Els(rest) \ {rest[1]}
    <3>1. \A i \in 1..(1 - 1) : rest[i] = 0
      OBVIOUS
    <3> QED BY SMTT(30), <1>8, <1>9, <2>1, <3>1, SuffixEls
  <2>5. rest[1] \in Els(rest)
    BY <2>1, <2>2 DEF Els
  <2> QED BY <1>9, <2>1, <2>3, <2>4, <2>5
<1> QED BY <1>2, <1>5, <1>6, <1>11, <1>12 DEF rest

(* A message leaves its band, whether somebody got it or nobody. *)
LEMMA BandLess ==
  ASSUME QueueInv, NEW s \in Slots, NEW b \in Priorities, NEW h \in Els(line[s][b]),
         NEW x \in Seq(0..Len(msgs)), Once(x), Els(x) = Els(line[s][b]) \ {h},
         NEW c \in Consumers \cup {Nobody},
         msgs' = msgs, line' = [line EXCEPT ![s][b] = x], lapsed' = lapsed, frozen' = frozen,
         lease' = [lease EXCEPT ![h] = c]
  PROVE  /\ QueueInv' /\ Len(msgs') = Len(msgs)
         /\ \A n \in 1..Len(msgs) : On(n)' <=> On(n) /\ (n # h \/ c # Nobody)
<1>1. ASSUME NEW n \in Els(line[s][b])
      PROVE  /\ lease[n] = Nobody /\ n \in 1..Len(msgs) /\ n \in Messages
             /\ msgs[n] = [slot |-> s, prio |-> b] /\ msgs[n].slot = s /\ msgs[n].prio = b
  BY <1>1, ElsAt, ElsWhole
<1>2. lease \in [Messages -> Consumers \cup {Nobody}]
  BY DEF QueueInv, QueueType
<1>3. /\ lease' \in [Messages -> Consumers \cup {Nobody}] /\ lease'[h] = c
      /\ \A n \in Messages : n # h => lease'[n] = lease[n]
  BY <1>1, <1>2
<1>4. ASSUME NEW n \in Els(x) PROVE lease'[n] = Nobody /\ msgs[n] = [slot |-> s, prio |-> b]
  BY <1>1, <1>3
<1>5. /\ QueueInv' /\ Len(msgs') = Len(msgs)
      /\ \A n \in 1..Len(msgs) : On(n)' <=>
              \/ lease'[n] # Nobody
              \/ msgs[n].slot = s /\ msgs[n].prio = b /\ n \in Els(x)
              \/ (msgs[n].slot # s \/ msgs[n].prio # b)
                   /\ n \in Els(line[msgs[n].slot][msgs[n].prio])
  <2>1. \A n \in Els(x) : lease'[n] = Nobody /\ msgs[n] = [slot |-> s, prio |-> b]
    BY <1>4
  <2>2. \A n \in Messages :
           \/ lease'[n] = lease[n]
           \/ n <= Len(msgs) /\ lease'[n] = Nobody
           \/ n \in Els(line[s][b])
    BY <1>3
  <2> QED BY <1>3, <2>1, <2>2, BandStep
<1>6. ASSUME NEW n \in 1..Len(msgs)
      PROVE  On(n)' <=> On(n) /\ (n # h \/ c # Nobody)
  <2>1. n \in Messages
    BY MessageIs DEF QueueInv
  <2>2. CASE n = h
    BY <1>1, <1>3, <1>5, <2>1, <2>2 DEF On
  <2>3. CASE n # h
    BY <1>3, <1>5, <2>1, <2>3 DEF On
  <2> QED BY <2>2, <2>3
<1> QED BY <1>5, <1>6

(* A lease ends; its message goes back to its band, or does not. *)
LEMMA LeaseEnds ==
  ASSUME QueueInv, NEW n \in Messages, lease[n] # Nobody, msgs' = msgs,
         lapsed' = lapsed, frozen' = frozen, lease' = [lease EXCEPT ![n] = Nobody],
         NEW back \in BOOLEAN,
         back => line' = [line EXCEPT ![msgs[n].slot][msgs[n].prio] = Append(line[msgs[n].slot][msgs[n].prio], n)],
         ~back => line' = line
  PROVE  /\ QueueInv' /\ Len(msgs') = Len(msgs) /\ n \in AllHeld
         /\ \A m \in 1..Len(msgs) : On(m)' <=> On(m) /\ (m # n \/ back)
<1>1. n \in 1..Len(msgs) /\ Len(msgs) \in Nat /\ n # 0
  BY EngineAssumption DEF QueueInv, QueueType, Messages
<1>2. PICK s \in Slots, b \in Priorities : s = msgs[n].slot /\ b = msgs[n].prio
  BY <1>1, MessageIs DEF QueueInv
<1>3. n \in AllHeld
  BY <1>1, HeldThere DEF HeldIs, On
<1>4. msgs[n] = [slot |-> s, prio |-> b]
  <2>1. msgs[n] \in [slot : Slots, prio : Priorities]
    BY <1>1, ElementOfSeq DEF QueueInv, QueueType
  <2> QED BY <1>2, <2>1
<1>5. line[s][b] \in Seq(0..Len(msgs)) /\ Once(line[s][b]) /\ n \notin Els(line[s][b])
  <2>1. ASSUME n \in Els(line[s][b]) PROVE lease[n] = Nobody
    BY <2>1, ElsAt
  <2>2. line[s][b] \in Seq(0..Len(msgs)) /\ Once(line[s][b])
    BY ElsIn
  <2> QED BY <2>1, <2>2
<1>6. PICK x \in Seq(0..Len(msgs)) :
        /\ Once(x) /\ line' = [line EXCEPT ![s][b] = x]
        /\ Els(x) = Els(line[s][b]) \cup (IF back THEN {n} ELSE {})
  <2>1. PICK l \in Seq(0..Len(msgs)) : l = line[s][b]
    BY <1>5
  <2>2. CASE back
    <3>1. PICK S \in SUBSET Nat : S = 0..Len(msgs) /\ n \in S \ {0}
      <4>1. 0..Len(msgs) \in SUBSET Nat /\ n \in (0..Len(msgs)) \ {0}
        BY <1>1
      <4> QED BY <4>1
    <3>2. l \in Seq(S) /\ n \notin Els(l) /\ Once(l)
      BY <1>5, <2>1, <3>1
    <3>3. /\ Append(l, n) \in Seq(S) /\ Once(Append(l, n))
          /\ Els(Append(l, n)) = Els(l) \cup {n}
      BY <3>1, <3>2, AppendEls
    <3>4. Append(l, n) \in Seq(0..Len(msgs))
      BY <3>1, <3>3
    <3>5. line' = [line EXCEPT ![s][b] = Append(l, n)]
      BY <1>2, <2>1, <2>2
    <3> QED BY <2>1, <2>2, <3>3, <3>4, <3>5
  <2>3. CASE ~back
    <3>1. line' = [line EXCEPT ![s][b] = l]
      BY <2>1, <2>3 DEF QueueInv, QueueType
    <3> QED BY <1>5, <2>1, <2>3, <3>1
  <2> QED BY <2>2, <2>3
<1>7. /\ lease' \in [Messages -> Consumers \cup {Nobody}] /\ lease'[n] = Nobody
      /\ \A m \in Messages : m # n => lease'[m] = lease[m]
  BY DEF QueueInv, QueueType
<1>8. ASSUME NEW m \in Els(x) PROVE lease'[m] = Nobody /\ msgs[m] = [slot |-> s, prio |-> b]
  <2>1. CASE m = n
    BY <1>4, <1>7, <2>1
  <2>2. CASE m # n
    <3>1. m \in Els(line[s][b])
      BY <1>6, <2>2
    <3>2. lease[m] = Nobody /\ m \in Messages
      BY <3>1, ElsAt
    <3>3. msgs[m] = [slot |-> s, prio |-> b]
      BY <3>1, ElsWhole
    <3> QED BY <1>7, <2>2, <3>2, <3>3
  <2> QED BY <2>1, <2>2
<1>9. /\ QueueInv' /\ Len(msgs') = Len(msgs)
      /\ \A m \in 1..Len(msgs) : On(m)' <=>
              \/ lease'[m] # Nobody
              \/ msgs[m].slot = s /\ msgs[m].prio = b /\ m \in Els(x)
              \/ (msgs[m].slot # s \/ msgs[m].prio # b)
                   /\ m \in Els(line[msgs[m].slot][msgs[m].prio])
  <2>1. \A m \in Els(x) : lease'[m] = Nobody /\ msgs[m] = [slot |-> s, prio |-> b]
    BY <1>8
  <2>2. \A m \in Messages :
           \/ lease'[m] = lease[m]
           \/ m <= Len(msgs) /\ lease'[m] = Nobody
           \/ m \in Els(line[s][b])
    BY <1>1, <1>7
  <2> QED BY <1>6, <1>7, <2>1, <2>2, BandStep
<1>10. ASSUME NEW m \in 1..Len(msgs) PROVE On(m)' <=> On(m) /\ (m # n \/ back)
  <2>1. m \in Messages
    BY MessageIs DEF QueueInv
  <2>2. CASE m = n
    BY <1>2, <1>5, <1>6, <1>7, <1>9, <2>2 DEF On
  <2>3. CASE m # n
    BY <1>6, <1>7, <1>9, <2>1, <2>3 DEF On
  <2> QED BY <2>2, <2>3
<1> QED BY <1>3, <1>9, <1>10

(* Sequences put together, emptied of some entries, and made of a set. *)
LEMMA ConcatEls ==
  ASSUME NEW S \in SUBSET Nat, NEW l \in Seq(S), NEW m \in Seq(S), Once(l), Once(m),
         Els(l) \cap Els(m) = {}
  PROVE  l \o m \in Seq(S) /\ Once(l \o m) /\ Els(l \o m) = Els(l) \cup Els(m)
<1> DEFINE k == l \o m
<1>1. /\ k \in Seq(S) /\ Len(k) = Len(l) + Len(m) /\ Len(l) \in Nat /\ Len(m) \in Nat
      /\ \A i \in 1..Len(l) : k[i] = l[i]
      /\ \A i \in 1..Len(m) : k[Len(l) + i] = m[i]
      /\ DOMAIN l = 1..Len(l) /\ DOMAIN m = 1..Len(m)
  OBVIOUS
<1> HIDE DEF k
<1>2. DOMAIN k = 1..(Len(l) + Len(m))
  BY <1>1
<1>3. ASSUME NEW i \in DOMAIN k
      PROVE  \/ i \in DOMAIN l /\ k[i] = l[i]
             \/ i - Len(l) \in DOMAIN m /\ k[i] = m[i - Len(l)]
  <2>1. CASE i <= Len(l)
    BY <1>1, <1>2, <2>1
  <2>2. CASE i > Len(l)
    <3>1. i - Len(l) \in 1..Len(m) /\ Len(l) + (i - Len(l)) = i
      BY <1>1, <1>2, <2>2
    <3> QED BY <1>1, <3>1
  <2> QED BY <1>1, <1>2, <2>1, <2>2
<1>4. ASSUME NEW i \in DOMAIN l PROVE i \in DOMAIN k /\ k[i] = l[i]
  BY <1>1, <1>2
<1>5. ASSUME NEW i \in DOMAIN m PROVE Len(l) + i \in DOMAIN k /\ k[Len(l) + i] = m[i]
  BY <1>1, <1>2
<1>6. Els(k) = Els(l) \cup Els(m)
  <2>1. ASSUME NEW x \in Els(k) PROVE x \in Els(l) \cup Els(m)
    <3>1. PICK i \in DOMAIN k : x = k[i]
      BY DEF Els
    <3> QED BY <1>3, <3>1 DEF Els
  <2>2. ASSUME NEW x \in Els(l) PROVE x \in Els(k)
    <3>1. PICK i \in DOMAIN l : x = l[i]
      BY DEF Els
    <3> QED BY <1>4, <3>1 DEF Els
  <2>3. ASSUME NEW x \in Els(m) PROVE x \in Els(k)
    <3>1. PICK i \in DOMAIN m : x = m[i]
      BY DEF Els
    <3> QED BY <1>5, <3>1 DEF Els
  <2> QED BY <2>1, <2>2, <2>3
<1>7. Once(k)
  <2> SUFFICES ASSUME NEW i \in DOMAIN k, NEW j \in DOMAIN k, k[i] = k[j], i # j, k[i] # 0
               PROVE  FALSE
    BY DEF Once
  <2>1. CASE i \in DOMAIN l /\ k[i] = l[i] /\ j \in DOMAIN l /\ k[j] = l[j]
    BY <2>1 DEF Once
  <2>2. CASE i \in DOMAIN l /\ k[i] = l[i] /\ j - Len(l) \in DOMAIN m /\ k[j] = m[j - Len(l)]
    BY <2>2 DEF Els
  <2>3. CASE j \in DOMAIN l /\ k[j] = l[j] /\ i - Len(l) \in DOMAIN m /\ k[i] = m[i - Len(l)]
    BY <2>3 DEF Els
  <2>4. CASE /\ i - Len(l) \in DOMAIN m /\ k[i] = m[i - Len(l)]
             /\ j - Len(l) \in DOMAIN m /\ k[j] = m[j - Len(l)]
    <3>1. i - Len(l) # j - Len(l)
      BY <1>1, <1>2
    <3> QED BY <2>4, <3>1 DEF Once
  <2> QED BY <1>3, <2>1, <2>2, <2>3, <2>4
<1> QED BY <1>1, <1>6, <1>7 DEF k

LEMMA PurgedEls ==
  ASSUME NEW S \in SUBSET Nat, 0 \in S, NEW l \in Seq(S), Once(l), NEW L
  PROVE  LET m == [i \in DOMAIN l |-> IF l[i] \in L THEN 0 ELSE l[i]] IN
         m \in Seq(S) /\ Once(m) /\ Els(m) = Els(l) \ L
<1> DEFINE m == [i \in DOMAIN l |-> IF l[i] \in L THEN 0 ELSE l[i]]
<1>1. DOMAIN l = 1..Len(l) /\ Len(l) \in Nat /\ \A i \in DOMAIN l : l[i] \in S
  OBVIOUS
<1>2. m \in Seq(S)
  BY <1>1
<1>3. DOMAIN m = DOMAIN l /\ \A i \in DOMAIN l : m[i] = IF l[i] \in L THEN 0 ELSE l[i]
  OBVIOUS
<1> HIDE DEF m
<1>4. Once(m)
  BY <1>3 DEF Once
<1>5. Els(m) = Els(l) \ L
  BY <1>3 DEF Els
<1> QED BY <1>2, <1>4, <1>5 DEF m

LEMMA OrderEls ==
  ASSUME NEW S \in SUBSET Nat, NEW B \in SUBSET S, 0 \notin B, IsFiniteSet(B), NEW f \in Orders(B)
  PROVE  f \in Seq(S) /\ Once(f) /\ Els(f) = B
<1>1. Cardinality(B) \in Nat
  BY FS_CardinalityType
<1>2. /\ f \in [1..Cardinality(B) -> B]
      /\ \A a, b \in 1..Cardinality(B) : f[a] = f[b] => a = b
      /\ \A t \in B : \E a \in 1..Cardinality(B) : f[a] = t
  BY DEF Orders, Bijection, Injection, Surjection, IsInjective
<1>3. f \in Seq(S)
  <2>1. f \in [1..Cardinality(B) -> S]
    BY <1>2
  <2> QED BY <1>1, <2>1
<1>4. DOMAIN f = 1..Cardinality(B)
  BY <1>2
<1> HIDE DEF Orders
<1>5. Once(f)
  BY <1>2, <1>4 DEF Once
<1>6. Els(f) = B
  <2>1. \A a \in DOMAIN f : f[a] \in B
    BY <1>2, <1>4
  <2>2. \A t \in B : \E a \in DOMAIN f : f[a] = t
    BY <1>2, <1>4
  <2> QED BY <2>1, <2>2 DEF Els
<1> QED BY <1>3, <1>5, <1>6

(* A slot is dropped. *)
LEMMA DrainStep ==
  ASSUME QueueInv, NEW s \in Slots, msgs' = msgs, lapsed' = lapsed, frozen' = frozen,
         line' = [line EXCEPT ![s] = [p \in Priorities |-> <<>>]],
         lease' = [n \in Messages |-> IF n \in Leased(s) THEN Nobody ELSE lease[n]]
  PROVE  /\ QueueInv' /\ Len(msgs') = Len(msgs) /\ Held(s) \in SUBSET AllHeld
         /\ \A n \in 1..Len(msgs) : On(n)' <=> On(n) /\ n \notin Held(s)
<1> DEFINE X == [p \in Priorities |-> <<>>]
<1>1. X \in [Priorities -> Seq(0..Len(msgs))] /\ \A p \in Priorities : X[p] = <<>>
  OBVIOUS
<1>2. Els(<<>>) = {} /\ Once(<<>>)
  BY DEF Els, Once
<1>3. \A n \in Leased(s) : n \in 1..Len(msgs) /\ msgs[n].slot = s
  BY DEF Leased, QueueInv, QueueType
<1>4. /\ lease' \in [Messages -> Consumers \cup {Nobody}]
      /\ \A n \in Messages : lease'[n] = IF n \in Leased(s) THEN Nobody ELSE lease[n]
  BY DEF QueueInv, QueueType
<1>5. line' = [line EXCEPT ![s] = X]
  OBVIOUS
<1> HIDE DEF X
<1>6. /\ QueueInv' /\ Len(msgs') = Len(msgs)
      /\ \A n \in 1..Len(msgs) : On(n)' <=>
           \/ lease'[n] # Nobody
           \/ msgs[n].slot = s /\ n \in Els(X[msgs[n].prio])
           \/ msgs[n].slot # s /\ n \in Els(line[msgs[n].slot][msgs[n].prio])
  <2>1. \A p \in Priorities : Once(X[p])
    BY <1>1, <1>2
  <2>2. \A p \in Priorities : \A n \in Els(X[p]) :
          lease'[n] = Nobody /\ msgs[n] = [slot |-> s, prio |-> p]
    BY <1>1, <1>2
  <2>3. \A n \in Messages :
           \/ lease'[n] = lease[n]
           \/ n <= Len(msgs) /\ lease'[n] = Nobody
           \/ \E p \in Priorities : n \in Els(line[s][p])
    BY <1>3, <1>4
  <2> QED BY <1>1, <1>4, <1>5, <2>1, <2>2, <2>3, SlotStep
<1>7. /\ AllHeld = {n \in 1..Len(msgs) : On(n)}
      /\ Held(s) = {n \in 1..Len(msgs) : msgs[n].slot = s /\ On(n)}
  BY HeldThere DEF HeldIs
<1>8. ASSUME NEW n \in 1..Len(msgs) PROVE On(n)' <=> On(n) /\ n \notin Held(s)
  <2>1. msgs[n].prio \in Priorities /\ n \in Messages
    BY MessageIs DEF QueueInv
  <2>2. CASE msgs[n].slot = s
    <3>1. n \in Leased(s) <=> lease[n] # Nobody
      BY <2>2 DEF Leased, QueueInv, QueueType
    <3> QED BY <1>1, <1>2, <1>4, <1>6, <1>7, <2>1, <2>2, <3>1
  <2>3. CASE msgs[n].slot # s
    <3>1. n \notin Leased(s)
      BY <1>3, <2>3
    <3> QED BY <1>4, <1>6, <1>7, <2>1, <2>3, <3>1 DEF On
  <2> QED BY <2>2, <2>3
<1> QED BY <1>6, <1>7, <1>8

(* The queue after a step without which nothing gets in: R has gone.       *)
Gone(R) ==
  /\ QueueInv' /\ Len(msgs') = Len(msgs) /\ R \in SUBSET AllHeld
  /\ AllHeld' = AllHeld \ R
  /\ \A s \in Slots : Held(s)' = Held(s) \ R

LEMMA Quiet ==
  ASSUME QueueInv, UNCHANGED slotVars, lapsed' \subseteq 1..Len(msgs),
         frozen' \in [Slots -> BOOLEAN]
  PROVE  Gone({})
<1>1. QueueInv'
  <2>1. QueueType'
    BY DEF QueueInv, QueueType, slotVars
  <2>2. NotTwice'
    BY DEF QueueInv, NotTwice, Listed, slotVars
  <2> QED BY <2>1, <2>2 DEF QueueInv, slotVars
<1>2. \A n \in 1..Len(msgs) : On(n)' <=> On(n) /\ n \notin {}
  BY DEF On, slotVars
<1>3. AllHeld' = AllHeld \ {} /\ \A s \in Slots : Held(s)' = Held(s) \ {}
  BY <1>1, <1>2, Goes DEF slotVars
<1> QED BY <1>1, <1>3 DEF Gone, slotVars

LEMMA TakeGone ==
  ASSUME TypeInv, NEW c \in Consumers, Take(c)
  PROVE  /\ Gone({}) /\ Head(Behind(cons[c].best, cons[c].band)) \in (1..Len(msgs)) \ {0}
         /\ Head(Behind(cons[c].best, cons[c].band)) \in Messages
<1>1. PICK s \in Slots, b \in Priorities : s = cons[c].best /\ b = cons[c].band
  BY DEF TypeInv, ConsType, Consumer, Consuming, Take
<1> DEFINE rest == Behind(s, b)
<1>2. rest # <<>> /\ Head(rest) \in Els(line[s][b])
  BY <1>1, HeadOfBand DEF TypeInv, Take
<1>3. /\ Tail(rest) \in Seq(0..Len(msgs)) /\ Once(Tail(rest))
      /\ Els(Tail(rest)) = Els(line[s][b]) \ {Head(rest)}
  BY <1>2, HeadOfBand DEF TypeInv
<1>4. /\ msgs' = msgs /\ line' = [line EXCEPT ![s][b] = Tail(rest)] /\ lapsed' = lapsed
      /\ frozen' = frozen /\ lease' = [lease EXCEPT ![Head(rest)] = c]
  BY <1>1 DEF Take, engineVars
<1>5. PICK h \in Els(line[s][b]) : h = Head(rest)
  BY <1>2
<1>6. PICK x \in Seq(0..Len(msgs)) : x = Tail(rest)
  BY <1>3
<1> HIDE DEF rest
<1>7. QueueInv /\ c # Nobody
  BY EngineAssumption DEF TypeInv
<1>8. /\ QueueInv' /\ Len(msgs') = Len(msgs)
      /\ \A n \in 1..Len(msgs) : On(n)' <=> On(n) /\ (n # h \/ c # Nobody)
  <2>1. Once(x) /\ Els(x) = Els(line[s][b]) \ {h}
    BY <1>3, <1>5, <1>6
  <2>2. /\ msgs' = msgs /\ line' = [line EXCEPT ![s][b] = x] /\ lapsed' = lapsed
        /\ frozen' = frozen /\ lease' = [lease EXCEPT ![h] = c]
    BY <1>4, <1>5, <1>6
  <2>3. c \in Consumers \cup {Nobody}
    OBVIOUS
  <2> QED BY <1>7, <2>1, <2>2, <2>3, BandLess
<1>9. \A n \in 1..Len(msgs) : On(n)' <=> On(n) /\ n \notin {}
  BY <1>7, <1>8
<1>10. AllHeld' = AllHeld \ {} /\ \A t \in Slots : Held(t)' = Held(t) \ {}
  BY <1>4, <1>7, <1>8, <1>9, Goes
<1>11. h \in 1..Len(msgs) /\ h # 0 /\ h \in Messages
  BY <1>7, ElsAt, MessageIs DEF QueueInv
<1> QED BY <1>1, <1>5, <1>8, <1>10, <1>11 DEF Gone, rest

LEMMA TakeFailsGone ==
  ASSUME TypeInv, NEW c \in Consumers, TakeFails(c)
  PROVE  \/ leaked' = leaked /\ Gone({})
         \/ leaked' = leaked + 1 /\ \E h \in AllHeld : Gone({h})
<1>1. PICK s \in Slots, b \in Priorities : s = cons[c].best /\ b = cons[c].band
  BY DEF TypeInv, ConsType, Consumer, Consuming, TakeFails
<1> DEFINE rest == Behind(s, b)
<1>2. /\ msgs' = msgs /\ lease' = lease /\ lapsed' = lapsed /\ frozen' = frozen
      /\ \/ rest = <<>> /\ line' = [line EXCEPT ![s][b] = <<>>] /\ leaked' = leaked
         \/ rest # <<>> /\ line' = [line EXCEPT ![s][b] = Tail(rest)] /\ leaked' = leaked + 1
  BY <1>1 DEF TakeFails, engineVars
<1>3. QueueInv
  BY DEF TypeInv
<1>4. HeldIs
  BY <1>3, HeldThere
<1>5. CASE rest = <<>>
  <2>1. Els(line[s][b]) = {}
    BY <1>3, <1>5, HeadOfBand
  <2>2. PICK x \in Seq(0..Len(msgs)) : x = <<>>
    <3>1. <<>> \in Seq(0..Len(msgs))
      OBVIOUS
    <3> QED BY <3>1
  <2>3. Once(x) /\ Els(x) = {} /\ line' = [line EXCEPT ![s][b] = x] /\ leaked' = leaked
    BY <1>2, <1>5, <2>2 DEF Once, Els
  <2>4. lease' \in [Messages -> Consumers \cup {Nobody}]
    BY <1>2, <1>3 DEF QueueInv, QueueType
  <2>5. \A n \in Els(x) : lease'[n] = Nobody /\ msgs[n] = [slot |-> s, prio |-> b]
    BY <2>3
  <2>6. /\ QueueInv' /\ Len(msgs') = Len(msgs)
        /\ \A n \in 1..Len(msgs) : On(n)' <=>
              \/ lease'[n] # Nobody
              \/ msgs[n].slot = s /\ msgs[n].prio = b /\ n \in Els(x)
              \/ (msgs[n].slot # s \/ msgs[n].prio # b)
                   /\ n \in Els(line[msgs[n].slot][msgs[n].prio])
    BY <1>2, <1>3, <2>3, <2>4, <2>5, BandStep
  <2>7. ASSUME NEW n \in 1..Len(msgs) PROVE On(n)' <=> On(n) /\ n \notin {}
    BY <1>2, <2>1, <2>3, <2>6 DEF On
  <2>8. AllHeld' = AllHeld \ {} /\ \A t \in Slots : Held(t)' = Held(t) \ {}
    BY <1>2, <1>3, <2>6, <2>7, Goes
  <2> QED BY <2>3, <2>6, <2>8 DEF Gone
<1>6. CASE rest # <<>>
  <2>1. Head(rest) \in Els(line[s][b])
    BY <1>3, <1>6, HeadOfBand
  <2>2. /\ Tail(rest) \in Seq(0..Len(msgs)) /\ Once(Tail(rest))
        /\ Els(Tail(rest)) = Els(line[s][b]) \ {Head(rest)}
    BY <1>3, <1>6, HeadOfBand
  <2>3. PICK h \in Els(line[s][b]) : h = Head(rest)
    BY <2>1
  <2>4. PICK x \in Seq(0..Len(msgs)) : x = Tail(rest)
    BY <2>2
  <2>5. /\ lease[h] = Nobody /\ h \in 1..Len(msgs) /\ h \in Messages
        /\ msgs[h].slot = s /\ msgs[h].prio = b
    BY <1>3, ElsAt
  <2>6. lease' = [lease EXCEPT ![h] = Nobody]
    BY <1>2, <1>3, <2>5 DEF QueueInv, QueueType
  <2>7. line' = [line EXCEPT ![s][b] = x] /\ leaked' = leaked + 1
    BY <1>2, <1>6, <2>4
  <2> HIDE DEF rest
  <2>8. /\ QueueInv' /\ Len(msgs') = Len(msgs)
        /\ \A n \in 1..Len(msgs) : On(n)' <=> On(n) /\ (n # h \/ Nobody # Nobody)
    <3>1. Once(x) /\ Els(x) = Els(line[s][b]) \ {h}
      BY <2>2, <2>3, <2>4
    <3>2. msgs' = msgs /\ lapsed' = lapsed /\ frozen' = frozen /\ Nobody \in Consumers \cup {Nobody}
      BY <1>2
    <3> QED BY <1>3, <2>6, <2>7, <3>1, <3>2, BandLess
  <2>9. \A n \in 1..Len(msgs) : On(n)' <=> On(n) /\ n \notin {h}
    BY <2>8
  <2>10. h \in AllHeld
    BY <1>4, <2>5 DEF HeldIs, On
  <2>11. AllHeld' = AllHeld \ {h} /\ \A t \in Slots : Held(t)' = Held(t) \ {h}
    BY <1>2, <1>3, <2>8, <2>9, <2>10, Goes
  <2> QED BY <2>7, <2>8, <2>10, <2>11 DEF Gone
<1> QED BY <1>5, <1>6

LEMMA AckGone ==
  ASSUME TypeInv, NEW c \in Consumers, Ack(c)
  PROVE  \E n \in AllHeld : Gone({n})
<1>1. PICK n \in Messages : n = cons[c].msg
  BY EngineAssumption DEF TypeInv, ConsType, Consumer, Consuming, Ack, Messages
<1>2. /\ QueueInv /\ lease[n] # Nobody /\ msgs' = msgs /\ line' = line /\ lapsed' = lapsed
      /\ frozen' = frozen /\ lease' = [lease EXCEPT ![n] = Nobody]
  BY <1>1, EngineAssumption DEF TypeInv, Ack, Out, engineVars
<1>3. /\ QueueInv' /\ Len(msgs') = Len(msgs) /\ n \in AllHeld
      /\ \A m \in 1..Len(msgs) : On(m)' <=> On(m) /\ (m # n \/ FALSE)
  BY <1>2, LeaseEnds
<1>4. \A m \in 1..Len(msgs) : On(m)' <=> On(m) /\ m \notin {n}
  BY <1>3
<1>5. AllHeld' = AllHeld \ {n} /\ \A t \in Slots : Held(t)' = Held(t) \ {n}
  BY <1>2, <1>3, <1>4, Goes
<1> QED BY <1>3, <1>5 DEF Gone

LEMMA NackGone ==
  ASSUME TypeInv, NEW c \in Consumers, Nack(c)
  PROVE  \/ /\ \E n \in AllHeld : Gone({n})
            /\ \/ leaked' = leaked + 1 /\ Become(c, IdleConsumer)
               \/ leaked' = leaked /\ Counting(c)
         \/ Gone({}) /\ leaked' = leaked /\ Become(c, IdleConsumer)
<1>1. PICK n \in Messages : n = cons[c].msg
  BY EngineAssumption DEF TypeInv, ConsType, Consumer, Consuming, Nack, Messages
<1>2. /\ QueueInv /\ lease[n] # Nobody /\ msgs' = msgs /\ lapsed' = lapsed
      /\ frozen' = frozen /\ lease' = [lease EXCEPT ![n] = Nobody]
  BY <1>1, EngineAssumption DEF TypeInv, Nack, Out, engineVars
<1> DEFINE Again == line' = [line EXCEPT ![msgs[n].slot][msgs[n].prio] =
                                 Append(line[msgs[n].slot][msgs[n].prio], n)]
<1>4. ASSUME Again
      PROVE  Gone({})
  <2>1. /\ QueueInv' /\ Len(msgs') = Len(msgs) /\ n \in AllHeld
        /\ \A m \in 1..Len(msgs) : On(m)' <=> On(m) /\ (m # n \/ TRUE)
    BY <1>2, <1>4, LeaseEnds
  <2>2. \A m \in 1..Len(msgs) : On(m)' <=> On(m) /\ m \notin {}
    BY <2>1
  <2>3. AllHeld' = AllHeld \ {} /\ \A t \in Slots : Held(t)' = Held(t) \ {}
    BY <1>2, <2>1, <2>2, Goes
  <2> QED BY <2>1, <2>3 DEF Gone
<1>5. \/ line' = line /\ \/ leaked' = leaked + 1 /\ Become(c, IdleConsumer)
                         \/ leaked' = leaked /\ Counting(c)
      \/ Again /\ leaked' = leaked /\ Become(c, IdleConsumer)
  BY <1>1 DEF Nack, GoesBack
<1>6. line' = line => \E m \in AllHeld : Gone({m})
  <2> SUFFICES ASSUME line' = line PROVE \E m \in AllHeld : Gone({m})
    OBVIOUS
  <2>1. /\ QueueInv' /\ Len(msgs') = Len(msgs) /\ n \in AllHeld
        /\ \A m \in 1..Len(msgs) : On(m)' <=> On(m) /\ (m # n \/ FALSE)
    BY <1>2, LeaseEnds
  <2>2. \A m \in 1..Len(msgs) : On(m)' <=> On(m) /\ m \notin {n}
    BY <2>1
  <2>3. AllHeld' = AllHeld \ {n} /\ \A t \in Slots : Held(t)' = Held(t) \ {n}
    BY <1>2, <2>1, <2>2, Goes
  <2> QED BY <2>1, <2>3 DEF Gone
<1>7. Again => Gone({})
  BY <1>4
<1> HIDE DEF Again
<1>8. CASE line' = line
  BY <1>5, <1>6, <1>7, <1>8
<1>9. CASE line' # line
  BY <1>5, <1>7, <1>9
<1> QED BY <1>8, <1>9

(* The timers of a slot. *)
LEMMA SweepGone ==
  ASSUME TypeInv, SweepSlot
  PROVE  \E R \in SUBSET AllHeld :
           /\ Gone(R)
           /\ sweep' = [sweep EXCEPT !.pc = "look", !.at = NoSlot,
                                     !.removed = sweep.removed + Cardinality(R)]
<1> DEFINE s == sweep.at
<1>1. s \in Slots
  BY DEF TypeInv, SweepType, SweepSlot
<1>2. QueueInv /\ msgs' = msgs /\ lapsed' = lapsed /\ frozen' = frozen
  BY DEF TypeInv, SweepSlot, engineVars
<1>3. PICK T, D, back :
        /\ T \in SUBSET Leased(s) /\ D \in SUBSET (T \ lapsed)
        /\ \A p \in Priorities : back[p] \in Orders(Back(T \ D, p))
        /\ lease' = [n \in Messages |-> IF n \in T THEN Nobody ELSE lease[n]]
        /\ line' = [line EXCEPT ![s] = [p \in Priorities |-> Purged(line[s][p]) \o back[p]]]
        /\ sweep' = [sweep EXCEPT !.pc = "look", !.at = NoSlot,
                       !.removed = @ + Cardinality((T \cap lapsed) \cup D
                                                   \cup (Ready(s) \cap lapsed))]
  BY DEF SweepSlot
<1> DEFINE R == (T \cap lapsed) \cup D \cup (Ready(s) \cap lapsed)
           X == [p \in Priorities |-> Purged(line[s][p]) \o back[p]]
<1>4. QueueInv /\ T \in SUBSET Leased(s) /\ D \in SUBSET (T \ lapsed)
  BY <1>2, <1>3
<1>5. /\ \A p \in Priorities : back[p] \in Orders(Back(T \ D, p))
      /\ \A p \in Priorities : X[p] = Purged(line[s][p]) \o back[p]
      /\ X = [p \in Priorities |-> X[p]]
      /\ line' = [line EXCEPT ![s] = X]
  BY <1>3
<1>6. /\ lease' \in [Messages -> Consumers \cup {Nobody}]
      /\ \A n \in Messages : lease'[n] = IF n \in T THEN Nobody ELSE lease[n]
  BY <1>2, <1>3 DEF QueueInv, QueueType
<1>7. sweep' = [sweep EXCEPT !.pc = "look", !.at = NoSlot,
                             !.removed = sweep.removed + Cardinality(R)]
  BY <1>3
<1> HIDE DEF s, X
<1> USE <1>1, <1>4
<1>11. PICK S \in SUBSET Nat : S = 0..Len(msgs) /\ 0 \in S /\ 1..Len(msgs) \subseteq S
  BY DEF QueueInv, QueueType
<1>12. ASSUME NEW n \in T
      PROVE  n \in 1..Len(msgs) /\ msgs[n].slot = s /\ lease[n] # Nobody /\ n # 0 /\ n \in Messages
  <2>1. n \in 1..Len(msgs) /\ msgs[n].slot = s /\ lease[n] # Nobody
    BY DEF Leased, QueueInv, QueueType
  <2> QED BY <2>1, MessageIs DEF QueueInv
<1>13. ASSUME NEW p \in Priorities
      PROVE  X[p] \in Seq(S) /\ Once(X[p]) /\ Els(X[p]) = (Els(line[s][p]) \ lapsed) \cup Back(T \ D, p)
  <2>1. line[s][p] \in Seq(S) /\ Once(line[s][p])
    BY <1>11, ElsIn
  <2>2. PICK l \in Seq(S) : l = line[s][p]
    BY <2>1
  <2> DEFINE q == [i \in DOMAIN l |-> IF l[i] \in lapsed THEN 0 ELSE l[i]]
  <2>3. q = Purged(line[s][p])
    BY <2>2 DEF Purged
  <2>4. q \in Seq(S) /\ Once(q) /\ Els(q) = Els(l) \ lapsed
    <3>1. Once(l) /\ 0 \in S
      BY <1>11, <2>1, <2>2
    <3> QED BY <3>1, PurgedEls
  <2> HIDE DEF q
  <2>5. PICK B \in SUBSET S : B = Back(T \ D, p) /\ B \subseteq 1..Len(msgs) /\ 0 \notin B
    <3>1. Back(T \ D, p) \subseteq 1..Len(msgs) /\ 0 \notin Back(T \ D, p)
      BY <1>12 DEF Back
    <3> QED BY <1>11, <3>1
  <2>6. IsFiniteSet(B)
    <3>1. IsFiniteSet(1..Len(msgs))
      <4>1. Len(msgs) \in Nat
        BY DEF QueueInv, QueueType
      <4> QED BY <4>1, FS_Interval
    <3> QED BY <2>5, <3>1, FS_Subset
  <2>7. PICK f \in Orders(B) : f = back[p]
    BY <1>5, <2>5
  <2>8. f \in Seq(S) /\ Once(f) /\ Els(f) = B
    BY <2>5, <2>6, OrderEls
  <2>9. Els(q) \cap Els(f) = {}
    <3>1. \A n \in Els(l) : lease[n] = Nobody
      BY <2>2, ElsAt
    <3>2. \A n \in B : lease[n] # Nobody
      BY <1>12, <2>5 DEF Back
    <3> QED BY <2>4, <2>8, <3>1, <3>2
  <2>10. q \o f \in Seq(S) /\ Once(q \o f) /\ Els(q \o f) = Els(q) \cup Els(f)
    <3>1. q \in Seq(S) /\ Once(q) /\ f \in Seq(S) /\ Once(f)
      BY <2>4, <2>8
    <3> QED BY <2>9, <3>1, ConcatEls
  <2>11. X[p] = q \o f
    BY <1>5, <2>2, <2>3, <2>7
  <2> QED BY <2>2, <2>4, <2>5, <2>8, <2>10, <2>11
<1>14. X \in [Priorities -> Seq(0..Len(msgs))] /\ line' = [line EXCEPT ![s] = X]
  <2>1. \A p \in Priorities : X[p] \in Seq(0..Len(msgs))
    BY <1>11, <1>13
  <2> QED BY <1>5, <2>1
<1>15. /\ lease' \in [Messages -> Consumers \cup {Nobody}]
      /\ \A n \in Messages : lease'[n] = IF n \in T THEN Nobody ELSE lease[n]
  BY <1>6
<1>16. ASSUME NEW p \in Priorities, NEW n \in Els(X[p])
      PROVE  lease'[n] = Nobody /\ msgs[n] = [slot |-> s, prio |-> p]
  <2>1. CASE n \in Els(line[s][p])
    <3>1. lease[n] = Nobody /\ n \in Messages
      BY <2>1, ElsAt
    <3>2. msgs[n] = [slot |-> s, prio |-> p]
      BY <2>1, ElsWhole
    <3> QED BY <1>15, <3>1, <3>2
  <2>2. CASE n \in Back(T \ D, p)
    <3>1. /\ n \in T /\ msgs[n].slot = s /\ msgs[n].prio = p /\ n \in Messages
          /\ n \in 1..Len(msgs)
      BY <1>12, <2>2 DEF Back
    <3>2. msgs[n] \in [slot : Slots, prio : Priorities]
      BY <3>1, ElementOfSeq DEF QueueInv, QueueType
    <3> QED BY <1>15, <3>1, <3>2
  <2> QED BY <1>13, <2>1, <2>2
<1>17. /\ QueueInv' /\ Len(msgs') = Len(msgs)
      /\ \A n \in 1..Len(msgs) : On(n)' <=>
           \/ lease'[n] # Nobody
           \/ msgs[n].slot = s /\ n \in Els(X[msgs[n].prio])
           \/ msgs[n].slot # s /\ n \in Els(line[msgs[n].slot][msgs[n].prio])
  <2>1. \A p \in Priorities : Once(X[p])
    BY <1>13
  <2>2. \A p \in Priorities : \A n \in Els(X[p]) :
          lease'[n] = Nobody /\ msgs[n] = [slot |-> s, prio |-> p]
    BY <1>16
  <2>3. \A n \in Messages :
           \/ lease'[n] = lease[n]
           \/ n <= Len(msgs) /\ lease'[n] = Nobody
           \/ \E p \in Priorities : n \in Els(line[s][p])
    BY <1>12, <1>15
  <2> QED BY <1>2, <1>14, <1>15, <2>1, <2>2, <2>3, SlotStep
<1>18. ASSUME NEW n \in 1..Len(msgs) PROVE On(n)' <=> On(n) /\ n \notin R
  <2>1. msgs[n].prio \in Priorities /\ msgs[n].slot \in Slots /\ n \in Messages
    BY MessageIs DEF QueueInv
  <2>2. n \in Ready(s) <=> msgs[n].slot = s /\ n \in Els(line[s][msgs[n].prio])
    <3>1. n \in Ready(s) <=> \E p \in Priorities : n \in Els(line[s][p])
      BY DEF Ready, Listed, Els
    <3>2. \A p \in Priorities : n \in Els(line[s][p]) => msgs[n].slot = s /\ msgs[n].prio = p
      BY ElsAt
    <3> QED BY <2>1, <3>1, <3>2
  <2>3. n \in Els(line[msgs[n].slot][msgs[n].prio]) => lease[n] = Nobody
    BY <2>1, ElsAt
  <2>4. n \in Back(T \ D, msgs[n].prio) <=> n \in T /\ n \notin D /\ n \notin lapsed
    BY DEF Back
  <2>5. n \in Els(X[msgs[n].prio]) <=>
          \/ n \in Els(line[s][msgs[n].prio]) /\ n \notin lapsed
          \/ n \in T /\ n \notin D /\ n \notin lapsed
    BY <1>13, <2>1, <2>4
  <2>6. n \in R <=> (n \in T /\ (n \in lapsed \/ n \in D)) \/ (n \in Ready(s) /\ n \in lapsed)
    OBVIOUS
  <2>7. n \in T => msgs[n].slot = s /\ lease[n] # Nobody
    BY <1>12
  <2> HIDE DEF R
  <2> QED BY <1>15, <1>17, <2>1, <2>2, <2>3, <2>5, <2>6, <2>7 DEF On
<1>19. R \in SUBSET AllHeld
  <2>1. R \subseteq Held(s)
    BY DEF Held
  <2> QED BY <2>1 DEF AllHeld
<1>21. PICK Q \in SUBSET AllHeld : Q = R
  BY <1>19
<1>22. \A n \in 1..Len(msgs) : On(n)' <=> On(n) /\ n \notin Q
  BY <1>18, <1>21
<1> HIDE DEF R
<1>23. AllHeld' = AllHeld \ Q /\ \A t \in Slots : Held(t)' = Held(t) \ Q
  BY <1>2, <1>17, <1>22, Goes
<1> QED BY <1>7, <1>17, <1>21, <1>23 DEF Gone

LEMMA DrainGone ==
  ASSUME TypeInv, Drain
  PROVE  move.slot \in Slots /\ Gone(Held(move.slot))
<1>1. PICK s \in Slots : s = move.slot
  BY DEF TypeInv, MoveType, Drain
<1>2. /\ QueueInv /\ msgs' = msgs /\ lapsed' = lapsed /\ frozen' = frozen
      /\ line' = [line EXCEPT ![s] = [p \in Priorities |-> <<>>]]
      /\ lease' = [n \in Messages |-> IF n \in Leased(s) THEN Nobody ELSE lease[n]]
  BY <1>1 DEF TypeInv, Drain, engineVars
<1>3. /\ QueueInv' /\ Len(msgs') = Len(msgs) /\ Held(s) \in SUBSET AllHeld
      /\ \A n \in 1..Len(msgs) : On(n)' <=> On(n) /\ n \notin Held(s)
  BY <1>2, DrainStep
<1>4. PICK Q \in SUBSET AllHeld : Q = Held(s)
  BY <1>3
<1>5. \A n \in 1..Len(msgs) : On(n)' <=> On(n) /\ n \notin Q
  BY <1>3, <1>4
<1>6. AllHeld' = AllHeld \ Q /\ \A t \in Slots : Held(t)' = Held(t) \ Q
  BY <1>2, <1>3, <1>5, Goes
<1> QED BY <1>1, <1>3, <1>4, <1>6 DEF Gone

-----------------------------------------------------------------------------
(* Whose step it is, and what the step of one leaves alone of the others.  *)

ProducerStep(p) ==
  \/ \E s \in Slots, pr \in Priorities : Reserve(p, s, pr)
  \/ CheckDepth(p) \/ CheckFrozen(p) \/ Land(p) \/ JournalFails(p) \/ CountEnqueue(p)
  \/ Release(p)

ConsumerStep(c) ==
  \/ Dequeue(c) \/ LoadFrozen(c) \/ LoadHint(c) \/ LoadSeq(c) \/ TakeFails(c) \/ Take(c)
  \/ Forget(c) \/ Ack(c) \/ Nack(c) \/ CountRemoval(c)

SweeperStep == BeginSweep \/ SweepLook \/ SweepSlot \/ CountSwept

MoverStep ==
  \/ \E s \in Movable : Freeze(s)
  \/ CopyAll \/ Thaw \/ Drain \/ ThawEmpty \/ CountDropped
  \/ \E s \in Slots, pr \in Priorities : AbsorbIn(s, pr)
  \/ CountAbsorbed

LEMMA Steps ==
  ASSUME Next
  PROVE  \/ \E n \in Messages : Lapse(n)
         \/ \E p \in Producers : ProducerStep(p)
         \/ \E c \in Consumers : ConsumerStep(c)
         \/ SweeperStep
         \/ MoverStep
BY DEF Next, ProducerStep, ConsumerStep, SweeperStep, MoverStep

LEMMA ProducerLeaves ==
  ASSUME NEW p, ProducerStep(p)
  PROVE  UNCHANGED <<lapsed, lease, frozen, cons, sweep, move, leaked, absorbed, lost>>
BY DEF ProducerStep, Reserve, CheckDepth, CheckFrozen, Land, Enter, JournalFails, CountEnqueue,
       Release, slotVars, engineVars, history

LEMMA ConsumerLeaves ==
  ASSUME NEW c, ConsumerStep(c)
  PROVE  UNCHANGED <<msgs, lapsed, frozen, reserved, prod, sweep, move, absorbed, late, lost>>
BY DEF ConsumerStep, Dequeue, LoadFrozen, LoadHint, LoadSeq, TakeFails, Take, Forget, Ack, Nack,
       CountRemoval, slotVars, engineVars, history

LEMMA SweeperLeaves ==
  ASSUME SweeperStep
  PROVE  UNCHANGED <<msgs, lapsed, frozen, reserved, prod, cons, move, history>>
BY DEF SweeperStep, BeginSweep, SweepLook, SweepSlot, CountSwept, slotVars, engineVars

LEMMA MoverLeaves ==
  ASSUME MoverStep
  PROVE  UNCHANGED <<lapsed, reserved, prod, cons, sweep, leaked, late>>
BY DEF MoverStep, Freeze, CopyAll, Thaw, Drain, ThawEmpty, CountDropped, AbsorbIn, CountAbsorbed,
       slotVars, engineVars, history

-----------------------------------------------------------------------------
(* Types *)


LEMMA GotoType ==
  ASSUME ProdType, NEW p \in Producers, prod[p].pc # "idle",
         NEW pc \in {"depth", "frozen", "land", "count", "release"}, Goto(p, pc)
  PROVE  ProdType'
<1>1. PICK r \in Producing : r = prod[p]
  BY DEF ProdType
<1>2. Producer(r) /\ r.pc # "idle"
  BY <1>1 DEF ProdType
<1> DEFINE t == [r EXCEPT !.pc = pc]
<1>3. t \in Producing /\ Producer(t)
  BY <1>2 DEF Producing, Producer
<1>4. prod' = [prod EXCEPT ![p] = t]
  BY <1>1 DEF Goto
<1> HIDE DEF t
<1> QED BY <1>3, <1>4 DEF ProdType

LEMMA ProducerTypes ==
  ASSUME TypeInv, NEW p \in Producers, ProducerStep(p)
  PROVE  ProdType' /\ depth' \in Int /\ reserved' \in Int
<1> USE DEF TypeInv, engineVars
<1>1. CASE \E s \in Slots, pr \in Priorities : Reserve(p, s, pr)
  <2>1. PICK s \in Slots, pr \in Priorities : Reserve(p, s, pr)
    BY <1>1
  <2> DEFINE t == [pc |-> "depth", slot |-> s, prio |-> pr, pending |-> reserved + 1]
  <2>2. t \in Producing /\ Producer(t)
    BY DEF Producing, Producer
  <2>3. prod' = [prod EXCEPT ![p] = t] /\ reserved' = reserved + 1 /\ depth' = depth
    BY <2>1 DEF Reserve
  <2> HIDE DEF t
  <2> QED BY <2>2, <2>3 DEF ProdType
<1>2. CASE CheckDepth(p)
  <2>1. \/ Goto(p, "release")
        \/ Goto(p, "frozen")
    BY <1>2 DEF CheckDepth
  <2> QED BY <1>2, <2>1, GotoType DEF CheckDepth
<1>3. CASE CheckFrozen(p)
  <2>1. Goto(p, "release") \/ Goto(p, "land")
    BY <1>3 DEF CheckFrozen
  <2> QED BY <1>3, <2>1, GotoType DEF CheckFrozen
<1>4. CASE Land(p)
  BY <1>4, GotoType DEF Land
<1>5. CASE JournalFails(p)
  BY <1>5, GotoType DEF JournalFails
<1>6. CASE CountEnqueue(p)
  BY <1>6, GotoType DEF CountEnqueue
<1>7. CASE Release(p)
  <2>1. IdleProducer \in Producing /\ Producer(IdleProducer)
    BY DEF IdleProducer, Producing, Producer
  <2> QED BY <1>7, <2>1 DEF Release, ProdType
<1> QED BY <1>1, <1>2, <1>3, <1>4, <1>5, <1>6, <1>7 DEF ProducerStep

LEMMA BecomeType ==
  ASSUME ConsType, NEW c \in Consumers, NEW r \in Consuming, Consumer(r), r.msg <= Len(msgs),
         Become(c, r), msgs' = msgs
  PROVE  ConsType'
BY DEF ConsType, Become

LEMMA ScanType ==
  ASSUME NEW t \in Nat
  PROVE  Scan(t) \in Consuming /\ Consumer(Scan(t)) /\ Scan(t).msg = 0
BY EngineAssumption DEF Scan, Consuming, Consumer, NoHead, NoSlot, Slots

LEMMA IdleType == IdleConsumer \in Consuming /\ Consumer(IdleConsumer) /\ IdleConsumer.msg = 0
BY DEF IdleConsumer, Consuming, Consumer, NoSlot, Slots

LEMMA SkipType ==
  ASSUME NEW r \in Consuming, Consumer(r), r.pc # "work", NEW n \in Nat
  PROVE  Skip(r) \in Consuming /\ Consumer(Skip(r)) /\ Skip(r).msg <= n
<1>1. Skip(r).msg = 0 /\ Skip(r).pc = "look" /\ Skip(r).best = r.best /\ Skip(r).band = r.band
  BY DEF Skip, Consumer, Consuming
<1>2. Skip(r) \in Consuming
  <2>1. PICK a \in Nat : a = r.at + 1
    BY DEF Consuming
  <2>2. Skip(r) = [r EXCEPT !.pc = "look", !.at = a]
    BY <2>1 DEF Skip
  <2> QED BY <2>2 DEF Consuming
<1> QED BY <1>1, <1>2 DEF Consumer

LEMMA ConsumerTypes ==
  ASSUME TypeInv, NEW c \in Consumers, ConsumerStep(c)
  PROVE  ConsType' /\ depth' \in Int /\ leaked' \in Nat
<1> USE DEF TypeInv, engineVars, history
<1>1. PICK r \in Consuming : r = cons[c]
  BY DEF ConsType
<1>2. Consumer(r) /\ r.msg <= Len(msgs) /\ Len(msgs) \in Nat /\ r.msg \in Nat
  BY <1>1, EngineAssumption DEF ConsType, QueueInv, QueueType, Consuming, Messages
<1>3. msgs' = msgs /\ ConsType /\ QueueType
  BY ConsumerLeaves DEF QueueInv
<1>4. depth' \in Int /\ leaked' \in Nat
  BY DEF ConsumerStep, Dequeue, LoadFrozen, LoadHint, LoadSeq, TakeFails, Take, Forget, Ack, Nack,
         CountRemoval
<1> SUFFICES ConsType'
  BY <1>4
<1>5. ASSUME Become(c, IdleConsumer) PROVE ConsType'
  BY <1>2, <1>3, <1>5, IdleType, BecomeType
<1>6. ASSUME NEW t \in Nat, Become(c, Scan(t)) PROVE ConsType'
  BY <1>2, <1>3, <1>6, ScanType, BecomeType
<1>7. ASSUME Counting(c) PROVE ConsType'
  <2> DEFINE q == [IdleConsumer EXCEPT !.pc = "count"]
  <2>1. q \in Consuming /\ Consumer(q) /\ q.msg = 0
    BY DEF IdleConsumer, Consuming, Consumer, NoSlot, Slots
  <2>2. Become(c, q)
    BY <1>7 DEF Counting
  <2> HIDE DEF q
  <2> QED BY <1>2, <1>3, <2>1, <2>2, BecomeType
<1>8. ASSUME Become(c, Skip(r)), r.pc # "work" PROVE ConsType'
  BY <1>2, <1>3, <1>8, SkipType, BecomeType
<1>9. CASE Dequeue(c)
  BY <1>6, <1>9 DEF Dequeue
<1>10. CASE LoadFrozen(c)
  <2>1. /\ r.pc = "look"
        /\ \/ Become(c, IdleConsumer)
           \/ r.best # NoSlot /\ Become(c, [r EXCEPT !.pc = "take"])
           \/ Become(c, Skip(r))
           \/ r.at \in Slots /\ Become(c, [r EXCEPT !.pc = "hint"])
    BY <1>1, <1>10 DEF LoadFrozen
  <2>2. ASSUME r.best # NoSlot, Become(c, [r EXCEPT !.pc = "take"]) PROVE ConsType'
    <3> DEFINE q == [r EXCEPT !.pc = "take"]
    <3>1. q \in Consuming /\ Consumer(q) /\ q.msg = r.msg
      BY <1>2, <2>1, <2>2 DEF Consuming, Consumer
    <3>2. Become(c, q)
      BY <2>2
    <3> HIDE DEF q
    <3> QED BY <1>2, <1>3, <3>1, <3>2, BecomeType
  <2>3. ASSUME r.at \in Slots, Become(c, [r EXCEPT !.pc = "hint"]) PROVE ConsType'
    <3> DEFINE q == [r EXCEPT !.pc = "hint"]
    <3>1. q \in Consuming /\ Consumer(q) /\ q.msg = r.msg
      BY <1>2, <2>1, <2>3 DEF Consuming, Consumer
    <3>2. Become(c, q)
      BY <2>3
    <3> HIDE DEF q
    <3> QED BY <1>2, <1>3, <3>1, <3>2, BecomeType
  <2> QED BY <1>5, <1>8, <2>1, <2>2, <2>3
<1>11. CASE LoadHint(c)
  <2>1. r.pc = "hint" /\ r.at \in Slots
    BY <1>1, <1>2, <1>11 DEF LoadHint, Consumer
  <2>2. \/ Become(c, Skip(r))
        \/ Hint(r.at) # 0 /\ Become(c, [r EXCEPT !.pc = "seq", !.h = Hint(r.at)])
    BY <1>1, <1>11 DEF LoadHint
  <2>3. ASSUME Hint(r.at) # 0, Become(c, [r EXCEPT !.pc = "seq", !.h = Hint(r.at)])
        PROVE  ConsType'
    <3>1. PICK h \in Nat : h = Hint(r.at) /\ h - 1 \in Priorities
      BY <1>3, <2>1, <2>3, HintIs
    <3> DEFINE q == [r EXCEPT !.pc = "seq", !.h = h]
    <3>2. q \in Consuming /\ Consumer(q) /\ q.msg = r.msg
      BY <1>2, <2>1, <3>1 DEF Consuming, Consumer
    <3>3. Become(c, q)
      BY <2>3, <3>1
    <3> HIDE DEF q
    <3> QED BY <1>2, <1>3, <3>2, <3>3, BecomeType
  <2> QED BY <1>8, <2>1, <2>2, <2>3
<1>12. CASE LoadSeq(c)
  <2>1. r.pc = "seq" /\ r.at \in Slots /\ r.h - 1 \in Priorities
    BY <1>1, <1>2, <1>12 DEF LoadSeq, Consumer
  <2>2. \/ Become(c, Skip(r))
        \/ Become(c, Skip([r EXCEPT !.best = r.at, !.band = r.h - 1, !.seq = HeadSeq(r.at)]))
    BY <1>1, <1>12 DEF LoadSeq
  <2>3. ASSUME Become(c, Skip([r EXCEPT !.best = r.at, !.band = r.h - 1, !.seq = HeadSeq(r.at)]))
        PROVE  ConsType'
    <3>1. PICK h \in Nat : h = HeadSeq(r.at)
      BY <1>3, <2>1, HintIs
    <3>2. PICK s \in Slots, b \in Priorities : s = r.at /\ b = r.h - 1
      BY <2>1
    <3> DEFINE q == [r EXCEPT !.best = s, !.band = b, !.seq = h]
    <3>3. b \in Int
      BY EngineAssumption
    <3>4. q \in Consuming
      BY <3>3 DEF Consuming
    <3>5. /\ q.pc = r.pc /\ q.at = r.at /\ q.h = r.h /\ q.best = s /\ q.band = b
          /\ q.msg = r.msg
      BY DEF Consuming
    <3>6. Consumer(q) /\ q.pc # "work"
      BY <1>2, <2>1, <3>5 DEF Consumer
    <3>7. Become(c, Skip(q))
      BY <2>3, <3>1, <3>2
    <3> HIDE DEF q
    <3> QED BY <1>2, <1>3, <3>4, <3>6, <3>7, SkipType, BecomeType
  <2> QED BY <1>8, <2>1, <2>2, <2>3
<1>13. CASE TakeFails(c)
  <2>1. Become(c, Retry(r))
    BY <1>1, <1>13 DEF TakeFails
  <2>2. r.tries + 1 \in Nat
    BY DEF Consuming
  <2> QED BY <1>5, <1>6, <2>1, <2>2 DEF Retry
<1>14. CASE Take(c)
  <2>1. PICK h \in Messages : h = Head(Behind(r.best, r.band)) /\ h <= Len(msgs) /\ h # 0
    BY <1>1, <1>14, TakeGone
  <2>0. PICK i \in Consuming : i = IdleConsumer /\ i.best = NoSlot
    BY IdleType DEF IdleConsumer
  <2> DEFINE q == [i EXCEPT !.pc = "work", !.msg = h]
  <2>4. q \in Consuming
    BY DEF Consuming
  <2>5. q.pc = "work" /\ q.best = NoSlot /\ q.msg = h
    BY <2>0 DEF Consuming
  <2>2. q \in Consuming /\ Consumer(q) /\ q.msg = h
    BY <2>1, <2>4, <2>5 DEF Consumer
  <2>3. Become(c, q)
    BY <1>1, <1>14, <2>0, <2>1 DEF Take
  <2> HIDE DEF q
  <2> QED BY <1>2, <1>3, <2>1, <2>2, <2>3, BecomeType
<1>15. CASE Forget(c)
  BY <1>5, <1>15 DEF Forget
<1>16. CASE Ack(c)
  BY <1>7, <1>16 DEF Ack
<1>17. CASE Nack(c)
  BY <1>5, <1>7, <1>17 DEF Nack
<1>18. CASE CountRemoval(c)
  BY <1>5, <1>18 DEF CountRemoval
<1> QED
  BY <1>9, <1>10, <1>11, <1>12, <1>13, <1>14, <1>15, <1>16, <1>17, <1>18 DEF ConsumerStep

LEMMA SweeperTypes ==
  ASSUME TypeInv, SweeperStep
  PROVE  SweepType' /\ depth' \in Int
<1>1. PICK r \in Sweeping : r = sweep /\ (r.pc = "sweep" => r.at \in Slots)
                            /\ (r.pc = "idle" => r.removed = 0)
  BY DEF TypeInv, SweepType
<1>2. depth \in Int /\ r.removed \in Nat
  BY DEF TypeInv, Sweeping
<1>3. IdleSweep \in Sweeping /\ IdleSweep.pc = "idle" /\ IdleSweep.removed = 0
  BY DEF IdleSweep, Sweeping
<1>4. CASE BeginSweep
  <2> DEFINE i == IdleSweep
             t == [i EXCEPT !.pc = "look", !.todo = Slots]
  <2>1. sweep' = t /\ depth' = depth
    BY <1>4 DEF BeginSweep, engineVars
  <2>2. i \in Sweeping
    BY <1>3
  <2> HIDE DEF i
  <2>3. t \in Sweeping /\ t.pc = "look"
    BY <2>2 DEF Sweeping
  <2> HIDE DEF t
  <2> QED BY <1>2, <2>1, <2>3 DEF SweepType
<1>5. CASE SweepLook
  <2>1. depth' = depth
    BY <1>5 DEF SweepLook, engineVars
  <2>2. CASE sweep' = [sweep EXCEPT !.pc = "count"]
    <3> DEFINE t == [r EXCEPT !.pc = "count"]
    <3>1. t \in Sweeping /\ t.pc = "count" /\ sweep' = t
      BY <1>1, <2>2 DEF Sweeping
    <3> HIDE DEF t
    <3> QED BY <1>2, <2>1, <3>1 DEF SweepType
  <2>3. ASSUME NEW s \in sweep.todo,
               sweep' = [sweep EXCEPT !.todo = @ \ {s},
                                      !.pc = IF frozen[s] THEN "look" ELSE "sweep",
                                      !.at = IF frozen[s] THEN NoSlot ELSE s]
        PROVE  SweepType' /\ depth' \in Int
    <3>1. s \in Slots /\ r.todo \ {s} \in SUBSET Slots
      BY <1>1 DEF Sweeping
    <3>2. PICK todo \in SUBSET Slots, pc \in {"look", "sweep"}, at \in Slots \cup {NoSlot} :
            /\ todo = r.todo \ {s} /\ pc = (IF frozen[s] THEN "look" ELSE "sweep")
            /\ at = (IF frozen[s] THEN NoSlot ELSE s)
      BY <3>1
    <3> DEFINE t == [r EXCEPT !.todo = todo, !.pc = pc, !.at = at]
    <3>3. sweep' = t
      BY <1>1, <2>3, <3>2
    <3>4. t \in Sweeping /\ t.pc = pc /\ t.at = at
      BY DEF Sweeping
    <3>5. pc = "sweep" => at \in Slots
      BY <3>1, <3>2
    <3> HIDE DEF t
    <3> QED BY <1>2, <2>1, <3>3, <3>4, <3>5 DEF SweepType
  <2> QED BY <1>5, <2>2, <2>3 DEF SweepLook
<1>6. CASE SweepSlot
  <2>1. PICK R \in SUBSET AllHeld :
          sweep' = [sweep EXCEPT !.pc = "look", !.at = NoSlot,
                                 !.removed = sweep.removed + Cardinality(R)]
    BY <1>6, SweepGone
  <2>2. PICK n \in Nat : n = sweep.removed + Cardinality(R)
    BY <1>1, <1>2, HeldFinite DEF TypeInv
  <2> DEFINE t == [r EXCEPT !.pc = "look", !.at = NoSlot, !.removed = n]
  <2>3. t \in Sweeping /\ t.pc = "look" /\ sweep' = t
    BY <1>1, <2>1, <2>2 DEF Sweeping
  <2>4. depth' = depth
    BY <1>6 DEF SweepSlot, engineVars
  <2> HIDE DEF t
  <2> QED BY <1>2, <2>3, <2>4 DEF SweepType
<1>7. CASE CountSwept
  <2>1. sweep' = IdleSweep /\ depth' = depth - r.removed
    BY <1>1, <1>7 DEF CountSwept
  <2> QED BY <1>2, <1>3, <2>1 DEF SweepType
<1> QED BY <1>4, <1>5, <1>6, <1>7 DEF SweeperStep

(* What the handoff does to its own state. *)
LEMMA IdleMoveType == IdleMove \in Moving /\ IdleMove.pc = "idle" /\ IdleMove.count = 0
BY DEF IdleMove, Moving

LEMMA MoverTypes ==
  ASSUME TypeInv, MoverStep
  PROVE  MoveType' /\ depth' \in Int /\ frozen' \in [Slots -> BOOLEAN] /\ absorbed' \in Nat
<1>1. PICK r \in Moving : r = move /\ (r.pc \in {"copy", "moving", "thaw"} => r.slot \in Slots)
                          /\ (r.pc \in {"idle", "copy", "moving"} => r.count = 0)
  BY DEF TypeInv, MoveType
<1>2. /\ depth \in Int /\ r.count \in Nat /\ frozen \in [Slots -> BOOLEAN] /\ absorbed \in Nat
      /\ Movable \subseteq Slots
  BY <1>1, EngineAssumption DEF TypeInv, QueueInv, QueueType, Moving, Slots
<1>3. PICK i \in Moving : i = IdleMove /\ i.pc = "idle" /\ i.count = 0
  BY IdleMoveType
<1>4. depth' \in Int /\ frozen' \in [Slots -> BOOLEAN] /\ absorbed' \in Nat
  <2> USE DEF MoverStep, Freeze, CopyAll, Thaw, Drain, ThawEmpty, CountDropped, AbsorbIn,
              CountAbsorbed, engineVars, history
  <2>1. depth' = depth \/ depth' = depth - move.count \/ depth' = depth + move.count
    OBVIOUS
  <2>2. frozen' = frozen \/ \E s, b : frozen' = [frozen EXCEPT ![s] = b] /\ b \in BOOLEAN
    OBVIOUS
  <2>3. absorbed' = absorbed \/ absorbed' = absorbed + 1
    OBVIOUS
  <2> HIDE DEF MoverStep
  <2> QED BY <1>1, <1>2, <2>1, <2>2, <2>3
<1> SUFFICES MoveType'
  BY <1>4
<1>5. ASSUME move' = IdleMove PROVE MoveType'
  BY <1>3, <1>5 DEF MoveType
<1>6. ASSUME NEW s \in Movable, Freeze(s) PROVE MoveType'
  <2> DEFINE t == [i EXCEPT !.pc = "copy", !.slot = s]
  <2>1. s \in Slots
    BY <1>2
  <2>2. t \in Moving /\ t.slot = s /\ t.count = 0 /\ t.pc = "copy"
    BY <1>3, <2>1 DEF Moving
  <2>3. move' = t
    BY <1>3, <1>6 DEF Freeze
  <2> HIDE DEF t
  <2> QED BY <2>1, <2>2, <2>3 DEF MoveType
<1>7. CASE CopyAll
  <2>1. r.pc = "copy" /\ r.slot \in Slots /\ r.count = 0
    BY <1>1, <1>7 DEF CopyAll
  <2>2. PICK h \in SUBSET Messages : h = Held(r.slot)
    <3>1. Held(r.slot) \subseteq 1..Len(msgs)
      BY <2>1, HeldThere DEF TypeInv, HeldIs
    <3>2. 1..Len(msgs) \subseteq Messages
      BY MessageIs DEF TypeInv, QueueInv
    <3> QED BY <3>1, <3>2
  <2> DEFINE t == [r EXCEPT !.pc = "moving", !.copy = h]
  <2>3. t \in Moving /\ t.pc = "moving" /\ t.slot = r.slot /\ t.count = r.count
    BY DEF Moving
  <2>4. move' = t
    BY <1>1, <1>7, <2>2 DEF CopyAll
  <2> HIDE DEF t
  <2> QED BY <2>1, <2>3, <2>4 DEF MoveType
<1>8. CASE Drain
  <2>1. r.pc = "moving" /\ r.slot \in Slots
    BY <1>1, <1>8 DEF Drain
  <2>2. PICK n \in Nat : n = Cardinality(Held(r.slot))
    <3>1. Held(r.slot) \in SUBSET AllHeld
      BY <2>1 DEF AllHeld
    <3> QED BY <3>1, HeldFinite DEF TypeInv
  <2> DEFINE t == [r EXCEPT !.pc = "thaw", !.copy = {}, !.count = n]
  <2>3. t \in Moving /\ t.pc = "thaw" /\ t.slot = r.slot
    BY DEF Moving
  <2>4. move' = t
    BY <1>1, <1>8, <2>2 DEF Drain
  <2> HIDE DEF t
  <2> QED BY <2>1, <2>3, <2>4 DEF MoveType
<1>9. CASE ThawEmpty
  <2> DEFINE t == [r EXCEPT !.pc = "dropped"]
  <2>1. t \in Moving /\ t.pc = "dropped"
    BY DEF Moving
  <2>2. move' = t
    BY <1>1, <1>9 DEF ThawEmpty
  <2> HIDE DEF t
  <2> QED BY <2>1, <2>2 DEF MoveType
<1>10. ASSUME NEW s \in Slots, NEW pr \in Priorities, AbsorbIn(s, pr) PROVE MoveType'
  <2> DEFINE t == [i EXCEPT !.pc = "absorbed", !.count = 1]
  <2>1. t \in Moving /\ t.pc = "absorbed"
    BY DEF Moving
  <2>2. move' = t
    BY <1>3, <1>10 DEF AbsorbIn
  <2> HIDE DEF t
  <2> QED BY <2>1, <2>2 DEF MoveType
<1> QED BY <1>5, <1>6, <1>7, <1>8, <1>9, <1>10 DEF MoverStep, Thaw, CountDropped, CountAbsorbed

-----------------------------------------------------------------------------
(* What each step does to the queue and to the counts. *)

LEMMA LapseStep ==
  ASSUME TypeInv, NEW n \in Messages, Lapse(n)
  PROVE  /\ Gone({})
         /\ UNCHANGED <<depth, reserved, frozen, prod, cons, sweep, move, leaked, absorbed, late, lost>>
<1>1. /\ QueueInv /\ UNCHANGED slotVars /\ frozen' = frozen /\ lapsed' = lapsed \cup {n}
      /\ UNCHANGED <<depth, reserved, prod, cons, sweep, move, leaked, absorbed, late, lost>>
      /\ n \in AllHeld
  BY DEF TypeInv, Lapse, engineVars, history
<1>2. frozen' \in [Slots -> BOOLEAN] /\ lapsed' \subseteq 1..Len(msgs)
  BY <1>1, HeldThere DEF QueueInv, QueueType, HeldIs
<1> QED BY <1>1, <1>2, Quiet

LEMMA ProducerMoves ==
  ASSUME TypeInv, NEW p \in Producers, ProducerStep(p)
  PROVE  /\ \A q \in Producers : q # p => prod'[q] = prod[q]
         /\ \/ /\ prod[p].pc = "land" /\ prod'[p].pc = "count"
               /\ depth' = depth /\ reserved' = reserved /\ prod'[p].pending = prod[p].pending
               /\ \E s \in Slots, pr \in Priorities :
                    /\ s = prod[p].slot /\ Enter(s, pr)
                    /\ late' = IF frozen[s] THEN late \cup {Len(msgs) + 1} ELSE late
            \/ /\ Gone({}) /\ late' = late
               /\ prod[p].pc = "idle" /\ prod'[p].pc = "depth"
               /\ depth' = depth /\ reserved' = reserved + 1 /\ prod'[p].pending = reserved + 1
            \/ /\ Gone({}) /\ late' = late
               /\ prod[p].pc = "release" /\ prod'[p].pc = "idle"
               /\ depth' = depth /\ reserved' = reserved - 1
            \/ /\ Gone({}) /\ late' = late
               /\ prod[p].pc = "count" /\ prod'[p].pc = "release"
               /\ depth' = depth + 1 /\ reserved' = reserved
            \/ /\ Gone({}) /\ late' = late
               /\ prod[p].pc = "depth" /\ prod'[p].pc = "frozen"
               /\ depth + prod[p].pending <= MaxDepth
               /\ depth' = depth /\ reserved' = reserved /\ prod'[p].pending = prod[p].pending
            \/ /\ Gone({}) /\ late' = late
               /\ prod[p].pc = "frozen" /\ prod'[p].pc = "land"
               /\ depth' = depth /\ reserved' = reserved /\ prod'[p].pending = prod[p].pending
            \/ /\ Gone({}) /\ late' = late
               /\ prod[p].pc \in {"depth", "frozen", "land"} /\ prod'[p].pc = "release"
               /\ depth' = depth /\ reserved' = reserved
<1>1. PICK r \in Producing : r = prod[p] /\ Producer(r)
  BY DEF TypeInv, ProdType
<1>2. /\ prod \in [Producers -> Producing] /\ QueueInv /\ lapsed \subseteq 1..Len(msgs)
      /\ frozen \in [Slots -> BOOLEAN] /\ depth \in Int /\ reserved \in Nat
  BY DEF TypeInv, ProdType, QueueInv, QueueType
<1>3. ASSUME UNCHANGED <<slotVars, lapsed, frozen>> PROVE Gone({})
  BY <1>2, <1>3, Quiet
<1>4. ASSUME NEW pc \in {"frozen", "land", "count", "release"}, Goto(p, pc)
      PROVE  /\ prod'[p].pc = pc /\ prod'[p].pending = prod[p].pending
             /\ \A q \in Producers : q # p => prod'[q] = prod[q]
  <2> DEFINE t == [r EXCEPT !.pc = pc]
  <2>1. t.pc = pc /\ t.pending = r.pending
    BY DEF Producing
  <2>2. prod' = [prod EXCEPT ![p] = t]
    BY <1>1, <1>4 DEF Goto
  <2> HIDE DEF t
  <2> QED BY <1>1, <1>2, <2>1, <2>2
<1>5. CASE \E s \in Slots, pr \in Priorities : Reserve(p, s, pr)
  <2>1. PICK s \in Slots, pr \in Priorities : Reserve(p, s, pr)
    BY <1>5
  <2> DEFINE t == [pc |-> "depth", slot |-> s, prio |-> pr, pending |-> reserved + 1]
  <2>2. t.pc = "depth" /\ t.pending = reserved + 1
    OBVIOUS
  <2>3. /\ prod' = [prod EXCEPT ![p] = t] /\ reserved' = reserved + 1 /\ depth' = depth
        /\ prod[p].pc = "idle" /\ late' = late
    BY <2>1 DEF Reserve, history
  <2>4. Gone({})
    BY <1>3, <2>1 DEF Reserve
  <2> HIDE DEF t
  <2> QED BY <1>2, <2>2, <2>3, <2>4
<1>6. CASE CheckDepth(p)
  <2>1. Gone({}) /\ late' = late /\ depth' = depth /\ reserved' = reserved /\ prod[p].pc = "depth"
    BY <1>3, <1>6 DEF CheckDepth, engineVars, history
  <2>2. r.pending \in Nat /\ MaxDepth \in Nat
    BY EngineAssumption DEF Producing
  <2>3. CASE depth + prod[p].pending > MaxDepth
    <3>1. Goto(p, "release")
      BY <1>6, <2>3 DEF CheckDepth
    <3> QED BY <1>4, <2>1, <3>1
  <2>4. CASE depth + prod[p].pending <= MaxDepth
    <3>1. Goto(p, "frozen")
      BY <1>1, <1>2, <1>6, <2>2, <2>4 DEF CheckDepth
    <3> QED BY <1>4, <2>1, <2>4, <3>1
  <2> QED BY <1>1, <1>2, <2>2, <2>3, <2>4
<1>7. CASE CheckFrozen(p)
  <2>1. Gone({}) /\ late' = late /\ depth' = depth /\ reserved' = reserved /\ prod[p].pc = "frozen"
    BY <1>3, <1>7 DEF CheckFrozen, engineVars, history
  <2>2. Goto(p, "release") \/ Goto(p, "land")
    BY <1>7 DEF CheckFrozen
  <2>3. CASE Goto(p, "release")
    BY <1>4, <2>1, <2>3
  <2>4. CASE Goto(p, "land")
    BY <1>4, <2>1, <2>4
  <2> QED BY <2>2, <2>3, <2>4
<1>8. CASE Land(p)
  <2>1. /\ Goto(p, "count") /\ prod[p].pc = "land" /\ depth' = depth /\ reserved' = reserved
        /\ Enter(prod[p].slot, prod[p].prio)
        /\ late' = IF frozen[prod[p].slot] THEN late \cup {Len(msgs) + 1} ELSE late
    BY <1>8 DEF Land, engineVars
  <2>2. prod[p].slot \in Slots /\ prod[p].prio \in Priorities
    BY <1>1, <2>1 DEF Producer
  <2> QED BY <1>4, <2>1, <2>2
<1>9. CASE JournalFails(p)
  <2>1. Gone({}) /\ late' = late /\ depth' = depth /\ reserved' = reserved /\ prod[p].pc = "land"
    BY <1>3, <1>9 DEF JournalFails, engineVars, history
  <2> QED BY <1>4, <1>9, <2>1 DEF JournalFails
<1>10. CASE CountEnqueue(p)
  <2>1. /\ Gone({}) /\ late' = late /\ depth' = depth + 1 /\ reserved' = reserved
        /\ prod[p].pc = "count"
    BY <1>3, <1>10 DEF CountEnqueue, history
  <2> QED BY <1>4, <1>10, <2>1 DEF CountEnqueue
<1>11. CASE Release(p)
  <2>1. /\ Gone({}) /\ late' = late /\ depth' = depth /\ reserved' = reserved - 1
        /\ prod[p].pc = "release"
    BY <1>3, <1>11 DEF Release, history
  <2>2. prod' = [prod EXCEPT ![p] = IdleProducer] /\ IdleProducer.pc = "idle"
    BY <1>11 DEF Release, IdleProducer
  <2> QED BY <1>2, <2>1, <2>2
<1> QED BY <1>5, <1>6, <1>7, <1>8, <1>9, <1>10, <1>11 DEF ProducerStep

LEMMA ConsumerMoves ==
  ASSUME TypeInv, NEW c \in Consumers, ConsumerStep(c)
  PROVE  /\ \A d \in Consumers : d # c => cons'[d] = cons[d]
         /\ \/ /\ Gone({}) /\ depth' = depth /\ leaked' = leaked
               /\ cons[c].pc # "count" /\ cons'[c].pc # "count"
            \/ /\ \E n \in AllHeld : Gone({n})
               /\ depth' = depth /\ leaked' = leaked + 1
               /\ cons[c].pc # "count" /\ cons'[c].pc # "count"
            \/ /\ \E n \in AllHeld : Gone({n})
               /\ depth' = depth /\ leaked' = leaked
               /\ cons[c].pc # "count" /\ cons'[c].pc = "count"
            \/ /\ Gone({}) /\ depth' = depth - 1 /\ leaked' = leaked
               /\ cons[c].pc = "count" /\ cons'[c].pc # "count"
<1>1. PICK r \in Consuming : r = cons[c]
  BY DEF TypeInv, ConsType
<1>2. /\ cons \in [Consumers -> Consuming] /\ QueueInv /\ lapsed \subseteq 1..Len(msgs)
      /\ frozen \in [Slots -> BOOLEAN]
  BY DEF TypeInv, ConsType, QueueInv, QueueType
<1>3. ASSUME UNCHANGED <<slotVars, lapsed, frozen>> PROVE Gone({})
  BY <1>2, <1>3, Quiet
<1>4. ASSUME NEW q, Become(c, q)
      PROVE  cons'[c] = q /\ \A d \in Consumers : d # c => cons'[d] = cons[d]
  BY <1>2, <1>4 DEF Become
<1>5. /\ IdleConsumer.pc # "count" /\ Skip(r).pc = "look" /\ \A t : Scan(t).pc # "count"
      /\ [IdleConsumer EXCEPT !.pc = "count"].pc = "count"
  BY DEF IdleConsumer, Skip, Scan, Consuming
<1>6. \A t \in Consuming : Skip(t).pc = "look"
  BY DEF Skip, Consuming
<1>7. CASE Dequeue(c)
  <2>1. /\ Become(c, Scan(1)) /\ depth' = depth /\ leaked' = leaked /\ Gone({})
        /\ cons[c].pc # "count"
    BY <1>3, <1>7 DEF Dequeue, engineVars, history
  <2> QED BY <1>4, <1>5, <2>1
<1>8. CASE LoadFrozen(c)
  <2>1. depth' = depth /\ leaked' = leaked /\ Gone({}) /\ r.pc = "look"
    BY <1>1, <1>3, <1>8 DEF LoadFrozen, engineVars, history
  <2>2. /\ [r EXCEPT !.pc = "take"].pc # "count" /\ [r EXCEPT !.pc = "hint"].pc # "count"
    BY DEF Consuming
  <2>3. \E q : Become(c, q) /\ q.pc # "count"
    BY <1>1, <1>5, <1>8, <2>2 DEF LoadFrozen
  <2> QED BY <1>1, <1>4, <2>1, <2>3
<1>9. CASE LoadHint(c)
  <2>1. depth' = depth /\ leaked' = leaked /\ Gone({}) /\ r.pc = "hint"
    BY <1>1, <1>3, <1>9 DEF LoadHint, engineVars, history
  <2>2. [r EXCEPT !.pc = "seq", !.h = Hint(r.at)].pc # "count"
    BY DEF Consuming
  <2>3. \E q : Become(c, q) /\ q.pc # "count"
    BY <1>1, <1>5, <1>9, <2>2 DEF LoadHint
  <2> QED BY <1>1, <1>4, <2>1, <2>3
<1>10. CASE LoadSeq(c)
  <2>1. depth' = depth /\ leaked' = leaked /\ Gone({}) /\ r.pc = "seq"
    BY <1>1, <1>3, <1>10 DEF LoadSeq, engineVars, history
  <2>2. Skip([r EXCEPT !.best = r.at, !.band = r.h - 1, !.seq = HeadSeq(r.at)]).pc # "count"
    BY DEF Skip, Consuming
  <2>3. \E q : Become(c, q) /\ q.pc # "count"
    BY <1>1, <1>5, <1>10, <2>2 DEF LoadSeq
  <2> QED BY <1>1, <1>4, <2>1, <2>3
<1>11. CASE TakeFails(c)
  <2>1. depth' = depth /\ r.pc = "take" /\ Become(c, Retry(r))
    BY <1>1, <1>11 DEF TakeFails, engineVars
  <2>2. Retry(r).pc # "count"
    BY <1>5 DEF Retry
  <2> QED BY <1>1, <1>4, <1>11, <2>1, <2>2, TakeFailsGone
<1>12. CASE Take(c)
  <2>1. depth' = depth /\ leaked' = leaked /\ r.pc = "take"
    BY <1>1, <1>12 DEF Take, engineVars, history
  <2>2. PICK h : Become(c, [IdleConsumer EXCEPT !.pc = "work", !.msg = h])
    BY <1>12 DEF Take
  <2>3. [IdleConsumer EXCEPT !.pc = "work", !.msg = h].pc # "count"
    BY DEF IdleConsumer
  <2> QED BY <1>1, <1>4, <1>12, <2>1, <2>2, <2>3, TakeGone
<1>13. CASE Forget(c)
  <2>1. /\ Become(c, IdleConsumer) /\ depth' = depth /\ leaked' = leaked /\ Gone({})
        /\ cons[c].pc # "count"
    BY <1>3, <1>13 DEF Forget, engineVars, history
  <2> QED BY <1>4, <1>5, <2>1
<1>14. CASE Ack(c)
  <2>1. Counting(c) /\ depth' = depth /\ leaked' = leaked /\ cons[c].pc # "count"
    BY <1>14 DEF Ack, engineVars, history
  <2>2. \E n \in AllHeld : Gone({n})
    BY <1>14, AckGone
  <2> QED BY <1>4, <1>5, <2>1, <2>2 DEF Counting
<1>15. CASE Nack(c)
  <2>1. depth' = depth /\ cons[c].pc # "count"
    BY <1>15 DEF Nack, engineVars
  <2>2. \/ /\ \E n \in AllHeld : Gone({n})
           /\ \/ leaked' = leaked + 1 /\ Become(c, IdleConsumer)
              \/ leaked' = leaked /\ Counting(c)
        \/ Gone({}) /\ leaked' = leaked /\ Become(c, IdleConsumer)
    BY <1>15, NackGone
  <2>3. Counting(c) => cons'[c].pc = "count" /\ \A d \in Consumers : d # c => cons'[d] = cons[d]
    BY <1>4, <1>5 DEF Counting
  <2>4. Become(c, IdleConsumer) =>
          cons'[c].pc # "count" /\ \A d \in Consumers : d # c => cons'[d] = cons[d]
    BY <1>4, <1>5
  <2> QED BY <2>1, <2>2, <2>3, <2>4
<1>16. CASE CountRemoval(c)
  <2>1. /\ Become(c, IdleConsumer) /\ depth' = depth - 1 /\ leaked' = leaked /\ Gone({})
        /\ cons[c].pc = "count"
    BY <1>3, <1>16 DEF CountRemoval, history
  <2> QED BY <1>4, <1>5, <2>1
<1> QED
  BY <1>7, <1>8, <1>9, <1>10, <1>11, <1>12, <1>13, <1>14, <1>15, <1>16 DEF ConsumerStep

LEMMA SweeperMoves ==
  ASSUME TypeInv, SweeperStep
  PROVE  \/ Gone({}) /\ depth' = depth /\ sweep'.removed = sweep.removed
         \/ /\ depth' = depth
            /\ \E R \in SUBSET AllHeld : /\ Gone(R)
                                         /\ sweep'.removed = sweep.removed + Cardinality(R)
         \/ Gone({}) /\ depth' = depth - sweep.removed /\ sweep'.removed = 0
<1>1. PICK r \in Sweeping : r = sweep /\ (r.pc = "idle" => r.removed = 0)
  BY DEF TypeInv, SweepType
<1>2. QueueInv /\ lapsed \subseteq 1..Len(msgs) /\ frozen \in [Slots -> BOOLEAN]
  BY DEF TypeInv, QueueInv, QueueType
<1>3. ASSUME UNCHANGED <<slotVars, lapsed, frozen>> PROVE Gone({})
  BY <1>2, <1>3, Quiet
<1>4. CASE BeginSweep
  <2>1. Gone({}) /\ depth' = depth /\ sweep.pc = "idle"
    BY <1>3, <1>4 DEF BeginSweep, engineVars
  <2>2. sweep'.removed = 0
    BY <1>4 DEF BeginSweep, IdleSweep
  <2> QED BY <1>1, <2>1, <2>2
<1>5. CASE SweepLook
  <2>1. Gone({}) /\ depth' = depth
    BY <1>3, <1>5 DEF SweepLook, engineVars
  <2>2. ASSUME sweep' = [sweep EXCEPT !.pc = "count"] PROVE sweep'.removed = r.removed
    <3>1. sweep' = [r EXCEPT !.pc = "count"]
      BY <1>1, <2>2
    <3> QED BY <3>1 DEF Sweeping
  <2>3. ASSUME NEW s \in sweep.todo,
               sweep' = [sweep EXCEPT !.todo = @ \ {s},
                                      !.pc = IF frozen[s] THEN "look" ELSE "sweep",
                                      !.at = IF frozen[s] THEN NoSlot ELSE s]
        PROVE  sweep'.removed = r.removed
    <3>1. PICK todo, pc, at : /\ todo = r.todo \ {s}
                              /\ pc = (IF frozen[s] THEN "look" ELSE "sweep")
                              /\ at = (IF frozen[s] THEN NoSlot ELSE s)
      OBVIOUS
    <3>2. sweep' = [r EXCEPT !.todo = todo, !.pc = pc, !.at = at]
      BY <1>1, <2>3, <3>1
    <3> QED BY <3>2 DEF Sweeping
  <2>4. sweep'.removed = r.removed
    BY <1>5, <2>2, <2>3 DEF SweepLook
  <2> QED BY <1>1, <2>1, <2>4
<1>6. CASE SweepSlot
  <2>1. PICK R \in SUBSET AllHeld :
          /\ Gone(R)
          /\ sweep' = [sweep EXCEPT !.pc = "look", !.at = NoSlot,
                                    !.removed = sweep.removed + Cardinality(R)]
    BY <1>6, SweepGone
  <2>2. PICK n : n = sweep.removed + Cardinality(R)
    OBVIOUS
  <2>3. sweep' = [r EXCEPT !.pc = "look", !.at = NoSlot, !.removed = n]
    BY <1>1, <2>1, <2>2
  <2>4. sweep'.removed = n
    BY <2>3 DEF Sweeping
  <2>5. depth' = depth
    BY <1>6 DEF SweepSlot, engineVars
  <2> QED BY <2>1, <2>2, <2>4, <2>5
<1>7. CASE CountSwept
  <2>1. Gone({}) /\ depth' = depth - sweep.removed
    BY <1>3, <1>7 DEF CountSwept
  <2>2. sweep'.removed = 0
    BY <1>7 DEF CountSwept, IdleSweep
  <2> QED BY <2>1, <2>2
<1> QED BY <1>4, <1>5, <1>6, <1>7 DEF SweeperStep

(* What the handoff or the absorb has still to tell the depth. *)
Owed == IF move.pc = "absorbed" THEN move.count ELSE 0
Dues == IF move.pc = "absorbed" THEN - move.count ELSE move.count

LEMMA MoverMoves ==
  ASSUME TypeInv, MoverStep
  PROVE  \/ /\ Gone({}) /\ depth' + Owed' <= depth + Owed /\ depth' - Dues' = depth - Dues
            /\ absorbed' = absorbed /\ Owed' = 0
         \/ /\ Drain /\ Gone(Held(move.slot)) /\ move.slot \in Slots
            /\ depth' = depth /\ Owed = 0 /\ Owed' = 0 /\ absorbed' = absorbed
            /\ Dues = 0 /\ Dues' = Cardinality(Held(move.slot))
         \/ /\ \E s \in Slots, pr \in Priorities : AbsorbIn(s, pr) /\ Enter(s, pr)
            /\ depth' = depth /\ Owed = 0 /\ Owed' = 1 /\ absorbed' = absorbed + 1
            /\ Dues = 0 /\ Dues' = -1
<1>1. PICK r \in Moving : r = move /\ (r.pc \in {"copy", "moving", "thaw"} => r.slot \in Slots)
                          /\ (r.pc \in {"idle", "copy", "moving"} => r.count = 0)
  BY DEF TypeInv, MoveType
<1>2. /\ QueueInv /\ lapsed \subseteq 1..Len(msgs) /\ frozen \in [Slots -> BOOLEAN]
      /\ depth \in Int /\ r.count \in Nat /\ Movable \subseteq Slots
  BY EngineAssumption DEF TypeInv, QueueInv, QueueType, Moving, Slots
<1>3. ASSUME UNCHANGED <<slotVars, lapsed>>, frozen' \in [Slots -> BOOLEAN] PROVE Gone({})
  BY <1>2, <1>3, Quiet
<1>4. IdleMove.pc = "idle" /\ IdleMove.count = 0
  BY DEF IdleMove
<1>5. PICK i \in Moving : i = IdleMove
  BY IdleMoveType
<1>6. MoveType' /\ frozen' \in [Slots -> BOOLEAN]
  BY MoverTypes
<1>7. ASSUME move.count = move'.count, move.pc # "absorbed", move'.pc # "absorbed"
      PROVE  Owed = 0 /\ Owed' = 0 /\ Dues' = Dues /\ Dues \in Nat
  BY <1>1, <1>2, <1>7 DEF Owed, Dues
<1>8. ASSUME NEW s \in Movable, Freeze(s)
      PROVE  /\ Gone({}) /\ depth' + Owed' <= depth + Owed /\ depth' - Dues' = depth - Dues
             /\ absorbed' = absorbed /\ Owed' = 0
  <2>1. /\ Gone({}) /\ depth' = depth /\ absorbed' = absorbed /\ move.pc = "idle"
        /\ move' = [i EXCEPT !.pc = "copy", !.slot = s]
    BY <1>3, <1>5, <1>6, <1>8 DEF Freeze, history
  <2>2. move'.pc = "copy" /\ move'.count = 0 /\ move.count = 0
    BY <1>1, <1>4, <1>5, <2>1 DEF Moving
  <2> QED BY <1>2, <1>7, <2>1, <2>2
<1>9. CASE CopyAll
  <2>1. /\ Gone({}) /\ depth' = depth /\ absorbed' = absorbed /\ move.pc = "copy"
        /\ move' = [r EXCEPT !.pc = "moving", !.copy = Held(r.slot)]
    BY <1>1, <1>2, <1>3, <1>9 DEF CopyAll, engineVars, history
  <2>2. move'.pc = "moving" /\ move'.count = move.count
    BY <1>1, <2>1 DEF Moving
  <2> QED BY <1>2, <1>7, <2>1, <2>2
<1>10. CASE Thaw
  <2>1. /\ Gone({}) /\ depth' = depth /\ absorbed' = absorbed /\ move.pc = "moving"
        /\ move' = IdleMove
    BY <1>3, <1>6, <1>10 DEF Thaw, history
  <2>2. move'.pc = "idle" /\ move'.count = move.count
    BY <1>1, <1>4, <2>1
  <2> QED BY <1>2, <1>7, <2>1, <2>2
<1>11. CASE Drain
  <2>1. /\ depth' = depth /\ absorbed' = absorbed /\ r.pc = "moving" /\ r.count = 0
        /\ move' = [r EXCEPT !.pc = "thaw", !.copy = {}, !.count = Cardinality(Held(move.slot))]
    BY <1>1, <1>11 DEF Drain, engineVars
  <2>2. PICK n : n = Cardinality(Held(move.slot))
    OBVIOUS
  <2>3. move'.pc = "thaw" /\ move'.count = n
    <3>1. move' = [r EXCEPT !.pc = "thaw", !.copy = {}, !.count = n]
      BY <2>1, <2>2
    <3> QED BY <3>1 DEF Moving
  <2>4. Owed = 0 /\ Owed' = 0 /\ Dues = 0 /\ Dues' = n
    BY <1>1, <2>1, <2>3 DEF Owed, Dues
  <2> QED BY <1>11, <2>1, <2>2, <2>4, DrainGone
<1>12. CASE ThawEmpty
  <2>1. /\ Gone({}) /\ depth' = depth /\ absorbed' = absorbed /\ move.pc = "thaw"
        /\ move' = [r EXCEPT !.pc = "dropped"]
    BY <1>1, <1>3, <1>6, <1>12 DEF ThawEmpty, history
  <2>2. move'.pc = "dropped" /\ move'.count = move.count
    BY <1>1, <2>1 DEF Moving
  <2> QED BY <1>2, <1>7, <2>1, <2>2
<1>13. CASE CountDropped
  <2>1. /\ Gone({}) /\ depth' = depth - r.count /\ absorbed' = absorbed /\ move.pc = "dropped"
        /\ move' = IdleMove
    BY <1>1, <1>2, <1>3, <1>13 DEF CountDropped, history
  <2>2. Owed = 0 /\ Owed' = 0 /\ Dues = r.count /\ Dues' = 0
    BY <1>1, <1>4, <2>1 DEF Owed, Dues
  <2> QED BY <1>2, <2>1, <2>2
<1>14. ASSUME NEW s \in Slots, NEW pr \in Priorities, AbsorbIn(s, pr)
       PROVE  /\ Enter(s, pr) /\ depth' = depth /\ Owed = 0 /\ Owed' = 1
              /\ absorbed' = absorbed + 1 /\ Dues = 0 /\ Dues' = -1
  <2>1. /\ Enter(s, pr) /\ depth' = depth /\ absorbed' = absorbed + 1 /\ move.pc = "idle"
        /\ move' = [i EXCEPT !.pc = "absorbed", !.count = 1]
    BY <1>5, <1>14 DEF AbsorbIn, engineVars
  <2>2. move'.pc = "absorbed" /\ move'.count = 1 /\ move.count = 0
    BY <1>1, <2>1 DEF Moving
  <2> QED BY <2>1, <2>2 DEF Owed, Dues
<1>15. CASE CountAbsorbed
  <2>1. /\ Gone({}) /\ depth' = depth + r.count /\ absorbed' = absorbed /\ move.pc = "absorbed"
        /\ move' = IdleMove
    BY <1>1, <1>2, <1>3, <1>15 DEF CountAbsorbed, history
  <2>2. Owed = r.count /\ Owed' = 0 /\ Dues = - r.count /\ Dues' = 0
    BY <1>1, <1>4, <2>1 DEF Owed, Dues
  <2> QED BY <1>2, <2>1, <2>2
<1> QED
  BY <1>8, <1>9, <1>10, <1>11, <1>12, <1>13, <1>14, <1>15 DEF MoverStep

-----------------------------------------------------------------------------
(* The accounts *)

Active   == {p \in Producers : prod[p].pc # "idle"}
Counters == At(prod, "count")
Removers == At(cons, "count")

DepthInv == /\ DepthAccounted
            /\ IsFiniteSet(Active) /\ IsFiniteSet(Removers)

(* Somebody joins a set, or leaves it, or neither. *)
LEMMA OneMoves ==
  ASSUME NEW S, IsFiniteSet(S), NEW T, NEW x, T \ {x} = S \ {x}
  PROVE  /\ IsFiniteSet(T) /\ Cardinality(S) \in Nat /\ Cardinality(T) \in Nat
         /\ (x \in S <=> x \in T) => Cardinality(T) = Cardinality(S)
         /\ x \notin S /\ x \in T => Cardinality(T) = Cardinality(S) + 1
         /\ x \in S /\ x \notin T => Cardinality(T) = Cardinality(S) - 1
<1>1. Cardinality(S) \in Nat
  BY FS_CardinalityType
<1>2. CASE x \in S <=> x \in T
  <2>1. T = S
    BY <1>2
  <2> QED BY <1>1, <1>2, <2>1
<1>3. CASE x \notin S /\ x \in T
  <2>1. T = S \cup {x}
    BY <1>3
  <2>2. IsFiniteSet(T) /\ Cardinality(T) = Cardinality(S) + 1
    BY <1>3, <2>1, FS_AddElement
  <2> QED BY <1>1, <1>3, <2>2
<1>4. CASE x \in S /\ x \notin T
  <2>1. T = S \ {x}
    BY <1>4
  <2>2. IsFiniteSet(T) /\ Cardinality(T) = Cardinality(S) - 1
    BY <1>4, <2>1, FS_RemoveElement
  <2>3. Cardinality(T) \in Nat
    BY <2>2, FS_CardinalityType
  <2> QED BY <1>1, <1>4, <2>2, <2>3
<1> QED BY <1>2, <1>3, <1>4

CountersThere ==
  /\ Counters = {p \in Producers : prod[p].pc = "count"} /\ Counters \subseteq Active
  /\ Removers = {c \in Consumers : cons[c].pc = "count"}

LEMMA CountersIn == TypeInv => CountersThere
<1> SUFFICES ASSUME TypeInv PROVE CountersThere
  OBVIOUS
<1>1. DOMAIN prod = Producers /\ DOMAIN cons = Consumers
  BY DEF TypeInv, ProdType, ConsType
<1> QED BY <1>1 DEF CountersThere, Counters, Removers, Active, At

LEMMA CountersNext == TypeInv' => CountersThere'
BY CountersIn, PTL

(* The accounts with the producers' and the consumers' counts named. *)
Balanced ==
  /\ depth = Cardinality(AllHeld) + leaked - Cardinality(Counters) + Cardinality(Removers)
             + sweep.removed + Dues
  /\ reserved = Cardinality(Active)

LEMMA Balance == DepthAccounted <=> Balanced
BY DEF DepthAccounted, Balanced, Counters, Removers, Active, Dues

LEMMA BalanceNext == DepthAccounted' <=> Balanced'
BY Balance, PTL

(* What the queue holds after a step. *)
LEMMA HeldAfter ==
  ASSUME QueueInv
  PROVE  /\ Cardinality(AllHeld) \in Nat
         /\ Gone({}) => Cardinality(AllHeld') = Cardinality(AllHeld)
         /\ \A n \in AllHeld : Gone({n}) => Cardinality(AllHeld') = Cardinality(AllHeld) - 1
         /\ \A R \in SUBSET AllHeld :
              Gone(R) => /\ Cardinality(AllHeld') = Cardinality(AllHeld) - Cardinality(R)
                         /\ Cardinality(R) \in Nat
<1>1. Cardinality(AllHeld) \in Nat
  BY HeldFinite
<1>2. ASSUME Gone({}) PROVE Cardinality(AllHeld') = Cardinality(AllHeld)
  <2>1. AllHeld' = AllHeld
    BY <1>2 DEF Gone
  <2> QED BY <2>1
<1>3. ASSUME NEW R \in SUBSET AllHeld, Gone(R)
      PROVE  /\ Cardinality(AllHeld') = Cardinality(AllHeld) - Cardinality(R)
             /\ Cardinality(R) \in Nat
  <2>1. AllHeld' = AllHeld \ R
    BY <1>3 DEF Gone
  <2>2. Cardinality(AllHeld \ R) = Cardinality(AllHeld) - Cardinality(R)
    BY HeldLess
  <2>3. Cardinality(R) \in Nat
    BY HeldFinite
  <2> QED BY <2>1, <2>2, <2>3
<1>4. ASSUME NEW n \in AllHeld, Gone({n})
      PROVE  Cardinality(AllHeld') = Cardinality(AllHeld) - 1
  <2>1. {n} \in SUBSET AllHeld /\ Cardinality({n}) = 1
    BY FS_Singleton
  <2> QED BY <1>3, <1>4, <2>1
<1> QED BY <1>1, <1>2, <1>3, <1>4

LEMMA HeldEnter ==
  ASSUME QueueInv, NEW s \in Slots, NEW pr \in Priorities, Enter(s, pr),
         lapsed' = lapsed, frozen' = frozen
  PROVE  Cardinality(AllHeld') = Cardinality(AllHeld) + 1
<1>1. AllHeld' = AllHeld \cup {Len(msgs) + 1} /\ Len(msgs) + 1 \notin AllHeld
  BY EnterStep
<1>2. IsFiniteSet(AllHeld)
  BY HeldFinite
<1> QED BY <1>1, <1>2, FS_AddElement

LEMMA ProducerDepth ==
  ASSUME TypeInv, TypeInv', DepthInv, NEW p \in Producers, ProducerStep(p)
  PROVE  DepthInv'
<1>1. \A q \in Producers : q # p => prod'[q] = prod[q]
  BY ProducerMoves
<1>2. /\ lapsed' = lapsed /\ frozen' = frozen /\ cons' = cons /\ sweep' = sweep /\ Dues' = Dues
      /\ leaked' = leaked
  BY ProducerLeaves DEF Dues
<1>3. /\ QueueInv /\ depth \in Int /\ leaked \in Nat /\ sweep.removed \in Nat /\ Dues \in Int
      /\ Cardinality(AllHeld) \in Nat
  BY HeldAfter DEF TypeInv, SweepType, Sweeping, MoveType, Moving, Dues
<1>4. /\ Counters = {q \in Producers : prod[q].pc = "count"}
      /\ Counters' = {q \in Producers : prod'[q].pc = "count"}
      /\ Active' = {q \in Producers : prod'[q].pc # "idle"}
      /\ Removers' = Removers /\ Counters \subseteq Active
  <2>1. CountersThere /\ CountersThere'
    BY CountersIn, CountersNext
  <2>2. Removers' = Removers
    BY <1>2 DEF Removers, At
  <2> QED BY <2>1, <2>2 DEF CountersThere, Active
<1>5. IsFiniteSet(Active) /\ IsFiniteSet(Counters) /\ IsFiniteSet(Removers)
  BY <1>4, FS_Subset DEF DepthInv
<1>6. Counters' \ {p} = Counters \ {p} /\ Active' \ {p} = Active \ {p}
  BY <1>1, <1>4 DEF Active
<1>7. /\ p \in Counters <=> prod[p].pc = "count"
      /\ p \in Counters' <=> prod'[p].pc = "count"
      /\ p \in Active <=> prod[p].pc # "idle"
      /\ p \in Active' <=> prod'[p].pc # "idle"
  BY <1>4 DEF Active
<1>8. PICK a \in Nat, a1 \in Nat, k \in Nat, k1 \in Nat, m \in Nat :
        /\ a = Cardinality(Active) /\ a1 = Cardinality(Active')
        /\ k = Cardinality(Counters) /\ k1 = Cardinality(Counters')
        /\ m = Cardinality(Removers)
  BY <1>5, <1>6, OneMoves, FS_CardinalityType
<1>9. /\ (p \in Active <=> p \in Active') => a1 = a
      /\ p \notin Active /\ p \in Active' => a1 = a + 1
      /\ p \in Active /\ p \notin Active' => a1 = a - 1
      /\ IsFiniteSet(Active')
  BY <1>5, <1>6, <1>8, OneMoves
<1>10. /\ (p \in Counters <=> p \in Counters') => k1 = k
       /\ p \notin Counters /\ p \in Counters' => k1 = k + 1
       /\ p \in Counters /\ p \notin Counters' => k1 = k - 1
  BY <1>5, <1>6, <1>8, OneMoves
<1>11. depth = Cardinality(AllHeld) + leaked - k + m + sweep.removed + Dues /\ reserved = a
  BY <1>8, Balance DEF DepthInv, Balanced
<1>12. /\ depth' = Cardinality(AllHeld') + leaked - k1 + m + sweep.removed + Dues
       /\ reserved' = a1
  <2>1. ASSUME prod[p].pc = "land", prod'[p].pc = "count",
               \E s \in Slots, pr \in Priorities : Enter(s, pr)
        PROVE  a1 = a /\ k1 = k + 1 /\ Cardinality(AllHeld') = Cardinality(AllHeld) + 1
    <3>1. Cardinality(AllHeld') = Cardinality(AllHeld) + 1
      BY <1>2, <1>3, <2>1, HeldEnter
    <3> QED BY <1>7, <1>9, <1>10, <2>1, <3>1
  <2>2. Gone({}) => Cardinality(AllHeld') = Cardinality(AllHeld)
    BY <1>3, HeldAfter
  <2>3. prod[p].pc = "idle" /\ prod'[p].pc = "depth" => a1 = a + 1 /\ k1 = k
    BY <1>7, <1>9, <1>10
  <2>4. prod[p].pc = "release" /\ prod'[p].pc = "idle" => a1 = a - 1 /\ k1 = k
    BY <1>7, <1>9, <1>10
  <2>5. prod[p].pc = "count" /\ prod'[p].pc = "release" => a1 = a /\ k1 = k - 1
    BY <1>7, <1>9, <1>10
  <2>6. prod[p].pc \in {"depth", "frozen", "land"} /\ prod'[p].pc \in {"frozen", "land", "release"}
          => a1 = a /\ k1 = k
    BY <1>7, <1>9, <1>10
  <2>7. \/ /\ prod[p].pc = "land" /\ prod'[p].pc = "count" /\ depth' = depth /\ reserved' = reserved
           /\ \E s \in Slots, pr \in Priorities : Enter(s, pr)
        \/ /\ Gone({}) /\ prod[p].pc = "idle" /\ prod'[p].pc = "depth"
           /\ depth' = depth /\ reserved' = reserved + 1
        \/ /\ Gone({}) /\ prod[p].pc = "release" /\ prod'[p].pc = "idle"
           /\ depth' = depth /\ reserved' = reserved - 1
        \/ /\ Gone({}) /\ prod[p].pc = "count" /\ prod'[p].pc = "release"
           /\ depth' = depth + 1 /\ reserved' = reserved
        \/ /\ Gone({}) /\ prod[p].pc \in {"depth", "frozen", "land"}
           /\ prod'[p].pc \in {"frozen", "land", "release"}
           /\ depth' = depth /\ reserved' = reserved
    BY ProducerMoves
  <2>8. \/ /\ depth' = depth /\ reserved' = reserved /\ a1 = a /\ k1 = k + 1
           /\ Cardinality(AllHeld') = Cardinality(AllHeld) + 1
        \/ /\ depth' = depth /\ reserved' = reserved + 1 /\ a1 = a + 1 /\ k1 = k
           /\ Cardinality(AllHeld') = Cardinality(AllHeld)
        \/ /\ depth' = depth /\ reserved' = reserved - 1 /\ a1 = a - 1 /\ k1 = k
           /\ Cardinality(AllHeld') = Cardinality(AllHeld)
        \/ /\ depth' = depth + 1 /\ reserved' = reserved /\ a1 = a /\ k1 = k - 1
           /\ Cardinality(AllHeld') = Cardinality(AllHeld)
        \/ /\ depth' = depth /\ reserved' = reserved /\ a1 = a /\ k1 = k
           /\ Cardinality(AllHeld') = Cardinality(AllHeld)
    BY <2>1, <2>2, <2>3, <2>4, <2>5, <2>6, <2>7
  <2> QED BY <1>3, <1>11, <2>8
<1>13. DepthAccounted'
  BY <1>2, <1>4, <1>8, <1>12, BalanceNext DEF Balanced
<1> QED BY <1>4, <1>5, <1>9, <1>13 DEF DepthInv

LEMMA ConsumerDepth ==
  ASSUME TypeInv, TypeInv', DepthInv, NEW c \in Consumers, ConsumerStep(c)
  PROVE  DepthInv'
<1>1. \A d \in Consumers : d # c => cons'[d] = cons[d]
  BY ConsumerMoves
<1>2. /\ reserved' = reserved /\ prod' = prod /\ sweep' = sweep /\ Dues' = Dues
      /\ Active' = Active /\ Counters' = Counters
  BY ConsumerLeaves DEF Dues, Active, Counters, At
<1>3. /\ QueueInv /\ depth \in Int /\ leaked \in Nat /\ sweep.removed \in Nat /\ Dues \in Int
      /\ Cardinality(AllHeld) \in Nat
  BY HeldAfter DEF TypeInv, SweepType, Sweeping, MoveType, Moving, Dues
<1>4. /\ Removers = {d \in Consumers : cons[d].pc = "count"}
      /\ Removers' = {d \in Consumers : cons'[d].pc = "count"}
      /\ Counters \subseteq Active
  <2>1. CountersThere /\ CountersThere'
    BY CountersIn, CountersNext
  <2> QED BY <2>1 DEF CountersThere
<1>5. IsFiniteSet(Active) /\ IsFiniteSet(Counters) /\ IsFiniteSet(Removers)
  BY <1>4, FS_Subset DEF DepthInv
<1>6. Removers' \ {c} = Removers \ {c}
  BY <1>1, <1>4
<1>7. /\ c \in Removers <=> cons[c].pc = "count"
      /\ c \in Removers' <=> cons'[c].pc = "count"
  BY <1>4
<1>8. PICK k \in Nat, m \in Nat, m1 \in Nat :
        k = Cardinality(Counters) /\ m = Cardinality(Removers) /\ m1 = Cardinality(Removers')
  BY <1>5, <1>6, OneMoves, FS_CardinalityType
<1>9. /\ (c \in Removers <=> c \in Removers') => m1 = m
      /\ c \notin Removers /\ c \in Removers' => m1 = m + 1
      /\ c \in Removers /\ c \notin Removers' => m1 = m - 1
      /\ IsFiniteSet(Removers')
  BY <1>5, <1>6, <1>8, OneMoves
<1>10. /\ depth = Cardinality(AllHeld) + leaked - k + m + sweep.removed + Dues
       /\ reserved = Cardinality(Active)
  BY <1>8, Balance DEF DepthInv, Balanced
<1>11. depth' = Cardinality(AllHeld') + leaked' - k + m1 + sweep.removed + Dues
  <2>1. \/ /\ Cardinality(AllHeld') = Cardinality(AllHeld) /\ depth' = depth /\ leaked' = leaked
           /\ m1 = m
        \/ /\ Cardinality(AllHeld') = Cardinality(AllHeld) - 1 /\ depth' = depth
           /\ leaked' = leaked + 1 /\ m1 = m
        \/ /\ Cardinality(AllHeld') = Cardinality(AllHeld) - 1 /\ depth' = depth
           /\ leaked' = leaked /\ m1 = m + 1
        \/ /\ Cardinality(AllHeld') = Cardinality(AllHeld) /\ depth' = depth - 1
           /\ leaked' = leaked /\ m1 = m - 1
    <3>1. Gone({}) => Cardinality(AllHeld') = Cardinality(AllHeld)
      BY <1>3, HeldAfter
    <3>2. (\E n \in AllHeld : Gone({n})) => Cardinality(AllHeld') = Cardinality(AllHeld) - 1
      BY <1>3, HeldAfter
    <3>3. cons[c].pc # "count" /\ cons'[c].pc # "count" => m1 = m
      BY <1>7, <1>9
    <3>4. cons[c].pc # "count" /\ cons'[c].pc = "count" => m1 = m + 1
      BY <1>7, <1>9
    <3>5. cons[c].pc = "count" /\ cons'[c].pc # "count" => m1 = m - 1
      BY <1>7, <1>9
    <3> QED BY <3>1, <3>2, <3>3, <3>4, <3>5, ConsumerMoves
  <2> QED BY <1>3, <1>10, <2>1
<1>12. DepthAccounted'
  BY <1>2, <1>8, <1>10, <1>11, BalanceNext DEF Balanced
<1> QED BY <1>2, <1>5, <1>9, <1>12 DEF DepthInv

LEMMA SweeperDepth ==
  ASSUME TypeInv, DepthInv, SweeperStep
  PROVE  DepthInv'
<1>1. /\ reserved' = reserved /\ Dues' = Dues /\ leaked' = leaked
      /\ Active' = Active /\ Counters' = Counters /\ Removers' = Removers
  BY SweeperLeaves DEF Dues, Active, Counters, Removers, At, history
<1>2. /\ QueueInv /\ depth \in Int /\ leaked \in Nat /\ sweep.removed \in Nat /\ Dues \in Int
      /\ Cardinality(AllHeld) \in Nat
  BY HeldAfter DEF TypeInv, SweepType, Sweeping, MoveType, Moving, Dues
<1>3. IsFiniteSet(Counters)
  BY CountersIn, FS_Subset DEF DepthInv, CountersThere
<1>4. PICK k \in Nat, m \in Nat : k = Cardinality(Counters) /\ m = Cardinality(Removers)
  BY <1>3, FS_CardinalityType DEF DepthInv
<1>5. /\ depth = Cardinality(AllHeld) + leaked - k + m + sweep.removed + Dues
      /\ reserved = Cardinality(Active)
  BY <1>4, Balance DEF DepthInv, Balanced
<1>6. depth' = Cardinality(AllHeld') + leaked - k + m + sweep'.removed + Dues
  <2>1. \/ /\ Cardinality(AllHeld') = Cardinality(AllHeld) /\ depth' = depth
           /\ sweep'.removed = sweep.removed
        \/ \E n \in Nat : /\ Cardinality(AllHeld') = Cardinality(AllHeld) - n /\ depth' = depth
                          /\ sweep'.removed = sweep.removed + n
        \/ /\ Cardinality(AllHeld') = Cardinality(AllHeld) /\ depth' = depth - sweep.removed
           /\ sweep'.removed = 0
    BY <1>2, HeldAfter, SweeperMoves
  <2> QED BY <1>2, <1>5, <2>1
<1>7. DepthAccounted'
  BY <1>1, <1>4, <1>5, <1>6, BalanceNext DEF Balanced
<1> QED BY <1>1, <1>7 DEF DepthInv

LEMMA MoverDepth ==
  ASSUME TypeInv, TypeInv', DepthInv, MoverStep
  PROVE  DepthInv'
<1>1. /\ reserved' = reserved /\ leaked' = leaked /\ sweep' = sweep /\ lapsed' = lapsed
      /\ Active' = Active /\ Counters' = Counters /\ Removers' = Removers
  BY MoverLeaves DEF Active, Counters, Removers, At
<1>2. /\ QueueInv /\ depth \in Int /\ leaked \in Nat /\ sweep.removed \in Nat /\ Dues \in Int
      /\ Cardinality(AllHeld) \in Nat
  BY HeldAfter DEF TypeInv, SweepType, Sweeping, MoveType, Moving, Dues
<1>3. depth' \in Int /\ Dues' \in Int
  BY DEF TypeInv, MoveType, Moving, Dues
<1>4. IsFiniteSet(Counters)
  BY CountersIn, FS_Subset DEF DepthInv, CountersThere
<1>5. PICK k \in Nat, m \in Nat : k = Cardinality(Counters) /\ m = Cardinality(Removers)
  BY <1>4, FS_CardinalityType DEF DepthInv
<1>6. /\ depth = Cardinality(AllHeld) + leaked - k + m + sweep.removed + Dues
      /\ reserved = Cardinality(Active)
  BY <1>5, Balance DEF DepthInv, Balanced
<1>7. depth' = Cardinality(AllHeld') + leaked - k + m + sweep.removed + Dues'
  <2>1. ASSUME NEW s \in Slots, NEW pr \in Priorities, AbsorbIn(s, pr), Enter(s, pr)
        PROVE  Cardinality(AllHeld') = Cardinality(AllHeld) + 1
    <3>1. frozen' = frozen
      BY <2>1 DEF AbsorbIn, engineVars
    <3> QED BY <1>1, <1>2, <2>1, <3>1, HeldEnter
  <2>2. ASSUME move.slot \in Slots, Gone(Held(move.slot))
        PROVE  /\ Cardinality(AllHeld') = Cardinality(AllHeld) - Cardinality(Held(move.slot))
               /\ Cardinality(Held(move.slot)) \in Nat
    <3>1. Held(move.slot) \in SUBSET AllHeld
      BY <2>2 DEF AllHeld
    <3> QED BY <1>2, <2>2, <3>1, HeldAfter
  <2>3. Gone({}) => Cardinality(AllHeld') = Cardinality(AllHeld)
    BY <1>2, HeldAfter
  <2>4. \/ /\ Cardinality(AllHeld') = Cardinality(AllHeld) /\ depth' - Dues' = depth - Dues
        \/ \E n \in Nat : /\ Cardinality(AllHeld') = Cardinality(AllHeld) - n /\ depth' = depth
                          /\ Dues = 0 /\ Dues' = n
        \/ /\ Cardinality(AllHeld') = Cardinality(AllHeld) + 1 /\ depth' = depth
           /\ Dues = 0 /\ Dues' = -1
    BY <2>1, <2>2, <2>3, MoverMoves
  <2> QED BY <1>2, <1>3, <1>6, <2>4
<1>8. DepthAccounted'
  BY <1>1, <1>5, <1>6, <1>7, BalanceNext DEF Balanced
<1> QED BY <1>1, <1>8 DEF DepthInv

-----------------------------------------------------------------------------
(* The cap *)

(* Those who may still land a message, and of them those whom the depth    *)
(* let through.                                                            *)
Landing == {p \in Producers : prod[p].pc \in {"depth", "frozen", "land", "count"}}
Granted == {p \in Producers : prod[p].pc \in {"frozen", "land", "count"}}

Upto(order, p) == {q \in Landing : order[q] <= order[p]}

Turns(order) ==
  /\ \A p \in Landing : Cardinality(Upto(order, p)) <= prod[p].pending
  /\ \A p \in Granted : depth + Cardinality(Upto(order, p)) + Owed <= MaxDepth + absorbed

(* In the order in which they reserved, nobody's number is smaller than    *)
(* that of those who came before and may still land, and for those let     *)
(* through there is room for themselves and all before them.               *)
InTurn ==
  /\ Owed <= absorbed /\ depth + Owed <= MaxDepth + absorbed
  /\ \E order \in [Producers -> Nat], top \in Nat :
       (\A p \in Producers : order[p] <= top) /\ Turns(order)

LEMMA LandingFinite ==
  ASSUME DepthInv, NEW S \in SUBSET Landing
  PROVE  IsFiniteSet(S) /\ Cardinality(S) \in Nat
<1>1. S \subseteq Active
  BY DEF Landing, Active
<1> QED BY <1>1, FS_Subset, FS_CardinalityType DEF DepthInv

LEMMA Fewer ==
  ASSUME NEW S, IsFiniteSet(S), NEW T \in SUBSET S
  PROVE  IsFiniteSet(T) /\ Cardinality(T) <= Cardinality(S) /\ Cardinality(T) \in Nat
         /\ Cardinality(S) \in Nat
BY FS_Subset, FS_CardinalityType

LEMMA Numbers ==
  ASSUME TypeInv
  PROVE  /\ depth \in Int /\ Owed \in Nat /\ absorbed \in Nat /\ MaxDepth \in Nat /\ reserved \in Nat
         /\ \A p \in Producers : prod[p].pending \in Nat
<1>1. Owed \in Nat
  BY DEF TypeInv, MoveType, Moving, Owed
<1>2. \A p \in Producers : prod[p].pending \in Nat
  BY DEF TypeInv, ProdType, Producing
<1> QED BY <1>1, <1>2, EngineAssumption DEF TypeInv

NumbersThere ==
  /\ depth \in Int /\ Owed \in Nat /\ absorbed \in Nat /\ reserved \in Nat
  /\ \A p \in Producers : prod[p].pending \in Nat

LEMMA NumbersIn == TypeInv => NumbersThere
BY Numbers DEF NumbersThere

LEMMA NumbersNext == TypeInv' => NumbersThere'
BY NumbersIn, PTL

(* Nobody new may land, nobody new is let through, and there is no less    *)
(* room.                                                                   *)
LEMMA NobodyNew ==
  ASSUME TypeInv, TypeInv', DepthInv, NEW order \in [Producers -> Nat], Turns(order),
         Landing' \subseteq Landing, Granted' \subseteq Granted,
         \A p \in Landing' : prod'[p].pending = prod[p].pending,
         depth' + Owed' - absorbed' <= depth + Owed - absorbed
  PROVE  Turns(order)'
<1>1. NumbersThere /\ NumbersThere' /\ MaxDepth \in Nat
  BY NumbersIn, NumbersNext, EngineAssumption
<1>2. ASSUME NEW p \in Producers
      PROVE  /\ Cardinality(Upto(order, p)') <= Cardinality(Upto(order, p))
             /\ Cardinality(Upto(order, p)') \in Nat /\ Cardinality(Upto(order, p)) \in Nat
  <2>1. Upto(order, p)' \in SUBSET Upto(order, p) /\ Upto(order, p) \in SUBSET Landing
    BY DEF Upto
  <2> QED BY <2>1, Fewer, LandingFinite
<1>3. ASSUME NEW p \in Landing' PROVE Cardinality(Upto(order, p)') <= prod'[p].pending
  <2>1. p \in Producers /\ p \in Landing /\ prod'[p].pending = prod[p].pending
    BY DEF Landing
  <2>2. Cardinality(Upto(order, p)) <= prod[p].pending /\ prod[p].pending \in Nat
    BY <1>1, <2>1 DEF Turns, NumbersThere
  <2> QED BY <1>2, <2>1, <2>2
<1>4. ASSUME NEW p \in Granted'
      PROVE  depth' + Cardinality(Upto(order, p)') + Owed' <= MaxDepth + absorbed'
  <2>1. p \in Producers /\ p \in Granted
    BY DEF Granted
  <2>2. depth + Cardinality(Upto(order, p)) + Owed <= MaxDepth + absorbed
    BY <2>1 DEF Turns
  <2>3. PICK a \in Nat, b \in Nat :
          a = Cardinality(Upto(order, p)) /\ b = Cardinality(Upto(order, p)') /\ b <= a
    BY <1>2, <2>1
  <2>4. PICK d \in Int, o \in Nat, e \in Nat : d = depth /\ o = Owed /\ e = absorbed
    BY ONLY <1>1 DEF NumbersThere
  <2>5. PICK d1 \in Int, o1 \in Nat, e1 \in Nat : d1 = depth' /\ o1 = Owed' /\ e1 = absorbed'
    BY ONLY <1>1 DEF NumbersThere
  <2>6. d + a + o <= MaxDepth + e
    BY ONLY <2>2, <2>3, <2>4
  <2>7. d1 + o1 - e1 <= d + o - e
    BY <2>4, <2>5
  <2>8. MaxDepth \in Nat
    BY <1>1
  <2>9. d1 + b + o1 <= MaxDepth + e1
    BY ONLY <2>3, <2>6, <2>7, <2>8
  <2> QED BY <2>3, <2>5, <2>9
<1> QED BY <1>3, <1>4 DEF Turns

(* Steps of others than the producers. *)
LEMMA OthersTurn ==
  ASSUME TypeInv, TypeInv', DepthInv, InTurn, prod' = prod,
         depth' + Owed' - absorbed' <= depth + Owed - absorbed, Owed' <= absorbed'
  PROVE  InTurn'
<1>1. NumbersThere /\ NumbersThere' /\ MaxDepth \in Nat
  BY NumbersIn, NumbersNext, EngineAssumption
<1>2. PICK order \in [Producers -> Nat], top \in Nat :
        (\A p \in Producers : order[p] <= top) /\ Turns(order)
  BY DEF InTurn
<1>3. Landing' = Landing /\ Granted' = Granted
  BY DEF Landing, Granted
<1>4. Turns(order)'
  BY <1>2, <1>3, NobodyNew
<1>5. depth' + Owed' <= MaxDepth + absorbed'
  <2>1. depth + Owed <= MaxDepth + absorbed
    BY DEF InTurn
  <2>2. PICK d \in Int, o \in Nat, a \in Nat : d = depth /\ o = Owed /\ a = absorbed
    BY <1>1 DEF NumbersThere
  <2>3. PICK d1 \in Int, o1 \in Nat, a1 \in Nat : d1 = depth' /\ o1 = Owed' /\ a1 = absorbed'
    BY <1>1 DEF NumbersThere
  <2>4. d1 + o1 - a1 <= d + o - a /\ d + o <= MaxDepth + a
    BY <2>1, <2>2, <2>3
  <2>5. d1 + o1 <= MaxDepth + a1
    BY <1>1, <2>4
  <2> QED BY <2>3, <2>5
<1> QED BY <1>2, <1>4, <1>5 DEF InTurn

LEMMA ConsumerTurn ==
  ASSUME TypeInv, TypeInv', DepthInv, InTurn, NEW c \in Consumers, ConsumerStep(c)
  PROVE  InTurn'
<1>1. prod' = prod /\ absorbed' = absorbed /\ Owed' = Owed
  BY ConsumerLeaves DEF Owed
<1>2. depth' = depth \/ depth' = depth - 1
  BY ConsumerMoves
<1>3. NumbersThere
  BY NumbersIn
<1> QED BY <1>1, <1>2, <1>3, OthersTurn DEF InTurn, NumbersThere

LEMMA SweeperTurn ==
  ASSUME TypeInv, TypeInv', DepthInv, InTurn, SweeperStep
  PROVE  InTurn'
<1>1. prod' = prod /\ absorbed' = absorbed /\ Owed' = Owed
  BY SweeperLeaves DEF Owed, history
<1>2. depth' = depth \/ depth' = depth - sweep.removed
  BY SweeperMoves
<1>3. NumbersThere /\ sweep.removed \in Nat
  BY NumbersIn DEF TypeInv, SweepType, Sweeping
<1> QED BY <1>1, <1>2, <1>3, OthersTurn DEF InTurn, NumbersThere

LEMMA MoverTurn ==
  ASSUME TypeInv, TypeInv', DepthInv, InTurn, MoverStep
  PROVE  InTurn'
<1>1. prod' = prod
  BY MoverLeaves
<1>2. NumbersThere /\ NumbersThere'
  BY NumbersIn, NumbersNext
<1>3. \/ depth' + Owed' <= depth + Owed /\ absorbed' = absorbed /\ Owed' = 0
      \/ depth' = depth /\ Owed = 0 /\ Owed' = 0 /\ absorbed' = absorbed
      \/ depth' = depth /\ Owed = 0 /\ Owed' = 1 /\ absorbed' = absorbed + 1
  BY MoverMoves
<1>4. Owed <= absorbed
  BY DEF InTurn
<1>5. PICK d \in Int, o \in Nat, a \in Nat : d = depth /\ o = Owed /\ a = absorbed
  BY <1>2 DEF NumbersThere
<1>6. PICK d1 \in Int, o1 \in Nat, a1 \in Nat : d1 = depth' /\ o1 = Owed' /\ a1 = absorbed'
  BY <1>2 DEF NumbersThere
<1>7. d1 + o1 - a1 <= d + o - a /\ o1 <= a1
  <2>1. \/ d1 + o1 <= d + o /\ a1 = a /\ o1 = 0
        \/ d1 = d /\ o = 0 /\ o1 = 0 /\ a1 = a
        \/ d1 = d /\ o = 0 /\ o1 = 1 /\ a1 = a + 1
    BY <1>3, <1>5, <1>6
  <2>2. o <= a
    BY <1>4, <1>5
  <2> QED BY <2>1, <2>2
<1>8. depth' + Owed' - absorbed' <= depth + Owed - absorbed /\ Owed' <= absorbed'
  BY <1>5, <1>6, <1>7
<1> QED BY <1>1, <1>8, OthersTurn

LEMMA ProducerTurn ==
  ASSUME TypeInv, TypeInv', DepthInv, InTurn, NEW p \in Producers, ProducerStep(p)
  PROVE  InTurn'
<1>1. NumbersThere /\ NumbersThere' /\ MaxDepth \in Nat
  BY NumbersIn, NumbersNext, EngineAssumption
<1>2. PICK order \in [Producers -> Nat], top \in Nat :
        (\A q \in Producers : order[q] <= top) /\ Turns(order)
  BY DEF InTurn
<1>3. Owed' = Owed /\ absorbed' = absorbed /\ Owed <= absorbed
      /\ depth + Owed <= MaxDepth + absorbed
  BY ProducerLeaves DEF Owed, InTurn
<1>4. \A q \in Producers : q # p => prod'[q] = prod[q]
  BY ProducerMoves
<1>5. ASSUME NEW q \in Producers
      PROVE  /\ Upto(order, q) \in SUBSET Landing /\ IsFiniteSet(Upto(order, q))
             /\ Cardinality(Upto(order, q)) \in Nat
  <2>1. Upto(order, q) \in SUBSET Landing
    BY DEF Upto
  <2> QED BY <2>1, LandingFinite
<1>6. ASSUME Landing' \subseteq Landing, Granted' \subseteq Granted, depth' = depth,
             \A q \in Landing' : prod'[q].pending = prod[q].pending
      PROVE  InTurn'
  <2>1. Turns(order)'
    <3>1. depth' + Owed' - absorbed' <= depth + Owed - absorbed
      BY <1>1, <1>3, <1>6 DEF NumbersThere
    <3> QED BY <1>2, <1>6, <3>1, NobodyNew
  <2> QED BY <1>2, <1>3, <1>6, <2>1 DEF InTurn
<1>7. CASE /\ prod[p].pc = "land" /\ prod'[p].pc = "count"
           /\ depth' = depth /\ prod'[p].pending = prod[p].pending
  BY <1>4, <1>6, <1>7 DEF Landing, Granted
<1>8. CASE prod[p].pc = "release" /\ prod'[p].pc = "idle" /\ depth' = depth
  BY <1>4, <1>6, <1>8 DEF Landing, Granted
<1>9. CASE /\ prod[p].pc = "frozen" /\ prod'[p].pc = "land"
           /\ depth' = depth /\ prod'[p].pending = prod[p].pending
  BY <1>4, <1>6, <1>9 DEF Landing, Granted
<1>10. CASE /\ prod[p].pc \in {"depth", "frozen", "land"} /\ prod'[p].pc = "release"
            /\ depth' = depth
  BY <1>4, <1>6, <1>10 DEF Landing, Granted
<1>11. CASE /\ prod[p].pc = "idle" /\ prod'[p].pc = "depth" /\ depth' = depth
            /\ reserved' = reserved + 1 /\ prod'[p].pending = reserved + 1
  <2> DEFINE new == [order EXCEPT ![p] = top + 1]
  <2>1. /\ new \in [Producers -> Nat] /\ new[p] = top + 1
        /\ \A q \in Producers : q # p => new[q] = order[q]
    OBVIOUS
  <2>2. \A q \in Producers : new[q] <= top + 1
    BY <1>2, <2>1
  <2>3. Landing' = Landing \cup {p} /\ Granted' = Granted /\ p \notin Landing /\ p \notin Granted
    BY <1>4, <1>11 DEF Landing, Granted
  <2> HIDE DEF new
  <2>4. ASSUME NEW q \in Landing PROVE Upto(new, q)' = Upto(order, q)
    <3>1. q \in Producers /\ q # p /\ new[q] = order[q] /\ order[q] <= top
      BY <1>2, <2>1, <2>3 DEF Landing
    <3>2. ~(new[p] <= new[q])
      BY <2>1, <3>1
    <3>3. \A x \in Landing : x \in Producers /\ x # p /\ new[x] = order[x]
      BY <2>1, <2>3 DEF Landing
    <3> QED BY <2>3, <3>1, <3>2, <3>3 DEF Upto
  <2>5. Cardinality(Upto(new, p)') <= reserved + 1
    <3>1. /\ IsFiniteSet(Active) /\ p \notin Active /\ Landing \subseteq Active
          /\ reserved = Cardinality(Active)
      BY <1>11, Balance DEF DepthInv, Balanced, Landing, Active
    <3>2. IsFiniteSet(Active \cup {p}) /\ Cardinality(Active \cup {p}) = reserved + 1
      BY <3>1, FS_AddElement
    <3>3. Upto(new, p)' \in SUBSET (Active \cup {p})
      BY <2>3, <3>1 DEF Upto
    <3> QED BY <3>2, <3>3, Fewer
  <2>6. ASSUME NEW q \in Landing' PROVE Cardinality(Upto(new, q)') <= prod'[q].pending
    <3>1. CASE q = p
      BY <1>11, <2>5, <3>1
    <3>2. CASE q # p
      <4>1. q \in Landing /\ q \in Producers
        BY <2>3, <3>2 DEF Landing
      <4> QED BY <1>2, <1>4, <2>4, <3>2, <4>1 DEF Turns
    <3> QED BY <3>1, <3>2
  <2>7. ASSUME NEW q \in Granted'
        PROVE  depth' + Cardinality(Upto(new, q)') + Owed' <= MaxDepth + absorbed'
    <3>1. q \in Granted /\ q \in Landing
      BY <2>3 DEF Granted, Landing
    <3> QED BY <1>2, <1>3, <1>11, <2>4, <3>1 DEF Turns
  <2>8. Turns(new)'
    BY <2>6, <2>7 DEF Turns
  <2>9. top + 1 \in Nat
    OBVIOUS
  <2> QED BY <1>3, <1>11, <2>1, <2>2, <2>8, <2>9 DEF InTurn
<1>12. CASE /\ prod[p].pc = "depth" /\ prod'[p].pc = "frozen" /\ depth' = depth
            /\ depth + prod[p].pending <= MaxDepth /\ prod'[p].pending = prod[p].pending
  <2>1. Landing' = Landing /\ Granted' = Granted \cup {p} /\ p \in Landing
    BY <1>4, <1>12 DEF Landing, Granted
  <2>2. \A q : Upto(order, q)' = Upto(order, q)
    BY <2>1 DEF Upto
  <2>3. \A q \in Landing : prod'[q].pending = prod[q].pending
    BY <1>4, <1>12 DEF Landing
  <2>4. \A q \in Landing' : Cardinality(Upto(order, q)') <= prod'[q].pending
    BY <1>2, <2>1, <2>2, <2>3 DEF Turns
  <2>5. ASSUME NEW q \in Granted'
        PROVE  depth' + Cardinality(Upto(order, q)') + Owed' <= MaxDepth + absorbed'
    <3>1. CASE q = p
      <4>1. /\ Cardinality(Upto(order, p)) <= prod[p].pending
            /\ Cardinality(Upto(order, p)) \in Nat /\ prod[p].pending \in Nat
        BY <1>1, <1>2, <1>5, <2>1 DEF Turns, NumbersThere
      <4> QED BY <1>1, <1>3, <1>12, <2>2, <3>1, <4>1 DEF NumbersThere
    <3>2. CASE q # p
      <4>1. q \in Granted
        BY <2>1, <3>2
      <4> QED BY <1>2, <1>3, <1>12, <2>2, <4>1 DEF Turns
    <3> QED BY <3>1, <3>2
  <2>6. Turns(order)'
    BY <2>4, <2>5 DEF Turns
  <2> QED BY <1>2, <1>3, <1>12, <2>6 DEF InTurn
<1>13. CASE prod[p].pc = "count" /\ prod'[p].pc = "release" /\ depth' = depth + 1
  <2>1. /\ Landing' = Landing \ {p} /\ Granted' = Granted \ {p} /\ p \in Landing /\ p \in Granted
        /\ Granted \subseteq Landing
    BY <1>4, <1>13 DEF Landing, Granted
  <2>2. ASSUME NEW q \in Producers
        PROVE  /\ Upto(order, q)' = Upto(order, q) \ {p}
               /\ Cardinality(Upto(order, q)') \in Nat
               /\ Cardinality(Upto(order, q)') <= Cardinality(Upto(order, q))
    <3>1. Upto(order, q)' = Upto(order, q) \ {p}
      BY <2>1 DEF Upto
    <3> QED BY <1>5, <3>1, Fewer
  <2>3. p \in Upto(order, p)
    BY <2>1 DEF Upto
  <2>4. /\ depth + Cardinality(Upto(order, p)) + Owed <= MaxDepth + absorbed
        /\ Cardinality(Upto(order, p)) >= 1
    <3>1. Cardinality(Upto(order, p) \ {p}) = Cardinality(Upto(order, p)) - 1
      BY <1>5, <2>3, FS_RemoveElement
    <3>2. Cardinality(Upto(order, p) \ {p}) \in Nat
      BY <2>2
    <3>3. Cardinality(Upto(order, p)) \in Nat
      BY <1>5
    <3> QED BY <1>2, <2>1, <3>1, <3>2, <3>3 DEF Turns
  <2>5. ASSUME NEW q \in Landing' PROVE Cardinality(Upto(order, q)') <= prod'[q].pending
    <3>1. q \in Landing /\ q \in Producers /\ q # p /\ prod'[q].pending = prod[q].pending
      BY <1>4, <2>1 DEF Landing
    <3>2. Cardinality(Upto(order, q)) <= prod[q].pending
      BY <1>2, <3>1 DEF Turns
    <3> QED BY <1>1, <1>5, <2>2, <3>1, <3>2 DEF NumbersThere
  <2>6. ASSUME NEW q \in Granted'
        PROVE  depth' + Cardinality(Upto(order, q)') + Owed' <= MaxDepth + absorbed'
    <3>1. q \in Granted /\ q \in Landing /\ q \in Producers /\ q # p
      BY <2>1 DEF Landing
    <3>2. CASE order[p] <= order[q]
      <4>1. p \in Upto(order, q)
        BY <2>1, <3>2 DEF Upto
      <4>2. Cardinality(Upto(order, q)') = Cardinality(Upto(order, q)) - 1
        <5>1. Cardinality(Upto(order, q) \ {p}) = Cardinality(Upto(order, q)) - 1
          BY <1>5, <3>1, <4>1, FS_RemoveElement
        <5> QED BY <2>2, <3>1, <5>1
      <4>3. depth + Cardinality(Upto(order, q)) + Owed <= MaxDepth + absorbed
        BY <1>2, <3>1 DEF Turns
      <4>4. Cardinality(Upto(order, q)) \in Nat
        BY <1>5, <3>1
      <4> QED BY <1>1, <1>3, <1>13, <4>2, <4>3, <4>4 DEF NumbersThere
    <3>3. CASE order[q] < order[p]
      <4>1. Upto(order, q)' \in SUBSET (Upto(order, p) \ {p})
        <5>1. \A x \in Landing : order[x] <= order[q] => order[x] <= order[p]
          BY <3>1, <3>3 DEF Landing
        <5>2. Upto(order, q)' = Upto(order, q) \ {p}
          BY <2>2, <3>1
        <5> QED BY <5>1, <5>2 DEF Upto
      <4>2. IsFiniteSet(Upto(order, p) \ {p})
            /\ Cardinality(Upto(order, p) \ {p}) = Cardinality(Upto(order, p)) - 1
        BY <1>5, <2>3, FS_RemoveElement
      <4>3. Cardinality(Upto(order, q)') <= Cardinality(Upto(order, p)) - 1
        BY <4>1, <4>2, Fewer
      <4>4. Cardinality(Upto(order, p)) \in Nat /\ Cardinality(Upto(order, q)') \in Nat
        BY <1>5, <2>2, <3>1
      <4> QED BY <1>1, <1>3, <1>13, <2>4, <4>3, <4>4 DEF NumbersThere
    <3> QED BY <3>1, <3>2, <3>3
  <2>7. Turns(order)'
    BY <2>5, <2>6 DEF Turns
  <2>8. depth' + Owed' <= MaxDepth + absorbed'
    <3>1. Cardinality(Upto(order, p)) \in Nat
      BY <1>5
    <3> QED BY <1>1, <1>3, <1>13, <2>4, <3>1 DEF NumbersThere
  <2> QED BY <1>2, <1>3, <2>7, <2>8 DEF InTurn
<1> QED BY <1>7, <1>8, <1>9, <1>10, <1>11, <1>12, <1>13, ProducerMoves

-----------------------------------------------------------------------------
(* Every step keeps the types *)

LEMMA GrownCons ==
  ASSUME ConsType, cons' = cons, Len(msgs) \in Nat, Len(msgs') \in Nat, Len(msgs) <= Len(msgs')
  PROVE  ConsType'
<1>1. \A c \in Consumers : cons[c].msg \in Nat /\ cons[c].msg <= Len(msgs)
  BY DEF ConsType, Consuming, Messages
<1>2. \A c \in Consumers : cons[c].msg <= Len(msgs')
  BY <1>1
<1> QED BY <1>2 DEF ConsType

LEMMA Lengths == TypeInv => Len(msgs) \in Nat
BY DEF TypeInv, QueueInv, QueueType

LEMMA ClaimBack ==
  ASSUME TypeInv, DepthInv, NEW p \in Producers, prod[p].pc # "idle"
  PROVE  reserved - 1 \in Nat
<1>1. p \in Active /\ IsFiniteSet(Active) /\ reserved = Cardinality(Active)
  BY Balance DEF Active, DepthInv, Balanced
<1>2. IsFiniteSet(Active \ {p}) /\ Cardinality(Active \ {p}) = Cardinality(Active) - 1
  BY <1>1, FS_RemoveElement
<1> QED BY <1>1, <1>2, FS_CardinalityType

LEMMA LapseType ==
  ASSUME TypeInv, NEW n \in Messages, Lapse(n)
  PROVE  TypeInv'
<1>1. /\ QueueInv' /\ Len(msgs') = Len(msgs)
      /\ UNCHANGED <<depth, reserved, frozen, prod, cons, sweep, move, leaked, absorbed>>
  BY LapseStep DEF Gone
<1>2. ConsType'
  BY <1>1 DEF TypeInv, ConsType
<1> QED BY <1>1, <1>2 DEF TypeInv, ProdType, SweepType, MoveType

LEMMA ProducerType ==
  ASSUME TypeInv, DepthInv, NEW p \in Producers, ProducerStep(p)
  PROVE  TypeInv'
<1>1. UNCHANGED <<lapsed, lease, frozen, cons, sweep, move, leaked, absorbed, lost>>
  BY ProducerLeaves
<1>2. ProdType' /\ depth' \in Int /\ reserved' \in Int
  BY ProducerTypes
<1>3. QueueInv' /\ (Len(msgs') = Len(msgs) \/ Len(msgs') = Len(msgs) + 1)
  <2>1. ASSUME NEW s \in Slots, NEW pr \in Priorities, Enter(s, pr)
        PROVE  QueueInv' /\ Len(msgs') = Len(msgs) + 1
    <3>1. QueueInv
      BY DEF TypeInv
    <3> QED BY <1>1, <2>1, <3>1, EnterStep
  <2>2. Gone({}) \/ \E s \in Slots, pr \in Priorities : Enter(s, pr)
    BY ProducerMoves
  <2> QED BY <2>1, <2>2 DEF Gone
<1>4. reserved' \in Nat
  <2>1. reserved \in Nat
    BY DEF TypeInv
  <2>2. \/ reserved' = reserved \/ reserved' = reserved + 1
        \/ prod[p].pc = "release" /\ reserved' = reserved - 1
    BY ProducerMoves
  <2> QED BY <2>1, <2>2, ClaimBack
<1>5. ConsType'
  <2>1. Len(msgs) \in Nat /\ ConsType
    BY Lengths DEF TypeInv
  <2>2. Len(msgs') \in Nat /\ Len(msgs) <= Len(msgs')
    BY <1>3, <2>1
  <2> QED BY <1>1, <2>1, <2>2, GrownCons
<1>6. SweepType' /\ MoveType' /\ leaked' \in Nat /\ absorbed' \in Nat
  BY <1>1 DEF TypeInv, SweepType, MoveType
<1> QED BY <1>2, <1>3, <1>4, <1>5, <1>6 DEF TypeInv

LEMMA ConsumerType ==
  ASSUME TypeInv, NEW c \in Consumers, ConsumerStep(c)
  PROVE  TypeInv'
<1>1. UNCHANGED <<msgs, lapsed, frozen, reserved, prod, sweep, move, absorbed, late, lost>>
  BY ConsumerLeaves
<1>2. ConsType' /\ depth' \in Int /\ leaked' \in Nat
  BY ConsumerTypes
<1>3. QueueInv'
  BY ConsumerMoves DEF Gone
<1>4. ProdType' /\ SweepType' /\ MoveType' /\ reserved' \in Nat /\ absorbed' \in Nat
  BY <1>1 DEF TypeInv, ProdType, SweepType, MoveType
<1> QED BY <1>2, <1>3, <1>4 DEF TypeInv

LEMMA SweeperType ==
  ASSUME TypeInv, SweeperStep
  PROVE  TypeInv'
<1>1. UNCHANGED <<msgs, lapsed, frozen, reserved, prod, cons, move, leaked, absorbed>>
  BY SweeperLeaves DEF history
<1>2. SweepType' /\ depth' \in Int
  BY SweeperTypes
<1>3. QueueInv'
  BY SweeperMoves DEF Gone
<1>4. ProdType' /\ ConsType' /\ MoveType' /\ reserved' \in Nat /\ leaked' \in Nat /\ absorbed' \in Nat
  BY <1>1 DEF TypeInv, ProdType, ConsType, MoveType
<1> QED BY <1>2, <1>3, <1>4 DEF TypeInv

LEMMA MoverType ==
  ASSUME TypeInv, MoverStep
  PROVE  TypeInv'
<1>1. UNCHANGED <<lapsed, reserved, prod, cons, sweep, leaked, late>>
  BY MoverLeaves
<1>2. MoveType' /\ depth' \in Int /\ absorbed' \in Nat
  BY MoverTypes
<1>3. QueueInv' /\ (Len(msgs') = Len(msgs) \/ Len(msgs') = Len(msgs) + 1)
  <2>1. ASSUME NEW s \in Slots, NEW pr \in Priorities, AbsorbIn(s, pr)
        PROVE  QueueInv' /\ Len(msgs') = Len(msgs) + 1
    <3>1. QueueInv /\ Enter(s, pr) /\ frozen' = frozen
      BY <2>1 DEF TypeInv, AbsorbIn, engineVars
    <3> QED BY <1>1, <3>1, EnterStep
  <2>2. \/ \E R : Gone(R)
        \/ \E s \in Slots, pr \in Priorities : AbsorbIn(s, pr)
    BY MoverMoves
  <2> QED BY <2>1, <2>2 DEF Gone
<1>4. ConsType'
  <2>1. Len(msgs) \in Nat /\ ConsType
    BY Lengths DEF TypeInv
  <2>2. Len(msgs') \in Nat /\ Len(msgs) <= Len(msgs')
    BY <1>3, <2>1
  <2> QED BY <1>1, <2>1, <2>2, GrownCons
<1>5. ProdType' /\ SweepType' /\ reserved' \in Nat /\ leaked' \in Nat
  BY <1>1 DEF TypeInv, ProdType, SweepType
<1> QED BY <1>2, <1>3, <1>4, <1>5 DEF TypeInv

-----------------------------------------------------------------------------
(* What a handoff may lose *)

(* While a slot is on its way its enqueues are refused, and what it holds  *)
(* that the copy does not got by the check before the freeze.              *)
Escaped ==
  /\ move.pc \in {"copy", "moving", "thaw"} => frozen[move.slot]
  /\ \A s \in Slots : move.pc = "moving" /\ s = move.slot => Held(s) \ move.copy \subseteq late
  /\ lost \subseteq late

LEMMA StillEscaped ==
  ASSUME TypeInv, Escaped, NEW R, Gone(R), UNCHANGED <<frozen, move, late, lost>>
  PROVE  Escaped'
<1>1. \A s \in Slots : Held(s)' \subseteq Held(s)
  BY DEF Gone
<1> QED BY <1>1 DEF Escaped

LEMMA ProducerEscaped ==
  ASSUME TypeInv, Escaped, NEW p \in Producers, ProducerStep(p)
  PROVE  Escaped'
<1>1. UNCHANGED <<lapsed, frozen, move, lost>>
  BY ProducerLeaves
<1>2. CASE Gone({}) /\ late' = late
  BY <1>1, <1>2, StillEscaped
<1>3. CASE \E s \in Slots, pr \in Priorities :
             /\ Enter(s, pr)
             /\ late' = IF frozen[s] THEN late \cup {Len(msgs) + 1} ELSE late
  <2>1. PICK s \in Slots, pr \in Priorities :
          /\ Enter(s, pr)
          /\ late' = IF frozen[s] THEN late \cup {Len(msgs) + 1} ELSE late
    BY <1>3
  <2>2. QueueInv
    BY DEF TypeInv
  <2>3. \A t \in Slots : Held(t)' = Held(t) \cup (IF t = s THEN {Len(msgs) + 1} ELSE {})
    BY <1>1, <2>1, <2>2, EnterStep
  <2>4. ASSUME NEW t \in Slots, move.pc = "moving", t = move.slot
        PROVE  Held(t)' \ move.copy \subseteq late'
    <3>1. frozen[t] /\ Held(t) \ move.copy \subseteq late
      BY <2>4 DEF Escaped
    <3>2. CASE t = s
      BY <2>1, <2>3, <3>1, <3>2
    <3>3. CASE t # s
      BY <2>1, <2>3, <3>1, <3>3
    <3> QED BY <3>2, <3>3
  <2>5. late \subseteq late'
    BY <2>1
  <2>6. \A t \in Slots : move'.pc = "moving" /\ t = move'.slot => Held(t)' \ move'.copy \subseteq late'
    BY <1>1, <2>4
  <2> QED BY <1>1, <2>5, <2>6 DEF Escaped
<1> QED BY <1>2, <1>3, ProducerMoves

LEMMA ConsumerEscaped ==
  ASSUME TypeInv, Escaped, NEW c \in Consumers, ConsumerStep(c)
  PROVE  Escaped'
<1>1. UNCHANGED <<frozen, move, late, lost>>
  BY ConsumerLeaves
<1>2. \E R : Gone(R)
  BY ConsumerMoves
<1> QED BY <1>1, <1>2, StillEscaped

LEMMA SweeperEscaped ==
  ASSUME TypeInv, Escaped, SweeperStep
  PROVE  Escaped'
<1>1. UNCHANGED <<frozen, move, late, lost>>
  BY SweeperLeaves DEF history
<1>2. \E R : Gone(R)
  BY SweeperMoves
<1> QED BY <1>1, <1>2, StillEscaped

LEMMA MoverEscaped ==
  ASSUME TypeInv, Escaped, MoverStep
  PROVE  Escaped'
<1>1. PICK r \in Moving : r = move /\ (r.pc \in {"copy", "moving", "thaw"} => r.slot \in Slots)
  BY DEF TypeInv, MoveType
<1>2. /\ late' = late /\ lost \subseteq late /\ frozen \in [Slots -> BOOLEAN]
      /\ Movable \subseteq Slots
  BY MoverLeaves, EngineAssumption DEF TypeInv, QueueInv, QueueType, Escaped, Slots
<1>3. IdleMove.pc = "idle"
  BY DEF IdleMove
<1>4. ASSUME move'.pc \notin {"copy", "moving", "thaw"}, lost' = lost PROVE Escaped'
  BY <1>2, <1>4 DEF Escaped
<1>5. ASSUME NEW s \in Movable, Freeze(s) PROVE Escaped'
  <2>1. PICK i \in Moving : i = IdleMove
    BY IdleMoveType
  <2>2. move' = [i EXCEPT !.pc = "copy", !.slot = s] /\ lost' = lost
        /\ frozen' = [frozen EXCEPT ![s] = TRUE]
    BY <1>5, <2>1 DEF Freeze, history
  <2>3. move'.pc = "copy" /\ move'.slot = s /\ frozen'[s]
    BY <1>2, <2>1, <2>2 DEF Moving
  <2> QED BY <1>2, <2>2, <2>3 DEF Escaped
<1>6. CASE CopyAll
  <2>1. /\ r.pc = "copy" /\ move' = [r EXCEPT !.pc = "moving", !.copy = Held(r.slot)]
        /\ lost' = lost /\ frozen' = frozen /\ UNCHANGED slotVars
    BY <1>1, <1>6 DEF CopyAll, engineVars, history
  <2>2. move'.pc = "moving" /\ move'.slot = r.slot /\ move'.copy = Held(r.slot)
    BY <2>1 DEF Moving
  <2>3. \A s \in Slots : Held(s)' = Held(s)
    BY <2>1 DEF slotVars, Held, Ready, Leased, Listed
  <2>4. frozen[r.slot]
    BY <1>1, <2>1 DEF Escaped
  <2>5. \A s \in Slots : s = move'.slot => Held(s)' \ move'.copy = {}
    BY <2>2, <2>3
  <2> QED BY <1>2, <2>1, <2>2, <2>4, <2>5 DEF Escaped
<1>7. CASE Thaw
  BY <1>3, <1>4, <1>7 DEF Thaw, history
<1>8. CASE Drain
  <2>1. /\ r.pc = "moving" /\ lost' = lost \cup (Held(r.slot) \ r.copy) /\ frozen' = frozen
        /\ move' = [r EXCEPT !.pc = "thaw", !.copy = {}, !.count = Cardinality(Held(r.slot))]
    BY <1>1, <1>8 DEF Drain, engineVars
  <2>2. move'.pc = "thaw" /\ move'.slot = r.slot
    BY <2>1 DEF Moving
  <2>3. frozen[r.slot] /\ Held(r.slot) \ r.copy \subseteq late
    BY <1>1, <2>1 DEF Escaped
  <2> QED BY <1>2, <2>1, <2>2, <2>3 DEF Escaped
<1>9. CASE ThawEmpty
  <2>1. lost' = lost /\ move' = [r EXCEPT !.pc = "dropped"]
    BY <1>1, <1>9 DEF ThawEmpty, history
  <2>2. move'.pc = "dropped"
    BY <2>1 DEF Moving
  <2> QED BY <1>4, <2>1, <2>2
<1>10. CASE CountDropped
  BY <1>3, <1>4, <1>10 DEF CountDropped, history
<1>11. CASE CountAbsorbed
  BY <1>3, <1>4, <1>11 DEF CountAbsorbed, history
<1>12. ASSUME NEW s \in Slots, NEW pr \in Priorities, AbsorbIn(s, pr) PROVE Escaped'
  <2>1. PICK i \in Moving : i = IdleMove
    BY IdleMoveType
  <2>2. move' = [i EXCEPT !.pc = "absorbed", !.count = 1] /\ lost' = lost
    BY <1>12, <2>1 DEF AbsorbIn
  <2>3. move'.pc = "absorbed"
    BY <2>1, <2>2 DEF Moving
  <2> QED BY <1>4, <2>2, <2>3
<1> QED BY <1>5, <1>6, <1>7, <1>8, <1>9, <1>10, <1>11, <1>12 DEF MoverStep

-----------------------------------------------------------------------------
(* The invariant *)

IInv == TypeInv /\ DepthInv /\ InTurn /\ Escaped

LEMMA Starting == Init => IInv
<1> SUFFICES ASSUME Init PROVE IInv
  OBVIOUS
<1> USE DEF Init
<1>1. QueueInv
  <2>1. \A s \in Slots, p \in Priorities : line[s][p] = <<>>
    OBVIOUS
  <2>2. Once(<<>>) /\ Els(<<>>) = {}
    BY DEF Once, Els
  <2>3. Bands
    BY <2>1, <2>2 DEF Bands
  <2>4. QueueType
    <3>1. <<>> \in Seq(0..0) /\ Len(<<>>) = 0 /\ <<>> \in Seq([slot : Slots, prio : Priorities])
      OBVIOUS
    <3> QED BY <3>1, EngineAssumption DEF QueueType
  <2>5. \A n \in Messages : lease[n] = Nobody
    OBVIOUS
  <2> QED BY <2>3, <2>4, <2>5, BandsThere DEF QueueInv
<1>2. ProdType
  BY DEF ProdType, Producing, Producer
<1>3. ConsType
  BY DEF ConsType, Consuming, Consumer, NoSlot
<1>4. SweepType /\ MoveType
  BY DEF SweepType, Sweeping, MoveType, Moving, IdleSweep
<1>5. TypeInv
  BY <1>1, <1>2, <1>3, <1>4 DEF TypeInv
<1>6. DepthInv
  <2>1. AllHeld = {}
    <3>1. HeldIs /\ msgs = <<>>
      BY <1>1, HeldThere
    <3> QED BY <3>1 DEF HeldIs
  <2>2. Active = {} /\ Counters = {} /\ Removers = {}
    BY DEF Active, Counters, Removers, At
  <2>3. IsFiniteSet({}) /\ Cardinality({}) = 0
    BY FS_EmptySet
  <2>4. Dues = 0 /\ sweep.removed = 0
    BY DEF Dues, IdleSweep
  <2>5. Balanced
    BY <2>1, <2>2, <2>3, <2>4 DEF Balanced
  <2> QED BY <2>2, <2>3, <2>5, Balance DEF DepthInv
<1>7. InTurn
  <2>1. Landing = {} /\ Granted = {} /\ Owed = 0
    BY DEF Landing, Granted, Owed
  <2> DEFINE order == [p \in Producers |-> 0]
  <2>2. order \in [Producers -> Nat] /\ \A p \in Producers : order[p] <= 0
    OBVIOUS
  <2>3. Turns(order)
    BY <2>1 DEF Turns
  <2> HIDE DEF order
  <2>4. \E o \in [Producers -> Nat], top \in Nat : (\A p \in Producers : o[p] <= top) /\ Turns(o)
    BY <2>2, <2>3
  <2>5. Owed <= absorbed /\ depth + Owed <= MaxDepth + absorbed
    BY <2>1, EngineAssumption
  <2> QED BY <2>4, <2>5 DEF InTurn
<1>8. Escaped
  BY DEF Escaped
<1> QED BY <1>5, <1>6, <1>7, <1>8 DEF IInv

LEMMA LapseKeeps ==
  ASSUME IInv, NEW n \in Messages, Lapse(n)
  PROVE  IInv'
<1>1. /\ Gone({})
      /\ UNCHANGED <<depth, reserved, frozen, prod, cons, sweep, move, leaked, absorbed, late, lost>>
  BY LapseStep DEF IInv
<1>2. TypeInv'
  BY LapseType DEF IInv
<1>3. DepthInv'
  <2>1. QueueInv
    BY DEF IInv, TypeInv
  <2>2. Cardinality(AllHeld') = Cardinality(AllHeld)
    BY <1>1, <2>1, HeldAfter
  <2>3. Active' = Active /\ Counters' = Counters /\ Removers' = Removers /\ Dues' = Dues
    BY <1>1 DEF Active, Counters, Removers, At, Dues
  <2>4. Balanced /\ IsFiniteSet(Active) /\ IsFiniteSet(Removers)
    BY Balance DEF IInv, DepthInv
  <2>5. Balanced'
    BY <1>1, <2>2, <2>3, <2>4 DEF Balanced
  <2> QED BY <2>3, <2>4, <2>5, BalanceNext DEF DepthInv
<1>4. InTurn'
  <2>1. Owed' = Owed /\ depth' = depth /\ absorbed' = absorbed /\ prod' = prod
    BY <1>1 DEF Owed
  <2>2. NumbersThere /\ Owed <= absorbed
    BY NumbersIn DEF IInv, InTurn
  <2>3. depth' + Owed' - absorbed' <= depth + Owed - absorbed /\ Owed' <= absorbed'
    BY <2>1, <2>2 DEF NumbersThere
  <2> QED BY <1>2, <2>1, <2>3, OthersTurn DEF IInv
<1>5. Escaped'
  BY <1>1, StillEscaped DEF IInv
<1> QED BY <1>2, <1>3, <1>4, <1>5 DEF IInv

LEMMA Stuttering == IInv /\ UNCHANGED vars => IInv'
<1> SUFFICES ASSUME IInv, UNCHANGED vars PROVE IInv'
  OBVIOUS
<1> USE DEF vars
<1>1. TypeInv'
  <2>1. NotTwice'
    BY DEF IInv, TypeInv, QueueInv, NotTwice, Listed
  <2>2. QueueInv'
    BY <2>1 DEF IInv, TypeInv, QueueInv, QueueType
  <2> QED BY <2>2 DEF IInv, TypeInv, ProdType, ConsType, SweepType, MoveType
<1>2. DepthInv'
  BY DEF IInv, DepthInv, DepthAccounted, AllHeld, Held, Ready, Leased, Listed, Active, Removers, At
<1>3. InTurn'
  BY DEF IInv, InTurn, Owed, Turns, Upto, Landing, Granted
<1>4. Escaped'
  BY DEF IInv, Escaped, Held, Ready, Leased, Listed
<1> QED BY <1>1, <1>2, <1>3, <1>4 DEF IInv

LEMMA Keeping == IInv /\ [Next]_vars => IInv'
<1> SUFFICES ASSUME IInv, [Next]_vars PROVE IInv'
  OBVIOUS
<1> USE DEF IInv
<1>1. ASSUME NEW n \in Messages, Lapse(n) PROVE IInv'
  BY <1>1, LapseKeeps
<1>2. ASSUME NEW p \in Producers, ProducerStep(p) PROVE IInv'
  <2>1. TypeInv'
    BY <1>2, ProducerType
  <2> QED BY <1>2, <2>1, ProducerDepth, ProducerTurn, ProducerEscaped
<1>3. ASSUME NEW c \in Consumers, ConsumerStep(c) PROVE IInv'
  <2>1. TypeInv'
    BY <1>3, ConsumerType
  <2> QED BY <1>3, <2>1, ConsumerDepth, ConsumerTurn, ConsumerEscaped
<1>4. CASE SweeperStep
  <2>1. TypeInv'
    BY <1>4, SweeperType
  <2> QED BY <1>4, <2>1, SweeperDepth, SweeperTurn, SweeperEscaped
<1>5. CASE MoverStep
  <2>1. TypeInv'
    BY <1>5, MoverType
  <2> QED BY <1>5, <2>1, MoverDepth, MoverTurn, MoverEscaped
<1>6. CASE UNCHANGED vars
  BY <1>6, Stuttering
<1> QED BY <1>1, <1>2, <1>3, <1>4, <1>5, <1>6, Steps

LEMMA Always == Spec => []IInv
BY Starting, Keeping, PTL DEF Spec

-----------------------------------------------------------------------------
(* What follows *)

LEMMA Typed == IInv => TypeOK
<1> SUFFICES ASSUME TypeInv PROVE TypeOK
  BY DEF IInv
<1>1. QueueType /\ depth \in Int /\ reserved \in Nat
  BY DEF TypeInv, QueueInv
<1>2. DOMAIN msgs = 1..Len(msgs)
  BY <1>1 DEF QueueType
<1>3. \A p \in Producers :
        /\ prod[p].pc \in {"idle", "depth", "frozen", "land", "count", "release"}
        /\ prod[p].pc # "idle" => prod[p].slot \in Slots /\ prod[p].prio \in Priorities
  BY DEF TypeInv, ProdType, Producing, Producer
<1>4. ASSUME NEW c \in Consumers
      PROVE  /\ cons[c].pc \in {"idle", "look", "hint", "seq", "take", "work", "count"}
             /\ cons[c].pc = "take" => cons[c].best \in Slots /\ cons[c].band \in Priorities
             /\ cons[c].pc = "work" <=> cons[c].msg # 0
  <2>1. PICK r \in Consuming : r = cons[c] /\ Consumer(r)
    BY DEF TypeInv, ConsType
  <2> QED BY <2>1 DEF Consuming, Consumer
<1>5. sweep.pc \in {"idle", "look", "sweep", "count"}
  BY DEF TypeInv, SweepType, Sweeping
<1>6. /\ move.pc \in {"idle", "copy", "moving", "thaw", "dropped", "absorbed"}
      /\ move.slot \in Slots \cup {NoSlot}
  BY DEF TypeInv, MoveType, Moving
<1> QED BY <1>1, <1>2, <1>3, <1>4, <1>5, <1>6 DEF TypeOK, QueueType

LEMMA Capped == IInv => CapHolds
<1> SUFFICES ASSUME TypeInv, DepthInv, InTurn PROVE CapHolds
  BY DEF IInv
<1>1. NumbersThere /\ MaxDepth \in Nat /\ leaked \in Nat /\ sweep.removed \in Nat
  BY NumbersIn, EngineAssumption DEF TypeInv, SweepType, Sweeping
<1>2. CountersThere
  BY CountersIn
<1>3. /\ IsFiniteSet(Counters) /\ IsFiniteSet(Removers) /\ Counters \subseteq Active
      /\ IsFiniteSet(Active)
  BY <1>2, FS_Subset DEF DepthInv, CountersThere
<1>4. PICK h \in Nat, k \in Nat, m \in Nat :
        h = Cardinality(AllHeld) /\ k = Cardinality(Counters) /\ m = Cardinality(Removers)
  <2>1. QueueInv
    BY DEF TypeInv
  <2>2. Cardinality(AllHeld) \in Nat
    BY <2>1, HeldAfter
  <2> QED BY <1>3, <2>2, FS_CardinalityType
<1>5. PICK o \in Nat, d \in Int, a \in Nat : o = Owed /\ d = depth /\ a = absorbed
  BY <1>1 DEF NumbersThere
<1>6. h <= d + k + o
  <2>1. d = h + leaked - k + m + sweep.removed + Dues
    BY <1>4, <1>5, Balance DEF DepthInv, Balanced
  <2>2. Dues \in Int /\ - o <= Dues
    BY <1>5 DEF TypeInv, MoveType, Moving, Owed, Dues
  <2> QED BY <1>1, <2>1, <2>2
<1>7. k = 0 \/ d + k + o <= MaxDepth + a
  <2> SUFFICES ASSUME Counters # {} PROVE d + k + o <= MaxDepth + a
    BY <1>4, FS_EmptySet
  <2>1. PICK order \in [Producers -> Nat], top \in Nat :
          (\A p \in Producers : order[p] <= top) /\ Turns(order)
    BY DEF InTurn
  <2> DEFINE S == {order[p] : p \in Counters}
  <2>2. Counters \subseteq Producers /\ Counters \subseteq Granted /\ Granted \subseteq Landing
    BY <1>2 DEF CountersThere, Granted, Landing
  <2>3. S \in SUBSET Nat /\ S # {} /\ \A x \in S : x <= top
    BY <2>1, <2>2
  <2>4. PICK x \in S : \A y \in S : y <= x
    <3> HIDE DEF S
    <3> QED BY <2>3, NatMax
  <2>5. PICK g \in Counters : order[g] = x
    OBVIOUS
  <2>6. Counters \in SUBSET Upto(order, g)
    BY <2>2, <2>4, <2>5 DEF Upto
  <2>7. Upto(order, g) \in SUBSET Landing
    BY DEF Upto
  <2>8. IsFiniteSet(Upto(order, g))
    BY <2>7, LandingFinite
  <2>9. PICK u \in Nat : u = Cardinality(Upto(order, g)) /\ k <= u
    BY <1>4, <2>6, <2>8, Fewer
  <2>10. d + u + o <= MaxDepth + a
    BY <1>5, <2>1, <2>2, <2>9 DEF Turns
  <2> QED BY <1>1, <2>9, <2>10
<1>8. d + o <= MaxDepth + a
  BY <1>5 DEF InTurn
<1>9. h <= MaxDepth + a
  BY <1>1, <1>6, <1>7, <1>8
<1> QED BY <1>4, <1>5, <1>9 DEF CapHolds

-----------------------------------------------------------------------------
(* The scans.  Whatever was servable all along is behind the best slot     *)
(* once its slot has been looked at: the slot's hint was as urgent when it *)
(* was read, although the atomics of two slots are never read at once.     *)

Scanning(r) == r.pc \in {"look", "hint", "seq", "take"}

Covers(r, m) ==
  /\ r.pc = "take" \/ msgs[m].slot < r.at => r.best # NoSlot /\ msgs[m].prio <= r.band
  /\ r.pc = "seq" /\ msgs[m].slot = r.at => msgs[m].prio <= r.h - 1

ScanInv ==
  \A c \in Consumers : Scanning(cons[c]) =>
    /\ passed[c] \subseteq Servable
    /\ \A m \in passed[c] : Covers(cons[c], m)

(* What may be served is listed, in a slot that is not frozen. *)
ServableIs ==
  \A m \in Servable :
    /\ m \in 1..Len(msgs) /\ msgs[m].slot \in Slots /\ msgs[m].prio \in Priorities
    /\ ~frozen[msgs[m].slot] /\ line[msgs[m].slot][msgs[m].prio] # <<>>

LEMMA ServableThere == QueueInv => ServableIs
<1> SUFFICES ASSUME QueueInv, NEW m \in Servable
             PROVE  /\ m \in 1..Len(msgs) /\ msgs[m].slot \in Slots /\ msgs[m].prio \in Priorities
                    /\ ~frozen[msgs[m].slot] /\ line[msgs[m].slot][msgs[m].prio] # <<>>
  BY DEF ServableIs
<1>1. PICK s \in Slots, p \in Priorities : ~frozen[s] /\ m \in Els(line[s][p])
  BY DEF Servable, Ready, Listed, Els
<1>2. msgs[m].slot = s /\ msgs[m].prio = p /\ m \in 1..Len(msgs)
  BY <1>1, ElsAt
<1>3. line[s][p] # <<>>
  BY <1>1 DEF Els
<1> QED BY <1>1, <1>2, <1>3

LEMMA ServableNext == QueueInv' => ServableIs'
BY ServableThere, PTL

(* The hint is as high as any band with an entry. *)
LEMMA HintAbove ==
  ASSUME QueueType, NEW s \in Slots, NEW p \in Priorities, line[s][p] # <<>>
  PROVE  Hint(s) # 0 /\ p <= Hint(s) - 1
<1> DEFINE S == {q \in Priorities : line[s][q] # <<>>}
           h == CHOOSE q \in Priorities : /\ line[s][q] # <<>>
                                          /\ \A o \in Priorities : line[s][o] # <<>> => o <= q
<1>1. S \in SUBSET Nat /\ S # {} /\ \A q \in S : q <= 100
  <2>1. \A q \in Priorities : q \in Nat /\ q <= 100
    BY EngineAssumption
  <2> QED BY <2>1
<1>2. \E q \in S : \A o \in S : o <= q
  BY <1>1, NatMax
<1>3. h \in Priorities /\ \A o \in Priorities : line[s][o] # <<>> => o <= h
  BY <1>2
<1>4. Hint(s) = 1 + h
  BY DEF Hint
<1> HIDE DEF h
<1>5. h \in Nat /\ p <= h
  BY <1>3, EngineAssumption
<1> QED BY <1>4, <1>5

(* Messages stay what they were enqueued as. *)
LEMMA StayAsEnqueued ==
  ASSUME QueueType, [Next]_vars
  PROVE  \A m \in 1..Len(msgs) : msgs'[m] = msgs[m]
<1>1. ASSUME NEW s, NEW pr, Enter(s, pr) PROVE \A m \in 1..Len(msgs) : msgs'[m] = msgs[m]
  BY <1>1 DEF Enter, QueueType
<1>2. ASSUME NEW p, ProducerStep(p) PROVE \A m \in 1..Len(msgs) : msgs'[m] = msgs[m]
  BY <1>1, <1>2 DEF ProducerStep, Reserve, CheckDepth, CheckFrozen, Land, JournalFails,
                    CountEnqueue, Release, slotVars
<1>3. CASE MoverStep
  <2>1. ASSUME NEW s, NEW pr, AbsorbIn(s, pr) PROVE \A m \in 1..Len(msgs) : msgs'[m] = msgs[m]
    BY <1>1, <2>1 DEF AbsorbIn
  <2>2. ASSUME NEW s, Freeze(s) PROVE msgs' = msgs
    BY <2>2 DEF Freeze, slotVars
  <2>3. CASE CopyAll \/ Thaw \/ Drain \/ ThawEmpty \/ CountDropped \/ CountAbsorbed
    BY <2>3 DEF CopyAll, Thaw, Drain, ThawEmpty, CountDropped, CountAbsorbed, slotVars
  <2> QED BY <1>3, <2>1, <2>2, <2>3 DEF MoverStep
<1>4. CASE UNCHANGED vars
  BY <1>4 DEF vars
<1>5. ASSUME NEW n, Lapse(n) PROVE msgs' = msgs
  BY <1>5 DEF Lapse, slotVars
<1> QED BY <1>2, <1>3, <1>4, <1>5, Steps, ConsumerLeaves, SweeperLeaves

(* A consumer moves by its own steps. *)
LEMMA OwnStep ==
  ASSUME TypeInv, [Next]_vars, NEW c \in Consumers
  PROVE  cons'[c] = cons[c] \/ ConsumerStep(c)
<1>1. ASSUME NEW d \in Consumers, ConsumerStep(d), d # c PROVE cons'[c] = cons[c]
  <2>1. \E r : cons' = [cons EXCEPT ![d] = r]
    BY <1>1 DEF ConsumerStep, Dequeue, LoadFrozen, LoadHint, LoadSeq, TakeFails, Take, Forget, Ack,
                Nack, CountRemoval, Become, Counting
  <2>2. c \in DOMAIN cons
    BY DEF TypeInv, ConsType
  <2> QED BY <1>1, <2>1, <2>2
<1>2. ASSUME NEW n, Lapse(n) PROVE cons' = cons
  BY <1>2 DEF Lapse
<1>3. CASE UNCHANGED vars
  BY <1>3 DEF vars
<1> QED BY <1>1, <1>2, <1>3, Steps, ProducerLeaves, SweeperLeaves, MoverLeaves

LEMMA Watched == Next => Watch
BY DEF Next

(* A consumer that is scanning and has not begun afresh has loaded one of  *)
(* the atomics.                                                            *)
LEMMA ScanLoads ==
  ASSUME TypeInv, NEW c \in Consumers, ConsumerStep(c), Scanning(cons'[c]), ~Starts(c)
  PROVE  LoadFrozen(c) \/ LoadHint(c) \/ LoadSeq(c)
<1>1. PICK r : r = cons[c]
  OBVIOUS
<1>2. c \in DOMAIN cons
  BY DEF TypeInv, ConsType
<1>3. ASSUME NEW x, Become(c, x) PROVE cons'[c] = x
  BY <1>2, <1>3 DEF Become
<1>4. ASSUME NEW n, Become(c, Scan(n)), r.pc # "look" PROVE FALSE
  <2>1. cons'[c].pc = "look" /\ cons'[c].at = 1
    BY <1>3, <1>4 DEF Scan
  <2> QED BY <1>1, <1>4, <2>1 DEF Starts
<1>5. ~Dequeue(c)
  BY <1>1, <1>4 DEF Dequeue
<1>6. ~TakeFails(c)
  <2> SUFFICES ASSUME TakeFails(c) PROVE FALSE
    OBVIOUS
  <2>1. r.pc = "take" /\ Become(c, Retry(r))
    BY <1>1 DEF TakeFails
  <2>2. ~Become(c, IdleConsumer)
    BY <1>3 DEF IdleConsumer, Scanning
  <2> QED BY <1>4, <2>1, <2>2 DEF Retry
<1>7. ASSUME NEW x, Become(c, x), x.pc \in {"idle", "work", "count"} PROVE FALSE
  BY <1>3, <1>7 DEF Scanning
<1>8. /\ IdleConsumer.pc = "idle" /\ [IdleConsumer EXCEPT !.pc = "count"].pc = "count"
       /\ \A n : [IdleConsumer EXCEPT !.pc = "work", !.msg = n].pc = "work"
  BY DEF IdleConsumer
<1>9. ~Take(c) /\ ~Forget(c) /\ ~Ack(c) /\ ~Nack(c) /\ ~CountRemoval(c)
  BY <1>7, <1>8 DEF Take, Forget, Ack, Nack, CountRemoval, Counting
<1> QED BY <1>5, <1>6, <1>9 DEF ConsumerStep

(* What a consumer has seen of a message that is there all along, when it  *)
(* goes on with its scan.                                                  *)
LEMMA ScanGoesOn ==
  ASSUME TypeInv, NEW c \in Consumers, LoadFrozen(c) \/ LoadHint(c) \/ LoadSeq(c),
         Scanning(cons'[c]), NEW m \in Servable, Covers(cons[c], m)
  PROVE  Covers(cons'[c], m)
<1> DEFINE s == msgs[m].slot
           p == msgs[m].prio
<1>1. PICK r \in Consuming : r = cons[c] /\ Consumer(r)
  BY DEF TypeInv, ConsType
<1>2. c \in DOMAIN cons
  BY DEF TypeInv, ConsType
<1>3. /\ s \in Slots /\ p \in Priorities /\ ~frozen[s] /\ line[s][p] # <<>>
      /\ s \in Nat /\ s > 0 /\ p \in Nat /\ s <= NumSlots /\ NumSlots \in Nat
  <2>1. s \in Slots /\ p \in Priorities /\ ~frozen[s] /\ line[s][p] # <<>>
    BY ServableThere DEF ServableIs, TypeInv
  <2> HIDE DEF s, p
  <2> QED BY <2>1, EngineAssumption DEF Slots
<1>4. ASSUME NEW x, Become(c, x) PROVE cons'[c] = x
  BY <1>2, <1>4 DEF Become
<1>5. /\ r.pc \in {"idle", "look", "hint", "seq", "take", "work", "count"}
      /\ r.at \in Nat /\ r.h \in Nat /\ r.best \in Slots \cup {NoSlot} /\ r.band \in Int
      /\ r.seq \in Nat
      /\ r = [pc |-> r.pc, at |-> r.at, h |-> r.h, best |-> r.best, band |-> r.band,
              seq |-> r.seq, tries |-> r.tries, msg |-> r.msg]
  BY DEF Consuming
<1> HIDE DEF s, p
<1>6. CASE LoadFrozen(c)
  <2>1. r.pc = "look" /\ (s < r.at => r.best # NoSlot /\ p <= r.band)
    BY <1>1, <1>6 DEF LoadFrozen, Covers, Scanning, s, p
  <2>2. CASE r.at > NumSlots /\ Become(c, [r EXCEPT !.pc = "take"])
    <3>1. cons'[c].pc = "take" /\ cons'[c].best = r.best /\ cons'[c].band = r.band
      BY <1>4, <1>5, <2>2
    <3>2. s < r.at
      BY <1>3, <1>5, <2>2
    <3> QED BY <2>1, <3>1, <3>2 DEF Covers, s, p
  <2>3. CASE r.at \in Slots /\ frozen[r.at] /\ Become(c, Skip(r))
    <3>1. /\ cons'[c].pc = "look" /\ cons'[c].best = r.best /\ cons'[c].band = r.band
          /\ cons'[c].at = r.at + 1
      BY <1>4, <1>5, <2>3 DEF Skip
    <3>2. s # r.at
      BY <1>3, <2>3
    <3>3. s < r.at + 1 => s < r.at
      BY <1>3, <1>5, <3>2
    <3> QED BY <2>1, <3>1, <3>3 DEF Covers, s, p
  <2>4. CASE r.at \in Slots /\ ~frozen[r.at] /\ Become(c, [r EXCEPT !.pc = "hint"])
    <3>1. /\ cons'[c].pc = "hint" /\ cons'[c].best = r.best /\ cons'[c].band = r.band
          /\ cons'[c].at = r.at
      BY <1>4, <1>5, <2>4
    <3> QED BY <2>1, <3>1 DEF Covers, s, p
  <2>5. CASE Become(c, IdleConsumer)
    BY <1>4, <2>5 DEF IdleConsumer, Scanning
  <2> QED BY <1>1, <1>6, <2>2, <2>3, <2>4, <2>5 DEF LoadFrozen
<1>7. CASE LoadHint(c)
  <2>1. /\ r.pc = "hint" /\ (s < r.at => r.best # NoSlot /\ p <= r.band)
        /\ r.at \in Slots
    BY <1>1, <1>7 DEF LoadHint, Covers, Scanning, s, p, Consumer
  <2>2. s = r.at => Hint(r.at) # 0 /\ p <= Hint(r.at) - 1
    BY <1>3, HintAbove DEF TypeInv, QueueInv
  <2>3. CASE Hint(r.at) = 0
    <3>1. Become(c, Skip(r))
      BY <1>1, <1>7, <2>3 DEF LoadHint
    <3>2. /\ cons'[c].pc = "look" /\ cons'[c].best = r.best /\ cons'[c].band = r.band
          /\ cons'[c].at = r.at + 1
      BY <1>4, <1>5, <3>1 DEF Skip
    <3>3. s < r.at + 1 => s < r.at
      BY <1>3, <1>5, <2>2, <2>3
    <3> QED BY <2>1, <3>2, <3>3 DEF Covers, s, p
  <2>4. CASE Hint(r.at) # 0
    <3>1. Become(c, [r EXCEPT !.pc = "seq", !.h = Hint(r.at)])
      BY <1>1, <1>7, <2>4 DEF LoadHint
    <3>2. /\ cons'[c].pc = "seq" /\ cons'[c].best = r.best /\ cons'[c].band = r.band
          /\ cons'[c].at = r.at /\ cons'[c].h = Hint(r.at)
      BY <1>4, <1>5, <3>1
    <3> QED BY <2>1, <2>2, <3>2 DEF Covers, s, p
  <2> QED BY <2>3, <2>4
<1>8. CASE LoadSeq(c)
  <2>1. /\ r.pc = "seq" /\ (s < r.at => r.best # NoSlot /\ p <= r.band)
        /\ (s = r.at => p <= r.h - 1) /\ r.at \in Slots
    BY <1>1, <1>8 DEF LoadSeq, Covers, Scanning, s, p, Consumer
  <2>2. s < r.at + 1 => s < r.at \/ s = r.at
    BY <1>3, <1>5
  <2>3. CASE Better(r, HeadSeq(r.at))
    <3>1. Become(c, Skip([r EXCEPT !.best = r.at, !.band = r.h - 1, !.seq = HeadSeq(r.at)]))
      BY <1>1, <1>8, <2>3 DEF LoadSeq
    <3>2. /\ cons'[c].pc = "look" /\ cons'[c].best = r.at /\ cons'[c].band = r.h - 1
          /\ cons'[c].at = r.at + 1
      BY <1>4, <1>5, <3>1 DEF Skip
    <3>3. r.at # NoSlot
      BY <2>1 DEF Slots, NoSlot
    <3>4. s < r.at => p <= r.h - 1
      BY <1>3, <1>5, <2>1, <2>3 DEF Better
    <3> QED BY <2>1, <2>2, <3>2, <3>3, <3>4 DEF Covers, s, p
  <2>4. CASE ~Better(r, HeadSeq(r.at))
    <3>1. Become(c, Skip(r))
      BY <1>1, <1>8, <2>4 DEF LoadSeq
    <3>2. /\ cons'[c].pc = "look" /\ cons'[c].best = r.best /\ cons'[c].band = r.band
          /\ cons'[c].at = r.at + 1
      BY <1>4, <1>5, <3>1 DEF Skip
    <3>3. r.best # NoSlot /\ r.h - 1 <= r.band
      BY <1>5, <2>4 DEF Better
    <3>4. s = r.at => p <= r.band
      BY <1>3, <1>5, <2>1, <3>3
    <3> QED BY <2>1, <2>2, <3>2, <3>3, <3>4 DEF Covers, s, p
  <2> QED BY <2>3, <2>4
<1> QED BY <1>6, <1>7, <1>8

LEMMA ScanStarts == Init => ScanInv
BY DEF Init, ScanInv, Scanning

LEMMA ScanKept == IInv /\ IInv' /\ ScanInv /\ [Next]_vars => ScanInv'
<1> SUFFICES ASSUME IInv, IInv', ScanInv, [Next]_vars PROVE ScanInv'
  OBVIOUS
<1>1. CASE UNCHANGED vars
  BY <1>1 DEF vars, ScanInv, Scanning, Covers, Servable, Ready, Listed
<1>2. CASE Next
  <2>1. Watch
    BY <1>2, Watched
  <2>2. QueueInv /\ QueueInv'
    BY DEF IInv, TypeInv
  <2> SUFFICES ASSUME NEW c \in Consumers, Scanning(cons'[c])
               PROVE  /\ passed'[c] \subseteq Servable'
                      /\ \A m \in passed'[c] : Covers(cons[c], m)'
    BY DEF ScanInv, Scanning
  <2>3. passed'[c] = IF Starts(c) THEN Servable' ELSE passed[c] \cap Servable'
    BY <2>1 DEF Watch, Scanning
  <2>4. ASSUME Starts(c), NEW m \in Servable' PROVE Covers(cons[c], m)'
    <3>1. msgs'[m].slot \in Slots
      BY <2>2, ServableNext DEF ServableIs
    <3> QED BY <2>4, <3>1 DEF Covers, Starts, Slots
  <2>5. ASSUME ~Starts(c), NEW m \in passed[c] \cap Servable' PROVE Covers(cons[c], m)'
    <3>1. CASE cons'[c] = cons[c]
      <4>1. Scanning(cons[c])
        BY <3>1
      <4>2. m \in Servable /\ Covers(cons[c], m)
        BY <2>5, <4>1 DEF ScanInv
      <4>3. msgs'[m] = msgs[m]
        BY <2>2, <4>2, ServableThere, StayAsEnqueued DEF QueueInv, ServableIs
      <4> QED BY <3>1, <4>2, <4>3 DEF Covers
    <3>2. CASE ConsumerStep(c)
      <4>1. LoadFrozen(c) \/ LoadHint(c) \/ LoadSeq(c)
        BY <2>5, <3>2, ScanLoads DEF IInv
      <4>2. Scanning(cons[c])
        BY <4>1 DEF LoadFrozen, LoadHint, LoadSeq, Scanning
      <4>3. m \in Servable /\ Covers(cons[c], m)
        BY <2>5, <4>2 DEF ScanInv
      <4>4. Covers(cons'[c], m)
        BY <4>1, <4>3, ScanGoesOn DEF IInv
      <4>5. msgs'[m] = msgs[m]
        BY <2>2, <4>3, ServableThere, StayAsEnqueued DEF QueueInv, ServableIs
      <4> QED BY <4>4, <4>5 DEF Covers
    <3> QED BY <1>2, <3>1, <3>2, OwnStep DEF IInv
  <2> QED BY <2>3, <2>4, <2>5
<1> QED BY <1>1, <1>2

LEMMA ScansRight == Spec => []ScanInv
BY Always, ScanStarts, ScanKept, PTL DEF Spec

(* What is served is as urgent as anything that was there all along. *)
LEMMA TakenIsUrgent ==
  ASSUME IInv, ScanInv, [Next]_vars, NEW c \in Consumers,
         cons[c].pc = "take", cons'[c].pc = "work", NEW m \in passed[c]
  PROVE  msgs[m].prio <= msgs[cons'[c].msg].prio
<1>1. PICK r \in Consuming : r = cons[c] /\ Consumer(r)
  BY DEF IInv, TypeInv, ConsType
<1>2. c \in DOMAIN cons /\ QueueInv
  BY DEF IInv, TypeInv, ConsType
<1>3. ConsumerStep(c)
  BY OwnStep DEF IInv
<1>4. ASSUME NEW x, Become(c, x) PROVE cons'[c] = x
  BY <1>2, <1>4 DEF Become
<1>5. ~TakeFails(c)
  <2> SUFFICES ASSUME TakeFails(c) PROVE FALSE
    OBVIOUS
  <2>1. Become(c, Retry(r))
    BY <1>1 DEF TakeFails
  <2> QED BY <1>4, <2>1 DEF Retry, Scan, IdleConsumer
<1>6. Take(c)
  BY <1>3, <1>5 DEF ConsumerStep, Dequeue, LoadFrozen, LoadHint, LoadSeq, Forget, Ack, Nack,
                    CountRemoval
<1>7. r.best \in Slots /\ r.band \in Priorities
  BY <1>1 DEF Consuming, Consumer
<1> DEFINE rest == Behind(r.best, r.band)
<1>8. /\ rest # <<>>
      /\ Become(c, [IdleConsumer EXCEPT !.pc = "work", !.msg = Head(rest)])
  BY <1>1, <1>6 DEF Take
<1>9. Head(rest) \in Els(line[r.best][r.band])
  BY <1>2, <1>7, <1>8, HeadOfBand
<1> HIDE DEF rest
<1>10. cons'[c].msg = Head(rest)
  BY <1>4, <1>8 DEF IdleConsumer
<1>11. msgs[cons'[c].msg].prio = r.band
  BY <1>2, <1>7, <1>9, <1>10, ElsAt
<1>12. msgs[m].prio <= r.band
  BY <1>1 DEF ScanInv, Scanning, Covers
<1> QED BY <1>11, <1>12

(* Who has looked at every slot and found nothing has missed nothing. *)
LEMMA NothingMissed ==
  ASSUME IInv, ScanInv, [Next]_vars, NEW c \in Consumers,
         cons[c].pc = "look", cons'[c].pc = "idle"
  PROVE  passed[c] = {}
<1>1. PICK r \in Consuming : r = cons[c] /\ Consumer(r)
  BY DEF IInv, TypeInv, ConsType
<1>2. c \in DOMAIN cons /\ QueueInv
  BY DEF IInv, TypeInv, ConsType
<1>3. ConsumerStep(c)
  BY OwnStep DEF IInv
<1>4. LoadFrozen(c)
  BY <1>3 DEF ConsumerStep, Dequeue, LoadHint, LoadSeq, TakeFails, Take, Forget, Ack, Nack,
              CountRemoval
<1>5. ASSUME NEW x, Become(c, x) PROVE cons'[c] = x
  BY <1>2, <1>5 DEF Become
<1>6. r.pc = "look" /\ [r EXCEPT !.pc = "take"].pc # "idle" /\ [r EXCEPT !.pc = "hint"].pc # "idle"
      /\ Skip(r).pc # "idle"
  BY <1>1 DEF Consuming, Skip
<1>7. r.at > NumSlots /\ r.best = NoSlot
  BY <1>1, <1>4, <1>5, <1>6 DEF LoadFrozen
<1> SUFFICES ASSUME NEW m \in passed[c] PROVE FALSE
  OBVIOUS
<1>8. m \in Servable /\ Covers(r, m)
  BY <1>1, <1>6 DEF ScanInv, Scanning
<1>9. msgs[m].slot < r.at
  <2>1. msgs[m].slot \in Slots
    BY <1>2, <1>8, ServableThere DEF ServableIs
  <2>2. r.at \in Nat
    BY DEF Consuming
  <2> QED BY <1>7, <2>1, <2>2, EngineAssumption DEF Slots
<1> QED BY <1>7, <1>8, <1>9 DEF Covers

-----------------------------------------------------------------------------
(* The state of the engine and of everybody's place in it is always one    *)
(* the code foresees: who takes has a winner and a band of it, who works   *)
(* has a message (queue.go, dispatch.go).                                  *)
THEOREM TypeCorrect == Spec => []TypeOK
BY Always, Typed, PTL

(* No two consumers get the same message, however their scans, answers,  *)
(* the sweeps and the handoffs interleave: what is listed is listed once *)
(* and not out (dispatch.go:72-105, queue.go:322-361, 430-475).          *)
THEOREM GivenOnce == Spec => []NotTwice
<1>1. IInv => NotTwice
  BY DEF IInv, TypeInv, QueueInv
<1> QED BY <1>1, Always, PTL

(* However many goroutines adjust it and in whichever order, the depth is  *)
(* what the queue holds, up to the adjustments still to be made and the    *)
(* messages nobody counts; and every claim of room is given back           *)
(* (queue.go:219-258, 357-358).                                            *)
THEOREM DepthIsRight == Spec => []DepthAccounted
<1>1. IInv => DepthAccounted
  BY DEF IInv, DepthInv
<1> QED BY <1>1, Always, PTL

(* The cap holds for any number of producers, although each compares the   *)
(* depth with it without a lock (queue.go:219-227).                        *)
THEOREM CapIsKept == Spec => []CapHolds
BY Always, Capped, PTL

(* A handoff destroys nothing its copy did not have, but what got in       *)
(* behind the freeze (queue.go:247-252, 430-475).                          *)
THEOREM NothingElseLost == Spec => []LostOnlyIfLate
<1>1. IInv => LostOnlyIfLate
  BY DEF IInv, Escaped, LostOnlyIfLate
<1> QED BY <1>1, Always, PTL

(* Dequeue reads three atomics a slot, with no lock over them or over two  *)
(* slots, and yet hands out nothing less urgent than what was there all    *)
(* along, and answers that there is nothing only when nothing was          *)
(* (dispatch.go:72-105; HLD section 14).                                   *)
THEOREM UrgentFirst == Spec => MostUrgentFirst
<1>1. ASSUME IInv, ScanInv, [Next]_vars, NEW c \in Consumers
      PROVE  /\ cons[c].pc = "take" /\ cons'[c].pc = "work" =>
                  \A m \in passed[c] : msgs[m].prio <= msgs[cons'[c].msg].prio
             /\ cons[c].pc = "look" /\ cons'[c].pc = "idle" => passed[c] = {}
  BY <1>1, TakenIsUrgent, NothingMissed
<1>2. IInv /\ ScanInv /\ [Next]_vars =>
        [\A c \in Consumers :
           /\ cons[c].pc = "take" /\ cons'[c].pc = "work" =>
                \A m \in passed[c] : msgs[m].prio <= msgs[cons'[c].msg].prio
           /\ cons[c].pc = "look" /\ cons'[c].pc = "idle" => passed[c] = {}]_vars
  BY <1>1
<1> QED BY <1>2, Always, ScansRight, PTL DEF Spec, MostUrgentFirst

=============================================================================
