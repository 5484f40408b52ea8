----------------------------- MODULE SlotProofs -----------------------------
(***************************************************************************)
(* Theorems about Slot for every set of groups and priorities, any number  *)
(* of messages, deliveries and ticks, and any setting.                     *)
(***************************************************************************)
EXTENDS Slot, SequenceTheorems, FiniteSetTheorems, WellFoundedInduction, TLAPS

-----------------------------------------------------------------------------
(* Arithmetic and finite sets *)

(* A non-empty set of naturals has a least element. *)
LEMMA NatMin ==
  ASSUME NEW S \in SUBSET Nat, S # {}
  PROVE  \E x \in S : \A y \in S : x <= y
<1> DEFINE Less == {ss \in Nat \X Nat : ss[1] < ss[2]}
<1>1. IsWellFoundedOn(Less, Nat)
  BY NatLessThanWellFounded DEF OpToRel
<1>2. PICK x \in S : \A y \in S : ~ (<<y, x>> \in Less)
  <2> HIDE DEF Less
  <2> QED BY <1>1, WFMin
<1>3. \A y \in S : y < x => <<y, x>> \in Less
  OBVIOUS
<1>4. \A y \in S : ~ (y < x)
  <2> HIDE DEF Less
  <2> QED BY <1>2, <1>3
<1> QED BY <1>4

(* The highest bit of a non-empty mask is one of its bits. *)
LEMMA HighestInMask ==
  ASSUME NEW mask \in SUBSET (0..100), mask # {}
  PROVE  Highest(mask) \in mask /\ \A q \in mask : q <= Highest(mask)
<1> DEFINE R == {100 - p : p \in mask}
<1>1. R \in SUBSET Nat /\ R # {}
  <2>1. \A p \in mask : p \in 0..100
    OBVIOUS
  <2>2. R \in SUBSET Nat
    BY <2>1
  <2>3. PICK p : p \in mask
    OBVIOUS
  <2>4. 100 - p \in R
    BY <2>3
  <2> QED BY <2>2, <2>4
<1>2. PICK x \in R : \A y \in R : x <= y
  BY <1>1, NatMin
<1>3. PICK p \in mask : x = 100 - p
  BY <1>2
<1>4. \A q \in mask : q <= p
  BY <1>2, <1>3
<1> QED BY <1>3, <1>4 DEF Highest

(* Cardinalities of sets of messages are naturals. *)
LEMMA MessageSets ==
  ASSUME NEW S \in SUBSET Seqs
  PROVE  IsFiniteSet(S) /\ Cardinality(S) \in Nat
<1>1. IsFiniteSet(Seqs)
  BY SlotAssumption, FS_Interval DEF Seqs
<1>2. IsFiniteSet(S)
  BY <1>1, FS_Subset
<1> QED BY <1>2, FS_CardinalityType

LEMMA FunctionIsSeq ==
  ASSUME NEW S, NEW n \in Nat, NEW f \in [1..n -> S]
  PROVE  f \in Seq(S) /\ Len(f) = n /\ DOMAIN f = 1..Len(f)
OBVIOUS

-----------------------------------------------------------------------------
(* The gauges keep their type. *)
LEMMA MoveType ==
  ASSUME NEW s \in Stats, NEW S \in SUBSET Seqs, NEW from, NEW to
  PROVE  /\ Move(s, S, from, to) \in Stats
         /\ Move(s, S, from, to).acked = s.acked
         /\ Move(s, S, from, to).expired = s.expired
         /\ Move(s, S, from, to).deadLettered = s.deadLettered
<1> DEFINE Delta(place) == (IF to = place THEN 1 ELSE 0) - (IF from = place THEN 1 ELSE 0)
           InBucket(b) == {n \in S : bucketOf(msgs'[n].prio) = b}
<1>1. \A place : Delta(place) \in Int
  OBVIOUS
<1>2. Cardinality(S) \in Nat /\ \A b \in Buckets : Cardinality(InBucket(b)) \in Nat
  BY MessageSets
<1> HIDE DEF Delta, InBucket
<1>3. [b \in Buckets |-> s.ready[b] + Delta("ready") * Cardinality(InBucket(b))]
        \in [Buckets -> Int]
  BY <1>1, <1>2 DEF Stats
<1>4. /\ s.inflight + Delta("inflight") * Cardinality(S) \in Int
      /\ s.delayed + Delta("delayed") * Cardinality(S) \in Int
  BY <1>1, <1>2 DEF Stats
<1>5. Move(s, S, from, to) =
        [s EXCEPT !.ready = [b \in Buckets |->
                               s.ready[b] + Delta("ready") * Cardinality(InBucket(b))],
                  !.inflight = @ + Delta("inflight") * Cardinality(S),
                  !.delayed  = @ + Delta("delayed") * Cardinality(S)]
  BY DEF Move, Delta, InBucket
<1> QED BY <1>3, <1>4, <1>5 DEF Stats

LEMMA ExpireType ==
  ASSUME NEW s \in Stats, NEW S \in SUBSET Seqs
  PROVE  Expire(s, S) \in Stats
BY MoveType, MessageSets DEF Expire, Stats

-----------------------------------------------------------------------------
(* Type correctness.  Types alone are not inductive: an acknowledgement    *)
(* looks up the group of a leased message, so leased messages must exist,  *)
(* and so must the messages in the groups' lists.                          *)

MsgsOK(ms) == ms \in Seq(Message) /\ Len(ms) <= MaxMessages

OwnList(g, s, ms) ==
  \A i \in DOMAIN s : s[i] \in 1..Len(ms) /\ ms[s[i]].group = g

ContentInv ==
  /\ grp \in [Groups -> Group]
  /\ bands \in [Priorities -> Seq(Entry)]
  /\ bandMask \subseteq Priorities
  /\ \A g \in Groups : OwnList(g, grp[g].msgs, msgs)

TypeInv == TypeOK /\ ContentInv /\ InFlight \subseteq 1..Len(msgs)

(* The messages of before are still there, with the groups they had. *)
MsgsKept ==
  /\ MsgsOK(msgs) /\ MsgsOK(msgs')
  /\ Len(msgs) <= Len(msgs')
  /\ \A n \in 1..Len(msgs) : msgs'[n].group = msgs[n].group

(* What a step that puts or lists r for g does to the groups. *)
Became(g, r) ==
  /\ grp' \in [Groups -> Group]
  /\ grp'[g].msgs = r.msgs
  /\ grp'[g].locked = r.locked
  /\ \A h \in Groups \ {g} : grp'[h] = grp[h]

(* No group is locked or unlocked. *)
SameLocks == \A h \in Groups : grp'[h].locked = grp[h].locked

LEMMA OwnListKept ==
  ASSUME MsgsKept, NEW g, NEW s, OwnList(g, s, msgs)
  PROVE  OwnList(g, s, msgs')
<1> SUFFICES ASSUME NEW i \in DOMAIN s
             PROVE  s[i] \in 1..Len(msgs') /\ msgs'[s[i]].group = g
  BY DEF OwnList
<1>1. s[i] \in 1..Len(msgs) /\ msgs[s[i]].group = g
  BY DEF OwnList
<1>2. Len(msgs) \in Nat /\ Len(msgs') \in Nat /\ Len(msgs) <= Len(msgs')
  BY DEF MsgsKept, MsgsOK
<1> QED BY <1>1, <1>2 DEF MsgsKept

LEMMA PutGroupType ==
  ASSUME ContentInv, MsgsKept, NEW g \in Groups, NEW r \in Group,
         OwnList(g, r.msgs, msgs'), PutGroup(g, r)
  PROVE  ContentInv' /\ Became(g, r)
<1>1. Became(g, r) /\ UNCHANGED <<bands, bandMask>>
  BY DEF ContentInv, PutGroup, Became
<1>2. \A h \in Groups : OwnList(h, grp'[h].msgs, msgs')
  BY <1>1, OwnListKept DEF ContentInv, Became
<1> QED BY <1>1, <1>2 DEF ContentInv, Became

LEMMA PushGroupType ==
  ASSUME ContentInv, MsgsKept, NEW g \in Groups, NEW r \in Group,
         OwnList(g, r.msgs, msgs'), PushGroup(g, r)
  PROVE  ContentInv' /\ Became(g, r)
<1>1. CASE PutGroup(g, r)
  BY <1>1, PutGroupType
<1>2. CASE r.msgs # <<>> /\ ~ PutGroup(g, r)
  <2> DEFINE p == msgs'[Head(r.msgs)].prio
             r2 == [r EXCEPT !.version = @ + 1, !.inBand = TRUE]
             e == [g |-> g, ver |-> r.version + 1]
  <2>1. p \in Priorities
    <3>1. Head(r.msgs) \in 1..Len(msgs')
      BY <1>2 DEF OwnList, Group
    <3>2. msgs'[Head(r.msgs)] \in Message
      BY <3>1 DEF MsgsKept, MsgsOK
    <3> QED BY <3>2 DEF Message
  <2>2. r2 \in Group /\ r2.msgs = r.msgs /\ r2.locked = r.locked
    <3> DEFINE r1 == [r EXCEPT !.version = @ + 1]
    <3>1. r1 \in Group /\ r1.msgs = r.msgs /\ r1.locked = r.locked
      BY DEF Group
    <3>2. r2 = [r1 EXCEPT !.inBand = TRUE]
      BY Zenon
    <3> HIDE DEF r1, r2
    <3> QED BY <3>1, <3>2 DEF Group
  <2>3. e \in Entry
    BY DEF Entry, Group
  <2>4. /\ grp' = [grp EXCEPT ![g] = r2]
        /\ bands' = [bands EXCEPT ![p] = Append(@, e)]
        /\ bandMask' = bandMask \cup {p}
    BY <1>2 DEF PushGroup
  <2> HIDE DEF p, r2, e
  <2>5. Became(g, r)
    BY <2>2, <2>4 DEF ContentInv, Became
  <2>6. \A h \in Groups : OwnList(h, grp'[h].msgs, msgs')
    BY <2>5, OwnListKept DEF ContentInv, Became
  <2>7. bands' \in [Priorities -> Seq(Entry)]
    <3>1. Append(bands[p], e) \in Seq(Entry)
      BY <2>1, <2>3, AppendProperties DEF ContentInv
    <3> QED BY <2>1, <2>4, <3>1 DEF ContentInv
  <2> QED BY <2>1, <2>4, <2>5, <2>6, <2>7 DEF ContentInv, Became
<1> QED BY <1>1, <1>2 DEF PushGroup

LEMMA PushIfUnlistedType ==
  ASSUME ContentInv, MsgsKept, NEW g \in Groups, NEW r \in Group,
         OwnList(g, r.msgs, msgs'), PushIfUnlisted(g, r)
  PROVE  ContentInv' /\ Became(g, r)
BY PutGroupType, PushGroupType DEF PushIfUnlisted

(* A lease that ends leaves its group unlocked. *)
LEMMA UnlockType ==
  ASSUME ContentInv, MsgsKept, groups \subseteq Groups,
         NEW g \in Groups, NEW r \in Group,
         OwnList(g, r.msgs, msgs'), Unlock(g, r)
  PROVE  /\ ContentInv' /\ groups' \subseteq Groups
         /\ Became(g, [r EXCEPT !.locked = FALSE])
<1> DEFINE u == [r EXCEPT !.locked = FALSE]
<1>1. u \in Group /\ u.msgs = r.msgs
  BY DEF Group
<1>2. groups' \subseteq Groups
  BY DEF Unlock, DropGroupIfIdle
<1>3. PutGroup(g, u) \/ PushIfUnlisted(g, u)
  BY DEF Unlock
<1> HIDE DEF u
<1>4. ContentInv' /\ Became(g, u)
  BY <1>1, <1>3, PutGroupType, PushIfUnlistedType
<1> QED BY <1>2, <1>4 DEF u

(* A message that is admitted joins the list of its group. *)
LEMMA AdmitType ==
  ASSUME ContentInv, MsgsKept, groups \subseteq Groups,
         NEW n \in 1..Len(msgs'), Admit(n)
  PROVE  /\ ContentInv' /\ groups' \subseteq Groups
         /\ LET g == msgs'[n].group IN
              /\ g \in Groups
              /\ Became(g, [grp[g] EXCEPT !.msgs = Append(@, n)])
<1> DEFINE g == msgs'[n].group
           r == [grp[g] EXCEPT !.msgs = Append(@, n)]
<1>1. g \in Groups
  <2>1. msgs'[n] \in Message
    BY DEF MsgsKept, MsgsOK
  <2> QED BY <2>1 DEF Message
<1>2. n \in Seqs
  BY SlotAssumption DEF MsgsKept, MsgsOK, Seqs
<1>3. grp[g].msgs \in Seq(Seqs)
  BY <1>1 DEF ContentInv, Group
<1>4. /\ Append(grp[g].msgs, n) \in Seq(Seqs)
      /\ OwnList(g, Append(grp[g].msgs, n), msgs')
  <2> DEFINE s == grp[g].msgs
  <2>1. OwnList(g, s, msgs')
    BY <1>1, OwnListKept DEF ContentInv
  <2>2. msgs'[n].group = g
    OBVIOUS
  <2> HIDE DEF s, g
  <2>3. /\ Append(s, n) \in Seq(Seqs)
        /\ Len(Append(s, n)) = Len(s) + 1
        /\ \A i \in 1..Len(s) : Append(s, n)[i] = s[i]
        /\ Append(s, n)[Len(s) + 1] = n
    BY <1>2, <1>3, AppendProperties DEF s
  <2>4. \A i \in DOMAIN Append(s, n) : i \in DOMAIN s \/ i = Len(s) + 1
    BY <2>3, <1>3 DEF s
  <2>5. DOMAIN s = 1..Len(s)
    BY <1>3 DEF s
  <2>6. OwnList(g, Append(s, n), msgs')
    BY <2>1, <2>2, <2>3, <2>4, <2>5 DEF OwnList
  <2> QED BY <2>3, <2>6 DEF s
<1>5. r \in Group /\ OwnList(g, r.msgs, msgs')
  BY <1>1, <1>4 DEF ContentInv, Group
<1>6. PushIfUnlisted(g, r) /\ groups' = groups \cup {g}
  BY DEF Admit
<1> HIDE DEF r, g
<1>7. ContentInv' /\ Became(g, r)
  BY <1>1, <1>5, <1>6, PushIfUnlistedType
<1> QED BY <1>1, <1>6, <1>7 DEF r, g

(* The hint is a priority + 1 or 0, headSeq a message or none. *)
LEMMA HintType ==
  ASSUME ContentInv', RefreshHint
  PROVE  hint' \in 0..101 /\ headSeq' \in 1..NoHead
<1>1. bandMask' \in SUBSET (0..100)
  BY SlotAssumption DEF ContentInv
<1>2. hint' \in 0..101
  <2>1. CASE bandMask' = {}
    BY <2>1 DEF RefreshHint, HintOf
  <2>2. CASE bandMask' # {}
    <3>1. Highest(bandMask') \in 0..100
      BY <1>1, <2>2, HighestInMask
    <3> QED BY <2>2, <3>1 DEF RefreshHint, HintOf
  <2> QED BY <2>1, <2>2
<1>3. headSeq' \in 1..NoHead
  <2> DEFINE p == Highest(bandMask')
             H == Heads(p, bands', grp')
  <2>1. NoHead \in 1..NoHead
    BY SlotAssumption DEF NoHead
  <2>2. CASE bandMask' = {} \/ H = {}
    BY <2>1, <2>2 DEF RefreshHint, HeadSeqOf
  <2>3. CASE bandMask' # {} /\ H # {}
    <3>1. p \in Priorities
      BY <1>1, <2>3, HighestInMask DEF ContentInv
    <3>2. bands'[p] \in Seq(Entry)
      BY <3>1 DEF ContentInv
    <3>3. H \in SUBSET Nat /\ H \subseteq DOMAIN bands'[p]
      BY <3>2 DEF Heads
    <3>4. PICK i \in H : \A j \in H : i <= j
      <4> HIDE DEF H
      <4> QED BY <2>3, <3>3, NatMin
    <3> DEFINE first == CHOOSE k \in H : \A j \in H : k <= j
    <3>5. first \in H
      <4> HIDE DEF H
      <4> QED BY <3>4
    <3>6. headSeq' = Head(grp'[bands'[p][first].g].msgs)
      BY <2>3 DEF RefreshHint, HeadSeqOf
    <3>7. bands'[p][first] \in Entry
      BY <3>2, <3>3, <3>5
    <3>8. /\ grp'[bands'[p][first].g].msgs \in Seq(Seqs)
          /\ grp'[bands'[p][first].g].msgs # <<>>
      BY <3>5, <3>7 DEF Heads, ContentInv, Entry, Group
    <3>9. headSeq' \in Seqs
      BY <3>6, <3>8
    <3> QED BY <3>9, SlotAssumption DEF NoHead, Seqs
  <2> QED BY <2>2, <2>3
<1> QED BY <1>2, <1>3

(* What is left of a group's list when its first messages go. *)
LEMMA AfterType ==
  ASSUME ContentInv, NEW g \in Groups, NEW k \in 0..Len(grp[g].msgs)
  PROVE  /\ After(g, k) \in Seq(Seqs)
         /\ Len(After(g, k)) = Len(grp[g].msgs) - k
         /\ \A i \in 1..(Len(grp[g].msgs) - k) : After(g, k)[i] = grp[g].msgs[k + i]
         /\ OwnList(g, After(g, k), msgs)
         /\ Dropped(g, k) \subseteq Seqs
<1> DEFINE s == grp[g].msgs
<1>1. s \in Seq(Seqs) /\ OwnList(g, s, msgs)
  BY DEF ContentInv, Group
<1> HIDE DEF s
<1>2. Len(s) \in Nat /\ DOMAIN s = 1..Len(s) /\ k \in 0..Len(s)
  BY <1>1 DEF s
<1>3. \A i \in 1..Len(s) : s[i] \in Seqs
  BY <1>1, ElementOfSeq
<1>4. /\ SubSeq(s, k + 1, Len(s)) \in Seq(Seqs)
      /\ Len(SubSeq(s, k + 1, Len(s))) = Len(s) - k
      /\ \A i \in 1..(Len(s) - k) : SubSeq(s, k + 1, Len(s))[i] = s[k + i]
  <2>1. k + 1 \in Int /\ Len(s) \in Int /\ \A i \in (k + 1)..Len(s) : s[i] \in Seqs
    BY <1>2, <1>3
  <2>2. /\ SubSeq(s, k + 1, Len(s)) \in Seq(Seqs)
        /\ Len(SubSeq(s, k + 1, Len(s)))
             = IF k + 1 <= Len(s) THEN Len(s) - (k + 1) + 1 ELSE 0
        /\ \A i \in 1..(Len(s) - (k + 1) + 1) :
             SubSeq(s, k + 1, Len(s))[i] = s[k + 1 + i - 1]
    BY <2>1, SubSeqProperties
  <2>3. Len(SubSeq(s, k + 1, Len(s))) = Len(s) - k
    <3>1. CASE k + 1 <= Len(s)
      <4>1. Len(s) - (k + 1) + 1 = Len(s) - k
        BY <1>2
      <4> QED BY <2>2, <3>1, <4>1
    <3>2. CASE ~ (k + 1 <= Len(s))
      <4>1. \A l \in Nat : \A j \in 0..l : ~ (j + 1 <= l) => l - j = 0
        OBVIOUS
      <4>2. Len(s) - k = 0
        BY <1>2, <3>2, <4>1
      <4> QED BY <2>2, <3>2, <4>2
    <3> QED BY <3>1, <3>2
  <2>4. ASSUME NEW i \in 1..(Len(s) - k)
        PROVE  SubSeq(s, k + 1, Len(s))[i] = s[k + i]
    <3>1. i \in 1..(Len(s) - (k + 1) + 1) /\ k + 1 + i - 1 = k + i
      BY <1>2
    <3> QED BY <2>2, <3>1
  <2> QED BY <2>2, <2>3, <2>4
<1>5. OwnList(g, SubSeq(s, k + 1, Len(s)), msgs)
  <2> DEFINE r == SubSeq(s, k + 1, Len(s))
  <2> SUFFICES ASSUME NEW i \in DOMAIN r
               PROVE  r[i] \in 1..Len(msgs) /\ msgs[r[i]].group = g
    BY DEF OwnList
  <2>1. i \in 1..(Len(s) - k)
    BY <1>4
  <2>2. k + i \in 1..Len(s)
    BY <2>1, <1>2
  <2>3. r[i] = s[k + i] /\ k + i \in DOMAIN s
    BY <2>1, <2>2, <1>2, <1>4
  <2> HIDE DEF r
  <2> QED BY <2>3, <1>1 DEF OwnList
<1> QED BY <1>2, <1>3, <1>4, <1>5 DEF After, Dropped, s

(* Popping entries changes no list and no lock. *)
LEMMA PopType ==
  ASSUME ContentInv, NEW p \in Priorities, NEW i \in 0..Len(bands[p])
  PROVE  /\ PopBand(p, i) => /\ bands' \in [Priorities -> Seq(Entry)]
                             /\ bandMask' \subseteq Priorities
         /\ Unlisted(p, i) \in [Groups -> Group]
         /\ \A g \in Groups : /\ Unlisted(p, i)[g].msgs = grp[g].msgs
                              /\ Unlisted(p, i)[g].locked = grp[g].locked
<1>1. bands[p] \in Seq(Entry)
  BY DEF ContentInv
<1>2. SubSeq(bands[p], i + 1, Len(bands[p])) \in Seq(Entry)
  <2>1. Len(bands[p]) \in Nat
    BY <1>1
  <2>2. \A j \in (i + 1)..Len(bands[p]) : bands[p][j] \in Entry
    <3> TAKE j \in (i + 1)..Len(bands[p])
    <3>1. j \in 1..Len(bands[p])
      BY <2>1
    <3> QED BY <3>1, <1>1, ElementOfSeq
  <2>3. i + 1 \in Int /\ Len(bands[p]) \in Int
    BY <2>1
  <2> QED BY <2>2, <2>3, SubSeqProperties
<1>3. PopBand(p, i) => /\ bands' \in [Priorities -> Seq(Entry)]
                       /\ bandMask' \subseteq Priorities
  BY <1>2 DEF PopBand, ContentInv
<1>4. /\ Unlisted(p, i) \in [Groups -> Group]
      /\ \A g \in Groups : /\ Unlisted(p, i)[g].msgs = grp[g].msgs
                           /\ Unlisted(p, i)[g].locked = grp[g].locked
  <2> DEFINE In(g) == grp[g].inBand /\ ~\E j \in 1..i : /\ bands[p][j].g = g
                                                      /\ Current(bands[p][j])
             U(g) == [grp[g] EXCEPT !.inBand = In(g)]
  <2>1. ASSUME NEW g \in Groups
        PROVE  U(g) \in Group /\ U(g).msgs = grp[g].msgs /\ U(g).locked = grp[g].locked
    <3>1. grp[g] \in Group
      BY DEF ContentInv
    <3>2. In(g) \in BOOLEAN
      BY <3>1 DEF Group
    <3> HIDE DEF In
    <3> QED BY <3>1, <3>2 DEF Group
  <2>2. Unlisted(p, i) = [g \in Groups |-> U(g)]
    BY Zenon DEF Unlisted
  <2> HIDE DEF U
  <2> QED BY <2>1, <2>2
<1> QED BY <1>3, <1>4

(* A message put back goes ahead of its group. *)
LEMMA PutBackType ==
  ASSUME ContentInv, NEW n \in 1..Len(msgs), NEW g \in Groups, msgs[n].group = g,
         n \in Seqs
  PROVE  LET r == [grp[g] EXCEPT !.msgs = <<n>> \o @] IN
           r \in Group /\ OwnList(g, r.msgs, msgs)
<1> DEFINE s == grp[g].msgs
           b == <<n>> \o s
<1>1. s \in Seq(Seqs) /\ OwnList(g, s, msgs) /\ <<n>> \in Seq(Seqs) /\ Len(<<n>>) = 1
  BY DEF ContentInv, Group
<1> HIDE DEF s
<1>2. /\ b \in Seq(Seqs)
      /\ Len(b) = 1 + Len(s)
      /\ \A i \in 1..(1 + Len(s)) : b[i] = IF i <= 1 THEN <<n>>[i] ELSE s[i - 1]
  BY <1>1, ConcatProperties
<1>3. OwnList(g, b, msgs)
  <2> SUFFICES ASSUME NEW i \in DOMAIN b
               PROVE  b[i] \in 1..Len(msgs) /\ msgs[b[i]].group = g
    BY DEF OwnList
  <2>1. Len(s) \in Nat /\ DOMAIN s = 1..Len(s) /\ i \in 1..(1 + Len(s))
    BY <1>1, <1>2
  <2>2. CASE i = 1
    BY <1>2, <2>1, <2>2
  <2>3. CASE i # 1
    <3>1. b[i] = s[i - 1] /\ i - 1 \in DOMAIN s
      BY <1>2, <2>1, <2>3
    <3> QED BY <3>1, <1>1 DEF OwnList
  <2> QED BY <2>2, <2>3
<1> HIDE DEF b
<1>4. grp[g] \in Group
  BY DEF ContentInv
<1>5. [grp[g] EXCEPT !.msgs = b] \in Group /\ [grp[g] EXCEPT !.msgs = b].msgs = b
  BY <1>2, <1>4 DEF Group
<1> QED BY <1>3, <1>5 DEF b, s

LEMMA SameContentType ==
  ASSUME ContentInv, MsgsKept, UNCHANGED content
  PROVE  ContentInv'
<1>1. grp' = grp /\ bands' = bands /\ bandMask' = bandMask
  BY DEF content
<1>2. \A h \in Groups : OwnList(h, grp'[h].msgs, msgs')
  BY <1>1, OwnListKept DEF ContentInv
<1> QED BY <1>1, <1>2 DEF ContentInv

LEMMA SameMsgs ==
  ASSUME TypeInv, UNCHANGED msgs
  PROVE  MsgsKept
BY DEF TypeInv, TypeOK, MsgsKept, MsgsOK

(* A message that changes keeps its group. *)
LEMMA ChangedMsg ==
  ASSUME TypeInv, NEW n \in 1..Len(msgs), NEW m \in Message,
         m.group = msgs[n].group, msgs' = [msgs EXCEPT ![n] = m]
  PROVE  MsgsKept /\ Len(msgs') = Len(msgs)
<1>1. MsgsOK(msgs)
  BY DEF TypeInv, TypeOK, MsgsOK
<1>2. /\ msgs' \in Seq(Message) /\ Len(msgs') = Len(msgs)
      /\ \A j \in 1..Len(msgs) : msgs'[j] = IF j = n THEN m ELSE msgs[j]
  BY <1>1, ExceptSeq DEF MsgsOK
<1> QED BY <1>1, <1>2 DEF MsgsKept, MsgsOK

LEMMA NewMsg ==
  ASSUME TypeInv, Len(msgs) < MaxMessages, NEW m \in Message, msgs' = Append(msgs, m)
  PROVE  MsgsKept /\ Len(msgs') = Len(msgs) + 1
<1>1. MsgsOK(msgs)
  BY DEF TypeInv, TypeOK, MsgsOK
<1>2. /\ msgs' \in Seq(Message) /\ Len(msgs') = Len(msgs) + 1
      /\ \A j \in 1..Len(msgs) : msgs'[j] = msgs[j]
  BY <1>1, AppendProperties DEF MsgsOK
<1>3. Len(msgs) \in Nat
  BY <1>1 DEF MsgsOK
<1> QED BY <1>1, <1>2, <1>3, SlotAssumption DEF MsgsKept, MsgsOK

-----------------------------------------------------------------------------
(* The initial state and each operation *)

LEMMA InitType == Init => TypeInv
<1> SUFFICES ASSUME Init PROVE TypeInv
  OBVIOUS
<1>1. /\ msgs \in Seq(Message) /\ Len(msgs) = 0
      /\ grp \in [Groups -> Group]
      /\ bands \in [Priorities -> Seq(Entry)]
  BY EmptySeq DEF Init, Group
<1>2. \A g \in Groups : OwnList(g, grp[g].msgs, msgs)
  BY DEF Init, OwnList
<1>3. InFlight = {}
  BY DEF Init, InFlight
<1>4. st \in Stats
  BY DEF Init, Stats
<1>5. headSeq \in 1..NoHead
  BY SlotAssumption DEF Init, NoHead
<1>6. TypeOK
  BY <1>1, <1>4, <1>5, SlotAssumption DEF Init, TypeOK, Seqs, Holders
<1> QED BY <1>1, <1>2, <1>3, <1>6 DEF Init, TypeInv, ContentInv

LEMMA TickType == TypeInv /\ Tick => TypeInv'
<1> SUFFICES ASSUME TypeInv, Tick PROVE TypeInv'
  OBVIOUS
<1>1. MsgsKept /\ ContentInv'
  BY SameMsgs, SameContentType DEF Tick, TypeInv
<1>2. now' \in 0..MaxTime
  BY SlotAssumption DEF Tick, TypeInv, TypeOK
<1> QED BY <1>1, <1>2 DEF Tick, TypeInv, TypeOK, InFlight, lockVars, content

LEMMA EnqueueType ==
  ASSUME TypeInv, NEW p \in Priorities, NEW g \in Groups, NEW ttl \in TTLs,
         NEW delay \in Delays, Enqueue(p, g, ttl, delay)
  PROVE  TypeInv' /\ MsgsKept /\ SameLocks
<1> DEFINE n == Len(msgs) + 1
           m == [prio |-> p, group |-> g, attempts |-> 0,
                 expiresAt |-> IF ttl > 0 THEN now + ttl ELSE 0,
                 deliverAfter |-> IF delay > 0 THEN now + delay ELSE 0]
<1>1. m \in Message
  BY SlotAssumption DEF Message, TypeInv, TypeOK
<1>2. MsgsKept /\ Len(msgs') = n
  <2>1. Len(msgs) < MaxMessages /\ msgs' = Append(msgs, m)
    BY SlotAssumption DEF Enqueue, TypeInv, TypeOK
  <2> HIDE DEF m
  <2> QED BY <1>1, <2>1, NewMsg
<1>3. n \in 1..Len(msgs') /\ n \in Seqs /\ Len(msgs) < Len(msgs') /\ Len(msgs) \in Nat
  BY <1>2, SlotAssumption DEF MsgsKept, MsgsOK, Seqs
<1>4. CASE delay > 0
  <2>1. /\ delayed' = delayed \cup {n} /\ UNCHANGED content /\ KeepHint
        /\ st' = Move(st, {n}, "absent", "delayed")
    BY <1>4, SlotAssumption DEF Enqueue
  <2>2. ContentInv'
    BY <1>2, <2>1, SameContentType DEF TypeInv
  <2>3. st' \in Stats
    BY <1>3, <2>1, MoveType DEF TypeInv, TypeOK
  <2>4. UNCHANGED <<now, inflight, timers, epochSeq, away, lockVars>>
    BY DEF Enqueue
  <2> HIDE DEF n, m
  <2>5. delayed' \subseteq 1..Len(msgs') /\ away' \subseteq 1..Len(msgs')
        /\ InFlight' \subseteq 1..Len(msgs')
    BY <1>3, <2>1, <2>4 DEF TypeInv, TypeOK, InFlight
  <2> QED BY <1>2, <2>1, <2>2, <2>3, <2>4, <2>5
       DEF TypeInv, TypeOK, MsgsKept, MsgsOK, lockVars, content, KeepHint, SameLocks
<1>5. CASE delay = 0
  <2>1. /\ Admit(n) /\ RefreshHint /\ UNCHANGED delayed
        /\ st' = Move(st, {n}, "absent", "ready")
    BY <1>5, SlotAssumption DEF Enqueue
  <2>2. ContentInv' /\ groups' \subseteq Groups /\ SameLocks
    <3> DEFINE h == msgs'[n].group
    <3>1. /\ ContentInv' /\ groups' \subseteq Groups
          /\ h \in Groups
          /\ Became(h, [grp[h] EXCEPT !.msgs = Append(@, n)])
      BY <1>2, <1>3, <2>1, AdmitType DEF TypeInv, TypeOK
    <3> HIDE DEF h
    <3>2. SameLocks
      BY <3>1 DEF TypeInv, ContentInv, Became, Group, SameLocks
    <3> QED BY <3>1, <3>2
  <2>3. st' \in Stats
    BY <1>3, <2>1, MoveType DEF TypeInv, TypeOK
  <2>4. hint' \in 0..101 /\ headSeq' \in 1..NoHead
    BY <2>1, <2>2, HintType
  <2>5. UNCHANGED <<now, inflight, timers, epochSeq, away, lockVars>>
    BY DEF Enqueue
  <2> HIDE DEF n, m
  <2>6. delayed' \subseteq 1..Len(msgs') /\ away' \subseteq 1..Len(msgs')
        /\ InFlight' \subseteq 1..Len(msgs')
    BY <1>3, <2>1, <2>5 DEF TypeInv, TypeOK, InFlight
  <2> QED BY <1>2, <2>2, <2>3, <2>4, <2>5, <2>6
       DEF TypeInv, TypeOK, ContentInv, MsgsKept, MsgsOK, lockVars
<1> QED BY <1>2, <1>4, <1>5 DEF Enqueue

(* Facts about the entry a take stops at. *)
LEMMA FirstServableType ==
  ASSUME ContentInv, NEW p \in Priorities, NEW i \in FirstServable(p)
  PROVE  /\ i \in 0..Len(bands[p])
         /\ bands[p][i].g \in Groups
         /\ ~grp[bands[p][i].g].locked
<1>1. bands[p] \in Seq(Entry)
  BY DEF ContentInv
<1>2. i \in 1..Len(bands[p]) /\ Servable(bands[p][i])
  BY <1>1 DEF FirstServable
<1>3. bands[p][i] \in Entry
  BY <1>1, <1>2, ElementOfSeq
<1> QED BY <1>1, <1>2, <1>3 DEF Entry, Servable

LEMMA TakeNothingType ==
  ASSUME TypeInv, NEW p \in Priorities, TakeNothing(p)
  PROVE  TypeInv' /\ SameLocks
<1> DEFINE i == Len(bands[p])
<1>1. i \in 0..Len(bands[p])
  BY DEF TypeInv, ContentInv
<1>2. PopBand(p, i) /\ grp' = Unlisted(p, i) /\ RefreshHint /\ UNCHANGED msgs
  BY DEF TakeNothing
<1> HIDE DEF i
<1>3. ContentInv' /\ SameLocks
  <2>1. /\ bands' \in [Priorities -> Seq(Entry)] /\ bandMask' \subseteq Priorities
        /\ grp' \in [Groups -> Group]
        /\ \A h \in Groups : grp'[h].msgs = grp[h].msgs /\ grp'[h].locked = grp[h].locked
    BY <1>1, <1>2, PopType DEF TypeInv
  <2>2. \A h \in Groups : OwnList(h, grp[h].msgs, msgs')
    BY <1>2 DEF TypeInv, ContentInv
  <2> QED BY <2>1, <2>2 DEF ContentInv, SameLocks
<1>4. hint' \in 0..101 /\ headSeq' \in 1..NoHead
  BY <1>2, <1>3, HintType
<1> QED BY <1>3, <1>4 DEF TakeNothing, TypeInv, TypeOK, ContentInv, InFlight, lockVars

LEMMA TakeExpiredType ==
  ASSUME TypeInv, NEW p \in Priorities, TakeExpired(p)
  PROVE  TypeInv' /\ SameLocks
<1>1. PICK i \in FirstServable(p) :
        LET g == bands[p][i].g
            k == Len(grp[g].msgs)
        IN /\ k \in ExpiredPrefix(g, now)
           /\ PopBand(p, i)
           /\ grp' = [Unlisted(p, i) EXCEPT ![g].msgs = <<>>]
           /\ DropGroupIfIdle(g)
           /\ st' = Expire(st, Dropped(g, k))
  BY DEF TakeExpired
<1> DEFINE g == bands[p][i].g
           U == Unlisted(p, i)
<1>2. i \in 0..Len(bands[p]) /\ g \in Groups
  BY FirstServableType DEF TypeInv
<1>3. /\ bands' \in [Priorities -> Seq(Entry)] /\ bandMask' \subseteq Priorities
      /\ U \in [Groups -> Group]
      /\ \A h \in Groups : U[h].msgs = grp[h].msgs /\ U[h].locked = grp[h].locked
  BY <1>1, <1>2, PopType DEF TypeInv
<1>4. grp' = [U EXCEPT ![g].msgs = <<>>]
  BY <1>1
<1>5. Dropped(g, Len(grp[g].msgs)) \subseteq Seqs
  <2>1. Len(grp[g].msgs) \in 0..Len(grp[g].msgs)
    BY <1>2 DEF TypeInv, ContentInv, Group
  <2> QED BY <1>2, <2>1, AfterType DEF TypeInv
<1>6. st' \in Stats
  BY <1>1, <1>5, ExpireType DEF TypeInv, TypeOK
<1>7. groups' \subseteq Groups
  BY <1>1 DEF DropGroupIfIdle, TypeInv, TypeOK
<1> HIDE DEF g, U
<1>8. ContentInv'
  <2>1. UNCHANGED msgs
    BY DEF TakeExpired
  <2>2. grp' \in [Groups -> Group]
    <3>1. [U[g] EXCEPT !.msgs = <<>>] \in Group
      BY <1>2, <1>3, EmptySeq DEF Group
    <3> QED BY <1>2, <1>3, <1>4, <3>1
  <2>3. \A h \in Groups : grp'[h].msgs = grp[h].msgs \/ grp'[h].msgs = <<>>
    BY <1>2, <1>3, <1>4
  <2>4. \A h \in Groups : OwnList(h, grp[h].msgs, msgs')
    BY <2>1 DEF TypeInv, ContentInv
  <2>5. \A h \in Groups : OwnList(h, <<>>, msgs')
    BY DEF OwnList
  <2> QED BY <1>3, <2>2, <2>3, <2>4, <2>5 DEF ContentInv
<1>9. hint' \in 0..101 /\ headSeq' \in 1..NoHead
  BY <1>8, HintType DEF TakeExpired
<1>10. SameLocks
  BY <1>2, <1>3, <1>4 DEF SameLocks, Group
<1> QED BY <1>6, <1>7, <1>8, <1>9, <1>10
     DEF TakeExpired, TypeInv, TypeOK, ContentInv, InFlight, lockVars

(* What a take that leases a message does, with the group and the message  *)
(* it chose named.                                                         *)
Leases(p, i, g, k, n, e) ==
  /\ i \in FirstServable(p)
  /\ g = bands[p][i].g
  /\ k \in ExpiredPrefix(g, now)
  /\ k < Len(grp[g].msgs)
  /\ n = grp[g].msgs[k + 1]
  /\ e = epochSeq + 1
  /\ epochSeq < MaxEpoch
  /\ msgs' = [msgs EXCEPT ![n].attempts = @ + 1]
  /\ epochSeq' = e
  /\ inflight' = [inflight EXCEPT ![n] = e]
  /\ timers' = timers \cup {[id |-> n, epoch |-> e, at |-> now + Visibility]}
  /\ PopBand(p, i)
  /\ grp' = [Unlisted(p, i) EXCEPT ![g].msgs = After(g, k + 1), ![g].locked = TRUE]
  /\ st' = Move(Expire(st, Dropped(g, k)), {n}, "ready", "inflight")

LEMMA TakeLeases ==
  ASSUME NEW p \in Priorities, Take(p)
  PROVE  \E i, g, k, n, e : Leases(p, i, g, k, n, e)
<1>1. PICK i \in FirstServable(p) :
        LET g == bands[p][i].g IN
        \E k \in ExpiredPrefix(g, now) :
          /\ k < Len(grp[g].msgs)
          /\ LET n == grp[g].msgs[k + 1]
                 e == epochSeq + 1
             IN
             /\ msgs' = [msgs EXCEPT ![n].attempts = @ + 1]
             /\ epochSeq' = e
             /\ inflight' = [inflight EXCEPT ![n] = e]
             /\ timers' = timers \cup {[id |-> n, epoch |-> e, at |-> now + Visibility]}
             /\ PopBand(p, i)
             /\ grp' = [Unlisted(p, i) EXCEPT ![g].msgs = After(g, k + 1),
                                              ![g].locked = TRUE]
             /\ st' = Move(Expire(st, Dropped(g, k)), {n}, "ready", "inflight")
  BY DEF Take
<1>2. \E k : Leases(p, i, bands[p][i].g, k, grp[bands[p][i].g].msgs[k + 1], epochSeq + 1)
  BY <1>1 DEF Leases, Take
<1> QED BY <1>2

(* The group of the leased message is locked and loses the messages up to  *)
(* that one; the other groups keep their lists and locks.                  *)
LEMMA LeasesType ==
  ASSUME TypeInv, NEW p \in Priorities, NEW i, NEW g, NEW k, NEW n, NEW e,
         Leases(p, i, g, k, n, e)
  PROVE  /\ g \in Groups /\ k \in 0..Len(grp[g].msgs)
         /\ n \in Seqs /\ n \in 1..Len(msgs) /\ msgs[n].group = g
         /\ e \in 1..MaxEpoch
         /\ MsgsKept /\ Len(msgs') = Len(msgs)
         /\ ContentInv'
         /\ st' \in Stats
         /\ grp'[g].locked /\ ~grp[g].locked
         /\ \A h \in Groups \ {g} : grp'[h].locked = grp[h].locked
<1> DEFINE U == Unlisted(p, i)
<1>1. i \in 0..Len(bands[p]) /\ g \in Groups /\ ~grp[g].locked
  BY FirstServableType DEF TypeInv, Leases
<1>2. grp[g] \in Group /\ grp[g].msgs \in Seq(Seqs) /\ OwnList(g, grp[g].msgs, msgs)
  BY <1>1 DEF TypeInv, ContentInv, Group
<1>3. k \in 0..Len(grp[g].msgs) /\ k + 1 \in 0..Len(grp[g].msgs)
      /\ k + 1 \in 1..Len(grp[g].msgs)
  <2>1. k \in 0..Len(grp[g].msgs) /\ k < Len(grp[g].msgs)
    BY DEF Leases, ExpiredPrefix
  <2> QED BY <1>2, <2>1
<1>4. n \in Seqs /\ n \in 1..Len(msgs) /\ msgs[n].group = g
  <2>1. n = grp[g].msgs[k + 1]
    BY DEF Leases
  <2> QED BY <1>2, <1>3, <2>1, ElementOfSeq DEF OwnList
<1>5. e \in 1..MaxEpoch
  <2>1. e = epochSeq + 1 /\ epochSeq < MaxEpoch
    BY DEF Leases
  <2> QED BY <2>1, SlotAssumption DEF TypeInv, TypeOK
<1>6. MsgsKept /\ Len(msgs') = Len(msgs)
  <2> DEFINE m == [msgs[n] EXCEPT !.attempts = @ + 1]
  <2>1. msgs[n] \in Message
    BY <1>4, ElementOfSeq DEF TypeInv, TypeOK
  <2>2. m \in Message /\ m.group = msgs[n].group
    BY <2>1 DEF Message
  <2>3. msgs' = [msgs EXCEPT ![n] = m]
    BY DEF Leases
  <2> HIDE DEF m
  <2> QED BY <1>4, <2>2, <2>3, ChangedMsg
<1>7. /\ bands' \in [Priorities -> Seq(Entry)] /\ bandMask' \subseteq Priorities
      /\ U \in [Groups -> Group]
      /\ \A h \in Groups : U[h].msgs = grp[h].msgs /\ U[h].locked = grp[h].locked
  BY <1>1, PopType DEF TypeInv, Leases
<1> DEFINE A == After(g, k + 1)
<1>8. A \in Seq(Seqs) /\ OwnList(g, A, msgs) /\ Dropped(g, k) \subseteq Seqs
  BY <1>1, <1>3, AfterType DEF TypeInv
<1> HIDE DEF A, U
<1>9. /\ grp' \in [Groups -> Group]
      /\ grp'[g].msgs = A /\ grp'[g].locked
      /\ \A h \in Groups \ {g} : grp'[h] = U[h]
  <2> DEFINE V == [U EXCEPT ![g].msgs = A]
  <2>1. V \in [Groups -> Group] /\ V[g].msgs = A /\ \A h \in Groups \ {g} : V[h] = U[h]
    <3>1. [U[g] EXCEPT !.msgs = A] \in Group
      BY <1>1, <1>7, <1>8 DEF Group
    <3> QED BY <1>1, <1>7, <3>1
  <2>2. grp' = [V EXCEPT ![g].locked = TRUE]
    BY Zenon DEF Leases, A, U
  <2> HIDE DEF V
  <2>3. [V[g] EXCEPT !.locked = TRUE] \in Group
    BY <1>1, <2>1 DEF Group
  <2> QED BY <1>1, <2>1, <2>2, <2>3 DEF Group
<1>10. ContentInv'
  <2>1. \A h \in Groups : OwnList(h, grp'[h].msgs, msgs)
    BY <1>7, <1>8, <1>9 DEF TypeInv, ContentInv
  <2>2. \A h \in Groups : OwnList(h, grp'[h].msgs, msgs')
    BY <1>6, <2>1, OwnListKept
  <2> QED BY <1>7, <1>9, <2>2 DEF ContentInv
<1>11. st' \in Stats
  <2>1. Expire(st, Dropped(g, k)) \in Stats
    BY <1>8, ExpireType DEF TypeInv, TypeOK
  <2> QED BY <1>4, <2>1, MoveType DEF Leases
<1>12. \A h \in Groups \ {g} : grp'[h].locked = grp[h].locked
  BY <1>7, <1>9
<1> QED BY <1>1, <1>3, <1>4, <1>5, <1>6, <1>9, <1>10, <1>11, <1>12

LEMMA TakeType ==
  ASSUME TypeInv, NEW p \in Priorities, Take(p)
  PROVE  TypeInv'
<1>1. PICK i, g, k, n, e : Leases(p, i, g, k, n, e)
  BY TakeLeases
<1>2. /\ n \in Seqs /\ n \in 1..Len(msgs)
      /\ e \in 1..MaxEpoch
      /\ MsgsKept /\ Len(msgs') = Len(msgs)
      /\ ContentInv'
      /\ st' \in Stats
  BY <1>1, LeasesType
<1>3. hint' \in 0..101 /\ headSeq' \in 1..NoHead
  BY <1>2, HintType DEF Take
<1>4. epochSeq' = e /\ inflight' = [inflight EXCEPT ![n] = e]
      /\ timers' = timers \cup {[id |-> n, epoch |-> e, at |-> now + Visibility]}
  BY <1>1 DEF Leases
<1>5. inflight' \in [Seqs -> 0..MaxEpoch] /\ InFlight' \subseteq 1..Len(msgs')
  BY <1>2, <1>4 DEF TypeInv, TypeOK, InFlight
<1>6. timers' \subseteq Timer
  BY <1>2, <1>4, SlotAssumption DEF TypeInv, TypeOK, Timer
<1> QED BY <1>2, <1>3, <1>4, <1>5, <1>6
     DEF Take, TypeInv, TypeOK, ContentInv, MsgsKept, MsgsOK, lockVars

(* The end of a lease unlocks its group and touches no other. *)
LEMMA RetireType ==
  ASSUME TypeInv, NEW n \in Seqs, inflight[n] # 0, NEW t \in Nat, NEW delay \in Nat,
         Retire(n, t, delay)
  PROVE  /\ msgs[n].group \in Groups
         /\ MsgsKept /\ Len(msgs') = Len(msgs)
         /\ ContentInv' /\ groups' \subseteq Groups
         /\ st' \in Stats
         /\ delayed' \subseteq 1..Len(msgs)
         /\ inflight' = [inflight EXCEPT ![n] = 0]
         /\ ~grp'[msgs[n].group].locked
         /\ \A h \in Groups \ {msgs[n].group} : grp'[h].locked = grp[h].locked
<1> DEFINE g == msgs[n].group
           back == [grp[g] EXCEPT !.msgs = <<n>> \o @]
<1>1. n \in 1..Len(msgs)
  BY DEF TypeInv, InFlight
<1>2. msgs[n] \in Message /\ g \in Groups
  <2>1. msgs[n] \in Message
    BY <1>1, ElementOfSeq DEF TypeInv, TypeOK
  <2> QED BY <2>1 DEF Message
<1>3. inflight' = [inflight EXCEPT ![n] = 0]
  BY DEF Retire
<1>4. grp[g] \in Group /\ OwnList(g, grp[g].msgs, msgs)
  BY <1>2 DEF TypeInv, ContentInv
<1>5. back \in Group /\ OwnList(g, back.msgs, msgs)
  BY <1>1, <1>2, PutBackType DEF TypeInv
<1>6. MsgsKept /\ Len(msgs') = Len(msgs) /\ delayed' \subseteq 1..Len(msgs)
  <2>1. CASE UNCHANGED msgs
    <3>1. delayed' = delayed \/ delayed' = delayed \cup {n}
      BY DEF Retire
    <3> QED BY <2>1, <3>1, <1>1, SameMsgs DEF TypeInv, TypeOK
  <2>2. CASE msgs' = [msgs EXCEPT ![n].deliverAfter = t + delay]
    <3> DEFINE m == [msgs[n] EXCEPT !.deliverAfter = t + delay]
    <3>1. m \in Message /\ m.group = msgs[n].group /\ msgs' = [msgs EXCEPT ![n] = m]
      BY <1>2, <2>2 DEF Message
    <3> HIDE DEF m
    <3>2. MsgsKept /\ Len(msgs') = Len(msgs)
      BY <1>1, <3>1, ChangedMsg
    <3>3. delayed' = delayed \/ delayed' = delayed \cup {n}
      BY DEF Retire
    <3> QED BY <3>2, <3>3, <1>1 DEF TypeInv, TypeOK
  <2> QED BY <2>1, <2>2 DEF Retire
<1>7. st' \in Stats
  <2>1. {n} \in SUBSET Seqs
    OBVIOUS
  <2> DEFINE out == Move(st, {n}, "inflight", "absent")
  <2>2. out \in Stats /\ Move(st, {n}, "inflight", "delayed") \in Stats
        /\ Move(st, {n}, "inflight", "ready") \in Stats
    BY <2>1, MoveType DEF TypeInv, TypeOK
  <2>3. \/ st' = [out EXCEPT !.expired = @ + 1]
        \/ st' = [out EXCEPT !.deadLettered = @ + 1]
        \/ st' = Move(st, {n}, "inflight", "delayed")
        \/ st' = Move(st, {n}, "inflight", "ready")
    BY DEF Retire
  <2> HIDE DEF out
  <2>4. [out EXCEPT !.expired = @ + 1] \in Stats
        /\ [out EXCEPT !.deadLettered = @ + 1] \in Stats
    BY <2>2 DEF Stats
  <2> QED BY <2>2, <2>3, <2>4
<1>8. Unlock(g, grp[g]) \/ Unlock(g, back)
  BY DEF Retire
<1> HIDE DEF back
<1>9. PICK r \in Group : OwnList(g, r.msgs, msgs) /\ Unlock(g, r)
  BY <1>4, <1>5, <1>8
<1>10. OwnList(g, r.msgs, msgs')
  BY <1>6, <1>9, OwnListKept
<1> HIDE DEF g
<1>11. /\ ContentInv' /\ groups' \subseteq Groups
       /\ Became(g, [r EXCEPT !.locked = FALSE])
  BY <1>2, <1>6, <1>9, <1>10, UnlockType DEF TypeInv, TypeOK
<1>12. ~grp'[g].locked /\ \A h \in Groups \ {g} : grp'[h].locked = grp[h].locked
  BY <1>9, <1>11 DEF Became, Group
<1> QED BY <1>2, <1>3, <1>6, <1>7, <1>11, <1>12 DEF g

LEMMA NackType ==
  ASSUME TypeInv, NEW n \in Seqs, NEW e, NEW delay \in Delays, Nack(n, e, delay)
  PROVE  TypeInv'
<1>1. inflight[n] # 0 /\ Retire(n, now, delay) /\ RefreshHint
  BY DEF Nack, Holds
<1>2. now \in Nat /\ delay \in Nat
  BY SlotAssumption DEF TypeInv, TypeOK
<1>3. /\ MsgsKept /\ Len(msgs') = Len(msgs)
      /\ ContentInv' /\ groups' \subseteq Groups
      /\ st' \in Stats
      /\ delayed' \subseteq 1..Len(msgs)
      /\ inflight' = [inflight EXCEPT ![n] = 0]
  BY <1>1, <1>2, RetireType
<1>4. hint' \in 0..101 /\ headSeq' \in 1..NoHead
  BY <1>1, <1>3, HintType
<1>5. inflight' \in [Seqs -> 0..MaxEpoch] /\ InFlight' \subseteq 1..Len(msgs')
  BY <1>3, SlotAssumption DEF TypeInv, TypeOK, InFlight
<1> QED BY <1>3, <1>4, <1>5
     DEF Nack, TypeInv, TypeOK, ContentInv, MsgsKept, MsgsOK, lockVars

LEMMA AckType ==
  ASSUME TypeInv, NEW n \in Seqs, NEW e, Ack(n, e)
  PROVE  /\ TypeInv'
         /\ msgs[n].group \in Groups
         /\ ~grp'[msgs[n].group].locked
         /\ \A h \in Groups \ {msgs[n].group} : grp'[h].locked = grp[h].locked
<1> DEFINE g == msgs[n].group
<1>1. n \in 1..Len(msgs)
  BY DEF TypeInv, InFlight, Ack, Holds
<1>2. g \in Groups
  <2>1. msgs[n] \in Message
    BY <1>1, ElementOfSeq DEF TypeInv, TypeOK
  <2> QED BY <2>1 DEF Message
<1>3. MsgsKept
  BY SameMsgs DEF Ack
<1>4. grp[g] \in Group /\ OwnList(g, grp[g].msgs, msgs')
  BY <1>2, <1>3, OwnListKept DEF TypeInv, ContentInv
<1>5. Unlock(g, grp[g])
  BY DEF Ack
<1> HIDE DEF g
<1>6. /\ ContentInv' /\ groups' \subseteq Groups
      /\ Became(g, [grp[g] EXCEPT !.locked = FALSE])
  BY <1>2, <1>3, <1>4, <1>5, UnlockType DEF TypeInv, TypeOK
<1>7. ~grp'[g].locked /\ \A h \in Groups \ {g} : grp'[h].locked = grp[h].locked
  BY <1>4, <1>6 DEF Became, Group
<1>8. st' \in Stats
  <2> DEFINE out == Move(st, {n}, "inflight", "absent")
  <2>1. {n} \in SUBSET Seqs
    OBVIOUS
  <2>2. out \in Stats
    BY <2>1, MoveType DEF TypeInv, TypeOK
  <2>3. st' = [out EXCEPT !.acked = @ + 1]
    BY DEF Ack
  <2> HIDE DEF out
  <2> QED BY <2>2, <2>3 DEF Stats
<1>9. hint' \in 0..101 /\ headSeq' \in 1..NoHead
  BY <1>6, HintType DEF Ack
<1>10. inflight' \in [Seqs -> 0..MaxEpoch] /\ InFlight' \subseteq 1..Len(msgs')
  BY SlotAssumption DEF Ack, TypeInv, TypeOK, InFlight
<1>11. TypeInv'
  BY <1>3, <1>6, <1>8, <1>9, <1>10
     DEF Ack, TypeInv, TypeOK, ContentInv, MsgsKept, MsgsOK, lockVars
<1> QED BY <1>2, <1>7, <1>11 DEF g

LEMMA ReleaseDelayedType ==
  ASSUME TypeInv, NEW n \in delayed, ReleaseDelayed(n)
  PROVE  /\ TypeInv'
         /\ MsgsKept
         /\ SameLocks
<1>1. n \in 1..Len(msgs) /\ n \in Seqs
  BY SlotAssumption DEF TypeInv, TypeOK, Seqs
<1>2. MsgsKept /\ Len(msgs') = Len(msgs)
  <2> DEFINE m == [msgs[n] EXCEPT !.deliverAfter = 0]
  <2>1. msgs[n] \in Message
    BY <1>1, ElementOfSeq DEF TypeInv, TypeOK
  <2>2. m \in Message /\ m.group = msgs[n].group /\ msgs' = [msgs EXCEPT ![n] = m]
    BY <2>1 DEF Message, ReleaseDelayed
  <2> HIDE DEF m
  <2> QED BY <1>1, <2>2, ChangedMsg
<1>3. Admit(n) /\ delayed' = delayed \ {n} /\ st' = Move(st, {n}, "delayed", "ready")
  BY DEF ReleaseDelayed
<1> DEFINE g == msgs'[n].group
<1>4. /\ ContentInv' /\ groups' \subseteq Groups
      /\ g \in Groups
      /\ Became(g, [grp[g] EXCEPT !.msgs = Append(@, n)])
  BY <1>1, <1>2, <1>3, AdmitType DEF TypeInv, TypeOK
<1> HIDE DEF g
<1>5. SameLocks
  BY <1>4 DEF SameLocks, TypeInv, ContentInv, Became, Group
<1>6. st' \in Stats
  BY <1>1, <1>3, MoveType DEF TypeInv, TypeOK
<1>7. TypeInv'
  BY <1>2, <1>3, <1>4, <1>6
     DEF ReleaseDelayed, TypeInv, TypeOK, ContentInv, MsgsKept, MsgsOK, InFlight,
         KeepHint, lockVars
<1> QED BY <1>2, <1>5, <1>7

LEMMA SweepLeaseType ==
  ASSUME TypeInv, NEW e \in timers, SweepLease(e)
  PROVE  TypeInv'
<1>1. e.id \in Seqs
  BY DEF TypeInv, TypeOK, Timer
<1>2. CASE ~Holds(e.id, e.epoch) /\ UNCHANGED <<msgs, content, inflight, delayed, st>>
  <2>1. MsgsKept /\ ContentInv'
    BY <1>2, SameMsgs, SameContentType DEF TypeInv
  <2> QED BY <1>2, <2>1
       DEF SweepLease, TypeInv, TypeOK, InFlight, KeepHint, lockVars, content
<1>3. CASE Holds(e.id, e.epoch) /\ Retire(e.id, opNow, 0)
  <2>1. /\ MsgsKept /\ Len(msgs') = Len(msgs)
        /\ ContentInv' /\ groups' \subseteq Groups
        /\ st' \in Stats
        /\ delayed' \subseteq 1..Len(msgs)
        /\ inflight' = [inflight EXCEPT ![e.id] = 0]
    <3>1. opNow \in Nat
      BY SlotAssumption DEF TypeInv, TypeOK
    <3> QED BY <1>1, <1>3, <3>1, RetireType DEF Holds
  <2>2. inflight' \in [Seqs -> 0..MaxEpoch] /\ InFlight' \subseteq 1..Len(msgs')
    BY <1>1, <2>1, SlotAssumption DEF TypeInv, TypeOK, InFlight
  <2> QED BY <2>1, <2>2
       DEF SweepLease, TypeInv, TypeOK, ContentInv, MsgsKept, MsgsOK, KeepHint, lockVars
<1> QED BY <1>2, <1>3 DEF SweepLease

LEMMA SweepTTLType ==
  ASSUME TypeInv, NEW g \in todo, SweepTTL(g)
  PROVE  /\ TypeInv'
         /\ SameLocks
<1>1. PICK k \in ExpiredPrefix(g, opNow) :
       LET cut == [grp[g] EXCEPT !.msgs = After(g, k)]
           r   == IF k > 0 /\ cut.inBand
                  THEN [cut EXCEPT !.version = @ + 1, !.inBand = FALSE]
                  ELSE cut
       IN /\ PushIfUnlisted(g, r)
          /\ DropGroupIfIdle(g)
          /\ st' = Expire(st, Dropped(g, k))
  BY DEF SweepTTL
<1> DEFINE cut == [grp[g] EXCEPT !.msgs = After(g, k)]
           new == [cut EXCEPT !.version = @ + 1, !.inBand = FALSE]
           r   == IF k > 0 /\ cut.inBand THEN new ELSE cut
<1>2. g \in Groups /\ grp[g] \in Group
  BY DEF TypeInv, TypeOK
<1>3. k \in 0..Len(grp[g].msgs)
  BY DEF ExpiredPrefix
<1>4. After(g, k) \in Seq(Seqs) /\ OwnList(g, After(g, k), msgs) /\ Dropped(g, k) \subseteq Seqs
  BY <1>2, <1>3, AfterType DEF TypeInv
<1>5. cut \in Group /\ cut.msgs = After(g, k) /\ cut.locked = grp[g].locked
  BY <1>2, <1>4 DEF Group
<1>6. new \in Group /\ new.msgs = cut.msgs /\ new.locked = cut.locked
  <2> HIDE DEF cut
  <2> DEFINE c1 == [cut EXCEPT !.version = @ + 1]
  <2>1. c1 \in Group /\ c1.msgs = cut.msgs /\ c1.locked = cut.locked
    BY <1>5 DEF Group
  <2>2. new = [c1 EXCEPT !.inBand = FALSE]
    BY Zenon
  <2> HIDE DEF c1, new
  <2> QED BY <2>1, <2>2 DEF Group
<1>7. PushIfUnlisted(g, r) /\ DropGroupIfIdle(g) /\ st' = Expire(st, Dropped(g, k))
  BY <1>1
<1> HIDE DEF cut, new
<1>8. r \in Group /\ r.msgs = After(g, k) /\ r.locked = grp[g].locked
  BY <1>5, <1>6
<1>9. MsgsKept /\ UNCHANGED msgs
  BY SameMsgs DEF SweepTTL
<1> HIDE DEF r
<1>10. OwnList(g, r.msgs, msgs')
  BY <1>4, <1>8, <1>9
<1>11. ContentInv' /\ Became(g, r)
  BY <1>2, <1>7, <1>8, <1>9, <1>10, PushIfUnlistedType DEF TypeInv
<1>12. groups' \subseteq Groups
  BY <1>7 DEF DropGroupIfIdle, TypeInv, TypeOK
<1>13. st' \in Stats
  BY <1>4, <1>7, ExpireType DEF TypeInv, TypeOK
<1>14. SameLocks
  BY <1>8, <1>11 DEF SameLocks, Became
<1>15. TypeInv'
  BY <1>9, <1>11, <1>12, <1>13
     DEF SweepTTL, TypeInv, TypeOK, ContentInv, InFlight, KeepHint
<1> QED BY <1>14, <1>15

(* The steps that only begin or end a loop. *)
LEMMA LoopType ==
  ASSUME TypeInv, BeginSweep \/ ReleaseDone \/ LeasesDone \/ SweepDone \/ BeginAbsorb
  PROVE  TypeInv' /\ UNCHANGED <<grp, inflight, msgs>>
<1>1. MsgsKept /\ ContentInv' /\ UNCHANGED <<content, msgs, inflight>>
  <2>1. UNCHANGED <<content, msgs, inflight>>
    BY DEF BeginSweep, ReleaseDone, LeasesDone, SweepDone, BeginAbsorb
  <2> QED BY <2>1, SameMsgs, SameContentType DEF TypeInv
<1>2. RefreshHint => hint' \in 0..101 /\ headSeq' \in 1..NoHead
  BY <1>1, HintType
<1>3. 0 \in 0..MaxTime
  BY SlotAssumption
<1>4. CASE BeginSweep \/ BeginAbsorb
  BY <1>1, <1>4
     DEF BeginSweep, BeginAbsorb, Free, TypeInv, TypeOK, InFlight, content, Holders
<1>5. CASE ReleaseDone
  BY <1>1, <1>2, <1>5 DEF ReleaseDone, TypeInv, TypeOK, InFlight, content, Holders
<1>6. CASE LeasesDone
  BY <1>1, <1>2, <1>6 DEF LeasesDone, TypeInv, TypeOK, InFlight, content, Holders
<1>7. CASE SweepDone
  BY <1>1, <1>2, <1>3, <1>7 DEF SweepDone, TypeInv, TypeOK, InFlight, content, Holders
<1> QED BY <1>1, <1>4, <1>5, <1>6, <1>7 DEF content

LEMMA DrainType ==
  ASSUME TypeInv, Drain
  PROVE  /\ TypeInv' /\ UNCHANGED msgs
         /\ InFlight' = {} /\ \A h \in Groups : ~grp'[h].locked
<1> DEFINE E(g) == [grp[g] EXCEPT !.msgs = <<>>, !.locked = FALSE, !.inBand = FALSE]
<1>1. ASSUME NEW g \in Groups
      PROVE  E(g) \in Group /\ E(g).msgs = <<>> /\ ~E(g).locked
  <2> DEFINE e1 == [grp[g] EXCEPT !.msgs = <<>>]
             e2 == [e1 EXCEPT !.locked = FALSE]
  <2>1. e1 \in Group /\ e1.msgs = <<>>
    BY EmptySeq DEF TypeInv, TypeOK, Group
  <2> HIDE DEF e1
  <2>2. e2 \in Group /\ e2.msgs = <<>> /\ ~e2.locked
    BY <2>1 DEF Group
  <2>3. E(g) = [e2 EXCEPT !.inBand = FALSE]
    BY Zenon DEF e1
  <2> HIDE DEF e2, E
  <2> QED BY <2>2, <2>3 DEF Group
<1>2. grp' = [g \in Groups |-> E(g)]
  BY Zenon DEF Drain
<1> HIDE DEF E
<1>3. grp' \in [Groups -> Group] /\ \A h \in Groups : grp'[h].msgs = <<>> /\ ~grp'[h].locked
  BY <1>1, <1>2
<1>4. ContentInv'
  <2>1. bands' \in [Priorities -> Seq(Entry)] /\ bandMask' \subseteq Priorities
    BY EmptySeq DEF Drain
  <2>2. \A h \in Groups : OwnList(h, grp'[h].msgs, msgs')
    BY <1>3 DEF OwnList
  <2> QED BY <1>3, <2>1, <2>2 DEF ContentInv
<1>5. hint' \in 0..101 /\ headSeq' \in 1..NoHead
  BY <1>4, HintType DEF Drain
<1>6. st' \in Stats
  <2> DEFINE z == [b \in Buckets |-> 0]
             s1 == [st EXCEPT !.ready = z]
             s2 == [s1 EXCEPT !.inflight = 0]
  <2>1. z \in [Buckets -> Int]
    OBVIOUS
  <2>2. st' = [s2 EXCEPT !.delayed = 0]
    BY Zenon DEF Drain
  <2> HIDE DEF z
  <2>3. s1 \in Stats
    BY <2>1 DEF TypeInv, TypeOK, Stats
  <2> HIDE DEF s1
  <2>4. s2 \in Stats
    BY <2>3 DEF Stats
  <2> HIDE DEF s2
  <2> QED BY <2>2, <2>4 DEF Stats
<1>7. inflight' \in [Seqs -> 0..MaxEpoch] /\ InFlight' = {}
  <2>1. inflight' = [n \in Seqs |-> 0]
    BY DEF Drain
  <2> QED BY <2>1, SlotAssumption DEF InFlight
<1>8. away' \subseteq 1..Len(msgs)
  <2>1. \A g \in Groups : \A i \in DOMAIN grp[g].msgs : grp[g].msgs[i] \in 1..Len(msgs)
    BY DEF TypeInv, ContentInv, OwnList
  <2>2. \A g \in Groups : Queued(g) \subseteq 1..Len(msgs)
    BY <2>1, Zenon DEF Queued
  <2>3. Ready \subseteq 1..Len(msgs)
    BY <2>2 DEF Ready
  <2>4. InFlight \subseteq 1..Len(msgs) /\ delayed \subseteq 1..Len(msgs)
    BY DEF TypeInv, TypeOK
  <2>5. Present \subseteq 1..Len(msgs)
    BY <2>3, <2>4 DEF Present
  <2> QED BY <2>5 DEF Drain, TypeInv, TypeOK
<1>9. TypeInv'
  BY <1>4, <1>5, <1>6, <1>7, <1>8 DEF Drain, TypeInv, TypeOK, ContentInv, lockVars
<1> QED BY <1>3, <1>7, <1>9 DEF Drain

(* A group takes in what was away, ahead of what it has. *)
LEMMA AbsorbGroupType ==
  ASSUME TypeInv, NEW g \in Groups, AbsorbGroup(g)
  PROVE  /\ TypeInv'
         /\ SameLocks
<1> DEFINE S == Arriving(g, opNow)
           s == grp[g].msgs
<1>1. PICK list \in InSeqOrder(S) :
        PushGroup(g, [grp[g] EXCEPT !.msgs = list \o @, !.version = @ + 1, !.inBand = FALSE])
  BY DEF AbsorbGroup
<1>2. S \subseteq Seqs /\ S \subseteq 1..Len(msgs) /\ \A n \in S : msgs[n].group = g
  <2>1. S \subseteq away /\ \A n \in S : msgs[n].group = g
    BY DEF Arriving
  <2>2. away \subseteq 1..Len(msgs) /\ away \subseteq Seqs
    BY SlotAssumption DEF TypeInv, TypeOK, Seqs
  <2> QED BY <2>1, <2>2
<1>3. grp[g] \in Group /\ s \in Seq(Seqs) /\ OwnList(g, s, msgs)
  BY DEF TypeInv, ContentInv, Group
<1> HIDE DEF S, s
<1>4. Cardinality(S) \in Nat
  BY <1>2, MessageSets
<1>5. list \in [1..Cardinality(S) -> S]
  BY DEF InSeqOrder
<1>6. list \in Seq(Seqs) /\ Len(list) = Cardinality(S) /\ DOMAIN list = 1..Len(list)
      /\ \A i \in 1..Len(list) : list[i] \in S
  <2>1. list \in [1..Cardinality(S) -> Seqs]
    BY <1>2, <1>5
  <2>2. list \in Seq(Seqs) /\ Len(list) = Cardinality(S) /\ DOMAIN list = 1..Len(list)
    BY <1>4, <2>1, FunctionIsSeq
  <2> QED BY <1>5, <2>2
<1> DEFINE l == list \o s
<1>7. /\ l \in Seq(Seqs) /\ Len(l) = Len(list) + Len(s)
      /\ \A i \in 1..(Len(list) + Len(s)) :
           l[i] = IF i <= Len(list) THEN list[i] ELSE s[i - Len(list)]
  BY <1>3, <1>6, ConcatProperties
<1> HIDE DEF l
<1>8. OwnList(g, l, msgs)
  <2> SUFFICES ASSUME NEW i \in DOMAIN l
               PROVE  l[i] \in 1..Len(msgs) /\ msgs[l[i]].group = g
    BY DEF OwnList
  <2>1. Len(s) \in Nat /\ DOMAIN s = 1..Len(s) /\ Len(list) \in Nat
        /\ i \in 1..(Len(list) + Len(s))
    BY <1>3, <1>6, <1>7
  <2>2. CASE i <= Len(list)
    <3>1. i \in 1..Len(list)
      BY <2>1, <2>2
    <3>2. l[i] = list[i] /\ list[i] \in S
      BY <1>6, <1>7, <2>1, <2>2, <3>1
    <3> QED BY <1>2, <3>2
  <2>3. CASE ~(i <= Len(list))
    <3>1. l[i] = s[i - Len(list)] /\ i - Len(list) \in 1..Len(s)
      BY <1>7, <2>1, <2>3
    <3> QED BY <3>1, <2>1, <1>3 DEF OwnList
  <2> QED BY <2>2, <2>3
<1> DEFINE r1 == [grp[g] EXCEPT !.msgs = l]
           r2 == [r1 EXCEPT !.version = @ + 1]
           r  == [r2 EXCEPT !.inBand = FALSE]
<1>9. PushGroup(g, r)
  BY <1>1, Zenon DEF l, s
<1>10. r1 \in Group /\ r1.msgs = l /\ r1.locked = grp[g].locked
  BY <1>3, <1>7 DEF Group
<1> HIDE DEF r1
<1>11. r2 \in Group /\ r2.msgs = l /\ r2.locked = grp[g].locked
  BY <1>10 DEF Group
<1> HIDE DEF r2
<1>12. r \in Group /\ r.msgs = l /\ r.locked = grp[g].locked
  BY <1>11 DEF Group
<1> HIDE DEF r
<1>13. UNCHANGED msgs /\ MsgsKept
  BY SameMsgs DEF AbsorbGroup
<1>14. ContentInv' /\ Became(g, r)
  BY <1>8, <1>9, <1>12, <1>13, PushGroupType DEF TypeInv
<1>15. SameLocks
  BY <1>12, <1>14 DEF SameLocks, Became
<1>16. st' \in Stats
  BY <1>2, MoveType DEF AbsorbGroup, S, TypeInv, TypeOK
<1>17. groups' \subseteq Groups /\ away' \subseteq 1..Len(msgs)
  BY DEF AbsorbGroup, TypeInv, TypeOK
<1>18. TypeInv'
  BY <1>13, <1>14, <1>16, <1>17
     DEF AbsorbGroup, TypeInv, TypeOK, ContentInv, InFlight, KeepHint, lockVars
<1> QED BY <1>15, <1>18

LEMMA AbsorbDoneType ==
  ASSUME TypeInv, AbsorbDone
  PROVE  TypeInv' /\ UNCHANGED <<grp, inflight, msgs>>
<1>1. UNCHANGED <<content, msgs, inflight>>
  BY DEF AbsorbDone
<1>2. ContentInv'
  BY <1>1, SameMsgs, SameContentType DEF TypeInv
<1>3. hint' \in 0..101 /\ headSeq' \in 1..NoHead
  BY <1>2, HintType DEF AbsorbDone
<1>4. st' \in Stats
  <2>1. away \subseteq Seqs
    BY SlotAssumption DEF TypeInv, TypeOK, Seqs
  <2> QED BY <2>1, MoveType DEF AbsorbDone, TypeInv, TypeOK
<1>5. delayed' \subseteq 1..Len(msgs') /\ away' \subseteq 1..Len(msgs')
  BY DEF AbsorbDone, TypeInv, TypeOK
<1>6. 0 \in 0..MaxTime
  BY SlotAssumption
<1>7. TypeInv'
  BY <1>1, <1>2, <1>3, <1>4, <1>5, <1>6
     DEF AbsorbDone, TypeInv, TypeOK, ContentInv, InFlight, content, Holders
<1> QED BY <1>1, <1>7 DEF content

LEMMA StutterType ==
  ASSUME TypeInv, UNCHANGED vars
  PROVE  TypeInv'
BY DEF TypeInv, TypeOK, ContentInv, OwnList, InFlight, vars

LEMMA NextType == TypeInv /\ [Next]_vars => TypeInv'
<1> SUFFICES ASSUME TypeInv, [Next]_vars PROVE TypeInv'
  OBVIOUS
<1>1. CASE Tick
  BY <1>1, TickType
<1>2. CASE \E p \in Priorities, g \in Groups, ttl \in TTLs, d \in Delays :
             Enqueue(p, g, ttl, d)
  BY <1>2, EnqueueType
<1>3. CASE \E p \in Priorities : Take(p) \/ TakeExpired(p) \/ TakeNothing(p)
  BY <1>3, TakeType, TakeExpiredType, TakeNothingType
<1>4. CASE \E n \in Seqs, e \in 1..epochSeq :
             Ack(n, e) \/ \E d \in Delays : Nack(n, e, d)
  BY <1>4, AckType, NackType
<1>5. CASE \E n \in delayed : ReleaseDelayed(n)
  BY <1>5, ReleaseDelayedType
<1>6. CASE \E e \in timers : SweepLease(e)
  BY <1>6, SweepLeaseType
<1>7. CASE \E g \in todo : SweepTTL(g)
  BY <1>7, SweepTTLType
<1>8. CASE BeginSweep \/ ReleaseDone \/ LeasesDone \/ SweepDone \/ BeginAbsorb
  BY <1>8, LoopType
<1>9. CASE Drain
  BY <1>9, DrainType
<1>10. CASE \E g \in Groups : AbsorbGroup(g)
  BY <1>10, AbsorbGroupType
<1>11. CASE AbsorbDone
  BY <1>11, AbsorbDoneType
<1>12. CASE UNCHANGED vars
  BY <1>12, StutterType
<1> QED BY <1>1, <1>2, <1>3, <1>4, <1>5, <1>6, <1>7, <1>8, <1>9, <1>10, <1>11, <1>12
     DEF Next

(* Every variable of a slot keeps its type: in particular the hint fits    *)
(* the range the dispatcher scans, and a slot never holds a message that   *)
(* was not enqueued in it.                                                 *)
THEOREM TypeCorrect == Spec => []TypeOK
<1>1. Init => TypeInv
  BY InitType
<1>2. TypeInv /\ [Next]_vars => TypeInv'
  BY NextType
<1>3. TypeInv => TypeOK
  BY DEF TypeInv
<1> QED BY <1>1, <1>2, <1>3, PTL DEF Spec

-----------------------------------------------------------------------------
(* One lease per group.  The lock is the only thing that keeps a second    *)
(* message of a group from being handed out: a take looks at the lock, not *)
(* at the leases, so lock and lease must agree after every step.           *)

LockInv == TypeInv /\ LockedByOneLease

LEMMA SameLocksKeep ==
  ASSUME LockInv, MsgsKept, SameLocks, UNCHANGED inflight
  PROVE  LockedByOneLease'
<1>1. InFlight' = InFlight /\ InFlight \subseteq 1..Len(msgs)
  BY DEF InFlight, LockInv, TypeInv
<1>2. \A n \in InFlight : msgs'[n].group = msgs[n].group
  BY <1>1 DEF MsgsKept
<1> SUFFICES ASSUME NEW g \in Groups
             PROVE  /\ grp'[g].locked <=> \E n \in InFlight' : msgs'[n].group = g
                    /\ \A m, n \in InFlight' :
                         msgs'[m].group = g /\ msgs'[n].group = g => m = n
  BY DEF LockedByOneLease
<1>3. grp'[g].locked = grp[g].locked
  BY DEF SameLocks
<1>4. /\ grp[g].locked <=> \E n \in InFlight : msgs[n].group = g
      /\ \A m, n \in InFlight : msgs[m].group = g /\ msgs[n].group = g => m = n
  BY DEF LockInv, LockedByOneLease
<1> QED BY <1>1, <1>2, <1>3, <1>4

(* A lease begins in an unlocked group, which had none. *)
LEMMA LeaseBegins ==
  ASSUME LockInv, MsgsKept, NEW n \in 1..Len(msgs), n \in Seqs, NEW e, e # 0,
         NEW g \in Groups, msgs[n].group = g,
         ~grp[g].locked, grp'[g].locked,
         \A h \in Groups \ {g} : grp'[h].locked = grp[h].locked,
         inflight' = [inflight EXCEPT ![n] = e]
  PROVE  LockedByOneLease'
<1>1. InFlight' = InFlight \cup {n} /\ InFlight \subseteq 1..Len(msgs)
  BY DEF InFlight, LockInv, TypeInv, TypeOK
<1>2. \A m \in InFlight \cup {n} : msgs'[m].group = msgs[m].group
  BY <1>1 DEF MsgsKept
<1>3. \A m \in InFlight : msgs[m].group # g
  BY DEF LockInv, LockedByOneLease
<1> SUFFICES ASSUME NEW h \in Groups
             PROVE  /\ grp'[h].locked <=> \E m \in InFlight' : msgs'[m].group = h
                    /\ \A l, m \in InFlight' :
                         msgs'[l].group = h /\ msgs'[m].group = h => l = m
  BY DEF LockedByOneLease
<1>4. /\ grp[h].locked <=> \E m \in InFlight : msgs[m].group = h
      /\ \A l, m \in InFlight : msgs[l].group = h /\ msgs[m].group = h => l = m
  BY DEF LockInv, LockedByOneLease
<1>5. CASE h = g
  BY <1>1, <1>2, <1>3, <1>5
<1>6. CASE h # g
  BY <1>1, <1>2, <1>4, <1>6
<1> QED BY <1>5, <1>6

(* A lease ends and its group, which had no other, is unlocked. *)
LEMMA LeaseEnds ==
  ASSUME LockInv, MsgsKept, NEW n \in Seqs, inflight[n] # 0,
         msgs[n].group \in Groups,
         ~grp'[msgs[n].group].locked,
         \A h \in Groups \ {msgs[n].group} : grp'[h].locked = grp[h].locked,
         inflight' = [inflight EXCEPT ![n] = 0]
  PROVE  LockedByOneLease'
<1> DEFINE g == msgs[n].group
<1>1. InFlight' = InFlight \ {n} /\ n \in InFlight /\ InFlight \subseteq 1..Len(msgs)
  BY DEF InFlight, LockInv, TypeInv, TypeOK
<1>2. \A m \in InFlight : msgs'[m].group = msgs[m].group
  BY <1>1 DEF MsgsKept
<1>3. \A m \in InFlight \ {n} : msgs[m].group # g
  BY <1>1 DEF LockInv, LockedByOneLease
<1> HIDE DEF g
<1> SUFFICES ASSUME NEW h \in Groups
             PROVE  /\ grp'[h].locked <=> \E m \in InFlight' : msgs'[m].group = h
                    /\ \A l, m \in InFlight' :
                         msgs'[l].group = h /\ msgs'[m].group = h => l = m
  BY DEF LockedByOneLease
<1>4. /\ grp[h].locked <=> \E m \in InFlight : msgs[m].group = h
      /\ \A l, m \in InFlight : msgs[l].group = h /\ msgs[m].group = h => l = m
  BY DEF LockInv, LockedByOneLease
<1>5. CASE h = g
  BY <1>1, <1>2, <1>3, <1>5 DEF g
<1>6. CASE h # g
  BY <1>1, <1>2, <1>4, <1>6 DEF g
<1> QED BY <1>5, <1>6

LEMMA InitLock == Init => LockInv
<1> SUFFICES ASSUME Init PROVE LockInv
  OBVIOUS
<1>1. InFlight = {} /\ \A g \in Groups : ~grp[g].locked
  BY DEF Init, InFlight
<1> QED BY <1>1, InitType DEF LockInv, LockedByOneLease

LEMMA TakeLock ==
  ASSUME LockInv, NEW p \in Priorities, Take(p)
  PROVE  LockedByOneLease'
<1>1. PICK i, g, k, n, e : Leases(p, i, g, k, n, e)
  BY TakeLeases
<1>2. /\ g \in Groups
      /\ n \in Seqs /\ n \in 1..Len(msgs) /\ msgs[n].group = g
      /\ e \in 1..MaxEpoch
      /\ MsgsKept
      /\ grp'[g].locked /\ ~grp[g].locked
      /\ \A h \in Groups \ {g} : grp'[h].locked = grp[h].locked
  BY <1>1, LeasesType DEF LockInv
<1>3. inflight' = [inflight EXCEPT ![n] = e]
  BY <1>1 DEF Leases
<1>4. e # 0
  BY <1>2, SlotAssumption
<1> QED BY <1>2, <1>3, <1>4, LeaseBegins

LEMMA RetireLock ==
  ASSUME LockInv, NEW n \in Seqs, inflight[n] # 0, NEW t \in Nat, NEW delay \in Nat,
         Retire(n, t, delay)
  PROVE  LockedByOneLease'
<1>1. /\ msgs[n].group \in Groups /\ MsgsKept
      /\ inflight' = [inflight EXCEPT ![n] = 0]
      /\ ~grp'[msgs[n].group].locked
      /\ \A h \in Groups \ {msgs[n].group} : grp'[h].locked = grp[h].locked
  BY RetireType DEF LockInv
<1> QED BY <1>1, LeaseEnds

LEMMA NextLock == LockInv /\ [Next]_vars => LockInv'
<1> SUFFICES ASSUME LockInv, [Next]_vars PROVE LockedByOneLease'
  BY NextType DEF LockInv
<1> USE DEF LockInv
<1>1. ASSUME NEW p \in Priorities, NEW g \in Groups, NEW ttl \in TTLs, NEW d \in Delays,
             Enqueue(p, g, ttl, d)
      PROVE  LockedByOneLease'
  <2>1. MsgsKept /\ SameLocks
    BY <1>1, EnqueueType
  <2>2. UNCHANGED inflight
    BY <1>1 DEF Enqueue
  <2> QED BY <2>1, <2>2, SameLocksKeep
<1>2. ASSUME NEW p \in Priorities, TakeExpired(p) \/ TakeNothing(p)
      PROVE  LockedByOneLease'
  <2>1. SameLocks
    BY <1>2, TakeExpiredType, TakeNothingType
  <2>2. UNCHANGED <<inflight, msgs>>
    BY <1>2 DEF TakeExpired, TakeNothing
  <2> QED BY <2>1, <2>2, SameMsgs, SameLocksKeep
<1>3. ASSUME NEW n \in Seqs, NEW e, Ack(n, e)
      PROVE  LockedByOneLease'
  <2>1. /\ msgs[n].group \in Groups
        /\ ~grp'[msgs[n].group].locked
        /\ \A h \in Groups \ {msgs[n].group} : grp'[h].locked = grp[h].locked
    BY <1>3, AckType
  <2>2. /\ inflight[n] # 0 /\ inflight' = [inflight EXCEPT ![n] = 0] /\ UNCHANGED msgs
    BY <1>3 DEF Ack, Holds
  <2> QED BY <2>1, <2>2, SameMsgs, LeaseEnds
<1>4. ASSUME NEW n \in Seqs, NEW e, NEW d \in Delays, Nack(n, e, d)
      PROVE  LockedByOneLease'
  <2>1. inflight[n] # 0 /\ Retire(n, now, d)
    BY <1>4 DEF Nack, Holds
  <2>2. now \in Nat /\ d \in Nat
    BY SlotAssumption DEF TypeInv, TypeOK
  <2> QED BY <2>1, <2>2, RetireLock
<1>5. ASSUME NEW n \in delayed, ReleaseDelayed(n)
      PROVE  LockedByOneLease'
  <2>1. MsgsKept /\ SameLocks
    BY <1>5, ReleaseDelayedType
  <2>2. UNCHANGED inflight
    BY <1>5 DEF ReleaseDelayed
  <2> QED BY <2>1, <2>2, SameLocksKeep
<1>6. ASSUME NEW e \in timers, SweepLease(e)
      PROVE  LockedByOneLease'
  <2>1. CASE UNCHANGED <<msgs, content, inflight, delayed, st>>
    BY <2>1, SameMsgs, SameLocksKeep DEF content, SameLocks
  <2>2. CASE Holds(e.id, e.epoch) /\ Retire(e.id, opNow, 0)
    <3>1. e.id \in Seqs /\ opNow \in Nat
      BY SlotAssumption DEF TypeInv, TypeOK, Timer
    <3> QED BY <2>2, <3>1, RetireLock DEF Holds
  <2> QED BY <1>6, <2>1, <2>2 DEF SweepLease
<1>7. ASSUME NEW g \in todo, SweepTTL(g)
      PROVE  LockedByOneLease'
  <2>1. SameLocks
    BY <1>7, SweepTTLType
  <2>2. UNCHANGED <<inflight, msgs>>
    BY <1>7 DEF SweepTTL
  <2> QED BY <2>1, <2>2, SameMsgs, SameLocksKeep
<1>8. CASE Drain
  BY <1>8, DrainType DEF LockedByOneLease
<1>9. ASSUME NEW g \in Groups, AbsorbGroup(g)
      PROVE  LockedByOneLease'
  <2>1. SameLocks
    BY <1>9, AbsorbGroupType
  <2>2. UNCHANGED <<inflight, msgs>>
    BY <1>9 DEF AbsorbGroup
  <2> QED BY <2>1, <2>2, SameMsgs, SameLocksKeep
<1>10. CASE \/ BeginSweep \/ ReleaseDone \/ LeasesDone \/ SweepDone \/ BeginAbsorb
            \/ AbsorbDone \/ Tick \/ UNCHANGED vars
  <2>1. UNCHANGED <<grp, inflight, msgs>>
    BY <1>10, LoopType, AbsorbDoneType DEF Tick, content, vars
  <2> QED BY <2>1, SameMsgs, SameLocksKeep DEF SameLocks
<1> QED BY <1>1, <1>2, <1>3, <1>4, <1>5, <1>6, <1>7, <1>8, <1>9, <1>10, TakeLock DEF Next

(* A slot never has two messages of a group out at once, and a group is    *)
(* locked exactly while it has one out: whatever the interleaving of takes,*)
(* answers, sweeps, drains and absorbs, for any number of groups,          *)
(* priorities and messages.                                                *)
THEOREM LockSafety == Spec => []LockedByOneLease
<1>1. Init => LockInv
  BY InitLock
<1>2. LockInv /\ [Next]_vars => LockInv'
  BY NextLock
<1>3. LockInv => LockedByOneLease
  BY DEF LockInv
<1> QED BY <1>1, <1>2, <1>3, PTL DEF Spec

-----------------------------------------------------------------------------
(* Lists without repetition *)

Once(s) == \A i, j \in DOMAIN s : s[i] = s[j] => i = j
Els(s)  == {s[i] : i \in DOMAIN s}

LEMMA AppendOnce ==
  ASSUME NEW S, NEW s \in Seq(S), NEW n \in S, n \notin Els(s), Once(s)
  PROVE  Once(Append(s, n)) /\ Els(Append(s, n)) = Els(s) \cup {n}
<1> DEFINE m == Append(s, n)
<1>1. /\ DOMAIN m = 1..(Len(s) + 1) /\ m[Len(s) + 1] = n
      /\ \A i \in 1..Len(s) : m[i] = s[i]
      /\ DOMAIN s = 1..Len(s) /\ Len(s) \in Nat
  OBVIOUS
<1> HIDE DEF m
<1>2. \A i \in DOMAIN m : i \in DOMAIN s \/ i = Len(s) + 1
  BY <1>1
<1>3. \A i \in DOMAIN s : i \in DOMAIN m /\ m[i] = s[i] /\ i # Len(s) + 1
  BY <1>1
<1>4. Len(s) + 1 \in DOMAIN m
  BY <1>1
<1>5. \A i \in DOMAIN s : s[i] # n
  BY DEF Els
<1>6. Once(m)
  BY <1>1, <1>2, <1>3, <1>5 DEF Once
<1>7. Els(m) \subseteq Els(s) \cup {n}
  BY <1>1, <1>2, <1>3 DEF Els
<1>8. Els(s) \cup {n} \subseteq Els(m)
  BY <1>1, <1>3, <1>4 DEF Els
<1> QED BY <1>6, <1>7, <1>8 DEF m

LEMMA ConcatOnce ==
  ASSUME NEW S, NEW l \in Seq(S), NEW s \in Seq(S), Once(l), Once(s), Els(l) \cap Els(s) = {}
  PROVE  Once(l \o s) /\ Els(l \o s) = Els(l) \cup Els(s)
<1> DEFINE m == l \o s
<1>1. /\ DOMAIN m = 1..(Len(l) + Len(s)) /\ DOMAIN l = 1..Len(l) /\ DOMAIN s = 1..Len(s)
      /\ Len(l) \in Nat /\ Len(s) \in Nat
      /\ \A i \in DOMAIN m : m[i] = IF i <= Len(l) THEN l[i] ELSE s[i - Len(l)]
  BY ConcatProperties
<1> HIDE DEF m
<1>2. \A i \in DOMAIN m : \/ i \in DOMAIN l /\ m[i] = l[i]
                          \/ i - Len(l) \in DOMAIN s /\ m[i] = s[i - Len(l)] /\ i > Len(l)
  BY <1>1
<1>3. \A i \in DOMAIN l : i \in DOMAIN m /\ m[i] = l[i]
  BY <1>1
<1>4. \A i \in DOMAIN s : i + Len(l) \in DOMAIN m /\ m[i + Len(l)] = s[i]
  BY <1>1
<1>5. \A i \in DOMAIN l : l[i] \in Els(l)
  BY DEF Els
<1>6. \A i \in DOMAIN s : s[i] \in Els(s)
  BY DEF Els
<1>7. Once(m)
  <2> SUFFICES ASSUME NEW i \in DOMAIN m, NEW j \in DOMAIN m, m[i] = m[j] PROVE i = j
    BY DEF Once
  <2>1. CASE i \in DOMAIN l /\ m[i] = l[i] /\ j \in DOMAIN l /\ m[j] = l[j]
    BY <2>1 DEF Once
  <2>2. CASE /\ i - Len(l) \in DOMAIN s /\ m[i] = s[i - Len(l)]
             /\ j - Len(l) \in DOMAIN s /\ m[j] = s[j - Len(l)]
    <3>1. i - Len(l) = j - Len(l)
      BY <2>2 DEF Once
    <3> QED BY <1>1, <3>1
  <2>3. CASE \/ i \in DOMAIN l /\ m[i] = l[i] /\ j - Len(l) \in DOMAIN s /\ m[j] = s[j - Len(l)]
             \/ j \in DOMAIN l /\ m[j] = l[j] /\ i - Len(l) \in DOMAIN s /\ m[i] = s[i - Len(l)]
    BY <1>5, <1>6, <2>3
  <2> QED BY <1>2, <2>1, <2>2, <2>3
<1>8. Els(m) \subseteq Els(l) \cup Els(s)
  BY <1>2, <1>5, <1>6 DEF Els
<1>9. Els(l) \subseteq Els(m) /\ Els(s) \subseteq Els(m)
  BY <1>3, <1>4 DEF Els
<1> QED BY <1>7, <1>8, <1>9 DEF m

LEMMA SuffixOnce ==
  ASSUME NEW S, NEW s \in Seq(S), NEW k \in 0..Len(s), Once(s),
         NEW m, DOMAIN m = 1..(Len(s) - k), \A i \in 1..(Len(s) - k) : m[i] = s[k + i]
  PROVE  Once(m) /\ Els(m) = Els(s) \ {s[i] : i \in 1..k}
<1>1. DOMAIN s = 1..Len(s) /\ Len(s) \in Nat
  OBVIOUS
<1>2. \A i \in DOMAIN m : k + i \in DOMAIN s /\ k + i > k /\ m[i] = s[k + i]
  BY <1>1
<1>3. Once(m)
  <2> SUFFICES ASSUME NEW i \in DOMAIN m, NEW j \in DOMAIN m, m[i] = m[j] PROVE i = j
    BY DEF Once
  <2>1. k + i = k + j
    BY <1>2 DEF Once
  <2> QED BY <1>1, <2>1
<1>4. Els(m) \subseteq Els(s) \ {s[i] : i \in 1..k}
  <2> SUFFICES ASSUME NEW i \in DOMAIN m
               PROVE  m[i] \in {s[j] : j \in DOMAIN s} /\ m[i] \notin {s[j] : j \in 1..k}
    BY DEF Els
  <2>1. \A j \in 1..k : j \in DOMAIN s /\ j # k + i
    BY <1>1, <1>2
  <2>2. \A j \in 1..k : s[j] # s[k + i]
    BY <1>2, <2>1 DEF Once
  <2> QED BY <1>2, <2>2
<1>5. ASSUME NEW i \in DOMAIN s, s[i] \notin {s[j] : j \in 1..k}
      PROVE  s[i] \in {m[j] : j \in DOMAIN m}
  <2>1. i > k
    BY <1>1, <1>5
  <2>2. i - k \in DOMAIN m /\ m[i - k] = s[i]
    BY <1>1, <2>1
  <2> QED BY <2>2
<1>6. Els(s) \ {s[i] : i \in 1..k} \subseteq Els(m)
  BY <1>5 DEF Els
<1> QED BY <1>3, <1>4, <1>6

-----------------------------------------------------------------------------
(* Sets that messages leave and enter, and the gauges that count them *)

Then(X, S, place, from, to) ==
  IF to = place THEN X \cup S ELSE IF from = place THEN X \ S ELSE X

Delta(place, from, to) == (IF to = place THEN 1 ELSE 0) - (IF from = place THEN 1 ELSE 0)

InBucket(R, ms, b) == {n \in R : bucketOf(ms[n].prio) = b}

(* S comes from X if that is the place, and is not there otherwise. *)
ComesFrom(S, X, place, from) ==
  (from = place => S \subseteq X) /\ (from # place => S \cap X = {})

Exact(s, R, I, D, ms) ==
  /\ \A b \in Buckets : s.ready[b] = Cardinality(InBucket(R, ms, b))
  /\ s.inflight = Cardinality(I)
  /\ s.delayed = Cardinality(D)

LEMMA ThenCard ==
  ASSUME NEW X \in SUBSET Seqs, NEW S \in SUBSET Seqs, NEW place, NEW from, NEW to, from # to,
         ComesFrom(S, X, place, from)
  PROVE  Cardinality(Then(X, S, place, from, to))
           = Cardinality(X) + Delta(place, from, to) * Cardinality(S)
<1>1. /\ IsFiniteSet(X) /\ IsFiniteSet(S) /\ Cardinality(X) \in Nat /\ Cardinality(S) \in Nat
  BY MessageSets
<1>2. CASE to = place
  <2>1. S \cap X = {}
    BY <1>2 DEF ComesFrom
  <2>2. Cardinality(X \cup S) = Cardinality(X) + Cardinality(S)
    <3>1. Cardinality(X \cup S) = Cardinality(X) + Cardinality(S) - Cardinality(X \cap S)
      BY <1>1, FS_Union
    <3>2. X \cap S = {}
      BY <2>1
    <3>3. Cardinality(X \cap S) = 0
      BY <3>2, FS_EmptySet
    <3> QED BY <1>1, <3>1, <3>3
  <2>3. Delta(place, from, to) = 1
    BY <1>2 DEF Delta
  <2> QED BY <1>1, <1>2, <2>2, <2>3 DEF Then
<1>3. CASE to # place /\ from = place
  <2>1. S \subseteq X
    BY <1>3 DEF ComesFrom
  <2>2. Cardinality(X \ S) = Cardinality(X) - Cardinality(S)
    <3>1. Cardinality(X \ S) = Cardinality(X) - Cardinality(X \cap S)
      BY <1>1, FS_Difference
    <3>2. X \cap S = S
      BY <2>1
    <3> QED BY <3>1, <3>2
  <2>3. Delta(place, from, to) = -1
    BY <1>3 DEF Delta
  <2> QED BY <1>1, <1>3, <2>2, <2>3 DEF Then
<1>4. CASE to # place /\ from # place
  <2>1. Delta(place, from, to) = 0
    BY <1>4 DEF Delta
  <2> QED BY <1>1, <1>4, <2>1 DEF Then
<1> QED BY <1>2, <1>3, <1>4

(* Move keeps the gauges right when the messages really go. *)
LEMMA MoveExact ==
  ASSUME NEW s \in Stats, NEW S \in SUBSET Seqs, NEW from, NEW to, from # to,
         NEW R \in SUBSET Seqs, NEW I \in SUBSET Seqs, NEW D \in SUBSET Seqs,
         Exact(s, R, I, D, msgs'),
         ComesFrom(S, R, "ready", from), ComesFrom(S, I, "inflight", from),
         ComesFrom(S, D, "delayed", from)
  PROVE  Exact(Move(s, S, from, to), Then(R, S, "ready", from, to),
               Then(I, S, "inflight", from, to), Then(D, S, "delayed", from, to), msgs')
<1> DEFINE rd == [b \in Buckets |-> s.ready[b]
                     + Delta("ready", from, to) * Cardinality(InBucket(S, msgs', b))]
           z == Move(s, S, from, to)
<1>1. z = [s EXCEPT !.ready = rd,
                    !.inflight = @ + Delta("inflight", from, to) * Cardinality(S),
                    !.delayed  = @ + Delta("delayed", from, to) * Cardinality(S)]
  BY DEF Move, Delta, InBucket
<1>2. /\ z.ready = rd
      /\ z.inflight = s.inflight + Delta("inflight", from, to) * Cardinality(S)
      /\ z.delayed = s.delayed + Delta("delayed", from, to) * Cardinality(S)
  <2> HIDE DEF rd, z
  <2> QED BY <1>1 DEF Stats
<1> HIDE DEF z
<1>3. ASSUME NEW b \in Buckets
      PROVE  z.ready[b] = Cardinality(InBucket(Then(R, S, "ready", from, to), msgs', b))
  <2> DEFINE X == InBucket(R, msgs', b)
             Y == InBucket(S, msgs', b)
  <2>1. X \in SUBSET Seqs /\ Y \in SUBSET Seqs
    BY DEF InBucket
  <2>2. ComesFrom(Y, X, "ready", from)
    BY DEF ComesFrom, InBucket
  <2>3. InBucket(Then(R, S, "ready", from, to), msgs', b) = Then(X, Y, "ready", from, to)
    BY DEF Then, InBucket
  <2>4. z.ready[b] = s.ready[b] + Delta("ready", from, to) * Cardinality(Y)
    BY <1>2
  <2>5. s.ready[b] = Cardinality(X)
    BY DEF Exact
  <2> HIDE DEF X, Y
  <2>6. Cardinality(Then(X, Y, "ready", from, to))
          = Cardinality(X) + Delta("ready", from, to) * Cardinality(Y)
    BY <2>1, <2>2, ThenCard
  <2> QED BY <2>3, <2>4, <2>5, <2>6
<1>4. /\ Cardinality(Then(I, S, "inflight", from, to))
           = Cardinality(I) + Delta("inflight", from, to) * Cardinality(S)
      /\ Cardinality(Then(D, S, "delayed", from, to))
           = Cardinality(D) + Delta("delayed", from, to) * Cardinality(S)
  BY ThenCard
<1>5. s.inflight = Cardinality(I) /\ s.delayed = Cardinality(D)
  BY DEF Exact
<1> HIDE DEF rd
<1>6. /\ z.inflight = Cardinality(Then(I, S, "inflight", from, to))
      /\ z.delayed = Cardinality(Then(D, S, "delayed", from, to))
  BY <1>2, <1>4, <1>5
<1> QED BY <1>3, <1>6 DEF Exact, z

-----------------------------------------------------------------------------
(* A message is in one place.  The gauges and totals are changed by what   *)
(* an operation believes it moves, so that they are right rests on every   *)
(* message being where the operation takes it from, and only there.        *)

Lists == \A g \in Groups : Once(grp[g].msgs)

Apart ==
  /\ Ready \cap InFlight = {} /\ Ready \cap delayed = {} /\ InFlight \cap delayed = {}
  /\ Ready \cap away = {} /\ InFlight \cap away = {} /\ delayed \cap away = {}

Total(s) == s.acked + s.expired + s.deadLettered

Counted == Len(msgs) = Cardinality(Present \cup away) + Total(st)

PlaceInv == LockInv /\ Lists /\ Apart /\ GaugesExact /\ Counted

PriosKept == \A n \in 1..Len(msgs) : msgs'[n].prio = msgs[n].prio

(* The messages of S go from one place to another. *)
Shift(S, from, to) ==
  /\ Ready'    = Then(Ready, S, "ready", from, to)
  /\ InFlight' = Then(InFlight, S, "inflight", from, to)
  /\ delayed'  = Then(delayed, S, "delayed", from, to)
  /\ away'     = Then(away, S, "away", from, to)

AllFrom(S, from) ==
  /\ ComesFrom(S, Ready, "ready", from) /\ ComesFrom(S, InFlight, "inflight", from)
  /\ ComesFrom(S, delayed, "delayed", from) /\ ComesFrom(S, away, "away", from)

(* No list changes; or only that of g, which becomes s. *)
Quiet        == \A h \in Groups : grp'[h].msgs = grp[h].msgs
NowHas(g, s) == grp'[g].msgs = s /\ \A h \in Groups \ {g} : grp'[h].msgs = grp[h].msgs

(* What a step does to the places and the lists: nothing, *)
Rests ==
  /\ MsgsKept /\ Len(msgs') = Len(msgs) /\ Quiet
  /\ Ready' = Ready /\ InFlight' = InFlight /\ UNCHANGED <<delayed, away>>

(* n is enqueued, *)
Comes(n) ==
  /\ MsgsKept /\ n = Len(msgs) + 1 /\ Len(msgs') = n
  /\ \/ Shift({n}, "absent", "delayed") /\ Quiet
     \/ /\ Shift({n}, "absent", "ready")
        /\ NowHas(msgs'[n].group, Append(grp[msgs'[n].group].msgs, n))

(* its delay is over, *)
IsReleased(n) ==
  /\ MsgsKept /\ Len(msgs') = Len(msgs) /\ holder = "release" /\ n \in delayed
  /\ Shift({n}, "delayed", "ready")
  /\ NowHas(msgs[n].group, Append(grp[msgs[n].group].msgs, n))

(* it is leased, and the k before it have expired, *)
IsLeased(g, k, n) ==
  /\ MsgsKept /\ Len(msgs') = Len(msgs) /\ ~grp[g].locked
  /\ k \in Nat /\ k + 1 \in 0..Len(grp[g].msgs)
  /\ Dropped(g, k + 1) = Dropped(g, k) \cup {n} /\ n \notin Dropped(g, k)
  /\ NowHas(g, After(g, k + 1))
  /\ Ready' = Ready \ Dropped(g, k + 1) /\ InFlight' = InFlight \cup {n}
  /\ UNCHANGED <<delayed, away>>

(* the first k of a group have expired, *)
IsCut(g, k) ==
  /\ MsgsKept /\ Len(msgs') = Len(msgs)
  /\ k \in 0..Len(grp[g].msgs) /\ NowHas(g, After(g, k))
  /\ Shift(Dropped(g, k), "ready", "absent")

(* its lease ends, *)
IsRetired(n) ==
  /\ MsgsKept /\ Len(msgs') = Len(msgs) /\ n \in InFlight
  /\ \/ Shift({n}, "inflight", "absent") /\ Quiet
     \/ Shift({n}, "inflight", "delayed") /\ Quiet
     \/ /\ Shift({n}, "inflight", "ready")
        /\ NowHas(msgs[n].group, <<n>> \o grp[msgs[n].group].msgs)

(* everything is drained, *)
IsDrained ==
  /\ MsgsKept /\ Len(msgs') = Len(msgs)
  /\ \A g \in Groups : grp'[g].msgs = <<>>
  /\ Ready' = {} /\ InFlight' = {} /\ delayed' = {} /\ away' = away \cup Present

(* or what is away comes in, for a group or to be held. *)
IsAbsorbed(g, list) ==
  /\ MsgsKept /\ Len(msgs') = Len(msgs) /\ holder = "absorb"
  /\ list \in InSeqOrder(Arriving(g, opNow)) /\ Arriving(g, opNow) # {}
  /\ Shift(Arriving(g, opNow), "away", "ready")
  /\ NowHas(g, list \o grp[g].msgs)

IsHeld ==
  /\ MsgsKept /\ Len(msgs') = Len(msgs) /\ holder = "absorb" /\ Quiet
  /\ Shift(away, "away", "delayed")

(* The gauges after a step are those of s. *)
SameGauges(s, t) == s.ready = t.ready /\ s.inflight = t.inflight /\ s.delayed = t.delayed

LEMMA PlacesIn ==
  ASSUME TypeInv
  PROVE  /\ Ready \in SUBSET (1..Len(msgs)) /\ InFlight \in SUBSET (1..Len(msgs))
         /\ delayed \in SUBSET (1..Len(msgs)) /\ away \in SUBSET (1..Len(msgs))
         /\ 1..Len(msgs) \subseteq Seqs /\ Len(msgs) \in Nat
<1>1. \A g \in Groups : \A i \in DOMAIN grp[g].msgs : grp[g].msgs[i] \in 1..Len(msgs)
  BY DEF TypeInv, ContentInv, OwnList
<1>2. \A g \in Groups : Queued(g) \subseteq 1..Len(msgs)
  BY <1>1, Zenon DEF Queued
<1>3. Ready \in SUBSET (1..Len(msgs))
  BY <1>2 DEF Ready
<1>4. 1..Len(msgs) \subseteq Seqs /\ Len(msgs) \in Nat
  BY SlotAssumption DEF TypeInv, TypeOK, Seqs
<1> QED BY <1>3, <1>4 DEF TypeInv, TypeOK

PlacesThere ==
  /\ Ready \in SUBSET (1..Len(msgs)) /\ InFlight \in SUBSET (1..Len(msgs))
  /\ delayed \in SUBSET (1..Len(msgs)) /\ away \in SUBSET (1..Len(msgs))
  /\ 1..Len(msgs) \subseteq Seqs /\ Len(msgs) \in Nat

LEMMA PlacesNow == TypeInv => PlacesThere
BY PlacesIn DEF PlacesThere

LEMMA PlacesNext == TypeInv' => PlacesThere'
BY PlacesNow, PTL

LEMMA OwnQueue ==
  ASSUME TypeInv, NEW g \in Groups, NEW n \in Queued(g)
  PROVE  n \in 1..Len(msgs) /\ msgs[n].group = g
BY DEF TypeInv, ContentInv, OwnList, Queued

(* Groups have different messages. *)
LEMMA ListChanges ==
  ASSUME TypeInv, MsgsKept, Lists, NEW g \in Groups,
         \A h \in Groups \ {g} : grp'[h].msgs = grp[h].msgs,
         NEW D \in SUBSET Queued(g), NEW A,
         Once(grp'[g].msgs), Els(grp'[g].msgs) = (Queued(g) \ D) \cup A
  PROVE  Lists' /\ Ready' = (Ready \ D) \cup A
<1>1. Lists'
  BY DEF Lists
<1>2. Queued(g)' = (Queued(g) \ D) \cup A
  BY DEF Queued, Els
<1>3. \A h \in Groups \ {g} : Queued(h)' = Queued(h)
  BY DEF Queued
<1>4. \A h \in Groups \ {g} : Queued(h) \cap D = {}
  BY OwnQueue
<1>5. Ready' \subseteq (Ready \ D) \cup A
  <2> SUFFICES ASSUME NEW h \in Groups, NEW x \in Queued(h)' PROVE x \in (Ready \ D) \cup A
    BY DEF Ready
  <2>1. CASE h = g
    BY <1>2, <2>1 DEF Ready
  <2>2. CASE h # g
    BY <1>3, <1>4, <2>2 DEF Ready
  <2> QED BY <2>1, <2>2
<1>6. A \subseteq Ready'
  BY <1>2 DEF Ready
<1>7. Ready \ D \subseteq Ready'
  <2> SUFFICES ASSUME NEW h \in Groups, NEW x \in Queued(h), x \notin D PROVE x \in Ready'
    BY DEF Ready
  <2>1. CASE h = g
    BY <1>2, <2>1 DEF Ready
  <2>2. CASE h # g
    BY <1>3, <2>2 DEF Ready
  <2> QED BY <2>1, <2>2
<1> QED BY <1>1, <1>5, <1>6, <1>7

LEMMA SameLists ==
  ASSUME \A h \in Groups : grp'[h].msgs = grp[h].msgs, Lists
  PROVE  Lists' /\ Ready' = Ready
<1>1. \A h \in Groups : Queued(h)' = Queued(h)
  BY DEF Queued
<1> QED BY <1>1 DEF Lists, Ready

LEMMA LeaseOver ==
  ASSUME TypeInv, NEW n \in Seqs, inflight[n] # 0, inflight' = [inflight EXCEPT ![n] = 0]
  PROVE  n \in InFlight /\ InFlight' = InFlight \ {n}
BY DEF InFlight, TypeInv, TypeOK

LEMMA LeaseOn ==
  ASSUME TypeInv, NEW n \in Seqs, NEW e, e # 0, inflight' = [inflight EXCEPT ![n] = e]
  PROVE  InFlight' = InFlight \cup {n}
BY DEF InFlight, TypeInv, TypeOK

LEMMA GaugesAre == GaugesExact <=> Exact(st, Ready, InFlight, delayed, msgs)
BY DEF GaugesExact, Exact, InBucket

(* Priorities never change, so the buckets do not either. *)
LEMMA ExactStays ==
  ASSUME TypeInv, PriosKept, GaugesExact
  PROVE  Exact(st, Ready, InFlight, delayed, msgs')
<1>1. \A b \in Buckets : InBucket(Ready, msgs', b) = InBucket(Ready, msgs, b)
  BY PlacesIn DEF InBucket, PriosKept
<1> QED BY <1>1, GaugesAre DEF Exact

LEMMA ThenApart ==
  ASSUME NEW X, NEW Y, NEW S, NEW px, NEW py, NEW from, NEW to, px # py, from # to,
         X \cap Y = {}, ComesFrom(S, X, px, from), ComesFrom(S, Y, py, from)
  PROVE  Then(X, S, px, from, to) \cap Then(Y, S, py, from, to) = {}
BY DEF Then, ComesFrom

LEMMA ShiftApart ==
  ASSUME Apart, NEW S, NEW from, NEW to, from # to, Shift(S, from, to), AllFrom(S, from)
  PROVE  Apart'
<1>1. /\ "ready" # "inflight" /\ "ready" # "delayed" /\ "ready" # "away"
      /\ "inflight" # "delayed" /\ "inflight" # "away" /\ "delayed" # "away"
  OBVIOUS
<1> QED BY <1>1, ThenApart DEF Apart, Shift, AllFrom

Places == {"ready", "inflight", "delayed", "away"}

(* What is there after a step. *)
LEMMA ShiftHeld ==
  ASSUME NEW S, NEW from, NEW to, from # to, Shift(S, from, to), AllFrom(S, from)
  PROVE  /\ from \in Places /\ to \in Places => (Present \cup away)' = Present \cup away
         /\ from \in Places /\ to \notin Places
              => (Present \cup away)' = (Present \cup away) \ S /\ S \subseteq Present \cup away
         /\ from \notin Places /\ to \in Places
              => /\ (Present \cup away)' = (Present \cup away) \cup S
                 /\ S \cap (Present \cup away) = {}
BY DEF Places, Present, Shift, AllFrom, Then, ComesFrom

(* The counts after messages came, went for good, or only changed places. *)
LEMMA ShiftCounted ==
  ASSUME TypeInv, TypeInv', Counted, NEW S \in SUBSET Seqs, NEW from, NEW to, from # to,
         Shift(S, from, to), AllFrom(S, from),
         \/ /\ from \in Places /\ to \in Places
            /\ Len(msgs') = Len(msgs) /\ Total(st') = Total(st)
         \/ /\ from \in Places /\ to \notin Places
            /\ Len(msgs') = Len(msgs) /\ Total(st') = Total(st) + Cardinality(S)
         \/ /\ from \notin Places /\ to \in Places
            /\ Len(msgs') = Len(msgs) + Cardinality(S) /\ Total(st') = Total(st)
  PROVE  Counted'
<1> DEFINE H == Present \cup away
<1>1. H \in SUBSET Seqs
  BY PlacesIn DEF Present
<1>2. /\ IsFiniteSet(H) /\ Cardinality(H) \in Nat
      /\ IsFiniteSet(S) /\ Cardinality(S) \in Nat
  BY <1>1, MessageSets
<1>3. Total(st) \in Nat /\ Total(st') \in Nat /\ Len(msgs) \in Nat /\ Len(msgs') \in Nat
  <2>1. Len(msgs) \in Nat /\ Len(msgs') \in Nat
    BY PlacesIn, PlacesNext DEF PlacesThere
  <2>2. st \in Stats /\ st' \in Stats
    BY DEF TypeInv, TypeOK
  <2>3. \A s \in Stats : Total(s) \in Nat
    BY DEF Stats, Total
  <2> QED BY <2>1, <2>2, <2>3
<1>4. Len(msgs) = Cardinality(H) + Total(st)
  BY DEF Counted
<1>5. SUFFICES Len(msgs') = Cardinality(H') + Total(st')
  BY DEF Counted, Total
<1>6. /\ from \in Places /\ to \in Places => H' = H
      /\ from \in Places /\ to \notin Places => H' = H \ S /\ S \subseteq H
      /\ from \notin Places /\ to \in Places => H' = H \cup S /\ S \cap H = {}
  BY ShiftHeld
<1> HIDE DEF H
<1>7. S \subseteq H => Cardinality(H \ S) = Cardinality(H) - Cardinality(S)
  <2> SUFFICES ASSUME S \subseteq H PROVE Cardinality(H \ S) = Cardinality(H) - Cardinality(S)
    OBVIOUS
  <2>1. Cardinality(H \ S) = Cardinality(H) - Cardinality(H \cap S)
    BY <1>2, FS_Difference
  <2>2. H \cap S = S
    OBVIOUS
  <2> QED BY <2>1, <2>2
<1>8. S \cap H = {} => Cardinality(H \cup S) = Cardinality(H) + Cardinality(S)
  <2> SUFFICES ASSUME S \cap H = {} PROVE Cardinality(H \cup S) = Cardinality(H) + Cardinality(S)
    OBVIOUS
  <2>1. Cardinality(H \cup S) = Cardinality(H) + Cardinality(S) - Cardinality(H \cap S)
    BY <1>2, FS_Union
  <2>2. H \cap S = {}
    OBVIOUS
  <2>3. Cardinality(H \cap S) = 0
    BY <2>2, FS_EmptySet
  <2> QED BY <1>2, <2>1, <2>3
<1>9. CASE from \in Places /\ to \in Places
  BY <1>2, <1>3, <1>4, <1>6, <1>9
<1>10. CASE from \in Places /\ to \notin Places
  <2>1. Len(msgs') = Len(msgs) /\ Total(st') = Total(st) + Cardinality(S)
    BY <1>10
  <2>2. Cardinality(H') = Cardinality(H) - Cardinality(S)
    BY <1>6, <1>7, <1>10
  <2> QED BY ONLY <1>2, <1>3, <1>4, <2>1, <2>2
<1>11. CASE from \notin Places /\ to \in Places
  <2>1. Len(msgs') = Len(msgs) + Cardinality(S) /\ Total(st') = Total(st)
    BY <1>11
  <2>2. Cardinality(H') = Cardinality(H) + Cardinality(S)
    BY <1>6, <1>8, <1>11
  <2> QED BY ONLY <1>2, <1>3, <1>4, <2>1, <2>2
<1> QED BY <1>9, <1>10, <1>11

PlacesOK == Lists /\ Apart /\ GaugesExact /\ Counted

(* A step whose gauges and totals say what it did keeps them right. *)
LEMMA ShiftKeeps ==
  ASSUME PlaceInv, TypeInv', Lists', PriosKept,
         NEW S \in SUBSET Seqs, NEW from, NEW to, from # to,
         Shift(S, from, to), AllFrom(S, from),
         SameGauges(st', Move(st, S, from, to)),
         \/ /\ from \in Places /\ to \in Places
            /\ Len(msgs') = Len(msgs) /\ Total(st') = Total(st)
         \/ /\ from \in Places /\ to \notin Places
            /\ Len(msgs') = Len(msgs) /\ Total(st') = Total(st) + Cardinality(S)
         \/ /\ from \notin Places /\ to \in Places
            /\ Len(msgs') = Len(msgs) + Cardinality(S) /\ Total(st') = Total(st)
  PROVE  PlacesOK'
<1>1. TypeInv /\ Apart /\ GaugesExact /\ Counted
  BY DEF PlaceInv, LockInv
<1>2. Apart'
  BY <1>1, ShiftApart
<1>3. Counted'
  BY <1>1, ShiftCounted
<1>4. Exact(st, Ready, InFlight, delayed, msgs') /\ st \in Stats
  BY <1>1, ExactStays DEF TypeInv, TypeOK
<1>5. /\ ComesFrom(S, Ready, "ready", from) /\ ComesFrom(S, InFlight, "inflight", from)
      /\ ComesFrom(S, delayed, "delayed", from)
  BY DEF AllFrom
<1>6. Ready \in SUBSET Seqs /\ InFlight \in SUBSET Seqs /\ delayed \in SUBSET Seqs
  BY <1>1, PlacesIn
<1>7. Exact(Move(st, S, from, to), Then(Ready, S, "ready", from, to),
            Then(InFlight, S, "inflight", from, to), Then(delayed, S, "delayed", from, to), msgs')
  BY <1>4, <1>5, <1>6, MoveExact
<1>8. Exact(st', Ready', InFlight', delayed', msgs')
  BY <1>7 DEF Exact, SameGauges, Shift
<1>9. GaugesExact'
  BY <1>8 DEF GaugesExact, Exact, InBucket
<1> QED BY <1>2, <1>3, <1>9 DEF PlacesOK

LEMMA SamePlaces ==
  ASSUME PlaceInv, \A h \in Groups : grp'[h].msgs = grp[h].msgs,
         UNCHANGED <<msgs, inflight, delayed, away, st>>
  PROVE  PlacesOK' /\ Rests
<1>1. Lists' /\ Ready' = Ready
  BY SameLists DEF PlaceInv
<1>2. InFlight' = InFlight /\ Present' = Present
  BY <1>1 DEF InFlight, Present
<1>3. Apart' /\ GaugesExact' /\ Counted'
  BY <1>1, <1>2 DEF PlaceInv, Apart, GaugesExact, Counted
<1>4. MsgsKept
  BY SameMsgs DEF PlaceInv, LockInv
<1>5. Rests
  BY <1>1, <1>2, <1>4 DEF Rests, Quiet
<1> QED BY <1>1, <1>3, <1>5 DEF PlacesOK

LEMMA MoveTotal ==
  ASSUME NEW s \in Stats, NEW S \in SUBSET Seqs, NEW from, NEW to
  PROVE  Total(Move(s, S, from, to)) = Total(s)
BY MoveType DEF Total

(* One more acknowledged, expired or dead-lettered. *)
LEMMA OneMore ==
  ASSUME NEW s \in Stats, NEW t,
         \/ t = [s EXCEPT !.acked = @ + 1]
         \/ t = [s EXCEPT !.expired = @ + 1]
         \/ t = [s EXCEPT !.deadLettered = @ + 1]
  PROVE  SameGauges(t, s) /\ Total(t) = Total(s) + 1
BY DEF Stats, Total, SameGauges

LEMMA ExpireIs ==
  ASSUME NEW s \in Stats, NEW S \in SUBSET Seqs
  PROVE  /\ Expire(s, S) \in Stats
         /\ SameGauges(Expire(s, S), Move(s, S, "ready", "absent"))
         /\ Total(Expire(s, S)) = Total(s) + Cardinality(S)
<1> DEFINE m == Move(s, S, "ready", "absent")
<1>1. m \in Stats /\ Total(m) = Total(s)
  BY MoveType, MoveTotal
<1>2. Expire(s, S) = [m EXCEPT !.expired = @ + Cardinality(S)]
  BY DEF Expire
<1>3. Cardinality(S) \in Nat
  BY MessageSets
<1> HIDE DEF m
<1>4. SameGauges(Expire(s, S), m) /\ Total(Expire(s, S)) = Total(m) + Cardinality(S)
  BY <1>1, <1>2, <1>3 DEF Stats, Total, SameGauges
<1> QED BY <1>1, <1>4, ExpireType DEF m

LEMMA ChangedPrio ==
  ASSUME TypeInv, NEW n \in 1..Len(msgs), NEW m, m.prio = msgs[n].prio,
         msgs' = [msgs EXCEPT ![n] = m]
  PROVE  PriosKept
<1>1. msgs \in Seq(Message) /\ DOMAIN msgs = 1..Len(msgs)
  BY DEF TypeInv, TypeOK
<1> QED BY <1>1 DEF PriosKept

LEMMA AdmitPlaces ==
  ASSUME TypeInv, MsgsKept, Lists, NEW n \in 1..Len(msgs'), n \notin Ready, Admit(n)
  PROVE  /\ Lists' /\ Ready' = Ready \cup {n}
         /\ NowHas(msgs'[n].group, Append(grp[msgs'[n].group].msgs, n))
<1> DEFINE g == msgs'[n].group
           r == [grp[g] EXCEPT !.msgs = Append(@, n)]
<1>1. g \in Groups /\ Became(g, r)
  BY AdmitType DEF TypeInv, TypeOK
<1> HIDE DEF g
<1>2. grp[g] \in Group /\ grp[g].msgs \in Seq(Seqs) /\ n \in Seqs
  BY <1>1, SlotAssumption DEF TypeInv, ContentInv, Group, MsgsKept, MsgsOK, Seqs
<1>3. r.msgs = Append(grp[g].msgs, n)
  BY <1>2 DEF Group
<1> HIDE DEF r
<1>4. Queued(g) = Els(grp[g].msgs) /\ Once(grp[g].msgs)
  BY <1>1 DEF Queued, Els, Lists
<1>5. n \notin Els(grp[g].msgs)
  BY <1>1, <1>4 DEF Ready
<1>6. Once(r.msgs) /\ Els(r.msgs) = (Queued(g) \ {}) \cup {n}
  BY <1>2, <1>3, <1>4, <1>5, AppendOnce
<1>7. /\ grp'[g].msgs = r.msgs
      /\ \A h \in Groups \ {g} : grp'[h].msgs = grp[h].msgs
  BY <1>1 DEF Became
<1>8. Lists' /\ Ready' = (Ready \ {}) \cup {n}
  <2>1. /\ {} \in SUBSET Queued(g) /\ Once(grp'[g].msgs)
        /\ Els(grp'[g].msgs) = (Queued(g) \ {}) \cup {n}
    BY <1>6, <1>7
  <2>2. Lists' /\ Ready' = (Ready \ {}) \cup {n}
    BY ONLY TypeInv, MsgsKept, Lists, <1>1, <1>7, <2>1, ListChanges
  <2> QED BY ONLY <2>2
<1>9. NowHas(g, Append(grp[g].msgs, n))
  BY <1>3, <1>7 DEF NowHas
<1> QED BY <1>8, <1>9 DEF g

LEMMA UnlockPlaces ==
  ASSUME TypeInv, MsgsKept, Lists, NEW g \in Groups, NEW r \in Group,
         OwnList(g, r.msgs, msgs'), Unlock(g, r), Once(r.msgs), NEW A,
         Els(r.msgs) = Queued(g) \cup A
  PROVE  Lists' /\ Ready' = Ready \cup A /\ NowHas(g, r.msgs)
<1> DEFINE u == [r EXCEPT !.locked = FALSE]
<1>1. Became(g, u) /\ u.msgs = r.msgs
  BY UnlockType DEF TypeInv, TypeOK, Group
<1> HIDE DEF u
<1>2. /\ grp'[g].msgs = r.msgs
      /\ \A h \in Groups \ {g} : grp'[h].msgs = grp[h].msgs
  BY <1>1 DEF Became
<1>3. Lists' /\ Ready' = (Ready \ {}) \cup A
  <2>1. /\ {} \in SUBSET Queued(g) /\ Once(grp'[g].msgs)
        /\ Els(grp'[g].msgs) = (Queued(g) \ {}) \cup A
    BY <1>2
  <2> QED BY <1>2, <2>1, ListChanges
<1>4. NowHas(g, r.msgs)
  BY <1>2 DEF NowHas
<1> QED BY <1>3, <1>4

LEMMA EnqueuePlaces ==
  ASSUME PlaceInv, TypeInv', NEW p \in Priorities, NEW g \in Groups, NEW ttl \in TTLs,
         NEW delay \in Delays, Enqueue(p, g, ttl, delay)
  PROVE  PlacesOK' /\ Comes(Len(msgs) + 1)
<1> DEFINE n == Len(msgs) + 1
<1>1. TypeInv /\ Lists
  BY DEF PlaceInv, LockInv
<1>2. MsgsKept
  BY <1>1, EnqueueType
<1>3. Len(msgs') = n /\ PriosKept /\ n \in 1..Len(msgs')
  <2>1. PICK m : msgs' = Append(msgs, m)
    BY DEF Enqueue
  <2>2. msgs \in Seq(Message) /\ Len(msgs) \in Nat
    BY <1>1 DEF TypeInv, TypeOK
  <2>3. msgs' \in Seq(Message)
    BY DEF TypeInv, TypeOK
  <2> QED BY <2>1, <2>2, <2>3 DEF PriosKept
<1>4. n \in Seqs /\ {n} \in SUBSET Seqs /\ Cardinality({n}) = 1 /\ n \notin 1..Len(msgs)
  <2>1. n \in Seqs
    BY <1>3, PlacesNext DEF PlacesThere
  <2>2. Cardinality({n}) = 1
    BY FS_Singleton
  <2>3. Len(msgs) \in Nat
    BY <1>1, PlacesIn
  <2> QED BY <2>1, <2>2, <2>3
<1>5. n \notin Ready /\ n \notin InFlight /\ n \notin delayed /\ n \notin away
  BY <1>1, <1>4, PlacesIn
<1>6. AllFrom({n}, "absent")
  BY <1>5 DEF AllFrom, ComesFrom
<1>7. InFlight' = InFlight /\ away' = away
  BY DEF Enqueue, InFlight
<1>8. st \in Stats
  BY <1>1 DEF TypeInv, TypeOK
<1>9. "absent" \notin Places /\ "ready" \in Places /\ "delayed" \in Places
  BY DEF Places
<1>10. CASE delay > 0
  <2>1. /\ delayed' = delayed \cup {n} /\ UNCHANGED content
        /\ st' = Move(st, {n}, "absent", "delayed")
    BY <1>10, SlotAssumption DEF Enqueue
  <2>2. Lists' /\ Ready' = Ready /\ Quiet
    BY <1>1, <2>1, SameLists DEF content, Quiet
  <2> HIDE DEF n
  <2>3. Shift({n}, "absent", "delayed")
    BY <1>7, <2>1, <2>2 DEF Shift, Then
  <2>4. SameGauges(st', Move(st, {n}, "absent", "delayed")) /\ Total(st') = Total(st)
    BY <1>4, <1>8, <2>1, MoveTotal DEF SameGauges
  <2>5. Comes(n)
    BY <1>2, <1>3, <2>2, <2>3 DEF Comes, n
  <2>6. PlacesOK'
    BY <1>3, <1>4, <1>6, <1>9, <2>2, <2>3, <2>4, ShiftKeeps DEF n
  <2> QED BY <2>5, <2>6 DEF n
<1>11. CASE delay = 0
  <2>1. Admit(n) /\ UNCHANGED delayed /\ st' = Move(st, {n}, "absent", "ready")
    BY <1>11, SlotAssumption DEF Enqueue
  <2> HIDE DEF n
  <2>2. /\ Lists' /\ Ready' = Ready \cup {n}
        /\ NowHas(msgs'[n].group, Append(grp[msgs'[n].group].msgs, n))
    BY <1>1, <1>2, <1>3, <1>5, <2>1, AdmitPlaces
  <2>3. Shift({n}, "absent", "ready")
    BY <1>7, <2>1, <2>2 DEF Shift, Then
  <2>4. SameGauges(st', Move(st, {n}, "absent", "ready")) /\ Total(st') = Total(st)
    BY <1>4, <1>8, <2>1, MoveTotal DEF SameGauges
  <2>5. Comes(n)
    BY <1>2, <1>3, <2>2, <2>3 DEF Comes, n
  <2>6. PlacesOK'
    BY <1>3, <1>4, <1>6, <1>9, <2>2, <2>3, <2>4, ShiftKeeps DEF n
  <2> QED BY <2>5, <2>6 DEF n
<1> QED BY <1>10, <1>11 DEF Enqueue

LEMMA ReleasePlaces ==
  ASSUME PlaceInv, TypeInv', NEW n \in delayed, ReleaseDelayed(n)
  PROVE  PlacesOK' /\ IsReleased(n)
<1>1. TypeInv /\ Lists /\ Apart
  BY DEF PlaceInv, LockInv
<1>2. MsgsKept
  BY <1>1, ReleaseDelayedType
<1>3. n \in 1..Len(msgs) /\ n \in Seqs /\ {n} \in SUBSET Seqs
  BY <1>1, PlacesIn
<1>4. Len(msgs') = Len(msgs) /\ PriosKept
  <2> DEFINE m == [msgs[n] EXCEPT !.deliverAfter = 0]
  <2>1. msgs[n] \in Message
    BY <1>1, <1>3, ElementOfSeq DEF TypeInv, TypeOK
  <2>2. m \in Message /\ m.group = msgs[n].group /\ m.prio = msgs[n].prio
    BY <2>1 DEF Message
  <2>3. msgs' = [msgs EXCEPT ![n] = m]
    BY DEF ReleaseDelayed
  <2> HIDE DEF m
  <2> QED BY <1>1, <1>3, <2>2, <2>3, ChangedMsg, ChangedPrio
<1>5. /\ Admit(n) /\ delayed' = delayed \ {n} /\ away' = away /\ InFlight' = InFlight
      /\ st' = Move(st, {n}, "delayed", "ready")
  BY DEF ReleaseDelayed, InFlight
<1>6. n \notin Ready /\ n \notin InFlight /\ n \notin away
  BY <1>1 DEF Apart
<1>7. AllFrom({n}, "delayed")
  BY <1>6 DEF AllFrom, ComesFrom
<1>8. /\ Lists' /\ Ready' = Ready \cup {n}
      /\ NowHas(msgs'[n].group, Append(grp[msgs'[n].group].msgs, n))
  BY <1>1, <1>2, <1>3, <1>4, <1>5, <1>6, AdmitPlaces
<1>9. Shift({n}, "delayed", "ready")
  BY <1>5, <1>8 DEF Shift, Then
<1>10. SameGauges(st', Move(st, {n}, "delayed", "ready")) /\ Total(st') = Total(st)
  BY <1>1, <1>3, <1>5, MoveTotal DEF SameGauges, TypeInv, TypeOK
<1>11. "delayed" \in Places /\ "ready" \in Places
  BY DEF Places
<1>12. IsReleased(n)
  <2>1. msgs'[n].group = msgs[n].group
    BY <1>2, <1>3 DEF MsgsKept
  <2>2. holder = "release" /\ NowHas(msgs[n].group, Append(grp[msgs[n].group].msgs, n))
    BY <1>8, <2>1 DEF ReleaseDelayed
  <2> QED BY <1>2, <1>4, <1>9, <2>2 DEF IsReleased
<1>13. PlacesOK'
  BY <1>3, <1>4, <1>7, <1>8, <1>9, <1>10, <1>11, ShiftKeeps
<1> QED BY <1>12, <1>13

LEMMA LeasePlaces ==
  ASSUME PlaceInv, NEW n \in Seqs, inflight[n] # 0, inflight' = [inflight EXCEPT ![n] = 0]
  PROVE  /\ TypeInv /\ Lists /\ n \in 1..Len(msgs) /\ {n} \in SUBSET Seqs
         /\ msgs[n].group \in Groups
         /\ n \in InFlight /\ InFlight' = InFlight \ {n} /\ AllFrom({n}, "inflight")
         /\ n \notin Ready
<1>1. TypeInv /\ Lists /\ Apart
  BY DEF PlaceInv, LockInv
<1>2. n \in InFlight /\ InFlight' = InFlight \ {n}
  BY <1>1, LeaseOver
<1>3. n \in 1..Len(msgs)
  BY <1>1, <1>2, PlacesIn
<1>4. n \notin Ready /\ n \notin delayed /\ n \notin away
  BY <1>1, <1>2 DEF Apart
<1>5. AllFrom({n}, "inflight")
  BY <1>2, <1>4 DEF AllFrom, ComesFrom
<1>6. msgs[n].group \in Groups
  <2>1. msgs[n] \in Message
    BY <1>1, <1>3, ElementOfSeq DEF TypeInv, TypeOK
  <2> QED BY <2>1 DEF Message
<1> QED BY <1>1, <1>2, <1>3, <1>4, <1>5, <1>6

(* The lease on n ends and n is done, held, or ready again. *)
LEMMA LeaseGoes ==
  ASSUME PlaceInv, TypeInv', MsgsKept, PriosKept, Len(msgs') = Len(msgs),
         NEW n \in Seqs, inflight[n] # 0, inflight' = [inflight EXCEPT ![n] = 0],
         UNCHANGED away, Lists',
         \/ /\ Ready' = Ready /\ UNCHANGED delayed /\ Quiet
            /\ \/ st' = [Move(st, {n}, "inflight", "absent") EXCEPT !.acked = @ + 1]
               \/ st' = [Move(st, {n}, "inflight", "absent") EXCEPT !.expired = @ + 1]
               \/ st' = [Move(st, {n}, "inflight", "absent") EXCEPT !.deadLettered = @ + 1]
         \/ /\ Ready' = Ready /\ delayed' = delayed \cup {n} /\ Quiet
            /\ st' = Move(st, {n}, "inflight", "delayed")
         \/ /\ Ready' = Ready \cup {n} /\ UNCHANGED delayed
            /\ NowHas(msgs[n].group, <<n>> \o grp[msgs[n].group].msgs)
            /\ st' = Move(st, {n}, "inflight", "ready")
  PROVE  PlacesOK' /\ IsRetired(n)
<1>1. /\ TypeInv /\ n \in InFlight /\ InFlight' = InFlight \ {n}
      /\ AllFrom({n}, "inflight") /\ {n} \in SUBSET Seqs
  BY LeasePlaces
<1>2. st \in Stats /\ Cardinality({n}) = 1
  BY <1>1, FS_Singleton DEF TypeInv, TypeOK
<1>3. "inflight" \in Places /\ "ready" \in Places /\ "delayed" \in Places /\ "absent" \notin Places
  BY DEF Places
<1>4. CASE /\ Ready' = Ready /\ UNCHANGED delayed /\ Quiet
           /\ \/ st' = [Move(st, {n}, "inflight", "absent") EXCEPT !.acked = @ + 1]
              \/ st' = [Move(st, {n}, "inflight", "absent") EXCEPT !.expired = @ + 1]
              \/ st' = [Move(st, {n}, "inflight", "absent") EXCEPT !.deadLettered = @ + 1]
  <2> DEFINE m == Move(st, {n}, "inflight", "absent")
  <2>1. m \in Stats /\ Total(m) = Total(st)
    BY <1>1, <1>2, MoveType, MoveTotal
  <2>2. SameGauges(st', m) /\ Total(st') = Total(m) + 1
    <3> HIDE DEF m
    <3>1. \/ st' = [m EXCEPT !.acked = @ + 1] \/ st' = [m EXCEPT !.expired = @ + 1]
          \/ st' = [m EXCEPT !.deadLettered = @ + 1]
      BY <1>4 DEF m
    <3> QED BY <2>1, <3>1, OneMore
  <2>3. Shift({n}, "inflight", "absent")
    BY <1>1, <1>4 DEF Shift, Then
  <2>4. SameGauges(st', Move(st, {n}, "inflight", "absent"))
        /\ Total(st') = Total(st) + Cardinality({n})
    BY <1>2, <2>1, <2>2
  <2>5. IsRetired(n)
    BY <1>1, <1>4, <2>3 DEF IsRetired
  <2>6. PlacesOK'
    BY <1>1, <1>3, <2>3, <2>4, ShiftKeeps
  <2> QED BY <2>5, <2>6
<1>5. CASE /\ Ready' = Ready /\ delayed' = delayed \cup {n} /\ Quiet
           /\ st' = Move(st, {n}, "inflight", "delayed")
  <2>1. Shift({n}, "inflight", "delayed")
    BY <1>1, <1>5 DEF Shift, Then
  <2>2. SameGauges(st', Move(st, {n}, "inflight", "delayed")) /\ Total(st') = Total(st)
    BY <1>1, <1>2, <1>5, MoveTotal DEF SameGauges
  <2>3. IsRetired(n)
    BY <1>1, <1>5, <2>1 DEF IsRetired
  <2>4. PlacesOK'
    BY <1>1, <1>3, <2>1, <2>2, ShiftKeeps
  <2> QED BY <2>3, <2>4
<1>6. CASE /\ Ready' = Ready \cup {n} /\ UNCHANGED delayed
           /\ NowHas(msgs[n].group, <<n>> \o grp[msgs[n].group].msgs)
           /\ st' = Move(st, {n}, "inflight", "ready")
  <2>1. Shift({n}, "inflight", "ready")
    BY <1>1, <1>6 DEF Shift, Then
  <2>2. SameGauges(st', Move(st, {n}, "inflight", "ready")) /\ Total(st') = Total(st)
    BY <1>1, <1>2, <1>6, MoveTotal DEF SameGauges
  <2>3. IsRetired(n)
    BY <1>1, <1>6, <2>1 DEF IsRetired
  <2>4. PlacesOK'
    BY <1>1, <1>3, <2>1, <2>2, ShiftKeeps
  <2> QED BY <2>3, <2>4
<1> QED BY <1>4, <1>5, <1>6

LEMMA SamePrios == UNCHANGED msgs => PriosKept /\ Len(msgs') = Len(msgs)
BY DEF PriosKept

(* An unlocked group keeps its list, or gets back the message leased. *)
LEMMA UnlockSame ==
  ASSUME TypeInv, MsgsKept, Lists, NEW g \in Groups, Unlock(g, grp[g])
  PROVE  Lists' /\ Ready' = Ready /\ Quiet
<1>1. grp[g] \in Group /\ OwnList(g, grp[g].msgs, msgs')
  BY OwnListKept DEF TypeInv, ContentInv
<1>2. Once(grp[g].msgs) /\ Els(grp[g].msgs) = Queued(g) \cup {}
  BY DEF Lists, Queued, Els
<1>3. Lists' /\ Ready' = Ready \cup {} /\ NowHas(g, grp[g].msgs)
  BY <1>1, <1>2, UnlockPlaces
<1>4. Quiet
  BY <1>3 DEF NowHas, Quiet
<1> QED BY <1>3, <1>4

LEMMA UnlockBack ==
  ASSUME TypeInv, UNCHANGED msgs, Lists, NEW n \in 1..Len(msgs), n \in Seqs, n \notin Ready,
         NEW g \in Groups, msgs[n].group = g,
         Unlock(g, [grp[g] EXCEPT !.msgs = <<n>> \o @])
  PROVE  Lists' /\ Ready' = Ready \cup {n} /\ NowHas(g, <<n>> \o grp[g].msgs)
<1> DEFINE r == [grp[g] EXCEPT !.msgs = <<n>> \o @]
<1>1. r \in Group /\ OwnList(g, r.msgs, msgs)
  BY PutBackType DEF TypeInv
<1>2. grp[g].msgs \in Seq(Seqs) /\ Once(grp[g].msgs) /\ Els(grp[g].msgs) = Queued(g)
  BY DEF TypeInv, ContentInv, Group, Lists, Queued, Els
<1>3. <<n>> \in Seq(Seqs) /\ Once(<<n>>) /\ Els(<<n>>) = {n}
  <2>1. <<n>> \in Seq(Seqs) /\ DOMAIN <<n>> = {1} /\ <<n>>[1] = n
    OBVIOUS
  <2> QED BY <2>1 DEF Once, Els
<1>4. Els(<<n>>) \cap Els(grp[g].msgs) = {}
  BY <1>2, <1>3 DEF Ready
<1>5. Once(<<n>> \o grp[g].msgs) /\ Els(<<n>> \o grp[g].msgs) = {n} \cup Queued(g)
  <2> DEFINE l == <<n>>
             s == grp[g].msgs
  <2>1. l \in Seq(Seqs) /\ Once(l) /\ s \in Seq(Seqs) /\ Once(s) /\ Els(l) \cap Els(s) = {}
    BY <1>2, <1>3, <1>4
  <2> HIDE DEF l, s
  <2>2. Once(l \o s) /\ Els(l \o s) = Els(l) \cup Els(s)
    BY <2>1, ConcatOnce
  <2> QED BY <1>2, <1>3, <2>2 DEF l, s
<1>6. r.msgs = <<n>> \o grp[g].msgs
  BY DEF TypeInv, ContentInv, Group
<1> HIDE DEF r
<1>7. Once(r.msgs) /\ Els(r.msgs) = Queued(g) \cup {n}
  BY <1>5, <1>6
<1>8. MsgsKept /\ OwnList(g, r.msgs, msgs') /\ Unlock(g, r)
  BY <1>1, SameMsgs DEF r
<1>9. Lists' /\ Ready' = Ready \cup {n} /\ NowHas(g, r.msgs)
  BY <1>1, <1>7, <1>8, UnlockPlaces
<1> QED BY <1>6, <1>9

LEMMA AckPlaces ==
  ASSUME PlaceInv, TypeInv', NEW n \in Seqs, NEW e, Ack(n, e)
  PROVE  PlacesOK' /\ IsRetired(n)
<1>1. inflight[n] # 0 /\ inflight' = [inflight EXCEPT ![n] = 0] /\ UNCHANGED <<msgs, away>>
      /\ UNCHANGED delayed
      /\ st' = [Move(st, {n}, "inflight", "absent") EXCEPT !.acked = @ + 1]
  BY DEF Ack, Holds
<1>2. TypeInv /\ Lists /\ msgs[n].group \in Groups
  BY <1>1, LeasePlaces
<1>3. Unlock(msgs[n].group, grp[msgs[n].group]) /\ MsgsKept /\ PriosKept /\ Len(msgs') = Len(msgs)
  BY <1>1, <1>2, SameMsgs, SamePrios DEF Ack
<1>4. Lists' /\ Ready' = Ready /\ Quiet
  BY <1>2, <1>3, UnlockSame
<1> QED BY <1>1, <1>3, <1>4, LeaseGoes

LEMMA RetirePlaces ==
  ASSUME PlaceInv, TypeInv', NEW n \in Seqs, inflight[n] # 0, NEW t \in Nat, NEW delay \in Nat,
         Retire(n, t, delay), UNCHANGED away
  PROVE  PlacesOK' /\ IsRetired(n)
<1> DEFINE g == msgs[n].group
<1>1. inflight' = [inflight EXCEPT ![n] = 0]
  BY DEF Retire
<1>2. TypeInv /\ Lists /\ g \in Groups /\ n \in 1..Len(msgs) /\ n \notin Ready
  BY <1>1, LeasePlaces
<1>3. MsgsKept /\ Len(msgs') = Len(msgs)
  BY <1>2, RetireType
<1> DEFINE out == Move(st, {n}, "inflight", "absent")
<1>4. \/ /\ UNCHANGED <<msgs, delayed>> /\ Unlock(g, grp[g])
         /\ \/ st' = [out EXCEPT !.expired = @ + 1]
            \/ st' = [out EXCEPT !.deadLettered = @ + 1]
      \/ /\ msgs' = [msgs EXCEPT ![n].deliverAfter = t + delay]
         /\ delayed' = delayed \cup {n}
         /\ st' = Move(st, {n}, "inflight", "delayed")
         /\ Unlock(g, grp[g])
      \/ /\ UNCHANGED <<msgs, delayed>>
         /\ st' = Move(st, {n}, "inflight", "ready")
         /\ Unlock(g, [grp[g] EXCEPT !.msgs = <<n>> \o @])
  BY DEF Retire
<1> HIDE DEF g
<1>5. CASE /\ UNCHANGED <<msgs, delayed>> /\ Unlock(g, grp[g])
           /\ \/ st' = [out EXCEPT !.expired = @ + 1]
              \/ st' = [out EXCEPT !.deadLettered = @ + 1]
  <2>1. Lists' /\ Ready' = Ready /\ Quiet
    BY <1>2, <1>3, <1>5, UnlockSame
  <2>2. PriosKept
    BY <1>5, SamePrios
  <2> QED BY <1>1, <1>3, <1>5, <2>1, <2>2, LeaseGoes
<1>6. CASE /\ msgs' = [msgs EXCEPT ![n].deliverAfter = t + delay]
           /\ delayed' = delayed \cup {n}
           /\ st' = Move(st, {n}, "inflight", "delayed")
           /\ Unlock(g, grp[g])
  <2>1. Lists' /\ Ready' = Ready /\ Quiet
    BY <1>2, <1>3, <1>6, UnlockSame
  <2>2. PriosKept
    <3> DEFINE m == [msgs[n] EXCEPT !.deliverAfter = t + delay]
    <3>1. msgs[n] \in Message
      BY <1>2, ElementOfSeq DEF TypeInv, TypeOK
    <3>2. m.prio = msgs[n].prio /\ msgs' = [msgs EXCEPT ![n] = m]
      BY <1>6, <3>1 DEF Message
    <3> HIDE DEF m
    <3> QED BY <1>2, <3>2, ChangedPrio
  <2> QED BY <1>1, <1>3, <1>6, <2>1, <2>2, LeaseGoes
<1>7. CASE /\ UNCHANGED <<msgs, delayed>>
           /\ st' = Move(st, {n}, "inflight", "ready")
           /\ Unlock(g, [grp[g] EXCEPT !.msgs = <<n>> \o @])
  <2>1. /\ Lists' /\ Ready' = Ready \cup {n}
        /\ NowHas(msgs[n].group, <<n>> \o grp[msgs[n].group].msgs)
    BY <1>2, <1>7, UnlockBack DEF g
  <2>2. PriosKept
    BY <1>7, SamePrios
  <2> QED BY <1>1, <1>3, <1>7, <2>1, <2>2, LeaseGoes
<1> QED BY <1>4, <1>5, <1>6, <1>7

LEMMA CutPlaces ==
  ASSUME TypeInv, MsgsKept, Lists, NEW g \in Groups, NEW k \in 0..Len(grp[g].msgs),
         grp'[g].msgs = After(g, k),
         \A h \in Groups \ {g} : grp'[h].msgs = grp[h].msgs
  PROVE  /\ Lists' /\ Ready' = Ready \ Dropped(g, k)
         /\ Dropped(g, k) \in SUBSET Queued(g) /\ Dropped(g, k) \subseteq Ready
<1> DEFINE s == grp[g].msgs
<1>1. s \in Seq(Seqs) /\ Once(s) /\ Els(s) = Queued(g)
  BY DEF TypeInv, ContentInv, Group, Lists, Queued, Els
<1>2. /\ After(g, k) \in Seq(Seqs) /\ Len(After(g, k)) = Len(s) - k
      /\ \A i \in 1..(Len(s) - k) : After(g, k)[i] = s[k + i]
  BY AfterType DEF TypeInv
<1>3. Dropped(g, k) = {s[i] : i \in 1..k}
  BY DEF Dropped
<1> HIDE DEF s
<1>4. DOMAIN After(g, k) = 1..(Len(s) - k) /\ k \in 0..Len(s)
  BY <1>2 DEF s
<1>5. Once(After(g, k)) /\ Els(After(g, k)) = Els(s) \ {s[i] : i \in 1..k}
  <2> DEFINE m == After(g, k)
  <2>1. DOMAIN m = 1..(Len(s) - k) /\ \A i \in 1..(Len(s) - k) : m[i] = s[k + i]
    BY <1>2, <1>4
  <2> HIDE DEF m
  <2>2. Once(m) /\ Els(m) = Els(s) \ {s[i] : i \in 1..k}
    BY ONLY <1>1, <1>4, <2>1, SuffixOnce
  <2> QED BY <2>2, Zenon DEF m
<1>6. Dropped(g, k) \in SUBSET Queued(g)
  <2>1. \A i \in 1..k : i \in DOMAIN s
    BY <1>1, <1>4
  <2>2. \A i \in 1..k : s[i] \in Els(s)
    BY <2>1 DEF Els
  <2> QED BY <1>1, <1>3, <2>2
<1>7. Once(grp'[g].msgs) /\ Els(grp'[g].msgs) = (Queued(g) \ Dropped(g, k)) \cup {}
  BY <1>1, <1>3, <1>5
<1>8. Lists' /\ Ready' = (Ready \ Dropped(g, k)) \cup {}
  <2> DEFINE D == Dropped(g, k)
  <2>1. D \in SUBSET Queued(g) /\ Els(grp'[g].msgs) = (Queued(g) \ D) \cup {}
    BY <1>6, <1>7
  <2> HIDE DEF D
  <2>2. Lists' /\ Ready' = (Ready \ D) \cup {}
    BY <1>7, <2>1, ListChanges
  <2> QED BY <2>2 DEF D
<1>9. Queued(g) \subseteq Ready
  BY DEF Ready
<1> QED BY <1>6, <1>8, <1>9

(* Messages that had expired where they were waiting are gone. *)
LEMMA CutKeeps ==
  ASSUME PlaceInv, TypeInv', NEW g \in Groups, NEW k \in 0..Len(grp[g].msgs),
         grp'[g].msgs = After(g, k),
         \A h \in Groups \ {g} : grp'[h].msgs = grp[h].msgs,
         st' = Expire(st, Dropped(g, k)),
         UNCHANGED <<msgs, inflight, delayed, away>>
  PROVE  PlacesOK' /\ IsCut(g, k)
<1> DEFINE D == Dropped(g, k)
<1>1. TypeInv /\ Lists /\ Apart
  BY DEF PlaceInv, LockInv
<1>2. MsgsKept /\ PriosKept /\ Len(msgs') = Len(msgs)
  BY <1>1, SameMsgs, SamePrios
<1>3. Lists' /\ Ready' = Ready \ D /\ D \subseteq Ready
  BY <1>1, <1>2, CutPlaces
<1> HIDE DEF D
<1>4. D \in SUBSET Seqs
  BY <1>1, <1>3, PlacesIn
<1>5. InFlight' = InFlight
  BY DEF InFlight
<1>6. Shift(D, "ready", "absent")
  BY <1>3, <1>5 DEF Shift, Then
<1>7. AllFrom(D, "ready")
  BY <1>1, <1>3 DEF AllFrom, ComesFrom, Apart
<1>8. /\ SameGauges(st', Move(st, D, "ready", "absent"))
      /\ Total(st') = Total(st) + Cardinality(D)
  BY <1>1, <1>4, ExpireIs DEF TypeInv, TypeOK, D
<1>9. "ready" \in Places /\ "absent" \notin Places
  BY DEF Places
<1>10. IsCut(g, k)
  BY <1>2, <1>6 DEF IsCut, NowHas, D
<1>11. PlacesOK'
  BY <1>2, <1>3, <1>4, <1>6, <1>7, <1>8, <1>9, ShiftKeeps
<1> QED BY <1>10, <1>11

LEMMA TakeNothingPlaces ==
  ASSUME PlaceInv, NEW p \in Priorities, TakeNothing(p)
  PROVE  PlacesOK' /\ Rests
<1>1. Len(bands[p]) \in 0..Len(bands[p])
  BY DEF PlaceInv, LockInv, TypeInv, ContentInv
<1>2. grp' = Unlisted(p, Len(bands[p])) /\ UNCHANGED <<msgs, inflight, delayed, away, st>>
  BY DEF TakeNothing
<1>3. \A h \in Groups : grp'[h].msgs = grp[h].msgs
  BY <1>1, <1>2, PopType DEF PlaceInv, LockInv, TypeInv
<1> QED BY <1>2, <1>3, SamePlaces

LEMMA TakeExpiredPlaces ==
  ASSUME PlaceInv, TypeInv', NEW p \in Priorities, TakeExpired(p)
  PROVE  PlacesOK' /\ \E g \in Groups : \E k : IsCut(g, k)
<1>1. PICK i \in FirstServable(p) :
        /\ grp' = [Unlisted(p, i) EXCEPT ![bands[p][i].g].msgs = <<>>]
        /\ st' = Expire(st, Dropped(bands[p][i].g, Len(grp[bands[p][i].g].msgs)))
  BY DEF TakeExpired
<1> DEFINE g == bands[p][i].g
           k == Len(grp[g].msgs)
           U == Unlisted(p, i)
<1>2. TypeInv /\ ContentInv
  BY DEF PlaceInv, LockInv, TypeInv
<1>3. i \in 0..Len(bands[p]) /\ g \in Groups
  BY <1>2, FirstServableType
<1>4. U \in [Groups -> Group] /\ \A h \in Groups : U[h].msgs = grp[h].msgs
  BY <1>2, <1>3, PopType
<1>5. grp' = [U EXCEPT ![g].msgs = <<>>] /\ st' = Expire(st, Dropped(g, k))
  BY <1>1
<1> HIDE DEF g, U
<1>6. grp'[g].msgs = <<>> /\ \A h \in Groups \ {g} : grp'[h].msgs = grp[h].msgs
  BY <1>3, <1>4, <1>5 DEF Group
<1>7. k \in 0..Len(grp[g].msgs) /\ k = Len(grp[g].msgs)
  BY <1>2, <1>3 DEF ContentInv, Group
<1>8. After(g, k) = <<>>
  <2>1. After(g, k) \in Seq(Seqs) /\ Len(After(g, k)) = k - k
    BY <1>2, <1>3, <1>7, AfterType
  <2>2. k - k = 0
    BY <1>7
  <2> QED BY <2>1, <2>2, EmptySeq
<1> HIDE DEF k
<1>9. PlacesOK' /\ IsCut(g, k)
  BY <1>3, <1>5, <1>6, <1>7, <1>8, CutKeeps DEF TakeExpired
<1> QED BY <1>3, <1>9

LEMMA TakePlaces ==
  ASSUME PlaceInv, TypeInv', NEW p \in Priorities, Take(p)
  PROVE  PlacesOK' /\ \E g \in Groups : \E k, n : IsLeased(g, k, n)
<1>1. PICK i, g, k, n, e : Leases(p, i, g, k, n, e)
  BY TakeLeases
<1>2. TypeInv /\ ContentInv /\ Lists /\ Apart /\ GaugesExact /\ Counted
  BY DEF PlaceInv, LockInv, TypeInv
<1>3. /\ g \in Groups /\ k \in 0..Len(grp[g].msgs)
      /\ n \in Seqs /\ n \in 1..Len(msgs)
      /\ e \in 1..MaxEpoch
      /\ MsgsKept /\ Len(msgs') = Len(msgs)
  BY <1>1, <1>2, LeasesType
<1>4. /\ i \in FirstServable(p) /\ g = bands[p][i].g
      /\ k < Len(grp[g].msgs) /\ n = grp[g].msgs[k + 1]
      /\ msgs' = [msgs EXCEPT ![n].attempts = @ + 1]
      /\ inflight' = [inflight EXCEPT ![n] = e]
      /\ grp' = [Unlisted(p, i) EXCEPT ![g].msgs = After(g, k + 1), ![g].locked = TRUE]
      /\ st' = Move(Expire(st, Dropped(g, k)), {n}, "ready", "inflight")
  BY <1>1, Zenon DEF Leases
<1>5. grp[g].msgs \in Seq(Seqs) /\ Len(grp[g].msgs) \in Nat /\ Once(grp[g].msgs)
      /\ DOMAIN grp[g].msgs = 1..Len(grp[g].msgs)
  BY <1>2, <1>3 DEF ContentInv, Group, Lists
<1>6. k \in Nat /\ k + 1 \in 0..Len(grp[g].msgs) /\ k + 1 \in DOMAIN grp[g].msgs
  <2>1. \A l \in Nat : \A j \in 0..l : j < l => j \in Nat /\ j + 1 \in 0..l /\ j + 1 \in 1..l
    OBVIOUS
  <2> QED BY <1>3, <1>4, <1>5, <2>1
<1>7. grp'[g].msgs = After(g, k + 1) /\ \A h \in Groups \ {g} : grp'[h].msgs = grp[h].msgs
  <2> DEFINE U == Unlisted(p, i)
             V == [U EXCEPT ![g].msgs = After(g, k + 1)]
  <2>1. U \in [Groups -> Group] /\ \A h \in Groups : U[h].msgs = grp[h].msgs
    BY <1>2, <1>4, FirstServableType, PopType
  <2>2. grp' = [V EXCEPT ![g].locked = TRUE]
    BY <1>4, Zenon
  <2> HIDE DEF U
  <2>3. After(g, k + 1) \in Seq(Seqs)
    BY <1>2, <1>3, <1>6, AfterType
  <2>4. /\ V \in [Groups -> Group] /\ V[g].msgs = After(g, k + 1)
        /\ \A h \in Groups \ {g} : V[h].msgs = grp[h].msgs
    <3>1. [U[g] EXCEPT !.msgs = After(g, k + 1)] \in Group
      BY <1>3, <2>1, <2>3 DEF Group
    <3> QED BY <1>3, <2>1, <2>3, <3>1 DEF Group
  <2> HIDE DEF V
  <2> QED BY <1>3, <2>2, <2>4 DEF Group
<1> DEFINE D == Dropped(g, k)
<1>8. Dropped(g, k + 1) = D \cup {n} /\ n \notin D
  <2>1. 1..(k + 1) = 1..k \cup {k + 1}
    BY <1>6
  <2>2. \A j \in 1..k : j \in DOMAIN grp[g].msgs /\ j # k + 1
    BY <1>3, <1>5, <1>6
  <2>3. Dropped(g, k + 1) = D \cup {n}
    BY <1>4, <2>1 DEF Dropped
  <2>4. \A j \in 1..k : grp[g].msgs[j] # n
    BY <1>4, <1>5, <1>6, <2>2 DEF Once
  <2> QED BY <2>3, <2>4 DEF Dropped
<1>9. Lists' /\ Ready' = Ready \ (D \cup {n}) /\ D \cup {n} \subseteq Ready
  BY <1>2, <1>3, <1>6, <1>7, <1>8, CutPlaces
<1>10. D \in SUBSET Seqs /\ {n} \in SUBSET Seqs /\ n \in Ready
  BY <1>2, <1>3, <1>9, PlacesIn
<1>11. InFlight' = InFlight \cup {n} /\ delayed' = delayed /\ away' = away
  <2>1. e # 0
    BY <1>3, SlotAssumption
  <2> QED BY <1>2, <1>3, <1>4, <2>1, LeaseOn DEF Take
<1> HIDE DEF D
<1>12. Apart'
  BY <1>2, <1>9, <1>11 DEF Apart
<1>13. PriosKept
  <2> DEFINE m == [msgs[n] EXCEPT !.attempts = @ + 1]
  <2>1. msgs[n] \in Message
    BY <1>2, <1>3, ElementOfSeq DEF TypeInv, TypeOK
  <2>2. m.prio = msgs[n].prio /\ msgs' = [msgs EXCEPT ![n] = m]
    BY <1>4, <2>1 DEF Message
  <2> HIDE DEF m
  <2> QED BY <1>2, <1>3, <2>2, ChangedPrio
<1>14. st \in Stats
  BY <1>2 DEF TypeInv, TypeOK
<1> DEFINE x == Expire(st, D)
<1>15. /\ x \in Stats /\ SameGauges(x, Move(st, D, "ready", "absent"))
       /\ Total(x) = Total(st) + Cardinality(D)
  BY <1>10, <1>14, ExpireIs
<1>16. st' = Move(x, {n}, "ready", "inflight")
  BY <1>4 DEF D
<1> HIDE DEF x
<1>17. /\ Ready \in SUBSET Seqs /\ InFlight \in SUBSET Seqs /\ delayed \in SUBSET Seqs
       /\ Ready \ D \in SUBSET Seqs
  BY <1>2, PlacesIn
<1>18. Exact(x, Ready \ D, InFlight, delayed, msgs')
  <2>1. Exact(st, Ready, InFlight, delayed, msgs')
    BY <1>2, <1>13, ExactStays
  <2>2. /\ ComesFrom(D, Ready, "ready", "ready") /\ ComesFrom(D, InFlight, "inflight", "ready")
        /\ ComesFrom(D, delayed, "delayed", "ready")
    BY <1>2, <1>9 DEF ComesFrom, Apart
  <2>3. Exact(Move(st, D, "ready", "absent"), Then(Ready, D, "ready", "ready", "absent"),
              Then(InFlight, D, "inflight", "ready", "absent"),
              Then(delayed, D, "delayed", "ready", "absent"), msgs')
    BY <1>10, <1>14, <1>17, <2>1, <2>2, MoveExact
  <2> QED BY <1>15, <2>3 DEF Exact, SameGauges, Then
<1>19. Exact(st', Ready', InFlight', delayed', msgs')
  <2>1. /\ ComesFrom({n}, Ready \ D, "ready", "ready") /\ ComesFrom({n}, InFlight, "inflight", "ready")
        /\ ComesFrom({n}, delayed, "delayed", "ready")
    BY <1>2, <1>8, <1>10 DEF ComesFrom, Apart, D
  <2>2. Exact(st', Then(Ready \ D, {n}, "ready", "ready", "inflight"),
              Then(InFlight, {n}, "inflight", "ready", "inflight"),
              Then(delayed, {n}, "delayed", "ready", "inflight"), msgs')
    BY <1>10, <1>15, <1>16, <1>17, <1>18, <2>1, MoveExact
  <2>3. /\ Then(Ready \ D, {n}, "ready", "ready", "inflight") = Ready'
        /\ Then(InFlight, {n}, "inflight", "ready", "inflight") = InFlight'
        /\ Then(delayed, {n}, "delayed", "ready", "inflight") = delayed'
    BY <1>9, <1>11 DEF Then
  <2> QED BY <2>2, <2>3
<1>20. GaugesExact'
  BY <1>19 DEF GaugesExact, Exact, InBucket
<1>21. Counted'
  <2> DEFINE H == Present \cup away
  <2>1. H \in SUBSET Seqs
    BY <1>2, PlacesIn DEF Present
  <2>2. H' = H \ D /\ D \subseteq H
    BY <1>2, <1>9, <1>10, <1>11, <1>8 DEF Present, Apart, D
  <2>3. Total(st') = Total(st) + Cardinality(D)
    BY <1>10, <1>15, <1>16, MoveTotal
  <2>4. Len(msgs) = Cardinality(H) + Total(st)
    BY <1>2 DEF Counted
  <2> HIDE DEF H
  <2>5. /\ IsFiniteSet(H) /\ Cardinality(H) \in Nat /\ Cardinality(D) \in Nat
    BY <1>10, <2>1, MessageSets
  <2>6. Cardinality(H \ D) = Cardinality(H) - Cardinality(D)
    <3>1. Cardinality(H \ D) = Cardinality(H) - Cardinality(H \cap D)
      BY <2>5, FS_Difference
    <3>2. H \cap D = D
      BY <2>2
    <3> QED BY <3>1, <3>2
  <2>7. Total(st) \in Nat
    BY <1>14 DEF Stats, Total
  <2>8. Cardinality(H') = Cardinality(H) - Cardinality(D)
    BY <2>2, <2>6
  <2>9. Len(msgs) = Cardinality(H') + Total(st')
    BY ONLY <2>3, <2>4, <2>5, <2>7, <2>8
  <2>10. Len(msgs') = Cardinality(H') + Total(st')
    BY <1>3, <2>9
  <2> QED BY <2>10 DEF Counted, H, Total
<1>22. ~grp[g].locked
  BY <1>4 DEF FirstServable, Servable
<1>23. IsLeased(g, k, n)
  BY <1>3, <1>6, <1>7, <1>8, <1>9, <1>11, <1>22 DEF IsLeased, NowHas, D
<1> QED BY <1>3, <1>9, <1>12, <1>20, <1>21, <1>23 DEF PlacesOK

(* What a step of the TTL loop does to group g, which becomes r. *)
Cuts(g, k, r) ==
  /\ k \in 0..Len(grp[g].msgs) /\ k \in ExpiredPrefix(g, opNow)
  /\ r \in Group
  /\ r.msgs = After(g, k) /\ r.locked = grp[g].locked
  /\ k > 0 /\ grp[g].inBand => r.inBand = FALSE /\ r.version = grp[g].version + 1
  /\ ~(k > 0 /\ grp[g].inBand) => r.inBand = grp[g].inBand /\ r.version = grp[g].version
  /\ PushIfUnlisted(g, r) /\ DropGroupIfIdle(g)
  /\ st' = Expire(st, Dropped(g, k))

LEMMA SweepCuts ==
  ASSUME TypeInv, NEW g \in todo, SweepTTL(g)
  PROVE  g \in Groups /\ \E k, r : Cuts(g, k, r)
<1>1. PICK k \in ExpiredPrefix(g, opNow) :
       LET cut == [grp[g] EXCEPT !.msgs = After(g, k)]
           r   == IF k > 0 /\ cut.inBand
                  THEN [cut EXCEPT !.version = @ + 1, !.inBand = FALSE]
                  ELSE cut
       IN /\ PushIfUnlisted(g, r)
          /\ DropGroupIfIdle(g)
          /\ st' = Expire(st, Dropped(g, k))
  BY DEF SweepTTL
<1> DEFINE cut == [grp[g] EXCEPT !.msgs = After(g, k)]
           new == [cut EXCEPT !.version = @ + 1, !.inBand = FALSE]
           r   == IF k > 0 /\ cut.inBand THEN new ELSE cut
<1>2. g \in Groups /\ grp[g] \in Group
  BY DEF TypeInv, TypeOK
<1>3. k \in 0..Len(grp[g].msgs)
  BY DEF ExpiredPrefix
<1>4. After(g, k) \in Seq(Seqs)
  BY <1>2, <1>3, AfterType DEF TypeInv
<1>5. /\ cut \in Group /\ cut.msgs = After(g, k) /\ cut.locked = grp[g].locked
      /\ cut.inBand = grp[g].inBand /\ cut.version = grp[g].version
  BY <1>2, <1>4 DEF Group
<1>6. /\ new \in Group /\ new.msgs = cut.msgs /\ new.locked = cut.locked
      /\ new.inBand = FALSE /\ new.version = cut.version + 1
  <2> HIDE DEF cut
  <2> DEFINE c1 == [cut EXCEPT !.version = @ + 1]
  <2>1. c1 \in Group /\ c1.msgs = cut.msgs /\ c1.locked = cut.locked
        /\ c1.version = cut.version + 1
    BY <1>5 DEF Group
  <2>2. new = [c1 EXCEPT !.inBand = FALSE]
    BY Zenon
  <2> HIDE DEF c1, new
  <2> QED BY <2>1, <2>2 DEF Group
<1>7. PushIfUnlisted(g, r) /\ DropGroupIfIdle(g) /\ st' = Expire(st, Dropped(g, k))
  BY <1>1
<1> HIDE DEF cut, new
<1>8. Cuts(g, k, r)
  <2>1. CASE k > 0 /\ grp[g].inBand
    <3>1. r = new
      BY <1>5, <2>1
    <3> HIDE DEF r
    <3> QED BY <1>3, <1>5, <1>6, <1>7, <2>1, <3>1 DEF Cuts
  <2>2. CASE ~(k > 0 /\ grp[g].inBand)
    <3>1. r = cut
      BY <1>5, <2>2
    <3> HIDE DEF r
    <3> QED BY <1>3, <1>5, <1>7, <2>2, <3>1 DEF Cuts
  <2> QED BY <2>1, <2>2
<1> HIDE DEF r
<1> QED BY <1>2, <1>8

LEMMA PutMsgs ==
  ASSUME TypeInv, NEW g \in Groups, NEW r \in Group, PushIfUnlisted(g, r) \/ PushGroup(g, r)
  PROVE  grp'[g].msgs = r.msgs /\ \A h \in Groups \ {g} : grp'[h] = grp[h]
<1>1. grp \in [Groups -> Group]
  BY DEF TypeInv, ContentInv
<1>2. CASE grp' = [grp EXCEPT ![g] = r]
  BY <1>1, <1>2
<1>3. CASE grp' = [grp EXCEPT ![g] = [r EXCEPT !.version = @ + 1, !.inBand = TRUE]]
  <2> DEFINE u == [r EXCEPT !.version = @ + 1, !.inBand = TRUE]
  <2>1. u.msgs = r.msgs
    BY DEF Group
  <2> HIDE DEF u
  <2>2. grp' = [grp EXCEPT ![g] = u]
    BY <1>3, Zenon DEF u
  <2> QED BY <1>1, <2>1, <2>2
<1>4. \/ grp' = [grp EXCEPT ![g] = r]
      \/ grp' = [grp EXCEPT ![g] = [r EXCEPT !.version = @ + 1, !.inBand = TRUE]]
  BY Zenon DEF PushIfUnlisted, PushGroup, PutGroup
<1> QED BY <1>2, <1>3, <1>4

LEMMA SweepTTLPlaces ==
  ASSUME PlaceInv, TypeInv', NEW g \in todo, SweepTTL(g)
  PROVE  PlacesOK' /\ g \in Groups /\ \E k : IsCut(g, k)
<1>1. TypeInv
  BY DEF PlaceInv, LockInv
<1>2. PICK k, r : g \in Groups /\ Cuts(g, k, r)
  BY <1>1, SweepCuts
<1>3. grp'[g].msgs = After(g, k) /\ \A h \in Groups \ {g} : grp'[h].msgs = grp[h].msgs
  BY <1>1, <1>2, PutMsgs DEF Cuts
<1>4. k \in 0..Len(grp[g].msgs) /\ st' = Expire(st, Dropped(g, k))
      /\ UNCHANGED <<msgs, inflight, delayed, away>>
  BY <1>2 DEF Cuts, SweepTTL
<1>5. PlacesOK' /\ IsCut(g, k)
  BY <1>2, <1>3, <1>4, CutKeeps
<1> QED BY <1>2, <1>5

LEMMA DrainPlaces ==
  ASSUME PlaceInv, TypeInv', Drain
  PROVE  PlacesOK' /\ IsDrained
<1>1. TypeInv /\ Counted
  BY DEF PlaceInv, LockInv
<1>2. InFlight' = {} /\ UNCHANGED msgs
  BY <1>1, DrainType
<1>3. \A g \in Groups : grp'[g].msgs = <<>>
  <2> DEFINE E(g) == [grp[g] EXCEPT !.msgs = <<>>, !.locked = FALSE, !.inBand = FALSE]
  <2>1. grp' = [g \in Groups |-> E(g)]
    BY Zenon DEF Drain
  <2>2. ASSUME NEW g \in Groups PROVE E(g).msgs = <<>>
    BY <1>1 DEF TypeInv, ContentInv, Group
  <2> HIDE DEF E
  <2> QED BY <2>1, <2>2
<1>4. Lists' /\ Ready' = {}
  BY <1>3 DEF Lists, Once, Ready, Queued
<1>5. delayed' = {} /\ away' = away \cup Present
  BY DEF Drain
<1>6. Present' = {}
  BY <1>2, <1>4, <1>5 DEF Present
<1>7. Apart'
  BY <1>2, <1>4, <1>5 DEF Apart
<1>8. /\ st'.ready = [b \in Buckets |-> 0] /\ st'.inflight = 0 /\ st'.delayed = 0
      /\ Total(st') = Total(st)
  <2> DEFINE z == [b \in Buckets |-> 0]
             s1 == [st EXCEPT !.ready = z]
             s2 == [s1 EXCEPT !.inflight = 0]
  <2>1. st' = [s2 EXCEPT !.delayed = 0]
    BY Zenon DEF Drain
  <2>2. z \in [Buckets -> Int]
    OBVIOUS
  <2> HIDE DEF z
  <2>3. s1 \in Stats /\ s1.ready = z /\ Total(s1) = Total(st)
    BY <1>1, <2>2 DEF TypeInv, TypeOK, Stats, Total
  <2> HIDE DEF s1
  <2>4. s2 \in Stats /\ s2.ready = z /\ s2.inflight = 0 /\ Total(s2) = Total(s1)
    BY <2>3 DEF Stats, Total
  <2> HIDE DEF s2
  <2>5. st'.ready = z /\ st'.inflight = 0 /\ st'.delayed = 0 /\ Total(st') = Total(s2)
    BY <2>1, <2>4 DEF Stats, Total
  <2> QED BY <2>3, <2>4, <2>5 DEF z
<1>9. GaugesExact'
  <2>1. \A b \in Buckets : {n \in Ready' : bucketOf(msgs'[n].prio) = b} = {}
    BY <1>4
  <2>2. Cardinality({}) = 0
    BY FS_EmptySet
  <2>3. \A b \in Buckets : st'.ready[b] = 0
    BY <1>8
  <2>4. \A b \in Buckets : st'.ready[b] = Cardinality({n \in Ready' : bucketOf(msgs'[n].prio) = b})
    BY <2>1, <2>2, <2>3
  <2>5. st'.inflight = Cardinality(InFlight') /\ st'.delayed = Cardinality(delayed')
    BY <1>2, <1>5, <1>8, <2>2
  <2> QED BY <2>4, <2>5 DEF GaugesExact
<1>10. Counted'
  <2>1. (Present \cup away)' = Present \cup away
    BY <1>5, <1>6
  <2>2. Len(msgs') = Len(msgs)
    BY <1>2
  <2> QED BY <1>1, <1>8, <2>1, <2>2 DEF Counted
<1>11. IsDrained
  BY <1>1, <1>2, <1>3, <1>4, <1>5, SameMsgs DEF IsDrained
<1> QED BY <1>4, <1>7, <1>9, <1>10, <1>11 DEF PlacesOK

(* What comes back into a group, in order of its numbers, is all of it. *)
LEMMA InOrderIsAll ==
  ASSUME NEW S \in SUBSET Seqs, NEW list \in InSeqOrder(S)
  PROVE  list \in Seq(Seqs) /\ Once(list) /\ Els(list) = S
         /\ \A i, j \in DOMAIN list : i < j => list[i] < list[j]
<1>1. IsFiniteSet(S) /\ Cardinality(S) \in Nat
  BY MessageSets
<1>2. /\ list \in [1..Cardinality(S) -> S]
      /\ \A i, j \in 1..Cardinality(S) : i < j => list[i] < list[j]
  BY DEF InSeqOrder
<1> DEFINE N == 1..Cardinality(S)
<1>3. IsFiniteSet(N) /\ Cardinality(N) = Cardinality(S)
  BY <1>1, FS_Interval
<1>4. \A i, j \in N : list[i] = list[j] => i = j
  <2> SUFFICES ASSUME NEW i \in N, NEW j \in N, list[i] = list[j], i # j PROVE FALSE
    OBVIOUS
  <2>1. i < j \/ j < i
    BY <1>1
  <2>2. list[i] \in Seqs /\ list[j] \in Seqs
    BY <1>2
  <2>3. list[i] \in Int /\ list[j] \in Int
    BY <2>2, SlotAssumption DEF Seqs
  <2> QED BY <1>2, <2>1, <2>3
<1>5. list \in Injection(N, S)
  BY <1>2, <1>4, Zenon DEF Injection, IsInjective
<1>6. list \in Surjection(N, S)
  BY <1>1, <1>3, <1>5, FS_Injection
<1>7. \A x \in S : \E i \in N : list[i] = x
  BY <1>6, Zenon DEF Surjection
<1>8. list \in Seq(Seqs) /\ DOMAIN list = N
  BY <1>1, <1>2
<1>9. Once(list)
  BY <1>4, <1>8 DEF Once
<1>10. Els(list) \subseteq S /\ S \subseteq Els(list)
  BY <1>2, <1>7, <1>8 DEF Els
<1> QED BY <1>2, <1>8, <1>9, <1>10

(* What an absorb does to group g, which becomes r. *)
TakesIn(g, list, r) ==
  /\ list \in InSeqOrder(Arriving(g, opNow))
  /\ r \in Group
  /\ r.msgs = list \o grp[g].msgs /\ r.locked = grp[g].locked
  /\ r.inBand = FALSE /\ r.version = grp[g].version + 1
  /\ PushGroup(g, r)

LEMMA ArrivingIn ==
  ASSUME TypeInv, NEW g \in Groups
  PROVE  /\ Arriving(g, opNow) \in SUBSET Seqs /\ Arriving(g, opNow) \subseteq away
         /\ \A n \in Arriving(g, opNow) : msgs[n].group = g
BY PlacesIn DEF Arriving

LEMMA AbsorbTakesIn ==
  ASSUME TypeInv, NEW g \in Groups, AbsorbGroup(g)
  PROVE  \E list, r : TakesIn(g, list, r)
<1>1. PICK list \in InSeqOrder(Arriving(g, opNow)) :
        PushGroup(g, [grp[g] EXCEPT !.msgs = list \o @, !.version = @ + 1, !.inBand = FALSE])
  BY DEF AbsorbGroup
<1>2. grp[g] \in Group /\ grp[g].msgs \in Seq(Seqs)
  BY DEF TypeInv, ContentInv, Group
<1>3. list \in Seq(Seqs)
  BY ArrivingIn, InOrderIsAll
<1> DEFINE l  == list \o grp[g].msgs
           r1 == [grp[g] EXCEPT !.msgs = l]
           r2 == [r1 EXCEPT !.version = @ + 1]
           r  == [r2 EXCEPT !.inBand = FALSE]
<1>4. l \in Seq(Seqs)
  BY <1>2, <1>3, ConcatProperties
<1>5. PushGroup(g, r)
  BY <1>1, Zenon
<1> HIDE DEF l
<1>6. r1 \in Group /\ r1.msgs = l /\ r1.locked = grp[g].locked /\ r1.version = grp[g].version
  BY <1>2, <1>4 DEF Group
<1> HIDE DEF r1
<1>7. r2 \in Group /\ r2.msgs = l /\ r2.locked = grp[g].locked /\ r2.version = grp[g].version + 1
  BY <1>6 DEF Group
<1> HIDE DEF r2
<1>8. /\ r \in Group /\ r.msgs = l /\ r.locked = grp[g].locked /\ r.version = grp[g].version + 1
      /\ r.inBand = FALSE
  BY <1>7 DEF Group
<1> HIDE DEF r
<1>9. TakesIn(g, list, r)
  BY <1>5, <1>8 DEF TakesIn, l
<1> QED BY <1>9

(* A message that is away is in no gauge. *)
LEMMA MoveAway ==
  ASSUME NEW s, NEW S, NEW to
  PROVE  Move(s, S, "absent", to) = Move(s, S, "away", to)
BY DEF Move

LEMMA AbsorbGroupPlaces ==
  ASSUME PlaceInv, TypeInv', NEW g \in Groups, AbsorbGroup(g)
  PROVE  PlacesOK' /\ \E list : IsAbsorbed(g, list)
<1> DEFINE S == Arriving(g, opNow)
<1>1. TypeInv /\ Lists /\ Apart
  BY DEF PlaceInv, LockInv
<1>2. PICK list, r : TakesIn(g, list, r)
  BY <1>1, AbsorbTakesIn
<1>3. S \in SUBSET Seqs /\ S \subseteq away
  BY <1>1, ArrivingIn
<1>4. list \in Seq(Seqs) /\ Once(list) /\ Els(list) = S
  BY <1>2, <1>3, InOrderIsAll DEF TakesIn
<1>5. grp[g].msgs \in Seq(Seqs) /\ Once(grp[g].msgs) /\ Els(grp[g].msgs) = Queued(g)
  BY <1>1 DEF TypeInv, ContentInv, Group, Lists, Queued, Els
<1>6. Els(list) \cap Els(grp[g].msgs) = {}
  BY <1>1, <1>3, <1>4, <1>5 DEF Apart, Ready
<1>7. Once(list \o grp[g].msgs) /\ Els(list \o grp[g].msgs) = S \cup Queued(g)
  BY <1>4, <1>5, <1>6, ConcatOnce
<1>8. grp'[g].msgs = list \o grp[g].msgs /\ \A h \in Groups \ {g} : grp'[h].msgs = grp[h].msgs
  BY <1>1, <1>2, PutMsgs DEF TakesIn
<1>9. MsgsKept /\ PriosKept /\ Len(msgs') = Len(msgs)
  BY <1>1, SameMsgs, SamePrios DEF AbsorbGroup
<1>10. /\ away' = away \ S /\ InFlight' = InFlight /\ delayed' = delayed
       /\ st' = Move(st, S, "away", "ready")
  BY MoveAway DEF AbsorbGroup, InFlight
<1> HIDE DEF S
<1>11. Lists' /\ Ready' = Ready \cup S
  <2>1. /\ {} \in SUBSET Queued(g) /\ Once(grp'[g].msgs)
        /\ Els(grp'[g].msgs) = (Queued(g) \ {}) \cup S
    BY <1>7, <1>8
  <2>2. Lists' /\ Ready' = (Ready \ {}) \cup S
    BY <1>1, <1>8, <1>9, <2>1, ListChanges
  <2> QED BY <2>2
<1>12. Shift(S, "away", "ready")
  BY <1>10, <1>11 DEF Shift, Then
<1>13. AllFrom(S, "away")
  BY <1>1, <1>3 DEF AllFrom, ComesFrom, Apart
<1>14. SameGauges(st', Move(st, S, "away", "ready")) /\ Total(st') = Total(st)
  BY <1>1, <1>3, <1>10, MoveTotal DEF SameGauges, TypeInv, TypeOK
<1>15. "away" \in Places /\ "ready" \in Places
  BY DEF Places
<1>16. IsAbsorbed(g, list)
  <2>1. holder = "absorb" /\ S # {} /\ list \in InSeqOrder(S)
    BY <1>2 DEF AbsorbGroup, TakesIn, S
  <2> QED BY <1>8, <1>9, <1>12, <2>1 DEF IsAbsorbed, NowHas, S
<1>17. PlacesOK'
  BY <1>3, <1>9, <1>11, <1>12, <1>13, <1>14, <1>15, ShiftKeeps
<1> QED BY <1>16, <1>17

LEMMA AbsorbDonePlaces ==
  ASSUME PlaceInv, TypeInv', AbsorbDone
  PROVE  PlacesOK' /\ IsHeld
<1>1. TypeInv /\ Lists /\ Apart
  BY DEF PlaceInv, LockInv
<1>2. /\ UNCHANGED msgs /\ InFlight' = InFlight /\ \A h \in Groups : grp'[h].msgs = grp[h].msgs
      /\ delayed' = delayed \cup away /\ away' = {}
      /\ st' = Move(st, away, "away", "delayed")
  BY MoveAway DEF AbsorbDone, content, InFlight
<1>3. Lists' /\ Ready' = Ready /\ PriosKept /\ Len(msgs') = Len(msgs)
  BY <1>1, <1>2, SameLists, SamePrios
<1>4. away \in SUBSET Seqs
  BY <1>1, PlacesIn
<1>5. Shift(away, "away", "delayed")
  BY <1>2, <1>3 DEF Shift, Then
<1>6. AllFrom(away, "away")
  BY <1>1 DEF AllFrom, ComesFrom, Apart
<1>7. SameGauges(st', Move(st, away, "away", "delayed")) /\ Total(st') = Total(st)
  BY <1>1, <1>2, <1>4, MoveTotal DEF SameGauges, TypeInv, TypeOK
<1>8. "away" \in Places /\ "delayed" \in Places
  BY DEF Places
<1>9. IsHeld
  BY <1>1, <1>2, <1>3, <1>5, SameMsgs DEF IsHeld, Quiet, AbsorbDone
<1>10. PlacesOK'
  BY <1>3, <1>4, <1>5, <1>6, <1>7, <1>8, ShiftKeeps
<1> QED BY <1>9, <1>10

LEMMA InitPlaces == Init => PlaceInv
<1> SUFFICES ASSUME Init PROVE PlaceInv
  OBVIOUS
<1>1. LockInv
  BY InitLock
<1>2. \A g \in Groups : grp[g].msgs = <<>>
  BY DEF Init
<1>3. Ready = {} /\ Lists
  BY <1>2 DEF Ready, Queued, Lists, Once
<1>4. InFlight = {} /\ delayed = {} /\ away = {} /\ msgs = <<>>
  BY DEF Init, InFlight
<1>5. Present \cup away = {} /\ Apart
  BY <1>3, <1>4 DEF Present, Apart
<1>6. Cardinality({}) = 0
  BY FS_EmptySet
<1>7. GaugesExact
  <2>1. \A b \in Buckets : {n \in Ready : bucketOf(msgs[n].prio) = b} = {}
    BY <1>3
  <2>2. (\A b \in Buckets : st.ready[b] = 0) /\ st.inflight = 0 /\ st.delayed = 0
    BY DEF Init
  <2> QED BY <1>4, <1>6, <2>1, <2>2 DEF GaugesExact
<1>8. Counted
  <2>1. Len(msgs) = 0 /\ Total(st) = 0
    BY DEF Init, Total
  <2>2. Cardinality(Present \cup away) = 0
    BY <1>5, <1>6, Zenon
  <2> QED BY <2>1, <2>2 DEF Counted
<1> QED BY <1>1, <1>3, <1>5, <1>7, <1>8 DEF PlaceInv

(* Every step of the slot is one of these. *)
Flow ==
  \/ Rests \/ IsDrained \/ IsHeld
  \/ Comes(Len(msgs) + 1)
  \/ \E n : IsReleased(n) \/ IsRetired(n)
  \/ \E g \in Groups : \E k, n : IsLeased(g, k, n) \/ IsCut(g, k)
  \/ \E g \in Groups : \E list : IsAbsorbed(g, list)

LEMMA NextFlows == PlaceInv /\ TypeInv' /\ [Next]_vars => PlacesOK' /\ Flow
<1> SUFFICES ASSUME PlaceInv, TypeInv', [Next]_vars PROVE PlacesOK' /\ Flow
  OBVIOUS
<1>0. TypeInv
  BY DEF PlaceInv, LockInv
<1>1. CASE \E p \in Priorities, g \in Groups, ttl \in TTLs, d \in Delays :
             Enqueue(p, g, ttl, d)
  BY <1>1, EnqueuePlaces DEF Flow
<1>2. ASSUME NEW p \in Priorities, Take(p) \/ TakeExpired(p) \/ TakeNothing(p)
      PROVE  PlacesOK' /\ Flow
  BY <1>2, TakePlaces, TakeExpiredPlaces, TakeNothingPlaces DEF Flow
<1>3. ASSUME NEW n \in Seqs, NEW e, Ack(n, e) PROVE PlacesOK' /\ Flow
  BY <1>3, AckPlaces DEF Flow
<1>4. ASSUME NEW n \in Seqs, NEW e, NEW d \in Delays, Nack(n, e, d) PROVE PlacesOK' /\ Flow
  <2>1. inflight[n] # 0 /\ Retire(n, now, d) /\ UNCHANGED away
    BY <1>4 DEF Nack, Holds
  <2>2. now \in Nat /\ d \in Nat
    BY <1>0, SlotAssumption DEF TypeInv, TypeOK
  <2> QED BY <2>1, <2>2, RetirePlaces DEF Flow
<1>5. CASE \E n \in delayed : ReleaseDelayed(n)
  BY <1>5, ReleasePlaces DEF Flow
<1>6. ASSUME NEW e \in timers, SweepLease(e) PROVE PlacesOK' /\ Flow
  <2>1. CASE UNCHANGED <<msgs, content, inflight, delayed, st>>
    BY <1>6, <2>1, SamePlaces DEF content, SweepLease, Flow
  <2>2. CASE Holds(e.id, e.epoch) /\ Retire(e.id, opNow, 0)
    <3>1. e.id \in Seqs /\ opNow \in Nat /\ 0 \in Nat /\ UNCHANGED away /\ inflight[e.id] # 0
      BY <1>0, <1>6, <2>2, SlotAssumption DEF TypeInv, TypeOK, Timer, SweepLease, Holds
    <3> QED BY <2>2, <3>1, RetirePlaces DEF Flow
  <2> QED BY <1>6, <2>1, <2>2 DEF SweepLease
<1>7. ASSUME NEW g \in todo, SweepTTL(g) PROVE PlacesOK' /\ Flow
  BY <1>7, SweepTTLPlaces DEF Flow
<1>8. CASE \/ BeginSweep \/ ReleaseDone \/ LeasesDone \/ SweepDone \/ BeginAbsorb
           \/ Tick \/ UNCHANGED vars
  <2>1. UNCHANGED <<grp, msgs, inflight, delayed, away, st>>
    BY <1>8 DEF BeginSweep, ReleaseDone, LeasesDone, SweepDone, BeginAbsorb, Tick, content, vars
  <2> QED BY <2>1, SamePlaces DEF Flow
<1>9. CASE Drain
  BY <1>9, DrainPlaces DEF Flow
<1>10. CASE \E g \in Groups : AbsorbGroup(g)
  BY <1>10, AbsorbGroupPlaces DEF Flow
<1>11. CASE AbsorbDone
  BY <1>11, AbsorbDonePlaces DEF Flow
<1> QED BY <1>1, <1>2, <1>3, <1>4, <1>5, <1>6, <1>7, <1>8, <1>9, <1>10, <1>11 DEF Next

LEMMA NextPlaces == PlaceInv /\ [Next]_vars => PlaceInv'
<1> SUFFICES ASSUME PlaceInv, [Next]_vars PROVE PlaceInv'
  OBVIOUS
<1>1. LockInv' /\ TypeInv'
  BY NextLock DEF PlaceInv, LockInv
<1>2. PlacesOK'
  BY <1>1, NextFlows
<1> QED BY <1>1, <1>2 DEF PlacesOK, PlaceInv

LEMMA PlacesSuffice == PlaceInv => Conserved /\ GaugesExact
<1> SUFFICES ASSUME PlaceInv PROVE Conserved
  BY DEF PlaceInv
<1>1. OnePlace
  <2>1. \A g \in Groups : \A i \in DOMAIN grp[g].msgs :
           grp[g].msgs[i] \in 1..Len(msgs) /\ msgs[grp[g].msgs[i]].group = g
    BY DEF PlaceInv, LockInv, TypeInv, ContentInv, OwnList
  <2>2. \A g \in Groups : \A i, j \in DOMAIN grp[g].msgs :
           grp[g].msgs[i] = grp[g].msgs[j] => i = j
    BY DEF PlaceInv, Lists, Once
  <2>3. InFlight \subseteq 1..Len(msgs)
    BY DEF PlaceInv, LockInv, TypeInv
  <2>4. /\ Ready \cap InFlight = {} /\ (Ready \cup InFlight) \cap delayed = {}
        /\ Present \cap away = {}
    BY DEF PlaceInv, Apart, Present
  <2> QED BY <2>1, <2>2, <2>3, <2>4 DEF OnePlace
<1>2. NothingLost
  <2>1. /\ Len(msgs) = Cardinality(Present \cup away)
                         + (st.acked + st.expired + st.deadLettered)
        /\ Cardinality(Present \cup away) \in Nat /\ st \in Stats
    <3>1. Present \cup away \in SUBSET Seqs
      BY PlacesIn DEF Present, PlaceInv, LockInv
    <3> QED BY <3>1, MessageSets DEF PlaceInv, Counted, Total, LockInv, TypeInv, TypeOK
  <2> QED BY <2>1 DEF NothingLost, Stats
<1> QED BY <1>1, <1>2 DEF Conserved

(* Messages are never in two places and never lost count of, whatever the  *)
(* interleaving of producers, workers, sweeps, drains and absorbs: each    *)
(* was acknowledged, expired or dead-lettered, or is where exactly one of  *)
(* the lists, leases, delays and the owner elsewhere has it.               *)
THEOREM MessagesAreKept == Spec => []Conserved
<1>1. Init => PlaceInv
  BY InitPlaces
<1>2. PlaceInv /\ [Next]_vars => PlaceInv'
  BY NextPlaces
<1>3. PlaceInv => Conserved
  BY PlacesSuffice
<1> QED BY <1>1, <1>2, <1>3, PTL DEF Spec

(* The gauges, which are added to and subtracted from and never counted,   *)
(* stay what a count would give: nothing drifts over any number of steps.  *)
THEOREM GaugesNeverDrift == Spec => []GaugesExact
<1>1. Init => PlaceInv
  BY InitPlaces
<1>2. PlaceInv /\ [Next]_vars => PlaceInv'
  BY NextPlaces
<1>3. PlaceInv => GaugesExact
  BY PlacesSuffice
<1> QED BY <1>1, <1>2, <1>3, PTL DEF Spec

-----------------------------------------------------------------------------
(* The index of a slot: the bands, the map of groups and the hint *)

HeadPrio(g) == msgs[Head(grp[g].msgs)].prio

(* Entry i of band p lists group g as it is now. *)
At(g, p, i) ==
  i \in DOMAIN bands[p] /\ bands[p][i].g = g /\ bands[p][i].ver = grp[g].version

(* No entry is newer than its group. *)
NoneAhead ==
  \A p \in Priorities : \A i \in DOMAIN bands[p] :
    bands[p][i].ver <= grp[bands[p][i].g].version

(* A group is marked as listed while it can be served; *)
Marked == \A g \in Groups : grp[g].inBand <=> ~grp[g].locked /\ grp[g].msgs # <<>>

(* then it has an entry in the band of its head, *)
InItsBand == \A g \in Groups : grp[g].inBand => \E i : At(g, HeadPrio(g), i)

(* in no other band, *)
NotElsewhere ==
  \A g \in Groups, p \in Priorities : \A i : At(g, p, i) => grp[g].inBand /\ HeadPrio(g) = p

(* and one only. *)
OneEntry ==
  \A g \in Groups, p \in Priorities : \A i, j : At(g, p, i) /\ At(g, p, j) => i = j

BandsInv == NoneAhead /\ Marked /\ InItsBand /\ NotElsewhere /\ OneEntry

MaskExact   == bandMask = {p \in Priorities : bands[p] # <<>>}
GroupsExact == groups = {g \in Groups : grp[g].locked \/ grp[g].msgs # <<>>}

HintTrue == Free => hint = HintOf(bandMask) /\ headSeq = HeadSeqOf(bandMask, bands, grp)

IndexInv ==
  LockInv /\ BandsInv /\ MaskExact /\ GroupsExact /\ HintTrue /\ LeaseHasTimer

(* Every entry of g is older than version v. *)
Fresh(g, v) ==
  \A p \in Priorities : \A i \in DOMAIN bands[p] : bands[p][i].g = g => bands[p][i].ver < v

LEMMA BandsIn ==
  ASSUME ContentInv
  PROVE  /\ \A p \in Priorities : /\ bands[p] \in Seq(Entry)
                                  /\ Len(bands[p]) \in Nat
                                  /\ DOMAIN bands[p] = 1..Len(bands[p])
         /\ \A p \in Priorities : \A i \in DOMAIN bands[p] :
              bands[p][i].g \in Groups /\ bands[p][i].ver \in Nat
<1>1. \A p \in Priorities : bands[p] \in Seq(Entry)
  BY DEF ContentInv
<1>2. \A p \in Priorities : \A i \in DOMAIN bands[p] : bands[p][i] \in Entry
  BY <1>1, ElementOfSeq
<1>3. \A p \in Priorities : Len(bands[p]) \in Nat /\ DOMAIN bands[p] = 1..Len(bands[p])
  BY <1>1
<1>4. \A e \in Entry : e.g \in Groups /\ e.ver \in Nat
  BY DEF Entry
<1> QED BY ONLY <1>1, <1>2, <1>3, <1>4

LEMMA GroupsIn ==
  ASSUME ContentInv, NEW g \in Groups
  PROVE  /\ grp[g] \in Group /\ grp[g].version \in Nat /\ grp[g].inBand \in BOOLEAN
         /\ grp[g].locked \in BOOLEAN /\ grp[g].msgs \in Seq(Seqs)
BY DEF ContentInv, Group

LEMMA FreshWhen ==
  ASSUME ContentInv, BandsInv, NEW g \in Groups, NEW v \in Nat,
         v > grp[g].version \/ (v = grp[g].version /\ ~grp[g].inBand)
  PROVE  Fresh(g, v)
<1> SUFFICES ASSUME NEW p \in Priorities, NEW i \in DOMAIN bands[p], bands[p][i].g = g
             PROVE  bands[p][i].ver < v
  BY DEF Fresh
<1>1. bands[p][i].ver \in Nat /\ grp[g].version \in Nat
  BY BandsIn, GroupsIn
<1>2. bands[p][i].ver <= grp[g].version
  BY DEF BandsInv, NoneAhead
<1>3. bands[p][i].ver = grp[g].version => grp[g].inBand
  BY DEF BandsInv, NotElsewhere, At
<1> QED BY <1>1, <1>2, <1>3

(* The head of a group keeps its priority. *)
LEMMA HeadIs ==
  ASSUME ContentInv, NEW g \in Groups, grp[g].msgs # <<>>
  PROVE  /\ Head(grp[g].msgs) \in 1..Len(msgs) /\ Head(grp[g].msgs) = grp[g].msgs[1]
         /\ 1 \in DOMAIN grp[g].msgs
<1>1. grp[g].msgs \in Seq(Seqs) /\ OwnList(g, grp[g].msgs, msgs)
  BY DEF ContentInv, Group
<1>2. 1 \in DOMAIN grp[g].msgs /\ Head(grp[g].msgs) = grp[g].msgs[1]
  BY <1>1
<1> QED BY <1>1, <1>2 DEF OwnList

LEMMA HeadPrioIn ==
  ASSUME ContentInv, MsgsKept, NEW g \in Groups, grp[g].msgs # <<>>
  PROVE  HeadPrio(g) \in Priorities
<1>1. Head(grp[g].msgs) \in 1..Len(msgs)
  BY HeadIs
<1>2. msgs[Head(grp[g].msgs)] \in Message
  BY <1>1, ElementOfSeq DEF MsgsKept, MsgsOK
<1> QED BY <1>2 DEF HeadPrio, Message

LEMMA HeadStays ==
  ASSUME ContentInv, PriosKept, NEW g \in Groups, grp[g].msgs # <<>>,
         grp'[g].msgs # <<>>, Head(grp'[g].msgs) = Head(grp[g].msgs)
  PROVE  HeadPrio(g)' = HeadPrio(g)
<1>1. Head(grp[g].msgs) \in 1..Len(msgs)
  BY HeadIs
<1> QED BY <1>1 DEF HeadPrio, PriosKept

(* Group g is put back as it was listed, or as one that cannot be served. *)
LEMMA PutKeeps ==
  ASSUME ContentInv, BandsInv, PriosKept, NEW g \in Groups,
         grp'[g] \in Group, UNCHANGED bands,
         \A h \in Groups \ {g} : grp'[h] = grp[h],
         \/ /\ grp'[g].inBand /\ grp[g].inBand /\ grp'[g].version = grp[g].version
            /\ ~grp'[g].locked /\ grp'[g].msgs # <<>>
            /\ Head(grp'[g].msgs) = Head(grp[g].msgs)
         \/ /\ ~grp'[g].inBand /\ Fresh(g, grp'[g].version)
            /\ grp'[g].locked \/ grp'[g].msgs = <<>>
  PROVE  BandsInv'
<1>0. /\ \A p \in Priorities : \A i \in DOMAIN bands[p] :
           bands[p][i].g \in Groups /\ bands[p][i].ver \in Nat
      /\ \A h \in Groups : grp[h].version \in Nat /\ grp'[h].version \in Nat
  BY BandsIn, GroupsIn DEF Group
<1>1. NoneAhead'
  <2> SUFFICES ASSUME NEW p \in Priorities, NEW i \in DOMAIN bands[p]
               PROVE  bands[p][i].ver <= grp'[bands[p][i].g].version
    BY DEF NoneAhead
  <2>1. bands[p][i].ver <= grp[bands[p][i].g].version
    BY DEF BandsInv, NoneAhead
  <2> QED BY <1>0, <2>1 DEF Fresh
<1>2. Marked'
  BY DEF BandsInv, Marked
<1>3. ASSUME NEW h \in Groups, grp'[h].inBand
      PROVE  grp[h].inBand /\ grp'[h].version = grp[h].version /\ HeadPrio(h)' = HeadPrio(h)
  <2>1. grp[h].inBand /\ grp'[h].version = grp[h].version
    BY <1>3
  <2>2. grp[h].msgs # <<>>
    BY <2>1 DEF BandsInv, Marked
  <2>3. grp'[h].msgs # <<>> /\ Head(grp'[h].msgs) = Head(grp[h].msgs)
    BY <1>3, <2>2
  <2> QED BY <2>1, <2>2, <2>3, HeadStays
<1>4. InItsBand'
  BY <1>3 DEF BandsInv, InItsBand, At
<1>5. ASSUME NEW h \in Groups, NEW p \in Priorities, NEW i, At(h, p, i)'
      PROVE  grp'[h].inBand /\ At(h, p, i)
  <2>1. CASE h # g
    <3>1. At(h, p, i)
      BY <1>5, <2>1 DEF At
    <3> QED BY <2>1, <3>1 DEF BandsInv, NotElsewhere
  <2>2. CASE h = g
    <3>1. grp'[g].inBand
      BY <1>0, <1>5, <2>2 DEF At, Fresh
    <3> QED BY <1>3, <1>5, <2>2, <3>1 DEF At
  <2> QED BY <2>1, <2>2
<1>6. NotElsewhere'
  BY <1>3, <1>5 DEF BandsInv, NotElsewhere
<1>7. OneEntry'
  BY <1>5 DEF BandsInv, OneEntry
<1> QED BY <1>1, <1>2, <1>4, <1>6, <1>7 DEF BandsInv

(* Group g is listed anew at the end of the band of its head. *)
LEMMA PushKeeps ==
  ASSUME ContentInv, BandsInv, MsgsKept, PriosKept, NEW g \in Groups, NEW v \in Nat, Fresh(g, v),
         NEW p \in Priorities, grp'[g].msgs # <<>>, HeadPrio(g)' = p,
         grp'[g].version = v + 1, grp'[g].inBand, ~grp'[g].locked,
         \A h \in Groups \ {g} : grp'[h] = grp[h],
         bands' = [bands EXCEPT ![p] = Append(@, [g |-> g, ver |-> v + 1])]
  PROVE  BandsInv'
<1> DEFINE e == [g |-> g, ver |-> v + 1]
<1>p. PICK l \in Nat : l = Len(bands[p])
  BY BandsIn
<1>0. /\ \A q \in Priorities : \A i \in DOMAIN bands[q] :
           bands[q][i].g \in Groups /\ bands[q][i].ver \in Nat
      /\ \A h \in Groups : grp[h].version \in Nat /\ grp'[h].version \in Nat
      /\ l \in Nat /\ DOMAIN bands[p] = 1..l
  BY <1>p, BandsIn, GroupsIn
<1>1. /\ \A q \in Priorities \ {p} : bands'[q] = bands[q]
      /\ DOMAIN bands'[p] = 1..(l + 1)
      /\ \A i \in 1..l : bands'[p][i] = bands[p][i]
      /\ bands'[p][l + 1].g = g /\ bands'[p][l + 1].ver = v + 1
  <2>1. bands \in [Priorities -> Seq(Entry)] /\ e \in Entry
    <3>1. v + 1 \in Nat
      OBVIOUS
    <3> QED BY <3>1 DEF ContentInv, Entry
  <2>2. e.g = g /\ e.ver = v + 1
    OBVIOUS
  <2>3. bands'[p] = Append(bands[p], e) /\ \A q \in Priorities \ {p} : bands'[q] = bands[q]
    BY <2>1
  <2> HIDE DEF e
  <2>4. bands[p] \in Seq(Entry)
    BY <2>1
  <2>5. /\ Append(bands[p], e) \in Seq(Entry) /\ Len(Append(bands[p], e)) = l + 1
        /\ \A i \in 1..l : Append(bands[p], e)[i] = bands[p][i]
        /\ Append(bands[p], e)[l + 1] = e
    BY <1>p, <2>1, <2>4, AppendProperties
  <2>6. DOMAIN Append(bands[p], e) = 1..(l + 1)
    BY <2>5
  <2> QED BY <2>2, <2>3, <2>5, <2>6
<1> HIDE DEF e
<1>2. ASSUME NEW q \in Priorities, NEW i \in DOMAIN bands'[q]
      PROVE  \/ i \in DOMAIN bands[q] /\ bands'[q][i] = bands[q][i]
             \/ q = p /\ i = l + 1
  <2>1. CASE q # p
    BY <1>1, <2>1
  <2>2. CASE q = p
    <3>1. i \in 1..l \/ i = l + 1
      BY ONLY <1>0, <1>1, <1>2, <2>2
    <3> QED BY <1>0, <1>1, <2>2, <3>1
  <2> QED BY <2>1, <2>2
<1>3. NoneAhead'
  <2> SUFFICES ASSUME NEW q \in Priorities, NEW i \in DOMAIN bands'[q]
               PROVE  bands'[q][i].ver <= grp'[bands'[q][i].g].version
    BY DEF NoneAhead
  <2>1. CASE i \in DOMAIN bands[q] /\ bands'[q][i] = bands[q][i]
    <3>1. bands[q][i].ver <= grp[bands[q][i].g].version
      BY <2>1 DEF BandsInv, NoneAhead
    <3>2. bands[q][i].g = g => bands[q][i].ver < v
      BY <2>1 DEF Fresh
    <3> QED BY <1>0, <2>1, <3>1, <3>2
  <2>2. CASE q = p /\ i = l + 1
    BY <1>1, <2>2
  <2> QED BY <1>2, <2>1, <2>2
<1>4. Marked'
  BY DEF BandsInv, Marked
<1>5. \A h \in Groups \ {g} : grp[h].msgs # <<>> => HeadPrio(h)' = HeadPrio(h)
  BY HeadStays
<1>6. At(g, p, l + 1)' /\ \A q \in Priorities : \A i : At(g, q, i)' => q = p /\ i = l + 1
  <2>1. l + 1 \in DOMAIN bands'[p]
    BY <1>0, <1>1
  <2>2. At(g, p, l + 1)'
    BY <1>1, <2>1 DEF At
  <2>3. ASSUME NEW q \in Priorities, NEW i, At(g, q, i)'
        PROVE  q = p /\ i = l + 1
    <3>1. i \in DOMAIN bands'[q] /\ bands'[q][i].g = g /\ bands'[q][i].ver = v + 1
      BY <2>3 DEF At
    <3>2. ~(i \in DOMAIN bands[q] /\ bands'[q][i] = bands[q][i])
      BY <1>0, <3>1 DEF Fresh
    <3> QED BY <1>2, <3>1, <3>2
  <2> QED BY <2>2, <2>3
<1>7. ASSUME NEW h \in Groups \ {g}, NEW q \in Priorities, NEW i
      PROVE  At(h, q, i)' <=> At(h, q, i)
  <2>1. ASSUME At(h, q, i) PROVE At(h, q, i)'
    <3>1. CASE q # p
      BY <1>1, <2>1, <3>1 DEF At
    <3>2. CASE q = p
      <4>1. i \in 1..l /\ i \in 1..(l + 1)
        BY ONLY <1>0, <2>1, <3>2 DEF At
      <4> QED BY <1>1, <2>1, <3>2, <4>1 DEF At
    <3> QED BY <3>1, <3>2
  <2>2. ASSUME At(h, q, i)' PROVE At(h, q, i)
    <3>1. i \in DOMAIN bands'[q] /\ bands'[q][i].g = h
      BY <2>2 DEF At
    <3>2. i \in DOMAIN bands[q] /\ bands'[q][i] = bands[q][i]
      BY <1>1, <1>2, <3>1
    <3> QED BY <2>2, <3>2 DEF At
  <2> QED BY <2>1, <2>2
<1>8. ASSUME NEW h \in Groups \ {g}, grp[h].inBand
      PROVE  HeadPrio(h)' = HeadPrio(h) /\ HeadPrio(h) \in Priorities
  <2>1. grp[h].msgs # <<>>
    BY <1>8 DEF BandsInv, Marked
  <2> QED BY <1>5, <2>1, HeadPrioIn
<1>9. InItsBand'
  BY <1>6, <1>7, <1>8 DEF BandsInv, InItsBand
<1>10. NotElsewhere'
  BY <1>6, <1>7, <1>8 DEF BandsInv, NotElsewhere
<1>11. OneEntry'
  BY <1>6, <1>7 DEF BandsInv, OneEntry
<1> QED BY <1>3, <1>4, <1>9, <1>10, <1>11 DEF BandsInv

LEMMA PutRelists ==
  ASSUME ContentInv, BandsInv, MaskExact, PriosKept, NEW g \in Groups, NEW r \in Group,
         PutGroup(g, r),
         \/ /\ r.inBand /\ grp[g].inBand /\ r.version = grp[g].version
            /\ ~r.locked /\ r.msgs # <<>> /\ Head(r.msgs) = Head(grp[g].msgs)
         \/ ~r.inBand /\ Fresh(g, r.version) /\ (r.locked \/ r.msgs = <<>>)
  PROVE  BandsInv' /\ MaskExact'
<1>1. /\ grp'[g] = r /\ \A h \in Groups \ {g} : grp'[h] = grp[h]
      /\ UNCHANGED <<bands, bandMask>>
  BY DEF PutGroup, ContentInv
<1>2. BandsInv'
  BY <1>1, PutKeeps
<1> QED BY <1>1, <1>2 DEF MaskExact

(* A group that is put back as it was listed, or that is listed again if   *)
(* it can be served, is in the index as it should be.                      *)
LEMMA Relists ==
  ASSUME ContentInv, BandsInv, MaskExact, MsgsKept, PriosKept,
         NEW g \in Groups, NEW r \in Group, OwnList(g, r.msgs, msgs'),
         PushIfUnlisted(g, r),
         \/ /\ r.inBand /\ grp[g].inBand /\ r.version = grp[g].version
            /\ ~r.locked /\ r.msgs # <<>> /\ Head(r.msgs) = Head(grp[g].msgs)
         \/ ~r.inBand /\ Fresh(g, r.version)
  PROVE  BandsInv' /\ MaskExact'
<1>1. CASE PutGroup(g, r) /\ (r.inBand \/ r.locked \/ r.msgs = <<>>)
  BY <1>1, PutRelists
<1>2. CASE ~(PutGroup(g, r) /\ (r.inBand \/ r.locked \/ r.msgs = <<>>))
  <2> DEFINE p == msgs'[Head(r.msgs)].prio
             r1 == [r EXCEPT !.version = @ + 1]
             r2 == [r EXCEPT !.version = @ + 1, !.inBand = TRUE]
  <2>1. /\ ~r.inBand /\ r.msgs # <<>> /\ ~r.locked
        /\ grp' = [grp EXCEPT ![g] = r2]
        /\ bands' = [bands EXCEPT ![p] = Append(@, [g |-> g, ver |-> r.version + 1])]
        /\ bandMask' = bandMask \cup {p}
    BY <1>2 DEF PushIfUnlisted, PushGroup
  <2>2. p \in Priorities
    <3>1. Head(r.msgs) \in 1..Len(msgs')
      BY <2>1 DEF OwnList, Group
    <3>2. msgs'[Head(r.msgs)] \in Message
      BY <3>1 DEF MsgsKept, MsgsOK
    <3> QED BY <3>2 DEF Message
  <2>3. r.version \in Nat /\ r1 \in Group /\ r1.msgs = r.msgs /\ r1.locked = r.locked
        /\ r1.version = r.version + 1
    BY DEF Group
  <2>4. r2 = [r1 EXCEPT !.inBand = TRUE]
    BY Zenon
  <2> HIDE DEF r1, r2, p
  <2>5. r2.msgs = r.msgs /\ r2.locked = r.locked /\ r2.version = r.version + 1 /\ r2.inBand
    BY <2>3, <2>4 DEF Group
  <2>6. grp'[g] = r2 /\ \A h \in Groups \ {g} : grp'[h] = grp[h]
    BY <2>1 DEF ContentInv
  <2>7. /\ grp'[g].msgs # <<>> /\ HeadPrio(g)' = p
        /\ grp'[g].version = r.version + 1 /\ grp'[g].inBand /\ ~grp'[g].locked
    BY <2>1, <2>5, <2>6 DEF HeadPrio, p
  <2>8. Fresh(g, r.version)
    BY <2>1
  <2>9. BandsInv'
    BY <2>1, <2>2, <2>3, <2>6, <2>7, <2>8, PushKeeps
  <2>10. MaskExact'
    <3> DEFINE e == [g |-> g, ver |-> r.version + 1]
    <3>1. bands \in [Priorities -> Seq(Entry)] /\ bands[p] \in Seq(Entry)
      BY <2>2 DEF ContentInv
    <3>2. e \in Entry
      BY <2>3 DEF Entry
    <3> HIDE DEF e
    <3>4. Append(bands[p], e) # <<>>
      BY <3>1, <3>2, AppendProperties
    <3>3. bands'[p] # <<>> /\ \A q \in Priorities \ {p} : bands'[q] = bands[q]
      BY <2>1, <2>2, <3>1, <3>4 DEF e
    <3> QED BY <2>1, <2>2, <3>3 DEF MaskExact
  <2> QED BY <2>9, <2>10
<1> QED BY <1>1, <1>2

(* What is left of a band when its first i entries are popped. *)
LEMMA PopLeaves ==
  ASSUME ContentInv, NEW p \in Priorities, NEW i \in 0..Len(bands[p]), PopBand(p, i),
         MaskExact
  PROVE  /\ MaskExact'
         /\ \A q \in Priorities \ {p} : bands'[q] = bands[q]
         /\ \A j : j \in DOMAIN bands'[p] <=> /\ j \in Nat \ {0}
                                              /\ i + j \in DOMAIN bands[p]
         /\ \A j \in DOMAIN bands'[p] : bands'[p][j] = bands[p][i + j]
<1> DEFINE s == bands[p]
           t == SubSeq(s, i + 1, Len(s))
<1>1. bands \in [Priorities -> Seq(Entry)] /\ s \in Seq(Entry)
  BY DEF ContentInv
<1>2. PICK l \in Nat : l = Len(s) /\ DOMAIN s = 1..l /\ i \in 0..l
  BY <1>1
<1> HIDE DEF s
<1>3. t \in Seq(Entry) /\ Len(t) = l - i /\ \A j \in 1..(l - i) : t[j] = s[i + j]
  <2>1. \A j \in (i + 1)..l : s[j] \in Entry
    <3> TAKE j \in (i + 1)..l
    <3>1. j \in 1..l
      BY ONLY <1>2
    <3> QED BY <1>1, <1>2, <3>1, ElementOfSeq
  <2>2. i + 1 \in Int /\ l \in Int
    BY <1>2
  <2>3. /\ t \in Seq(Entry)
        /\ Len(t) = IF i + 1 <= l THEN l - (i + 1) + 1 ELSE 0
        /\ \A j \in 1..(l - (i + 1) + 1) : t[j] = s[i + 1 + j - 1]
    BY <1>2, <2>1, <2>2, SubSeqProperties
  <2> HIDE DEF t
  <2>4. Len(t) = l - i
    BY ONLY <1>2, <2>3
  <2>5. ASSUME NEW j \in 1..(l - i) PROVE t[j] = s[i + j]
    <3>1. j \in 1..(l - (i + 1) + 1) /\ i + 1 + j - 1 = i + j
      BY ONLY <1>2, <2>5
    <3> QED BY <2>3, <3>1
  <2> QED BY <2>3, <2>4, <2>5
<1> HIDE DEF t
<1>4. DOMAIN t = 1..(l - i)
  BY <1>2, <1>3
<1>5. bands'[p] = t /\ \A q \in Priorities \ {p} : bands'[q] = bands[q]
  BY <1>1 DEF PopBand, s, t
<1>6. \A j : j \in 1..(l - i) <=> j \in Nat \ {0} /\ i + j \in 1..l
  BY ONLY <1>2
<1>7. MaskExact'
  <2>1. bandMask' = IF i = l THEN bandMask \ {p} ELSE bandMask
    BY <1>2 DEF PopBand, s
  <2>2. t = <<>> <=> i = l
    BY <1>2, <1>3
  <2>3. i < l => s # <<>>
    BY <1>1, <1>2
  <2>4. i # l => i < l
    BY ONLY <1>2
  <2> QED BY <1>5, <2>1, <2>2, <2>3, <2>4 DEF MaskExact, s
<1> QED BY <1>2, <1>3, <1>4, <1>5, <1>6, <1>7 DEF s

(* Popping stale entries, and the one of group g if it is no more served,  *)
(* leaves the others listed.                                               *)
LEMMA PopKeeps ==
  ASSUME ContentInv, BandsInv, MaskExact, MsgsKept, PriosKept,
         NEW p \in Priorities, NEW i \in 0..Len(bands[p]), PopBand(p, i),
         NEW out \in SUBSET Groups,
         \A g \in out : At(g, p, i) /\ ~grp'[g].inBand
                        /\ (grp'[g].locked \/ grp'[g].msgs = <<>>),
         \A g \in Groups : grp'[g].version = grp[g].version,
         \A g \in Groups \ out : /\ grp'[g].inBand = grp[g].inBand
                                 /\ grp'[g].locked = grp[g].locked
                                 /\ grp'[g].msgs = grp[g].msgs
                                 /\ \A j \in 1..i : ~At(g, p, j)
  PROVE  BandsInv' /\ MaskExact'
<1>1. /\ MaskExact'
      /\ \A q \in Priorities \ {p} : bands'[q] = bands[q]
      /\ \A j : j \in DOMAIN bands'[p] <=> j \in Nat \ {0} /\ i + j \in DOMAIN bands[p]
      /\ \A j \in DOMAIN bands'[p] : bands'[p][j] = bands[p][i + j]
  BY PopLeaves
<1>2. PICK l \in Nat : l = Len(bands[p]) /\ DOMAIN bands[p] = 1..l /\ i \in 0..l
  BY BandsIn
<1>3. \A g \in Groups : \A j : At(g, p, j)' <=> j \in Nat \ {0} /\ At(g, p, i + j)
  BY <1>1 DEF At
<1>4. \A g \in Groups, q \in Priorities \ {p} : \A j : At(g, q, j)' <=> At(g, q, j)
  BY <1>1 DEF At
<1>5. \A g \in Groups \ out : grp[g].msgs # <<>> => HeadPrio(g)' = HeadPrio(g)
  BY HeadStays
<1>6. \A g \in out, q \in Priorities : \A j : ~At(g, q, j)'
  <2> SUFFICES ASSUME NEW g \in out, NEW q \in Priorities, NEW j, At(g, q, j)' PROVE FALSE
    OBVIOUS
  <2>1. CASE q = p
    <3>1. j \in Nat \ {0} /\ At(g, p, i + j) /\ At(g, p, i)
      BY <1>3, <2>1
    <3>2. i + j = i
      BY <3>1 DEF BandsInv, OneEntry
    <3> QED BY ONLY <1>2, <3>1, <3>2
  <2>2. CASE q # p
    <3>1. At(g, q, j) /\ At(g, p, i)
      BY <1>4, <2>2
    <3> QED BY <2>2, <3>1 DEF BandsInv, NotElsewhere
  <2> QED BY <2>1, <2>2
<1>7. NoneAhead'
  <2> SUFFICES ASSUME NEW q \in Priorities, NEW j \in DOMAIN bands'[q]
               PROVE  bands'[q][j].ver <= grp'[bands'[q][j].g].version
    BY DEF NoneAhead
  <2>1. PICK k \in DOMAIN bands[q] : bands'[q][j] = bands[q][k]
    BY <1>1
  <2>2. bands[q][k].ver <= grp[bands[q][k].g].version /\ bands[q][k].g \in Groups
    BY BandsIn DEF BandsInv, NoneAhead
  <2> QED BY <2>1, <2>2
<1>8. Marked'
  BY DEF BandsInv, Marked
<1>9. ASSUME NEW g \in Groups, grp'[g].inBand
      PROVE  \E j : At(g, HeadPrio(g), j)'
  <2>1. g \notin out /\ grp[g].inBand /\ grp[g].msgs # <<>>
    BY <1>9 DEF BandsInv, Marked
  <2>2. HeadPrio(g)' = HeadPrio(g)
    BY <1>5, <2>1
  <2>3. PICK k : At(g, HeadPrio(g), k)
    BY <2>1 DEF BandsInv, InItsBand
  <2>4. CASE HeadPrio(g) = p
    <3>1. k \in 1..l /\ k \notin 1..i
      BY <1>2, <2>1, <2>3, <2>4 DEF At
    <3>2. PICK j \in Nat \ {0} : k = i + j
      <4>1. k - i \in Nat \ {0} /\ k = i + (k - i)
        BY ONLY <1>2, <3>1
      <4> QED BY <4>1
    <3>3. At(g, p, j)'
      BY <1>3, <2>3, <2>4, <3>2
    <3> QED BY <2>2, <2>4, <3>3
  <2>5. CASE HeadPrio(g) # p
    <3>1. HeadPrio(g) \in Priorities
      BY <2>1, HeadPrioIn
    <3> QED BY <1>4, <2>2, <2>3, <2>5, <3>1
  <2> QED BY <2>4, <2>5
<1>10. InItsBand'
  BY <1>9 DEF InItsBand
<1>11. ASSUME NEW g \in Groups, NEW q \in Priorities, NEW j, At(g, q, j)'
       PROVE  grp'[g].inBand /\ HeadPrio(g)' = q
  <2>1. g \notin out
    BY <1>6, <1>11
  <2>2. \E k : At(g, q, k)
    BY <1>3, <1>4, <1>11
  <2>3. grp[g].inBand /\ HeadPrio(g) = q
    BY <2>2 DEF BandsInv, NotElsewhere
  <2>4. grp[g].msgs # <<>>
    BY <2>3 DEF BandsInv, Marked
  <2> QED BY <1>5, <2>1, <2>3, <2>4
<1>12. NotElsewhere'
  BY <1>11 DEF NotElsewhere
<1>13. ASSUME NEW g \in Groups, NEW q \in Priorities, NEW j, NEW k,
              At(g, q, j)', At(g, q, k)'
       PROVE  j = k
  <2>1. CASE q = p
    <3>1. j \in Nat /\ k \in Nat /\ At(g, p, i + j) /\ At(g, p, i + k)
      BY <1>3, <1>13, <2>1
    <3>2. i + j = i + k
      BY <3>1 DEF BandsInv, OneEntry
    <3> QED BY ONLY <1>2, <3>1, <3>2
  <2>2. CASE q # p
    BY <1>4, <1>13, <2>2 DEF BandsInv, OneEntry
  <2> QED BY <2>1, <2>2
<1>14. OneEntry'
  BY <1>13 DEF OneEntry
<1> QED BY <1>1, <1>7, <1>8, <1>10, <1>12, <1>14 DEF BandsInv

IndexHas == BandsInv /\ MaskExact /\ GroupsExact

(* The map of groups after a step that changed group g only. *)
LEMMA GroupsFollow ==
  ASSUME GroupsExact, NEW g \in Groups,
         \A h \in Groups \ {g} : /\ grp'[h].locked = grp[h].locked
                                 /\ grp'[h].msgs = grp[h].msgs,
         groups' = IF grp'[g].locked \/ grp'[g].msgs # <<>>
                   THEN groups \cup {g} ELSE groups \ {g}
  PROVE  GroupsExact'
BY DEF GroupsExact

(* Nothing but messages, leases and clocks changed. *)
LEMMA SameIndex ==
  ASSUME ContentInv, IndexHas, PriosKept, UNCHANGED content
  PROVE  IndexHas'
<1>1. UNCHANGED <<grp, groups, bands, bandMask>>
  BY DEF content
<1>2. \A g \in Groups : grp[g].msgs # <<>> => HeadPrio(g)' = HeadPrio(g)
  BY <1>1, HeadStays
<1>3. \A g \in Groups, p \in Priorities : \A i : At(g, p, i)' <=> At(g, p, i)
  BY <1>1 DEF At
<1>4. \A g \in Groups : grp[g].inBand => HeadPrio(g)' = HeadPrio(g)
  BY <1>2 DEF IndexHas, BandsInv, Marked
<1>5. NoneAhead' /\ Marked' /\ OneEntry'
  BY <1>1, <1>3 DEF IndexHas, BandsInv, NoneAhead, Marked, OneEntry
<1>6. InItsBand' /\ NotElsewhere'
  BY <1>1, <1>3, <1>4 DEF IndexHas, BandsInv, InItsBand, NotElsewhere, At
<1> QED BY <1>1, <1>5, <1>6 DEF IndexHas, BandsInv, MaskExact, GroupsExact

LEMMA AdmitListed ==
  ASSUME ContentInv, groups \subseteq Groups, IndexHas, MsgsKept, PriosKept,
         NEW n \in 1..Len(msgs'), Admit(n)
  PROVE  IndexHas'
<1> DEFINE g == msgs'[n].group
           r == [grp[g] EXCEPT !.msgs = Append(@, n)]
<1>1. g \in Groups /\ Became(g, r) /\ ContentInv'
  BY AdmitType
<1>2. PushIfUnlisted(g, r) /\ groups' = groups \cup {g}
  BY DEF Admit
<1> HIDE DEF g
<1>3. n \in Seqs
  BY SlotAssumption DEF MsgsKept, MsgsOK, Seqs
<1>4. grp[g] \in Group /\ grp[g].msgs \in Seq(Seqs) /\ grp[g].version \in Nat
  BY <1>1, GroupsIn
<1>5. /\ Append(grp[g].msgs, n) \in Seq(Seqs) /\ Append(grp[g].msgs, n) # <<>>
      /\ grp[g].msgs # <<>> => Head(Append(grp[g].msgs, n)) = Head(grp[g].msgs)
  BY <1>3, <1>4
<1>6. /\ r \in Group /\ r.msgs = Append(grp[g].msgs, n) /\ r.inBand = grp[g].inBand
      /\ r.locked = grp[g].locked /\ r.version = grp[g].version
  BY <1>4, <1>5 DEF Group
<1> HIDE DEF r
<1>7. OwnList(g, r.msgs, msgs')
  BY <1>1 DEF Became, ContentInv
<1>8. ASSUME grp[g].inBand PROVE BandsInv' /\ MaskExact'
  <2>1. ~grp[g].locked /\ grp[g].msgs # <<>>
    BY <1>1, <1>8 DEF IndexHas, BandsInv, Marked
  <2> QED BY <1>1, <1>2, <1>5, <1>6, <1>7, <1>8, <2>1, Relists DEF IndexHas
<1>9. ASSUME ~grp[g].inBand PROVE BandsInv' /\ MaskExact'
  <2>1. Fresh(g, r.version)
    BY <1>1, <1>4, <1>6, <1>9, FreshWhen DEF IndexHas
  <2> QED BY <1>1, <1>2, <1>6, <1>7, <1>9, <2>1, Relists DEF IndexHas
<1>10. GroupsExact'
  <2>1. grp'[g].msgs # <<>>
    BY <1>1, <1>5, <1>6 DEF Became
  <2> QED BY <1>1, <1>2, <2>1, GroupsFollow DEF IndexHas, Became
<1> QED BY <1>8, <1>9, <1>10 DEF IndexHas

LEMMA UnlockListed ==
  ASSUME ContentInv, groups \subseteq Groups, IndexHas, MsgsKept, PriosKept,
         NEW g \in Groups, NEW r \in Group, OwnList(g, r.msgs, msgs'),
         grp[g].locked, ~r.inBand, r.version = grp[g].version, Unlock(g, r)
  PROVE  IndexHas'
<1> DEFINE u == [r EXCEPT !.locked = FALSE]
<1>1. /\ u \in Group /\ u.msgs = r.msgs /\ u.inBand = FALSE /\ u.version = grp[g].version
      /\ u.locked = FALSE
  BY DEF Group
<1>2. Became(g, u)
  BY UnlockType
<1>3. /\ IF u.msgs = <<>> THEN PutGroup(g, u) ELSE PushIfUnlisted(g, u)
      /\ IF u.msgs = <<>> THEN DropGroupIfIdle(g) ELSE UNCHANGED groups
  BY DEF Unlock
<1> HIDE DEF u
<1>4. ~grp[g].inBand /\ grp[g].version \in Nat
  BY GroupsIn DEF IndexHas, BandsInv, Marked
<1>5. Fresh(g, u.version)
  BY <1>1, <1>4, FreshWhen DEF IndexHas
<1>6. BandsInv' /\ MaskExact'
  <2>1. CASE u.msgs = <<>>
    <3>1. PutGroup(g, u)
      BY <1>3, <2>1
    <3> QED BY <1>1, <1>5, <2>1, <3>1, PutRelists DEF IndexHas
  <2>2. CASE u.msgs # <<>>
    <3>1. PushIfUnlisted(g, u) /\ OwnList(g, u.msgs, msgs')
      BY <1>1, <1>3, <2>2
    <3> QED BY <1>1, <1>5, <2>2, <3>1, Relists DEF IndexHas
  <2> QED BY <2>1, <2>2
<1>7. GroupsExact'
  <2>1. grp'[g].msgs = u.msgs /\ ~grp'[g].locked
    BY <1>1, <1>2 DEF Became
  <2>2. CASE u.msgs = <<>>
    <3>1. DropGroupIfIdle(g) /\ ~grp'[g].inBand
      BY <1>3, <1>6, <2>1, <2>2 DEF BandsInv, Marked
    <3>2. groups' = groups \ {g}
      BY <2>1, <2>2, <3>1 DEF DropGroupIfIdle
    <3> QED BY <1>2, <2>1, <2>2, <3>2, GroupsFollow DEF IndexHas, Became
  <2>3. CASE u.msgs # <<>>
    <3>1. groups' = groups /\ g \in groups
      BY <1>3, <2>3 DEF IndexHas, GroupsExact
    <3> QED BY <1>2, <2>1, <2>3, <3>1, GroupsFollow DEF IndexHas, Became
  <2> QED BY <2>2, <2>3
<1> QED BY <1>6, <1>7 DEF IndexHas

(* The group of a lease is locked, so it is not listed. *)
LEMMA LeaseLocks ==
  ASSUME LockInv, NEW n \in Seqs, inflight[n] # 0
  PROVE  n \in 1..Len(msgs) /\ msgs[n] \in Message
         /\ msgs[n].group \in Groups /\ grp[msgs[n].group].locked
<1>1. n \in InFlight /\ n \in 1..Len(msgs)
  BY DEF LockInv, TypeInv, InFlight
<1>2. msgs[n] \in Message
  BY <1>1, ElementOfSeq DEF LockInv, TypeInv, TypeOK
<1>3. msgs[n].group \in Groups
  BY <1>2 DEF Message
<1> QED BY <1>1, <1>2, <1>3 DEF LockInv, LockedByOneLease

LEMMA RetirePrios ==
  ASSUME TypeInv, NEW n \in 1..Len(msgs), NEW t \in Nat, NEW delay \in Nat,
         UNCHANGED msgs \/ msgs' = [msgs EXCEPT ![n].deliverAfter = t + delay]
  PROVE  PriosKept
<1>1. CASE UNCHANGED msgs
  BY <1>1, SamePrios
<1>2. CASE msgs' = [msgs EXCEPT ![n].deliverAfter = t + delay]
  <2> DEFINE m == [msgs[n] EXCEPT !.deliverAfter = t + delay]
  <2>1. msgs[n] \in Message
    BY ElementOfSeq DEF TypeInv, TypeOK
  <2>2. m.prio = msgs[n].prio /\ msgs' = [msgs EXCEPT ![n] = m]
    BY <1>2, <2>1 DEF Message
  <2> HIDE DEF m
  <2> QED BY <2>2, ChangedPrio
<1> QED BY <1>1, <1>2

LEMMA RetireListed ==
  ASSUME LockInv, IndexHas, NEW n \in Seqs, inflight[n] # 0, NEW t \in Nat, NEW delay \in Nat,
         Retire(n, t, delay)
  PROVE  IndexHas'
<1> DEFINE g == msgs[n].group
           back == [grp[g] EXCEPT !.msgs = <<n>> \o @]
<1>1. /\ n \in 1..Len(msgs) /\ g \in Groups /\ grp[g].locked
      /\ ContentInv /\ TypeInv /\ groups \subseteq Groups
  BY LeaseLocks DEF LockInv, TypeInv, TypeOK
<1>2. MsgsKept
  BY <1>1, RetireType
<1>3. PriosKept
  BY <1>1, RetirePrios DEF Retire
<1>4. Unlock(g, grp[g]) \/ Unlock(g, back)
  BY DEF Retire
<1>5. /\ grp[g] \in Group /\ OwnList(g, grp[g].msgs, msgs)
      /\ back \in Group /\ OwnList(g, back.msgs, msgs)
      /\ back.inBand = grp[g].inBand /\ back.version = grp[g].version
  <2>1. grp[g] \in Group /\ OwnList(g, grp[g].msgs, msgs)
    BY <1>1 DEF ContentInv
  <2>2. back \in Group /\ OwnList(g, back.msgs, msgs)
    BY <1>1, PutBackType
  <2> QED BY <2>1, <2>2 DEF Group
<1> HIDE DEF g, back
<1>6. ~grp[g].inBand
  BY <1>1 DEF IndexHas, BandsInv, Marked
<1>7. PICK r \in Group : /\ OwnList(g, r.msgs, msgs) /\ Unlock(g, r)
                         /\ ~r.inBand /\ r.version = grp[g].version
  BY <1>4, <1>5, <1>6
<1>8. OwnList(g, r.msgs, msgs')
  BY <1>2, <1>7, OwnListKept
<1> QED BY <1>1, <1>2, <1>3, <1>7, <1>8, UnlockListed

LEMMA AckListed ==
  ASSUME LockInv, IndexHas, NEW n \in Seqs, NEW e, Ack(n, e)
  PROVE  IndexHas'
<1>1. inflight[n] # 0 /\ UNCHANGED msgs /\ Unlock(msgs[n].group, grp[msgs[n].group])
  BY DEF Ack, Holds
<1> DEFINE g == msgs[n].group
<1>2. g \in Groups /\ grp[g].locked /\ ContentInv /\ TypeInv /\ groups \subseteq Groups
  BY <1>1, LeaseLocks DEF LockInv, TypeInv, TypeOK
<1>3. MsgsKept /\ PriosKept
  BY <1>1, <1>2, SameMsgs, SamePrios
<1>4. grp[g] \in Group /\ OwnList(g, grp[g].msgs, msgs')
  BY <1>1, <1>2 DEF ContentInv
<1>5. ~grp[g].inBand
  BY <1>2 DEF IndexHas, BandsInv, Marked
<1> QED BY <1>1, <1>2, <1>3, <1>4, <1>5, UnlockListed

LEMMA EnqueueListed ==
  ASSUME TypeInv, TypeInv', IndexHas, NEW p \in Priorities, NEW g \in Groups,
         NEW ttl \in TTLs, NEW delay \in Delays, Enqueue(p, g, ttl, delay)
  PROVE  IndexHas'
<1>1. ContentInv /\ groups \subseteq Groups
  BY DEF TypeInv, TypeOK
<1>2. MsgsKept
  BY EnqueueType
<1>3. Len(msgs) + 1 \in 1..Len(msgs') /\ PriosKept
  <2>1. PICK m : msgs' = Append(msgs, m)
    BY DEF Enqueue
  <2>2. msgs \in Seq(Message) /\ Len(msgs) \in Nat
    BY DEF TypeInv, TypeOK
  <2>3. msgs' \in Seq(Message)
    BY DEF TypeInv, TypeOK
  <2> QED BY <2>1, <2>2, <2>3 DEF PriosKept
<1>4. CASE UNCHANGED content
  BY <1>1, <1>3, <1>4, SameIndex
<1>5. CASE Admit(Len(msgs) + 1)
  <2> DEFINE n == Len(msgs) + 1
  <2>1. n \in 1..Len(msgs') /\ Admit(n)
    BY <1>3, <1>5
  <2> HIDE DEF n
  <2> QED BY <1>1, <1>2, <1>3, <2>1, AdmitListed
<1> QED BY <1>4, <1>5 DEF Enqueue

LEMMA ReleaseListed ==
  ASSUME TypeInv, IndexHas, NEW n \in delayed, ReleaseDelayed(n)
  PROVE  IndexHas'
<1>1. ContentInv /\ groups \subseteq Groups
  BY DEF TypeInv, TypeOK
<1>2. MsgsKept
  BY ReleaseDelayedType
<1>3. n \in 1..Len(msgs)
  BY PlacesIn
<1>4. Len(msgs') = Len(msgs) /\ PriosKept
  <2> DEFINE m == [msgs[n] EXCEPT !.deliverAfter = 0]
  <2>1. msgs[n] \in Message
    BY <1>3, ElementOfSeq DEF TypeInv, TypeOK
  <2>2. m \in Message /\ m.group = msgs[n].group /\ m.prio = msgs[n].prio
    BY <2>1 DEF Message
  <2>3. msgs' = [msgs EXCEPT ![n] = m]
    BY DEF ReleaseDelayed
  <2> HIDE DEF m
  <2> QED BY <1>3, <2>2, <2>3, ChangedMsg, ChangedPrio
<1>5. Admit(n) /\ n \in 1..Len(msgs')
  BY <1>3, <1>4 DEF ReleaseDelayed
<1> QED BY <1>1, <1>2, <1>4, <1>5, AdmitListed

(* takeGroup: the groups whose current entries are popped leave the bands. *)
LEMMA UnlistedIs ==
  ASSUME ContentInv, NEW p \in Priorities, NEW i \in 0..Len(bands[p]), NEW h \in Groups
  PROVE  LET u == Unlisted(p, i)[h] IN
         /\ u \in Group
         /\ u.msgs = grp[h].msgs /\ u.locked = grp[h].locked /\ u.version = grp[h].version
         /\ u.inBand <=> grp[h].inBand /\ ~\E j \in 1..i : At(h, p, j)
<1> DEFINE in == grp[h].inBand /\ ~\E j \in 1..i : bands[p][j].g = h /\ Current(bands[p][j])
           u  == [grp[h] EXCEPT !.inBand = in]
<1>1. Unlisted(p, i)[h] = u
  BY DEF Unlisted
<1>2. grp[h] \in Group /\ in \in BOOLEAN
  BY GroupsIn
<1>3. in <=> grp[h].inBand /\ ~\E j \in 1..i : At(h, p, j)
  <2>1. PICK l \in Nat : l = Len(bands[p]) /\ DOMAIN bands[p] = 1..l
    BY BandsIn
  <2>2. \A j \in 1..i : j \in DOMAIN bands[p]
    BY <2>1
  <2> QED BY <2>2 DEF At, Current
<1> HIDE DEF in
<1>4. /\ u \in Group /\ u.msgs = grp[h].msgs /\ u.locked = grp[h].locked
      /\ u.version = grp[h].version /\ u.inBand = in
  BY <1>2 DEF Group
<1> HIDE DEF u
<1> QED BY <1>1, <1>3, <1>4

(* The first servable entry of a band is the first that is not stale. *)
LEMMA FirstIs ==
  ASSUME ContentInv, BandsInv, NEW p \in Priorities, NEW i \in FirstServable(p),
         NEW g, g = bands[p][i].g
  PROVE  /\ g \in Groups /\ i \in 1..Len(bands[p]) /\ i \in 0..Len(bands[p])
         /\ At(g, p, i) /\ ~grp[g].locked /\ grp[g].msgs # <<>>
         /\ \A h \in Groups \ {g} : \A j \in 1..i : ~At(h, p, j)
<1>1. PICK l \in Nat : l = Len(bands[p]) /\ DOMAIN bands[p] = 1..l
  BY BandsIn
<1>2. i \in DOMAIN bands[p] /\ Servable(bands[p][i])
      /\ \A j \in 1..(i - 1) : ~Servable(bands[p][j])
  BY DEF FirstServable
<1>3. g \in Groups /\ At(g, p, i) /\ ~grp[g].locked /\ grp[g].msgs # <<>>
  BY <1>2, BandsIn DEF Servable, Current, At
<1>4. ASSUME NEW h \in Groups \ {g}, NEW j \in 1..i, At(h, p, j) PROVE FALSE
  <2>1. bands[p][j].g = h /\ Current(bands[p][j])
    BY <1>4 DEF At, Current
  <2>2. ~grp[h].locked /\ grp[h].msgs # <<>>
    BY <1>4 DEF BandsInv, NotElsewhere, Marked
  <2>3. j \in 1..(i - 1)
    <3>1. j # i
      BY <2>1
    <3> QED BY ONLY <1>1, <1>2, <3>1, j \in 1..i
  <2> QED BY <1>2, <2>1, <2>2, <2>3 DEF Servable
<1> QED BY <1>1, <1>2, <1>3, <1>4

LEMMA TakeNothingListed ==
  ASSUME TypeInv, IndexHas, NEW p \in Priorities, TakeNothing(p)
  PROVE  IndexHas'
<1>1. PICK l \in Nat : l = Len(bands[p]) /\ l \in 0..Len(bands[p]) /\ DOMAIN bands[p] = 1..l
  BY BandsIn DEF TypeInv
<1>2. /\ ContentInv /\ MsgsKept /\ PriosKept /\ UNCHANGED groups
      /\ PopBand(p, l) /\ grp' = Unlisted(p, l) /\ FirstServable(p) = {}
  BY <1>1, SameMsgs, SamePrios DEF TakeNothing, TypeInv
<1>3. \A j \in 1..l : ~Servable(bands[p][j])
  <2> DEFINE Is == {j \in 1..l : Servable(bands[p][j])}
  <2> SUFFICES ASSUME Is # {} PROVE FALSE
    OBVIOUS
  <2>1. PICK j \in Is : \A k \in Is : j <= k
    <3>1. Is \in SUBSET Nat
      OBVIOUS
    <3> HIDE DEF Is
    <3> QED BY <3>1, NatMin
  <2>2. \A k \in 1..(j - 1) : k \in 1..l /\ ~(j <= k)
    BY <1>1
  <2>3. j \in FirstServable(p)
    BY <1>1, <2>1, <2>2 DEF FirstServable
  <2> QED BY <1>2, <2>3
<1>4. \A h \in Groups : \A j \in 1..l : ~At(h, p, j)
  <2> SUFFICES ASSUME NEW h \in Groups, NEW j \in 1..l, At(h, p, j) PROVE FALSE
    OBVIOUS
  <2>1. ~grp[h].locked /\ grp[h].msgs # <<>>
    BY DEF IndexHas, BandsInv, NotElsewhere, Marked
  <2> QED BY <1>3, <2>1 DEF At, Servable, Current
<1>5. \A h \in Groups : /\ grp'[h] \in Group /\ grp'[h].version = grp[h].version
                        /\ grp'[h].locked = grp[h].locked /\ grp'[h].msgs = grp[h].msgs
                        /\ grp'[h].inBand <=> grp[h].inBand
  BY <1>1, <1>2, <1>4, UnlistedIs
<1>6. \A h \in Groups : grp'[h].inBand = grp[h].inBand
  BY <1>2, <1>5, GroupsIn DEF Group
<1>7. BandsInv' /\ MaskExact'
  <2> DEFINE out == {}
  <2>1. out \in SUBSET Groups /\ \A h \in Groups : h \notin out
    OBVIOUS
  <2> HIDE DEF out
  <2>2. \A h \in Groups : grp'[h].version = grp[h].version
    BY <1>5
  <2>3. \A h \in Groups \ out : /\ grp'[h].inBand = grp[h].inBand
                                /\ grp'[h].locked = grp[h].locked
                                /\ grp'[h].msgs = grp[h].msgs
                                /\ \A j \in 1..l : ~At(h, p, j)
    BY <1>4, <1>5, <1>6
  <2>4. \A h \in out : /\ At(h, p, l) /\ ~grp'[h].inBand
                       /\ grp'[h].locked \/ grp'[h].msgs = <<>>
    BY <2>1
  <2>5. BandsInv /\ MaskExact
    BY DEF IndexHas
  <2> QED BY ONLY p \in Priorities, <1>1, <1>2, <2>1, <2>2, <2>3, <2>4, <2>5, PopKeeps
<1>8. GroupsExact'
  BY <1>2, <1>5 DEF IndexHas, GroupsExact
<1> QED BY <1>7, <1>8 DEF IndexHas

(* A group that is popped and not listed again: it is locked, or empty and *)
(* forgotten.                                                              *)
LEMMA PoppedListed ==
  ASSUME ContentInv, IndexHas, MsgsKept, PriosKept,
         NEW p \in Priorities, NEW i \in FirstServable(p), NEW g, g = bands[p][i].g,
         PopBand(p, i),
         grp'[g].inBand = Unlisted(p, i)[g].inBand, grp'[g].version = grp[g].version,
         \A h \in Groups \ {g} : grp'[h] = Unlisted(p, i)[h],
         \/ grp'[g].locked /\ UNCHANGED groups
         \/ ~grp'[g].locked /\ grp'[g].msgs = <<>> /\ DropGroupIfIdle(g)
  PROVE  IndexHas'
<1>1. /\ g \in Groups /\ i \in 1..Len(bands[p]) /\ i \in 0..Len(bands[p])
      /\ At(g, p, i) /\ ~grp[g].locked /\ grp[g].msgs # <<>>
      /\ \A h \in Groups \ {g} : \A j \in 1..i : ~At(h, p, j)
  BY FirstIs DEF IndexHas
<1>2. ~grp'[g].inBand
  <2>1. i \in 1..i
    BY <1>1, BandsIn
  <2> QED BY <1>1, <2>1, UnlistedIs
<1>3. \A h \in Groups \ {g} : /\ grp'[h] \in Group /\ grp'[h].version = grp[h].version
                              /\ grp'[h].locked = grp[h].locked /\ grp'[h].msgs = grp[h].msgs
                              /\ grp'[h].inBand <=> grp[h].inBand
  BY <1>1, UnlistedIs
<1>4. \A h \in Groups \ {g} : grp'[h].inBand = grp[h].inBand
  BY <1>3, GroupsIn DEF Group
<1>5. BandsInv' /\ MaskExact'
  <2> DEFINE out == {g}
  <2>1. out \in SUBSET Groups /\ \A h : h \in out <=> h = g
    BY <1>1
  <2> HIDE DEF out
  <2>2. \A h \in out : /\ At(h, p, i) /\ ~grp'[h].inBand
                       /\ grp'[h].locked \/ grp'[h].msgs = <<>>
    BY <1>1, <1>2, <2>1
  <2>3. \A h \in Groups : grp'[h].version = grp[h].version
    BY <1>3
  <2>4. \A h \in Groups \ out : /\ grp'[h].inBand = grp[h].inBand
                                /\ grp'[h].locked = grp[h].locked
                                /\ grp'[h].msgs = grp[h].msgs
                                /\ \A j \in 1..i : ~At(h, p, j)
    BY <1>1, <1>3, <1>4, <2>1
  <2>5. BandsInv /\ MaskExact /\ i \in 0..Len(bands[p])
    BY <1>1 DEF IndexHas
  <2> QED BY ONLY ContentInv, MsgsKept, PriosKept, p \in Priorities, PopBand(p, i),
                  <2>1, <2>2, <2>3, <2>4, <2>5, PopKeeps
<1>6. groups' = IF grp'[g].locked \/ grp'[g].msgs # <<>> THEN groups \cup {g} ELSE groups \ {g}
  BY <1>1, <1>2 DEF DropGroupIfIdle, IndexHas, GroupsExact
<1>7. GroupsExact'
  <2>1. /\ g \in Groups /\ GroupsExact
        /\ \A h \in Groups \ {g} : /\ grp'[h].locked = grp[h].locked
                                   /\ grp'[h].msgs = grp[h].msgs
    BY <1>1, <1>3 DEF IndexHas
  <2> QED BY ONLY <1>6, <2>1, GroupsFollow
<1> QED BY <1>5, <1>7 DEF IndexHas

LEMMA TakeExpiredListed ==
  ASSUME TypeInv, IndexHas, NEW p \in Priorities, TakeExpired(p)
  PROVE  IndexHas'
<1>1. PICK i \in FirstServable(p) :
        LET g == bands[p][i].g
            k == Len(grp[g].msgs)
        IN /\ k \in ExpiredPrefix(g, now)
           /\ PopBand(p, i)
           /\ grp' = [Unlisted(p, i) EXCEPT ![g].msgs = <<>>]
           /\ DropGroupIfIdle(g)
           /\ st' = Expire(st, Dropped(g, k))
  BY DEF TakeExpired
<1> DEFINE g == bands[p][i].g
           U == Unlisted(p, i)
<1>2. ContentInv /\ MsgsKept /\ PriosKept
  BY SameMsgs, SamePrios DEF TakeExpired, TypeInv
<1>3. g \in Groups /\ i \in 0..Len(bands[p]) /\ ~grp[g].locked
  BY <1>2, FirstIs DEF IndexHas
<1>4. U \in [Groups -> Group] /\ U[g].version = grp[g].version /\ U[g].locked = grp[g].locked
  BY <1>2, <1>3, PopType, UnlistedIs
<1>5. PopBand(p, i) /\ grp' = [U EXCEPT ![g].msgs = <<>>] /\ DropGroupIfIdle(g)
  BY <1>1
<1> HIDE DEF U, g
<1>6. /\ grp'[g].inBand = U[g].inBand /\ grp'[g].version = U[g].version
      /\ grp'[g].msgs = <<>> /\ grp'[g].locked = U[g].locked
      /\ \A h \in Groups \ {g} : grp'[h] = U[h]
  BY <1>3, <1>4, <1>5 DEF Group
<1>7. g = bands[p][i].g
  BY DEF g
<1> QED BY <1>2, <1>3, <1>4, <1>5, <1>6, <1>7, PoppedListed DEF U

LEMMA TakePrios ==
  ASSUME TypeInv, NEW n \in 1..Len(msgs), msgs' = [msgs EXCEPT ![n].attempts = @ + 1]
  PROVE  PriosKept
<1> DEFINE m == [msgs[n] EXCEPT !.attempts = @ + 1]
<1>1. msgs[n] \in Message
  BY ElementOfSeq DEF TypeInv, TypeOK
<1>2. m.prio = msgs[n].prio /\ msgs' = [msgs EXCEPT ![n] = m]
  BY <1>1 DEF Message
<1> HIDE DEF m
<1> QED BY <1>2, ChangedPrio

LEMMA TakeListed ==
  ASSUME TypeInv, IndexHas, NEW p \in Priorities, Take(p)
  PROVE  IndexHas'
<1>1. PICK i, g, k, n, e : Leases(p, i, g, k, n, e)
  BY TakeLeases
<1>2. ContentInv /\ UNCHANGED groups
  BY DEF TypeInv, Take
<1>3. g \in Groups /\ n \in 1..Len(msgs) /\ MsgsKept
  BY <1>1, LeasesType
<1>4. /\ i \in FirstServable(p) /\ g = bands[p][i].g /\ PopBand(p, i)
      /\ msgs' = [msgs EXCEPT ![n].attempts = @ + 1]
      /\ grp' = [Unlisted(p, i) EXCEPT ![g].msgs = After(g, k + 1), ![g].locked = TRUE]
  BY <1>1, Zenon DEF Leases
<1>5. PriosKept
  BY <1>3, <1>4, TakePrios
<1> DEFINE U == Unlisted(p, i)
           A == After(g, k + 1)
           V == [U EXCEPT ![g].msgs = A]
<1>6. i \in 0..Len(bands[p])
  BY <1>2, <1>4, FirstIs DEF IndexHas
<1>7. U \in [Groups -> Group] /\ U[g].version = grp[g].version
  BY <1>2, <1>3, <1>6, PopType, UnlistedIs
<1>8. grp' = [V EXCEPT ![g].locked = TRUE]
  BY <1>4, Zenon
<1> HIDE DEF U, A
<1>9. /\ DOMAIN V = Groups /\ V[g] = [U[g] EXCEPT !.msgs = A]
      /\ \A h \in Groups \ {g} : V[h] = U[h]
  BY <1>3, <1>7
<1> HIDE DEF V
<1>10. /\ grp'[g] = [V[g] EXCEPT !.locked = TRUE]
       /\ \A h \in Groups \ {g} : grp'[h] = U[h]
  BY <1>3, <1>8, <1>9
<1>11. U[g] \in Group
  BY <1>3, <1>7
<1>12. grp'[g].inBand = U[g].inBand /\ grp'[g].version = U[g].version /\ grp'[g].locked
  BY <1>9, <1>10, <1>11 DEF Group
<1>13. /\ grp'[g].inBand = Unlisted(p, i)[g].inBand /\ grp'[g].version = grp[g].version
       /\ \A h \in Groups \ {g} : grp'[h] = Unlisted(p, i)[h]
       /\ grp'[g].locked /\ UNCHANGED groups
  BY <1>2, <1>7, <1>10, <1>12 DEF U
<1> QED BY ONLY IndexHas, p \in Priorities, <1>2, <1>3, <1>4, <1>5, <1>13, PoppedListed

LEMMA SweepTTLListed ==
  ASSUME TypeInv, IndexHas, NEW g \in todo, SweepTTL(g)
  PROVE  IndexHas'
<1>1. PICK k, r : g \in Groups /\ Cuts(g, k, r)
  BY SweepCuts
<1>2. /\ k \in 0..Len(grp[g].msgs) /\ r \in Group
      /\ r.msgs = After(g, k) /\ r.locked = grp[g].locked
      /\ k > 0 /\ grp[g].inBand => r.inBand = FALSE /\ r.version = grp[g].version + 1
      /\ ~(k > 0 /\ grp[g].inBand) => r.inBand = grp[g].inBand /\ r.version = grp[g].version
      /\ PushIfUnlisted(g, r) /\ DropGroupIfIdle(g)
  BY <1>1 DEF Cuts
<1>3. ContentInv /\ MsgsKept /\ PriosKept /\ UNCHANGED msgs
  BY SameMsgs, SamePrios DEF SweepTTL, TypeInv
<1>4. PICK l \in Nat : l = Len(grp[g].msgs) /\ grp[g].msgs \in Seq(Seqs) /\ k \in 0..l
  BY <1>1, <1>2, <1>3, GroupsIn
<1>5. /\ After(g, k) \in Seq(Seqs) /\ Len(After(g, k)) = l - k
      /\ \A i \in 1..(l - k) : After(g, k)[i] = grp[g].msgs[k + i]
      /\ OwnList(g, r.msgs, msgs')
  BY <1>1, <1>2, <1>3, <1>4, AfterType
<1>6. grp[g].version \in Nat /\ r.version \in Nat /\ (grp[g].msgs = <<>> => r.msgs = <<>>)
  <2>1. grp[g].msgs = <<>> => l - k = 0
    BY <1>4
  <2> QED BY <1>1, <1>2, <1>3, <1>5, <2>1, GroupsIn DEF Group
<1>7. ASSUME r.inBand PROVE BandsInv' /\ MaskExact'
  <2>1. grp[g].inBand /\ ~(k > 0) /\ r.version = grp[g].version
    BY <1>2, <1>7
  <2>2. ~grp[g].locked /\ grp[g].msgs # <<>>
    BY <1>1, <2>1 DEF IndexHas, BandsInv, Marked
  <2>3. k = 0 /\ l > 0
    BY <1>4, <2>1, <2>2
  <2>4. r.msgs # <<>> /\ Head(r.msgs) = Head(grp[g].msgs)
    <3>1. Len(r.msgs) = l /\ 1 \in 1..(l - k) /\ k + 1 = 1
      BY <1>2, <1>5, <2>3
    <3>2. r.msgs[1] = grp[g].msgs[1]
      BY <1>2, <1>5, <3>1
    <3> QED BY <1>2, <1>4, <1>5, <2>2, <2>3, <3>1, <3>2
  <2> QED BY <1>1, <1>2, <1>3, <1>5, <1>7, <2>1, <2>2, <2>4, Relists DEF IndexHas
<1>8. ASSUME ~r.inBand PROVE BandsInv' /\ MaskExact'
  <2>1. r.version > grp[g].version \/ (r.version = grp[g].version /\ ~grp[g].inBand)
    BY <1>2, <1>6, <1>8
  <2>2. Fresh(g, r.version)
    BY <1>1, <1>3, <1>6, <2>1, FreshWhen DEF IndexHas
  <2> QED BY <1>1, <1>2, <1>3, <1>5, <1>8, <2>2, Relists DEF IndexHas
<1>9. BandsInv' /\ MaskExact'
  BY <1>7, <1>8
<1>10. Became(g, r)
  BY <1>1, <1>2, <1>3, <1>5, PushIfUnlistedType
<1>11. GroupsExact'
  <2>1. grp'[g].inBand <=> ~grp'[g].locked /\ grp'[g].msgs # <<>>
    BY <1>1, <1>9 DEF BandsInv, Marked
  <2>2. grp'[g].locked \/ grp'[g].msgs # <<>> => g \in groups
    BY <1>1, <1>2, <1>6, <1>10 DEF IndexHas, GroupsExact, Became
  <2>3. groups' = IF grp'[g].locked \/ grp'[g].msgs # <<>>
                  THEN groups \cup {g} ELSE groups \ {g}
    BY <1>2, <2>1, <2>2 DEF DropGroupIfIdle
  <2> QED BY <1>1, <1>10, <2>3, GroupsFollow DEF IndexHas, Became
<1> QED BY <1>9, <1>11 DEF IndexHas

LEMMA AbsorbGroupListed ==
  ASSUME TypeInv, TypeInv', IndexHas, NEW g \in Groups, AbsorbGroup(g)
  PROVE  IndexHas'
<1>1. PICK list, r : TakesIn(g, list, r)
  BY AbsorbTakesIn
<1>2. /\ r \in Group /\ r.msgs = list \o grp[g].msgs
      /\ r.inBand = FALSE /\ r.version = grp[g].version + 1 /\ PushGroup(g, r)
      /\ list \in InSeqOrder(Arriving(g, opNow))
  BY <1>1 DEF TakesIn
<1>3. /\ ContentInv /\ MsgsKept /\ PriosKept /\ groups' = groups \cup {g}
      /\ Arriving(g, opNow) # {}
  BY SameMsgs, SamePrios DEF AbsorbGroup, TypeInv
<1>4. grp'[g].msgs = r.msgs /\ \A h \in Groups \ {g} : grp'[h] = grp[h]
  BY <1>2, PutMsgs
<1>5. OwnList(g, r.msgs, msgs')
  BY <1>4 DEF TypeInv, ContentInv
<1>6. r.msgs # <<>>
  <2>1. list \in Seq(Seqs) /\ Els(list) = Arriving(g, opNow)
    BY <1>2, ArrivingIn, InOrderIsAll
  <2>2. list # <<>>
    BY <1>3, <2>1 DEF Els
  <2>3. grp[g].msgs \in Seq(Seqs)
    BY <1>3, GroupsIn
  <2> QED BY <1>2, <2>1, <2>2, <2>3
<1>7. Fresh(g, r.version)
  <2>1. grp[g].version \in Nat
    BY <1>3, GroupsIn
  <2>2. r.version \in Nat /\ r.version > grp[g].version
    BY <1>2, <2>1
  <2> QED BY <1>3, <2>2, FreshWhen DEF IndexHas
<1>8. PushIfUnlisted(g, r)
  BY <1>2 DEF PushIfUnlisted
<1>9. BandsInv' /\ MaskExact'
  BY <1>2, <1>3, <1>5, <1>7, <1>8, Relists DEF IndexHas
<1>10. GroupsExact'
  BY <1>3, <1>4, <1>6, GroupsFollow DEF IndexHas
<1> QED BY <1>9, <1>10 DEF IndexHas

(* A slot that holds nothing. *)
EmptySlot ==
  /\ \A g \in Groups : grp[g].msgs = <<>> /\ ~grp[g].locked /\ ~grp[g].inBand
  /\ groups = {} /\ bandMask = {}
  /\ \A p \in Priorities : bands[p] = <<>>

LEMMA EmptyListed == EmptySlot => IndexHas
<1> SUFFICES ASSUME EmptySlot PROVE IndexHas
  OBVIOUS
<1>1. DOMAIN <<>> = {}
  OBVIOUS
<1>2. \A p \in Priorities : DOMAIN bands[p] = {}
  BY <1>1 DEF EmptySlot
<1>3. \A g \in Groups, p \in Priorities : \A i : ~At(g, p, i)
  BY <1>2 DEF At
<1>4. NoneAhead /\ NotElsewhere /\ OneEntry
  BY <1>2, <1>3 DEF NoneAhead, NotElsewhere, OneEntry
<1>5. Marked /\ InItsBand
  BY DEF Marked, InItsBand, EmptySlot
<1>6. MaskExact /\ GroupsExact
  BY DEF MaskExact, GroupsExact, EmptySlot
<1> QED BY <1>4, <1>5, <1>6 DEF IndexHas, BandsInv

LEMMA EmptyNext == EmptySlot' => IndexHas'
BY EmptyListed, PTL

LEMMA DrainListed ==
  ASSUME TypeInv, Drain
  PROVE  IndexHas'
<1>1. \A g \in Groups : grp'[g].msgs = <<>> /\ ~grp'[g].locked /\ ~grp'[g].inBand
  <2> DEFINE E(g) == [grp[g] EXCEPT !.msgs = <<>>, !.locked = FALSE, !.inBand = FALSE]
  <2>1. grp' = [g \in Groups |-> E(g)]
    BY Zenon DEF Drain
  <2>2. ASSUME NEW g \in Groups
        PROVE  E(g).msgs = <<>> /\ ~E(g).locked /\ ~E(g).inBand
    <3>1. grp[g] \in Group
      BY DEF TypeInv, ContentInv
    <3> QED BY <3>1 DEF Group
  <2> HIDE DEF E
  <2> QED BY <2>1, <2>2
<1>2. groups' = {} /\ bandMask' = {} /\ \A p \in Priorities : bands'[p] = <<>>
  BY DEF Drain
<1>3. EmptySlot'
  BY <1>1, <1>2 DEF EmptySlot
<1> QED BY <1>3, EmptyNext

LEMMA InitListed == Init => IndexHas
<1> SUFFICES ASSUME Init PROVE IndexHas
  OBVIOUS
<1>1. \A g \in Groups : grp[g].msgs = <<>> /\ ~grp[g].locked /\ ~grp[g].inBand
  BY DEF Init
<1>2. groups = {} /\ bandMask = {} /\ \A p \in Priorities : bands[p] = <<>>
  BY DEF Init
<1> QED BY <1>1, <1>2, EmptyListed DEF EmptySlot

(* A step frees the mutex only with a fresh hint, and otherwise changes    *)
(* nothing that the hint is about.                                         *)
LEMMA HintFollows ==
  ASSUME \/ RefreshHint
         \/ holder' # "none"
         \/ HintTrue /\ UNCHANGED <<bandMask, bands, grp, hint, headSeq, holder>>
  PROVE  HintTrue'
BY DEF RefreshHint, HintTrue, Free

(* Leases end and timers stay. *)
LEMMA TimersStay ==
  ASSUME LeaseHasTimer, timers \subseteq timers',
         \A n \in Seqs : inflight'[n] = inflight[n] \/ inflight'[n] = 0
  PROVE  LeaseHasTimer'
BY DEF LeaseHasTimer, InFlight

LEMMA OneLeaseEnds ==
  ASSUME TypeInv, NEW n \in Seqs, inflight' = [inflight EXCEPT ![n] = 0]
  PROVE  inflight'[n] = 0 /\ \A m \in Seqs \ {n} : inflight'[m] = inflight[m]
BY DEF TypeInv, TypeOK

LEMMA SweepLeaseTimers ==
  ASSUME TypeInv, LeaseHasTimer, NEW e \in timers, SweepLease(e)
  PROVE  LeaseHasTimer'
<1>1. timers' = timers \ {e} /\ e.id \in Seqs
  BY DEF SweepLease, TypeInv, TypeOK, Timer
<1> SUFFICES ASSUME NEW n \in InFlight'
             PROVE  \E t \in timers' : t.id = n /\ t.epoch = inflight'[n]
  BY DEF LeaseHasTimer
<1>2. n \in Seqs /\ inflight'[n] # 0
  BY DEF InFlight
<1>3. CASE ~Holds(e.id, e.epoch) /\ UNCHANGED inflight
  <2>1. PICK t \in timers : t.id = n /\ t.epoch = inflight[n]
    BY <1>2, <1>3 DEF LeaseHasTimer, InFlight
  <2>2. t # e
    BY <1>2, <1>3, <2>1 DEF Holds
  <2> QED BY <1>1, <1>3, <2>1, <2>2
<1>4. CASE inflight' = [inflight EXCEPT ![e.id] = 0]
  <2>1. n # e.id /\ inflight'[n] = inflight[n]
    BY <1>1, <1>2, <1>4, OneLeaseEnds
  <2>2. PICK t \in timers : t.id = n /\ t.epoch = inflight[n]
    BY <1>2, <2>1 DEF LeaseHasTimer, InFlight
  <2> QED BY <1>1, <2>1, <2>2
<1> QED BY <1>3, <1>4 DEF SweepLease, Retire

LEMMA TakeTimers ==
  ASSUME TypeInv, LeaseHasTimer, NEW p \in Priorities, Take(p)
  PROVE  LeaseHasTimer'
<1>1. PICK i, g, k, n, e : Leases(p, i, g, k, n, e)
  BY TakeLeases
<1>2. n \in Seqs
  BY <1>1, LeasesType
<1>3. /\ inflight' = [inflight EXCEPT ![n] = e]
      /\ timers' = timers \cup {[id |-> n, epoch |-> e, at |-> now + Visibility]}
  BY <1>1 DEF Leases
<1>4. inflight'[n] = e /\ \A m \in Seqs \ {n} : inflight'[m] = inflight[m]
  BY <1>2, <1>3 DEF TypeInv, TypeOK
<1> SUFFICES ASSUME NEW m \in InFlight'
             PROVE  \E t \in timers' : t.id = m /\ t.epoch = inflight'[m]
  BY DEF LeaseHasTimer
<1>5. CASE m = n
  <2> DEFINE t == [id |-> n, epoch |-> e, at |-> now + Visibility]
  <2>1. t.id = n /\ t.epoch = e
    OBVIOUS
  <2> HIDE DEF t
  <2>2. t \in timers'
    BY <1>3 DEF t
  <2> QED BY <1>4, <1>5, <2>1, <2>2
<1>6. CASE m # n
  <2>1. m \in InFlight /\ inflight'[m] = inflight[m]
    BY <1>4, <1>6 DEF InFlight
  <2> QED BY <1>3, <2>1 DEF LeaseHasTimer
<1> QED BY <1>5, <1>6

LEMMA InitIndex == Init => IndexInv
<1> SUFFICES ASSUME Init PROVE IndexInv
  OBVIOUS
<1>1. LockInv /\ IndexHas
  BY InitLock, InitListed
<1>2. HintTrue
  BY DEF Init, HintTrue, HintOf, HeadSeqOf
<1>3. LeaseHasTimer
  BY DEF Init, LeaseHasTimer, InFlight
<1> QED BY <1>1, <1>2, <1>3 DEF IndexInv, IndexHas

(* What is left to show of a step once its groups and bands are right. *)
Rest == HintTrue /\ LeaseHasTimer

LEMMA NextIndex == IndexInv /\ [Next]_vars => IndexInv'
<1> SUFFICES ASSUME IndexInv, [Next]_vars PROVE IndexInv'
  OBVIOUS
<1>0. LockInv /\ LockInv' /\ TypeInv /\ TypeInv' /\ ContentInv /\ IndexHas /\ Rest
  BY NextLock DEF IndexInv, LockInv, TypeInv, IndexHas, Rest
<1> SUFFICES IndexHas' /\ Rest'
  BY <1>0 DEF IndexInv, IndexHas, Rest
<1>1. ASSUME NEW p \in Priorities, NEW g \in Groups, NEW ttl \in TTLs, NEW d \in Delays,
             Enqueue(p, g, ttl, d)
      PROVE  IndexHas' /\ Rest'
  <2>1. IndexHas'
    BY <1>0, <1>1, EnqueueListed
  <2>2. UNCHANGED <<inflight, timers, holder>>
    BY <1>1 DEF Enqueue, lockVars
  <2>3. RefreshHint \/ UNCHANGED <<content, hint, headSeq>>
    BY <1>1 DEF Enqueue, KeepHint
  <2>4. HintTrue'
    BY <1>0, <2>2, <2>3, HintFollows DEF Rest, content
  <2> QED BY <1>0, <2>1, <2>2, <2>4, TimersStay DEF Rest
<1>2. ASSUME NEW p \in Priorities, TakeExpired(p) \/ TakeNothing(p)
      PROVE  IndexHas' /\ Rest'
  <2>1. IndexHas'
    BY <1>0, <1>2, TakeExpiredListed, TakeNothingListed
  <2>2. UNCHANGED <<inflight, timers>> /\ RefreshHint
    BY <1>2 DEF TakeExpired, TakeNothing
  <2> QED BY <1>0, <2>1, <2>2, HintFollows, TimersStay DEF Rest
<1>3. ASSUME NEW p \in Priorities, Take(p)
      PROVE  IndexHas' /\ Rest'
  <2>1. IndexHas' /\ LeaseHasTimer'
    BY <1>0, <1>3, TakeListed, TakeTimers DEF Rest
  <2>2. HintTrue'
    BY <1>3, HintFollows DEF Take
  <2> QED BY <2>1, <2>2 DEF Rest
<1>4. ASSUME NEW n \in Seqs, NEW e, Ack(n, e)
      PROVE  IndexHas' /\ Rest'
  <2>1. IndexHas'
    BY <1>0, <1>4, AckListed
  <2>2. inflight' = [inflight EXCEPT ![n] = 0] /\ UNCHANGED timers /\ RefreshHint
    BY <1>4 DEF Ack
  <2> QED BY <1>0, <2>1, <2>2, HintFollows, OneLeaseEnds, TimersStay DEF Rest
<1>5. ASSUME NEW n \in Seqs, NEW e, NEW d \in Delays, Nack(n, e, d)
      PROVE  IndexHas' /\ Rest'
  <2>1. inflight[n] # 0 /\ Retire(n, now, d) /\ UNCHANGED timers /\ RefreshHint
    BY <1>5 DEF Nack, Holds
  <2>2. now \in Nat /\ d \in Nat
    BY <1>0, SlotAssumption DEF TypeInv, TypeOK
  <2>3. IndexHas'
    BY <1>0, <2>1, <2>2, RetireListed
  <2>4. inflight' = [inflight EXCEPT ![n] = 0]
    BY <2>1 DEF Retire
  <2> QED BY <1>0, <2>1, <2>3, <2>4, HintFollows, OneLeaseEnds, TimersStay DEF Rest
<1>6. ASSUME NEW n \in delayed, ReleaseDelayed(n)
      PROVE  IndexHas' /\ Rest'
  <2>1. IndexHas'
    BY <1>0, <1>6, ReleaseListed
  <2>2. UNCHANGED <<inflight, timers>> /\ holder' # "none"
    BY <1>6 DEF ReleaseDelayed, lockVars
  <2> QED BY <1>0, <2>1, <2>2, HintFollows, TimersStay DEF Rest
<1>7. ASSUME NEW e \in timers, SweepLease(e)
      PROVE  IndexHas' /\ Rest'
  <2>1. LeaseHasTimer'
    BY <1>0, <1>7, SweepLeaseTimers DEF Rest
  <2>2. HintTrue'
    <3>1. holder' # "none"
      BY <1>7 DEF SweepLease, lockVars
    <3> QED BY <3>1, HintFollows
  <2>3. CASE UNCHANGED <<msgs, content>>
    <3>1. PriosKept
      BY <2>3, SamePrios
    <3>2. IndexHas'
      BY <1>0, <2>3, <3>1, SameIndex
    <3> QED BY <2>1, <2>2, <3>2 DEF Rest
  <2>4. CASE Holds(e.id, e.epoch) /\ Retire(e.id, opNow, 0)
    <3>1. e.id \in Seqs /\ opNow \in Nat /\ 0 \in Nat /\ inflight[e.id] # 0
      BY <1>0, <1>7, <2>4, SlotAssumption DEF TypeInv, TypeOK, Timer, Holds
    <3>2. IndexHas'
      BY <1>0, <2>4, <3>1, RetireListed
    <3> QED BY <2>1, <2>2, <3>2 DEF Rest
  <2> QED BY <1>7, <2>3, <2>4 DEF SweepLease
<1>8. ASSUME NEW g \in todo, SweepTTL(g)
      PROVE  IndexHas' /\ Rest'
  <2>1. IndexHas'
    BY <1>0, <1>8, SweepTTLListed
  <2>2. UNCHANGED <<inflight, timers>> /\ holder' # "none"
    BY <1>8 DEF SweepTTL
  <2> QED BY <1>0, <2>1, <2>2, HintFollows, TimersStay DEF Rest
<1>9. ASSUME NEW g \in Groups, AbsorbGroup(g)
      PROVE  IndexHas' /\ Rest'
  <2>1. IndexHas'
    BY <1>0, <1>9, AbsorbGroupListed
  <2>2. UNCHANGED <<inflight, timers>> /\ holder' # "none"
    BY <1>9 DEF AbsorbGroup, lockVars
  <2> QED BY <1>0, <2>1, <2>2, HintFollows, TimersStay DEF Rest
<1>10. CASE Drain
  <2>1. IndexHas'
    BY <1>0, <1>10, DrainListed
  <2>2. InFlight' = {} /\ RefreshHint
    BY <1>10 DEF Drain, InFlight
  <2>3. HintTrue' /\ LeaseHasTimer'
    BY <2>2, HintFollows DEF LeaseHasTimer
  <2> QED BY <2>1, <2>3 DEF Rest
<1>11. CASE \/ BeginSweep \/ ReleaseDone \/ LeasesDone \/ SweepDone \/ BeginAbsorb
            \/ AbsorbDone \/ Tick \/ UNCHANGED vars
  <2>1. UNCHANGED <<msgs, content, inflight, timers>>
    BY <1>11 DEF BeginSweep, ReleaseDone, LeasesDone, SweepDone, BeginAbsorb, AbsorbDone,
                 Tick, vars, content
  <2>2. PriosKept
    BY <2>1, SamePrios
  <2>3. IndexHas'
    BY <1>0, <2>1, <2>2, SameIndex
  <2>4. \/ RefreshHint \/ holder' # "none"
        \/ UNCHANGED <<bandMask, bands, grp, hint, headSeq, holder>>
    BY <1>11, <2>1 DEF BeginSweep, ReleaseDone, LeasesDone, SweepDone, BeginAbsorb,
                       AbsorbDone, Tick, vars, content, lockVars
  <2>5. HintTrue'
    BY <1>0, <2>4, HintFollows DEF Rest
  <2> QED BY <1>0, <2>1, <2>3, <2>5, TimersStay DEF Rest
<1> QED BY <1>1, <1>2, <1>3, <1>4, <1>5, <1>6, <1>7, <1>8, <1>9, <1>10, <1>11 DEF Next

LEMMA IndexSuffices == IndexInv => NothingStranded /\ IndexExact /\ NoIdleGroups
<1> SUFFICES ASSUME IndexInv PROVE NothingStranded /\ IndexExact /\ NoIdleGroups
  OBVIOUS
<1>1. ContentInv /\ MsgsOK(msgs) /\ bandMask \subseteq Priorities
  BY DEF IndexInv, LockInv, TypeInv, TypeOK, MsgsOK
<1>2. ASSUME NEW g \in Groups, grp[g].inBand
      PROVE  \E p \in Priorities : p = HeadPrio(g) /\ \E i : At(g, p, i)
  <2>1. grp[g].msgs # <<>>
    BY <1>2 DEF IndexInv, BandsInv, Marked
  <2>2. Head(grp[g].msgs) \in 1..Len(msgs)
    BY <1>1, <2>1, HeadIs
  <2>3. msgs[Head(grp[g].msgs)] \in Message
    BY <1>1, <2>2, ElementOfSeq DEF MsgsOK
  <2>4. HeadPrio(g) \in Priorities
    BY <2>3 DEF HeadPrio, Message
  <2> QED BY <1>2, <2>4 DEF IndexInv, BandsInv, InItsBand
<1>3. Dispatchable
  BY <1>2 DEF Dispatchable, IndexInv, BandsInv, Marked, At, Current
<1>4. ListedOnceAtItsHead
  <2> SUFFICES ASSUME NEW p \in Priorities, NEW i \in DOMAIN bands[p], NEW e,
                      e = bands[p][i], Current(e)
               PROVE  /\ grp[e.g].inBand /\ ~grp[e.g].locked /\ grp[e.g].msgs # <<>>
                      /\ msgs[Head(grp[e.g].msgs)].prio = p
                      /\ \A q \in Priorities : \A j \in DOMAIN bands[q] :
                           bands[q][j] = e => q = p /\ j = i
    BY DEF ListedOnceAtItsHead
  <2>1. e.g \in Groups /\ At(e.g, p, i)
    BY <1>1, BandsIn DEF At, Current
  <2>2. grp[e.g].inBand /\ HeadPrio(e.g) = p
    BY <2>1 DEF IndexInv, BandsInv, NotElsewhere
  <2>3. ~grp[e.g].locked /\ grp[e.g].msgs # <<>>
    BY <2>1, <2>2 DEF IndexInv, BandsInv, Marked
  <2>4. ASSUME NEW q \in Priorities, NEW j \in DOMAIN bands[q], bands[q][j] = e
        PROVE  q = p /\ j = i
    <3>1. At(e.g, q, j)
      BY <2>4 DEF At, Current
    <3>2. q = p
      BY <2>1, <2>2, <3>1 DEF IndexInv, BandsInv, NotElsewhere
    <3> QED BY <2>1, <3>1, <3>2 DEF IndexInv, BandsInv, OneEntry
  <2> QED BY <2>2, <2>3, <2>4 DEF HeadPrio
<1>5. ASSUME Free, NEW g \in Groups, ~grp[g].locked, grp[g].msgs # <<>>
      PROVE  hint > msgs[Head(grp[g].msgs)].prio
  <2>1. PICK p \in Priorities : p = HeadPrio(g) /\ \E i : At(g, p, i)
    BY <1>2, <1>5 DEF IndexInv, BandsInv, Marked
  <2>2. p \in bandMask
    <3>1. bands[p] # <<>>
      BY <2>1 DEF At
    <3> QED BY <3>1 DEF IndexInv, MaskExact
  <2>3. bandMask \in SUBSET (0..100)
    BY <1>1, SlotAssumption
  <2>4. /\ Highest(bandMask) \in 0..100 /\ p \in 0..100
        /\ \A q \in bandMask : q <= Highest(bandMask)
    BY <2>2, <2>3, HighestInMask
  <2>5. hint = Highest(bandMask) + 1
    BY <1>5, <2>2 DEF IndexInv, HintTrue, HintOf
  <2>6. PICK a \in Nat, b \in Nat : a = Highest(bandMask) /\ b = p
    BY <2>4
  <2>7. hint = a + 1 /\ b <= a /\ msgs[Head(grp[g].msgs)].prio = b
    BY <2>1, <2>2, <2>4, <2>5, <2>6 DEF HeadPrio
  <2> QED BY ONLY <2>6, <2>7
<1>6. HintExact
  BY <1>5 DEF HintExact, IndexInv, MaskExact, HintTrue
<1>7. NoIdleGroups /\ LeaseHasTimer
  BY DEF IndexInv, NoIdleGroups, GroupsExact
<1> QED BY <1>3, <1>4, <1>6, <1>7 DEF NothingStranded, IndexExact

(* A group that could be served is always listed, and every lease has a    *)
(* timer: no path that makes a group servable forgets to list it, and no   *)
(* sweep of a stale timer takes the timer of a lease with it.              *)
THEOREM NobodyIsStranded == Spec => []NothingStranded
<1>1. Init => IndexInv
  BY InitIndex
<1>2. IndexInv /\ [Next]_vars => IndexInv'
  BY NextIndex
<1>3. IndexInv => NothingStranded
  BY IndexSuffices
<1> QED BY <1>1, <1>2, <1>3, PTL DEF Spec

(* The bands and what the dispatcher reads of them are right: a group has  *)
(* one entry that counts, in the band of its head, and with the mutex free *)
(* hint and headSeq are those of the bands.                                *)
THEOREM IndexIsExact == Spec => []IndexExact
<1>1. Init => IndexInv
  BY InitIndex
<1>2. IndexInv /\ [Next]_vars => IndexInv'
  BY NextIndex
<1>3. IndexInv => IndexExact
  BY IndexSuffices
<1> QED BY <1>1, <1>2, <1>3, PTL DEF Spec

(* The map of groups holds those that have a message or a lease, no more   *)
(* and no fewer.                                                           *)
THEOREM NoGroupIsLeftOver == Spec => []NoIdleGroups
<1>1. Init => IndexInv
  BY InitIndex
<1>2. IndexInv /\ [Next]_vars => IndexInv'
  BY NextIndex
<1>3. IndexInv => NoIdleGroups
  BY IndexSuffices
<1> QED BY <1>1, <1>2, <1>3, PTL DEF Spec

-----------------------------------------------------------------------------
(* The slot implements Delivery.  A place is a set of messages here and a  *)
(* function of groups there.                                               *)

ByGroup(X) == [g \in Groups |-> OfGroup(X, g)]

(* What the messages of S, all of group g, do to a place of Delivery. *)
ThenAt(F, g, S, place, from, to) ==
  IF to = place THEN [F EXCEPT ![g] = @ \cup S]
  ELSE IF from = place THEN [F EXCEPT ![g] = @ \ S] ELSE F

LEMMA ByGroupThen ==
  ASSUME MsgsKept, NEW g \in Groups, NEW X \in SUBSET (1..Len(msgs)), NEW S,
         \A n \in S : msgs'[n].group = g, NEW place, NEW from, NEW to,
         NEW Y, Y = Then(X, S, place, from, to)
  PROVE  [h \in Groups |-> {n \in Y : msgs'[n].group = h}]
           = ThenAt(ByGroup(X), g, S, place, from, to)
<1> DEFINE F(Z, h) == {n \in Z : msgs'[n].group = h}
<1>1. \A h \in Groups : F(X, h) = OfGroup(X, h)
  BY DEF MsgsKept, OfGroup
<1>2. \A h \in Groups : /\ F(X \cup S, h) = IF h = g THEN F(X, h) \cup S ELSE F(X, h)
                        /\ F(X \ S, h) = IF h = g THEN F(X, h) \ S ELSE F(X, h)
  OBVIOUS
<1> DEFINE G == ByGroup(X)
<1>3. G = [h \in Groups |-> OfGroup(X, h)]
  BY DEF ByGroup
<1> HIDE DEF F, G
<1>4. CASE to = place
  <2>1. Y = X \cup S /\ ThenAt(G, g, S, place, from, to) = [G EXCEPT ![g] = @ \cup S]
    BY <1>4 DEF Then, ThenAt
  <2>2. [h \in Groups |-> F(Y, h)] = [G EXCEPT ![g] = @ \cup S]
    BY <1>1, <1>2, <1>3, <2>1
  <2> QED BY <2>1, <2>2 DEF F, G
<1>5. CASE to # place /\ from = place
  <2>1. Y = X \ S /\ ThenAt(G, g, S, place, from, to) = [G EXCEPT ![g] = @ \ S]
    BY <1>5 DEF Then, ThenAt
  <2>2. [h \in Groups |-> F(Y, h)] = [G EXCEPT ![g] = @ \ S]
    BY <1>1, <1>2, <1>3, <2>1
  <2> QED BY <2>1, <2>2 DEF F, G
<1>6. CASE to # place /\ from # place
  <2>1. Y = X /\ ThenAt(G, g, S, place, from, to) = G
    BY <1>6 DEF Then, ThenAt
  <2>2. [h \in Groups |-> F(Y, h)] = G
    BY <1>1, <1>3, <2>1
  <2> QED BY <2>1, <2>2 DEF F, G
<1> QED BY <1>4, <1>5, <1>6

(* The places of Delivery, and what a step does to them. *)
AbsentIs(S, to) == Gone' = IF to = "absent" THEN Gone \cup S ELSE Gone

Shifts(g, S, from, to) ==
  /\ ByGroup(Ready)'    = ThenAt(ByGroup(Ready), g, S, "ready", from, to)
  /\ ByGroup(InFlight)' = ThenAt(ByGroup(InFlight), g, S, "inflight", from, to)
  /\ ByGroup(delayed)'  = ThenAt(ByGroup(delayed), g, S, "delayed", from, to)
  /\ ByGroup(away)'     = ThenAt(ByGroup(away), g, S, "away", from, to)
  /\ ByGroup(Gone)'     = ThenAt(ByGroup(Gone), g, S, "absent", "nowhere", to)

LEMMA ShiftsGroup ==
  ASSUME TypeInv, MsgsKept, NEW g \in Groups, NEW S, NEW from, NEW to,
         \A n \in S : msgs'[n].group = g, Shift(S, from, to), AbsentIs(S, to)
  PROVE  Shifts(g, S, from, to)
<1> DEFINE R == Ready' I == InFlight' D == delayed' A == away' L == Gone'
<1>1. /\ R = Then(Ready, S, "ready", from, to) /\ I = Then(InFlight, S, "inflight", from, to)
      /\ D = Then(delayed, S, "delayed", from, to) /\ A = Then(away, S, "away", from, to)
  BY DEF Shift
<1>2. L = Then(Gone, S, "absent", "nowhere", to)
  BY DEF AbsentIs, Then
<1>3. /\ Ready \in SUBSET (1..Len(msgs)) /\ InFlight \in SUBSET (1..Len(msgs))
      /\ delayed \in SUBSET (1..Len(msgs)) /\ away \in SUBSET (1..Len(msgs))
      /\ Gone \in SUBSET (1..Len(msgs))
  BY PlacesIn DEF Gone
<1> HIDE DEF R, I, D, A, L
<1>4. [h \in Groups |-> {n \in R : msgs'[n].group = h}]
        = ThenAt(ByGroup(Ready), g, S, "ready", from, to)
  BY <1>1, <1>3, ByGroupThen
<1>5. [h \in Groups |-> {n \in I : msgs'[n].group = h}]
        = ThenAt(ByGroup(InFlight), g, S, "inflight", from, to)
  BY <1>1, <1>3, ByGroupThen
<1>6. [h \in Groups |-> {n \in D : msgs'[n].group = h}]
        = ThenAt(ByGroup(delayed), g, S, "delayed", from, to)
  BY <1>1, <1>3, ByGroupThen
<1>7. [h \in Groups |-> {n \in A : msgs'[n].group = h}]
        = ThenAt(ByGroup(away), g, S, "away", from, to)
  BY <1>1, <1>3, ByGroupThen
<1>8. [h \in Groups |-> {n \in L : msgs'[n].group = h}]
        = ThenAt(ByGroup(Gone), g, S, "absent", "nowhere", to)
  <2> DEFINE place == "absent" other == "nowhere"
  <2>1. L = Then(Gone, S, place, other, to)
    BY <1>2
  <2> HIDE DEF place, other
  <2>2. [h \in Groups |-> {n \in L : msgs'[n].group = h}]
          = ThenAt(ByGroup(Gone), g, S, place, other, to)
    BY ONLY MsgsKept, g \in Groups, \A n \in S : msgs'[n].group = g, <1>3, <2>1, ByGroupThen
  <2> QED BY <2>2 DEF place, other
<1> QED BY <1>4, <1>5, <1>6, <1>7, <1>8 DEF Shifts, ByGroup, OfGroup, R, I, D, A, L

(* What is done when the messages of S are. *)
LEMMA GoneIs ==
  ASSUME PlaceInv, NEW S, NEW from \in Places, NEW to, from # to,
         Shift(S, from, to), AllFrom(S, from), Len(msgs') = Len(msgs),
         to \in Places \/ to = "absent"
  PROVE  AbsentIs(S, to)
<1>1. /\ to \in Places => (Present \cup away)' = Present \cup away
      /\ to \notin Places
           => (Present \cup away)' = (Present \cup away) \ S /\ S \subseteq Present \cup away
  BY ShiftHeld
<1>2. Present \cup away \subseteq 1..Len(msgs)
  BY PlacesIn DEF PlaceInv, LockInv, Present
<1>3. CASE to \in Places
  <2>1. Gone' = Gone /\ to # "absent"
    BY <1>1, <1>3 DEF Gone, Places
  <2> QED BY <2>1 DEF AbsentIs
<1>4. CASE to = "absent"
  <2>1. Gone' = Gone \cup S
    BY <1>1, <1>2, <1>4 DEF Gone, Places
  <2> QED BY <1>4, <2>1 DEF AbsentIs
<1> QED BY <1>3, <1>4

LEMMA ComesSubmits ==
  ASSUME PlaceInv, TypeInv', NEW n, Comes(n)
  PROVE  Promise!Next
<1>1. TypeInv /\ MsgsKept /\ n = Len(msgs) + 1 /\ Len(msgs') = n /\ Len(msgs) \in Nat
  BY PlacesIn DEF PlaceInv, LockInv, Comes
<1> DEFINE g == msgs'[n].group
<1>2. g \in Groups /\ n \in Seqs
  <2>1. n \in 1..Len(msgs')
    BY <1>1
  <2>2. msgs'[n] \in Message
    BY <1>1, <2>1, ElementOfSeq DEF MsgsKept, MsgsOK
  <2>3. n \in Seqs
    BY <2>1, PlacesNext DEF PlacesThere
  <2> QED BY <2>2, <2>3 DEF Message
<1>3. PICK to \in {"ready", "delayed"} : Shift({n}, "absent", to)
  BY DEF Comes
<1>4. AbsentIs({n}, to)
  <2>1. Gone' = Gone
    <3>1. (Present \cup away)' = (Present \cup away) \cup {n}
      BY <1>3 DEF Shift, Then, Present
    <3>2. 1..Len(msgs') = 1..Len(msgs) \cup {n} /\ n \notin 1..Len(msgs)
      BY ONLY <1>1
    <3> QED BY <3>1, <3>2 DEF Gone
  <2> QED BY <1>3, <2>1 DEF AbsentIs
<1>5. Shifts(g, {n}, "absent", to)
  BY <1>1, <1>2, <1>3, <1>4, ShiftsGroup
<1>6. ~Promise!Known(n)
  <2>1. n \notin Ready \cup InFlight \cup delayed \cup away \cup Gone
    <3>1. n \notin 1..Len(msgs)
      BY ONLY <1>1
    <3> QED BY <1>1, <3>1, PlacesIn DEF Gone
  <2> QED BY <2>1 DEF Promise!Known, OfGroup
<1>7. Promise!Submit(g, n)
  <2>1. CASE to = "ready"
    BY <1>5, <1>6, <2>1 DEF Shifts, ThenAt, ByGroup, Promise!Submit, Promise!Gain
  <2>2. CASE to = "delayed"
    BY <1>5, <1>6, <2>2 DEF Shifts, ThenAt, ByGroup, Promise!Submit, Promise!Gain
  <2> QED BY <1>3, <2>1, <2>2
<1> QED BY <1>2, <1>7 DEF Promise!Next

(* One message, or some of a group, go from one place of the slot. *)
LEMMA GroupShifts ==
  ASSUME PlaceInv, MsgsKept, Len(msgs') = Len(msgs), NEW g \in Groups, NEW S,
         NEW from \in Places, NEW to, from # to, to \in Places \/ to = "absent",
         \A n \in S : n \in 1..Len(msgs) /\ msgs[n].group = g,
         Shift(S, from, to), AllFrom(S, from)
  PROVE  Shifts(g, S, from, to)
<1>1. TypeInv /\ \A n \in S : msgs'[n].group = g
  BY DEF PlaceInv, LockInv, MsgsKept
<1>2. AbsentIs(S, to)
  BY GoneIs
<1> QED BY <1>1, <1>2, ShiftsGroup

(* A message that exists is of a group. *)
LEMMA HasGroup ==
  ASSUME TypeInv, NEW n \in 1..Len(msgs)
  PROVE  msgs[n].group \in Groups /\ n \in Seqs
<1>1. msgs[n] \in Message
  BY ElementOfSeq DEF TypeInv, TypeOK
<1> QED BY <1>1, PlacesIn DEF Message

LEMMA ReleasedReleases ==
  ASSUME PlaceInv, NEW n, IsReleased(n)
  PROVE  Promise!Next
<1> DEFINE g == msgs[n].group
<1>1. /\ TypeInv /\ Apart /\ MsgsKept /\ Len(msgs') = Len(msgs) /\ n \in delayed
      /\ Shift({n}, "delayed", "ready")
  BY DEF PlaceInv, LockInv, IsReleased
<1>2. n \in 1..Len(msgs) /\ g \in Groups /\ n \in Seqs
  BY <1>1, PlacesIn, HasGroup
<1>3. AllFrom({n}, "delayed")
  BY <1>1 DEF AllFrom, ComesFrom, Apart
<1>4. "delayed" \in Places /\ "ready" \in Places
  BY DEF Places
<1>5. Shifts(g, {n}, "delayed", "ready")
  BY <1>1, <1>2, <1>3, <1>4, GroupShifts
<1>6. Promise!Release(g, n)
  BY <1>1, <1>2, <1>5 DEF Shifts, ThenAt, ByGroup, OfGroup,
     Promise!Release, Promise!Lose, Promise!Gain
<1> QED BY <1>2, <1>6 DEF Promise!Next

LEMMA RetiredEndsLease ==
  ASSUME PlaceInv, NEW n, IsRetired(n)
  PROVE  Promise!Next
<1> DEFINE g == msgs[n].group
<1>1. PICK to \in {"absent", "delayed", "ready"} : Shift({n}, "inflight", to)
  BY DEF IsRetired
<1>2. TypeInv /\ Apart /\ MsgsKept /\ Len(msgs') = Len(msgs) /\ n \in InFlight
  BY DEF PlaceInv, LockInv, IsRetired
<1>3. n \in 1..Len(msgs) /\ g \in Groups /\ n \in Seqs
  BY <1>2, PlacesIn, HasGroup
<1>4. AllFrom({n}, "inflight")
  BY <1>2 DEF AllFrom, ComesFrom, Apart
<1>5. /\ "inflight" \in Places /\ "inflight" # to
      /\ to \in Places \/ to = "absent"
  BY <1>1 DEF Places
<1>6. Shifts(g, {n}, "inflight", to)
  BY <1>1, <1>2, <1>3, <1>4, <1>5, GroupShifts
<1>7. Promise!EndLease(g, n)
  <2>1. n \in OfGroup(InFlight, g)
    BY <1>2 DEF OfGroup
  <2>2. CASE to = "absent"
    BY <1>3, <1>6, <2>1, <2>2 DEF Shifts, ThenAt, ByGroup, Promise!EndLease, Promise!Lose, Promise!Gain
  <2>3. CASE to = "delayed"
    BY <1>3, <1>6, <2>1, <2>3 DEF Shifts, ThenAt, ByGroup, Promise!EndLease, Promise!Lose, Promise!Gain
  <2>4. CASE to = "ready"
    BY <1>3, <1>6, <2>1, <2>4 DEF Shifts, ThenAt, ByGroup, Promise!EndLease, Promise!Lose, Promise!Gain
  <2> QED BY <1>1, <2>2, <2>3, <2>4
<1> QED BY <1>3, <1>7 DEF Promise!Next

(* What goes from the front of a group was ready in it. *)
LEMMA DroppedIn ==
  ASSUME TypeInv, NEW g \in Groups, NEW k \in 0..Len(grp[g].msgs)
  PROVE  /\ Dropped(g, k) \subseteq Queued(g)
         /\ \A n \in Dropped(g, k) : n \in Ready /\ n \in 1..Len(msgs) /\ msgs[n].group = g
<1>1. grp[g].msgs \in Seq(Seqs)
  BY DEF TypeInv, ContentInv, Group
<1>2. PICK l \in Nat : l = Len(grp[g].msgs) /\ DOMAIN grp[g].msgs = 1..l
  BY <1>1
<1>3. \A i \in 1..k : i \in DOMAIN grp[g].msgs
  BY <1>2
<1>4. Dropped(g, k) \subseteq Queued(g)
  BY <1>3 DEF Dropped, Queued
<1>5. Queued(g) \subseteq Ready
  BY DEF Ready
<1> QED BY <1>4, <1>5, OwnQueue

LEMMA CutExpires ==
  ASSUME PlaceInv, NEW g \in Groups, NEW k, IsCut(g, k)
  PROVE  Promise!Next \/ UNCHANGED Promise!vars
<1> DEFINE S == Dropped(g, k)
<1>1. /\ TypeInv /\ Apart /\ MsgsKept /\ Len(msgs') = Len(msgs)
      /\ k \in 0..Len(grp[g].msgs) /\ Shift(S, "ready", "absent")
  BY DEF PlaceInv, LockInv, IsCut
<1>2. \A n \in S : n \in Ready /\ n \in 1..Len(msgs) /\ msgs[n].group = g
  BY <1>1, DroppedIn
<1> HIDE DEF S
<1>3. AllFrom(S, "ready")
  BY <1>1, <1>2 DEF AllFrom, ComesFrom, Apart
<1>4. "ready" \in Places
  BY DEF Places
<1>5. Shifts(g, S, "ready", "absent")
  BY <1>1, <1>2, <1>3, <1>4, GroupShifts
<1>6. S \in SUBSET OfGroup(Ready, g)
  BY <1>2 DEF OfGroup
<1>7. CASE S # {}
  <2>1. Promise!Expire(g, S)
    BY <1>5, <1>6, <1>7 DEF Shifts, ThenAt, ByGroup, Promise!Expire, Promise!Lose, Promise!Gain
  <2> QED BY <1>6, <2>1 DEF Promise!Next
<1>8. CASE S = {}
  <2>1. \A F : F = [h \in Groups |-> F[h]] => [F EXCEPT ![g] = @ \cup S] = F /\ [F EXCEPT ![g] = @ \ S] = F
    BY <1>8
  <2>2. /\ ByGroup(Ready)' = ByGroup(Ready) /\ ByGroup(InFlight)' = ByGroup(InFlight)
        /\ ByGroup(delayed)' = ByGroup(delayed) /\ ByGroup(away)' = ByGroup(away)
        /\ ByGroup(Gone)' = ByGroup(Gone)
    <3>1. /\ ByGroup(Ready)' = [ByGroup(Ready) EXCEPT ![g] = @ \ S]
          /\ ByGroup(Gone)' = [ByGroup(Gone) EXCEPT ![g] = @ \cup S]
          /\ ByGroup(InFlight)' = ByGroup(InFlight)
          /\ ByGroup(delayed)' = ByGroup(delayed) /\ ByGroup(away)' = ByGroup(away)
      BY <1>5 DEF Shifts, ThenAt
    <3>2. /\ ByGroup(Ready) = [h \in Groups |-> ByGroup(Ready)[h]]
          /\ ByGroup(Gone) = [h \in Groups |-> ByGroup(Gone)[h]]
      BY DEF ByGroup
    <3> QED BY <2>1, <3>1, <3>2
  <2> QED BY <2>2 DEF ByGroup, Promise!vars
<1> QED BY <1>7, <1>8

LEMMA LeasedDelivers ==
  ASSUME PlaceInv, NEW g \in Groups, NEW k, NEW n, IsLeased(g, k, n)
  PROVE  Promise!Next
<1> DEFINE D == Dropped(g, k)
<1>1. /\ TypeInv /\ Apart /\ MsgsKept /\ Len(msgs') = Len(msgs) /\ ~grp[g].locked
      /\ k \in Nat /\ k + 1 \in 0..Len(grp[g].msgs)
      /\ Dropped(g, k + 1) = D \cup {n} /\ n \notin D
      /\ Ready' = Ready \ (D \cup {n}) /\ InFlight' = InFlight \cup {n}
      /\ UNCHANGED <<delayed, away>>
  BY DEF PlaceInv, LockInv, IsLeased
<1>2. \A m \in D \cup {n} : m \in Ready /\ m \in 1..Len(msgs) /\ msgs[m].group = g
  BY <1>1, DroppedIn
<1> HIDE DEF D
<1>3. n \in Seqs
  BY <1>1, <1>2, PlacesIn
<1>4. Gone' = Gone \cup D
  <2>1. Present \cup away \subseteq 1..Len(msgs)
    BY <1>1, PlacesIn DEF Present
  <2>2. (Present \cup away)' = (Present \cup away) \ D
    BY <1>1, <1>2 DEF Present, Apart
  <2>3. D \subseteq Present \cup away
    BY <1>2 DEF Present
  <2> QED BY <1>1, <2>1, <2>2, <2>3 DEF Gone
<1> DEFINE R == Ready' I == InFlight' L == Gone'
<1>5. /\ Ready \in SUBSET (1..Len(msgs)) /\ InFlight \in SUBSET (1..Len(msgs))
      /\ delayed \in SUBSET (1..Len(msgs)) /\ away \in SUBSET (1..Len(msgs))
      /\ Gone \in SUBSET (1..Len(msgs))
  BY <1>1, PlacesIn DEF Gone
<1>6. /\ R = Ready \ (D \cup {n}) /\ I = InFlight \cup {n} /\ L = Gone \cup D
  BY <1>1, <1>4
<1> HIDE DEF R, I, L
<1>7. \A m \in 1..Len(msgs) : msgs'[m].group = msgs[m].group
  BY <1>1 DEF MsgsKept
<1>8. [h \in Groups |-> {m \in R : msgs'[m].group = h}]
        = [ByGroup(Ready) EXCEPT ![g] = @ \ (D \cup {n})]
  BY <1>2, <1>5, <1>6, <1>7 DEF ByGroup, OfGroup
<1>9. [h \in Groups |-> {m \in I : msgs'[m].group = h}]
        = [ByGroup(InFlight) EXCEPT ![g] = @ \cup {n}]
  BY <1>2, <1>5, <1>6, <1>7 DEF ByGroup, OfGroup
<1>10. [h \in Groups |-> {m \in L : msgs'[m].group = h}]
        = [ByGroup(Gone) EXCEPT ![g] = @ \cup D]
  BY <1>2, <1>5, <1>6, <1>7 DEF ByGroup, OfGroup
<1>11. /\ [h \in Groups |-> {m \in delayed : msgs'[m].group = h}] = ByGroup(delayed)
       /\ [h \in Groups |-> {m \in away : msgs'[m].group = h}] = ByGroup(away)
  BY <1>5, <1>7 DEF ByGroup, OfGroup
<1>12. OfGroup(InFlight, g) = {}
  BY <1>1 DEF PlaceInv, LockInv, LockedByOneLease, OfGroup
<1>13. n \in OfGroup(Ready, g) /\ D \subseteq OfGroup(Ready, g) \ {n}
       /\ D \in SUBSET OfGroup(Ready, g)
  BY <1>1, <1>2 DEF OfGroup
<1>14. Promise!Deliver(g, n, D)
  <2>1. D \cup {n} = {n} \cup D
    OBVIOUS
  <2>2. /\ ByGroup(Ready)' = [ByGroup(Ready) EXCEPT ![g] = @ \ (D \cup {n})]
        /\ ByGroup(InFlight)' = [ByGroup(InFlight) EXCEPT ![g] = @ \cup {n}]
        /\ ByGroup(Gone)' = [ByGroup(Gone) EXCEPT ![g] = @ \cup D]
        /\ ByGroup(delayed)' = ByGroup(delayed) /\ ByGroup(away)' = ByGroup(away)
    BY <1>1, <1>8, <1>9, <1>10, <1>11 DEF ByGroup, OfGroup, R, I, L
  <2> QED BY <1>12, <1>13, <2>2 DEF ByGroup, Promise!Deliver, Promise!Lose, Promise!Gain
<1> QED BY <1>3, <1>13, <1>14 DEF Promise!Next

LEMMA DrainedHandsOver ==
  ASSUME PlaceInv, IsDrained
  PROVE  Promise!Next
<1>1. /\ TypeInv /\ MsgsKept /\ Len(msgs') = Len(msgs)
      /\ Ready' = {} /\ InFlight' = {} /\ delayed' = {} /\ away' = away \cup Present
  BY DEF PlaceInv, LockInv, IsDrained
<1>2. Gone' = Gone
  BY <1>1 DEF Gone, Present
<1> DEFINE A == away' L == Gone'
<1>3. A = away \cup (Ready \cup InFlight \cup delayed) /\ L = Gone
  BY <1>1, <1>2 DEF Present
<1>4. /\ Ready \in SUBSET (1..Len(msgs)) /\ InFlight \in SUBSET (1..Len(msgs))
      /\ delayed \in SUBSET (1..Len(msgs)) /\ away \in SUBSET (1..Len(msgs))
      /\ Gone \in SUBSET (1..Len(msgs))
      /\ \A m \in 1..Len(msgs) : msgs'[m].group = msgs[m].group
  BY <1>1, PlacesIn DEF Gone, MsgsKept
<1> HIDE DEF A, L
<1>5. [h \in Groups |-> {m \in A : msgs'[m].group = h}]
        = [g \in Groups |-> OfGroup(away, g) \cup OfGroup(Ready, g)
                            \cup OfGroup(InFlight, g) \cup OfGroup(delayed, g)]
  BY <1>3, <1>4 DEF OfGroup
<1>6. [h \in Groups |-> {m \in L : msgs'[m].group = h}] = ByGroup(Gone)
  BY <1>3, <1>4 DEF ByGroup, OfGroup
<1>7. /\ ByGroup(Ready)' = [g \in Groups |-> {}] /\ ByGroup(InFlight)' = [g \in Groups |-> {}]
      /\ ByGroup(delayed)' = [g \in Groups |-> {}]
  BY <1>1 DEF ByGroup, OfGroup
<1>8. /\ ByGroup(away)' = [g \in Groups |-> ByGroup(away)[g] \cup ByGroup(Ready)[g]
                             \cup ByGroup(InFlight)[g] \cup ByGroup(delayed)[g]]
      /\ ByGroup(Gone)' = ByGroup(Gone)
  BY <1>5, <1>6 DEF ByGroup, OfGroup, A, L
<1>9. Promise!HandOver
  BY <1>7, <1>8 DEF ByGroup, Promise!HandOver, Promise!Nothing
<1> QED BY <1>9 DEF Promise!Next

LEMMA AbsorbedTakesIn ==
  ASSUME PlaceInv, NEW g \in Groups, NEW list, IsAbsorbed(g, list)
  PROVE  Promise!Next
<1> DEFINE S == Arriving(g, opNow)
<1>1. /\ TypeInv /\ Apart /\ MsgsKept /\ Len(msgs') = Len(msgs)
      /\ S # {} /\ Shift(S, "away", "ready")
  BY DEF PlaceInv, LockInv, IsAbsorbed
<1>2. \A n \in S : n \in away /\ n \in 1..Len(msgs) /\ msgs[n].group = g
  BY <1>1, ArrivingIn, PlacesIn
<1> HIDE DEF S
<1>3. AllFrom(S, "away")
  BY <1>1, <1>2 DEF AllFrom, ComesFrom, Apart
<1>4. "away" \in Places /\ "ready" \in Places
  BY DEF Places
<1>5. Shifts(g, S, "away", "ready")
  BY <1>1, <1>2, <1>3, <1>4, GroupShifts
<1>6. S \in SUBSET OfGroup(away, g)
  BY <1>2 DEF OfGroup
<1>7. Promise!TakeIn(g, S)
  BY <1>1, <1>5, <1>6 DEF Shifts, ThenAt, ByGroup, Promise!TakeIn, Promise!Lose, Promise!Gain
<1> QED BY <1>6, <1>7 DEF Promise!Next

(* Places that stay as they are stay so group by group. *)
LEMMA SameByGroup ==
  ASSUME MsgsKept, NEW X \in SUBSET (1..Len(msgs))
  PROVE  [h \in Groups |-> {m \in X : msgs'[m].group = h}] = ByGroup(X)
BY DEF MsgsKept, ByGroup, OfGroup

LEMMA HeldTakesIn ==
  ASSUME PlaceInv, IsHeld
  PROVE  Promise!Next
<1>1. /\ TypeInv /\ MsgsKept /\ Len(msgs') = Len(msgs)
      /\ Ready' = Ready /\ InFlight' = InFlight /\ delayed' = delayed \cup away /\ away' = {}
  BY DEF PlaceInv, LockInv, IsHeld, Shift, Then
<1>2. Gone' = Gone
  BY <1>1 DEF Gone, Present
<1>3. /\ Ready \in SUBSET (1..Len(msgs)) /\ InFlight \in SUBSET (1..Len(msgs))
      /\ delayed \in SUBSET (1..Len(msgs)) /\ away \in SUBSET (1..Len(msgs))
      /\ Gone \in SUBSET (1..Len(msgs))
      /\ \A m \in 1..Len(msgs) : msgs'[m].group = msgs[m].group
  BY <1>1, PlacesIn DEF Gone, MsgsKept
<1> DEFINE R == Ready I == InFlight L == Gone H == delayed \cup away
<1>4. /\ [h \in Groups |-> {m \in R : msgs'[m].group = h}] = ByGroup(R)
      /\ [h \in Groups |-> {m \in I : msgs'[m].group = h}] = ByGroup(I)
      /\ [h \in Groups |-> {m \in L : msgs'[m].group = h}] = ByGroup(L)
  BY <1>1, <1>3, SameByGroup
<1>5. [h \in Groups |-> {m \in H : msgs'[m].group = h}]
        = [g \in Groups |-> OfGroup(delayed, g) \cup OfGroup(away, g)]
  BY <1>3 DEF OfGroup
<1>6. /\ ByGroup(Ready)' = ByGroup(Ready) /\ ByGroup(InFlight)' = ByGroup(InFlight)
      /\ ByGroup(Gone)' = ByGroup(Gone)
      /\ ByGroup(delayed)' = [g \in Groups |-> ByGroup(delayed)[g] \cup ByGroup(away)[g]]
      /\ ByGroup(away)' = [g \in Groups |-> {}]
  BY <1>1, <1>2, <1>4, <1>5 DEF ByGroup, OfGroup
<1>7. Promise!TakeInHeld
  BY <1>6 DEF ByGroup, Promise!TakeInHeld, Promise!Nothing
<1> QED BY <1>7 DEF Promise!Next

LEMMA RestsStutters ==
  ASSUME PlaceInv, Rests
  PROVE  UNCHANGED Promise!vars
<1>1. /\ TypeInv /\ MsgsKept /\ Len(msgs') = Len(msgs)
      /\ Ready' = Ready /\ InFlight' = InFlight /\ delayed' = delayed /\ away' = away
  BY DEF PlaceInv, LockInv, Rests
<1>2. Gone' = Gone
  BY <1>1 DEF Gone, Present
<1>3. /\ Ready \in SUBSET (1..Len(msgs)) /\ InFlight \in SUBSET (1..Len(msgs))
      /\ delayed \in SUBSET (1..Len(msgs)) /\ away \in SUBSET (1..Len(msgs))
      /\ Gone \in SUBSET (1..Len(msgs))
  BY <1>1, PlacesIn DEF Gone
<1> DEFINE F(X) == [h \in Groups |-> {m \in X : msgs'[m].group = h}]
<1>4. /\ F(Ready) = ByGroup(Ready) /\ F(InFlight) = ByGroup(InFlight)
      /\ F(delayed) = ByGroup(delayed) /\ F(away) = ByGroup(away) /\ F(Gone) = ByGroup(Gone)
  BY <1>1, <1>3, SameByGroup
<1>5. /\ ByGroup(Ready)' = ByGroup(Ready) /\ ByGroup(InFlight)' = ByGroup(InFlight)
      /\ ByGroup(delayed)' = ByGroup(delayed) /\ ByGroup(away)' = ByGroup(away)
      /\ ByGroup(Gone)' = ByGroup(Gone)
  BY <1>1, <1>2, <1>4 DEF ByGroup, OfGroup
<1> QED BY <1>5 DEF ByGroup, Promise!vars

LEMMA InitPromise == Init => Promise!Init
<1> SUFFICES ASSUME Init PROVE Promise!Init
  OBVIOUS
<1>1. /\ \A g \in Groups : grp[g].msgs = <<>>
      /\ msgs = <<>> /\ InFlight = {} /\ delayed = {} /\ away = {}
  BY DEF Init, InFlight
<1>2. Ready = {}
  BY <1>1 DEF Ready, Queued
<1>3. Gone = {}
  <2>1. 1..Len(msgs) = {}
    BY <1>1
  <2> QED BY <2>1 DEF Gone
<1> QED BY <1>1, <1>2, <1>3 DEF Promise!Init, Promise!Nothing, OfGroup

LEMMA NextPromise ==
  ASSUME PlaceInv, [Next]_vars
  PROVE  [Promise!Next]_(Promise!vars)
<1>1. TypeInv'
  BY NextLock DEF PlaceInv, LockInv
<1>2. Flow
  BY <1>1, NextFlows
<1>3. Promise!Next \/ UNCHANGED Promise!vars
  BY <1>1, <1>2, RestsStutters, DrainedHandsOver, HeldTakesIn, ComesSubmits, ReleasedReleases,
     RetiredEndsLease, LeasedDelivers, CutExpires, AbsorbedTakesIn DEF Flow
<1> QED BY <1>3

(* Every behaviour of a slot is one of what it promises: one message of a  *)
(* group out at a time, nothing done that was not leased or expired, and   *)
(* nothing done that comes back - through timers, sweeps, drains, absorbs. *)
THEOREM SlotKeepsPromise == Spec => KeepsPromise
<1>1. Init => PlaceInv /\ Promise!Init
  BY InitPlaces, InitPromise
<1>2. PlaceInv /\ [Next]_vars => PlaceInv'
  BY NextPlaces
<1>3. PlaceInv /\ [Next]_vars => [Promise!Next]_(Promise!vars)
  BY NextPromise
<1> QED BY <1>1, <1>2, <1>3, PTL DEF Spec, KeepsPromise, Promise!Spec

-----------------------------------------------------------------------------
(* What the promise of a slot comes to, from Delivery's steps alone.       *)

LeaseGroup(g) == OfGroup(InFlight, g)
DoneGroup(g)  == OfGroup(Gone, g)

(* Every step of Delivery but a delivery leaves a group's leases as they   *)
(* are or takes some away; a delivery is made to a group with none.        *)
LEMMA PromiseLeases ==
  ASSUME Promise!Next, NEW h \in Groups
  PROVE  \/ LeaseGroup(h)' \subseteq LeaseGroup(h)
         \/ \E m : LeaseGroup(h) = {} /\ LeaseGroup(h)' = {m}
<1> DEFINE L == ByGroup(InFlight)
<1>1. L[h] = LeaseGroup(h) /\ L'[h] = LeaseGroup(h)' /\ DOMAIN L = Groups
  BY DEF LeaseGroup, ByGroup, OfGroup
<1>2. \/ L' = L
      \/ \E g \in Groups, m \in Seqs : L[g] = {} /\ L' = [L EXCEPT ![g] = @ \cup {m}]
      \/ \E g \in Groups, m \in Seqs : L' = [L EXCEPT ![g] = @ \ {m}]
      \/ L' = [g \in Groups |-> {}]
  <2>1. ASSUME NEW g \in Groups, NEW m \in Seqs, Promise!Submit(g, m) PROVE L' = L
    BY <2>1 DEF Promise!Submit, ByGroup
  <2>2. ASSUME NEW g \in Groups, NEW m \in Seqs, NEW S, Promise!Deliver(g, m, S)
        PROVE  L[g] = {} /\ L' = [L EXCEPT ![g] = @ \cup {m}]
    BY <2>2 DEF Promise!Deliver, Promise!Gain, ByGroup
  <2>3. ASSUME NEW g \in Groups, NEW m \in Seqs, Promise!EndLease(g, m)
        PROVE  L' = [L EXCEPT ![g] = @ \ {m}]
    BY <2>3 DEF Promise!EndLease, Promise!Lose, ByGroup
  <2>4. ASSUME NEW g \in Groups, NEW m \in Seqs, Promise!Release(g, m) PROVE L' = L
    BY <2>4 DEF Promise!Release, ByGroup
  <2>5. ASSUME NEW g \in Groups, NEW S, Promise!Expire(g, S) \/ Promise!TakeIn(g, S) PROVE L' = L
    BY <2>5 DEF Promise!Expire, Promise!TakeIn, ByGroup
  <2>6. CASE Promise!HandOver
    BY <2>6 DEF Promise!HandOver, Promise!Nothing, ByGroup
  <2>7. CASE Promise!TakeInHeld
    BY <2>7 DEF Promise!TakeInHeld, ByGroup
  <2> HIDE DEF L
  <2> QED BY <2>1, <2>2, <2>3, <2>4, <2>5, <2>6, <2>7 DEF Promise!Next
<1> HIDE DEF L
<1> QED BY <1>1, <1>2

(* A group never has two messages out at once, whatever keeps the promise, *)
(* as the slot does: the strict order within a group (HLD section 14)      *)
(* rests on it.                                                            *)
THEOREM LeaseAlone == Spec => []Promise!OneLeasePerGroup
<1>1. Promise!Init => Promise!OneLeasePerGroup
  BY DEF Promise!Init, Promise!OneLeasePerGroup, Promise!Nothing
<1>2. Promise!OneLeasePerGroup /\ [Promise!Next]_(Promise!vars) => Promise!OneLeasePerGroup'
  <2> SUFFICES ASSUME Promise!OneLeasePerGroup, [Promise!Next]_(Promise!vars), NEW h \in Groups
               PROVE  \A m, n \in LeaseGroup(h)' : m = n
    BY DEF Promise!OneLeasePerGroup, LeaseGroup
  <2>1. \A m, n \in LeaseGroup(h) : m = n
    BY DEF Promise!OneLeasePerGroup, LeaseGroup
  <2>2. CASE Promise!Next
    BY <2>1, <2>2, PromiseLeases
  <2>3. CASE UNCHANGED Promise!vars
    <3>1. ByGroup(InFlight)' = ByGroup(InFlight)
      BY <2>3 DEF Promise!vars, ByGroup
    <3>2. ByGroup(InFlight)[h] = LeaseGroup(h) /\ ByGroup(InFlight)'[h] = LeaseGroup(h)'
      BY DEF LeaseGroup, ByGroup, OfGroup
    <3> QED BY <2>1, <3>1, <3>2
  <2> QED BY <2>2, <2>3
<1> QED BY <1>1, <1>2, SlotKeepsPromise, PTL DEF KeepsPromise, Promise!Spec

(* What is done stays done: an acknowledged, dead-lettered or expired      *)
(* message is never handed out again.                                      *)
DoneStays == \A g \in Groups : DoneGroup(g) \subseteq DoneGroup(g)'

LEMMA PromiseDone ==
  ASSUME Promise!Next, NEW h \in Groups
  PROVE  DoneGroup(h) \subseteq DoneGroup(h)'
<1> DEFINE L == ByGroup(Gone)
<1>1. L[h] = DoneGroup(h) /\ L'[h] = DoneGroup(h)' /\ DOMAIN L = Groups
  BY DEF DoneGroup, ByGroup, OfGroup
<1>2. L' = L \/ \E g \in Groups : \E S : L' = [L EXCEPT ![g] = @ \cup S]
  <2>1. ASSUME NEW g \in Groups, NEW m \in Seqs, Promise!Submit(g, m) \/ Promise!Release(g, m)
        PROVE  L' = L
    BY <2>1 DEF Promise!Submit, Promise!Release, ByGroup
  <2>2. ASSUME NEW g \in Groups, NEW m \in Seqs, NEW S, Promise!Deliver(g, m, S)
        PROVE  L' = [L EXCEPT ![g] = @ \cup S]
    BY <2>2 DEF Promise!Deliver, Promise!Gain, ByGroup
  <2>3. ASSUME NEW g \in Groups, NEW m \in Seqs, Promise!EndLease(g, m)
        PROVE  L' = L \/ L' = [L EXCEPT ![g] = @ \cup {m}]
    BY <2>3 DEF Promise!EndLease, Promise!Gain, ByGroup
  <2>4. ASSUME NEW g \in Groups, NEW S, Promise!Expire(g, S)
        PROVE  L' = [L EXCEPT ![g] = @ \cup S]
    BY <2>4 DEF Promise!Expire, Promise!Gain, ByGroup
  <2>5. ASSUME NEW g \in Groups, NEW S, Promise!TakeIn(g, S) PROVE L' = L
    BY <2>5 DEF Promise!TakeIn, ByGroup
  <2>6. CASE Promise!HandOver \/ Promise!TakeInHeld
    BY <2>6 DEF Promise!HandOver, Promise!TakeInHeld, ByGroup
  <2> HIDE DEF L
  <2> QED BY <2>1, <2>2, <2>3, <2>4, <2>5, <2>6 DEF Promise!Next
<1> HIDE DEF L
<1> QED BY <1>1, <1>2

(* No step of a slot gives back a message it is done with: a receipt that  *)
(* was accepted, or a dead letter, is final.                               *)
THEOREM DoneForGood == Spec => [][DoneStays]_(Promise!vars)
<1>1. [Promise!Next]_(Promise!vars) => [DoneStays]_(Promise!vars)
  BY PromiseDone DEF DoneStays
<1> QED BY <1>1, SlotKeepsPromise, PTL DEF KeepsPromise, Promise!Spec

-----------------------------------------------------------------------------
(* The order of a group *)

Sorted(s)     == \A i, j \in DOMAIN s : i < j => s[i] < s[j]
Before(X, s)  == \A n \in X : \A i \in DOMAIN s : n < s[i]
LeasedOf(g)   == OfGroup(InFlight, g)

LEMMA InOrderIs ==
  ASSUME NEW g \in Groups
  PROVE  InOrder(g) <=> Sorted(grp[g].msgs) /\ Before(LeasedOf(g), grp[g].msgs)
BY DEF InOrder, Sorted, Before, LeasedOf, OfGroup

LEMMA InOrderNext ==
  ASSUME NEW g \in Groups, Sorted(grp'[g].msgs), Before(LeasedOf(g)', grp'[g].msgs)
  PROVE  InOrder(g)'
BY DEF InOrder, Sorted, Before, LeasedOf, OfGroup

LEMMA AppendSorted ==
  ASSUME NEW s \in Seq(Seqs), NEW n \in Seqs, Sorted(s), \A i \in DOMAIN s : s[i] < n
  PROVE  Sorted(Append(s, n)) /\ \A X : Before(X, s) /\ (\A m \in X : m < n) => Before(X, Append(s, n))
<1> DEFINE t == Append(s, n)
<1>1. PICK l \in Nat : l = Len(s) /\ DOMAIN s = 1..l
  OBVIOUS
<1>2. /\ DOMAIN t = 1..(l + 1) /\ t[l + 1] = n /\ \A i \in 1..l : t[i] = s[i]
  BY <1>1, AppendProperties
<1> HIDE DEF t
<1>3. Sorted(t)
  <2> SUFFICES ASSUME NEW i \in 1..(l + 1), NEW j \in 1..(l + 1), i < j PROVE t[i] < t[j]
    BY <1>2 DEF Sorted
  <2>1. i \in 1..l /\ (j \in 1..l \/ j = l + 1)
    BY <1>1
  <2> QED BY <1>1, <1>2, <2>1 DEF Sorted
<1>4. ASSUME NEW X, Before(X, s), \A m \in X : m < n PROVE Before(X, t)
  <2> SUFFICES ASSUME NEW m \in X, NEW i \in 1..(l + 1) PROVE m < t[i]
    BY <1>2 DEF Before
  <2>1. i \in 1..l \/ i = l + 1
    BY <1>1
  <2> QED BY <1>1, <1>2, <1>4, <2>1 DEF Before
<1> QED BY <1>3, <1>4 DEF t

LEMMA ConcatSorted ==
  ASSUME NEW s \in Seq(Seqs), NEW t \in Seq(Seqs), Sorted(s), Sorted(t), Before(Els(s), t)
  PROVE  Sorted(s \o t)
<1> DEFINE c == s \o t
<1>1. PICK k \in Nat, l \in Nat : k = Len(s) /\ l = Len(t) /\ DOMAIN s = 1..k /\ DOMAIN t = 1..l
  OBVIOUS
<1>2. DOMAIN c = 1..(k + l) /\ (\A i \in 1..k : c[i] = s[i]) /\ (\A i \in 1..l : c[k + i] = t[i])
  BY <1>1, ConcatProperties
<1> HIDE DEF c
<1>3. \A i \in 1..(k + l) : i \in 1..k \/ \E m \in 1..l : i = k + m
  <2> SUFFICES ASSUME NEW i \in 1..(k + l), i \notin 1..k PROVE \E m \in 1..l : i = k + m
    OBVIOUS
  <2>1. i - k \in 1..l /\ i = k + (i - k)
    BY <1>1
  <2> QED BY <2>1
<1>4. ASSUME NEW i \in 1..(k + l), NEW j \in 1..(k + l), i < j PROVE c[i] < c[j]
  <2>1. CASE i \in 1..k /\ j \in 1..k
    <3>1. s[i] < s[j]
      BY ONLY <1>1, <1>4, <2>1, Sorted(s) DEF Sorted
    <3> QED BY ONLY <1>2, <2>1, <3>1
  <2>2. CASE i \in 1..k /\ j \notin 1..k
    <3>1. PICK m \in 1..l : j = k + m
      BY <1>3, <2>2
    <3>2. c[i] \in Els(s) /\ c[j] = t[m]
      BY <1>1, <1>2, <2>2, <3>1 DEF Els
    <3>3. c[i] < t[m]
      BY ONLY <1>1, <3>1, <3>2, Before(Els(s), t) DEF Before
    <3> QED BY ONLY <3>2, <3>3
  <2>3. CASE i \notin 1..k
    <3>1. PICK m \in 1..l, q \in 1..l : i = k + m /\ j = k + q
      <4>1. j \notin 1..k
        BY ONLY <1>1, <1>4, <2>3
      <4> QED BY <1>3, <2>3, <4>1
    <3>2. m < q
      BY ONLY <1>1, <1>4, <3>1
    <3>3. t[m] < t[q]
      BY ONLY <1>1, <3>1, <3>2, Sorted(t) DEF Sorted
    <3> QED BY ONLY <1>2, <3>1, <3>3
  <2> QED BY <2>1, <2>2, <2>3
<1> QED BY <1>2, <1>4 DEF Sorted, c

(* What is away is older than what is here, so that an absorb, which puts  *)
(* it ahead, is right to.                                                  *)
Older ==
  /\ holder # "absorb" => \A a \in away : \A n \in Present : a < n
  /\ holder = "absorb" =>
       \A g \in Groups : \A a \in Arriving(g, opNow) : \A n \in Queued(g) : a < n

OrderInv == PlaceInv /\ Older

(* Outside an absorb nothing new is here but what was just enqueued. *)
LEMMA FlowIn ==
  ASSUME PlaceInv, Flow, holder # "absorb"
  PROVE  \/ Present' \subseteq Present \cup {Len(msgs) + 1} /\ away' = away
         \/ Present' = {}
<1>1. CASE Rests
  BY <1>1 DEF Rests, Present
<1>2. CASE IsDrained
  BY <1>2 DEF IsDrained, Present
<1>3. CASE Comes(Len(msgs) + 1)
  BY <1>3 DEF Comes, Shift, Then, Present
<1>4. ASSUME NEW n, IsReleased(n) PROVE Present' \subseteq Present /\ away' = away
  BY <1>4 DEF IsReleased, Shift, Then, Present
<1>5. ASSUME NEW n, IsRetired(n) PROVE Present' \subseteq Present /\ away' = away
  BY <1>5 DEF IsRetired, Shift, Then, Present
<1>6. ASSUME NEW g \in Groups, NEW k, NEW n, IsLeased(g, k, n)
      PROVE  Present' \subseteq Present /\ away' = away
  <2>1. n \in Ready
    <3>1. TypeInv /\ k + 1 \in 0..Len(grp[g].msgs) /\ n \in Dropped(g, k + 1)
      BY <1>6 DEF IsLeased, PlaceInv, LockInv
    <3> QED BY <3>1, DroppedIn
  <2> QED BY <1>6, <2>1 DEF IsLeased, Present
<1>7. ASSUME NEW g \in Groups, NEW k, IsCut(g, k) PROVE Present' \subseteq Present /\ away' = away
  BY <1>7 DEF IsCut, Shift, Then, Present
<1> QED BY <1>1, <1>2, <1>3, <1>4, <1>5, <1>6, <1>7 DEF Flow, IsHeld, IsAbsorbed

(* Which loop has the mutex after a step. *)
LEMMA HolderNext ==
  ASSUME [Next]_vars
  PROVE  /\ holder # "absorb" =>
              \/ holder' # "absorb"
              \/ holder' = "absorb" /\ UNCHANGED <<msgs, content, inflight, delayed, away>>
         /\ holder = "absorb" =>
              \/ UNCHANGED <<msgs, content, inflight, delayed, away, holder, opNow>>
              \/ (\E g \in Groups : AbsorbGroup(g)) /\ UNCHANGED <<msgs, holder, opNow>>
              \/ away' = {} /\ holder' = "none"
<1> DEFINE Same == UNCHANGED <<msgs, content, inflight, delayed, away>>
<1>1. CASE \/ \E p \in Priorities, g \in Groups, ttl \in TTLs, d \in Delays : Enqueue(p, g, ttl, d)
           \/ \E p \in Priorities : Take(p) \/ TakeExpired(p) \/ TakeNothing(p)
           \/ \E n \in Seqs, e \in 1..epochSeq : Ack(n, e) \/ \E d \in Delays : Nack(n, e, d)
           \/ Drain
  <2>1. holder = "none" /\ UNCHANGED holder
    BY <1>1 DEF Enqueue, Take, TakeExpired, TakeNothing, Ack, Nack, Drain, Free, lockVars
  <2> QED BY <2>1
<1>2. CASE \/ \E n \in delayed : ReleaseDelayed(n)
           \/ \E e \in timers : SweepLease(e)
           \/ \E g \in todo : SweepTTL(g)
           \/ BeginSweep \/ ReleaseDone \/ LeasesDone \/ SweepDone
  <2>1. holder # "absorb" /\ holder' # "absorb"
    BY <1>2 DEF ReleaseDelayed, SweepLease, SweepTTL, BeginSweep, ReleaseDone, LeasesDone,
       SweepDone, Free, lockVars
  <2> QED BY <2>1
<1>3. CASE BeginAbsorb
  <2>1. holder = "none" /\ holder' = "absorb" /\ Same
    BY <1>3 DEF BeginAbsorb, Free
  <2> QED BY <2>1
<1>4. CASE \E g \in Groups : AbsorbGroup(g)
  <2>1. holder = "absorb" /\ UNCHANGED <<msgs, holder, opNow>>
    BY <1>4 DEF AbsorbGroup, lockVars
  <2> QED BY <1>4, <2>1
<1>5. CASE AbsorbDone
  <2>1. holder = "absorb" /\ away' = {} /\ holder' = "none"
    BY <1>5 DEF AbsorbDone
  <2> QED BY <2>1
<1>6. CASE Tick \/ UNCHANGED vars
  <2>1. Same /\ UNCHANGED <<holder, opNow>>
    BY <1>6 DEF Tick, vars, content, lockVars
  <2> QED BY <2>1
<1> QED BY <1>1, <1>2, <1>3, <1>4, <1>5, <1>6 DEF Next

LEMMA NextOlder ==
  ASSUME OrderInv, [Next]_vars
  PROVE  Older'
<1>1. PlaceInv /\ TypeInv /\ Flow
  BY NextLock, NextFlows DEF OrderInv, PlaceInv, LockInv
<1>2. PlacesThere
  BY <1>1, PlacesNow
<1>3. CASE holder # "absorb" /\ holder' # "absorb"
  <2>1. \A a \in away : \A n \in Present \cup {Len(msgs) + 1} : a < n
    <3>1. \A a \in away : a \in 1..Len(msgs) /\ Len(msgs) \in Nat
      BY <1>2 DEF PlacesThere
    <3>2. \A a \in away : a < Len(msgs) + 1
      BY <3>1
    <3>3. \A a \in away : \A n \in Present : a < n
      BY <1>3 DEF OrderInv, Older
    <3> QED BY <3>2, <3>3
  <2>2. \A a \in away' : \A n \in Present' : a < n
    BY <1>1, <1>3, <2>1, FlowIn
  <2> QED BY <1>3, <2>2 DEF Older
<1>4. CASE holder # "absorb" /\ holder' = "absorb"
  <2>1. UNCHANGED <<msgs, content, inflight, delayed, away>>
    BY <1>4, HolderNext
  <2>2. \A g \in Groups : Arriving(g, opNow)' \subseteq away /\ Queued(g)' \subseteq Present
    BY <2>1 DEF Arriving, Queued, Present, Ready, content
  <2>3. \A a \in away : \A n \in Present : a < n
    BY <1>4 DEF OrderInv, Older
  <2> QED BY <1>4, <2>2, <2>3 DEF Older
<1>5. CASE holder = "absorb"
  <2>0. \A g \in Groups : \A a \in Arriving(g, opNow) : \A n \in Queued(g) : a < n
    BY <1>5 DEF OrderInv, Older
  <2>1. CASE UNCHANGED <<msgs, content, inflight, delayed, away, holder, opNow>>
    <3>1. \A g \in Groups : Arriving(g, opNow)' = Arriving(g, opNow) /\ Queued(g)' = Queued(g)
      BY <2>1 DEF Arriving, StillDelayed, Queued, content
    <3> QED BY <1>5, <2>0, <2>1, <3>1 DEF Older
  <2>2. ASSUME NEW g \in Groups, AbsorbGroup(g), UNCHANGED <<msgs, holder, opNow>> PROVE Older'
    <3>1. PICK list, r : TakesIn(g, list, r)
      BY <1>1, <2>2, AbsorbTakesIn
    <3>2. \A h \in Groups \ {g} : Queued(h)' = Queued(h)
      BY <1>1, <3>1, PutMsgs DEF TakesIn, Queued
    <3>3. away' = away \ Arriving(g, opNow)
      BY <2>2 DEF AbsorbGroup
    <3>4. \A h \in Groups : Arriving(h, opNow)' \subseteq Arriving(h, opNow)
      BY <2>2, <3>3 DEF Arriving, StillDelayed
    <3>5. Arriving(g, opNow)' = {}
      BY <2>2, <3>3 DEF Arriving, StillDelayed
    <3>6. ASSUME NEW h \in Groups, NEW a \in Arriving(h, opNow)', NEW n \in Queued(h)'
          PROVE  a < n
      BY <2>0, <3>2, <3>4, <3>5
    <3> QED BY <1>5, <2>2, <3>6 DEF Older
  <2>3. CASE away' = {} /\ holder' = "none"
    BY <2>3 DEF Older
  <2> QED BY <1>5, <2>1, <2>2, <2>3, HolderNext
<1> QED BY <1>3, <1>4, <1>5

LEMMA InitOrder == Init => OrderInv
BY InitPlaces DEF Init, OrderInv, Older

LEMMA NextOrder == OrderInv /\ [Next]_vars => OrderInv'
BY NextPlaces, NextOlder DEF OrderInv

OrderedStep(g) ==
  /\ InOrder(g)
  /\ holder # "release"
  /\ ~(holder = "absorb" /\ grp[g].locked)

(* The group of what is leased does not change. *)
LEMMA LeasedNext ==
  ASSUME TypeInv, MsgsKept, NEW g \in Groups, NEW X, InFlight' \subseteq InFlight \cup X
  PROVE  /\ LeasedOf(g)' \subseteq LeasedOf(g) \cup {n \in X : msgs'[n].group = g}
         /\ InFlight' = InFlight \ X => LeasedOf(g)' \subseteq LeasedOf(g) \ X
<1>1. InFlight \subseteq 1..Len(msgs)
  BY DEF TypeInv
<1> QED BY <1>1 DEF MsgsKept, LeasedOf, OfGroup

(* A list that stays is in order if nothing is leased anew. *)
LEMMA SameInOrder ==
  ASSUME TypeInv, MsgsKept, NEW g \in Groups, InOrder(g), grp'[g].msgs = grp[g].msgs,
         LeasedOf(g)' \subseteq LeasedOf(g)
  PROVE  InOrder(g)'
<1>1. Sorted(grp'[g].msgs) /\ Before(LeasedOf(g), grp'[g].msgs)
  BY InOrderIs
<1>2. Before(LeasedOf(g)', grp'[g].msgs)
  BY <1>1 DEF Before
<1> QED BY <1>1, <1>2, InOrderNext

(* So is the rest of a list, with its last message gone leased. *)
LEMMA SuffixInOrder ==
  ASSUME TypeInv, NEW g \in Groups, InOrder(g), NEW k \in 0..Len(grp[g].msgs),
         grp'[g].msgs = After(g, k), LeasedOf(g)' \subseteq LeasedOf(g) \cup Dropped(g, k)
  PROVE  InOrder(g)'
<1> DEFINE s == grp[g].msgs
           t == After(g, k)
<1>1. Sorted(s) /\ Before(LeasedOf(g), s)
  BY InOrderIs
<1>2. ContentInv /\ s \in Seq(Seqs)
  BY DEF TypeInv, ContentInv, Group
<1>3. PICK l \in Nat : l = Len(s) /\ DOMAIN s = 1..l /\ k \in 0..l
  BY <1>2
<1>4. t \in Seq(Seqs) /\ Len(t) = Len(s) - k /\ \A i \in 1..(Len(s) - k) : t[i] = s[k + i]
  BY <1>2, AfterType
<1>5. Dropped(g, k) = {s[i] : i \in 1..k}
  BY DEF Dropped
<1> HIDE DEF s, t
<1>6. DOMAIN t = 1..(l - k) /\ \A i \in 1..(l - k) : t[i] = s[k + i] /\ k + i \in 1..l
  <2>1. DOMAIN t = 1..(l - k)
    BY <1>3, <1>4
  <2>2. \A i \in 1..(l - k) : t[i] = s[k + i]
    BY <1>3, <1>4
  <2>3. \A i \in 1..(l - k) : k + i \in 1..l
    BY ONLY <1>3
  <2> QED BY <2>1, <2>2, <2>3
<1>7. Sorted(t)
  <2> SUFFICES ASSUME NEW i \in 1..(l - k), NEW j \in 1..(l - k), i < j PROVE t[i] < t[j]
    BY <1>6 DEF Sorted
  <2>1. k + i < k + j
    BY ONLY <1>3, i < j, i \in 1..(l - k), j \in 1..(l - k)
  <2> QED BY <1>1, <1>3, <1>6, <2>1 DEF Sorted
<1>8. Before(LeasedOf(g)', t)
  <2> SUFFICES ASSUME NEW n \in LeasedOf(g)', NEW i \in 1..(l - k) PROVE n < t[i]
    BY <1>6 DEF Before
  <2>1. CASE n \in LeasedOf(g)
    BY <1>1, <1>3, <1>6, <2>1 DEF Before
  <2>2. CASE n \in Dropped(g, k)
    <3>1. PICK j \in 1..k : n = s[j]
      BY <1>5, <2>2
    <3>2. j \in 1..l /\ j < k + i
      BY ONLY <1>3, i \in 1..(l - k), j \in 1..k
    <3> QED BY <1>1, <1>3, <1>6, <3>1, <3>2 DEF Sorted
  <2> QED BY <2>1, <2>2
<1>9. grp'[g].msgs = t
  BY DEF t
<1> QED BY <1>7, <1>8, <1>9, InOrderNext

LEMMA ComesInOrder ==
  ASSUME TypeInv, NEW g \in Groups, InOrder(g), NEW n, Comes(n)
  PROVE  InOrder(g)'
<1>1. /\ MsgsKept /\ n = Len(msgs) + 1 /\ Len(msgs') = n /\ Len(msgs) \in Nat
      /\ InFlight' = InFlight
  BY PlacesIn DEF Comes, Shift, Then
<1>2. LeasedOf(g)' \subseteq LeasedOf(g)
  BY <1>1, LeasedNext
<1>3. CASE grp'[g].msgs = grp[g].msgs
  BY <1>1, <1>2, <1>3, SameInOrder
<1>4. CASE grp'[g].msgs = Append(grp[g].msgs, n)
  <2> DEFINE s == grp[g].msgs
  <2>1. s \in Seq(Seqs) /\ Sorted(s) /\ Before(LeasedOf(g), s)
    BY InOrderIs DEF TypeInv, ContentInv, Group
  <2>2. n \in Seqs
    BY <1>1, SlotAssumption DEF MsgsKept, MsgsOK, Seqs
  <2>3. \A m \in 1..Len(msgs) : m < n
    BY <1>1
  <2>4. \A i \in DOMAIN s : s[i] \in 1..Len(msgs)
    BY DEF TypeInv, ContentInv, OwnList
  <2>5. \A m \in LeasedOf(g)' : m \in 1..Len(msgs)
    BY <1>2 DEF LeasedOf, OfGroup, TypeInv
  <2>6. Before(LeasedOf(g)', s)
    BY <1>2, <2>1 DEF Before
  <2> HIDE DEF s
  <2> DEFINE X == LeasedOf(g)'
  <2>7. Before(X, s) /\ (\A i \in DOMAIN s : s[i] < n) /\ \A m \in X : m < n
    BY <2>3, <2>4, <2>5, <2>6
  <2> HIDE DEF X
  <2>8. Sorted(Append(s, n)) /\ Before(X, Append(s, n))
    BY <2>1, <2>2, <2>7, AppendSorted
  <2> QED BY <1>4, <2>8, InOrderNext DEF s, X
<1> QED BY <1>3, <1>4 DEF Comes, Quiet, NowHas

LEMMA RetiredInOrder ==
  ASSUME TypeInv, LockedByOneLease, NEW g \in Groups, InOrder(g), NEW n, IsRetired(n)
  PROVE  InOrder(g)'
<1>1. MsgsKept /\ n \in InFlight /\ InFlight' = InFlight \ {n}
  BY DEF IsRetired, Shift, Then
<1>2. LeasedOf(g)' \subseteq LeasedOf(g) \ {n}
  BY <1>1, LeasedNext
<1>3. CASE grp'[g].msgs = grp[g].msgs
  BY <1>1, <1>2, <1>3, SameInOrder
<1>4. CASE g = msgs[n].group /\ grp'[g].msgs = <<n>> \o grp[g].msgs
  <2> DEFINE s == grp[g].msgs
             l == <<n>>
  <2>1. s \in Seq(Seqs) /\ Sorted(s) /\ Before(LeasedOf(g), s)
    BY InOrderIs DEF TypeInv, ContentInv, Group
  <2>2. n \in Seqs /\ n \in LeasedOf(g)
    BY <1>1, <1>4 DEF InFlight, LeasedOf, OfGroup
  <2>3. l \in Seq(Seqs) /\ DOMAIN l = {1} /\ l[1] = n
    BY <2>2
  <2>4. Sorted(l) /\ Els(l) = {n}
    BY <2>3 DEF Sorted, Els
  <2> HIDE DEF l, s
  <2>5. Before(Els(l), s)
    BY <2>1, <2>2, <2>4 DEF Before
  <2>6. Sorted(l \o s)
    BY <2>1, <2>3, <2>4, <2>5, ConcatSorted
  <2>7. LeasedOf(g)' = {}
    <3>1. \A m \in LeasedOf(g) : m = n
      BY <2>2 DEF LockedByOneLease, LeasedOf, OfGroup
    <3> QED BY <1>2, <3>1
  <2>8. Before(LeasedOf(g)', l \o s)
    BY <2>7 DEF Before
  <2> QED BY <1>4, <2>6, <2>8, InOrderNext DEF l, s
<1> QED BY <1>3, <1>4 DEF IsRetired, Quiet, NowHas

LEMMA AbsorbedInOrder ==
  ASSUME TypeInv, LockedByOneLease, Older, NEW g \in Groups, OrderedStep(g),
         NEW h \in Groups, NEW list, IsAbsorbed(h, list)
  PROVE  InOrder(g)'
<1>1. MsgsKept /\ InFlight' = InFlight /\ holder = "absorb" /\ InOrder(g) /\ ~grp[g].locked
  BY DEF IsAbsorbed, Shift, Then, OrderedStep
<1>2. LeasedOf(g)' \subseteq LeasedOf(g)
  BY <1>1, LeasedNext
<1>3. CASE g # h
  <2>1. grp'[g].msgs = grp[g].msgs
    BY <1>3 DEF IsAbsorbed, NowHas
  <2> QED BY <1>1, <1>2, <2>1, SameInOrder
<1>4. CASE g = h
  <2> DEFINE s == grp[g].msgs
  <2>1. s \in Seq(Seqs) /\ Sorted(s) /\ Els(s) = Queued(g)
    BY <1>1, InOrderIs DEF TypeInv, ContentInv, Group, Els, Queued
  <2>2. /\ list \in Seq(Seqs) /\ Els(list) = Arriving(g, opNow)
        /\ \A i, j \in DOMAIN list : i < j => list[i] < list[j]
    BY <1>4, ArrivingIn, InOrderIsAll DEF IsAbsorbed
  <2>3. Sorted(list)
    BY <2>2 DEF Sorted
  <2>4. \A a \in Arriving(g, opNow) : \A n \in Queued(g) : a < n
    BY <1>1 DEF Older
  <2>5. grp'[g].msgs = list \o s
    BY <1>4 DEF IsAbsorbed, NowHas
  <2> HIDE DEF s
  <2>6. Before(Els(list), s)
    BY <2>1, <2>2, <2>4 DEF Before, Els
  <2>7. Sorted(list \o s)
    BY <2>1, <2>2, <2>3, <2>6, ConcatSorted
  <2>8. LeasedOf(g) = {}
    BY <1>1 DEF LockedByOneLease, LeasedOf, OfGroup
  <2>9. Before(LeasedOf(g)', list \o s)
    BY <1>2, <2>8 DEF Before
  <2> QED BY <2>5, <2>7, <2>9, InOrderNext
<1> QED BY <1>3, <1>4

LEMMA LeasedInOrder ==
  ASSUME TypeInv, NEW g \in Groups, InOrder(g),
         NEW h \in Groups, NEW k, NEW n, IsLeased(h, k, n)
  PROVE  InOrder(g)'
<1>1. /\ MsgsKept /\ InFlight' = InFlight \cup {n} /\ k + 1 \in 0..Len(grp[h].msgs)
      /\ n \in Dropped(h, k + 1) /\ NowHas(h, After(h, k + 1))
  BY DEF IsLeased
<1>2. n \in 1..Len(msgs) /\ msgs[n].group = h /\ msgs'[n].group = h
  BY <1>1, DroppedIn DEF MsgsKept
<1>3. LeasedOf(g)' \subseteq LeasedOf(g) \cup {m \in {n} : msgs'[m].group = g}
  BY <1>1, LeasedNext
<1>4. CASE g = h
  BY <1>1, <1>3, <1>4, SuffixInOrder DEF NowHas
<1>5. CASE g # h
  <2>1. LeasedOf(g)' \subseteq LeasedOf(g) /\ grp'[g].msgs = grp[g].msgs
    BY <1>1, <1>2, <1>3, <1>5 DEF NowHas
  <2> QED BY <1>1, <2>1, SameInOrder
<1> QED BY <1>4, <1>5

LEMMA CutInOrder ==
  ASSUME TypeInv, NEW g \in Groups, InOrder(g), NEW h \in Groups, NEW k, IsCut(h, k)
  PROVE  InOrder(g)'
<1>1. /\ MsgsKept /\ InFlight' = InFlight /\ k \in 0..Len(grp[h].msgs)
      /\ NowHas(h, After(h, k))
  BY DEF IsCut, Shift, Then
<1>2. LeasedOf(g)' \subseteq LeasedOf(g)
  BY <1>1, LeasedNext
<1>3. CASE g = h
  BY <1>1, <1>2, <1>3, SuffixInOrder DEF NowHas
<1>4. CASE g # h
  <2>1. grp'[g].msgs = grp[g].msgs
    BY <1>1, <1>4 DEF NowHas
  <2> QED BY <1>1, <1>2, <2>1, SameInOrder
<1> QED BY <1>3, <1>4

LEMMA FlowInOrder ==
  ASSUME OrderInv, Flow, NEW g \in Groups, OrderedStep(g)
  PROVE  InOrder(g)'
<1>1. TypeInv /\ LockedByOneLease /\ Older /\ InOrder(g)
  BY DEF OrderInv, PlaceInv, LockInv, OrderedStep
<1>2. CASE Rests \/ IsHeld
  <2>1. MsgsKept /\ InFlight' = InFlight /\ grp'[g].msgs = grp[g].msgs
    BY <1>2 DEF Rests, IsHeld, Shift, Then, Quiet
  <2>2. LeasedOf(g)' \subseteq LeasedOf(g)
    BY <1>1, <2>1, LeasedNext
  <2> QED BY <1>1, <2>1, <2>2, SameInOrder
<1>3. CASE IsDrained
  <2>1. grp'[g].msgs = <<>>
    BY <1>3 DEF IsDrained
  <2> QED BY <2>1, InOrderNext DEF Sorted, Before
<1>4. CASE \E n : IsReleased(n)
  BY <1>4 DEF IsReleased, OrderedStep
<1> QED BY <1>1, <1>2, <1>3, <1>4, ComesInOrder, RetiredInOrder, LeasedInOrder, CutInOrder,
           AbsorbedInOrder DEF Flow

(* A group that is in order stays in order, the leased message counted     *)
(* first, through retries, expiry, drains and absorbs, but for the two     *)
(* exceptions that OrderKept names.                                        *)
THEOREM GroupsStayInOrder == Spec => OrderKept
<1>1. Init => OrderInv
  BY InitOrder
<1>2. OrderInv /\ [Next]_vars => OrderInv'
  BY NextOrder
<1>3. OrderInv /\ [Next]_vars
        => [\A g \in Groups : /\ InOrder(g)
                              /\ holder # "release"
                              /\ ~(holder = "absorb" /\ grp[g].locked)
                              => InOrder(g)']_vars
  <2> SUFFICES ASSUME OrderInv, [Next]_vars, NEW g \in Groups, OrderedStep(g)
               PROVE  InOrder(g)'
    BY DEF OrderedStep
  <2>1. TypeInv' /\ PlaceInv
    BY NextLock DEF OrderInv, PlaceInv, LockInv
  <2>2. Flow
    BY <2>1, NextFlows
  <2> QED BY <2>2, FlowInOrder
<1> QED BY <1>1, <1>2, <1>3, PTL DEF Spec, OrderKept

=============================================================================
