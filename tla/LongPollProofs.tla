--------------------------- MODULE LongPollProofs ---------------------------
(***************************************************************************)
(* Theorems about LongPoll for any number of consumers, gateways, nodes    *)
(* and messages, and any number of faults.                                 *)
(***************************************************************************)
EXTENDS LongPoll, FiniteSetTheorems, SequenceTheorems, WellFoundedInduction, TLAPS

(* What may bring a consumer to a message: an announcement that a node has *)
(* to make, a notification that is on a stream, a wake in a channel, or    *)
(* another consumer that looks.                                            *)
Token == ({"untold", "stream"} \X Nodes \X Nat) \cup ({"wake", "look"} \X Consumers \X {0})

(* Whether t may do so for the gateway of c without the help of c.  One    *)
(* who looks does it for the messages at the nodes it has still to ask.    *)
Carries(c, m, t) ==
  \/ t[1] = "untold" /\ 0 < t[3] /\ t[3] <= untold[t[2]]
  \/ t[1] = "stream" /\ 0 < t[3] /\ t[3] <= stream[At[c]][t[2]]
  \/ t[1] = "wake" /\ t[2] \in sig /\ At[t[2]] = At[c]
  \/ t[1] = "look" /\ t[2] # c /\ At[t[2]] = At[c] /\ pc[t[2]] = "take" /\ Home[m] \in todo[t[2]]

Carriers(c) == [m \in Messages |-> {t \in Token : Carries(c, m, t)}]

(* The messages that c has looked for and does not find again unless it is *)
(* woken.                                                                  *)
PassedBy(c) == {m \in Messages : Servable(m) /\ (pc[c] = "wait" \/ Home[m] \notin todo[c])}

(* Each message of S has a token of its own. *)
Matching(S, T) == \E f \in [S -> Token] : IsInjective(f) /\ \A m \in S : f[m] \in T[m]

(* Every message that a consumer without a wake has passed by has a token  *)
(* of its own.  One for all of them would not do: it may be used up by     *)
(* another message.                                                        *)
Matched ==
  \A c \in Consumers :
    pc[c] # "idle" /\ c \notin sig /\ ~missed => Matching(PassedBy(c), Carriers(c))

IInv == TypeOK /\ Matched

-----------------------------------------------------------------------------
(* Matchings *)

LEMMA NothingToMatch ==
  ASSUME NEW T PROVE Matching({}, T)
<1> DEFINE h == [m \in {} |-> 0]
<1>1. h \in [{} -> Token] /\ \A m \in {} : h[m] \in T[m]
  OBVIOUS
<1>2. IsInjective(h)
  BY DEF IsInjective
<1> QED BY <1>1, <1>2 DEF Matching

(* Fewer messages, or tokens that serve more of them. *)
LEMMA StillMatched ==
  ASSUME NEW S, NEW R \in SUBSET S, NEW T, NEW U, Matching(S, T),
         \A m \in R : T[m] \subseteq U[m]
  PROVE  Matching(R, U)
<1>1. PICK f \in [S -> Token] : IsInjective(f) /\ \A m \in S : f[m] \in T[m]
  BY DEF Matching
<1> DEFINE h == [m \in R |-> f[m]]
<1>2. h \in [R -> Token]
  OBVIOUS
<1>3. IsInjective(h)
  BY <1>1 DEF IsInjective
<1>4. \A m \in R : h[m] \in U[m]
  BY <1>1
<1> QED BY <1>2, <1>3, <1>4 DEF Matching

(* One token is replaced by another. *)
LEMMA TokenReplaced ==
  ASSUME NEW S, NEW R \in SUBSET S, NEW T, NEW U, Matching(S, T),
         NEW old, NEW new \in Token,
         \A m \in S : new \notin T[m],
         \A m \in R : T[m] \ {old} \subseteq U[m] /\ (old \in T[m] => new \in U[m])
  PROVE  Matching(R, U)
<1>1. PICK f \in [S -> Token] : IsInjective(f) /\ \A m \in S : f[m] \in T[m]
  BY DEF Matching
<1> DEFINE h == [m \in R |-> IF f[m] = old THEN new ELSE f[m]]
<1>2. h \in [R -> Token]
  OBVIOUS
<1>3. \A m \in S : f[m] # new
  BY <1>1
<1>4. \A m, k \in R : h[m] = h[k] => f[m] = f[k]
  BY <1>3
<1>5. IsInjective(h)
  BY <1>1, <1>4 DEF IsInjective
<1>6. \A m \in R : h[m] \in U[m]
  BY <1>1
<1> QED BY <1>2, <1>5, <1>6 DEF Matching

(* A message comes with a token. *)
LEMMA TokenAdded ==
  ASSUME NEW S, NEW k, NEW R \in SUBSET (S \cup {k}), NEW T, NEW U, Matching(S, T),
         NEW new \in Token,
         \A m \in S : new \notin T[m] /\ T[m] \subseteq U[m],
         k \in R => new \in U[k], k \notin S
  PROVE  Matching(R, U)
<1>1. PICK f \in [S -> Token] : IsInjective(f) /\ \A m \in S : f[m] \in T[m]
  BY DEF Matching
<1> DEFINE h == [m \in R |-> IF m = k THEN new ELSE f[m]]
<1>2. h \in [R -> Token]
  OBVIOUS
<1>3. \A m \in S : f[m] # new
  BY <1>1
<1>4. \A m, l \in R : h[m] = h[l] => m = l
  BY <1>1, <1>3 DEF IsInjective
<1>5. IsInjective(h)
  BY <1>4 DEF IsInjective
<1>6. \A m \in R : h[m] \in U[m]
  BY <1>1
<1> QED BY <1>2, <1>5, <1>6 DEF Matching

(* A message goes with a token that was not its own: the message that had  *)
(* it gets the one that has become free.                                   *)
LEMMA TokenTaken ==
  ASSUME NEW S, NEW R, NEW k \in Messages, R = S \ {k}, NEW T, NEW U, Matching(S, T),
         NEW old \in Token,
         \A m \in R : T[m] \ {old} \subseteq U[m],
         \A m \in R : old \in T[m] => k \in S /\ T[k] \ {old} \subseteq U[m]
  PROVE  Matching(R, U)
<1>1. PICK f \in [S -> Token] : IsInjective(f) /\ \A m \in S : f[m] \in T[m]
  BY DEF Matching
<1> DEFINE h == [m \in R |-> IF f[m] = old THEN f[k] ELSE f[m]]
<1>2. \A m \in R : f[m] = old => k \in S /\ f[k] # old /\ f[k] \in U[m]
  BY <1>1 DEF IsInjective
<1>3. h \in [R -> Token]
  BY <1>2
<1>4. \A m, l \in R : h[m] = h[l] => m = l
  BY <1>1, <1>2 DEF IsInjective
<1>5. IsInjective(h)
  BY <1>4 DEF IsInjective
<1>6. \A m \in R : h[m] \in U[m]
  BY <1>1, <1>2
<1> QED BY <1>3, <1>5, <1>6 DEF Matching

-----------------------------------------------------------------------------
(* waiters *)

LEMMA NatMin ==
  ASSUME NEW S \in SUBSET Nat, S # {}
  PROVE  \E x \in S : \A y \in S : x <= y
<1> DEFINE Less == {ss \in Nat \X Nat : ss[1] < ss[2]}
<1>1. IsWellFoundedOn(Less, Nat)
  BY NatLessThanWellFounded DEF OpToRel
<1>2. PICK x \in S : \A y \in S : ~ (<<y, x>> \in Less)
  <2> HIDE DEF Less
  <2> QED BY <1>1, WFMin
<1>3. \A y \in S : y < x => <<y, x>> \in Less
  OBVIOUS
<1>4. \A y \in S : ~ (y < x)
  <2> HIDE DEF Less
  <2> QED BY <1>2, <1>3
<1> QED BY <1>4

(* A list has a place for each consumer in it. *)
LEMMA ListFits ==
  ASSUME NEW ws \in Seq(Consumers), IsInjective(ws)
  PROVE  Len(ws) <= Cardinality(Consumers) /\ Cardinality(Consumers) \in Nat
<1> DEFINE n == Len(ws)
<1>1. n \in Nat /\ ws \in [1..n -> Consumers]
  OBVIOUS
<1>2. ws \in Injection(1..n, Consumers)
  <2> HIDE DEF n
  <2> QED BY <1>1 DEF Injection, IsInjective
<1>3. Cardinality(1..n) <= Cardinality(Consumers)
  <2> HIDE DEF n
  <2> QED BY <1>2, FS_Injection, LongPollAssumption
<1>4. Cardinality(1..n) = n
  <2>1. n \in Int /\ 1 \in Int /\ (IF 1 > n THEN 0 ELSE n - 1 + 1) = n
    BY <1>1
  <2> HIDE DEF n
  <2> QED BY <2>1, FS_Interval
<1>5. Cardinality(Consumers) \in Nat
  BY FS_CardinalityType, LongPollAssumption
<1> QED BY <1>3, <1>4, <1>5

(* deliver gives the wake to somebody that has none, if there is one.      *)
LEMMA RoomyHasRoom ==
  ASSUME NEW ws \in Seq(Consumers), NEW s, NEW nx \in Nat, ~(Range(ws) \subseteq s)
  PROVE  LET i == Roomy(ws, s, nx) IN ws[i] \in Range(ws) \ s /\ i % Len(ws) \in 0..Len(ws)
<1> DEFINE free  == {j \in DOMAIN ws : ws[j] \notin s}
           ahead == {j \in free : j > nx % Len(ws)}
           near  == IF ahead = {} THEN free ELSE ahead
           i     == CHOOSE j \in near : \A k \in near : j <= k
<1>1. Roomy(ws, s, nx) = i
  BY DEF Roomy
<1>2. free # {}
  BY DEF Range
<1>3. near \in SUBSET Nat /\ near # {} /\ near \subseteq free
  BY <1>2
<1>4. i \in near
  <2> HIDE DEF near
  <2> QED BY <1>3, NatMin
<1>5. i \in free
  <2> HIDE DEF i, near, free
  <2> QED BY <1>3, <1>4
<1> HIDE DEF i, near, ahead
<1>6. i \in 1..Len(ws) /\ ws[i] \notin s
  BY <1>5
<1>7. ws[i] \in Range(ws) \ s
  BY <1>5 DEF Range
<1>8. Len(ws) \in Nat /\ Len(ws) > 0 /\ i \in Nat
  BY <1>6
<1>9. \A l, a \in Nat : l > 0 => a % l \in 0..l
  OBVIOUS
<1>10. i % Len(ws) \in 0..Len(ws)
  BY <1>8, <1>9
<1> QED BY <1>1, <1>7, <1>10

(* What is left of a list without duplicates. *)
LEMMA WithoutDoes ==
  ASSUME NEW ws \in Seq(Consumers), IsInjective(ws), NEW c \in Range(ws)
  PROVE  /\ Without(ws, c) \in Seq(Consumers) /\ IsInjective(Without(ws, c))
         /\ Range(Without(ws, c)) = Range(ws) \ {c}
<1> DEFINE i == CHOOSE j \in DOMAIN ws : ws[j] = c
           n == Len(ws) - 1
           l == [j \in 1..n |-> IF j < i THEN ws[j] ELSE ws[j + 1]]
<1>1. i \in DOMAIN ws /\ ws[i] = c
  BY DEF Range
<1>2. Without(ws, c) = l
  BY DEF Without
<1>3. i \in 1..(n + 1) /\ n \in Nat /\ DOMAIN ws = 1..(n + 1) /\ n + 1 = Len(ws)
  <2> HIDE DEF i
  <2> QED BY <1>1
<1> HIDE DEF i, n
<1>4. \A j \in 1..n : (IF j < i THEN j ELSE j + 1) \in (1..(n + 1)) \ {i}
  BY <1>3
<1>5. \A j \in 1..n : l[j] = ws[IF j < i THEN j ELSE j + 1]
  OBVIOUS
<1>6. l \in Seq(Consumers)
  <2>1. \A j \in 1..(n + 1) : ws[j] \in Consumers
    BY <1>3
  <2>2. \A j \in 1..n : l[j] \in Consumers
    BY <1>4, <2>1
  <2>3. l \in [1..n -> Consumers]
    BY <2>2
  <2> QED BY <1>3, <2>3
<1>7. IsInjective(l)
  <2>1. \A a, b \in 1..n :
          (IF a < i THEN a ELSE a + 1) = (IF b < i THEN b ELSE b + 1) => a = b
    BY <1>3
  <2>2. \A a, b \in 1..(n + 1) : ws[a] = ws[b] => a = b
    BY <1>3 DEF IsInjective
  <2>3. \A a, b \in 1..n : l[a] = l[b] => a = b
    BY <1>4, <1>5, <2>1, <2>2
  <2>4. DOMAIN l = 1..n
    OBVIOUS
  <2> QED BY <2>3, <2>4 DEF IsInjective
<1>8. Range(l) = Range(ws) \ {c}
  <2>1. \A j \in 1..n : l[j] \in Range(ws) \ {c}
    BY <1>1, <1>3, <1>4, <1>5 DEF Range, IsInjective
  <2>2. \A k \in (1..(n + 1)) \ {i} : \E j \in 1..n : k = (IF j < i THEN j ELSE j + 1)
    <3> SUFFICES ASSUME NEW k \in (1..(n + 1)) \ {i}
                 PROVE  \E j \in 1..n : k = (IF j < i THEN j ELSE j + 1)
      OBVIOUS
    <3> DEFINE j == IF k < i THEN k ELSE k - 1
    <3>1. j \in 1..n /\ k = (IF j < i THEN j ELSE j + 1)
      BY <1>3
    <3> QED BY <3>1
  <2>3. \A k \in (1..(n + 1)) \ {i} : \E j \in 1..n : ws[k] = l[j]
    BY <1>5, <2>2
  <2>4. DOMAIN l = 1..n
    OBVIOUS
  <2> HIDE DEF l
  <2>5. Range(l) \subseteq Range(ws) \ {c}
    BY <2>1, <2>4 DEF Range
  <2>6. ASSUME NEW d \in Range(ws) \ {c} PROVE d \in Range(l)
    <3>1. PICK k \in 1..(n + 1) : d = ws[k]
      BY <1>3 DEF Range
    <3>2. k # i
      BY <1>1, <3>1
    <3>3. PICK j \in 1..n : ws[k] = l[j]
      BY <2>3, <3>2
    <3> QED BY <2>4, <3>1, <3>3 DEF Range
  <2> QED BY <2>5, <2>6
<1> QED BY <1>2, <1>6, <1>7, <1>8

Lists == [Gateways -> Seq(Consumers)]

(* A consumer leaves its list; the wake that it has goes to somebody that  *)
(* stays and has none, if there is one.                                    *)
LEMMA UnparkDoes ==
  ASSUME TypeOK, NEW c \in Consumers, pc[c] # "idle", Unpark(c)
  PROVE  \E ws \in Seq(Consumers), k \in 0..Cardinality(Consumers) :
           /\ list' = [list EXCEPT ![At[c]] = ws] /\ IsInjective(ws)
           /\ Range(ws) = Range(list[At[c]]) \ {c}
           /\ next' = [next EXCEPT ![At[c]] = k]
           /\ \/ sig' = sig \ {c} /\ (c \in sig => Range(ws) \subseteq sig)
              \/ c \in sig /\ \E w \in Range(ws) \ sig : sig' = (sig \ {c}) \cup {w}
<1> DEFINE g == At[c]
           ws == Without(list[g], c)
<1>1. g \in Gateways /\ list[g] \in Seq(Consumers) /\ IsInjective(list[g])
      /\ c \in Range(list[g]) /\ next[g] \in 0..Cardinality(Consumers)
  BY LongPollAssumption DEF TypeOK
<1>2. ws \in Seq(Consumers) /\ IsInjective(ws) /\ Range(ws) = Range(list[g]) \ {c}
  BY <1>1, WithoutDoes
<1>3. Len(ws) <= Cardinality(Consumers) /\ Cardinality(Consumers) \in Nat /\ Len(ws) \in Nat
  <2> HIDE DEF ws
  <2> QED BY <1>2, ListFits
<1>4. /\ list' = [list EXCEPT ![g] = ws]
      /\ IF ws = <<>> \/ c \notin sig
         THEN sig' = sig \ {c} /\ next' = [next EXCEPT ![g] = IF ws = <<>> THEN 0 ELSE next[g]]
         ELSE Deliver(g, ws, sig \ {c}, next[g])
  BY DEF Unpark
<1> HIDE DEF ws
<1>5. CASE ws = <<>> \/ c \notin sig
  <2>1. ws = <<>> => Range(ws) = {}
    BY <1>2 DEF Range
  <2>2. (IF ws = <<>> THEN 0 ELSE next[g]) \in 0..Cardinality(Consumers)
    BY <1>1, <1>3
  <2> HIDE DEF g
  <2>3. sig' = sig \ {c} /\ (c \in sig => Range(ws) \subseteq sig)
        /\ next' = [next EXCEPT ![g] = IF ws = <<>> THEN 0 ELSE next[g]]
    BY <1>4, <1>5, <2>1
  <2>4. \E k \in 0..Cardinality(Consumers) : next' = [next EXCEPT ![g] = k]
    BY <2>2, <2>3
  <2> QED BY <1>2, <1>4, <2>3, <2>4 DEF g
<1>6. CASE ~(ws = <<>> \/ c \notin sig)
  <2> DEFINE s == sig \ {c}
             i == Roomy(ws, s, next[g])
  <2>1. c \in sig /\ next[g] \in Nat
    BY <1>1, <1>6
  <2>2. CASE Range(ws) \subseteq s
    <3>1. sig' = s /\ next' = [next EXCEPT ![g] = next[g]]
      BY <1>4, <1>6, <2>2 DEF Deliver
    <3> QED BY <1>1, <1>2, <1>4, <2>1, <2>2, <3>1
  <2>3. CASE ~(Range(ws) \subseteq s)
    <3>1. sig' = s \cup {ws[i]} /\ next' = [next EXCEPT ![g] = i % Len(ws)]
      BY <1>4, <1>6, <2>3 DEF Deliver
    <3>2. ws[i] \in Range(ws) \ s /\ i % Len(ws) \in 0..Len(ws)
      <4> HIDE DEF s
      <4> QED BY <1>2, <2>1, <2>3, RoomyHasRoom
    <3> HIDE DEF i
    <3>3. ws[i] \in Range(ws) \ sig /\ i % Len(ws) \in 0..Cardinality(Consumers)
      BY <1>2, <1>3, <3>2
    <3> QED BY <1>2, <1>4, <2>1, <3>1, <3>3
  <2> QED BY <2>2, <2>3
<1> QED BY <1>5, <1>6

-----------------------------------------------------------------------------
(* Types *)

QueueType == state \in [Messages -> {"new", "ready", "leased", "acked"}] /\ untold \in [Nodes -> Nat]

PipeType == stream \in [Gateways -> [Nodes -> 0..Buffer]] /\ open \in [Gateways -> SUBSET Nodes]

RoundType ==
  /\ pc \in [Consumers -> {"idle", "take", "wait"}]
  /\ todo \in [Consumers -> SUBSET Nodes]
  /\ heard \subseteq Consumers /\ first \subseteq Consumers

ListType ==
  /\ list \in [Gateways -> Seq(Consumers)] /\ next \in [Gateways -> 0..Cardinality(Consumers)]
  /\ \A g \in Gateways : /\ Range(list[g]) = {c \in Consumers : At[c] = g /\ pc[c] # "idle"}
                         /\ IsInjective(list[g])
  /\ sig \subseteq {c \in Consumers : pc[c] # "idle"}

CountType == polls \in 0..MaxPolls /\ faults \in 0..MaxFaults /\ missed \in BOOLEAN

Parts == QueueType /\ PipeType /\ RoundType /\ ListType /\ CountType

LEMMA TypeParts == TypeOK <=> Parts
BY DEF TypeOK, Parts, QueueType, PipeType, RoundType, ListType, CountType

LEMMA TypePartsNext == TypeOK' <=> Parts'
BY TypeParts, PTL

LEMMA TypeInit == Init => TypeOK
<1> SUFFICES ASSUME Init PROVE TypeOK
  OBVIOUS
<1>1. \A g \in Gateways : Range(list[g]) = {} /\ IsInjective(list[g])
  BY DEF Init, Range, IsInjective
<1>2. Cardinality(Consumers) \in Nat
  BY FS_CardinalityType, LongPollAssumption
<1>3. QueueType /\ PipeType /\ RoundType /\ CountType
  <2>1. QueueType /\ RoundType
    BY DEF Init, QueueType, RoundType
  <2>2. [n \in Nodes |-> 0] \in [Nodes -> 0..Buffer]
    BY LongPollAssumption
  <2>3. PipeType
    BY <2>2 DEF Init, PipeType
  <2>4. polls \in 0..MaxPolls /\ faults \in 0..MaxFaults
    BY LongPollAssumption DEF Init
  <2>5. missed \in BOOLEAN
    BY DEF Init
  <2> QED BY <2>1, <2>3, <2>4, <2>5 DEF CountType
<1>4. <<>> \in Seq(Consumers) /\ 0 \in 0..Cardinality(Consumers)
  BY <1>2
<1>5. ListType
  BY <1>1, <1>4 DEF Init, ListType
<1> QED BY <1>3, <1>5, TypeParts DEF Parts

(* The list of a gateway where c parks, where c leaves. *)
LEMMA PollType ==
  ASSUME TypeOK, NEW c \in Consumers, Poll(c)
  PROVE  RoundType' /\ ListType'
<1>1. pc[c] = "idle" /\ At[c] \in Gateways
  BY LongPollAssumption DEF Poll, TypeOK
<1>2. RoundType'
  BY LongPollAssumption DEF Poll, Begin, TypeOK, RoundType
<1> DEFINE ws == list[At[c]]
           l  == Append(ws, c)
<1>3. ws \in Seq(Consumers) /\ IsInjective(ws) /\ c \notin Range(ws)
  BY <1>1 DEF TypeOK
<1>4. list' = [list EXCEPT ![At[c]] = l]
  BY DEF Poll, Park
<1> HIDE DEF ws
<1>5. /\ l \in Seq(Consumers) /\ DOMAIN ws = 1..Len(ws) /\ Len(ws) \in Nat
      /\ DOMAIN l = 1..(Len(ws) + 1) /\ l[Len(ws) + 1] = c
      /\ \A i \in 1..Len(ws) : l[i] = ws[i]
  BY <1>3, AppendProperties
<1> HIDE DEF l
<1>6. \A i \in DOMAIN ws : ws[i] # c
  BY <1>3 DEF Range
<1>7. IsInjective(l)
  <2> SUFFICES ASSUME NEW i \in DOMAIN l, NEW j \in DOMAIN l, l[i] = l[j] PROVE i = j
    BY DEF IsInjective
  <2>1. CASE i \in DOMAIN ws /\ j \in DOMAIN ws
    BY <1>3, <1>5, <2>1 DEF IsInjective
  <2>2. CASE ~(i \in DOMAIN ws /\ j \in DOMAIN ws)
    BY <1>5, <1>6, <2>2
  <2> QED BY <2>1, <2>2
<1>8. Range(l) = Range(ws) \cup {c}
  <2>1. \A i \in DOMAIN l : l[i] \in Range(ws) \cup {c}
    BY <1>5 DEF Range
  <2>2. \A i \in DOMAIN ws : ws[i] = l[i] /\ i \in DOMAIN l
    BY <1>5
  <2>3. Len(ws) + 1 \in DOMAIN l
    BY <1>5
  <2>4. Range(l) \subseteq Range(ws) \cup {c}
    BY <2>1 DEF Range
  <2>5. Range(ws) \subseteq Range(l)
    BY <2>2 DEF Range
  <2>6. c \in Range(l)
    BY <1>5, <2>3 DEF Range
  <2> QED BY <2>4, <2>5, <2>6
<1>9. list' \in [Gateways -> Seq(Consumers)] /\ next' = next /\ sig' = sig
  BY <1>4, <1>5 DEF TypeOK, Poll
<1>10. pc' = [pc EXCEPT ![c] = "take"]
  BY DEF Poll, Begin
<1>11. ASSUME NEW g \in Gateways
       PROVE  Range(list'[g]) = {d \in Consumers : At[d] = g /\ pc'[d] # "idle"}
              /\ IsInjective(list'[g])
  <2>1. CASE g = At[c]
    <3>1. list'[g] = l
      BY <1>1, <1>4, <2>1 DEF TypeOK
    <3>2. Range(ws) = {d \in Consumers : At[d] = g /\ pc[d] # "idle"}
      BY <1>1, <2>1 DEF TypeOK, ws
    <3>3. Range(ws) \cup {c} = {d \in Consumers : At[d] = g /\ pc'[d] # "idle"}
      BY <1>10, <2>1, <3>2 DEF TypeOK
    <3> QED BY <1>7, <1>8, <3>1, <3>3
  <2>2. CASE g # At[c]
    <3>1. list'[g] = list[g]
      BY <1>4, <2>2 DEF TypeOK
    <3>2. \A d \in Consumers : At[d] = g => pc'[d] = pc[d]
      BY <1>10, <2>2 DEF TypeOK
    <3> QED BY <3>1, <3>2 DEF TypeOK
  <2> QED BY <2>1, <2>2
<1>12. sig' \subseteq {d \in Consumers : pc'[d] # "idle"}
  BY <1>9, <1>10 DEF TypeOK
<1>13. ListType'
  BY <1>9, <1>11, <1>12 DEF ListType, TypeOK
<1> QED BY <1>2, <1>13

LEMMA LeaveType ==
  ASSUME TypeOK, NEW c \in Consumers, pc[c] # "idle", Leave(c)
  PROVE  RoundType' /\ ListType'
<1>1. At[c] \in Gateways
  BY LongPollAssumption
<1>2. RoundType'
  BY DEF Leave, TypeOK, RoundType
<1>3. PICK ws \in Seq(Consumers), k \in 0..Cardinality(Consumers) :
           /\ list' = [list EXCEPT ![At[c]] = ws] /\ IsInjective(ws)
           /\ Range(ws) = Range(list[At[c]]) \ {c}
           /\ next' = [next EXCEPT ![At[c]] = k]
           /\ \/ sig' = sig \ {c} /\ (c \in sig => Range(ws) \subseteq sig)
              \/ c \in sig /\ \E w \in Range(ws) \ sig : sig' = (sig \ {c}) \cup {w}
  BY UnparkDoes DEF Leave
<1>4. pc' = [pc EXCEPT ![c] = "idle"]
  BY DEF Leave
<1>5. list' \in [Gateways -> Seq(Consumers)] /\ next' \in [Gateways -> 0..Cardinality(Consumers)]
  BY <1>3 DEF TypeOK
<1>6. ASSUME NEW g \in Gateways
      PROVE  Range(list'[g]) = {d \in Consumers : At[d] = g /\ pc'[d] # "idle"}
             /\ IsInjective(list'[g])
  <2>1. CASE g = At[c]
    <3>1. list'[g] = ws
      BY <1>1, <1>3, <2>1 DEF TypeOK
    <3>2. Range(list[g]) = {d \in Consumers : At[d] = g /\ pc[d] # "idle"}
      BY DEF TypeOK
    <3>3. Range(ws) = {d \in Consumers : At[d] = g /\ pc'[d] # "idle"}
      BY <1>3, <1>4, <2>1, <3>2 DEF TypeOK
    <3> QED BY <1>3, <3>1, <3>3
  <2>2. CASE g # At[c]
    <3>1. list'[g] = list[g]
      BY <1>3, <2>2 DEF TypeOK
    <3>2. \A d \in Consumers : At[d] = g => pc'[d] = pc[d]
      BY <1>4, <2>2 DEF TypeOK
    <3> QED BY <3>1, <3>2 DEF TypeOK
  <2> QED BY <2>1, <2>2
<1>7. Range(ws) \subseteq {d \in Consumers : pc'[d] # "idle"}
  <2>1. Range(ws) \subseteq {d \in Consumers : pc[d] # "idle"} \ {c}
    BY <1>1, <1>3 DEF TypeOK
  <2> QED BY <1>4, <2>1 DEF TypeOK
<1>8. sig \ {c} \subseteq {d \in Consumers : pc'[d] # "idle"}
  BY <1>4 DEF TypeOK
<1>9. sig' \subseteq {d \in Consumers : pc'[d] # "idle"}
  BY <1>3, <1>7, <1>8
<1>10. ListType'
  BY <1>5, <1>6, <1>9 DEF ListType
<1> QED BY <1>2, <1>10

(* Nobody comes and nobody goes. *)
LEMMA SameList ==
  ASSUME TypeOK, list' = list, next' = next, sig' \subseteq sig,
         \A c \in Consumers : (pc'[c] = "idle") <=> (pc[c] = "idle")
  PROVE  ListType'
BY DEF TypeOK, ListType

LEMMA TypeNext == TypeOK /\ [Next]_vars => TypeOK'
<1> SUFFICES ASSUME TypeOK, [Next]_vars PROVE Parts'
  BY TypePartsNext
<1> USE LongPollAssumption
<1>1. Parts
  BY TypeParts
<1>2. ASSUME NEW m \in Messages, Enqueue(m) \/ Nack(m) PROVE Parts'
  <2>1. Home[m] \in Nodes /\ untold \in [Nodes -> Nat]
        /\ untold' = [untold EXCEPT ![Home[m]] = untold[Home[m]] + 1]
        /\ state' = [state EXCEPT ![m] = "ready"]
    BY <1>2 DEF TypeOK, Enqueue, Nack, ToTell
  <2>2. QueueType'
    <3>1. untold[Home[m]] + 1 \in Nat
      BY <2>1
    <3>2. untold' \in [Nodes -> Nat]
      BY <2>1, <3>1
    <3> QED BY <2>1, <3>2 DEF TypeOK, QueueType
  <2>3. UNCHANGED <<pipes, waiters, round, polls, missed>>
    BY <1>2 DEF Enqueue, Nack
  <2>4. PipeType' /\ RoundType' /\ ListType'
    BY <1>1, <2>3, SameList DEF pipes, waiters, round, Parts, PipeType, RoundType
  <2>5. CountType'
    BY <1>2, <2>3 DEF Enqueue, Nack, MayFail, TypeOK, CountType
  <2> QED BY <2>2, <2>4, <2>5 DEF Parts
<1>3. ASSUME NEW m \in Messages, Ack(m) PROVE Parts'
  <2>1. QueueType' /\ CountType'
    BY <1>3 DEF Ack, TypeOK, QueueType, CountType
  <2>2. PipeType' /\ RoundType' /\ ListType'
    BY <1>1, <1>3, SameList DEF Ack, pipes, waiters, round, Parts, PipeType, RoundType
  <2> QED BY <2>1, <2>2 DEF Parts
<1>4. ASSUME NEW n \in Nodes, Tell(n) PROVE Parts'
  <2>1. QueueType'
    BY <1>4 DEF Tell, TypeOK, QueueType
  <2>2. ASSUME NEW g \in Gateways
        PROVE  [stream[g] EXCEPT ![n] = IF n \in open[g] /\ stream[g][n] < Buffer
                                       THEN stream[g][n] + 1 ELSE stream[g][n]]
                 \in [Nodes -> 0..Buffer]
    <3>1. stream[g] \in [Nodes -> 0..Buffer] /\ stream[g][n] \in 0..Buffer
      BY DEF TypeOK
    <3> QED BY <3>1
  <2>3. PipeType'
    BY <1>4, <2>2 DEF Tell, Publish, TypeOK, PipeType
  <2>4. RoundType' /\ ListType'
    BY <1>1, <1>4, SameList DEF Tell, waiters, round, Parts, RoundType
  <2>5. CountType'
    BY <1>4 DEF Tell, Publish, TypeOK, CountType
  <2> QED BY <2>1, <2>3, <2>4, <2>5 DEF Parts
<1>5. ASSUME NEW n \in Nodes, Sweep(n) PROVE Parts'
  <2>1. QueueType' /\ CountType'
    BY <1>5 DEF Sweep, ToTell, MayFail, TypeOK, QueueType, CountType
  <2>2. PipeType' /\ RoundType' /\ ListType'
    BY <1>1, <1>5, SameList DEF Sweep, pipes, waiters, round, Parts, PipeType, RoundType
  <2> QED BY <2>1, <2>2 DEF Parts
<1>6. ASSUME NEW g \in Gateways, NEW n \in Nodes, Wake(g, n) PROVE Parts'
  <2>1. QueueType' /\ RoundType' /\ CountType'
    BY <1>6 DEF Wake, queueVars, round, TypeOK, QueueType, RoundType, CountType
  <2>2. PipeType'
    BY <1>6 DEF Wake, TypeOK, PipeType
  <2> DEFINE ws == list[g]
             i  == Roomy(ws, sig, next[g])
  <2>3. ws \in Seq(Consumers) /\ IsInjective(ws) /\ next[g] \in Nat
    BY DEF TypeOK
  <2>4. Len(ws) <= Cardinality(Consumers) /\ Cardinality(Consumers) \in Nat /\ Len(ws) \in Nat
    <3> HIDE DEF ws
    <3> QED BY <2>3, ListFits
  <2>5. CASE Range(ws) \subseteq sig
    <3>1. sig' = sig /\ next' = next /\ list' = list /\ pc' = pc
      BY <1>6, <2>5 DEF Wake, Deliver, TypeOK, round
    <3> QED BY <2>1, <2>2, <3>1, SameList DEF Parts
  <2>6. CASE ~(Range(ws) \subseteq sig)
    <3>1. sig' = sig \cup {ws[i]} /\ next' = [next EXCEPT ![g] = i % Len(ws)]
          /\ list' = list /\ pc' = pc
      BY <1>6, <2>6 DEF Wake, Deliver, round
    <3>2. ws[i] \in Range(ws) \ sig /\ i % Len(ws) \in 0..Len(ws)
      BY <2>3, <2>6, RoomyHasRoom
    <3> HIDE DEF i
    <3>3. ws[i] \in {c \in Consumers : pc[c] # "idle"}
      BY <3>2 DEF TypeOK
    <3>4. i % Len(ws) \in 0..Cardinality(Consumers)
      BY <2>4, <3>2
    <3>5. ListType'
      BY <3>1, <3>3, <3>4 DEF TypeOK, ListType
    <3> QED BY <2>1, <2>2, <3>5 DEF Parts
  <2> QED BY <2>5, <2>6
<1>7. ASSUME NEW g \in Gateways, NEW n \in Nodes, Break(g, n) \/ Reconnect(g, n) PROVE Parts'
  <2>1. PipeType'
    <3>1. [stream[g] EXCEPT ![n] = 0] \in [Nodes -> 0..Buffer]
      BY DEF TypeOK
    <3>2. stream' \in [Gateways -> [Nodes -> 0..Buffer]]
      BY <1>7, <3>1 DEF Break, Reconnect, TypeOK
    <3>3. open' \in [Gateways -> SUBSET Nodes]
      <4>1. open[g] \cup {n} \in SUBSET Nodes /\ open[g] \ {n} \in SUBSET Nodes
        BY DEF TypeOK
      <4>2. open' = [open EXCEPT ![g] = open[g] \ {n}] \/ open' = [open EXCEPT ![g] = open[g] \cup {n}]
        BY <1>7 DEF Break, Reconnect
      <4> QED BY <4>1, <4>2 DEF TypeOK
    <3> QED BY <3>2, <3>3 DEF PipeType
  <2>2. QueueType' /\ RoundType' /\ ListType'
    BY <1>1, <1>7, SameList
    DEF Break, Reconnect, queueVars, waiters, round, Parts, QueueType, RoundType
  <2>3. CountType'
    <3>1. polls' \in 0..MaxPolls /\ faults' \in 0..MaxFaults
      BY <1>7 DEF Break, Reconnect, MayFail, TypeOK
    <3>2. missed' \in BOOLEAN
      BY <1>7 DEF Break, Reconnect, TypeOK
    <3> QED BY <3>1, <3>2 DEF CountType
  <2> QED BY <2>1, <2>2, <2>3 DEF Parts
<1>8. ASSUME NEW c \in Consumers, Poll(c) PROVE Parts'
  <2>1. QueueType' /\ PipeType'
    BY <1>1, <1>8 DEF Poll, queueVars, pipes, Parts, QueueType, PipeType
  <2>2. CountType'
    <3>1. polls' \in 0..MaxPolls /\ faults' \in 0..MaxFaults
      BY <1>8 DEF Poll, TypeOK
    <3>2. missed' \in BOOLEAN
      BY <1>8 DEF Poll, TypeOK
    <3> QED BY <3>1, <3>2 DEF CountType
  <2> QED BY <1>8, <2>1, <2>2, PollType DEF Parts
<1>9. ASSUME NEW c \in Consumers, NEW n \in Nodes, Ask(c, n) PROVE Parts'
  <2>1. PipeType' /\ untold' = untold /\ polls' = polls
    BY <1>9 DEF Ask, pipes, TypeOK, PipeType
  <2>2. state' \in [Messages -> {"new", "ready", "leased", "acked"}]
    BY <1>9 DEF Ask, DequeueAt, Lease, TypeOK
  <2>3. CountType'
    <3>1. polls' \in 0..MaxPolls /\ faults' \in 0..MaxFaults
      BY <1>9, <2>1 DEF Ask, MayFail, TypeOK
    <3>2. missed' \in BOOLEAN
      BY <1>9 DEF Ask, TypeOK
    <3> QED BY <3>1, <3>2 DEF CountType
  <2>4. QueueType'
    BY <2>1, <2>2 DEF TypeOK, QueueType
  <2>5. CASE Leave(c)
    BY <1>9, <2>1, <2>3, <2>4, <2>5, LeaveType DEF Ask, Parts
  <2>6. CASE UNCHANGED waiters /\ pc' = pc /\ todo' = [todo EXCEPT ![c] = todo[c] \ {n}]
             /\ first' = first /\ heard' \subseteq Consumers
    <3>1. RoundType'
      BY <2>6 DEF TypeOK, RoundType
    <3>2. ListType'
      BY <2>6, SameList DEF waiters
    <3> QED BY <2>1, <2>3, <2>4, <3>1, <3>2 DEF Parts
  <2> QED BY <1>9, <2>5, <2>6 DEF Ask, TypeOK
<1>10. ASSUME NEW c \in Consumers, Empty(c) PROVE Parts'
  <2>1. QueueType' /\ PipeType' /\ CountType'
    BY <1>10 DEF Empty, queueVars, pipes, TypeOK, QueueType, PipeType, CountType
  <2>2. CASE Leave(c)
    BY <1>10, <2>1, <2>2, LeaveType DEF Empty, Parts
  <2>3. CASE ~Leave(c)
    <3>1. RoundType'
      BY <1>10, <2>3 DEF Empty, TypeOK, RoundType
    <3>2. ListType'
      BY <1>10, <2>3, SameList DEF Empty, waiters, TypeOK
    <3> QED BY <2>1, <3>1, <3>2 DEF Parts
  <2> QED BY <2>2, <2>3
<1>11. ASSUME NEW c \in Consumers, Woken(c) \/ Backstop(c) PROVE Parts'
  <2>1. QueueType' /\ PipeType' /\ CountType'
    BY <1>11 DEF Woken, Backstop, queueVars, pipes, TypeOK, QueueType, PipeType, CountType
  <2>2. RoundType'
    <3>1. /\ pc' = [pc EXCEPT ![c] = "take"] /\ todo' = [todo EXCEPT ![c] = Nodes]
          /\ heard' = heard \ {c} /\ first' = first
      BY <1>11 DEF Woken, Backstop, Begin
    <3>2. pc' \in [Consumers -> {"idle", "take", "wait"}]
      BY <3>1 DEF TypeOK
    <3>3. todo' \in [Consumers -> SUBSET Nodes]
      BY <3>1 DEF TypeOK
    <3> QED BY <3>1, <3>2, <3>3 DEF TypeOK, RoundType
  <2>3. ListType'
    BY <1>11, SameList DEF Woken, Backstop, Begin, waiters, TypeOK
  <2> QED BY <2>1, <2>2, <2>3 DEF Parts
<1>12. ASSUME NEW c \in Consumers, GiveUp(c) PROVE Parts'
  <2>1. QueueType' /\ PipeType' /\ CountType'
    BY <1>12 DEF GiveUp, queueVars, pipes, TypeOK, QueueType, PipeType, CountType
  <2> QED BY <1>12, <2>1, LeaveType DEF GiveUp, Parts
<1>13. CASE UNCHANGED vars
  BY <1>1, <1>13, SameList
  DEF vars, Parts, QueueType, PipeType, RoundType, CountType
<1> QED BY <1>2, <1>3, <1>4, <1>5, <1>6, <1>7, <1>8, <1>9, <1>10, <1>11, <1>12, <1>13
        DEF Next, Round

-----------------------------------------------------------------------------
(* Tokens *)

LEMMA TokenForm ==
  ASSUME NEW t \in Token
  PROVE  /\ t = <<t[1], t[2], t[3]>>
         /\ \/ t[1] \in {"untold", "stream"} /\ t[2] \in Nodes /\ t[3] \in Nat
            \/ t[1] \in {"wake", "look"} /\ t[2] \in Consumers /\ t[3] = 0
BY DEF Token

LEMMA IsToken ==
  /\ \A n \in Nodes, i \in Nat : <<"untold", n, i>> \in Token /\ <<"stream", n, i>> \in Token
  /\ \A d \in Consumers : <<"wake", d, 0>> \in Token /\ <<"look", d, 0>> \in Token
BY DEF Token

(* A token still serves when none of what it is made of is gone. *)
LEMMA StillCarries ==
  ASSUME NEW c \in Consumers, NEW m \in Messages, NEW t \in Carriers(c)[m],
         t[1] = "untold" => t[3] <= untold'[t[2]],
         t[1] = "stream" => t[3] <= stream'[At[c]][t[2]],
         t[1] = "wake" => t[2] \in sig',
         t[1] = "look" => pc'[t[2]] = "take" /\ Home[m] \in todo'[t[2]]
  PROVE  t \in Carriers(c)'[m]
BY DEF Carriers, Carries

LEMMA CarriersAre ==
  ASSUME NEW c \in Consumers, NEW m \in Messages, NEW t \in Carriers(c)[m]
  PROVE  t \in Token /\ Carries(c, m, t)
BY DEF Carriers

(* A message that has become ready is announced by a new token. *)
LEMMA ReadyMatched ==
  ASSUME TypeOK, NEW c \in Consumers, NEW k \in Messages, state[k] \in {"new", "leased"},
         Matching(PassedBy(c), Carriers(c)),
         state' = [state EXCEPT ![k] = "ready"], ToTell(Home[k]),
         stream' = stream, sig' = sig, pc' = pc, todo' = todo
  PROVE  Matching(PassedBy(c)', Carriers(c)')
<1> DEFINE n   == Home[k]
           new == <<"untold", n, untold[n] + 1>>
           S == PassedBy(c)
           R == PassedBy(c)'
           T == Carriers(c)
           U == Carriers(c)'
<1>1. n \in Nodes /\ untold[n] \in Nat /\ untold' = [untold EXCEPT ![n] = untold[n] + 1]
      /\ untold'[n] = untold[n] + 1
  BY LongPollAssumption DEF TypeOK, ToTell
<1>2. new \in Token
  <2>1. untold[n] + 1 \in Nat
    BY <1>1
  <2> HIDE DEF n
  <2> QED BY <1>1, <2>1, IsToken
<1>3. R \subseteq S \cup {k}
  <2>1. \A m \in Messages : m # k => state'[m] = state[m]
    BY DEF TypeOK
  <2>2. \A m \in Messages : state'[m] = "acked" <=> state[m] = "acked"
    BY DEF TypeOK
  <2>3. \A m \in Messages : m # k /\ Servable(m)' => Servable(m)
    BY <2>1, <2>2, LongPollAssumption DEF Servable
  <2> QED BY <2>3 DEF PassedBy
<1>4. k \notin S
  BY DEF PassedBy, Servable
<1>5. ASSUME NEW m \in Messages PROVE new \notin T[m] /\ T[m] \subseteq U[m]
  <2>1. new \notin T[m]
    BY <1>1 DEF Carriers, Carries
  <2>2. ASSUME NEW t \in T[m] PROVE t \in U[m]
    <3>1. t \in Token /\ Carries(c, m, t)
      BY CarriersAre
    <3>2. t[1] = "untold" => t[3] <= untold'[t[2]]
      BY <1>1, <3>1, TokenForm DEF Carries, TypeOK
    <3> QED BY <3>1, <3>2, StillCarries DEF Carries
  <2> QED BY <2>1, <2>2
<1>6. new \in U[k]
  BY <1>1, <1>2 DEF Carriers, Carries
<1>7. S \subseteq Messages
  BY DEF PassedBy
<1> HIDE DEF S, R, T, U, new
<1>8. Matching(R, U)
  BY <1>2, <1>3, <1>4, <1>5, <1>6, <1>7, TokenAdded DEF S, T
<1> QED BY <1>8 DEF R, U

(* Nothing that a match is made of is disturbed. *)
LEMMA Undisturbed ==
  ASSUME TypeOK, NEW c \in Consumers, Matching(PassedBy(c), Carriers(c)),
         PassedBy(c)' \subseteq PassedBy(c), untold' = untold,
         stream'[At[c]] = stream[At[c]],
         \A d \in sig : At[d] = At[c] => d \in sig',
         \A d \in Consumers \ {c}, m \in PassedBy(c)' :
           At[d] = At[c] /\ pc[d] = "take" /\ Home[m] \in todo[d]
             => pc'[d] = "take" /\ Home[m] \in todo'[d]
  PROVE  Matching(PassedBy(c)', Carriers(c)')
<1> DEFINE S == PassedBy(c)
           R == PassedBy(c)'
           T == Carriers(c)
           U == Carriers(c)'
<1>1. ASSUME NEW m \in R, NEW t \in T[m] PROVE t \in U[m]
  <2>1. m \in Messages
    BY DEF PassedBy
  <2>2. t \in Token /\ Carries(c, m, t)
    BY <2>1, CarriersAre
  <2> QED BY <2>1, <2>2, TokenForm, StillCarries DEF Carries
<1> HIDE DEF S, R, T, U
<1>2. Matching(R, U)
  BY <1>1, StillMatched DEF S, R, T
<1> QED BY <1>2 DEF R, U

(* A node announces what it has: the announcement becomes a notification.  *)
LEMMA TellMatched ==
  ASSUME TypeOK, NEW c \in Consumers, NEW n \in Nodes, Tell(n), ~missed',
         Matching(PassedBy(c), Carriers(c))
  PROVE  Matching(PassedBy(c)', Carriers(c)')
<1> DEFINE g   == At[c]
           old == <<"untold", n, untold[n]>>
           new == <<"stream", n, stream[g][n] + 1>>
           S == PassedBy(c)
           R == PassedBy(c)'
           T == Carriers(c)
           U == Carriers(c)'
<1>1. g \in Gateways /\ n \in open[g] /\ stream[g][n] # Buffer
  BY LongPollAssumption DEF Tell, Publish
<1>2. stream[g] \in [Nodes -> 0..Buffer] /\ stream[g][n] \in Nat /\ stream[g][n] < Buffer
  BY <1>1, LongPollAssumption DEF TypeOK
<1>3. stream'[g] = [stream[g] EXCEPT ![n] = stream[g][n] + 1]
  <2>1. stream'[g] = [stream[g] EXCEPT ![n] = IF n \in open[g] /\ stream[g][n] < Buffer
                                             THEN stream[g][n] + 1 ELSE stream[g][n]]
    BY <1>1 DEF Tell, Publish
  <2> QED BY <1>1, <1>2, <2>1
<1>4. untold[n] \in Nat /\ untold[n] > 0 /\ untold' = [untold EXCEPT ![n] = untold[n] - 1]
      /\ untold \in [Nodes -> Nat]
  BY DEF Tell, TypeOK
<1>5. state' = state /\ sig' = sig /\ pc' = pc /\ todo' = todo
  BY DEF Tell, waiters, round
<1>6. R = S
  BY <1>5 DEF PassedBy, Servable
<1>7. new \in Token
  <2>1. stream[g][n] + 1 \in Nat
    BY <1>2
  <2> HIDE DEF g
  <2> QED BY <2>1, IsToken
<1>8. \A m \in S : m \in Messages
  BY DEF PassedBy
<1>9. \A m \in Messages : new \notin T[m]
  BY <1>2 DEF Carriers, Carries
<1>10. ASSUME NEW m \in Messages PROVE T[m] \ {old} \subseteq U[m] /\ new \in U[m]
  <2>1. new \in U[m]
    BY <1>2, <1>3, <1>7 DEF Carriers, Carries
  <2>2. ASSUME NEW t \in T[m] \ {old} PROVE t \in U[m]
    <3>1. t \in Token /\ Carries(c, m, t)
      BY CarriersAre
    <3>2. t[1] = "untold" => t[3] <= untold'[t[2]]
      BY <1>4, <2>2, <3>1, TokenForm DEF Carries
    <3>3. t[1] = "stream" => t[3] <= stream'[g][t[2]]
      BY <1>2, <1>3, <3>1, TokenForm DEF Carries
    <3> QED BY <1>5, <3>1, <3>2, <3>3, StillCarries DEF Carries
  <2> QED BY <2>1, <2>2
<1> HIDE DEF S, R, T, U, old, new
<1>11. Matching(R, U)
  BY <1>6, <1>7, <1>8, <1>9, <1>10, TokenReplaced DEF S, T
<1> QED BY <1>11 DEF R, U

(* A notification arrives: it becomes a wake. *)
LEMMA WakeMatched ==
  ASSUME TypeOK, NEW c \in Consumers, NEW g \in Gateways, NEW n \in Nodes, Wake(g, n),
         pc[c] # "idle", c \notin sig', Matching(PassedBy(c), Carriers(c))
  PROVE  Matching(PassedBy(c)', Carriers(c)')
<1> DEFINE S == PassedBy(c)
           R == PassedBy(c)'
           T == Carriers(c)
           U == Carriers(c)'
           ws == list[g]
           w  == ws[Roomy(ws, sig, next[g])]
<1>1. state' = state /\ untold' = untold /\ pc' = pc /\ todo' = todo
      /\ stream' = [stream EXCEPT ![g][n] = stream[g][n] - 1] /\ stream[g][n] > 0
  BY DEF Wake, queueVars, round
<1>2. R = S
  BY <1>1 DEF PassedBy, Servable
<1>3. ws \in Seq(Consumers) /\ next[g] \in Nat /\ Range(ws) \subseteq Consumers
      /\ (At[c] = g => c \in Range(ws)) /\ \A d \in Range(ws) : At[d] = g
  BY DEF TypeOK
<1>4. \/ Range(ws) \subseteq sig /\ sig' = sig
      \/ w \in Range(ws) \ sig /\ sig' = sig \cup {w}
  BY <1>3, RoomyHasRoom DEF Wake, Deliver
<1> HIDE DEF w
<1>5. CASE At[c] # g
  <2>1. stream'[At[c]] = stream[At[c]]
    BY <1>1, <1>5, LongPollAssumption DEF TypeOK
  <2>2. sig \subseteq sig'
    BY <1>4
  <2> QED BY <1>1, <1>2, <2>1, <2>2, Undisturbed
<1>6. CASE At[c] = g
  <2> DEFINE old == <<"stream", n, stream[g][n]>>
             new == <<"wake", w, 0>>
  <2>1. w \in Range(ws) \ sig /\ sig' = sig \cup {w} /\ w \in Consumers /\ At[w] = g
    BY <1>3, <1>4, <1>6
  <2>2. stream[g] \in [Nodes -> 0..Buffer] /\ stream[g][n] \in Nat
        /\ stream'[g] = [stream[g] EXCEPT ![n] = stream[g][n] - 1]
    BY <1>1, LongPollAssumption DEF TypeOK
  <2>3. new \in Token
    BY <2>1, IsToken
  <2>4. \A m \in S : m \in Messages
    BY DEF PassedBy
  <2>5. \A m \in Messages : new \notin T[m]
    BY <2>1 DEF Carriers, Carries
  <2>6. ASSUME NEW m \in Messages PROVE T[m] \ {old} \subseteq U[m] /\ new \in U[m]
    <3>1. new \in U[m]
      BY <1>6, <2>1, <2>3 DEF Carriers, Carries
    <3>2. ASSUME NEW t \in T[m] \ {old} PROVE t \in U[m]
      <4>1. t \in Token /\ Carries(c, m, t)
        BY CarriersAre
      <4>2. t[1] = "stream" => t[3] <= stream'[g][t[2]]
        BY <1>6, <2>2, <3>2, <4>1, TokenForm DEF Carries
      <4> QED BY <1>1, <1>6, <2>1, <4>1, <4>2, StillCarries DEF Carries
    <3> QED BY <3>1, <3>2
  <2> HIDE DEF S, R, T, U, old, new
  <2>7. Matching(R, U)
    BY <1>2, <2>3, <2>4, <2>5, <2>6, TokenReplaced DEF S, T
  <2> QED BY <2>7 DEF R, U
<1> QED BY <1>5, <1>6

(* A consumer that waits looks again: its wake becomes its looking. *)
LEMMA WokenMatched ==
  ASSUME TypeOK, NEW c \in Consumers, NEW d \in Consumers \ {c}, Woken(d),
         Matching(PassedBy(c), Carriers(c))
  PROVE  Matching(PassedBy(c)', Carriers(c)')
<1> DEFINE S == PassedBy(c)
           R == PassedBy(c)'
           T == Carriers(c)
           U == Carriers(c)'
           old == <<"wake", d, 0>>
           new == <<"look", d, 0>>
<1>1. /\ state' = state /\ untold' = untold /\ stream' = stream /\ sig' = sig \ {d}
      /\ pc[d] = "wait" /\ pc' = [pc EXCEPT ![d] = "take"] /\ todo' = [todo EXCEPT ![d] = Nodes]
      /\ pc'[c] = pc[c] /\ todo'[c] = todo[c]
  BY DEF Woken, Begin, queueVars, pipes, TypeOK
<1>2. R = S
  BY <1>1 DEF PassedBy, Servable
<1>3. new \in Token
  BY IsToken
<1>4. \A m \in S : m \in Messages
  BY DEF PassedBy
<1>5. \A m \in Messages : new \notin T[m]
  BY <1>1 DEF Carriers, Carries
<1>6. ASSUME NEW m \in Messages
      PROVE  T[m] \ {old} \subseteq U[m] /\ (old \in T[m] => new \in U[m])
  <2>1. old \in T[m] => new \in U[m]
    <3>1. pc'[d] = "take" /\ todo'[d] = Nodes /\ Home[m] \in Nodes
      BY <1>1, LongPollAssumption DEF TypeOK
    <3> QED BY <1>3, <3>1 DEF Carriers, Carries
  <2>2. ASSUME NEW t \in T[m] \ {old} PROVE t \in U[m]
    <3>1. t \in Token /\ Carries(c, m, t)
      BY CarriersAre
    <3>2. t[1] = "wake" => t[2] \in sig'
      BY <1>1, <2>2, <3>1, TokenForm DEF Carries
    <3>3. t[1] = "look" => t[2] # d /\ t[2] \in Consumers
      BY <1>1, <3>1, TokenForm DEF Carries
    <3>4. t[1] = "look" => pc'[t[2]] = "take" /\ Home[m] \in todo'[t[2]]
      BY <1>1, <3>1, <3>3 DEF Carries, TypeOK
    <3> QED BY <1>1, <3>1, <3>2, <3>4, StillCarries DEF Carries
  <2> QED BY <2>1, <2>2
<1> HIDE DEF S, R, T, U, old, new
<1>7. Matching(R, U)
  BY <1>2, <1>3, <1>4, <1>5, <1>6, TokenReplaced DEF S, T
<1> QED BY <1>7 DEF R, U

(* A consumer goes.  Whoever counted on its looking has found another      *)
(* token; its wake becomes that of somebody that stays.                    *)
LEMMA LeaveMatched ==
  ASSUME TypeOK, NEW c \in Consumers, NEW d \in Consumers \ {c}, Leave(d),
         pc[c] # "idle", pc[d] # "idle", c \notin sig',
         untold' = untold, stream' = stream,
         NEW S \in SUBSET Messages,
         Matching(S, [m \in Messages |-> Carriers(c)[m] \ {<<"look", d, 0>>}])
  PROVE  Matching(S, Carriers(c)')
<1> DEFINE look == <<"look", d, 0>>
           T == [m \in Messages |-> Carriers(c)[m] \ {look}]
           U == Carriers(c)'
<1>1. PICK ws \in Seq(Consumers) :
           /\ Range(ws) = Range(list[At[d]]) \ {d}
           /\ \/ sig' = sig \ {d} /\ (d \in sig => Range(ws) \subseteq sig)
              \/ d \in sig /\ \E w \in Range(ws) \ sig : sig' = (sig \ {d}) \cup {w}
  BY UnparkDoes DEF Leave
<1>2. At[d] \in Gateways /\ Range(list[At[d]]) = {x \in Consumers : At[x] = At[d] /\ pc[x] # "idle"}
  BY LongPollAssumption DEF TypeOK
<1>3. pc' = [pc EXCEPT ![d] = "idle"] /\ todo' = [todo EXCEPT ![d] = {}]
  BY DEF Leave
<1>4. ASSUME NEW m \in Messages, NEW t \in T[m], t[1] = "wake" => t[2] \in sig'
      PROVE  t \in U[m]
  <2>1. t \in Carriers(c)[m] /\ t # look
    OBVIOUS
  <2>2. t \in Token /\ Carries(c, m, t)
    BY <2>1, CarriersAre
  <2>3. t[1] = "look" => t[2] # d /\ t[2] \in Consumers
    BY <2>1, <2>2, TokenForm
  <2>4. t[1] = "look" => pc'[t[2]] = "take" /\ Home[m] \in todo'[t[2]]
    BY <1>3, <2>2, <2>3 DEF Carries, TypeOK
  <2> QED BY <1>4, <2>1, <2>2, <2>4, StillCarries DEF Carries
<1>5. CASE \A x \in sig : At[x] = At[c] => x \in sig'
  <2>1. ASSUME NEW m \in S, NEW t \in T[m] PROVE t \in U[m]
    <3>1. t \in Carriers(c)[m] /\ m \in Messages
      OBVIOUS
    <3>2. t[1] = "wake" => t[2] \in sig'
      BY <1>5, <3>1, CarriersAre DEF Carries
    <3> QED BY <1>4, <3>1, <3>2
  <2> HIDE DEF T, U
  <2>2. Matching(S, U)
    BY SMTT(30), <2>1, StillMatched DEF T
  <2> QED BY <2>2 DEF U
<1>6. CASE ~ \A x \in sig : At[x] = At[c] => x \in sig'
  <2>1. d \in sig /\ At[d] = At[c]
    BY <1>1, <1>6
  <2>2. c \in Range(ws) /\ c \notin sig \ {d}
    BY <1>1, <1>2, <2>1
  <2>3. PICK w \in Range(ws) \ sig : sig' = (sig \ {d}) \cup {w}
    BY <1>1, <2>1, <2>2
  <2>4. w \in Consumers /\ At[w] = At[c]
    BY <1>1, <1>2, <2>1, <2>3
  <2> DEFINE old == <<"wake", d, 0>>
             new == <<"wake", w, 0>>
  <2>5. new \in Token
    BY <2>4, IsToken
  <2>6. \A m \in Messages : new \notin T[m]
    BY <2>3 DEF Carriers, Carries
  <2>7. ASSUME NEW m \in Messages PROVE T[m] \ {old} \subseteq U[m] /\ new \in U[m]
    <3>1. new \in U[m]
      BY <2>3, <2>4, <2>5 DEF Carriers, Carries
    <3>2. ASSUME NEW t \in T[m] \ {old} PROVE t \in U[m]
      <4>1. t \in Carriers(c)[m] /\ t # old
        OBVIOUS
      <4>2. t \in Token /\ Carries(c, m, t)
        BY <4>1, CarriersAre
      <4>3. t[1] = "wake" => t[2] \in sig'
        BY <2>3, <4>1, <4>2, TokenForm DEF Carries
      <4> QED BY <1>4, <3>2, <4>3
    <3> QED BY <3>1, <3>2
  <2>8. Matching(S, T) /\ \A m \in S : m \in Messages
    OBVIOUS
  <2> HIDE DEF T, U, old, new
  <2>9. /\ \A m \in S : new \notin T[m]
        /\ \A m \in S : T[m] \ {old} \subseteq U[m] /\ (old \in T[m] => new \in U[m])
    BY <2>6, <2>7, <2>8
  <2>10. Matching(S, U)
    BY <2>5, <2>8, <2>9, TokenReplaced
  <2> QED BY <2>10 DEF U
<1> QED BY <1>5, <1>6

LEMMA EmptyMatched ==
  ASSUME TypeOK, NEW c \in Consumers, NEW d \in Consumers, Empty(d),
         pc[c] # "idle", pc'[c] # "idle", c \notin sig', Matching(PassedBy(c), Carriers(c))
  PROVE  Matching(PassedBy(c)', Carriers(c)')
<1>1. pc[d] = "take" /\ todo[d] = {} /\ state' = state /\ untold' = untold /\ stream' = stream
  BY DEF Empty, queueVars, pipes
<1>2. CASE Leave(d)
  <2>1. pc' = [pc EXCEPT ![d] = "idle"] /\ todo' = [todo EXCEPT ![d] = {}]
    BY <1>2 DEF Leave
  <2>2. c # d
    BY <2>1 DEF TypeOK
  <2> DEFINE S == PassedBy(c)
             V == [m \in Messages |-> Carriers(c)[m] \ {<<"look", d, 0>>}]
  <2>3. PassedBy(c)' = S
    BY <1>1, <2>1, <2>2 DEF PassedBy, Servable, TypeOK
  <2>4. \A m \in S : m \in Messages
    BY DEF PassedBy
  <2>5. \A m \in Messages : <<"look", d, 0>> \notin Carriers(c)[m]
    BY <1>1 DEF Carriers, Carries
  <2>6. \A m \in S : Carriers(c)[m] \subseteq V[m]
    BY <2>4, <2>5
  <2> HIDE DEF S, V
  <2>7. Matching(S, V)
    BY <2>6, StillMatched DEF S
  <2>8. Matching(S, Carriers(c)')
    BY <1>1, <1>2, <2>2, <2>4, <2>7, LeaveMatched DEF V
  <2> QED BY <2>3, <2>8
<1>3. CASE ~Leave(d)
  <2>1. pc' = [pc EXCEPT ![d] = "wait"] /\ todo' = todo /\ sig' = sig
    BY <1>3 DEF Empty, waiters
  <2>2. PassedBy(c)' \subseteq PassedBy(c)
    BY <1>1, <2>1 DEF PassedBy, Servable, TypeOK
  <2>3. \A x \in Consumers \ {c}, m \in PassedBy(c)' :
          pc[x] = "take" /\ Home[m] \in todo[x] => pc'[x] = "take" /\ Home[m] \in todo'[x]
    BY <1>1, <2>1 DEF TypeOK
  <2> QED BY <1>1, <2>1, <2>2, <2>3, Undisturbed
<1> QED BY <1>2, <1>3

LEMMA GiveUpMatched ==
  ASSUME TypeOK, NEW c \in Consumers, NEW d \in Consumers, GiveUp(d),
         pc[c] # "idle", pc'[c] # "idle", c \notin sig', Matching(PassedBy(c), Carriers(c))
  PROVE  Matching(PassedBy(c)', Carriers(c)')
<1>1. pc[d] = "wait" /\ state' = state /\ untold' = untold /\ stream' = stream /\ Leave(d)
      /\ pc' = [pc EXCEPT ![d] = "idle"] /\ todo' = [todo EXCEPT ![d] = {}]
  BY DEF GiveUp, queueVars, pipes, Leave
<1>2. c # d
  BY <1>1 DEF TypeOK
<1> DEFINE S == PassedBy(c)
           V == [m \in Messages |-> Carriers(c)[m] \ {<<"look", d, 0>>}]
<1>3. PassedBy(c)' = S
  BY <1>1, <1>2 DEF PassedBy, Servable, TypeOK
<1>4. \A m \in S : m \in Messages
  BY DEF PassedBy
<1>5. \A m \in Messages : <<"look", d, 0>> \notin Carriers(c)[m]
  BY <1>1 DEF Carriers, Carries
<1>6. \A m \in S : Carriers(c)[m] \subseteq V[m]
  BY <1>4, <1>5
<1> HIDE DEF S, V
<1>7. Matching(S, V)
  BY <1>6, StillMatched DEF S
<1>8. Matching(S, Carriers(c)')
  BY <1>1, <1>2, <1>4, <1>7, LeaveMatched DEF V
<1> QED BY <1>3, <1>8

(* A node hands out k to d.  If c counted on d for another message, c had  *)
(* passed by k as well, for otherwise the two have crossed.                *)
LEMMA ServedMatched ==
  ASSUME TypeOK, NEW c \in Consumers, NEW d \in Consumers \ {c}, NEW k \in Messages,
         pc[d] = "take", Servable(k), Lease(k), Leave(d), ~Crossed(d, k),
         pc[c] # "idle", c \notin sig', untold' = untold, stream' = stream,
         Matching(PassedBy(c), Carriers(c))
  PROVE  Matching(PassedBy(c)', Carriers(c)')
<1> DEFINE look == <<"look", d, 0>>
           S == PassedBy(c)
           T == Carriers(c)
           V == [m \in Messages |-> T[m] \ {look}]
<1>1. pc' = [pc EXCEPT ![d] = "idle"] /\ todo' = [todo EXCEPT ![d] = {}]
  BY DEF Leave
<1>2. pc'[c] = pc[c] /\ todo'[c] = todo[c]
  BY <1>1 DEF TypeOK
<1>3. state' = [state EXCEPT ![k] = "leased"] /\ state[k] = "ready"
  BY DEF Lease, Servable
<1>4. \A m \in Messages : Servable(m)' <=> Servable(m) /\ m # k
  BY <1>3, LongPollAssumption DEF Servable, TypeOK
<1>5. PassedBy(c)' = S \ {k}
  BY <1>2, <1>4 DEF PassedBy
<1>6. \A m \in S : m \in Messages /\ Servable(m)
  BY DEF PassedBy
<1>7. ASSUME NEW m \in S \ {k}, look \in T[m]
      PROVE  k \in S /\ T[k] \ {look} \subseteq V[m]
  <2>1. At[c] = At[d] /\ m \in Messages /\ Servable(m)
    BY <1>6, <1>7, CarriersAre DEF Carries
  <2>2. ASSUME NEW x \in Consumers \ {d}, At[x] = At[d], pc[x] = "take" PROVE Home[m] \in todo[x]
    BY <2>1, <2>2 DEF Crossed
  <2>3. pc[c] = "wait"
    <3>1. pc[c] = "take" => Home[m] \in todo[c]
      BY <2>1, <2>2
    <3>2. m \in PassedBy(c)
      OBVIOUS
    <3> QED BY <3>1, <3>2 DEF PassedBy, TypeOK
  <2>4. k \in S
    BY <2>3 DEF PassedBy
  <2>5. ASSUME NEW t \in T[k] \ {look} PROVE t \in V[m]
    <3>1. t \in Token /\ Carries(c, k, t)
      BY CarriersAre
    <3>2. t[1] = "look" => t[2] # d /\ t[2] \in Consumers
      BY <2>5, <3>1, TokenForm
    <3>3. t[1] = "look" => Home[m] \in todo[t[2]]
      BY <2>1, <2>2, <3>1, <3>2 DEF Carries
    <3>4. Carries(c, m, t)
      BY <3>1, <3>3 DEF Carries
    <3>5. t \in Carriers(c)[m]
      BY <2>1, <3>1, <3>4 DEF Carriers
    <3> QED BY <2>1, <3>5
  <2> QED BY <2>4, <2>5
<1>8. \A m \in S \ {k} : T[m] \ {look} \subseteq V[m]
  BY <1>6
<1>9. \A m \in S \ {k} : m \in Messages
  BY <1>6
<1> DEFINE R == S \ {k}
<1>10. Matching(S, T) /\ R = S \ {k} /\ look \in Token
  BY IsToken
<1>11. /\ \A m \in R : T[m] \ {look} \subseteq V[m]
       /\ \A m \in R : look \in T[m] => k \in S /\ T[k] \ {look} \subseteq V[m]
  BY <1>7, <1>8
<1>12. R \in SUBSET Messages
  BY <1>9
<1> HIDE DEF R, S, V, T, look
<1>13. Matching(R, V)
  BY <1>10, <1>11, TokenTaken
<1>14. Matching(R, Carriers(c)')
  BY <1>12, <1>13, LeaveMatched DEF V, T, look
<1> QED BY <1>5, <1>14 DEF R

LEMMA MatchedInit == Init => Matched
<1> SUFFICES ASSUME Init, NEW c \in Consumers, pc[c] # "idle" PROVE FALSE
  BY DEF Matched
<1> QED BY DEF Init

(* One message comes back at most, or a wake is missed. *)
LEMMA SweepOne ==
  ASSUME TypeOK, NEW n \in Nodes, Sweep(n), ~missed'
  PROVE  \E k \in Messages : /\ Home[k] = n /\ state[k] = "leased"
                             /\ state' = [state EXCEPT ![k] = "ready"]
<1>1. PICK S \in SUBSET {m \in Messages : Home[m] = n /\ state[m] = "leased"} :
        /\ S # {}
        /\ state' = [m \in Messages |-> IF m \in S THEN "ready" ELSE state[m]]
        /\ missed' = (missed \/ \E k, m \in S : k # m)
  BY DEF Sweep
<1>2. PICK k \in S : TRUE
  BY <1>1
<1>3. \A m \in S : m = k
  BY <1>1
<1>4. state' = [state EXCEPT ![k] = "ready"]
  BY <1>1, <1>3 DEF TypeOK
<1> QED BY <1>4

LEMMA MatchedNext == IInv /\ [Next]_vars => Matched'
<1> SUFFICES ASSUME IInv, [Next]_vars, NEW c \in Consumers,
                    pc'[c] # "idle", c \notin sig', ~missed'
             PROVE  Matching(PassedBy(c)', Carriers(c)')
  BY DEF Matched
<1> USE LongPollAssumption
<1>1. TypeOK
  BY DEF IInv
<1>2. pc[c] # "idle" /\ c \notin sig /\ ~missed => Matching(PassedBy(c), Carriers(c))
  BY DEF IInv, Matched
<1>3. ASSUME NEW m \in Messages, Enqueue(m) \/ Nack(m)
      PROVE  Matching(PassedBy(c)', Carriers(c)')
  <2>1. /\ state[m] \in {"new", "leased"} /\ state' = [state EXCEPT ![m] = "ready"]
        /\ ToTell(Home[m])
        /\ stream' = stream /\ sig' = sig /\ pc' = pc /\ todo' = todo /\ missed' = missed
    BY <1>3 DEF Enqueue, Nack, pipes, waiters, round
  <2> QED BY <1>1, <1>2, <2>1, ReadyMatched
<1>4. ASSUME NEW m \in Messages, Ack(m) PROVE Matching(PassedBy(c)', Carriers(c)')
  <2>1. /\ state[m] = "leased" /\ state' = [state EXCEPT ![m] = "acked"]
        /\ ~missed /\ \A k \in Messages : m \in Behind[k] => state[k] # "ready"
        /\ untold' = untold /\ stream' = stream /\ sig' = sig /\ pc' = pc /\ todo' = todo
    BY <1>4 DEF Ack, pipes, waiters, round
  <2>2. ASSUME NEW k \in Messages, Servable(k)' PROVE Servable(k)
    <3>1. k # m /\ state[k] = "ready"
      BY <1>1, <2>1, <2>2 DEF Servable, TypeOK
    <3>2. m \notin Behind[k]
      BY <2>1, <3>1
    <3> QED BY <1>1, <2>1, <2>2, <3>1, <3>2 DEF Servable, TypeOK
  <2>3. PassedBy(c)' \subseteq PassedBy(c)
    BY <2>1, <2>2 DEF PassedBy
  <2> QED BY <1>1, <1>2, <2>1, <2>3, Undisturbed
<1>5. ASSUME NEW n \in Nodes, Tell(n) PROVE Matching(PassedBy(c)', Carriers(c)')
  <2>1. pc' = pc /\ sig' = sig /\ ~missed
    BY <1>5 DEF Tell, Publish, waiters, round
  <2> QED BY <1>1, <1>2, <1>5, <2>1, TellMatched
<1>6. ASSUME NEW n \in Nodes, Sweep(n) PROVE Matching(PassedBy(c)', Carriers(c)')
  <2>1. stream' = stream /\ sig' = sig /\ pc' = pc /\ todo' = todo /\ ~missed /\ ToTell(n)
    BY <1>6 DEF Sweep, pipes, waiters, round
  <2>2. PICK k \in Messages : /\ Home[k] = n /\ state[k] = "leased"
                              /\ state' = [state EXCEPT ![k] = "ready"]
    BY <1>1, <1>6, SweepOne
  <2> QED BY <1>1, <1>2, <2>1, <2>2, ReadyMatched
<1>7. ASSUME NEW g \in Gateways, NEW n \in Nodes, Wake(g, n)
      PROVE  Matching(PassedBy(c)', Carriers(c)')
  <2>1. pc' = pc /\ missed' = missed /\ sig \subseteq sig'
    BY <1>7 DEF Wake, Deliver, round
  <2> QED BY <1>1, <1>2, <1>7, <2>1, WakeMatched
<1>8. ASSUME NEW g \in Gateways, NEW n \in Nodes, Break(g, n) \/ Reconnect(g, n)
      PROVE  Matching(PassedBy(c)', Carriers(c)')
  <2>1. state' = state /\ untold' = untold /\ sig' = sig /\ pc' = pc /\ todo' = todo
    BY <1>8 DEF Break, Reconnect, queueVars, waiters, round
  <2>2. ~missed
    BY <1>8 DEF Break, Reconnect
  <2>3. stream' = stream
    <3>1. CASE Reconnect(g, n)
      BY <3>1 DEF Reconnect
    <3>2. CASE Break(g, n)
      <4>1. stream \in [Gateways -> [Nodes -> 0..Buffer]]
        BY <1>1 DEF TypeOK
      <4>2. ~(stream[g][n] > 0)
        BY <3>2 DEF Break
      <4>3. stream[g][n] = 0
        <5>1. stream[g] \in [Nodes -> 0..Buffer]
          BY <4>1
        <5>2. stream[g][n] \in 0..Buffer
          BY <5>1
        <5> QED BY <4>2, <5>2
      <4>4. stream' = [stream EXCEPT ![g][n] = 0]
        BY <3>2 DEF Break
      <4> QED BY <4>1, <4>3, <4>4
    <3> QED BY <1>8, <3>1, <3>2
  <2>4. PassedBy(c)' = PassedBy(c)
    BY <2>1 DEF PassedBy, Servable
  <2> QED BY <1>1, <1>2, <2>1, <2>2, <2>3, <2>4, Undisturbed
<1>9. ASSUME NEW d \in Consumers, Poll(d) \/ Backstop(d)
      PROVE  Matching(PassedBy(c)', Carriers(c)')
  <2>1. /\ state' = state /\ untold' = untold /\ stream' = stream /\ sig' = sig
        /\ missed' = missed
        /\ pc' = [pc EXCEPT ![d] = "take"] /\ todo' = [todo EXCEPT ![d] = Nodes]
        /\ pc[d] \in {"idle", "wait"}
    BY <1>9 DEF Poll, Backstop, Begin, queueVars, pipes, waiters
  <2>2. CASE d = c
    <3>1. PassedBy(c)' = {}
      BY <1>1, <2>1, <2>2 DEF PassedBy, TypeOK
    <3> QED BY <3>1, NothingToMatch
  <2>3. CASE d # c
    <3>1. pc'[c] = pc[c] /\ todo'[c] = todo[c]
      BY <1>1, <2>1, <2>3 DEF TypeOK
    <3>2. PassedBy(c)' = PassedBy(c)
      BY <2>1, <3>1 DEF PassedBy, Servable
    <3>3. \A x \in Consumers : pc[x] = "take" => pc'[x] = "take" /\ todo'[x] = todo[x]
      BY <1>1, <2>1 DEF TypeOK
    <3> QED BY <1>1, <1>2, <2>1, <3>1, <3>2, <3>3, Undisturbed
  <2> QED BY <2>2, <2>3
<1>10. ASSUME NEW d \in Consumers, NEW n \in Nodes, Ask(d, n)
       PROVE  Matching(PassedBy(c)', Carriers(c)')
  <2>1. pc[d] = "take" /\ n \in todo[d] /\ untold' = untold /\ stream' = stream
    BY <1>10 DEF Ask, pipes
  <2>2. ASSUME NEW k \in Messages, DequeueAt(n, k), Leave(d),
               missed' = (missed \/ Crossed(d, k))
        PROVE  Matching(PassedBy(c)', Carriers(c)')
    <3>1. ~missed /\ ~Crossed(d, k)
      BY <2>2
    <3>2. Servable(k) /\ Lease(k)
      BY <2>2 DEF DequeueAt
    <3>3. pc' = [pc EXCEPT ![d] = "idle"]
      BY <2>2 DEF Leave
    <3>4. c # d /\ pc[c] # "idle"
      BY <1>1, <3>3 DEF TypeOK
    <3>5. pc[d] # "idle"
      BY <2>1
    <3>6. c \in Range(list[At[c]])
      BY <1>1, <3>4 DEF TypeOK
    <3>7. PICK ws \in Seq(Consumers) :
            \/ sig' = sig \ {d} /\ (d \in sig => Range(ws) \subseteq sig)
            \/ d \in sig /\ \E w \in Range(ws) \ sig : sig' = (sig \ {d}) \cup {w}
      BY <1>1, <2>2, <3>5, UnparkDoes DEF Leave
    <3>8. c \notin sig
      BY <3>4, <3>7
    <3> QED BY <1>1, <1>2, <2>1, <2>2, <3>1, <3>2, <3>4, <3>5, <3>8, ServedMatched
  <2>3. ASSUME \A m \in Messages : Home[m] = n => ~Servable(m),
               todo' = [todo EXCEPT ![d] = todo[d] \ {n}],
               UNCHANGED <<state, waiters, pc, first, faults, missed>>
        PROVE  Matching(PassedBy(c)', Carriers(c)')
    <3>1. state' = state /\ sig' = sig /\ pc' = pc /\ missed' = missed
      BY <2>3 DEF waiters
    <3>2. \A m \in Messages : Servable(m)' <=> Servable(m)
      BY <3>1 DEF Servable
    <3>3. \A x \in Consumers, m \in Messages :
            Servable(m) => (Home[m] \in todo'[x] <=> Home[m] \in todo[x])
      BY <1>1, <2>3 DEF TypeOK
    <3>4. PassedBy(c)' = PassedBy(c)
      BY <3>1, <3>2, <3>3 DEF PassedBy
    <3>5. \A m \in PassedBy(c)' : m \in Messages /\ Servable(m)
      BY <3>4 DEF PassedBy
    <3> QED BY <1>1, <1>2, <2>1, <3>1, <3>3, <3>4, <3>5, Undisturbed
  <2> QED BY <1>10, <2>2, <2>3 DEF Ask
<1>11. ASSUME NEW d \in Consumers, Empty(d) PROVE Matching(PassedBy(c)', Carriers(c)')
  <2>1. pc[d] = "take" /\ missed' = missed
    BY <1>11 DEF Empty
  <2>2. pc[c] # "idle" /\ c \notin sig
    <3>1. CASE Leave(d)
      <4>1. pc' = [pc EXCEPT ![d] = "idle"]
        BY <3>1 DEF Leave
      <4>2. c # d /\ pc[c] # "idle"
        BY <1>1, <4>1 DEF TypeOK
      <4>3. PICK ws \in Seq(Consumers) :
              \/ sig' = sig \ {d} /\ (d \in sig => Range(ws) \subseteq sig)
              \/ d \in sig /\ \E w \in Range(ws) \ sig : sig' = (sig \ {d}) \cup {w}
        BY <1>1, <2>1, <3>1, UnparkDoes DEF Leave
      <4> QED BY <4>2, <4>3
    <3>2. CASE ~Leave(d)
      <4>1. pc' = [pc EXCEPT ![d] = "wait"] /\ sig' = sig
        BY <1>11, <3>2 DEF Empty, waiters
      <4> QED BY <1>1, <2>1, <4>1 DEF TypeOK
    <3> QED BY <3>1, <3>2
  <2> QED BY <1>1, <1>2, <1>11, <2>1, <2>2, EmptyMatched
<1>12. ASSUME NEW d \in Consumers, Woken(d) PROVE Matching(PassedBy(c)', Carriers(c)')
  <2>1. sig' = sig \ {d} /\ missed' = missed
        /\ pc' = [pc EXCEPT ![d] = "take"] /\ todo' = [todo EXCEPT ![d] = Nodes]
    BY <1>12 DEF Woken, Begin
  <2>2. CASE d = c
    <3>1. PassedBy(c)' = {}
      BY <1>1, <2>1, <2>2 DEF PassedBy, TypeOK
    <3> QED BY <3>1, NothingToMatch
  <2>3. CASE d # c
    <3>1. pc[c] # "idle" /\ c \notin sig
      BY <1>1, <2>1, <2>3 DEF TypeOK
    <3> QED BY <1>1, <1>2, <1>12, <2>1, <2>3, <3>1, WokenMatched
  <2> QED BY <2>2, <2>3
<1>13. ASSUME NEW d \in Consumers, GiveUp(d) PROVE Matching(PassedBy(c)', Carriers(c)')
  <2>1. pc[d] = "wait" /\ missed' = missed /\ Leave(d)
    BY <1>13 DEF GiveUp
  <2>2. pc' = [pc EXCEPT ![d] = "idle"]
    BY <2>1 DEF Leave
  <2>3. c # d /\ pc[c] # "idle"
    BY <1>1, <2>2 DEF TypeOK
  <2>4. PICK ws \in Seq(Consumers) :
          \/ sig' = sig \ {d} /\ (d \in sig => Range(ws) \subseteq sig)
          \/ d \in sig /\ \E w \in Range(ws) \ sig : sig' = (sig \ {d}) \cup {w}
    BY <1>1, <2>1, UnparkDoes DEF Leave
  <2>5. c \notin sig
    BY <2>3, <2>4
  <2> QED BY <1>1, <1>2, <1>13, <2>1, <2>3, <2>5, GiveUpMatched
<1>14. CASE UNCHANGED vars
  <2>1. PassedBy(c)' = PassedBy(c) /\ Carriers(c)' = Carriers(c)
    BY <1>14 DEF vars, PassedBy, Servable, Carriers, Carries
  <2> QED BY <1>2, <1>14, <2>1 DEF vars
<1> QED BY <1>3, <1>4, <1>5, <1>6, <1>7, <1>8, <1>9, <1>10, <1>11, <1>12, <1>13, <1>14
        DEF Next, Round

-----------------------------------------------------------------------------
(* Theorems *)

LEMMA Inductive == Spec => []IInv
<1>1. Init => IInv
  BY TypeInit, MatchedInit DEF IInv
<1>2. IInv /\ [Next]_vars => IInv'
  BY TypeNext, MatchedNext DEF IInv
<1> QED BY <1>1, <1>2, PTL DEF Spec

(* The variables keep their types; the list of a gateway is the consumers  *)
(* that are parked there, each once, and who has a wake is parked          *)
(* (dequeue-wait-logic.go park, unpark).                                   *)
THEOREM TypeCorrect == Spec => []TypeOK
<1>1. IInv => TypeOK
  BY DEF IInv
<1> QED BY <1>1, Inductive, PTL

(* A message that could be handed out does not meet a gateway where        *)
(* everybody sleeps, unless a wake was missed in one of the ways that      *)
(* `missed' names (deliver, unpark, notifyWork).                           *)
THEOREM NobodySleepsOn == Spec => []NoLostWake
<1>1. IInv => NoLostWake
  <2> SUFFICES ASSUME IInv, NEW g \in Gateways, NEW m \in Messages,
                      Servable(m), ~missed, list[g] # <<>>,
                      ~ \E n \in Nodes : untold[n] > 0,
                      ~ \E n \in Nodes : stream[g][n] > 0,
                      ~ \E d \in Range(list[g]) : d \in sig \/ pc[d] = "take"
               PROVE  FALSE
    BY DEF NoLostWake
  <2>1. list[g] \in Seq(Consumers)
        /\ Range(list[g]) = {d \in Consumers : At[d] = g /\ pc[d] # "idle"}
    BY DEF IInv, TypeOK
  <2>2. PICK c : c \in Range(list[g])
    <3>1. 1 \in DOMAIN list[g]
      BY <2>1
    <3> QED BY <3>1 DEF Range
  <2>3. c \in Consumers /\ At[c] = g /\ pc[c] = "wait" /\ c \notin sig
    BY <2>1, <2>2 DEF IInv, TypeOK
  <2>4. PICK f \in [PassedBy(c) -> Token] : \A k \in PassedBy(c) : f[k] \in Carriers(c)[k]
    BY <2>3 DEF IInv, Matched, Matching
  <2>5. m \in PassedBy(c)
    BY <2>3 DEF PassedBy
  <2> DEFINE t == f[m]
  <2>6. t \in Token /\ Carries(c, m, t)
    BY <2>3, <2>4, <2>5, CarriersAre
  <2> HIDE DEF t
  <2>7. t[1] = "untold" => untold[t[2]] > 0 /\ t[2] \in Nodes
    <3>1. \A n \in Nodes : untold[n] \in Nat
      BY DEF IInv, TypeOK
    <3>2. t[1] = "untold" => 0 < t[3] /\ t[3] <= untold[t[2]] /\ t[2] \in Nodes /\ t[3] \in Nat
      BY <2>6, TokenForm DEF Carries
    <3> QED BY <3>1, <3>2
  <2>8. t[1] = "stream" => stream[g][t[2]] > 0 /\ t[2] \in Nodes
    <3>1. \A n \in Nodes : stream[g][n] \in Nat
      BY LongPollAssumption DEF IInv, TypeOK
    <3> QED BY <2>3, <2>6, <3>1, TokenForm DEF Carries
  <2>9. t[1] = "wake" => t[2] \in sig /\ t[2] \in Range(list[g])
    BY <2>1, <2>3, <2>6 DEF Carries, IInv, TypeOK
  <2>10. t[1] = "look" => pc[t[2]] = "take" /\ t[2] \in Range(list[g])
    BY <2>1, <2>3, <2>6, TokenForm DEF Carries
  <2> QED BY <2>6, <2>7, <2>8, <2>9, <2>10 DEF Carries
<1> QED BY <1>1, Inductive, PTL

(* A notification that comes while somebody sleeps without a wake goes to  *)
(* one that has none (dequeue-wait-logic.go deliver).                      *)
THEOREM WakesOneAsleep == Spec => WakesASleeper
<1>1. TypeOK /\ [Next]_vars =>
        [\A g \in Gateways, n \in Nodes :
           Wake(g, n) /\ ~(Range(list[g]) \subseteq sig) => sig' # sig]_vars
  <2> SUFFICES ASSUME TypeOK, NEW g \in Gateways, NEW n \in Nodes, Wake(g, n),
                      ~(Range(list[g]) \subseteq sig)
               PROVE  sig' # sig
    OBVIOUS
  <2>1. list[g] \in Seq(Consumers) /\ next[g] \in Nat
    BY DEF TypeOK
  <2>2. list[g][Roomy(list[g], sig, next[g])] \notin sig
    BY <2>1, RoomyHasRoom
  <2>3. sig' = sig \cup {list[g][Roomy(list[g], sig, next[g])]}
    BY DEF Wake, Deliver
  <2> QED BY <2>2, <2>3
<1> QED BY <1>1, TypeCorrect, PTL DEF Spec, WakesASleeper
=============================================================================
