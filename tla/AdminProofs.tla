---------------------------- MODULE AdminProofs -----------------------------
(***************************************************************************)
(* Theorems about Admin for any sets of names, nodes, gateways and         *)
(* clients, any placement, and any number of requests and faults.          *)
(***************************************************************************)
EXTENDS Admin, FiniteSetTheorems, TLAPS

Places == {"idle", "fetch", "fill", "have", "insert", "write", "set", "clear", "users",
           "mark", "evict", "drop", "remove", "send"}

Requests ==
  [pc : Places, op : {"none", "create", "update", "delete", "enqueue"},
   g : Gateways \cup {None}, q : Queues \cup {None}, dlq : Queues \cup {None},
   want : Queues \cup {None}, got : Row \cup {None, Absent}, second : BOOLEAN]

(* What a request has found out by the time it gets somewhere. *)
Sound(r) ==
  /\ r.pc # "idle" => r.g \in Gateways /\ r.q \in Queues
  /\ r.pc \in {"fetch", "fill"} => r.want \in Queues
  /\ r.pc \in {"fetch", "fill", "have"} => r.op # "none"
  /\ r.pc \in {"fill", "have", "write", "send"} => r.got # Absent
  /\ r.pc = "insert" => r.op = "create"
  /\ r.pc = "send" => r.op = "enqueue" /\ Usable(r.got)
  /\ r.pc \in {"users", "mark", "evict", "drop", "remove"} => r.op = "delete"
  /\ r.second => r.op = "update"

ClientType ==
  /\ client \in [Clients -> Requests]
  /\ \A c \in Clients : Sound(client[c])

(* TypeOK, with the shape of the variables whose parts it names, and       *)
(* without what it says of the creations.                                  *)
TypeInv ==
  /\ row \in [Queues -> Row \cup {None}]
  /\ cache \in [Gateways -> [Queues -> Row \cup {None, Absent}]]
  /\ ClientType
  /\ ids \in Nat /\ ops \in 0..MaxOps /\ faults \in 0..MaxFaults
  /\ raced \subseteq Queues

(* Rows were created by now, wherever they are, and each of them once. *)
Created(r) == r \in {None, Absent} \/ r.id \in 1..ids

OneRowEach ==
  /\ \A q \in Queues : Created(row[q])
  /\ \A g \in Gateways, q \in Queues : Created(cache[g][q])
  /\ \A c \in Clients : Created(client[c].got)
  /\ \A p, q \in Queues :
       row[p] # None /\ row[q] # None /\ row[p].id = row[q].id => p = q
  /\ data \in [Nodes -> [Queues -> SUBSET (1..ids)]]

(* A request creates one queue at most. *)
Creating ==
  {c \in Clients : client[c].op = "create" /\ client[c].pc \in {"fetch", "fill", "have", "insert"}}

CreationsCounted == IsFiniteSet(Creating) /\ ids + Cardinality(Creating) <= ops

(* A queue whose users were counted has got none since - but for those     *)
(* that are known to have raced with that.                                 *)
DeletedUnused ==
  \A p, q \in Queues :
    Deleting(q) /\ p # q /\ row[p] # None /\ row[p].dlq = q => p \in raced

(* Somebody will get to the messages of q yet. *)
ToDrop(q) ==
  \E c \in Clients : client[c].q = q /\ client[c].pc \in {"mark", "evict", "drop"}

AllLeft(q) == \A n \in Nodes : \A i \in data[n][q] : <<n, q, i>> \in left

(* Every message there is, is of the queue that has the name, or known to  *)
(* be left behind, or will be dropped; so also when a row that was marked  *)
(* is about to go.                                                         *)
OldIsLeft ==
  \A q \in Queues :
    /\ \A n \in Nodes : \A i \in data[n][q] :
         <<n, q, i>> \in left \/ (row[q] # None /\ i = row[q].id) \/ ToDrop(q)
    /\ \A c \in Clients :
         client[c].pc = "remove" /\ client[c].q = q /\ ~Usable(row[q]) => AllLeft(q) \/ ToDrop(q)

IInv ==
  /\ TypeInv /\ OneRowEach /\ CreationsCounted
  /\ DeletedUnused /\ DeadLettersHaveAPlace /\ OldIsLeft

-----------------------------------------------------------------------------
(* Requests *)

LEMMA IdleRequest == Idle \in Requests /\ Sound(Idle) /\ Idle.pc = "idle" /\ Idle.got = Absent
                     /\ Idle.op = "none"
BY AdminAssumption DEF Idle, Requests, Places, Sound

(* A request moves on and keeps what it knows. *)
LEMMA GotoEffect ==
  ASSUME ClientType, NEW c \in Clients, NEW pc \in Places, Goto(c, pc)
  PROVE  /\ client' \in [Clients -> Requests]
         /\ \A d \in Clients \ {c} : client'[d] = client[d]
         /\ client'[c].pc = pc /\ client'[c].op = client[c].op
         /\ client'[c].g = client[c].g /\ client'[c].q = client[c].q
         /\ client'[c].dlq = client[c].dlq /\ client'[c].want = client[c].want
         /\ client'[c].got = client[c].got /\ client'[c].second = client[c].second
<1> DEFINE r == client[c]
           s == [r EXCEPT !.pc = pc]
<1>1. r \in Requests
  BY DEF ClientType
<1> HIDE DEF r
<1>2. /\ s \in Requests /\ s.pc = pc /\ s.op = r.op /\ s.g = r.g /\ s.q = r.q
      /\ s.dlq = r.dlq /\ s.want = r.want /\ s.got = r.got /\ s.second = r.second
  BY <1>1 DEF Requests
<1>3. client' = [client EXCEPT ![c] = s]
  BY DEF Goto, r
<1> HIDE DEF s
<1> QED BY <1>2, <1>3 DEF ClientType, r

LEMMA DoneEffect ==
  ASSUME ClientType, NEW c \in Clients, Done(c)
  PROVE  /\ ClientType' /\ client'[c] = Idle
         /\ \A d \in Clients \ {c} : client'[d] = client[d]
BY IdleRequest DEF ClientType, Done

(* Where a request goes, it has found out what it should have. *)
LEMMA GotoType ==
  ASSUME ClientType, NEW c \in Clients, NEW pc \in Places, Goto(c, pc),
         client[c].g \in Gateways /\ client[c].q \in Queues,
         pc \in {"fetch", "fill"} => client[c].want \in Queues,
         pc \in {"fetch", "fill", "have"} => client[c].op # "none",
         pc \in {"fill", "have", "write", "send"} => client[c].got # Absent,
         pc = "insert" => client[c].op = "create",
         pc = "send" => client[c].op = "enqueue" /\ Usable(client[c].got),
         pc \in {"users", "mark", "evict", "drop", "remove"} => client[c].op = "delete"
  PROVE  ClientType'
<1>1. Sound(client[c])
  BY DEF ClientType
<1>2. Sound(client'[c])
  BY <1>1, GotoEffect DEF Sound
<1> QED BY <1>2, GotoEffect DEF ClientType

(* A request that goes on with a row it has found. *)
LEMMA GotEffect ==
  ASSUME ClientType, NEW c \in Clients, NEW pc \in Places, NEW r \in Row \cup {None, Absent},
         client' = [client EXCEPT ![c].pc = pc, ![c].got = r]
           \/ client' = [client EXCEPT ![c].got = r, ![c].pc = pc]
  PROVE  /\ client' \in [Clients -> Requests]
         /\ \A d \in Clients \ {c} : client'[d] = client[d]
         /\ client'[c].pc = pc /\ client'[c].op = client[c].op
         /\ client'[c].g = client[c].g /\ client'[c].q = client[c].q
         /\ client'[c].dlq = client[c].dlq /\ client'[c].want = client[c].want
         /\ client'[c].got = r /\ client'[c].second = client[c].second
<1> DEFINE t == client[c]
           s == [t EXCEPT !.pc = pc, !.got = r]
           u == [t EXCEPT !.got = r, !.pc = pc]
<1>1. t \in Requests
  BY DEF ClientType
<1>2. client' = [client EXCEPT ![c] = s] \/ client' = [client EXCEPT ![c] = u]
  BY DEF ClientType
<1> HIDE DEF t
<1>3. /\ s \in Requests /\ s.pc = pc /\ s.op = t.op /\ s.g = t.g /\ s.q = t.q
      /\ s.dlq = t.dlq /\ s.want = t.want /\ s.got = r /\ s.second = t.second
  BY <1>1 DEF Requests
<1>4. /\ u \in Requests /\ u.pc = pc /\ u.op = t.op /\ u.g = t.g /\ u.q = t.q
      /\ u.dlq = t.dlq /\ u.want = t.want /\ u.got = r /\ u.second = t.second
  BY <1>1 DEF Requests
<1> HIDE DEF s, u
<1> QED BY <1>2, <1>3, <1>4 DEF ClientType, t

LEMMA GotType ==
  ASSUME ClientType, NEW c \in Clients, NEW pc \in Places, NEW r \in Row \cup {None, Absent},
         client' = [client EXCEPT ![c].pc = pc, ![c].got = r]
           \/ client' = [client EXCEPT ![c].got = r, ![c].pc = pc],
         pc \in {"fill", "have", "write"}, r # Absent,
         client[c].g \in Gateways /\ client[c].q \in Queues,
         pc = "fill" => client[c].want \in Queues,
         client[c].op # "none"
  PROVE  ClientType'
<1>1. Sound(client[c])
  BY DEF ClientType
<1>2. Sound(client'[c])
  BY <1>1, GotEffect DEF Sound
<1> QED BY <1>2, GotEffect DEF ClientType

-----------------------------------------------------------------------------
(* Type correctness *)

LEMMA InitType == Init => TypeInv
BY IdleRequest, AdminAssumption DEF Init, TypeInv, ClientType

(* A request that has begun is a sound one. *)
LEMMA AskEffect ==
  ASSUME ClientType, NEW c \in Clients, Ask(c)
  PROVE  /\ ClientType'
         /\ \A d \in Clients \ {c} : client'[d] = client[d]
         /\ client[c].pc = "idle" /\ client'[c].pc \in {"insert", "fetch"}
         /\ client'[c].got = Absent
<1>1. PICK g \in Gateways, q \in Queues, op \in {"create", "update", "delete", "enqueue"},
           dlq \in Queues \cup {None} :
        /\ op \in {"delete", "enqueue"} => dlq = None
        /\ client' = [client EXCEPT ![c] =
             [Idle EXCEPT !.pc = IF op = "create" /\ dlq = None THEN "insert" ELSE "fetch",
                          !.op = op, !.g = g, !.q = q, !.dlq = dlq,
                          !.want = IF op = "create" THEN dlq ELSE q]]
  BY Zenon DEF Ask
<1> DEFINE pc   == IF op = "create" /\ dlq = None THEN "insert" ELSE "fetch"
           want == IF op = "create" THEN dlq ELSE q
           s    == [Idle EXCEPT !.pc = pc, !.op = op, !.g = g, !.q = q, !.dlq = dlq, !.want = want]
<1>2. client' = [client EXCEPT ![c] = s]
  BY <1>1, Zenon
<1>3. /\ pc \in {"insert", "fetch"} /\ want \in Queues \cup {None}
      /\ pc = "fetch" => want \in Queues
      /\ pc = "insert" => op = "create"
  OBVIOUS
<1> HIDE DEF pc, want
<1>4. Idle \in Requests /\ Idle.got = Absent /\ Idle.second = FALSE
  BY IdleRequest DEF Idle
<1>5. /\ s \in Requests /\ s.pc = pc /\ s.op = op /\ s.g = g /\ s.q = q /\ s.dlq = dlq
      /\ s.want = want /\ s.got = Absent /\ s.second = FALSE
  <2> HIDE DEF Idle
  <2>1. s \in Requests
    BY <1>3 DEF Idle, Requests, Places
  <2>2. /\ s.pc = pc /\ s.op = op /\ s.g = g /\ s.q = q /\ s.dlq = dlq
        /\ s.want = want /\ s.got = Idle.got /\ s.second = Idle.second
    BY <1>4 DEF Requests
  <2> QED BY <1>4, <2>1, <2>2
<1> HIDE DEF s
<1>6. Sound(s)
  BY <1>3, <1>5 DEF Sound
<1>7. client[c].pc = "idle"
  BY DEF Ask, At
<1>8. client'[c] = s /\ \A d \in Clients \ {c} : client'[d] = client[d]
  BY <1>2 DEF ClientType
<1>9. ClientType'
  BY <1>2, <1>5, <1>6 DEF ClientType
<1> QED BY <1>3, <1>5, <1>7, <1>8, <1>9

(* There is room for one more creation when a request is at it. *)
LEMMA RoomForOne ==
  ASSUME TypeInv, CreationsCounted, NEW c \in Clients, client[c].pc = "insert"
  PROVE  c \in Creating /\ ids + 1 \in 1..MaxOps
<1>1. c \in Creating
  BY DEF TypeInv, ClientType, Sound, Creating
<1>2. Cardinality(Creating) \in Nat /\ Cardinality(Creating) # 0
  BY <1>1, FS_CardinalityType, FS_EmptySet DEF CreationsCounted
<1>3. ids + Cardinality(Creating) <= ops /\ ops <= MaxOps /\ ids \in Nat /\ ops \in Nat
  BY AdminAssumption DEF CreationsCounted, TypeInv
<1> QED BY <1>1, <1>2, <1>3, AdminAssumption

LEMMA NextType ==
  ASSUME TypeInv, CreationsCounted, [Next]_vars
  PROVE  TypeInv'
<1>a. ASSUME NEW c \in Clients PROVE client[c] \in Requests /\ Sound(client[c])
  BY DEF TypeInv, ClientType
<1>1. ASSUME NEW c \in Clients, Ask(c) PROVE TypeInv'
  <2>1. ClientType'
    BY <1>1, AskEffect DEF TypeInv
  <2>2. ops' \in 0..MaxOps
    BY <1>1, AdminAssumption DEF Ask, TypeInv
  <2> QED BY <1>1, <2>1, <2>2 DEF Ask, TypeInv
<1>2. ASSUME NEW c \in Clients, Hit(c) PROVE TypeInv'
  <2> DEFINE e == cache[client[c].g][client[c].want]
  <2>1. /\ client[c].g \in Gateways /\ client[c].q \in Queues /\ client[c].want \in Queues
        /\ client[c].op # "none"
    BY <1>2, <1>a DEF Hit, At, Sound
  <2>2. e \in Row \cup {None, Absent}
    BY <2>1 DEF TypeInv
  <2>3. e # Absent /\ client' = [client EXCEPT ![c].got = e, ![c].pc = "have"]
    BY <1>2 DEF Hit
  <2> HIDE DEF e
  <2>4. ClientType'
    BY <2>1, <2>2, <2>3, GotType DEF TypeInv, Places
  <2> QED BY <1>2, <2>4 DEF Hit, TypeInv
<1>3. ASSUME NEW c \in Clients, Read(c) PROVE TypeInv'
  <2> DEFINE e == row[client[c].want]
  <2>1. /\ client[c].g \in Gateways /\ client[c].q \in Queues /\ client[c].want \in Queues
        /\ client[c].op # "none"
    BY <1>3, <1>a DEF Read, At, Sound
  <2>2. e \in Row \cup {None, Absent} /\ e # Absent
    BY <2>1, AdminAssumption DEF TypeInv
  <2>3. client' = [client EXCEPT ![c].got = e, ![c].pc = "fill"]
    BY <1>3 DEF Read
  <2> HIDE DEF e
  <2>4. ClientType'
    BY <2>1, <2>2, <2>3, GotType DEF TypeInv, Places
  <2> QED BY <1>3, <2>4 DEF Read, TypeInv
<1>4. ASSUME NEW c \in Clients, Fill(c) PROVE TypeInv'
  <2>1. /\ client[c].g \in Gateways /\ client[c].q \in Queues /\ client[c].want \in Queues
        /\ client[c].got \in Row \cup {None, Absent} /\ client[c].got # Absent
        /\ client[c].op # "none"
    BY <1>4, <1>a DEF Fill, At, Sound, Requests
  <2>2. ClientType'
    BY <1>4, <2>1, GotoType DEF Fill, TypeInv, Places
  <2>3. cache' \in [Gateways -> [Queues -> Row \cup {None, Absent}]]
    BY <1>4, <2>1 DEF Fill, TypeInv
  <2> QED BY <1>4, <2>2, <2>3 DEF Fill, TypeInv
<1>5. ASSUME NEW c \in Clients, Check(c) PROVE TypeInv'
  <2> DEFINE r == client[c]
  <2>1. r \in Requests /\ Sound(r) /\ r.pc = "have"
    BY <1>5, <1>a DEF Check, At
  <2>2. /\ r.g \in Gateways /\ r.q \in Queues /\ r.op \in {"create", "update", "delete", "enqueue"}
        /\ r.got # Absent /\ r.dlq \in Queues \cup {None}
    BY <2>1 DEF Sound, Requests
  <2>3. CASE Done(c)
    BY <1>5, <2>3, DoneEffect DEF Check, TypeInv
  <2>4. CASE /\ r.op = "update" /\ ~r.second /\ r.dlq \notin {None, r.got.dlq}
             /\ client' = [client EXCEPT ![c].pc = "fetch", ![c].want = r.dlq, ![c].second = TRUE]
    <3> DEFINE s == [r EXCEPT !.pc = "fetch", !.want = r.dlq, !.second = TRUE]
    <3>1. client' = [client EXCEPT ![c] = s]
      BY <2>4 DEF TypeInv, ClientType
    <3> HIDE DEF r
    <3>2. s \in Requests /\ Sound(s)
      BY <2>1, <2>2, <2>4 DEF Requests, Places, Sound
    <3> HIDE DEF s
    <3>3. ClientType'
      BY <3>1, <3>2 DEF TypeInv, ClientType
    <3> QED BY <1>5, <3>3 DEF Check, TypeInv
  <2>5. CASE Suits(r) /\ Goto(c, Then[r.op])
    <3>1. r.op = "enqueue" => Usable(r.got)
      BY <2>1, <2>5 DEF Suits, Sound
    <3>2. /\ Then[r.op] \in Places /\ Then[r.op] \in {"insert", "set", "users", "send"}
          /\ Then[r.op] = "insert" => r.op = "create"
          /\ Then[r.op] = "users" => r.op = "delete"
          /\ Then[r.op] = "send" => r.op = "enqueue"
      BY <2>2 DEF Then, Places
    <3>3. ClientType'
      BY <2>2, <2>5, <3>1, <3>2, GotoType DEF TypeInv
    <3> QED BY <1>5, <3>3 DEF Check, TypeInv
  <2> QED BY <1>5, <2>3, <2>4, <2>5 DEF Check
<1>b. ASSUME NEW c \in Clients, client[c].pc # "idle"
      PROVE  client[c].g \in Gateways /\ client[c].q \in Queues
  BY <1>a, <1>b DEF Sound
<1>6. ASSUME NEW c \in Clients, Insert(c) PROVE TypeInv'
  <2> DEFINE q   == client[c].q
             new == [id |-> ids + 1, dlq |-> client[c].dlq, deleting |-> FALSE]
  <2>1. /\ q \in Queues /\ client[c].g \in Gateways /\ client[c].dlq \in Queues \cup {None}
        /\ client[c].op = "create" /\ client[c].pc = "insert"
    BY <1>6, <1>a DEF Insert, At, Sound, Requests
  <2>2. CASE Done(c) /\ UNCHANGED <<row, ids, raced>>
    BY <1>6, <2>2, DoneEffect DEF Insert, TypeInv
  <2>3. CASE /\ row[q] # None /\ UNCHANGED <<row, ids, raced>>
             /\ client' = [client EXCEPT ![c].pc = "write", ![c].got = row[q]]
    <3>1. row[q] \in Row \cup {None, Absent} /\ row[q] # Absent
      BY <2>1, AdminAssumption DEF TypeInv
    <3>2. ClientType'
      BY <2>1, <2>3, <3>1, GotType DEF TypeInv, Places
    <3> QED BY <1>6, <2>3, <3>2 DEF Insert, TypeInv
  <2>4. CASE /\ row' = [row EXCEPT ![q] = new] /\ ids' = ids + 1 /\ Names(c)
             /\ client' = [client EXCEPT ![c].pc = "write", ![c].got = new]
    <3>1. ids + 1 \in 1..MaxOps
      BY <2>1, RoomForOne
    <3>2. new \in Row
      BY <2>1, <3>1 DEF Row
    <3>3. new # Absent
      BY <3>2, AdminAssumption
    <3> HIDE DEF new
    <3>4. ClientType'
      BY <2>1, <2>4, <3>2, <3>3, GotType DEF TypeInv, Places
    <3>5. row' \in [Queues -> Row \cup {None}] /\ raced' \subseteq Queues /\ ids' \in Nat
      BY <2>1, <2>4, <3>2 DEF TypeInv, Names
    <3> QED BY <1>6, <3>4, <3>5 DEF Insert, TypeInv
  <2> QED BY <1>6, <2>2, <2>3, <2>4 DEF Insert
<1>7. ASSUME NEW c \in Clients, Write(c) PROVE TypeInv'
  <2>1. /\ client[c].g \in Gateways /\ client[c].q \in Queues
        /\ client[c].got \in Row \cup {None, Absent}
    BY <1>7, <1>a, <1>b DEF Write, At, Requests
  <2>2. ClientType'
    BY <1>7, DoneEffect DEF Write, TypeInv
  <2>3. cache' \in [Gateways -> [Queues -> Row \cup {None, Absent}]]
    BY <1>7, <2>1 DEF Write, TypeInv
  <2> QED BY <1>7, <2>2, <2>3 DEF Write, TypeInv
<1>8. ASSUME NEW c \in Clients, Set(c) PROVE TypeInv'
  <2> DEFINE q == client[c].q
  <2>1. /\ q \in Queues /\ client[c].g \in Gateways /\ client[c].dlq \in Queues \cup {None}
    BY <1>8, <1>a, <1>b DEF Set, At, Requests
  <2>2. CASE row[q] = None
    BY <1>8, <2>2, DoneEffect DEF Set, TypeInv
  <2>3. CASE row[q] # None
    <3>1. ClientType'
      BY <1>8, <2>1, <2>3, GotoType DEF Set, TypeInv, Places
    <3>2. [row[q] EXCEPT !.dlq = client[c].dlq] \in Row
      BY <2>1, <2>3 DEF TypeInv, Row
    <3>3. row' \in [Queues -> Row \cup {None}]
      BY <1>8, <2>1, <2>3, <3>2 DEF Set, TypeInv
    <3>4. raced' \subseteq Queues
      BY <1>8, <2>1, <2>3 DEF Set, Names, TypeInv
    <3> QED BY <1>8, <2>3, <3>1, <3>3, <3>4 DEF Set, TypeInv
  <2> QED BY <2>2, <2>3
<1>9. ASSUME NEW c \in Clients, Users(c) PROVE TypeInv'
  <2>1. client[c].g \in Gateways /\ client[c].q \in Queues /\ client[c].op = "delete"
    BY <1>9, <1>a DEF Users, At, Sound
  <2>2. ClientType'
    BY <1>9, <2>1, GotoType, DoneEffect DEF Users, TypeInv, Places
  <2> QED BY <1>9, <2>2 DEF Users, TypeInv
<1>10. ASSUME NEW c \in Clients, Mark(c) PROVE TypeInv'
  <2> DEFINE q == client[c].q
  <2>1. client[c].g \in Gateways /\ q \in Queues /\ client[c].op = "delete"
    BY <1>10, <1>a DEF Mark, At, Sound
  <2>2. ClientType'
    BY <1>10, <2>1, GotoType DEF Mark, TypeInv, Places
  <2>3. row[q] # None => [row[q] EXCEPT !.deleting = TRUE] \in Row
    BY <2>1 DEF TypeInv, Row
  <2>4. row' \in [Queues -> Row \cup {None}]
    <3> DEFINE marked == [row[q] EXCEPT !.deleting = TRUE]
    <3>1. row' = [row EXCEPT ![q] = IF row[q] = None THEN None ELSE marked]
      BY <1>10 DEF Mark
    <3>2. row[q] # None => marked \in Row
      BY <2>3
    <3> HIDE DEF marked
    <3> QED BY <2>1, <3>1, <3>2 DEF TypeInv
  <2> QED BY <1>10, <2>2, <2>4 DEF Mark, TypeInv
<1>11. ASSUME NEW c \in Clients, Evict(c) PROVE TypeInv'
  <2>1. client[c].g \in Gateways /\ client[c].q \in Queues /\ client[c].op = "delete"
    BY <1>11, <1>a DEF Evict, At, Sound
  <2>2. ClientType'
    BY <1>11, <2>1, GotoType DEF Evict, TypeInv, Places
  <2>3. cache' \in [Gateways -> [Queues -> Row \cup {None, Absent}]]
    BY <1>11, <2>1 DEF Evict, EvictAt, TypeInv
  <2> QED BY <1>11, <2>2, <2>3 DEF Evict, TypeInv
<1>12. ASSUME NEW c \in Clients, Drop(c) PROVE TypeInv'
  <2>1. client[c].g \in Gateways /\ client[c].q \in Queues /\ client[c].op = "delete"
    BY <1>12, <1>a DEF Drop, At, Sound
  <2>2. ClientType'
    BY <1>12, <2>1, GotoType DEF Drop, TypeInv, Places
  <2>3. faults' \in 0..MaxFaults
    BY <1>12, AdminAssumption DEF Drop, TypeInv
  <2> QED BY <1>12, <2>2, <2>3 DEF Drop, TypeInv
<1>13. ASSUME NEW c \in Clients, FreeName(c) PROVE TypeInv'
  <2>1. client[c].g \in Gateways /\ client[c].q \in Queues
    BY <1>13, <1>b DEF FreeName, At
  <2>2. ClientType'
    BY <1>13, <2>1, GotoType DEF FreeName, TypeInv, Places
  <2> QED BY <1>13, <2>2 DEF FreeName, Delete, TypeInv
<1>14. ASSUME NEW c \in Clients, Clear(c) PROVE TypeInv'
  <2>1. client[c].g \in Gateways /\ client[c].q \in Queues
    BY <1>14, <1>b DEF Clear, At
  <2>2. ClientType'
    BY <1>14, DoneEffect DEF Clear, TypeInv
  <2>3. cache' \in [Gateways -> [Queues -> Row \cup {None, Absent}]]
    BY <1>14, <2>1 DEF Clear, EvictAt, TypeInv
  <2> QED BY <1>14, <2>2, <2>3 DEF Clear, TypeInv
<1>15. ASSUME NEW c \in Clients, Send(c) PROVE TypeInv'
  BY <1>15, DoneEffect DEF Send, TypeInv
<1>16. ASSUME NEW g \in Gateways, NEW q \in Queues, Expire(g, q) PROVE TypeInv'
  BY <1>16 DEF Expire, TypeInv, ClientType
<1>17. CASE UNCHANGED vars
  BY <1>17 DEF vars, TypeInv, ClientType
<1> QED
  BY <1>1, <1>2, <1>3, <1>4, <1>5, <1>6, <1>7, <1>8, <1>9, <1>10, <1>11, <1>12, <1>13, <1>14,
     <1>15, <1>16, <1>17
     DEF Next, Step

-----------------------------------------------------------------------------
(* The way of a request *)

Ways ==
  {<<"fetch", "have">>, <<"fetch", "fill">>, <<"fill", "have">>, <<"have", "fetch">>,
   <<"have", "insert">>, <<"have", "set">>, <<"have", "users">>, <<"have", "send">>,
   <<"insert", "write">>, <<"set", "clear">>, <<"users", "mark">>, <<"mark", "evict">>,
   <<"evict", "drop">>, <<"drop", "remove">>, <<"remove", "clear">>}

(* A step of a request ends it, or takes it on along one of these ways. *)
LEMMA StepMoves ==
  ASSUME TypeInv, CreationsCounted, NEW c \in Clients, Step(c)
  PROVE  /\ \A d \in Clients \ {c} : client'[d] = client[d]
         /\ client[c].pc # "idle"
         /\ \/ client'[c] = Idle
            \/ /\ client'[c].op = client[c].op /\ client'[c].q = client[c].q
               /\ <<client[c].pc, client'[c].pc>> \in Ways
<1> DEFINE Others == \A d \in Clients \ {c} : client'[d] = client[d]
           Moved(from, to) == /\ client[c].pc = from /\ client'[c].pc = to
                              /\ client'[c].op = client[c].op /\ client'[c].q = client[c].q
<1>a. client[c] \in Requests /\ ClientType
  BY DEF TypeInv, ClientType
<1>b. \A pc \in Places : Goto(c, pc) => Others /\ Moved(client[c].pc, pc)
  BY <1>a, GotoEffect
<1>c. Done(c) => Others /\ client'[c] = Idle
  BY <1>a, DoneEffect
<1>d. ASSUME NEW pc \in Places, NEW r,
             client' = [client EXCEPT ![c].got = r, ![c].pc = pc]
               \/ client' = [client EXCEPT ![c].pc = pc, ![c].got = r]
      PROVE  Others /\ Moved(client[c].pc, pc)
  BY <1>a, <1>d DEF ClientType, Requests
<1>1. CASE Hit(c)
  <2>1. Others /\ Moved("fetch", "have")
    BY <1>1, <1>d DEF Hit, At, Places
  <2> QED BY <2>1 DEF Ways
<1>2. CASE Read(c)
  <2>1. Others /\ Moved("fetch", "fill")
    BY <1>2, <1>d DEF Read, At, Places
  <2> QED BY <2>1 DEF Ways
<1>3. CASE Fill(c)
  <2>1. Others /\ Moved("fill", "have")
    BY <1>3, <1>b DEF Fill, At, Places
  <2> QED BY <2>1 DEF Ways
<1>4. CASE Check(c)
  <2> DEFINE r == client[c]
  <2>1. r.pc = "have"
    BY <1>4 DEF Check, At
  <2>2. CASE Done(c)
    BY <1>c, <2>1, <2>2
  <2>3. CASE client' = [client EXCEPT ![c].pc = "fetch", ![c].want = r.dlq, ![c].second = TRUE]
    <3>1. Others /\ Moved("have", "fetch")
      BY <1>a, <2>1, <2>3 DEF ClientType, Requests
    <3> QED BY <3>1 DEF Ways
  <2>4. CASE Goto(c, Then[r.op])
    <3>1. r.op \in {"create", "update", "delete", "enqueue"}
      BY <1>a, <2>1 DEF ClientType, Sound, Requests
    <3>2. Then[r.op] \in {"insert", "set", "users", "send"}
      BY <3>1 DEF Then
    <3>3. Others /\ Moved("have", Then[r.op])
      BY <1>b, <2>1, <2>4, <3>2 DEF Places
    <3> QED BY <3>2, <3>3 DEF Ways
  <2> QED BY <1>4, <2>2, <2>3, <2>4 DEF Check
<1>5. CASE Insert(c)
  <2>1. client[c].pc = "insert"
    BY <1>5 DEF Insert, At
  <2>2. CASE Done(c)
    BY <1>c, <2>1, <2>2
  <2>3. CASE ~Done(c)
    <3>1. \E r : client' = [client EXCEPT ![c].pc = "write", ![c].got = r]
      BY <1>5, <2>3 DEF Insert
    <3>2. Others /\ Moved("insert", "write")
      BY <1>d, <2>1, <3>1 DEF Places
    <3> QED BY <3>2 DEF Ways
  <2> QED BY <2>2, <2>3
<1>6. CASE Write(c) \/ Clear(c) \/ Send(c)
  <2>1. Done(c) /\ client[c].pc # "idle"
    BY <1>6 DEF Write, Clear, Send, At
  <2> QED BY <1>c, <2>1
<1>7. CASE Set(c)
  <2>1. client[c].pc = "set" /\ (Done(c) \/ Goto(c, "clear"))
    BY <1>7 DEF Set, At
  <2>2. Goto(c, "clear") => Others /\ Moved("set", "clear")
    BY <1>b, <2>1 DEF Places
  <2> QED BY <1>c, <2>1, <2>2 DEF Ways
<1>8. CASE Users(c)
  <2>1. client[c].pc = "users" /\ (Done(c) \/ Goto(c, "mark"))
    BY <1>8 DEF Users, At
  <2>2. Goto(c, "mark") => Others /\ Moved("users", "mark")
    BY <1>b, <2>1 DEF Places
  <2> QED BY <1>c, <2>1, <2>2 DEF Ways
<1>9. CASE Mark(c)
  <2>1. Others /\ Moved("mark", "evict")
    BY <1>9, <1>b DEF Mark, At, Places
  <2> QED BY <2>1 DEF Ways
<1>10. CASE Evict(c)
  <2>1. Others /\ Moved("evict", "drop")
    BY <1>10, <1>b DEF Evict, At, Places
  <2> QED BY <2>1 DEF Ways
<1>11. CASE Drop(c)
  <2>1. Others /\ Moved("drop", "remove")
    BY <1>11, <1>b DEF Drop, At, Places
  <2> QED BY <2>1 DEF Ways
<1>12. CASE FreeName(c)
  <2>1. Others /\ Moved("remove", "clear")
    BY <1>12, <1>b DEF FreeName, At, Places
  <2> QED BY <2>1 DEF Ways
<1> QED
  BY <1>1, <1>2, <1>3, <1>4, <1>5, <1>6, <1>7, <1>8, <1>9, <1>10, <1>11, <1>12 DEF Step

(* Who is deleting a queue, or is to drop it: that does not change by      *)
(* itself, and a step of another client does not change it.                *)
LEMMA StepDeletes ==
  ASSUME TypeInv, CreationsCounted, NEW c \in Clients, Step(c), NEW d \in Queues
  PROVE  /\ Deleting(d)' => Deleting(d) \/ (client[c].pc = "users" /\ client'[c].pc = "mark"
                                            /\ client[c].q = d)
         /\ ToDrop(d) => ToDrop(d)' \/ (client[c].pc = "drop" /\ client[c].q = d)
         /\ \A b \in Clients : client'[b].pc = "remove" =>
              /\ client'[b].q = client[b].q
              /\ client[b].pc = "remove" \/ (b = c /\ client[c].pc = "drop")
<1>1. /\ \A b \in Clients \ {c} : client'[b] = client[b]
      /\ \/ client'[c] = Idle
         \/ /\ client'[c].op = client[c].op /\ client'[c].q = client[c].q
            /\ <<client[c].pc, client'[c].pc>> \in Ways
  BY StepMoves
<1>2. Deleting(d)' => Deleting(d) \/ (client[c].pc = "users" /\ client'[c].pc = "mark"
                                      /\ client[c].q = d)
  BY <1>1, IdleRequest DEF Deleting, Ways
<1>3. client'[c] = Idle => client[c].pc \notin {"mark", "evict", "drop"}
  <2> SUFFICES ASSUME client'[c] = Idle, client[c].pc \in {"mark", "evict", "drop"} PROVE FALSE
    OBVIOUS
  <2>1. Mark(c) \/ Evict(c) \/ Drop(c)
    BY DEF Step, Hit, Read, Fill, Check, Insert, Write, Set, Users, FreeName, Clear, Send, At
  <2>2. client'[c].pc \in {"evict", "drop", "remove"}
    BY <2>1, GotoEffect DEF Mark, Evict, Drop, TypeInv, Places
  <2> QED BY <2>2, IdleRequest
<1>4. ToDrop(d) => ToDrop(d)' \/ (client[c].pc = "drop" /\ client[c].q = d)
  BY <1>1, <1>3 DEF ToDrop, Ways
<1>5. ASSUME NEW b \in Clients, client'[b].pc = "remove"
      PROVE  /\ client'[b].q = client[b].q
             /\ client[b].pc = "remove" \/ (b = c /\ client[c].pc = "drop")
  BY <1>1, <1>5, IdleRequest DEF Ways
<1> QED BY <1>2, <1>4, <1>5

-----------------------------------------------------------------------------
(* Creations *)

LEMMA NextCounted ==
  ASSUME TypeInv, CreationsCounted, [Next]_vars
  PROVE  CreationsCounted'
<1>1. ASSUME Creating' \subseteq Creating, ids' = ids, ops' = ops PROVE CreationsCounted'
  <2>1. IsFiniteSet(Creating') /\ Cardinality(Creating') <= Cardinality(Creating)
    BY <1>1, FS_Subset DEF CreationsCounted
  <2>2. Cardinality(Creating) \in Nat /\ Cardinality(Creating') \in Nat
    BY <2>1, FS_CardinalityType DEF CreationsCounted
  <2>3. ids' + Cardinality(Creating') <= ops'
    BY <1>1, <2>1, <2>2 DEF CreationsCounted, TypeInv
  <2> QED BY <2>1, <2>3 DEF CreationsCounted
<1>2. ASSUME NEW c \in Clients, Ask(c) PROVE CreationsCounted'
  <2>1. Creating' \subseteq Creating \cup {c} /\ ids' = ids /\ ops' = ops + 1
    BY <1>2, AskEffect DEF Ask, Creating, TypeInv
  <2>2. /\ IsFiniteSet(Creating \cup {c}) /\ Cardinality(Creating) \in Nat
        /\ Cardinality(Creating \cup {c}) \in Nat
        /\ Cardinality(Creating \cup {c}) <= Cardinality(Creating) + 1
    <3>1. IsFiniteSet(Creating \cup {c})
      BY FS_AddElement DEF CreationsCounted
    <3>2. Cardinality(Creating) \in Nat /\ Cardinality(Creating \cup {c}) \in Nat
      BY <3>1, FS_CardinalityType DEF CreationsCounted
    <3>3. \/ Cardinality(Creating \cup {c}) = Cardinality(Creating)
          \/ Cardinality(Creating \cup {c}) = Cardinality(Creating) + 1
      BY FS_AddElement DEF CreationsCounted
    <3> QED BY <3>1, <3>2, <3>3
  <2>3. IsFiniteSet(Creating') /\ Cardinality(Creating') <= Cardinality(Creating \cup {c})
    BY <2>1, <2>2, FS_Subset
  <2>4. Cardinality(Creating') \in Nat
    BY <2>3, FS_CardinalityType
  <2>5. ids + Cardinality(Creating) <= ops /\ ids \in Nat /\ ops \in Nat
    BY DEF CreationsCounted, TypeInv
  <2>6. ids' + Cardinality(Creating') <= ops'
    BY <2>1, <2>2, <2>3, <2>4, <2>5
  <2> QED BY <2>3, <2>6 DEF CreationsCounted
<1>3. ASSUME NEW c \in Clients, Step(c) PROVE Creating' \subseteq Creating /\ ops' = ops
  <2>1. Creating' \subseteq Creating
    BY <1>3, StepMoves, IdleRequest DEF Creating, Ways
  <2>2. ops' = ops
    BY <1>3 DEF Step, Hit, Read, Fill, Check, Insert, Write, Set, Users, Mark, Evict, Drop,
                FreeName, Clear, Send
  <2> QED BY <2>1, <2>2
<1>4. ASSUME NEW c \in Clients, Insert(c), ids' # ids PROVE CreationsCounted'
  <2>1. client[c].pc = "insert" /\ ids' = ids + 1 /\ ops' = ops
    BY <1>4 DEF Insert, At
  <2>2. Step(c)
    BY <1>4 DEF Step
  <2>3. c \in Creating
    BY <2>1, RoomForOne
  <2>4. c \notin Creating'
    BY <2>1, <2>2, StepMoves, IdleRequest DEF Creating, Ways
  <2>5. Creating' \subseteq Creating \ {c}
    BY <1>3, <2>2, <2>4
  <2>6. /\ IsFiniteSet(Creating \ {c})
        /\ Cardinality(Creating \ {c}) = Cardinality(Creating) - 1
    BY <2>3, FS_RemoveElement DEF CreationsCounted
  <2>7. IsFiniteSet(Creating') /\ Cardinality(Creating') <= Cardinality(Creating \ {c})
    BY <2>5, <2>6, FS_Subset
  <2>8. Cardinality(Creating') \in Nat /\ Cardinality(Creating) \in Nat
    BY <2>7, FS_CardinalityType DEF CreationsCounted
  <2>9. ids + Cardinality(Creating) <= ops /\ ids \in Nat /\ ops \in Nat
    BY DEF CreationsCounted, TypeInv
  <2>10. ids' + Cardinality(Creating') <= ops'
    BY <2>1, <2>6, <2>7, <2>8, <2>9
  <2> QED BY <2>7, <2>10 DEF CreationsCounted
<1>5. ASSUME NEW c \in Clients, Step(c), ids' # ids PROVE Insert(c)
  BY <1>5 DEF Step, Hit, Read, Fill, Check, Write, Set, Users, Mark, Evict, Drop, FreeName,
              Clear, Send
<1>6. ASSUME NEW g \in Gateways, NEW q \in Queues, Expire(g, q) PROVE CreationsCounted'
  BY <1>1, <1>6 DEF Expire, Creating
<1>7. CASE UNCHANGED vars
  BY <1>1, <1>7 DEF vars, Creating
<1> QED BY <1>1, <1>2, <1>3, <1>4, <1>5, <1>6, <1>7 DEF Next

-----------------------------------------------------------------------------
(* Rows *)

(* How a step changes a row. *)
LEMMA RowStep ==
  ASSUME TypeInv, CreationsCounted, NEW c \in Clients, Step(c), NEW q \in Queues
  PROVE  \/ row'[q] = row[q] /\ (q # client[c].q \/ raced' = raced)
         \/ FreeName(c) /\ client[c].q = q /\ row'[q] = None
         \/ /\ client[c].q = q /\ row'[q] # None
            /\ row'[q].dlq = client[c].dlq /\ Names(c)
            /\ \/ /\ Insert(c) /\ row[q] = None /\ ids' = ids + 1
                  /\ row'[q].id = ids + 1 /\ ~row'[q].deleting
               \/ /\ Set(c) /\ row[q] # None
                  /\ row'[q].id = row[q].id /\ row'[q].deleting = row[q].deleting
         \/ /\ Mark(c) /\ client[c].q = q /\ row[q] # None /\ row'[q] # None
            /\ row'[q].id = row[q].id /\ row'[q].dlq = row[q].dlq /\ row'[q].deleting
<1> DEFINE p == client[c].q
<1>a. row \in [Queues -> Row \cup {None}]
  BY DEF TypeInv
<1>b. client[c].pc # "idle" => p \in Queues
  BY DEF TypeInv, ClientType, Sound
<1>c. ASSUME NEW r \in Row PROVE r # None
  BY <1>c, AdminAssumption
<1>1. CASE row' = row /\ raced' = raced
  BY <1>1
<1>2. CASE ~(row' = row /\ raced' = raced)
  <2>1. Insert(c) \/ Set(c) \/ Mark(c) \/ FreeName(c)
    BY <1>2 DEF Step, Hit, Read, Fill, Check, Write, Users, Evict, Drop, Clear, Send
  <2>2. p \in Queues
    BY <1>b, <2>1 DEF Insert, Set, Mark, FreeName, At
  <2>3. CASE Insert(c)
    <3> DEFINE new == [id |-> ids + 1, dlq |-> client[c].dlq, deleting |-> FALSE]
    <3>1. row[p] = None /\ row' = [row EXCEPT ![p] = new] /\ ids' = ids + 1 /\ Names(c)
      BY <1>2, <2>3 DEF Insert
    <3>2. p # q => row'[q] = row[q]
      BY <1>a, <3>1
    <3>3. row'[p] = new
      BY <1>a, <2>2, <3>1
    <3>4. new.id = ids + 1 /\ new.dlq = client[c].dlq /\ ~new.deleting
      OBVIOUS
    <3>5. new # None
      <4>1. client[c].dlq \in Queues \cup {None} /\ client[c].pc = "insert"
        BY <2>3 DEF Insert, At, TypeInv, ClientType, Requests
      <4>2. ids + 1 \in 1..MaxOps
        BY <4>1, RoomForOne
      <4>3. new \in Row
        BY <4>1, <4>2 DEF Row
      <4> QED BY <1>c, <4>3
    <3> HIDE DEF new
    <3> QED BY <1>2, <2>3, <3>1, <3>2, <3>3, <3>4, <3>5
  <2>4. CASE Set(c)
    <3> DEFINE r == row[p]
               s == [r EXCEPT !.dlq = client[c].dlq]
    <3>1. r # None /\ row' = [row EXCEPT ![p] = s] /\ Names(c)
      BY <1>2, <2>4 DEF Set
    <3>2. r \in Row
      BY <1>a, <2>2, <3>1
    <3>3. client[c].dlq \in Queues \cup {None}
      BY DEF TypeInv, ClientType, Requests
    <3>4. p # q => row'[q] = row[q]
      BY <1>a, <3>1
    <3>5. row'[p] = s
      BY <1>a, <2>2, <3>1
    <3> HIDE DEF r
    <3>6. s \in Row /\ s.id = r.id /\ s.dlq = client[c].dlq /\ s.deleting = r.deleting
      BY <3>2, <3>3 DEF Row
    <3> HIDE DEF s
    <3> QED BY <1>c, <2>4, <3>1, <3>4, <3>5, <3>6 DEF r
  <2>5. CASE Mark(c)
    <3> DEFINE r == row[p]
               s == [r EXCEPT !.deleting = TRUE]
    <3>1. row' = [row EXCEPT ![p] = IF r = None THEN None ELSE s]
      BY <2>5 DEF Mark
    <3>2. p # q => row'[q] = row[q]
      BY <1>a, <3>1
    <3>3. r = None => row'[p] = row[p]
      BY <1>a, <2>2, <3>1
    <3>6. raced' = raced
      BY <2>5 DEF Mark
    <3>4. r # None => r \in Row /\ row'[p] = s
      BY <1>a, <2>2, <3>1
    <3> HIDE DEF r
    <3>5. r \in Row => s \in Row /\ s.id = r.id /\ s.dlq = r.dlq /\ s.deleting
      BY DEF Row
    <3> HIDE DEF s
    <3> QED BY <1>c, <2>5, <3>2, <3>3, <3>4, <3>5, <3>6 DEF r
  <2>6. CASE FreeName(c)
    BY <1>a, <2>2, <2>6 DEF FreeName, Delete
  <2> QED BY <2>1, <2>3, <2>4, <2>5, <2>6
<1> QED BY <1>1, <1>2

(* Only a create moves the count of creations. *)
LEMMA IdsStep ==
  ASSUME TypeInv, NEW c \in Clients, Step(c)
  PROVE  \/ ids' = ids
         \/ Insert(c) /\ ids' = ids + 1 /\ row[client[c].q] = None
BY DEF Step, Hit, Read, Fill, Check, Insert, Write, Set, Users, Mark, Evict, Drop, FreeName,
       Clear, Send

(* A gateway's cache gets what a request there has found, or loses it. *)
LEMMA CacheStep ==
  ASSUME TypeInv, NEW c \in Clients, Step(c), NEW g \in Gateways, NEW q \in Queues
  PROVE  cache'[g][q] \in {cache[g][q], Absent, client[c].got}
<1>1. cache \in [Gateways -> [Queues -> Row \cup {None, Absent}]]
  BY DEF TypeInv
<1>2. CASE Fill(c) \/ Write(c)
  BY <1>1, <1>2 DEF Fill, Write
<1>3. CASE Evict(c) \/ Clear(c)
  BY <1>1, <1>3 DEF Evict, Clear, EvictAt
<1>4. CASE cache' = cache
  BY <1>4
<1> QED
  BY <1>2, <1>3, <1>4 DEF Step, Hit, Read, Check, Insert, Set, Users, Mark, Drop, FreeName, Send

(* What a request goes on with was in its gateway's cache or in the table. *)
LEMMA GotStep ==
  ASSUME TypeInv, CreationsCounted, NEW c \in Clients, Step(c)
  PROVE  \/ client'[c].got \in {client[c].got, Absent}
         \/ \E g \in Gateways, q \in Queues : client'[c].got = cache[g][q]
         \/ \E q \in Queues : client'[c].got \in {row[q], row'[q]}
<1>a. /\ ClientType /\ client[c] \in Requests /\ Sound(client[c]) 
      /\ row \in [Queues -> Row \cup {None}]
      /\ cache \in [Gateways -> [Queues -> Row \cup {None, Absent}]]
  BY DEF TypeInv, ClientType
<1>1. CASE Done(c)
  BY <1>1, <1>a, DoneEffect, IdleRequest
<1>2. CASE \E pc \in Places : Goto(c, pc)
  BY <1>2, <1>a, GotoEffect
<1>3. CASE Hit(c)
  <2>1. client[c].g \in Gateways /\ client[c].want \in Queues
    BY <1>3, <1>a DEF Hit, At, Sound
  <2> DEFINE e == cache[client[c].g][client[c].want]
  <2>2. e \in Row \cup {None, Absent} /\ client' = [client EXCEPT ![c].got = e, ![c].pc = "have"]
    BY <1>3, <1>a, <2>1 DEF Hit
  <2> HIDE DEF e
  <2>3. client'[c].got = e
    BY <1>a, <2>2, GotEffect DEF Places
  <2> QED BY <2>1, <2>3 DEF e
<1>4. CASE Read(c)
  <2>1. client[c].want \in Queues
    BY <1>4, <1>a DEF Read, At, Sound
  <2> DEFINE e == row[client[c].want]
  <2>2. e \in Row \cup {None, Absent} /\ client' = [client EXCEPT ![c].got = e, ![c].pc = "fill"]
    BY <1>4, <1>a, <2>1 DEF Read
  <2> HIDE DEF e
  <2>3. client'[c].got = e
    BY <1>a, <2>2, GotEffect DEF Places
  <2> QED BY <2>1, <2>3 DEF e
<1>5. CASE Insert(c) /\ ~Done(c)
  <2> DEFINE p == client[c].q
             new == [id |-> ids + 1, dlq |-> client[c].dlq, deleting |-> FALSE]
  <2>1. p \in Queues /\ client[c].dlq \in Queues \cup {None} /\ client[c].pc = "insert"
    BY <1>5, <1>a DEF Insert, At, Sound, Requests
  <2>2. ids + 1 \in 1..MaxOps
    BY <2>1, RoomForOne
  <2>3. new \in Row
    BY <2>1, <2>2 DEF Row
  <2>4. \/ row' = [row EXCEPT ![p] = new] /\ client' = [client EXCEPT ![c].pc = "write", ![c].got = new]
        \/ client' = [client EXCEPT ![c].pc = "write", ![c].got = row[p]]
    BY <1>5 DEF Insert
  <2> HIDE DEF new
  <2>5. row[p] \in Row \cup {None, Absent}
    BY <1>a, <2>1
  <2>6. \/ row'[p] = new /\ client'[c].got = new
        \/ client'[c].got = row[p]
    <3>1. ASSUME NEW r \in Row \cup {None, Absent},
                 client' = [client EXCEPT ![c].pc = "write", ![c].got = r]
          PROVE  client'[c].got = r
      BY <1>a, <3>1, GotEffect DEF Places
    <3>2. row' = [row EXCEPT ![p] = new] => row'[p] = new
      BY <1>a, <2>1
    <3> QED BY <2>3, <2>4, <2>5, <3>1, <3>2
  <2> QED BY <2>1, <2>6
<1>6. CASE Check(c)
  <2>1. CASE client' = [client EXCEPT ![c].pc = "fetch", ![c].want = client[c].dlq,
                                      ![c].second = TRUE]
    BY <1>a, <2>1 DEF ClientType, Requests
  <2>2. CASE Goto(c, Then[client[c].op])
    <3>1. client[c].op \in {"create", "update", "delete", "enqueue"}
      BY <1>6, <1>a DEF Check, At, Sound, Requests
    <3>2. Then[client[c].op] \in Places
      BY <3>1 DEF Then, Places
    <3> QED BY <1>2, <2>2, <3>2
  <2> QED BY <1>1, <1>6, <2>1, <2>2 DEF Check
<1>7. CASE Fill(c) \/ Set(c) \/ Users(c) \/ Mark(c) \/ Evict(c) \/ Drop(c) \/ FreeName(c)
  <2>1. Done(c) \/ \E pc \in Places : Goto(c, pc)
    BY <1>7 DEF Fill, Set, Users, Mark, Evict, Drop, FreeName, Places
  <2> QED BY <1>1, <1>2, <2>1
<1> QED
  BY <1>1, <1>3, <1>4, <1>5, <1>6, <1>7 DEF Step, Write, Clear, Send

LEMMA NextOneRow ==
  ASSUME TypeInv, CreationsCounted, OneRowEach, [Next]_vars
  PROVE  OneRowEach'
<1>1. ASSUME ids' = ids, row' = row, cache' = cache \/ (\E h \in Gateways, p \in Queues : Expire(h, p)),
             data' = data, \A c \in Clients : client'[c].got \in {client[c].got, Absent}
      PROVE  OneRowEach'
  <2>1. ASSUME NEW g \in Gateways, NEW q \in Queues PROVE cache'[g][q] \in {cache[g][q], Absent}
    BY <1>1 DEF Expire, TypeInv
  <2> QED BY <1>1, <2>1 DEF OneRowEach, Created
<1>2. ASSUME NEW c \in Clients, Ask(c) PROVE OneRowEach'
  <2>1. \A d \in Clients : client'[d].got \in {client[d].got, Absent}
    BY <1>2, AskEffect DEF TypeInv
  <2> QED BY <1>1, <1>2, <2>1 DEF Ask
<1>3. ASSUME NEW g \in Gateways, NEW q \in Queues, Expire(g, q) PROVE OneRowEach'
  BY <1>1, <1>3 DEF Expire
<1>4. CASE UNCHANGED vars
  BY <1>1, <1>4 DEF vars
<1>5. ASSUME NEW c \in Clients, Step(c) PROVE OneRowEach'
  <2>1. ids \in Nat /\ ids' \in {ids, ids + 1}
    BY <1>5, IdsStep DEF TypeInv
  <2>2. ASSUME NEW r, Created(r) PROVE r \in {None, Absent} \/ r.id \in 1..ids'
    BY <2>1, <2>2 DEF Created
  <2>3. ASSUME NEW q \in Queues PROVE row'[q] \in {None, Absent} \/ row'[q].id \in 1..ids'
    <3>1. Created(row[q]) /\ row[q] # Absent
      BY AdminAssumption DEF OneRowEach, TypeInv
    <3>2. row[q] # None => row[q].id \in 1..ids'
      BY <2>2, <3>1
    <3>3. ids + 1 = ids' => ids + 1 \in 1..ids'
      BY <2>1
    <3> QED BY <1>5, <2>2, <3>1, <3>2, <3>3, RowStep
  <2>4. ASSUME NEW g \in Gateways, NEW q \in Queues
        PROVE  cache'[g][q] \in {None, Absent} \/ cache'[g][q].id \in 1..ids'
    <3>1. Created(cache[g][q]) /\ Created(client[c].got)
      BY DEF OneRowEach
    <3> QED BY <1>5, <2>2, <3>1, CacheStep
  <2>5. ASSUME NEW d \in Clients
        PROVE  client'[d].got \in {None, Absent} \/ client'[d].got.id \in 1..ids'
    <3>1. CASE d # c
      BY <1>5, <2>2, <3>1, StepMoves DEF OneRowEach
    <3>2. CASE d = c
      BY <1>5, <2>2, <2>3, <3>2, GotStep DEF OneRowEach
    <3> QED BY <3>1, <3>2
  <2>6. ASSUME NEW p \in Queues, NEW q \in Queues, row'[p] # None, row'[q] # None,
               row'[p].id = row'[q].id
        PROVE  p = q
    <3> DEFINE New(t) == row'[t].id = ids + 1 /\ client[c].q = t
               Old(t) == row[t] # None /\ row'[t].id = row[t].id
    <3>1. ASSUME NEW t \in Queues, row'[t] # None PROVE New(t) \/ Old(t)
      BY <1>5, <3>1, RowStep
    <3>2. ASSUME NEW t \in Queues, row[t] # None PROVE row[t].id \in 1..ids
      <4>1. row[t] # Absent
        BY AdminAssumption DEF TypeInv
      <4> QED BY <3>2, <4>1 DEF OneRowEach, Created
    <3>3. Old(p) /\ Old(q) => p = q
      BY <2>6 DEF OneRowEach
    <3>4. New(p) /\ New(q) => p = q
      OBVIOUS
    <3>5. ASSUME NEW t \in Queues, NEW u \in Queues, New(t), Old(u) PROVE row'[t].id # row'[u].id
      BY <2>1, <3>2, <3>5
    <3> HIDE DEF New, Old
    <3> QED BY <2>6, <3>1, <3>3, <3>4, <3>5
  <2>7. data' \in [Nodes -> [Queues -> SUBSET (1..ids')]]
    <3>0. data \in [Nodes -> [Queues -> SUBSET (1..ids)]]
      BY DEF OneRowEach
    <3>1. data \in [Nodes -> [Queues -> SUBSET (1..ids')]]
      <4>1. 1..ids \subseteq 1..ids'
        BY <2>1
      <4> QED BY <3>0, <4>1
    <3>2. CASE data' = data
      BY <3>1, <3>2
    <3>3. CASE Drop(c)
      BY <3>1, <3>3 DEF Drop, Dropped
    <3>4. CASE Send(c)
      <4> DEFINE q  == client[c].q
                 id == IF row[q] = None THEN client[c].got.id ELSE row[q].id
      <4>1. q \in Queues /\ Usable(client[c].got) /\ client[c].got # Absent
        BY <3>4 DEF Send, At, TypeInv, ClientType, Sound
      <4>2. row[q] # Absent
        BY <4>1, AdminAssumption DEF TypeInv
      <4>3. id \in 1..ids'
        BY <2>2, <4>1, <4>2 DEF OneRowEach, Usable, Created
      <4>4. PICK n \in Range(Homes[q]) : data' = [data EXCEPT ![n][q] = @ \cup {id}]
        BY <3>4 DEF Send
      <4> HIDE DEF id, q
      <4> QED BY <3>1, <4>1, <4>3, <4>4
    <3> QED
      BY <1>5, <3>2, <3>3, <3>4
         DEF Step, Hit, Read, Fill, Check, Insert, Write, Set, Users, Mark, Evict, FreeName, Clear
  <2> QED BY <2>3, <2>4, <2>5, <2>6, <2>7 DEF OneRowEach, Created
<1> QED BY <1>2, <1>3, <1>4, <1>5 DEF Next

-----------------------------------------------------------------------------
(* Dead-letter queues *)

(* A queue is in raced when the queue it names may go. *)
LEMMA NextUnused ==
  ASSUME TypeInv, CreationsCounted, OneRowEach, DeletedUnused, DeadLettersHaveAPlace, [Next]_vars
  PROVE  DeletedUnused' /\ DeadLettersHaveAPlace'
<1>1. ASSUME row' = row, raced' = raced, \A d \in Queues : Deleting(d)' => Deleting(d)
      PROVE  DeletedUnused' /\ DeadLettersHaveAPlace'
  <2>1. DeletedUnused'
    BY <1>1 DEF DeletedUnused
  <2>2. DeadLettersHaveAPlace'
    BY <1>1 DEF DeadLettersHaveAPlace, Usable
  <2> QED BY <2>1, <2>2
<1>2. ASSUME NEW c \in Clients, Ask(c) PROVE DeletedUnused' /\ DeadLettersHaveAPlace'
  <2>1. \A d \in Queues : Deleting(d)' => Deleting(d)
    BY <1>2, AskEffect DEF Deleting, TypeInv
  <2> QED BY <1>1, <1>2, <2>1 DEF Ask
<1>3. CASE (\E g \in Gateways, q \in Queues : Expire(g, q)) \/ UNCHANGED vars
  <2>1. row' = row /\ raced' = raced /\ client' = client
    BY <1>3 DEF Expire, vars
  <2>2. \A d \in Queues : Deleting(d)' => Deleting(d)
    BY <2>1 DEF Deleting
  <2> QED BY <1>1, <2>1, <2>2
<1>4. ASSUME NEW c \in Clients, Step(c) PROVE DeletedUnused' /\ DeadLettersHaveAPlace'
  <2> DEFINE s == client[c].q
             d == client[c].dlq
             Raced == d # None /\ (~Usable(row[d]) \/ Deleting(d))
  <2>a. row \in [Queues -> Row \cup {None}] /\ d \in Queues \cup {None}
    BY DEF TypeInv, ClientType, Requests
  <2>b. ASSUME NEW q \in Queues, row[q] # None PROVE row[q].dlq \in Queues \cup {None}
    BY <2>a, <2>b DEF Row
  <2>c. ASSUME NEW q \in Queues, q # s \/ raced' = raced PROVE q \in raced' <=> q \in raced
    BY <1>4, <2>c DEF Step, Hit, Read, Fill, Check, Insert, Write, Set, Users, Mark, Evict,
                      Drop, FreeName, Clear, Send, Names
  <2>d. Names(c) => (s \in raced' <=> Raced)
    BY DEF Names
  <2>e. Mark(c) \/ FreeName(c) => Deleting(s)
    <3>1. Mark(c) \/ FreeName(c) => client[c].pc \in {"mark", "remove"} /\ client[c].op = "delete"
      BY DEF Mark, FreeName, At, TypeInv, ClientType, Sound
    <3> QED BY <3>1 DEF Deleting
  <2>f. ASSUME NEW q \in Queues, Deleting(q)', ~Deleting(q)
        PROVE  Users(c) /\ s = q /\ UsersOf(q) = {}
    <3>1. client[c].pc = "users" /\ client'[c].pc = "mark" /\ s = q
      BY <1>4, <2>f, StepDeletes
    <3>2. Users(c)
      BY <1>4, <3>1 DEF Step, Hit, Read, Fill, Check, Insert, Write, Set, Mark, Evict, Drop,
                        FreeName, Clear, Send, At
    <3>3. ~Done(c)
      BY <3>1, DoneEffect, IdleRequest DEF TypeInv
    <3> QED BY <3>1, <3>2, <3>3 DEF Users
  <2>g. /\ Insert(c) => client[c].pc = "insert"
        /\ Set(c) => client[c].pc = "set"
        /\ Users(c) => client[c].pc = "users" /\ row' = row /\ raced' = raced
        /\ Mark(c) => client[c].pc = "mark" /\ raced' = raced
        /\ FreeName(c) => client[c].pc = "remove"
    BY DEF Insert, Set, Users, Mark, FreeName, At
  (* A row that names what it named before. *)
  <2> DEFINE Same(q) == /\ row[q] # None /\ row'[q].dlq = row[q].dlq
                        /\ q \in raced' <=> q \in raced
             Named(q) == /\ Insert(c) \/ Set(c)
                         /\ s = q /\ row'[q].dlq = d /\ Names(c)
  <2>h. ASSUME NEW q \in Queues, row'[q] # None PROVE Same(q) \/ Named(q)
    <3>1. CASE row'[q] = row[q] /\ (q # s \/ raced' = raced)
      BY <2>c, <2>h, <3>1
    <3>2. CASE ~(row'[q] = row[q] /\ (q # s \/ raced' = raced))
      <4>1. \/ s = q /\ row'[q].dlq = d /\ Names(c) /\ (Insert(c) \/ Set(c))
            \/ Mark(c) /\ row[q] # None /\ row'[q].dlq = row[q].dlq
        BY <1>4, <2>h, <3>2, RowStep
      <4> QED BY <2>c, <2>g, <4>1
    <3> QED BY <3>1, <3>2
  <2>1. ASSUME NEW p \in Queues, NEW q \in Queues, Deleting(q)', p # q, row'[p] # None,
               row'[p].dlq = q
        PROVE  p \in raced'
    <3>1. CASE Same(p)
      <4>1. Deleting(q) => p \in raced
        BY <2>1, <3>1 DEF DeletedUnused
      <4>2. ~Deleting(q) => p \in UsersOf(q) /\ UsersOf(q) = {}
        BY <2>1, <2>f, <3>1 DEF UsersOf, ListByOrg
      <4> QED BY <3>1, <4>1, <4>2
    <3>2. CASE Named(p)
      <4>1. Deleting(q)
        BY <2>1, <2>f, <2>g, <3>2
      <4>2. d = q /\ q # None
        BY <2>1, <3>2, AdminAssumption
      <4> QED BY <2>d, <3>2, <4>1, <4>2
    <3> QED BY <2>1, <2>h, <3>1, <3>2
  <2>2. ASSUME NEW q \in Queues, row'[q] # None, q \notin raced'
        PROVE  row'[q].dlq \in {None, q} \/ Usable(row'[row'[q].dlq])
    <3>1. CASE Same(q) /\ row[q].dlq \notin {None, q}
      <4> DEFINE t == row[q].dlq
      <4>1. t \in Queues /\ t # q /\ Usable(row[t]) /\ q \notin raced
        BY <2>2, <2>b, <3>1 DEF DeadLettersHaveAPlace
      <4>2. ~Deleting(t)
        BY <3>1, <4>1 DEF DeletedUnused
      <4>3. ~((Mark(c) \/ FreeName(c)) /\ s = t)
        BY <2>e, <4>2
      <4>4. row'[t] = row[t] \/ (row'[t] # None /\ row'[t].deleting = row[t].deleting)
        BY <1>4, <4>1, <4>3, RowStep DEF Usable
      <4> QED BY <3>1, <4>1, <4>4 DEF Usable
    <3>2. CASE Named(q) /\ d \notin {None, q}
      <4>1. d \in Queues /\ Usable(row[d])
        BY <2>2, <2>a, <2>d, <3>2
      <4>2. row'[d] = row[d]
        BY <1>4, <3>2, <4>1, RowStep
      <4> QED BY <3>2, <4>1, <4>2
    <3> QED BY <2>2, <2>h, <3>1, <3>2
  <2>3. DeletedUnused'
    BY <2>1 DEF DeletedUnused
  <2>4. DeadLettersHaveAPlace'
    BY <2>2 DEF DeadLettersHaveAPlace, Usable
  <2> QED BY <2>3, <2>4
<1> QED BY <1>2, <1>3, <1>4 DEF Next

-----------------------------------------------------------------------------
(* What a name leaves behind *)

LEMMA KeptIs ==
  ASSUME OneRowEach, NEW q \in Queues, NEW n \in Nodes, NEW i \in data[n][q]
  PROVE  <<n, q, i>> \in Kept(q)
BY DEF OneRowEach, Kept

(* What a node has after a step it had before, or was just sent; and what  *)
(* was sent is of the queue that has the name, or left to the next.        *)
LEMMA DataStep ==
  ASSUME TypeInv, OneRowEach, NEW c \in Clients, Step(c), NEW q \in Queues, NEW n \in Nodes,
         NEW i \in data'[n][q]
  PROVE  \/ i \in data[n][q] /\ ~(Drop(c) /\ client[c].q = q)
         \/ Send(c) /\ row' = row /\ Usable(row[q]) /\ i = row[q].id
         \/ <<n, q, i>> \in left'
<1>a. data \in [Nodes -> [Queues -> SUBSET (1..ids)]]
  BY DEF OneRowEach
<1>1. CASE Drop(c)
  <2> DEFINE s == client[c].q
             h == Head(Homes[s])
  <2>1. \/ data' = Dropped(h, s) /\ left' = left \cup {t \in Kept(s) : t[1] # h}
        \/ data' = data /\ left' = left \cup Kept(s)
    BY <1>1 DEF Drop
  <2> HIDE DEF h
  <2>2. i \in data[n][q]
    BY <1>a, <2>1 DEF Dropped
  <2>3. s = q => <<n, q, i>> \in left'
    <3>1. <<n, q, i>> \in Kept(q) /\ <<n, q, i>>[1] = n
      BY <2>2, KeptIs
    <3>2. CASE data' = Dropped(h, s) /\ s = q
      <4>1. n # h
        BY <1>a, <3>2 DEF Dropped
      <4> QED BY <2>1, <3>1, <3>2, <4>1
    <3> QED BY <2>1, <3>1, <3>2
  <2> QED BY <2>2, <2>3
<1>2. CASE Send(c)
  <2> DEFINE s  == client[c].q
             id == IF row[s] = None THEN client[c].got.id ELSE row[s].id
  <2>1. PICK m \in Range(Homes[s]) :
          /\ data' = [data EXCEPT ![m][s] = @ \cup {id}]
          /\ left' = IF Usable(row[s]) THEN left ELSE left \cup {<<m, s, id>>}
    BY <1>2 DEF Send
  <2>2. row' = row /\ ~Drop(c)
    BY <1>2 DEF Send, Drop, At
  <2> HIDE DEF id
  <2>3. i \in data[n][q] \/ (n = m /\ q = s /\ i = id)
    BY <1>a, <2>1
  <2>4. Usable(row[s]) => id = row[s].id
    BY DEF id, Usable
  <2> QED BY <1>2, <2>1, <2>2, <2>3, <2>4
<1>3. CASE data' = data /\ ~Drop(c)
  BY <1>3
<1> QED
  BY <1>1, <1>2, <1>3
     DEF Step, Hit, Read, Fill, Check, Insert, Write, Set, Users, Mark, Evict, FreeName, Clear,
         Drop, At

LEMMA NextOld ==
  ASSUME TypeInv, CreationsCounted, OneRowEach, OldIsLeft, [Next]_vars
  PROVE  OldIsLeft'
<1>1. ASSUME row' = row, data' = data, left' = left,
             \A q \in Queues : ToDrop(q) => ToDrop(q)',
             \A b \in Clients : client'[b].pc = "remove" =>
                client[b].pc = "remove" /\ client[b].q = client'[b].q
      PROVE  OldIsLeft'
  BY <1>1 DEF OldIsLeft, AllLeft, Usable
<1>2. ASSUME NEW c \in Clients, Ask(c) PROVE OldIsLeft'
  <2>1. /\ \A d \in Clients \ {c} : client'[d] = client[d]
        /\ client[c].pc = "idle" /\ client'[c].pc \in {"insert", "fetch"}
    BY <1>2, AskEffect DEF TypeInv
  <2>2. \A q \in Queues : ToDrop(q) => ToDrop(q)'
    BY <2>1 DEF ToDrop
  <2> QED BY <1>1, <1>2, <2>1, <2>2 DEF Ask
<1>3. CASE (\E g \in Gateways, q \in Queues : Expire(g, q)) \/ UNCHANGED vars
  <2>1. row' = row /\ data' = data /\ left' = left /\ client' = client
    BY <1>3 DEF Expire, vars
  <2>2. \A q \in Queues : ToDrop(q) => ToDrop(q)'
    BY <2>1 DEF ToDrop
  <2> QED BY <1>1, <2>1, <2>2
<1>4. ASSUME NEW c \in Clients, Step(c) PROVE OldIsLeft'
  <2>a. left \subseteq left'
    BY <1>4 DEF Step, Hit, Read, Fill, Check, Insert, Write, Set, Users, Mark, Evict, Drop,
                FreeName, Clear, Send
  <2>b. ASSUME NEW q \in Queues, ToDrop(q) PROVE ToDrop(q)' \/ (Drop(c) /\ client[c].q = q)
    <3>1. client[c].pc = "drop" => Drop(c)
      BY <1>4 DEF Step, Hit, Read, Fill, Check, Insert, Write, Set, Users, Mark, Evict,
                  FreeName, Clear, Send, At
    <3> QED BY <1>4, <2>b, <3>1, StepDeletes
  <2> DEFINE Left(q) == \A n \in Nodes : \A i \in data'[n][q] : <<n, q, i>> \in left'
  <2>c. ASSUME NEW q \in Queues, Drop(c), client[c].q = q PROVE Left(q)
    <3>1. ~Send(c)
      BY <2>c DEF Drop, Send, At
    <3> QED BY <1>4, <2>c, <3>1, DataStep
  <2>1. ASSUME NEW q \in Queues, NEW n \in Nodes, NEW i \in data'[n][q]
        PROVE  <<n, q, i>> \in left' \/ (row'[q] # None /\ i = row'[q].id) \/ ToDrop(q)'
    <3>1. CASE Send(c) /\ row' = row /\ Usable(row[q]) /\ i = row[q].id
      BY <3>1 DEF Usable
    <3>2. CASE i \in data[n][q] /\ ~(Drop(c) /\ client[c].q = q)
      <4>1. CASE <<n, q, i>> \in left
        BY <2>a, <4>1
      <4>2. CASE ToDrop(q)
        BY <2>b, <3>2, <4>2
      <4>3. CASE row[q] # None /\ i = row[q].id
        <5>1. CASE FreeName(c) /\ client[c].q = q
          <6>1. CASE Usable(row[q])
            BY <3>2, <5>1, <6>1, KeptIs DEF FreeName
          <6>2. CASE ~Usable(row[q])
            <7>1. AllLeft(q) \/ ToDrop(q)
              BY <5>1, <6>2 DEF FreeName, At, OldIsLeft
            <7> QED BY <2>a, <2>b, <3>2, <7>1 DEF AllLeft
          <6> QED BY <6>1, <6>2
        <5>2. CASE ~(FreeName(c) /\ client[c].q = q)
          BY <1>4, <4>3, <5>2, RowStep
        <5> QED BY <5>1, <5>2
      <4> QED BY <3>2, <4>1, <4>2, <4>3 DEF OldIsLeft
    <3> QED BY <1>4, <3>1, <3>2, DataStep
  <2>2. ASSUME NEW q \in Queues, NEW b \in Clients, client'[b].pc = "remove", client'[b].q = q,
               ~Usable(row'[q])
        PROVE  Left(q) \/ ToDrop(q)'
    <3>1. CASE client[c].pc = "drop" /\ client[c].q = q
      <4>1. Drop(c)
        BY <1>4, <3>1 DEF Step, Hit, Read, Fill, Check, Insert, Write, Set, Users, Mark, Evict,
                          FreeName, Clear, Send, At
      <4> QED BY <2>c, <3>1, <4>1
    <3>2. CASE ~(client[c].pc = "drop" /\ client[c].q = q)
      <4>1. client[b].pc = "remove" /\ client[b].q = q
        BY <1>4, <2>2, <3>2, StepDeletes
      <4>2. CASE ~Usable(row[q])
        <5>1. AllLeft(q) \/ ToDrop(q)
          BY <4>1, <4>2 DEF OldIsLeft
        <5>2. ToDrop(q) => ToDrop(q)' \/ Left(q)
          BY <2>b, <2>c
        <5>3. AllLeft(q) => Left(q)
          <6> SUFFICES ASSUME AllLeft(q), NEW n \in Nodes, NEW i \in data'[n][q]
                       PROVE  <<n, q, i>> \in left'
            OBVIOUS
          <6> QED BY <1>4, <2>a, <4>2, DataStep DEF AllLeft
        <5> QED BY <5>1, <5>2, <5>3
      <4>3. CASE Usable(row[q])
        <5>1. (FreeName(c) \/ Mark(c)) /\ client[c].q = q
          BY <1>4, <2>2, <4>3, RowStep DEF Usable
        <5>2. CASE FreeName(c)
          <6>1. data' = data /\ left' = left \cup Kept(q)
            BY <4>3, <5>1, <5>2 DEF FreeName
          <6> QED BY <6>1, KeptIs
        <5>3. CASE Mark(c)
          <6>1. client'[c].pc = "evict" /\ client'[c].q = q
            BY <5>1, <5>3, GotoEffect DEF Mark, TypeInv, Places
          <6> QED BY <6>1 DEF ToDrop
        <5> QED BY <5>1, <5>2, <5>3
      <4> QED BY <4>2, <4>3
    <3> QED BY <3>1, <3>2
  <2> HIDE DEF Left
  <2> SUFFICES ASSUME NEW q \in Queues
               PROVE  /\ \A n \in Nodes : \A i \in data'[n][q] :
                           \/ <<n, q, i>> \in left'
                           \/ row'[q] # None /\ i = row'[q].id
                           \/ ToDrop(q)'
                      /\ \A b \in Clients :
                           client'[b].pc = "remove" /\ client'[b].q = q /\ ~Usable(row'[q])
                             => Left(q) \/ ToDrop(q)'
    BY DEF OldIsLeft, AllLeft, Usable, Left
  <2> QED BY <2>1, <2>2
<1> QED BY <1>2, <1>3, <1>4 DEF Next

-----------------------------------------------------------------------------
(* The theorems *)

LEMMA InitInv == Init => IInv
<1> SUFFICES ASSUME Init PROVE IInv
  OBVIOUS
<1>1. TypeInv
  BY InitType
<1>2. ids = 0 /\ ops = 0 /\ \A c \in Clients : client[c] = Idle
  BY DEF Init
<1>3. Creating = {} /\ \A q \in Queues : ~Deleting(q)
  BY <1>2, IdleRequest DEF Creating, Deleting
<1>4. CreationsCounted
  BY <1>2, <1>3, FS_EmptySet DEF CreationsCounted
<1>5. OneRowEach
  BY <1>2, IdleRequest DEF Init, OneRowEach, Created
<1>6. DeletedUnused /\ DeadLettersHaveAPlace
  BY <1>3 DEF Init, DeletedUnused, DeadLettersHaveAPlace
<1>7. OldIsLeft
  BY <1>2, IdleRequest DEF Init, OldIsLeft
<1> QED BY <1>1, <1>4, <1>5, <1>6, <1>7 DEF IInv

LEMMA NextInv == IInv /\ [Next]_vars => IInv'
BY NextType, NextCounted, NextOneRow, NextUnused, NextOld DEF IInv

LEMMA TypeFollows == IInv => TypeOK
<1> SUFFICES ASSUME IInv PROVE TypeOK
  OBVIOUS
<1>1. TypeInv /\ OneRowEach /\ CreationsCounted
  BY DEF IInv
<1>2. ASSUME NEW c \in Clients
      PROVE  /\ DOMAIN client[c] = DOMAIN Idle
             /\ client[c].pc = "send" => Usable(client[c].got)
             /\ client[c].pc = "fill" => client[c].got # Absent
  BY <1>1 DEF TypeInv, ClientType, Requests, Sound, Idle
<1>3. ids \in 0..MaxOps
  <2>1. Cardinality(Creating) \in Nat
    BY <1>1, FS_CardinalityType DEF CreationsCounted
  <2> QED BY <1>1, <2>1, AdminAssumption DEF CreationsCounted, TypeInv
<1>4. \A p, q \in Queues : Usable(row[p]) /\ Usable(row[q]) /\ row[p].id = row[q].id => p = q
  BY <1>1 DEF OneRowEach, Usable
<1> QED BY <1>1, <1>2, <1>3, <1>4 DEF TypeOK, TypeInv, OneRowEach

(* A delete that is past the users of q and has not dropped it is in time  *)
(* for whoever takes the name next.                                        *)
LEMMA EmptyFollows == IInv => NewNameIsEmpty
<1> SUFFICES ASSUME IInv, NEW n \in Nodes, NEW q \in Queues, Usable(row[q]), ~Deleting(q),
                    NEW i \in data[n][q]
             PROVE  i = row[q].id \/ <<n, q, i>> \in left
  BY DEF NewNameIsEmpty
<1>1. ~ToDrop(q)
  BY DEF ToDrop, Deleting, IInv, TypeInv, ClientType, Sound
<1> QED BY <1>1 DEF IInv, OldIsLeft

LEMMA Invariant == Spec => []IInv
BY InitInv, NextInv, PTL DEF Spec

(* What every part of the state is, that no two queues have the same       *)
(* creation, and that a request goes on only with what it has found.       *)
THEOREM TypeCorrect == Spec => []TypeOK
BY Invariant, TypeFollows, PTL

(* DeleteQueue counts the users before it marks the row, and creates and   *)
(* updates look at the queue they name before they write: a queue that     *)
(* failures go to stays, but for the requests that crossed.                *)
THEOREM UsersKeepTheirPlace == Spec => []DeadLettersHaveAPlace
<1>1. IInv => DeadLettersHaveAPlace
  BY DEF IInv
<1> QED BY <1>1, Invariant, PTL

(* A queue that gets a name finds none of the messages of those that had   *)
(* it before, but the ones the code is known to leave behind.              *)
THEOREM NamesStartEmpty == Spec => []NewNameIsEmpty
BY Invariant, EmptyFollows, PTL
=============================================================================
