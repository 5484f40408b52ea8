------------------------------- MODULE Admin --------------------------------
(***************************************************************************)
(* The life of a queue's name: creating, changing and deleting queues      *)
(* (backend/gateway/logic/queue-admin-logic.go, queue-settings-logic.go)   *)
(* at several gateways, each with a cache of the queues' rows              *)
(* (cache-logic.go, config-cache-logic.go), beside producers whose         *)
(* requests a node carries out for any queue it is told of                 *)
(* (queue/logic/queue-manager-logic.go).                                   *)
(*                                                                         *)
(* What a node has is the set of queues, told apart by their creation,     *)
(* that messages under a name were accepted for.  Owners do not change     *)
(* here (Handoff, Membership).                                             *)
(***************************************************************************)
EXTENDS Naturals, Sequences, Functions

CONSTANTS
  Queues,     \* names
  Nodes,
  Homes,      \* Homes[q]: the owners of q's slots, of slot 0 first
  Gateways,
  Clients,    \* requests in progress
  None,       \* no row; no dead-letter queue
  Absent,     \* nothing in the cache
  MaxOps,     \* bound: requests
  MaxFaults   \* bound: calls that fail

Row == [id: 1..MaxOps, dlq: Queues \cup {None}, deleting: BOOLEAN]

ASSUME AdminAssumption ==
  /\ Homes \in [Queues -> Seq(Nodes) \ {<<>>}]
  /\ None # Absent /\ {None, Absent} \cap Queues = {} /\ {None, Absent} \cap Row = {}
  /\ MaxOps \in Nat /\ MaxFaults \in Nat

VARIABLES
  row,     \* row[q] in the queues table
  cache,   \* cache[g][q]: a row, None for one that was not found, or Absent
  client,  \* client[c]: the request c is at
  data,    \* data[n][q]: the queues of that name n holds messages of
  ids, ops, faults,
  raced,   \* history: queues whose dead-letter queue was being deleted when they named it
  left     \* history: messages the code leaves to the next queue of the name

vars == <<row, cache, client, data, ids, ops, faults, raced, left>>

(* A request: where it is, and what it wants to know of which queue.       *)
Idle == [pc |-> "idle", op |-> "none", g |-> None, q |-> None, dlq |-> None,
         want |-> None, got |-> Absent, second |-> FALSE]

Init ==
  /\ row = [q \in Queues |-> None]
  /\ cache = [g \in Gateways |-> [q \in Queues |-> Absent]]
  /\ client = [c \in Clients |-> Idle]
  /\ data = [n \in Nodes |-> [q \in Queues |-> {}]]
  /\ ids = 0 /\ ops = 0 /\ faults = 0
  /\ raced = {} /\ left = {}

Usable(r)    == r # None /\ ~r.deleting
At(c, pc)    == client[c].pc = pc
Goto(c, pc)  == client' = [client EXCEPT ![c].pc = pc]
Done(c)      == client' = [client EXCEPT ![c] = Idle]
EvictAt(c)   == cache' = [cache EXCEPT ![client[c].g][client[c].q] = Absent]
Kept(q)      == {t \in Nodes \X {q} \X (1..ids) : t[3] \in data[t[1]][q]}

(* A delete that has counted the users of d and is not through.            *)
Deleting(d) ==
  \E c \in Clients : /\ client[c].op = "delete" /\ client[c].q = d
                     /\ client[c].pc \in {"mark", "evict", "drop", "remove"}

Ask(c) ==
  /\ At(c, "idle") /\ ops < MaxOps
  /\ ops' = ops + 1
  /\ \E g \in Gateways, q \in Queues, op \in {"create", "update", "delete", "enqueue"},
        dlq \in Queues \cup {None} :
       /\ op \in {"delete", "enqueue"} => dlq = None
       /\ client' = [client EXCEPT ![c] =
            [Idle EXCEPT !.pc = IF op = "create" /\ dlq = None THEN "insert" ELSE "fetch",
                         !.op = op, !.g = g, !.q = q, !.dlq = dlq,
                         !.want = IF op = "create" THEN dlq ELSE q]]
  /\ UNCHANGED <<row, cache, data, ids, faults, raced, left>>

-----------------------------------------------------------------------------
(* config, through the cache.  An eviction may come between the read and   *)
(* the fill.                                                               *)

Hit(c) ==
  LET e == cache[client[c].g][client[c].want] IN
  /\ At(c, "fetch") /\ e # Absent
  /\ client' = [client EXCEPT ![c].got = e, ![c].pc = "have"]
  /\ UNCHANGED <<row, cache, data, ids, ops, faults, raced, left>>

Read(c) ==
  /\ At(c, "fetch") /\ cache[client[c].g][client[c].want] = Absent
  /\ client' = [client EXCEPT ![c].got = row[client[c].want], ![c].pc = "fill"]
  /\ UNCHANGED <<row, cache, data, ids, ops, faults, raced, left>>

Fill(c) ==
  /\ At(c, "fill")
  /\ cache' = [cache EXCEPT ![client[c].g][client[c].want] = client[c].got]
  /\ Goto(c, "have")
  /\ UNCHANGED <<row, data, ids, ops, faults, raced, left>>

(* The entry's time is up, or the cache makes room.                        *)
Expire(g, q) ==
  /\ cache[g][q] # Absent
  /\ cache' = [cache EXCEPT ![g][q] = Absent]
  /\ UNCHANGED <<row, client, data, ids, ops, faults, raced, left>>

(* Mutant of Suits: it does not matter that the queue is being deleted. *)
SuitsIfFound(r) == r.got # None

(* A delete goes on with a queue that is being deleted, and an update may  *)
(* name one for its dead letters.                                          *)
Suits(r) == IF r.op = "delete" \/ r.second THEN r.got # None ELSE Usable(r.got)

Then == [create |-> "insert", update |-> "set", delete |-> "users", enqueue |-> "send"]

(* What was found decides how the request goes on.  An update that names   *)
(* another dead-letter queue has that one to look up, too.                 *)
Check(c) ==
  LET r == client[c] IN
  /\ At(c, "have")
  /\ IF ~Suits(r) THEN Done(c)
     ELSE IF r.op = "update" /\ ~r.second /\ r.dlq \notin {None, r.got.dlq}
     THEN client' = [client EXCEPT ![c].pc = "fetch", ![c].want = r.dlq, ![c].second = TRUE]
     ELSE Goto(c, Then[r.op])
  /\ UNCHANGED <<row, cache, data, ids, ops, faults, raced, left>>

-----------------------------------------------------------------------------
(* CreateQueue and UpdateQueue.                                            *)

Names(c) ==
  LET q == client[c].q  d == client[c].dlq IN
  raced' = IF d # None /\ (~Usable(row[d]) \/ Deleting(d)) THEN raced \cup {q}
           ELSE raced \ {q}

(* The primary key lets one create win.  The others get what there is, if  *)
(* it is what they asked for.                                              *)
Insert(c) ==
  LET q   == client[c].q
      new == [id |-> ids + 1, dlq |-> client[c].dlq, deleting |-> FALSE]
  IN
  /\ At(c, "insert")
  /\ \/ /\ row[q] = None
        /\ row' = [row EXCEPT ![q] = new]
        /\ ids' = ids + 1
        /\ Names(c)
        /\ client' = [client EXCEPT ![c].pc = "write", ![c].got = new]
     \/ /\ row[q] # None
        /\ IF row[q].dlq = client[c].dlq
           THEN client' = [client EXCEPT ![c].pc = "write", ![c].got = row[q]]
           ELSE Done(c)
        /\ UNCHANGED <<row, ids, raced>>
  /\ UNCHANGED <<cache, data, ops, faults, left>>

Write(c) ==
  /\ At(c, "write")
  /\ cache' = [cache EXCEPT ![client[c].g][client[c].q] = client[c].got]
  /\ Done(c)
  /\ UNCHANGED <<row, data, ids, ops, faults, raced, left>>

(* UpdateSettings leaves the state alone.  Only this gateway's cache hears *)
(* of it.                                                                  *)
Set(c) ==
  LET q == client[c].q IN
  /\ At(c, "set")
  /\ IF row[q] = None THEN Done(c) /\ UNCHANGED <<row, raced>>
     ELSE /\ row' = [row EXCEPT ![q].dlq = client[c].dlq]
          /\ Names(c)
          /\ Goto(c, "clear")
  /\ UNCHANGED <<cache, data, ids, ops, faults, left>>

-----------------------------------------------------------------------------
(* DeleteQueue.                                                            *)

(* Mutant of UsersOf: counted in the gateway's cache. *)
UsersOfCached(d) ==
  {q \in Queues \ {d} : \A g \in Gateways :
     cache[g][q] \notin {None, Absent} /\ cache[g][q].dlq = d}

ListByOrg == {q \in Queues : row[q] # None}

(* deadLetterUsers: of the rows.                                           *)
UsersOf(d) == {q \in ListByOrg \ {d} : row[q].dlq = d}

Users(c) ==
  /\ At(c, "users")
  /\ IF UsersOf(client[c].q) = {} THEN Goto(c, "mark") ELSE Done(c)
  /\ UNCHANGED <<row, cache, data, ids, ops, faults, raced, left>>

Mark(c) ==
  LET q == client[c].q IN
  /\ At(c, "mark")
  /\ row' = [row EXCEPT ![q] = IF row[q] = None THEN None ELSE [row[q] EXCEPT !.deleting = TRUE]]
  /\ Goto(c, "evict")
  /\ UNCHANGED <<cache, data, ids, ops, faults, raced, left>>

Evict(c) ==
  /\ At(c, "evict")
  /\ EvictAt(c)
  /\ Goto(c, "drop")
  /\ UNCHANGED <<row, data, ids, ops, faults, raced, left>>

(* Mutant of Dropped: the queue is closed and its files stay. *)
DroppedClosed(n, q) == data

Dropped(n, q) == [data EXCEPT ![n][q] = {}]

(* Drop is asked of the owner of slot 0 and of no other, and an error is   *)
(* not looked at.                                                          *)
Drop(c) ==
  LET q == client[c].q
      n == Head(Homes[q])
  IN
  /\ At(c, "drop")
  /\ \/ /\ data' = Dropped(n, q)
        /\ left' = left \cup {t \in Kept(q) : t[1] # n}
        /\ UNCHANGED faults
     \/ /\ faults < MaxFaults /\ faults' = faults + 1
        /\ left' = left \cup Kept(q)
        /\ UNCHANGED data
  /\ Goto(c, "remove")
  /\ UNCHANGED <<row, cache, ids, ops, raced>>

Delete(q) == row' = [row EXCEPT ![q] = None]

(* Unconditionally: another delete may have removed the row, and a create  *)
(* may have put a new one in its place.                                    *)
FreeName(c) ==
  LET q == client[c].q IN
  /\ At(c, "remove")
  /\ Delete(q)
  /\ raced' = raced \ {q}
  /\ left' = IF Usable(row[q]) THEN left \cup Kept(q) ELSE left
  /\ Goto(c, "clear")
  /\ UNCHANGED <<cache, data, ids, ops, faults>>

Clear(c) ==
  /\ At(c, "clear")
  /\ EvictAt(c)
  /\ Done(c)
  /\ UNCHANGED <<row, data, ids, ops, faults, raced, left>>

-----------------------------------------------------------------------------
(* Enqueue: the node makes the queue if it has not got it, whatever the    *)
(* table says by now.                                                      *)
Send(c) ==
  LET q  == client[c].q
      id == IF row[q] = None THEN client[c].got.id ELSE row[q].id
  IN
  /\ At(c, "send")
  /\ \E n \in Range(Homes[q]) :
       /\ data' = [data EXCEPT ![n][q] = @ \cup {id}]
       /\ left' = IF Usable(row[q]) THEN left ELSE left \cup {<<n, q, id>>}
  /\ Done(c)
  /\ UNCHANGED <<row, cache, ids, ops, faults, raced>>

Step(c) ==
  \/ Hit(c) \/ Read(c) \/ Fill(c) \/ Check(c)
  \/ Insert(c) \/ Write(c) \/ Set(c)
  \/ Users(c) \/ Mark(c) \/ Evict(c) \/ Drop(c) \/ FreeName(c) \/ Clear(c)
  \/ Send(c)

Next ==
  \/ \E c \in Clients : Ask(c) \/ Step(c)
  \/ \E g \in Gateways, q \in Queues : Expire(g, q)

Spec == Init /\ [][Next]_vars

-----------------------------------------------------------------------------
(* The variables keep their types, no two queues have the same creation,   *)
(* and nothing is sent for a queue that was not found.                     *)
TypeOK ==
  /\ row \in [Queues -> Row \cup {None}]
  /\ cache \in [Gateways -> [Queues -> Row \cup {None, Absent}]]
  /\ \A c \in Clients : /\ DOMAIN client[c] = DOMAIN Idle
                        /\ client[c].pc = "send" => Usable(client[c].got)
                        /\ client[c].pc = "fill" => client[c].got # Absent
  /\ data \in [Nodes -> [Queues -> SUBSET (1..ids)]]
  /\ \A p, q \in Queues : Usable(row[p]) /\ Usable(row[q]) /\ row[p].id = row[q].id => p = q
  /\ ids \in 0..MaxOps /\ ops \in 0..MaxOps /\ faults \in 0..MaxFaults
  /\ raced \subseteq Queues

(* A queue that failures are routed to is not deleted under its users,     *)
(* except those that named it while it was being deleted, or that a        *)
(* gateway let name it by what it had cached.                              *)
DeadLettersHaveAPlace ==
  \A q \in Queues : LET r == row[q] IN
    r # None /\ q \notin raced => (r.dlq \in {None, q} \/ Usable(row[r.dlq]))

(* A name starts empty when it is used again: no message of an earlier     *)
(* queue of that name comes back.  Except what the code does leave behind: *)
(* on a node that did not carry out Drop or was not asked to, and what was *)
(* enqueued by a gateway that had not heard of the delete.                 *)
NewNameIsEmpty ==
  \A n \in Nodes, q \in Queues :
    Usable(row[q]) /\ ~Deleting(q) =>
      \A i \in data[n][q] : i = row[q].id \/ <<n, q, i>> \in left
=============================================================================
