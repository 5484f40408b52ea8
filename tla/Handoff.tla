------------------------------ MODULE Handoff ------------------------------
(***************************************************************************)
(* The move of a queue (or of a slot of a distributed queue) from one node *)
(* to another: the rebalancer and the reconciler of every gateway          *)
(* (backend/gateway/logic/rebalance-logic.go, reconcile-logic.go), the row *)
(* in Postgres with its lock (repo/postgres/queues-table.go), the nodes'   *)
(* side (backend/queue/logic/migration-logic.go) and the requests that are *)
(* routed by a cached row meanwhile (routing-logic.go, placement-logic.go).*)
(*                                                                         *)
(* A call to a node is one step there.  Its answer may be lost, it may not *)
(* arrive, and it may be carried out after the gateway has given it up.    *)
(* What a node does with a message is in Slot and Engine, how its log      *)
(* stays in step in Wal; here a node holds copies and a log.               *)
(***************************************************************************)
EXTENDS Naturals, FiniteSets

CONSTANTS
  Nodes,
  Movers,       \* the gateways whose rebalancer runs,
  Reconcilers,  \* those whose reconciler runs,
  Routers,      \* and those that have requests: each gateway does all three
  Messages,
  None,       \* not a node
  Kinds,      \* FALSE: a normal queue, TRUE: a slot of a distributed one
  MaxMoves,   \* bound: moves that are planned
  MaxFaults   \* bound: calls that fail, and gateways and nodes that die

Gateways == Movers \cup Reconcilers \cup Routers

ASSUME HandoffAssumption ==
  /\ None \notin Nodes
  /\ Kinds \subseteq BOOLEAN
  /\ MaxMoves \in Nat /\ MaxFaults \in Nat

VARIABLES
  distributed, \* which kind of queue it is
  row,      \* its row: the owner, and the state; `lapsed' is migrating with
            \* the lease of the lock over
  view,     \* view[g]: the owner in the cache of gateway g, or None
  held,     \* held[n][m]: the copies of m in the memory of node n
  saved,    \* saved[n]: the messages the log of n brings back
  frozen,   \* frozen[n]: n holds the slots out of service
  up,       \* the nodes that run
  move,     \* move[g]: where the rebalancer of g is
  pass,     \* pass[g]: how far the reconciler of g is
  late,     \* calls that were given up and are still to be carried out
  moves,    \* how many moves were planned
  faults,   \* how many faults have happened
  fate,     \* history: what the callers know of a message
  risked    \* history: messages that a known race has put at risk

node    == <<held, saved, frozen, up>>
bounds  == <<moves, faults>>
history == <<fate, risked>>
vars == <<distributed, row, view, held, saved, frozen, up, move, pass, late, moves, faults,
          fate, risked>>

NoMove == [pc |-> "idle", from |-> None, to |-> None, copy |-> {}]
NoPass == [todo |-> Nodes, holds |-> {}, froze |-> {}, fixes |-> {}, overtaken |-> {}]

Init ==
  /\ distributed \in Kinds
  /\ \E n \in Nodes : row = [owner |-> n, state |-> "active"]
  /\ view = [g \in Routers |-> None]
  /\ held = [n \in Nodes |-> [m \in Messages |-> 0]]
  /\ saved = [n \in Nodes |-> {}]
  /\ frozen = [n \in Nodes |-> FALSE]
  /\ up = Nodes
  /\ move = [g \in Movers |-> NoMove]
  /\ pass = [g \in Reconcilers |-> NoPass]
  /\ late = {}
  /\ moves = 0 /\ faults = 0
  /\ fate = [m \in Messages |-> "new"]
  /\ risked = {}

Holding(n) == {m \in Messages : held[n][m] > 0}
MayFail == faults < MaxFaults /\ faults' = faults + 1

(* A mover that has taken its copy from n and has not let go of it.        *)
Copied(n) == \E g \in Movers : move[g].from = n /\ move[g].pc \in {"absorb", "record", "discard"}
Moving(g) == move[g].pc \notin {"idle", "lock"}

(* Gateway g drops its entry: at the end of a move, or when it dies.       *)
Evicted(g) == [h \in Routers |-> IF h = g THEN None ELSE view[h]]

-----------------------------------------------------------------------------
(* Requests.                                                               *)

(* A request that is not followed here reads the row into the cache.       *)
Look(g) ==
  /\ view[g] = None
  /\ view' = [view EXCEPT ![g] = row.owner]
  /\ UNCHANGED <<distributed, row, node, move, pass, late, bounds, history>>

(* The entry's lifetime ends.                                              *)
Forget(g) ==
  /\ view[g] # None
  /\ view' = [view EXCEPT ![g] = None]
  /\ UNCHANGED <<distributed, row, node, move, pass, late, bounds, history>>

(* The node a request of gateway g goes to: the cache names it, and a miss *)
(* reads the row.                                                          *)
Route(g) == IF view[g] = None THEN row.owner ELSE view[g]

(* The call to the node, which has the message in its log and in memory    *)
(* when it answers.                                                        *)
EnqueueAt(n, m) ==
  /\ held' = [held EXCEPT ![n][m] = 1]
  /\ saved' = [saved EXCEPT ![n] = @ \cup {m}]

(* A producer's message.  A frozen slot answers `moved' and the entry is   *)
(* evicted before the call is tried again; anyone else takes the message   *)
(* in - a node is not asked whether it owns the slot.                      *)
Send(g, m) ==
  LET n == Route(g)
  IN /\ n \in up /\ fate[m] = "new"
     /\ IF frozen[n]
        THEN view' = [view EXCEPT ![g] = None] /\ UNCHANGED <<held, saved, history>>
        ELSE /\ view' = [view EXCEPT ![g] = n]
             /\ EnqueueAt(n, m)
             /\ fate' = [fate EXCEPT ![m] = "kept"]
             /\ risked' = IF n # row.owner \/ Copied(n) THEN risked \cup {m} ELSE risked
  /\ UNCHANGED <<distributed, row, frozen, up, move, pass, late, bounds>>

AckAt(n, m) ==
  /\ held' = [held EXCEPT ![n][m] = @ - 1]
  /\ saved' = [saved EXCEPT ![n] = @ \ {m}]

(* A worker acknowledges m, which it may have from before the freeze.      *)
Ack(g, m) ==
  LET n == Route(g)
  IN /\ n \in up /\ held[n][m] > 0
     /\ view' = [view EXCEPT ![g] = n]
     /\ AckAt(n, m)
     /\ fate' = [fate EXCEPT ![m] = "done"]
     /\ UNCHANGED <<distributed, row, frozen, up, move, pass, late, bounds, risked>>

-----------------------------------------------------------------------------
(* What a node does for a mover or a reconciler.                           *)

(* PrepareMove: the slots are out of service, and copies are handed back.  *)
Freeze(n) ==
  /\ frozen' = [frozen EXCEPT ![n] = TRUE]
  /\ UNCHANGED <<held, saved, up>>

(* Absorb: into the log, then into memory, whatever is there already.      *)
TakeIn(n, ms) ==
  /\ held' = [held EXCEPT ![n] = [m \in Messages |-> IF m \in ms THEN @[m] + 1 ELSE @[m]]]
  /\ saved' = [saved EXCEPT ![n] = @ \cup ms]
  /\ UNCHANGED <<frozen, up>>

(* AbortMove.                                                              *)
Thaw(n) ==
  /\ frozen' = [frozen EXCEPT ![n] = FALSE]
  /\ UNCHANGED <<held, saved, up>>

(* DiscardMove: the slots and their logs go.                               *)
LetGo(n) ==
  /\ held' = [held EXCEPT ![n] = [m \in Messages |-> 0]]
  /\ saved' = [saved EXCEPT ![n] = {}]
  /\ frozen' = [frozen EXCEPT ![n] = FALSE]
  /\ UNCHANGED up

Do(c) ==
  CASE c.kind = "freeze"  -> Freeze(c.node)
    [] c.kind = "absorb"  -> TakeIn(c.node, c.copy)
    [] c.kind = "thaw"    -> Thaw(c.node)
    [] c.kind = "discard" -> LetGo(c.node)

CallTo(k, n, ms) == [kind |-> k, node |-> n, copy |-> ms]

(* The call is answered.                                                   *)
Answered(c) == c.node \in up /\ Do(c) /\ UNCHANGED <<late, faults>>

(* The call fails: the node is down, the request was lost, or the answer   *)
(* was, with the call carried out already or still to be.                  *)
Failed(c) ==
  \/ c.node \notin up /\ UNCHANGED <<node, late, faults>>
  \/ MayFail /\ UNCHANGED <<node, late>>
  \/ MayFail /\ c.node \in up /\ late' = late \cup {c} /\ UNCHANGED node

(* Node n has the queue, or has its copy and is about to be recorded.      *)
Receives(n) == n = row.owner \/ \E g \in Movers : move[g].to = n /\ move[g].pc = "record"

(* A call nobody waits for is carried out after all.  A discard may find   *)
(* that the queue has come back.                                           *)
Late(c) ==
  /\ c \in late /\ c.node \in up
  /\ Do(c)
  /\ late' = late \ {c}
  /\ risked' = IF c.kind = "discard" /\ Receives(c.node)
               THEN risked \cup Holding(c.node) ELSE risked
  /\ UNCHANGED <<distributed, row, view, move, pass, bounds, fate>>

-----------------------------------------------------------------------------
(* The rebalancer.                                                         *)

Goto(g, pc) == move' = [move EXCEPT ![g].pc = pc]

(* Rebalance lists the rows, and finds by its own list of members that an  *)
(* active queue should be elsewhere (which node that is, the membership    *)
(* decides: module Placement).                                             *)
Plan(g, to) ==
  /\ move[g].pc = "idle" /\ moves < MaxMoves
  /\ row.state = "active" /\ to # row.owner
  /\ moves' = moves + 1
  /\ move' = [move EXCEPT ![g] = [NoMove EXCEPT !.pc = "lock", !.from = row.owner, !.to = to]]
  /\ UNCHANGED <<distributed, row, view, node, pass, late, faults, history>>

(* SetState(migrating): the row must be active, or its lock's lease over.  *)
(* Two movers at once put everything at risk from then on.                 *)
Lock(g) ==
  /\ move[g].pc = "lock"
  /\ IF row.state # "migrating"
     THEN /\ row' = [row EXCEPT !.state = "migrating"]
          /\ Goto(g, "prepare")
          /\ risked' = IF \E h \in Movers : Moving(h) THEN Messages ELSE risked
     ELSE /\ move' = [move EXCEPT ![g] = NoMove]
          /\ UNCHANGED <<row, risked>>
  /\ UNCHANGED <<distributed, view, node, pass, late, bounds, fate>>

(* 1. Hold the slots and take copies.  A failure is not followed by an     *)
(* abort.                                                                  *)
Prepare(g) ==
  LET n == move[g].from
      c == CallTo("freeze", n, {})
  IN /\ move[g].pc = "prepare"
     /\ \/ Answered(c) /\ move' = [move EXCEPT ![g].pc = "absorb", ![g].copy = Holding(n)]
        \/ Failed(c) /\ Goto(g, "unlock")
     /\ UNCHANGED <<distributed, row, view, pass, moves, history>>

(* Reconcilers that are to discard what n holds, by a report from before n *)
(* was given the queue.                                                    *)
Overtake(n) ==
  pass' = [h \in Reconcilers |->
             IF CallTo("discard", n, {}) \in pass[h].fixes
             THEN [pass[h] EXCEPT !.overtaken = @ \cup {n}] ELSE pass[h]]

(* 2. Put them on the new owner.                                           *)
Absorb(g) ==
  LET c == CallTo("absorb", move[g].to, move[g].copy)
  IN /\ move[g].pc = "absorb"
     /\ \/ Answered(c) /\ Goto(g, "record")
        \/ Failed(c) /\ Goto(g, "abort")
     /\ Overtake(c.node)
     /\ UNCHANGED <<distributed, row, view, moves, history>>

(* SetOwner is unconditional.  A mover whose plan is out of date takes the *)
(* queue from whoever owns it now.                                         *)
SetOwner(g) ==
  LET m == move[g]
  IN /\ row' = [row EXCEPT !.owner = m.to]
     /\ Overtake(m.to)
     /\ risked' = IF m.from # row.owner THEN risked \cup (saved[row.owner] \ saved[m.to])
                  ELSE risked

(* 3. The commit.  When it fails, a normal queue is given back to the old  *)
(* owner and a distributed one is left to the reconciler.                  *)
Record(g) ==
  /\ move[g].pc = "record"
  /\ \/ SetOwner(g) /\ Goto(g, "discard") /\ UNCHANGED faults
     \/ /\ MayFail
        /\ SetOwner(g) \/ UNCHANGED <<row, pass, risked>>
        /\ Goto(g, IF distributed THEN "unlock" ELSE "abort")
  /\ UNCHANGED <<distributed, view, node, late, moves, fate>>

(* 4. The old owner lets go.                                               *)
Discard(g) ==
  LET c == CallTo("discard", move[g].from, {})
  IN /\ move[g].pc = "discard"
     /\ (Answered(c) \/ Failed(c)) /\ Goto(g, "unlock")
     /\ UNCHANGED <<distributed, row, view, pass, moves, history>>

Abort(g) ==
  LET c == CallTo("thaw", move[g].from, {})
  IN /\ move[g].pc = "abort"
     /\ (Answered(c) \/ Failed(c)) /\ Goto(g, "unlock")
     /\ UNCHANGED <<distributed, row, view, pass, moves, history>>

(* The deferred SetState(active), which does not ask who holds the lock,   *)
(* and the eviction of this gateway's own entry.                           *)
Unlock(g) ==
  /\ move[g].pc = "unlock"
  /\ \/ row' = [row EXCEPT !.state = "active"] /\ UNCHANGED faults
     \/ MayFail /\ UNCHANGED row
  /\ view' = Evicted(g)
  /\ move' = [move EXCEPT ![g] = NoMove]
  /\ UNCHANGED <<distributed, node, pass, late, moves, history>>

(* Two minutes have passed since the lock was taken.                       *)
Lapse ==
  /\ row.state = "migrating"
  /\ row' = [row EXCEPT !.state = "lapsed"]
  /\ UNCHANGED <<distributed, view, node, move, pass, late, bounds, history>>

-----------------------------------------------------------------------------
(* The reconciler: the nodes' reports, then the rows, then the repairs.    *)

Reporting(g) == pass[g].fixes = {}

(* What a node says it has, and has out of service.                        *)
Report(n) == [holds |-> {k \in {n} : Holding(k) # {}}, froze |-> {k \in {n} : frozen[k]}]

(* Held of one member; one that does not answer is left for another pass.  *)
Ask(g, n) ==
  /\ Reporting(g) /\ n \in pass[g].todo
  /\ \/ /\ n \in up /\ UNCHANGED faults
        /\ pass' = [pass EXCEPT ![g].todo = @ \ {n},
                                ![g].holds = @ \cup Report(n).holds,
                                ![g].froze = @ \cup Report(n).froze]
     \/ /\ IF n \in up THEN MayFail ELSE UNCHANGED faults
        /\ pass' = [pass EXCEPT ![g].todo = @ \ {n}]
  /\ UNCHANGED <<distributed, row, view, node, move, late, moves, history>>

(* Mutant of Fixes: a leftover copy is not seen. *)
FixesThaw(r, owner) == {CallTo("thaw", n, {}) : n \in r.froze \cap {owner}}

(* Mutant of Fixes: slots held out of service are not seen. *)
FixesDiscard(r, owner) == {CallTo("discard", n, {}) : n \in r.holds \ {owner}}

(* An owner that is frozen is to be thawed, a copy of what another node    *)
(* owns is to be discarded; a queue that is on the move is left alone.     *)
Fixes(r, owner) ==
  {CallTo("thaw", n, {}) : n \in r.froze \cap {owner}}
    \cup {CallTo("discard", n, {}) : n \in r.holds \ {owner}}

(* Mutant of ReadRows: a queue that is on the move is repaired as well. *)
ReadRowsMoving(g) ==
  /\ Reporting(g) /\ pass[g].todo = {}
  /\ pass' = [pass EXCEPT ![g] = [NoPass EXCEPT !.fixes = Fixes(pass[g], row.owner)]]
  /\ UNCHANGED <<distributed, row, view, node, move, late, bounds, history>>

(* ListAll, after the last report.                                         *)
ReadRows(g) ==
  /\ Reporting(g) /\ pass[g].todo = {}
  /\ pass' = [pass EXCEPT ![g] =
                [NoPass EXCEPT !.fixes = IF row.state = "active" THEN Fixes(pass[g], row.owner)
                                         ELSE {}]]
  /\ UNCHANGED <<distributed, row, view, node, move, late, bounds, history>>

(* What fails is left for another pass.                                    *)
Repair(g, c) ==
  /\ c \in pass[g].fixes
  /\ Answered(c) \/ Failed(c)
  /\ pass' = [pass EXCEPT ![g] = IF pass[g].fixes = {c} THEN NoPass
                                  ELSE [pass[g] EXCEPT !.fixes = @ \ {c}]]
  /\ risked' = IF c.kind = "discard" /\ c.node \in pass[g].overtaken
               THEN risked \cup Holding(c.node) ELSE risked
  /\ UNCHANGED <<distributed, row, view, move, moves, fate>>

-----------------------------------------------------------------------------
(* A gateway keeps nothing; another takes its place.                       *)
GatewayDies(g) ==
  /\ MayFail
  /\ move' = [h \in Movers |-> IF h = g THEN NoMove ELSE move[h]]
  /\ pass' = [h \in Reconcilers |-> IF h = g THEN NoPass ELSE pass[h]]
  /\ view' = Evicted(g)
  /\ UNCHANGED <<distributed, row, node, late, moves, history>>

(* A node that dies loses what it had not answered and the memory of being *)
(* frozen.                                                                 *)
NodeDies(n) ==
  /\ n \in up /\ MayFail
  /\ up' = up \ {n}
  /\ held' = [held EXCEPT ![n] = [m \in Messages |-> 0]]
  /\ frozen' = [frozen EXCEPT ![n] = FALSE]
  /\ late' = {c \in late : c.node # n}
  /\ UNCHANGED <<distributed, row, view, saved, move, pass, moves, history>>

(* Mutant of NodeRestarts: the log is replayed, and the node does not serve. *)
NodeRestartsMute(n) ==
  /\ n \notin up
  /\ held' = [held EXCEPT ![n] = [m \in Messages |-> IF m \in saved[n] THEN 1 ELSE 0]]
  /\ UNCHANGED <<distributed, row, view, saved, frozen, up, move, pass, late, bounds, history>>

(* Recover: the log lists a message once.                                  *)
NodeRestarts(n) ==
  /\ n \notin up
  /\ up' = up \cup {n}
  /\ held' = [held EXCEPT ![n] = [m \in Messages |-> IF m \in saved[n] THEN 1 ELSE 0]]
  /\ UNCHANGED <<distributed, row, view, saved, frozen, move, pass, late, bounds, history>>

-----------------------------------------------------------------------------
MoveStep(g) == Lock(g) \/ Prepare(g) \/ Absorb(g) \/ Record(g) \/ Discard(g) \/ Abort(g)
               \/ Unlock(g)
PassStep(g) == ReadRows(g) \/ (\E n \in Nodes : Ask(g, n)) \/ (\E c \in pass[g].fixes : Repair(g, c))

Next ==
  \/ \E g \in Routers : Look(g) \/ Forget(g)
  \/ \E g \in Routers, m \in Messages : Send(g, m) \/ Ack(g, m)
  \/ \E g \in Movers, n \in Nodes : Plan(g, n)
  \/ \E g \in Movers : MoveStep(g)
  \/ \E g \in Reconcilers : PassStep(g)
  \/ \E g \in Gateways : GatewayDies(g)
  \/ \E c \in late : Late(c)
  \/ \E n \in Nodes : NodeDies(n) \/ NodeRestarts(n)
  \/ Lapse

(* The loops of a gateway run as long as it does, a call that is under way *)
(* at a node ends, the lease of a lock runs out, and a node that died is   *)
(* started again.  Nobody is obliged to send or to take a message.         *)
Fairness ==
  /\ \A g \in Movers : WF_vars(MoveStep(g))
  /\ \A g \in Reconcilers : WF_vars(PassStep(g))
  /\ \A n \in Nodes : WF_vars(NodeRestarts(n))
  /\ WF_vars(\E c \in late : Late(c))
  /\ WF_vars(Lapse)

Spec == Init /\ [][Next]_vars /\ Fairness

-----------------------------------------------------------------------------
Calls == [kind : {"freeze", "absorb", "thaw", "discard"}, node : Nodes, copy : SUBSET Messages]

(* The variables keep their types, and a node that is down has nothing in  *)
(* memory.                                                                 *)
TypeOK ==
  /\ row \in [owner : Nodes, state : {"active", "migrating", "lapsed"}]
  /\ view \in [Routers -> Nodes \cup {None}]
  /\ held \in [Nodes -> [Messages -> 0..(MaxMoves + 1)]]
  /\ saved \in [Nodes -> SUBSET Messages]
  /\ \A n \in Nodes \ up : Holding(n) = {} /\ ~frozen[n]
  /\ \A g \in Movers : move[g].pc \in {"idle", "lock", "prepare", "absorb", "record",
                                         "discard", "abort", "unlock"}
  /\ \A g \in Reconcilers : pass[g].fixes \subseteq Calls
  /\ late \subseteq Calls
  /\ fate \in [Messages -> {"new", "kept", "done"}]

(* The node the row names has every message that was accepted and not      *)
(* acknowledged, whatever call failed and whoever died in the middle of a  *)
(* move.  The exceptions are the races that `risked' names: a message that *)
(* a stale cache brought to another node or to a node that had been copied *)
(* already, two movers at once, a plan or a report that a move overtook,   *)
(* and a discard that comes late.                                          *)
AtOwner ==
  \A m \in Messages : fate[m] = "kept" /\ m \notin risked =>
    /\ m \in saved[row.owner]
    /\ row.owner \in up => held[row.owner][m] > 0

(* A move that stopped halfway does not leave the owner frozen for ever:   *)
(* some pass of the reconciler puts it back into service - unless the row  *)
(* is locked.                                                              *)
Thaws ==
  \A n \in Nodes :
    frozen[n] /\ row.owner = n ~> ~frozen[n] \/ row.owner # n \/ row.state # "active"

(* A copy left with a node that does not own it is discarded in the end,   *)
(* so that it is not served when the node becomes the owner again.         *)
OrphansGo ==
  \A n \in Nodes :
    Holding(n) # {} /\ row.owner # n ~> Holding(n) = {} \/ row.owner = n
                                          \/ row.state # "active"

-----------------------------------------------------------------------------
(* What a comment of the code says and the code does not do.               *)

(* conn.go:39: the lease is there so that a gateway that dies in the       *)
(* middle of a move does not leave the queue in `migrating' for ever.      *)
AbandonedMovesEnd == row.state # "active" ~> row.state = "active"
=============================================================================
