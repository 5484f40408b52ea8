-------------------------- MODULE HandoffProofs ---------------------------
(***************************************************************************)
(* Theorems about Handoff for any sets of nodes, gateways and messages,    *)
(* both kinds of queues, and any number of moves and faults.               *)
(***************************************************************************)
EXTENDS Handoff, FiniteSetTheorems, TLAPS

(* What a reconciler may be about to do. *)
Repairs == {CallTo(k, n, {}) : k \in {"thaw", "discard"}, n \in Nodes}

MoveRecords ==
  [pc : {"idle", "lock", "prepare", "absorb", "record", "discard", "abort", "unlock"},
   from : Nodes \cup {None}, to : Nodes \cup {None}, copy : SUBSET Messages]

PassRecords ==
  [todo : SUBSET Nodes, holds : SUBSET Nodes, froze : SUBSET Nodes, fixes : SUBSET Repairs,
   overtaken : SUBSET Nodes]

NodeType ==
  /\ held \in [Nodes -> [Messages -> Nat]]
  /\ saved \in [Nodes -> SUBSET Messages]
  /\ frozen \in [Nodes -> BOOLEAN]
  /\ up \subseteq Nodes
  /\ \A n \in Nodes \ up : Holding(n) = {} /\ ~frozen[n]

MoveType ==
  /\ move \in [Movers -> MoveRecords]
  /\ \A g \in Movers : move[g].pc # "idle" =>
       move[g].from \in Nodes /\ move[g].to \in Nodes /\ move[g].from # move[g].to

(* TypeOK, with the shape of the variables whose parts it names, and       *)
(* without the bound on the copies.                                        *)
TypeInv ==
  /\ row \in [owner : Nodes, state : {"active", "migrating", "lapsed"}]
  /\ view \in [Routers -> Nodes \cup {None}]
  /\ NodeType
  /\ MoveType
  /\ pass \in [Reconcilers -> PassRecords]
  /\ late \subseteq Calls
  /\ moves \in Nat /\ moves <= MaxMoves
  /\ fate \in [Messages -> {"new", "kept", "done"}]
  /\ risked \subseteq Messages

(* A move puts a message on the new owner once: the copies there are of    *)
(* it, and those that are still to come, are not more than the moves and   *)
(* the one that was sent.                                                  *)
ToCopy     == {g \in Movers : move[g].pc \in {"lock", "prepare", "absorb"}}
LateCopies == {c \in late : c.kind = "absorb"}
Coming     == Cardinality(ToCopy) + Cardinality(LateCopies)

CopiesCounted ==
  /\ IsFiniteSet(ToCopy) /\ IsFiniteSet(LateCopies)
  /\ Coming <= moves
  /\ \A n \in Nodes, m \in Messages : held[n][m] + Coming <= moves + 1

(* What the log of a node would bring back is in its memory. *)
InStep == \A n \in up : \A m \in saved[n] : held[n][m] > 0

Accepted == {m \in Messages : fate[m] = "kept" /\ m \notin risked}

(* The lock lets one mover in at a time, and the row is not active while   *)
(* it is there.                                                            *)
OneMover ==
  /\ \A g, h \in Movers : Moving(g) /\ Moving(h) => g = h
  /\ \A g \in Movers : Moving(g) => row.state # "active"

(* A mover that takes the queue from its owner has all there is, and so    *)
(* has the new owner, before that is recorded; it discards what is not the *)
(* owner's any more.                                                       *)
CopyComplete ==
  \A g \in Movers :
    /\ move[g].pc = "absorb" /\ move[g].from = row.owner => Accepted \subseteq move[g].copy
    /\ move[g].pc = "record" /\ move[g].from = row.owner => Accepted \subseteq saved[move[g].to]
    /\ move[g].pc = "discard" => row.owner = move[g].to

(* A reconciler that is still to discard what the owner has knows of it    *)
(* from before the node became the owner.                                  *)
Outdated ==
  \A h \in Reconcilers, n \in Nodes :
    CallTo("discard", n, {}) \in pass[h].fixes /\ Receives(n) => n \in pass[h].overtaken

OwnerHasAll == Accepted \subseteq saved[row.owner]

(* As long as the lock has kept its promise.  When its lease ran out under *)
(* a mover and another came in, everything is at risk.                     *)
Orderly == OneMover /\ CopyComplete /\ Outdated /\ OwnerHasAll

IInv == TypeInv /\ CopiesCounted /\ InStep /\ (risked = Messages \/ Orderly)

-----------------------------------------------------------------------------
(* The calls to a node *)

LEMMA DoCases ==
  ASSUME NEW c \in Calls, Do(c)
  PROVE  \/ c.kind = "freeze" /\ Freeze(c.node)
         \/ c.kind = "absorb" /\ TakeIn(c.node, c.copy)
         \/ c.kind = "thaw" /\ Thaw(c.node)
         \/ c.kind = "discard" /\ LetGo(c.node)
BY DEF Do, Calls

(* What a call does to the node, and that it does nothing to the others. *)
LEMMA DoEffect ==
  ASSUME NodeType, NEW c \in Calls, c.node \in up, Do(c)
  PROVE  /\ NodeType' /\ up' = up
         /\ \A n \in Nodes \ {c.node} : held'[n] = held[n] /\ saved'[n] = saved[n]
         /\ c.kind # "discard" => \A n \in Nodes : saved[n] \subseteq saved'[n]
         /\ c.kind = "absorb" => c.copy \subseteq saved'[c.node]
         /\ \A n \in Nodes, m \in Messages :
              \/ held'[n][m] <= held[n][m]
              \/ c.kind = "absorb" /\ held'[n][m] = held[n][m] + 1
         /\ InStep => InStep'
<1> DEFINE k == c.node
<1>0. k \in Nodes /\ k \in up /\ c.copy \subseteq Messages
  BY DEF Calls
<1> HIDE DEF k
<1>1. CASE c.kind \in {"freeze", "thaw"} /\ (Freeze(k) \/ Thaw(k))
  <2>1. held' = held /\ saved' = saved /\ up' = up
    BY <1>1 DEF Freeze, Thaw
  <2>2. frozen' \in [Nodes -> BOOLEAN] /\ \A n \in Nodes \ {k} : frozen'[n] = frozen[n]
    BY <1>0, <1>1 DEF Freeze, Thaw, NodeType
  <2>3. NodeType'
    BY <1>0, <2>1, <2>2 DEF NodeType, Holding
  <2>4. InStep => InStep'
    BY <2>1 DEF InStep
  <2>5. \A n \in Nodes, m \in Messages : held'[n][m] <= held[n][m]
    BY <2>1 DEF NodeType
  <2> QED BY <1>1, <2>1, <2>3, <2>4, <2>5 DEF k
<1>2. CASE c.kind = "absorb" /\ TakeIn(k, c.copy)
  <2>1. /\ up' = up /\ frozen' = frozen
        /\ held' = [held EXCEPT ![k] = [m \in Messages |-> IF m \in c.copy THEN @[m] + 1 ELSE @[m]]]
        /\ saved' = [saved EXCEPT ![k] = @ \cup c.copy]
    BY <1>2 DEF TakeIn
  <2>2. /\ \A n \in Nodes \ {k} : held'[n] = held[n] /\ saved'[n] = saved[n]
        /\ \A m \in Messages : held'[k][m] = IF m \in c.copy THEN held[k][m] + 1 ELSE held[k][m]
        /\ saved'[k] = saved[k] \cup c.copy
    BY <1>0, <2>1 DEF NodeType
  <2>3. held' \in [Nodes -> [Messages -> Nat]] /\ saved' \in [Nodes -> SUBSET Messages]
    BY <1>0, <2>1 DEF NodeType
  <2>4. NodeType'
    BY <1>0, <2>1, <2>2, <2>3 DEF NodeType, Holding
  <2>5. InStep => InStep'
    BY <1>0, <2>1, <2>2 DEF InStep, NodeType
  <2>6. \A n \in Nodes, m \in Messages :
          held'[n][m] <= held[n][m] \/ held'[n][m] = held[n][m] + 1
    BY <2>2 DEF NodeType
  <2> QED BY <1>2, <2>1, <2>2, <2>4, <2>5, <2>6 DEF k
<1>3. CASE c.kind = "discard" /\ LetGo(k)
  <2>1. /\ up' = up
        /\ frozen' = [frozen EXCEPT ![k] = FALSE]
        /\ held' = [held EXCEPT ![k] = [m \in Messages |-> 0]]
        /\ saved' = [saved EXCEPT ![k] = {}]
    BY <1>3 DEF LetGo
  <2>2. /\ \A n \in Nodes \ {k} : /\ held'[n] = held[n] /\ saved'[n] = saved[n]
                                  /\ frozen'[n] = frozen[n]
        /\ \A m \in Messages : held'[k][m] = 0
        /\ saved'[k] = {}
    BY <1>0, <2>1 DEF NodeType
  <2>3. /\ held' \in [Nodes -> [Messages -> Nat]] /\ saved' \in [Nodes -> SUBSET Messages]
        /\ frozen' \in [Nodes -> BOOLEAN]
    BY <1>0, <2>1 DEF NodeType
  <2>4. NodeType'
    BY <1>0, <2>1, <2>2, <2>3 DEF NodeType, Holding
  <2>5. InStep => InStep'
    BY <1>0, <2>1, <2>2 DEF InStep
  <2>6. \A n \in Nodes, m \in Messages : held'[n][m] <= held[n][m]
    BY <2>2 DEF NodeType
  <2> QED BY <1>3, <2>1, <2>2, <2>4, <2>5, <2>6 DEF k
<1> QED BY <1>1, <1>2, <1>3, DoCases DEF k

(* A call that is answered, or fails: what the caller may rely on.         *)
LEMMA CallKinds ==
  ASSUME NEW k \in {"freeze", "absorb", "thaw", "discard"}, NEW n \in Nodes,
         NEW ms \in SUBSET Messages
  PROVE  /\ CallTo(k, n, ms) \in Calls
         /\ CallTo(k, n, ms).kind = k /\ CallTo(k, n, ms).node = n
         /\ CallTo(k, n, ms).copy = ms
BY DEF CallTo, Calls

LEMMA RepairKinds ==
  ASSUME NEW c \in Repairs
  PROVE  /\ c \in Calls /\ c.kind \in {"thaw", "discard"} /\ c.node \in Nodes
         /\ c = CallTo(c.kind, c.node, {})
BY DEF CallTo, Calls, Repairs

LEMMA CallType ==
  ASSUME TypeInv, NEW c \in Calls, Answered(c) \/ Failed(c)
  PROVE  NodeType' /\ late' \subseteq Calls /\ up' = up
<1>1. CASE Answered(c)
  BY <1>1, DoEffect DEF Answered, TypeInv
<1>2. CASE UNCHANGED node /\ late' \subseteq Calls
  BY <1>2 DEF node, TypeInv, NodeType, Holding
<1>3. Failed(c) => UNCHANGED node /\ late' \subseteq Calls
  BY DEF Failed, node, TypeInv
<1> QED BY <1>1, <1>2, <1>3

-----------------------------------------------------------------------------
(* Type correctness *)

LEMMA InitType == Init => TypeInv
<1> SUFFICES ASSUME Init PROVE TypeInv
  OBVIOUS
<1>1. NodeType
  BY DEF Init, NodeType, Holding
<1>2. MoveType
  BY DEF Init, MoveType, MoveRecords, NoMove
<1>3. pass \in [Reconcilers -> PassRecords]
  BY DEF Init, PassRecords, NoPass
<1>4. row \in [owner : Nodes, state : {"active", "migrating", "lapsed"}]
  BY DEF Init
<1> QED BY <1>1, <1>2, <1>3, <1>4, HandoffAssumption DEF Init, TypeInv

LEMMA GotoEffect ==
  ASSUME move \in [Movers -> MoveRecords], NEW g \in Movers, NEW pc, Goto(g, pc)
  PROVE  /\ move'[g].pc = pc /\ move'[g].copy = move[g].copy
         /\ move'[g].from = move[g].from /\ move'[g].to = move[g].to
         /\ \A h \in Movers \ {g} : move'[h] = move[h]
BY DEF Goto, MoveRecords

(* A mover that goes on keeps its plan, and gives it up at the end. *)
LEMMA GotoType ==
  ASSUME MoveType, NEW g \in Movers, move[g].pc # "idle",
         NEW pc \in {"prepare", "absorb", "record", "discard", "abort", "unlock"},
         Goto(g, pc) \/ move' = [move EXCEPT ![g] = NoMove]
  PROVE  MoveType'
<1>1. CASE Goto(g, pc)
  <2>1. /\ move' \in [Movers -> MoveRecords]
        /\ \A h \in Movers : move'[h].from = move[h].from /\ move'[h].to = move[h].to
        /\ \A h \in Movers : move'[h].pc # "idle" => move[h].pc # "idle"
    BY <1>1 DEF Goto, MoveType, MoveRecords
  <2> QED BY <2>1 DEF MoveType
<1>2. CASE move' = [move EXCEPT ![g] = NoMove]
  <2>1. NoMove \in MoveRecords /\ NoMove.pc = "idle"
    BY DEF NoMove, MoveRecords
  <2> QED BY <1>2, <2>1 DEF MoveType
<1> QED BY <1>1, <1>2

(* A mover that has its copy keeps its plan. *)
LEMMA CopyTaken ==
  ASSUME NEW r \in MoveRecords, NEW ms \in SUBSET Messages
  PROVE  LET s == [r EXCEPT !.pc = "absorb", !.copy = ms]
         IN s \in MoveRecords /\ s.pc = "absorb" /\ s.from = r.from /\ s.to = r.to /\ s.copy = ms
BY DEF MoveRecords

LEMMA OvertakeType ==
  ASSUME pass \in [Reconcilers -> PassRecords], NEW n \in Nodes, Overtake(n)
  PROVE  pass' \in [Reconcilers -> PassRecords]
<1>1. \A h \in Reconcilers : [pass[h] EXCEPT !.overtaken = @ \cup {n}] \in PassRecords
  BY DEF PassRecords
<1> QED BY <1>1 DEF Overtake

LEMMA NextType ==
  ASSUME TypeInv, [Next]_vars
  PROVE  TypeInv'
<1> USE DEF bounds, history
<1>1. ASSUME NEW g \in Routers, Look(g) \/ Forget(g) PROVE TypeInv'
  BY <1>1 DEF Look, Forget, TypeInv, NodeType, MoveType, Holding, node
<1>2. ASSUME NEW g \in Routers, NEW m \in Messages, Send(g, m) PROVE TypeInv'
  <2> DEFINE n == Route(g)
  <2>1. n \in Nodes /\ n \in up
    BY <1>2 DEF Send, Route, TypeInv, NodeType
  <2>2. CASE UNCHANGED <<held, saved, history>> /\ view' = [view EXCEPT ![g] = None]
    BY <1>2, <2>2 DEF Send, TypeInv, NodeType, MoveType, Holding
  <2>3. CASE EnqueueAt(n, m) /\ view' = [view EXCEPT ![g] = n]
    <3>1. /\ held' = [held EXCEPT ![n][m] = 1]
          /\ saved' = [saved EXCEPT ![n] = @ \cup {m}]
      BY <2>3 DEF EnqueueAt
    <3> HIDE DEF n
    <3>2. /\ held' \in [Nodes -> [Messages -> Nat]] /\ saved' \in [Nodes -> SUBSET Messages]
          /\ \A k \in Nodes \ {n} : held'[k] = held[k]
      BY <2>1, <3>1 DEF TypeInv, NodeType
    <3>3. NodeType'
      BY <1>2, <2>1, <3>2 DEF Send, TypeInv, NodeType, Holding
    <3>4. view' \in [Routers -> Nodes \cup {None}]
      BY <2>1, <2>3 DEF TypeInv
    <3>5. fate' \in [Messages -> {"new", "kept", "done"}] /\ risked' \subseteq Messages
      BY <1>2 DEF Send, TypeInv
    <3> QED BY <1>2, <3>3, <3>4, <3>5 DEF Send, TypeInv, MoveType
  <2> QED BY <1>2, <2>2, <2>3 DEF Send
<1>3. ASSUME NEW g \in Routers, NEW m \in Messages, Ack(g, m) PROVE TypeInv'
  <2> DEFINE n == Route(g)
  <2>1. n \in Nodes /\ n \in up /\ held[n][m] > 0 /\ held[n][m] \in Nat
    BY <1>3 DEF Ack, Route, TypeInv, NodeType
  <2>2. /\ held' = [held EXCEPT ![n][m] = @ - 1]
        /\ saved' = [saved EXCEPT ![n] = @ \ {m}]
        /\ view' = [view EXCEPT ![g] = n]
    BY <1>3 DEF Ack, AckAt
  <2> HIDE DEF n
  <2>3. /\ held' \in [Nodes -> [Messages -> Nat]] /\ saved' \in [Nodes -> SUBSET Messages]
        /\ \A k \in Nodes \ {n} : held'[k] = held[k]
        /\ view' \in [Routers -> Nodes \cup {None}]
    <3>1. held[n][m] - 1 \in Nat
      BY <2>1
    <3>2. [held[n] EXCEPT ![m] = @ - 1] \in [Messages -> Nat]
      BY <2>1, <3>1 DEF TypeInv, NodeType
    <3> QED BY <2>1, <2>2, <3>2 DEF TypeInv, NodeType
  <2>4. NodeType'
    BY <1>3, <2>1, <2>3 DEF Ack, TypeInv, NodeType, Holding
  <2> QED BY <1>3, <2>3, <2>4 DEF Ack, TypeInv, MoveType
<1>4. ASSUME NEW g \in Movers, NEW n \in Nodes, Plan(g, n) PROVE TypeInv'
  <2>1. moves' \in Nat /\ moves' <= MaxMoves
    BY <1>4, HandoffAssumption DEF Plan, TypeInv
  <2>2. MoveType'
    BY <1>4 DEF Plan, TypeInv, MoveType, MoveRecords, NoMove
  <2> QED BY <1>4, <2>1, <2>2 DEF Plan, TypeInv, NodeType, Holding, node
<1>5. ASSUME NEW g \in Movers, Lock(g) PROVE TypeInv'
  <2>1. MoveType'
    BY <1>5, GotoType DEF Lock, TypeInv
  <2>2. row' \in [owner : Nodes, state : {"active", "migrating", "lapsed"}]
    BY <1>5 DEF Lock, TypeInv
  <2> QED BY <1>5, <2>1, <2>2 DEF Lock, TypeInv, NodeType, Holding, node
<1>6. ASSUME NEW g \in Movers, Prepare(g) PROVE TypeInv'
  <2> DEFINE c == CallTo("freeze", move[g].from, {})
  <2>1. move[g].from \in Nodes
    BY <1>6 DEF Prepare, TypeInv, MoveType
  <2>2. NodeType' /\ late' \subseteq Calls
    BY <1>6, <2>1, CallKinds, CallType DEF Prepare
  <2>3. Holding(move[g].from) \subseteq Messages
    BY DEF Holding
  <2>4. MoveType'
    <3>1. CASE Goto(g, "unlock")
      BY <1>6, <3>1, GotoType DEF Prepare, TypeInv
    <3>2. CASE move' = [move EXCEPT ![g].pc = "absorb", ![g].copy = Holding(move[g].from)]
      <4> DEFINE mine == [move[g] EXCEPT !.pc = "absorb", !.copy = Holding(move[g].from)]
      <4>1. mine \in MoveRecords /\ mine.from = move[g].from /\ mine.to = move[g].to
        BY <2>3, CopyTaken DEF TypeInv, MoveType
      <4>2. move' = [move EXCEPT ![g] = mine]
        BY <3>2 DEF TypeInv, MoveType
      <4>3. move[g].pc # "idle"
        BY <1>6 DEF Prepare
      <4> HIDE DEF mine
      <4> QED BY <4>1, <4>2, <4>3 DEF TypeInv, MoveType
    <3> QED BY <1>6, <3>1, <3>2 DEF Prepare
  <2> QED BY <1>6, <2>2, <2>4 DEF Prepare, TypeInv
<1>7. ASSUME NEW g \in Movers, Absorb(g) PROVE TypeInv'
  <2> DEFINE c == CallTo("absorb", move[g].to, move[g].copy)
  <2>1. move[g].to \in Nodes /\ move[g].copy \in SUBSET Messages
    BY <1>7 DEF Absorb, TypeInv, MoveType, MoveRecords
  <2>2. NodeType' /\ late' \subseteq Calls
    BY <1>7, <2>1, CallKinds, CallType DEF Absorb
  <2>3. MoveType'
    BY <1>7, GotoType DEF Absorb, TypeInv
  <2>4. pass' \in [Reconcilers -> PassRecords]
    BY <1>7, <2>1, CallKinds, OvertakeType DEF Absorb, TypeInv
  <2> QED BY <1>7, <2>2, <2>3, <2>4 DEF Absorb, TypeInv
<1>8. ASSUME NEW g \in Movers, Record(g) PROVE TypeInv'
  <2>1. move[g].to \in Nodes
    BY <1>8 DEF Record, TypeInv, MoveType
  <2>2. MoveType'
    BY <1>8, GotoType DEF Record, TypeInv
  <2>3. /\ row' \in [owner : Nodes, state : {"active", "migrating", "lapsed"}]
        /\ pass' \in [Reconcilers -> PassRecords] /\ risked' \subseteq Messages
    <3>1. CASE SetOwner(g)
      BY <2>1, <3>1, OvertakeType DEF SetOwner, TypeInv, NodeType
    <3>2. CASE UNCHANGED <<row, pass, risked>>
      BY <3>2 DEF TypeInv
    <3> QED BY <1>8, <3>1, <3>2 DEF Record
  <2> QED BY <1>8, <2>2, <2>3 DEF Record, TypeInv, NodeType, Holding, node
<1>9. ASSUME NEW g \in Movers, Discard(g) PROVE TypeInv'
  <2>1. move[g].from \in Nodes
    BY <1>9 DEF Discard, TypeInv, MoveType
  <2>2. NodeType' /\ late' \subseteq Calls
    BY <1>9, <2>1, CallKinds, CallType DEF Discard
  <2>3. MoveType'
    BY <1>9, GotoType DEF Discard, TypeInv
  <2> QED BY <1>9, <2>2, <2>3 DEF Discard, TypeInv
<1>10. ASSUME NEW g \in Movers, Abort(g) PROVE TypeInv'
  <2>1. move[g].from \in Nodes
    BY <1>10 DEF Abort, TypeInv, MoveType
  <2>2. NodeType' /\ late' \subseteq Calls
    BY <1>10, <2>1, CallKinds, CallType DEF Abort
  <2>3. MoveType'
    BY <1>10, GotoType DEF Abort, TypeInv
  <2> QED BY <1>10, <2>2, <2>3 DEF Abort, TypeInv
<1>11. ASSUME NEW g \in Movers, Unlock(g) PROVE TypeInv'
  <2>1. MoveType'
    BY <1>11, GotoType DEF Unlock, TypeInv
  <2>2. row' \in [owner : Nodes, state : {"active", "migrating", "lapsed"}]
    BY <1>11 DEF Unlock, TypeInv
  <2> QED BY <1>11, <2>1, <2>2 DEF Unlock, Evicted, TypeInv, NodeType, Holding, node
<1>12. ASSUME NEW g \in Reconcilers, NEW n \in Nodes, Ask(g, n) PROVE TypeInv'
  <2>1. Report(n).holds \subseteq Nodes /\ Report(n).froze \subseteq Nodes
    BY DEF Report
  <2> DEFINE heard  == [pass[g] EXCEPT !.todo = @ \ {n}, !.holds = @ \cup Report(n).holds,
                                       !.froze = @ \cup Report(n).froze]
             silent == [pass[g] EXCEPT !.todo = @ \ {n}]
  <2>2. pass[g] \in PassRecords
    BY DEF TypeInv
  <2>3. heard \in PassRecords /\ silent \in PassRecords
    BY <2>1, <2>2 DEF PassRecords
  <2>4. pass' = [pass EXCEPT ![g] = heard] \/ pass' = [pass EXCEPT ![g] = silent]
    BY <1>12 DEF Ask, TypeInv
  <2> HIDE DEF heard, silent
  <2>5. pass' \in [Reconcilers -> PassRecords]
    BY <2>3, <2>4 DEF TypeInv
  <2> QED BY <1>12, <2>5 DEF Ask, TypeInv, NodeType, MoveType, Holding, node
<1>13. ASSUME NEW g \in Reconcilers, ReadRows(g) PROVE TypeInv'
  <2>1. Fixes(pass[g], row.owner) \subseteq Repairs
    BY DEF Fixes, Repairs, TypeInv, PassRecords
  <2>2. pass' \in [Reconcilers -> PassRecords]
    BY <1>13, <2>1 DEF ReadRows, TypeInv, PassRecords, NoPass
  <2> QED BY <1>13, <2>2 DEF ReadRows, TypeInv, NodeType, MoveType, Holding, node
<1>14. ASSUME NEW g \in Reconcilers, NEW c \in pass[g].fixes, Repair(g, c) PROVE TypeInv'
  <2>1. c \in Repairs
    BY DEF TypeInv, PassRecords
  <2>2. NodeType' /\ late' \subseteq Calls
    BY <1>14, <2>1, RepairKinds, CallType DEF Repair
  <2> DEFINE fewer == [pass[g] EXCEPT !.fixes = @ \ {c}]
  <2>3. NoPass \in PassRecords /\ fewer \in PassRecords
    BY DEF NoPass, PassRecords, TypeInv
  <2>4. pass' \in [Reconcilers -> PassRecords]
    <3>1. pass' = [pass EXCEPT ![g] = IF pass[g].fixes = {c} THEN NoPass ELSE fewer]
      BY <1>14 DEF Repair
    <3> HIDE DEF fewer
    <3> QED BY <2>3, <3>1 DEF TypeInv
  <2>5. risked' \subseteq Messages
    BY <1>14 DEF Repair, TypeInv, Holding
  <2> QED BY <1>14, <2>2, <2>4, <2>5 DEF Repair, TypeInv, MoveType
<1>15. ASSUME NEW g \in Gateways, GatewayDies(g) PROVE TypeInv'
  <2>1. NoMove \in MoveRecords /\ NoMove.pc = "idle" /\ NoPass \in PassRecords
    BY DEF NoMove, MoveRecords, NoPass, PassRecords
  <2>2. MoveType'
    BY <1>15, <2>1 DEF GatewayDies, TypeInv, MoveType
  <2>3. pass' \in [Reconcilers -> PassRecords] /\ view' \in [Routers -> Nodes \cup {None}]
    BY <1>15, <2>1 DEF GatewayDies, Evicted, TypeInv
  <2> QED BY <1>15, <2>2, <2>3 DEF GatewayDies, TypeInv, NodeType, Holding, node
<1>16. ASSUME NEW c \in late, Late(c) PROVE TypeInv'
  <2>1. c \in Calls
    BY DEF TypeInv
  <2>2. NodeType'
    BY <1>16, <2>1, DoEffect DEF Late, TypeInv
  <2>3. risked' \subseteq Messages
    BY <1>16 DEF Late, TypeInv, Holding
  <2> QED BY <1>16, <2>2, <2>3 DEF Late, TypeInv, MoveType
<1>17. ASSUME NEW n \in Nodes, NodeDies(n) PROVE TypeInv'
  <2>1. NodeType'
    BY <1>17 DEF NodeDies, TypeInv, NodeType, Holding
  <2> QED BY <1>17, <2>1 DEF NodeDies, TypeInv, MoveType
<1>18. ASSUME NEW n \in Nodes, NodeRestarts(n) PROVE TypeInv'
  <2>1. NodeType'
    BY <1>18 DEF NodeRestarts, TypeInv, NodeType, Holding
  <2> QED BY <1>18, <2>1 DEF NodeRestarts, TypeInv, MoveType
<1>19. CASE Lapse
  BY <1>19 DEF Lapse, TypeInv, NodeType, MoveType, Holding, node
<1>20. CASE UNCHANGED vars
  BY <1>20 DEF vars, TypeInv, NodeType, MoveType, Holding
<1> QED
  BY <1>1, <1>2, <1>3, <1>4, <1>5, <1>6, <1>7, <1>8, <1>9, <1>10, <1>11, <1>12, <1>13,
     <1>14, <1>15, <1>16, <1>17, <1>18, <1>19, <1>20
     DEF Next, MoveStep, PassStep

LEMMA TypeFollows == TypeInv /\ CopiesCounted => TypeOK
<1> SUFFICES ASSUME TypeInv, CopiesCounted PROVE TypeOK
  OBVIOUS
<1>1. Coming \in Nat
  BY FS_CardinalityType DEF CopiesCounted, Coming
<1>2. held \in [Nodes -> [Messages -> 0..(MaxMoves + 1)]]
  <2>1. \A n \in Nodes, m \in Messages : held[n][m] \in 0..(MaxMoves + 1)
    BY <1>1, HandoffAssumption DEF TypeInv, NodeType, CopiesCounted
  <2> QED BY <2>1 DEF TypeInv, NodeType
<1>3. \A g \in Reconcilers : pass[g].fixes \subseteq Calls
  BY RepairKinds DEF TypeInv, PassRecords
<1>4. \A g \in Movers : move[g].pc \in {"idle", "lock", "prepare", "absorb", "record",
                                          "discard", "abort", "unlock"}
  BY DEF TypeInv, MoveType, MoveRecords
<1> QED BY <1>2, <1>3, <1>4 DEF TypeInv, NodeType, TypeOK

-----------------------------------------------------------------------------
(* A log is in step with the memory, and the copies are counted *)

LEMMA CallEffect ==
  ASSUME TypeInv, NEW c \in Calls, Answered(c) \/ Failed(c)
  PROVE  /\ InStep => InStep'
         /\ late' \subseteq late \cup {c}
         /\ \A n \in Nodes \ {c.node} : held'[n] = held[n] /\ saved'[n] = saved[n]
         /\ c.kind # "discard" => \A n \in Nodes : saved[n] \subseteq saved'[n]
         /\ Answered(c) /\ c.kind = "absorb" => c.copy \subseteq saved'[c.node]
         /\ \A n \in Nodes, m \in Messages :
              \/ held'[n][m] <= held[n][m]
              \/ c.kind = "absorb" /\ held'[n][m] = held[n][m] + 1 /\ late' = late
<1>1. CASE Answered(c)
  BY <1>1, DoEffect DEF Answered, TypeInv
<1>2. CASE Failed(c) /\ ~Answered(c)
  <2>1. UNCHANGED <<held, saved, frozen, up>> /\ late' \subseteq late \cup {c}
    BY <1>2 DEF Failed, node
  <2>2. \A n \in Nodes, m \in Messages : held'[n][m] <= held[n][m]
    BY <2>1 DEF TypeInv, NodeType
  <2>3. InStep => InStep'
    BY <2>1 DEF InStep
  <2> QED BY <1>2, <2>1, <2>2, <2>3
<1> QED BY <1>1, <1>2

LEMMA NextInStep ==
  ASSUME TypeInv, InStep, [Next]_vars
  PROVE  InStep'
<1>1. ASSUME NEW g \in Routers, NEW m \in Messages, Send(g, m) PROVE InStep'
  <2> DEFINE n == Route(g)
  <2>1. CASE UNCHANGED <<held, saved, history>>
    BY <1>1, <2>1 DEF Send, InStep
  <2>2. CASE EnqueueAt(n, m)
    <3>1. n \in Nodes /\ up' = up
      BY <1>1 DEF Send, TypeInv, NodeType
    <3> HIDE DEF n
    <3>2. /\ \A k \in Nodes \ {n} : held'[k] = held[k] /\ saved'[k] = saved[k]
          /\ held'[n][m] = 1 /\ \A i \in Messages \ {m} : held'[n][i] = held[n][i]
          /\ saved'[n] = saved[n] \cup {m}
      BY <2>2, <3>1 DEF EnqueueAt, TypeInv, NodeType
    <3> SUFFICES ASSUME NEW k \in up, NEW i \in saved'[k] PROVE held'[k][i] > 0
      BY <3>1 DEF InStep
    <3>3. k \in Nodes /\ saved[k] \subseteq Messages
      BY DEF TypeInv, NodeType
    <3>4. i \in saved[k] \/ (k = n /\ i = m)
      BY <3>2, <3>3
    <3>5. i \in saved[k] => held[k][i] > 0
      BY DEF InStep
    <3> QED BY <3>2, <3>3, <3>4, <3>5
  <2> QED BY <1>1, <2>1, <2>2 DEF Send
<1>2. ASSUME NEW g \in Routers, NEW m \in Messages, Ack(g, m) PROVE InStep'
  <2> DEFINE n == Route(g)
  <2>1. n \in Nodes /\ AckAt(n, m)
    BY <1>2 DEF Ack, TypeInv, NodeType
  <2> HIDE DEF n
  <2>2. /\ \A k \in Nodes \ {n} : held'[k] = held[k] /\ saved'[k] = saved[k]
        /\ \A i \in Messages \ {m} : held'[n][i] = held[n][i]
        /\ saved'[n] = saved[n] \ {m}
    BY <2>1 DEF AckAt, TypeInv, NodeType
  <2> QED BY <1>2, <2>1, <2>2 DEF Ack, InStep, TypeInv, NodeType
<1>3. ASSUME NEW g \in Movers, Prepare(g) \/ Absorb(g) \/ Discard(g) \/ Abort(g) PROVE InStep'
  <2>1. /\ move[g].from \in Nodes /\ move[g].to \in Nodes
        /\ move[g].copy \in SUBSET Messages
    BY <1>3 DEF Prepare, Absorb, Discard, Abort, TypeInv, MoveType, MoveRecords
  <2>2. PICK c \in Calls : Answered(c) \/ Failed(c)
    BY <1>3, <2>1, CallKinds DEF Prepare, Absorb, Discard, Abort
  <2> QED BY <2>2, CallEffect
<1>4. ASSUME NEW g \in Reconcilers, NEW c \in pass[g].fixes, Repair(g, c) PROVE InStep'
  <2>1. c \in Calls
    BY RepairKinds DEF TypeInv, PassRecords
  <2> QED BY <1>4, <2>1, CallEffect DEF Repair
<1>5. ASSUME NEW c \in late, Late(c) PROVE InStep'
  BY <1>5, DoEffect DEF Late, TypeInv
<1>6. ASSUME NEW n \in Nodes, NodeDies(n) PROVE InStep'
  BY <1>6 DEF NodeDies, InStep, TypeInv, NodeType
<1>7. ASSUME NEW n \in Nodes, NodeRestarts(n) PROVE InStep'
  BY <1>7 DEF NodeRestarts, InStep, TypeInv, NodeType
<1>8. CASE UNCHANGED <<held, saved, up>>
  BY <1>8 DEF InStep
<1>9. \/ \E g \in Routers, m \in Messages : Send(g, m) \/ Ack(g, m)
      \/ \E g \in Movers : Prepare(g) \/ Absorb(g) \/ Discard(g) \/ Abort(g)
      \/ \E g \in Reconcilers : \E c \in pass[g].fixes : Repair(g, c)
      \/ \E c \in late : Late(c)
      \/ \E n \in Nodes : NodeDies(n) \/ NodeRestarts(n)
      \/ UNCHANGED <<held, saved, up>>
  <2>1. ASSUME NEW g \in Routers, Look(g) \/ Forget(g) PROVE UNCHANGED <<held, saved, up>>
    BY <2>1 DEF Look, Forget, node
  <2>2. ASSUME NEW g \in Movers, (\E n \in Nodes : Plan(g, n)) \/ Lock(g) \/ Record(g) \/ Unlock(g)
        PROVE  UNCHANGED <<held, saved, up>>
    BY <2>2 DEF Plan, Lock, Record, Unlock, node
  <2>3. ASSUME NEW g \in Reconcilers, (\E n \in Nodes : Ask(g, n)) \/ ReadRows(g)
        PROVE  UNCHANGED <<held, saved, up>>
    BY <2>3 DEF Ask, ReadRows, node
  <2>4. ASSUME Lapse \/ (\E g \in Gateways : GatewayDies(g)) \/ UNCHANGED vars
        PROVE  UNCHANGED <<held, saved, up>>
    BY <2>4 DEF Lapse, GatewayDies, node, vars
  <2> QED BY <2>1, <2>2, <2>3, <2>4 DEF Next, MoveStep, PassStep
<1> QED BY <1>1, <1>2, <1>3, <1>4, <1>5, <1>6, <1>7, <1>8, <1>9

(* Fewer copies to come, and none more that are there - save the first. *)
LEMMA FewerCopies ==
  ASSUME TypeInv, TypeInv', CopiesCounted,
         ToCopy' \subseteq ToCopy, LateCopies' \subseteq LateCopies, moves' = moves,
         \A n \in Nodes, m \in Messages : held'[n][m] <= held[n][m] \/ held'[n][m] <= 1
  PROVE  CopiesCounted'
<1>1. IsFiniteSet(ToCopy') /\ Cardinality(ToCopy') <= Cardinality(ToCopy)
  BY FS_Subset DEF CopiesCounted
<1>2. IsFiniteSet(LateCopies') /\ Cardinality(LateCopies') <= Cardinality(LateCopies)
  BY FS_Subset DEF CopiesCounted
<1>3. /\ Cardinality(ToCopy) \in Nat /\ Cardinality(LateCopies) \in Nat
      /\ Cardinality(ToCopy)' \in Nat /\ Cardinality(LateCopies)' \in Nat
  BY <1>1, <1>2, FS_CardinalityType DEF CopiesCounted
<1>4. Coming \in Nat /\ Coming' \in Nat /\ Coming' <= Coming
  BY <1>1, <1>2, <1>3 DEF Coming
<1>5. ASSUME NEW n \in Nodes, NEW m \in Messages PROVE held'[n][m] + Coming' <= moves' + 1
  <2>1. held[n][m] \in Nat /\ held'[n][m] \in Nat /\ moves \in Nat
    BY DEF TypeInv, NodeType
  <2>2. held[n][m] + Coming <= moves + 1 /\ Coming <= moves
    BY DEF CopiesCounted
  <2> QED BY <1>4, <2>1, <2>2
<1>6. Coming' <= moves'
  BY <1>4 DEF CopiesCounted, TypeInv
<1> QED BY <1>1, <1>2, <1>5, <1>6 DEF CopiesCounted

(* One copy less to come, and one more that is there. *)
LEMMA CopyArrives ==
  ASSUME TypeInv, TypeInv', CopiesCounted, moves' = moves,
         IsFiniteSet(ToCopy'), IsFiniteSet(LateCopies'),
         \/ /\ Cardinality(ToCopy') = Cardinality(ToCopy) - 1
            /\ Cardinality(LateCopies') <= Cardinality(LateCopies)
         \/ /\ Cardinality(ToCopy') <= Cardinality(ToCopy)
            /\ Cardinality(LateCopies') = Cardinality(LateCopies) - 1,
         \A n \in Nodes, m \in Messages :
           held'[n][m] <= held[n][m] \/ held'[n][m] = held[n][m] + 1
  PROVE  CopiesCounted'
<1>1. /\ Cardinality(ToCopy) \in Nat /\ Cardinality(LateCopies) \in Nat
      /\ Cardinality(ToCopy)' \in Nat /\ Cardinality(LateCopies)' \in Nat
  BY FS_CardinalityType DEF CopiesCounted
<1>2. Coming \in Nat /\ Coming' \in Nat /\ Coming' + 1 <= Coming
  BY <1>1 DEF Coming
<1>3. ASSUME NEW n \in Nodes, NEW m \in Messages PROVE held'[n][m] + Coming' <= moves' + 1
  <2>1. held[n][m] \in Nat /\ held'[n][m] \in Nat /\ moves \in Nat
    BY DEF TypeInv, NodeType
  <2>2. held[n][m] + Coming <= moves + 1
    BY DEF CopiesCounted
  <2> QED BY <1>2, <2>1, <2>2
<1>4. Coming' <= moves'
  <2>1. Coming <= moves /\ moves \in Nat
    BY DEF CopiesCounted, TypeInv
  <2>2. moves' = moves
    OBVIOUS
  <2>3. PICK a \in Nat, b \in Nat, c \in Nat : a = Coming /\ b = Coming' /\ c = moves
    BY ONLY <1>2, <2>1
  <2>4. b + 1 <= a /\ a <= c
    BY ONLY <1>2, <2>1, <2>3
  <2>5. b <= c
    BY ONLY <2>4
  <2> QED BY ONLY <2>2, <2>3, <2>5
<1> QED BY <1>3, <1>4 DEF CopiesCounted

LEMMA NextCounted ==
  ASSUME TypeInv, CopiesCounted, [Next]_vars
  PROVE  CopiesCounted'
<1>0. TypeInv'
  BY NextType
<1>m. /\ move \in [Movers -> MoveRecords]
      /\ \A n \in Nodes, m \in Messages : held[n][m] \in Nat
  BY DEF TypeInv, NodeType, MoveType
<1>1. ASSUME NEW g \in Routers, NEW m \in Messages, Send(g, m) PROVE CopiesCounted'
  <2>1. \A n \in Nodes, i \in Messages : held'[n][i] <= held[n][i] \/ held'[n][i] <= 1
    <3>1. CASE held' = held
      BY <1>m, <3>1
    <3>2. CASE held' = [held EXCEPT ![Route(g)][m] = 1]
      BY <1>m, <3>2 DEF TypeInv, NodeType
    <3> QED BY <1>1, <3>1, <3>2 DEF Send, EnqueueAt
  <2> QED BY <1>0, <1>1, <2>1, FewerCopies DEF Send, ToCopy, LateCopies, bounds
<1>2. ASSUME NEW g \in Routers, NEW m \in Messages, Ack(g, m) PROVE CopiesCounted'
  <2>1. \A n \in Nodes, i \in Messages : held'[n][i] <= held[n][i]
    BY <1>m, <1>2 DEF Ack, AckAt, TypeInv, NodeType
  <2> QED BY <1>0, <1>2, <2>1, FewerCopies DEF Ack, ToCopy, LateCopies, bounds
<1>3. ASSUME NEW g \in Movers, NEW to \in Nodes, Plan(g, to) PROVE CopiesCounted'
  <2>1. ToCopy' = ToCopy \cup {g}
    BY <1>m, <1>3 DEF Plan, ToCopy, NoMove
  <2>2. g \notin ToCopy
    BY <1>3 DEF Plan, ToCopy
  <2>3. IsFiniteSet(ToCopy') /\ Cardinality(ToCopy') = Cardinality(ToCopy) + 1
    BY <2>1, <2>2, FS_AddElement DEF CopiesCounted
  <2>4. LateCopies' = LateCopies /\ held' = held /\ moves' = moves + 1
    BY <1>3 DEF Plan, LateCopies, node
  <2>5. Coming \in Nat /\ Coming' = Coming + 1
    BY <2>3, <2>4, FS_CardinalityType DEF Coming, CopiesCounted
  <2>6. Coming' <= moves'
    BY <2>4, <2>5 DEF CopiesCounted, TypeInv
  <2>7. \A n \in Nodes, m \in Messages : held'[n][m] + Coming' <= moves' + 1
    BY <1>m, <2>4, <2>5 DEF CopiesCounted, TypeInv
  <2> QED BY <2>3, <2>4, <2>6, <2>7 DEF CopiesCounted
<1>4. ASSUME NEW g \in Movers, Absorb(g) PROVE CopiesCounted'
  <2> DEFINE c == CallTo("absorb", move[g].to, move[g].copy)
  <2>1. c \in Calls /\ c.kind = "absorb"
    BY <1>4, <1>m, CallKinds DEF Absorb, TypeInv, MoveType, MoveRecords
  <2>2. Answered(c) \/ Failed(c)
    BY <1>4 DEF Absorb
  <2>3. ToCopy' = ToCopy \ {g} /\ g \in ToCopy
    BY <1>m, <1>4, GotoEffect DEF Absorb, ToCopy
  <2>4. /\ IsFiniteSet(ToCopy') /\ Cardinality(ToCopy') = Cardinality(ToCopy) - 1
        /\ Cardinality(ToCopy) \in Nat /\ Cardinality(ToCopy') \in Nat
    <3>1. IsFiniteSet(ToCopy')
      BY <2>3, FS_RemoveElement DEF CopiesCounted
    <3>2. Cardinality(ToCopy) \in Nat /\ Cardinality(ToCopy') \in Nat
      BY <3>1, FS_CardinalityType DEF CopiesCounted
    <3> QED BY <2>3, <3>1, <3>2, FS_RemoveElement DEF CopiesCounted
  <2>5. moves' = moves
    BY <1>4 DEF Absorb
  <2> HIDE DEF c
  <2>6. CASE late' = late
    <3>1. LateCopies' = LateCopies
      BY <2>6 DEF LateCopies
    <3> QED BY <1>0, <2>1, <2>2, <2>4, <2>5, <3>1, CallEffect, CopyArrives, FS_CardinalityType
            DEF CopiesCounted
  <2>7. CASE late' = late \cup {c} /\ held' = held
    <3>1. LateCopies' = LateCopies \cup {c}
      BY <2>1, <2>7 DEF LateCopies
    <3>f. IsFiniteSet(LateCopies) /\ Cardinality(LateCopies) \in Nat
      BY FS_CardinalityType DEF CopiesCounted
    <3>2. /\ IsFiniteSet(LateCopies')
          /\ Cardinality(LateCopies') <= Cardinality(LateCopies) + 1
          /\ Cardinality(LateCopies) \in Nat /\ Cardinality(LateCopies') \in Nat
      <4>1. IsFiniteSet(LateCopies')
        BY <3>1, <3>f, FS_AddElement
      <4>2. Cardinality(LateCopies') \in Nat
        BY <4>1, FS_CardinalityType
      <4>3. \/ Cardinality(LateCopies') = Cardinality(LateCopies)
            \/ Cardinality(LateCopies') = Cardinality(LateCopies) + 1
        BY <3>1, <3>f, FS_AddElement
      <4> QED BY <3>f, <4>1, <4>2, <4>3
    <3>3. Coming \in Nat /\ Coming' \in Nat /\ Coming' <= Coming
      BY <2>4, <3>2 DEF Coming
    <3>4. /\ Coming' <= moves'
          /\ \A n \in Nodes, m \in Messages : held'[n][m] + Coming' <= moves' + 1
      BY <1>m, <2>5, <2>7, <3>3 DEF CopiesCounted, TypeInv
    <3> QED BY <2>4, <3>2, <3>4 DEF CopiesCounted
  <2>8. Failed(c) => late' = late \/ (late' = late \cup {c} /\ held' = held)
    BY DEF Failed, node
  <2>9. Answered(c) => late' = late
    BY DEF Answered
  <2> QED BY <2>2, <2>6, <2>7, <2>8, <2>9
<1>5. ASSUME NEW g \in Movers, Prepare(g) \/ Discard(g) \/ Abort(g) PROVE CopiesCounted'
  <2>1. /\ move[g].from \in Nodes /\ moves' = moves
    BY <1>5 DEF Prepare, Discard, Abort, TypeInv, MoveType
  <2>2. PICK c \in Calls : c.kind # "absorb" /\ (Answered(c) \/ Failed(c))
    BY <1>5, <2>1, CallKinds DEF Prepare, Discard, Abort
  <2>3. LateCopies' \subseteq LateCopies
    BY <2>2, CallEffect DEF LateCopies
  <2>4. \A n \in Nodes, m \in Messages : held'[n][m] <= held[n][m]
    BY <2>2, CallEffect
  <2>5. ToCopy' \subseteq ToCopy
    <3>1. CASE Prepare(g)
      BY <1>m, <3>1 DEF Prepare, Goto, ToCopy, MoveRecords
    <3>2. CASE Discard(g) \/ Abort(g)
      BY <1>m, <3>2, GotoEffect DEF Discard, Abort, ToCopy
    <3> QED BY <1>5, <3>1, <3>2
  <2> QED BY <1>0, <2>1, <2>3, <2>4, <2>5, FewerCopies
<1>6. ASSUME NEW g \in Movers, Lock(g) \/ Record(g) \/ Unlock(g) PROVE CopiesCounted'
  <2>1. ToCopy' \subseteq ToCopy
    <3>1. CASE move' = [move EXCEPT ![g] = NoMove]
      BY <1>m, <3>1 DEF ToCopy, NoMove
    <3>2. CASE move' # [move EXCEPT ![g] = NoMove]
      <4>1. PICK pc \in {"prepare", "discard", "abort", "unlock"} :
              Goto(g, pc) /\ (pc = "prepare" => move[g].pc = "lock")
        BY <1>6, <3>2 DEF Lock, Record, Unlock
      <4> QED BY <1>m, <4>1, GotoEffect DEF ToCopy
    <3> QED BY <3>1, <3>2
  <2> QED BY <1>0, <1>m, <1>6, <2>1, FewerCopies DEF Lock, Record, Unlock, LateCopies, node, bounds
<1>7. ASSUME NEW g \in Reconcilers, NEW c \in pass[g].fixes, Repair(g, c) PROVE CopiesCounted'
  <2>1. c \in Calls /\ c.kind # "absorb"
    BY RepairKinds DEF TypeInv, PassRecords
  <2>2. LateCopies' \subseteq LateCopies
    BY <1>7, <2>1, CallEffect DEF LateCopies, Repair
  <2>3. \A n \in Nodes, m \in Messages : held'[n][m] <= held[n][m]
    BY <1>7, <2>1, CallEffect DEF Repair
  <2> QED BY <1>0, <1>7, <2>2, <2>3, FewerCopies DEF Repair, ToCopy
<1>8. ASSUME NEW c \in late, Late(c) PROVE CopiesCounted'
  <2>1. c \in Calls /\ c.node \in up /\ Do(c) /\ late' = late \ {c}
    BY <1>8 DEF Late, TypeInv
  <2>2. \A n \in Nodes, m \in Messages :
          \/ held'[n][m] <= held[n][m]
          \/ c.kind = "absorb" /\ held'[n][m] = held[n][m] + 1
    BY <2>1, DoEffect DEF TypeInv
  <2>3. ToCopy' = ToCopy /\ moves' = moves
    BY <1>8 DEF Late, ToCopy, bounds
  <2>4. CASE c.kind = "absorb"
    <3>1. LateCopies' = LateCopies \ {c} /\ c \in LateCopies
      BY <2>1, <2>4 DEF LateCopies
    <3>2. /\ IsFiniteSet(LateCopies')
          /\ Cardinality(LateCopies') = Cardinality(LateCopies) - 1
      BY <3>1, FS_RemoveElement DEF CopiesCounted
    <3> QED BY <1>0, <2>2, <2>3, <3>2, CopyArrives, FS_CardinalityType DEF CopiesCounted
  <2>5. CASE c.kind # "absorb"
    <3>1. LateCopies' \subseteq LateCopies
      BY <2>1 DEF LateCopies
    <3> QED BY <1>0, <2>2, <2>3, <2>5, <3>1, FewerCopies
  <2> QED BY <2>4, <2>5
<1>9. ASSUME NEW n \in Nodes, NodeDies(n) \/ NodeRestarts(n) PROVE CopiesCounted'
  <2>1. \A k \in Nodes, m \in Messages : held'[k][m] <= held[k][m] \/ held'[k][m] <= 1
    <3>1. CASE NodeDies(n)
      BY <1>m, <3>1 DEF NodeDies, TypeInv, NodeType
    <3>2. CASE NodeRestarts(n)
      BY <1>m, <3>2 DEF NodeRestarts, TypeInv, NodeType
    <3> QED BY <1>9, <3>1, <3>2
  <2> QED BY <1>0, <1>9, <2>1, FewerCopies
          DEF NodeDies, NodeRestarts, ToCopy, LateCopies, bounds
<1>10. ASSUME NEW g \in Gateways, GatewayDies(g) PROVE CopiesCounted'
  <2>1. ToCopy' \subseteq ToCopy
    BY <1>10 DEF GatewayDies, ToCopy, NoMove
  <2> QED BY <1>0, <1>m, <1>10, <2>1, FewerCopies DEF GatewayDies, LateCopies, node
<1>11. CASE UNCHANGED <<held, move, late, moves>>
  BY <1>0, <1>m, <1>11, FewerCopies DEF ToCopy, LateCopies
<1>12. ASSUME NEW g \in Routers, Look(g) \/ Forget(g) PROVE UNCHANGED <<held, move, late, moves>>
  BY <1>12 DEF Look, Forget, node, bounds
<1>13. ASSUME NEW g \in Reconcilers, (\E n \in Nodes : Ask(g, n)) \/ ReadRows(g)
       PROVE  UNCHANGED <<held, move, late, moves>>
  BY <1>13 DEF Ask, ReadRows, node, bounds
<1>14. ASSUME Lapse \/ UNCHANGED vars PROVE UNCHANGED <<held, move, late, moves>>
  BY <1>14 DEF Lapse, node, bounds, vars
<1> QED
  BY <1>1, <1>2, <1>3, <1>4, <1>5, <1>6, <1>7, <1>8, <1>9, <1>10, <1>11, <1>12, <1>13, <1>14
     DEF Next, MoveStep, PassStep

LEMMA InitCounted == Init => CopiesCounted /\ InStep
<1> SUFFICES ASSUME Init PROVE CopiesCounted /\ InStep
  OBVIOUS
<1>1. ToCopy = {} /\ LateCopies = {}
  BY DEF Init, ToCopy, LateCopies, NoMove
<1>2. Coming = 0 /\ IsFiniteSet({})
  BY <1>1, FS_EmptySet DEF Coming
<1> QED BY <1>1, <1>2 DEF Init, CopiesCounted, InStep

(* The variables keep their types; a node that is down has nothing in      *)
(* memory, and no node ever has more copies of a message than moves have   *)
(* brought it and the one that was sent.                                   *)
THEOREM TypeCorrect == Spec => []TypeOK
<1>1. Spec => [](TypeInv /\ CopiesCounted)
  BY InitType, InitCounted, NextType, NextCounted, PTL DEF Spec
<1> QED BY <1>1, TypeFollows, PTL

-----------------------------------------------------------------------------
(* The lock *)

(* What is at risk stays at risk. *)
LEMMA RiskStays ==
  ASSUME TypeInv, [Next]_vars
  PROVE  risked \subseteq risked'
<1> USE DEF bounds, history
<1>1. ASSUME NEW g \in Routers,
             Look(g) \/ Forget(g) \/ (\E m \in Messages : Send(g, m) \/ Ack(g, m))
      PROVE  risked \subseteq risked'
  BY <1>1 DEF Look, Forget, Send, Ack
<1>2. ASSUME NEW g \in Movers, (\E n \in Nodes : Plan(g, n)) \/ Lock(g) \/ Prepare(g) \/ Absorb(g)
      PROVE  risked \subseteq risked'
  BY <1>2 DEF Plan, Lock, Prepare, Absorb, TypeInv
<1>3. ASSUME NEW g \in Movers, Record(g) \/ Discard(g) \/ Abort(g) \/ Unlock(g)
      PROVE  risked \subseteq risked'
  BY <1>3 DEF Record, SetOwner, Discard, Abort, Unlock
<1>4. ASSUME NEW g \in Reconcilers, PassStep(g) PROVE risked \subseteq risked'
  BY <1>4 DEF PassStep, Ask, ReadRows, Repair
<1>5. ASSUME NEW n \in Nodes, NodeDies(n) \/ NodeRestarts(n) PROVE risked \subseteq risked'
  BY <1>5 DEF NodeDies, NodeRestarts
<1>6. ASSUME Lapse \/ (\E g \in Gateways : GatewayDies(g)) \/ (\E c \in late : Late(c))
               \/ UNCHANGED vars
      PROVE  risked \subseteq risked'
  BY <1>6 DEF Lapse, GatewayDies, Late, vars
<1> QED BY <1>1, <1>2, <1>3, <1>4, <1>5, <1>6 DEF Next, MoveStep

(* A mover that has the lock, or had it, comes from Lock, and the row is   *)
(* active again only when it has gone.                                     *)
LEMMA NextOneMover ==
  ASSUME TypeInv, OneMover, [Next]_vars, risked' # Messages
  PROVE  OneMover'
<1> USE DEF bounds, history
<1>m. move \in [Movers -> MoveRecords] /\ row \in [owner : Nodes, state : {"active", "migrating", "lapsed"}]
  BY DEF TypeInv, MoveType
<1> DEFINE Calm == /\ \A h \in Movers : Moving(h)' => Moving(h)
                   /\ row'.state = "active" => row.state = "active"
<1>1. CASE Calm
  BY <1>1 DEF OneMover
<1>2. ASSUME NEW g \in Movers, Lock(g) PROVE OneMover'
  <2>1. CASE row.state = "migrating"
    <3>1. row' = row /\ move' = [move EXCEPT ![g] = NoMove]
      BY <1>2, <2>1 DEF Lock
    <3> QED BY <1>m, <3>1 DEF OneMover, Moving, NoMove
  <2>2. CASE row.state # "migrating"
    <3>0. /\ row' = [row EXCEPT !.state = "migrating"] /\ Goto(g, "prepare")
          /\ risked' = IF \E h \in Movers : Moving(h) THEN Messages ELSE risked
      BY <1>2, <2>2 DEF Lock
    <3>1. \A h \in Movers : ~ Moving(h)
      BY <3>0
    <3>2. \A h \in Movers : Moving(h)' => h = g
      BY <1>m, <3>0, <3>1, GotoEffect DEF Moving
    <3>3. row'.state # "active"
      BY <1>m, <3>0
    <3> QED BY <3>2, <3>3 DEF OneMover
  <2> QED BY <2>1, <2>2
<1>3. ASSUME NEW g \in Movers, Unlock(g) PROVE OneMover'
  <2>1. Moving(g) /\ move' = [move EXCEPT ![g] = NoMove]
    BY <1>3 DEF Unlock, Moving
  <2>2. \A h \in Movers : ~ Moving(h)'
    BY <1>m, <2>1 DEF OneMover, Moving, NoMove
  <2> QED BY <2>2 DEF OneMover
<1>4. ASSUME NEW g \in Movers, Prepare(g) \/ Absorb(g) \/ Record(g) \/ Discard(g) \/ Abort(g)
      PROVE  Calm
  <2>1. \A h \in Movers : Moving(h)' => Moving(h)
    <3>1. Moving(g)
      BY <1>4 DEF Prepare, Absorb, Record, Discard, Abort, Moving
    <3>2. \A h \in Movers \ {g} : move'[h] = move[h]
      BY <1>4, <1>m DEF Prepare, Absorb, Record, Discard, Abort, Goto
    <3> QED BY <3>1, <3>2 DEF Moving
  <2>2. row'.state = row.state
    BY <1>4, <1>m DEF Prepare, Absorb, Record, SetOwner, Discard, Abort
  <2> QED BY <2>1, <2>2
<1>5. ASSUME NEW g \in Movers, NEW n \in Nodes, Plan(g, n) PROVE Calm
  BY <1>5, <1>m DEF Plan, NoMove, Moving
<1>6. ASSUME NEW g \in Gateways, GatewayDies(g) PROVE Calm
  BY <1>6 DEF GatewayDies, NoMove, Moving
<1>7. CASE UNCHANGED <<row, move>>
  <2>1. \A h \in Movers : Moving(h)' = Moving(h)
    BY <1>7 DEF Moving
  <2> QED BY <1>7, <2>1 DEF OneMover
<1>8. CASE Lapse
  <2>1. /\ row'.state # "active" /\ \A h \in Movers : Moving(h)' = Moving(h)
    BY <1>8, <1>m DEF Lapse, Moving
  <2> QED BY <2>1 DEF OneMover
<1>9. \/ \E g \in Movers : MoveStep(g) \/ (\E n \in Nodes : Plan(g, n))
      \/ \E g \in Gateways : GatewayDies(g)
      \/ Lapse \/ UNCHANGED <<row, move>>
  <2>1. ASSUME NEW g \in Routers,
               Look(g) \/ Forget(g) \/ (\E m \in Messages : Send(g, m) \/ Ack(g, m))
        PROVE  UNCHANGED <<row, move>>
    BY <2>1 DEF Look, Forget, Send, Ack
  <2>2. ASSUME NEW g \in Reconcilers, PassStep(g) PROVE UNCHANGED <<row, move>>
    BY <2>2 DEF PassStep, Ask, ReadRows, Repair
  <2>3. ASSUME NEW n \in Nodes, NodeDies(n) \/ NodeRestarts(n) PROVE UNCHANGED <<row, move>>
    BY <2>3 DEF NodeDies, NodeRestarts
  <2>4. ASSUME (\E c \in late : Late(c)) \/ UNCHANGED vars PROVE UNCHANGED <<row, move>>
    BY <2>4 DEF Late, vars
  <2> QED BY <2>1, <2>2, <2>3, <2>4 DEF Next
<1> HIDE DEF Calm
<1> QED BY <1>1, <1>2, <1>3, <1>4, <1>5, <1>6, <1>7, <1>8, <1>9 DEF MoveStep

-----------------------------------------------------------------------------
(* The owner has everything *)

(* Movers that stay where they are or give up, messages that are not       *)
(* taken from the owner or from the one that is to be it.                  *)
LEMMA CopiesStay ==
  ASSUME TypeInv, TypeInv', CopyComplete, OwnerHasAll,
         row'.owner = row.owner,
         \A h \in Movers : \/ move'[h] = move[h]
                           \/ move'[h].pc \notin {"absorb", "record", "discard"},
         Accepted' \subseteq Accepted,
         \A n \in Nodes : Receives(n) => Accepted' \cap saved[n] \subseteq saved'[n]
  PROVE  CopyComplete' /\ OwnerHasAll'
<1>1. OwnerHasAll'
  BY DEF OwnerHasAll, Receives, TypeInv
<1>2. ASSUME NEW g \in Movers, move'[g].pc \in {"absorb", "record", "discard"}
      PROVE  /\ move'[g].pc = "absorb" /\ move'[g].from = row'.owner => Accepted' \subseteq move'[g].copy
             /\ move'[g].pc = "record" /\ move'[g].from = row'.owner => Accepted' \subseteq saved'[move'[g].to]
             /\ move'[g].pc = "discard" => row'.owner = move'[g].to
  <2>1. move'[g] = move[g]
    BY <1>2
  <2>2. move[g].pc = "record" => Receives(move[g].to) /\ move[g].to \in Nodes
    BY DEF Receives, TypeInv, MoveType
  <2> QED BY <2>1, <2>2 DEF CopyComplete
<1> QED BY <1>1, <1>2 DEF CopyComplete

(* Repairs that were planned stay as outdated as they were. *)
LEMMA PassesStay ==
  ASSUME Outdated,
         \A n \in Nodes : Receives(n)' => Receives(n),
         \A h \in Reconcilers : /\ pass'[h].fixes \subseteq pass[h].fixes
                                /\ pass'[h].fixes # {} => pass[h].overtaken \subseteq pass'[h].overtaken
  PROVE  Outdated'
BY DEF Outdated, CallTo

(* Who is overtaken knows it. *)
LEMMA OvertakeEffect ==
  ASSUME TypeInv, NEW n \in Nodes, Overtake(n)
  PROVE  /\ \A h \in Reconcilers : /\ pass'[h].fixes = pass[h].fixes
                                   /\ pass[h].overtaken \subseteq pass'[h].overtaken
                                   /\ CallTo("discard", n, {}) \in pass[h].fixes => n \in pass'[h].overtaken
BY DEF Overtake, TypeInv, PassRecords

(* A reconciler that still has n to discard has been overtaken by whatever *)
(* gave the queue to n.                                                    *)
LEMMA OvertakenStay ==
  ASSUME TypeInv, Outdated, NEW n \in Nodes, Overtake(n),
         \A k \in Nodes : Receives(k)' => Receives(k) \/ k = n
  PROVE  Outdated'
BY OvertakeEffect DEF Outdated, CallTo

LEMMA AcceptedShrinks ==
  ASSUME fate' = fate, risked \subseteq risked'
  PROVE  Accepted' \subseteq Accepted
BY DEF Accepted

(* A call of another kind than a discard takes nothing away. *)
LEMMA CallKeeps ==
  ASSUME TypeInv, NEW c \in Calls, Answered(c) \/ Failed(c), c.kind # "discard"
  PROVE  \A n \in Nodes : Receives(n) => Accepted' \cap saved[n] \subseteq saved'[n]
BY CallEffect

LEMMA NextOrderly ==
  ASSUME TypeInv, InStep, Orderly, [Next]_vars, risked' # Messages
  PROVE  Orderly'
<1> USE DEF bounds, history
<1>t. TypeInv' /\ risked \subseteq risked'
  BY NextType, RiskStays
<1>o. OneMover'
  BY NextOneMover DEF Orderly
<1>m. /\ OneMover /\ CopyComplete /\ Outdated /\ OwnerHasAll
      /\ move \in [Movers -> MoveRecords] /\ pass \in [Reconcilers -> PassRecords]
  BY DEF Orderly, TypeInv, MoveType
<1>q. ASSUME row'.owner = row.owner,
             \A h \in Movers : \/ move'[h] = move[h]
                               \/ move'[h].pc \notin {"absorb", "record", "discard"}
      PROVE  \A n \in Nodes : Receives(n)' => Receives(n)
  BY <1>q DEF Receives
<1>1. ASSUME NEW g \in Routers, Look(g) \/ Forget(g) PROVE Orderly'
  <2>1. UNCHANGED <<row, move, pass, saved, fate, risked>>
    BY <1>1 DEF Look, Forget, node
  <2>2. Accepted' = Accepted
    BY <2>1 DEF Accepted
  <2> QED BY <1>m, <1>o, <2>1, <2>2, <1>t DEF Orderly, CopyComplete, Outdated, OwnerHasAll, Receives
<1>2. ASSUME NEW g \in Routers, NEW m \in Messages, Send(g, m) PROVE Orderly'
  <2> DEFINE n == Route(g)
  <2>0. UNCHANGED <<row, move, pass>> /\ n \in Nodes /\ n \in up
    BY <1>2 DEF Send, TypeInv, NodeType
  <2>1. Outdated'
    BY <1>m, <2>0 DEF Outdated, Receives
  <2>2. CASE UNCHANGED <<saved, fate, risked>>
    BY <1>m, <1>o, <2>0, <2>1, <2>2 DEF Orderly, CopyComplete, OwnerHasAll, Accepted
  <2>3. CASE /\ saved' = [saved EXCEPT ![n] = @ \cup {m}]
             /\ fate' = [fate EXCEPT ![m] = "kept"]
             /\ risked' = IF n # row.owner \/ Copied(n) THEN risked \cup {m} ELSE risked
    <3> HIDE DEF n
    <3>1. /\ \A k \in Nodes : saved[k] \subseteq saved'[k]
          /\ m \in saved'[n]
          /\ Accepted' \subseteq Accepted \cup {m}
      BY <2>0, <2>3 DEF TypeInv, NodeType, Accepted
    <3>2. CASE n # row.owner \/ Copied(n)
      <4>1. Accepted' \subseteq Accepted
        BY <2>3, <3>2 DEF Accepted, TypeInv
      <4>2. CopyComplete' /\ OwnerHasAll'
        BY <1>m, <1>t, <2>0, <3>1, <4>1, CopiesStay
      <4> QED BY <1>o, <2>1, <4>2 DEF Orderly
    <3>3. CASE n = row.owner /\ ~ Copied(n)
      <4>1. OwnerHasAll'
        BY <1>m, <2>0, <3>1, <3>3 DEF OwnerHasAll
      <4>2. CopyComplete'
        BY <1>m, <2>0, <3>3 DEF CopyComplete, Copied
      <4> QED BY <1>o, <2>1, <4>1, <4>2 DEF Orderly
    <3> QED BY <3>2, <3>3
  <2> QED BY <1>2, <2>2, <2>3 DEF Send, EnqueueAt
<1>3. ASSUME NEW g \in Routers, NEW m \in Messages, Ack(g, m) PROVE Orderly'
  <2> DEFINE n == Route(g)
  <2>0. /\ UNCHANGED <<row, move, pass, risked>> /\ n \in Nodes
        /\ saved' = [saved EXCEPT ![n] = @ \ {m}] /\ fate' = [fate EXCEPT ![m] = "done"]
    BY <1>3 DEF Ack, AckAt, TypeInv, NodeType
  <2> HIDE DEF n
  <2>1. Accepted' \subseteq Accepted \ {m}
    BY <2>0 DEF Accepted, TypeInv
  <2>2. \A k \in Nodes : Accepted' \cap saved[k] \subseteq saved'[k]
    BY <2>0, <2>1 DEF TypeInv, NodeType
  <2>3. CopyComplete' /\ OwnerHasAll'
    BY <1>m, <1>t, <2>0, <2>1, <2>2, CopiesStay
  <2>4. Outdated'
    BY <1>m, <2>0 DEF Outdated, Receives
  <2> QED BY <1>o, <2>3, <2>4 DEF Orderly
<1>4. ASSUME NEW g \in Movers, (\E n \in Nodes : Plan(g, n)) \/ Lock(g) \/ Unlock(g)
      PROVE  Orderly'
  <2>1. /\ row'.owner = row.owner /\ UNCHANGED <<saved, pass, fate>>
    BY <1>4 DEF Plan, Lock, Unlock, node, TypeInv
  <2>2. \A h \in Movers : move'[h] = move[h] \/ move'[h].pc \notin {"absorb", "record", "discard"}
    <3>1. CASE \E n \in Nodes : Plan(g, n)
      BY <1>m, <3>1 DEF Plan, NoMove
    <3>2. CASE Goto(g, "prepare")
      BY <1>m, <3>2, GotoEffect
    <3>3. CASE move' = [move EXCEPT ![g] = NoMove]
      BY <1>m, <3>3 DEF NoMove
    <3> QED BY <1>4, <3>1, <3>2, <3>3 DEF Lock, Unlock
  <2>3. Accepted' \subseteq Accepted
    BY <1>t, <2>1, AcceptedShrinks
  <2>4. CopyComplete' /\ OwnerHasAll'
    BY <1>m, <1>t, <2>1, <2>2, <2>3, CopiesStay
  <2>5. Outdated'
    BY <1>m, <1>q, <2>1, <2>2, PassesStay
  <2> QED BY <1>o, <2>4, <2>5 DEF Orderly
<1>5. ASSUME NEW g \in Movers, Prepare(g) PROVE Orderly'
  <2> DEFINE n == move[g].from
             c == CallTo("freeze", n, {})
  <2>1. n \in Nodes /\ UNCHANGED <<row, pass, fate, risked>> /\ Moving(g)
    BY <1>5 DEF Prepare, TypeInv, MoveType, Moving
  <2>2. c \in Calls /\ c.kind = "freeze" /\ (Answered(c) \/ Failed(c)) /\ c.node = n
    BY <1>5, <2>1, CallKinds DEF Prepare
  <2>3. Accepted' = Accepted
    BY <2>1 DEF Accepted
  <2>4. \A k \in Nodes : saved[k] \subseteq saved'[k]
    BY <2>2, CallEffect
  <2>5. \A h \in Movers \ {g} : move'[h] = move[h] /\ ~ Moving(h)
    BY <1>5, <1>m, <2>1 DEF Prepare, Goto, OneMover
  <2>6. \A k \in Nodes : Receives(k)' => Receives(k)
    <3>1. move'[g].pc # "record"
      BY <1>5, <1>m DEF Prepare, Goto, MoveRecords
    <3> QED BY <2>1, <2>5, <3>1 DEF Receives
  <2>7. Outdated'
    BY <1>m, <2>1, <2>6, PassesStay
  <2>8. OwnerHasAll'
    BY <1>m, <2>1, <2>3, <2>4 DEF OwnerHasAll, TypeInv
  <2>9. CopyComplete'
    <3>1. CASE Goto(g, "unlock")
      BY <1>m, <1>t, <2>1, <2>3, <2>4, <3>1, GotoEffect, CopiesStay
    <3>2. CASE Answered(c) /\ move' = [move EXCEPT ![g].pc = "absorb", ![g].copy = Holding(n)]
      <4>1. move'[g].pc = "absorb" /\ move'[g].from = n /\ move'[g].copy = Holding(n)
        BY <1>m, <3>2 DEF MoveRecords
      <4>2. n = row.owner => Accepted \subseteq Holding(n)
        BY <1>m, <2>2, <3>2 DEF Answered, OwnerHasAll, InStep, Holding, Accepted
      <4>3. \A h \in Movers \ {g} : move'[h].pc \notin {"absorb", "record", "discard"}
        BY <2>5 DEF Moving
      <4> QED BY <2>1, <2>3, <4>1, <4>2, <4>3 DEF CopyComplete
    <3> QED BY <1>5, <3>1, <3>2 DEF Prepare
  <2> QED BY <1>o, <2>7, <2>8, <2>9 DEF Orderly
<1>6. ASSUME NEW g \in Movers, Absorb(g) PROVE Orderly'
  <2> DEFINE n == move[g].to
             c == CallTo("absorb", n, move[g].copy)
  <2>1. /\ n \in Nodes /\ move[g].copy \in SUBSET Messages /\ Moving(g)
        /\ UNCHANGED <<row, fate, risked>>
    BY <1>6 DEF Absorb, TypeInv, MoveType, MoveRecords, Moving
  <2>2. /\ c \in Calls /\ c.kind = "absorb" /\ c.node = n /\ c.copy = move[g].copy
        /\ Answered(c) \/ Failed(c)
    BY <1>6, <2>1, CallKinds DEF Absorb
  <2>3. Accepted' = Accepted
    BY <2>1 DEF Accepted
  <2>4. \A k \in Nodes : saved[k] \subseteq saved'[k]
    BY <2>2, CallEffect
  <2>5. Overtake(n)
    BY <1>6, <2>2 DEF Absorb
  <2>6. CASE Goto(g, "abort")
    <3>1. \A h \in Movers : move'[h] = move[h] \/ move'[h].pc \notin {"absorb", "record", "discard"}
      BY <1>m, <2>6, GotoEffect
    <3>2. CopyComplete' /\ OwnerHasAll'
      BY <1>m, <1>t, <2>1, <2>3, <2>4, <3>1, CopiesStay
    <3>3. Outdated'
      BY <1>m, <1>q, <2>1, <2>5, <3>1, OvertakenStay
    <3> QED BY <1>o, <3>2, <3>3 DEF Orderly
  <2>7. CASE Answered(c) /\ Goto(g, "record")
    <3>1. /\ move'[g].pc = "record" /\ move'[g].from = move[g].from /\ move'[g].to = n
          /\ \A h \in Movers \ {g} : move'[h] = move[h]
      BY <1>m, <2>7, GotoEffect
    <3>2. \A h \in Movers \ {g} : move'[h].pc \notin {"absorb", "record", "discard"}
      BY <1>m, <2>1, <3>1 DEF OneMover, Moving
    <3>3. Outdated'
      <4>1. \A k \in Nodes : Receives(k)' => Receives(k) \/ k = n
        BY <2>1, <3>1 DEF Receives
      <4> QED BY <1>m, <2>1, <2>5, <4>1, OvertakenStay
    <3>4. OwnerHasAll'
      BY <1>m, <2>1, <2>3, <2>4 DEF OwnerHasAll, TypeInv
    <3>5. move[g].from = row.owner => Accepted \subseteq move[g].copy
      BY <1>6, <1>m DEF Absorb, CopyComplete
    <3>6. move[g].copy \subseteq saved'[n]
      BY <2>2, <2>7, CallEffect
    <3>7. CopyComplete'
      BY <2>1, <2>3, <3>1, <3>2, <3>5, <3>6 DEF CopyComplete
    <3> QED BY <1>o, <3>3, <3>4, <3>7 DEF Orderly
  <2> QED BY <1>6, <2>6, <2>7 DEF Absorb
<1>7. ASSUME NEW g \in Movers, Record(g) PROVE Orderly'
  <2> DEFINE n == move[g].to
  <2>1. /\ n \in Nodes /\ Moving(g) /\ move[g].pc = "record" /\ UNCHANGED <<saved, fate>>
    BY <1>7 DEF Record, TypeInv, MoveType, Moving, node
  <2>2. Accepted' \subseteq Accepted
    BY <1>t, <2>1, AcceptedShrinks
  <2>3. PICK pc \in {"discard", "unlock", "abort"} : /\ Goto(g, pc)
                                                     /\ pc = "discard" => SetOwner(g)
    BY <1>7 DEF Record
  <2>4. /\ move'[g].pc = pc /\ move'[g].to = n
        /\ \A h \in Movers \ {g} : move'[h] = move[h]
    BY <1>m, <2>3, GotoEffect
  <2>5. CASE UNCHANGED <<row, pass, risked>> /\ pc # "discard"
    <3>1. \A h \in Movers : move'[h] = move[h] \/ move'[h].pc \notin {"absorb", "record", "discard"}
      BY <2>3, <2>4, <2>5
    <3>2. CopyComplete' /\ OwnerHasAll'
      BY <1>m, <1>t, <2>1, <2>2, <2>5, <3>1, CopiesStay
    <3>3. Outdated'
      BY <1>m, <1>q, <2>5, <3>1, PassesStay
    <3> QED BY <1>o, <3>2, <3>3 DEF Orderly
  <2>6. CASE SetOwner(g)
    <3>1. /\ row'.owner = n /\ Overtake(n)
          /\ risked' = IF move[g].from # row.owner THEN risked \cup (saved[row.owner] \ saved[n])
                       ELSE risked
      BY <2>6 DEF SetOwner, TypeInv
    <3>2. \A h \in Movers \ {g} : move'[h].pc \notin {"absorb", "record", "discard"}
      BY <1>m, <2>1, <2>4 DEF OneMover, Moving
    <3>3. Outdated'
      <4>1. \A k \in Nodes : Receives(k)' => k = n
        BY <2>3, <2>4, <3>1, <3>2 DEF Receives
      <4> QED BY <1>m, <2>1, <3>1, <4>1, OvertakenStay
    <3>4. OwnerHasAll'
      <4>1. CASE move[g].from = row.owner
        <5>1. Accepted \subseteq saved[n]
          BY <1>m, <2>1, <4>1 DEF CopyComplete
        <5> QED BY <2>1, <2>2, <3>1, <5>1 DEF OwnerHasAll
      <4>2. CASE move[g].from # row.owner
        <5>1. \A m \in Accepted' : m \in saved[row.owner] /\ m \notin risked'
          BY <1>m, <2>2 DEF OwnerHasAll, Accepted
        <5> QED BY <2>1, <3>1, <4>2, <5>1 DEF OwnerHasAll
      <4> QED BY <4>1, <4>2
    <3>5. CopyComplete'
      BY <2>3, <2>4, <3>1, <3>2 DEF CopyComplete
    <3> QED BY <1>o, <3>3, <3>4, <3>5 DEF Orderly
  <2>7. SetOwner(g) \/ UNCHANGED <<row, pass, risked>>
    BY <1>7 DEF Record
  <2> QED BY <2>3, <2>5, <2>6, <2>7
<1>8. ASSUME NEW g \in Movers, Discard(g) PROVE Orderly'
  <2> DEFINE n == move[g].from
             c == CallTo("discard", n, {})
  <2>1. /\ n \in Nodes /\ Moving(g) /\ move[g].pc = "discard" /\ n # move[g].to
        /\ UNCHANGED <<row, pass, fate, risked>> /\ Goto(g, "unlock")
    BY <1>8 DEF Discard, TypeInv, MoveType, Moving
  <2>2. c \in Calls /\ c.node = n /\ (Answered(c) \/ Failed(c))
    BY <1>8, <2>1, CallKinds DEF Discard
  <2>3. Accepted' \subseteq Accepted
    BY <1>t, <2>1, AcceptedShrinks
  <2>4. \A h \in Movers : move'[h] = move[h] \/ move'[h].pc \notin {"absorb", "record", "discard"}
    BY <1>m, <2>1, GotoEffect
  <2>5. ~ Receives(n)
    <3>1. row.owner # n
      BY <1>m, <2>1 DEF CopyComplete
    <3>2. \A h \in Movers : move[h].pc # "record"
      BY <1>m, <2>1 DEF OneMover, Moving
    <3> QED BY <3>1, <3>2 DEF Receives
  <2>6. \A k \in Nodes : Receives(k) => saved'[k] = saved[k]
    BY <2>2, <2>5, CallEffect
  <2>7. CopyComplete' /\ OwnerHasAll'
    BY <1>m, <1>t, <2>1, <2>3, <2>4, <2>6, CopiesStay
  <2>8. Outdated'
    BY <1>m, <1>q, <2>1, <2>4, PassesStay
  <2> QED BY <1>o, <2>7, <2>8 DEF Orderly
<1>9. ASSUME NEW g \in Movers, Abort(g) PROVE Orderly'
  <2> DEFINE c == CallTo("thaw", move[g].from, {})
  <2>1. /\ move[g].from \in Nodes
        /\ UNCHANGED <<row, pass, fate, risked>> /\ Goto(g, "unlock")
    BY <1>9 DEF Abort, TypeInv, MoveType
  <2>2. c \in Calls /\ c.kind = "thaw" /\ (Answered(c) \/ Failed(c))
    BY <1>9, <2>1, CallKinds DEF Abort
  <2>3. Accepted' \subseteq Accepted
    BY <1>t, <2>1, AcceptedShrinks
  <2>4. \A h \in Movers : move'[h] = move[h] \/ move'[h].pc \notin {"absorb", "record", "discard"}
    BY <1>m, <2>1, GotoEffect
  <2>5. CopyComplete' /\ OwnerHasAll'
    BY <1>m, <1>t, <2>1, <2>2, <2>3, <2>4, CallKeeps, CopiesStay
  <2>6. Outdated'
    BY <1>m, <1>q, <2>1, <2>4, PassesStay
  <2> QED BY <1>o, <2>5, <2>6 DEF Orderly
<1>10. ASSUME NEW g \in Reconcilers, NEW n \in Nodes, Ask(g, n) PROVE Orderly'
  <2>1. UNCHANGED <<row, move, saved, fate, risked>>
    BY <1>10 DEF Ask, node
  <2>2. \A h \in Reconcilers : /\ pass'[h].fixes = pass[h].fixes
                               /\ pass'[h].overtaken = pass[h].overtaken
    BY <1>10, <1>m DEF Ask, PassRecords
  <2>3. Accepted' = Accepted
    BY <2>1 DEF Accepted
  <2> QED BY <1>m, <1>o, <2>1, <2>2, <2>3
          DEF Orderly, CopyComplete, Outdated, OwnerHasAll, Receives
<1>11. ASSUME NEW g \in Reconcilers, ReadRows(g) PROVE Orderly'
  <2>1. UNCHANGED <<row, move, saved, fate, risked>>
    BY <1>11 DEF ReadRows, node
  <2>2. Accepted' = Accepted
    BY <2>1 DEF Accepted
  <2>3. \A h \in Reconcilers \ {g} : pass'[h] = pass[h]
    BY <1>11, <1>m DEF ReadRows
  <2>4. ASSUME NEW n \in Nodes, CallTo("discard", n, {}) \in pass'[g].fixes
        PROVE  ~ Receives(n)
    <3>1. pass'[g].fixes = IF row.state = "active" THEN Fixes(pass[g], row.owner) ELSE {}
      BY <1>11, <1>m DEF ReadRows, NoPass
    <3>2. row.state = "active" /\ CallTo("discard", n, {}) \in Fixes(pass[g], row.owner)
      BY <2>4, <3>1
    <3>3. n # row.owner
      BY <3>2 DEF Fixes, CallTo
    <3>4. \A h \in Movers : move[h].pc # "record"
      BY <1>m, <3>2 DEF OneMover, Moving
    <3> QED BY <3>3, <3>4 DEF Receives
  <2>5. Outdated'
    BY <1>m, <2>1, <2>3, <2>4 DEF Outdated, Receives
  <2> QED BY <1>m, <1>o, <2>1, <2>2, <2>5 DEF Orderly, CopyComplete, OwnerHasAll
<1>12. ASSUME NEW g \in Reconcilers, NEW c \in pass[g].fixes, Repair(g, c) PROVE Orderly'
  <2>1. /\ c \in Calls /\ c = CallTo(c.kind, c.node, {}) /\ c.node \in Nodes
        /\ (Answered(c) \/ Failed(c)) /\ UNCHANGED <<row, move, fate>>
    BY <1>12, <1>m, RepairKinds DEF Repair, PassRecords
  <2>2. Accepted' \subseteq Accepted
    BY <1>t, <2>1, AcceptedShrinks
  <2>3. \A n \in Nodes : Receives(n) => Accepted' \cap saved[n] \subseteq saved'[n]
    <3>1. CASE c.kind # "discard"
      BY <2>1, <3>1, CallKeeps
    <3>2. CASE c.kind = "discard" /\ Receives(c.node)
      <4>1. risked' = risked \cup Holding(c.node)
        BY <1>12, <1>m, <2>1, <3>2 DEF Outdated, Repair
      <4>2. CASE c.node \in up
        <5>1. Accepted' \cap saved[c.node] = {}
          BY <4>1, <4>2 DEF InStep, Holding, Accepted
        <5> QED BY <2>1, <5>1, CallEffect
      <4>3. CASE c.node \notin up
        BY <2>1, <4>3 DEF Answered, Failed, node
      <4> QED BY <4>2, <4>3
    <3>3. CASE ~ Receives(c.node)
      BY <2>1, <3>3, CallEffect
    <3> QED BY <3>1, <3>2, <3>3
  <2>4. CopyComplete' /\ OwnerHasAll'
    BY <1>m, <1>t, <2>1, <2>2, <2>3, CopiesStay
  <2>5. \A h \in Reconcilers :
          /\ pass'[h].fixes \subseteq pass[h].fixes
          /\ pass'[h].fixes # {} => pass[h].overtaken \subseteq pass'[h].overtaken
    <3>1. pass' = [pass EXCEPT ![g] = IF pass[g].fixes = {c} THEN NoPass
                                      ELSE [pass[g] EXCEPT !.fixes = @ \ {c}]]
      BY <1>12 DEF Repair
    <3>2. CASE pass[g].fixes = {c}
      BY <1>m, <3>1, <3>2 DEF NoPass
    <3>3. CASE pass[g].fixes # {c}
      BY <1>m, <3>1, <3>3 DEF PassRecords
    <3> QED BY <3>2, <3>3
  <2>6. Outdated'
    BY <1>m, <1>q, <2>1, <2>5, PassesStay
  <2> QED BY <1>o, <2>4, <2>6 DEF Orderly
<1>13. ASSUME NEW g \in Gateways, GatewayDies(g) PROVE Orderly'
  <2>1. UNCHANGED <<row, saved, fate, risked>>
    BY <1>13 DEF GatewayDies, node
  <2>2. \A h \in Movers : move'[h] = move[h] \/ move'[h].pc \notin {"absorb", "record", "discard"}
    BY <1>13 DEF GatewayDies, NoMove
  <2>3. Accepted' \subseteq Accepted
    BY <2>1, AcceptedShrinks
  <2>4. CopyComplete' /\ OwnerHasAll'
    BY <1>m, <1>t, <2>1, <2>2, <2>3, CopiesStay
  <2>5. \A h \in Reconcilers : pass'[h] = pass[h] \/ pass'[h].fixes = {}
    BY <1>13 DEF GatewayDies, NoPass
  <2>6. Outdated'
    BY <1>m, <1>q, <2>1, <2>2, <2>5, PassesStay
  <2> QED BY <1>o, <2>4, <2>6 DEF Orderly
<1>14. ASSUME NEW c \in late, Late(c) PROVE Orderly'
  <2>1. /\ c \in Calls /\ c.node \in up /\ Do(c) /\ UNCHANGED <<row, move, pass, fate>>
        /\ risked' = IF c.kind = "discard" /\ Receives(c.node)
                     THEN risked \cup Holding(c.node) ELSE risked
    BY <1>14 DEF Late, TypeInv
  <2>2. Accepted' \subseteq Accepted
    BY <1>t, <2>1, AcceptedShrinks
  <2>3. \A n \in Nodes : Receives(n) => Accepted' \cap saved[n] \subseteq saved'[n]
    <3>1. CASE c.kind # "discard" \/ ~ Receives(c.node)
      BY <2>1, <3>1, DoEffect DEF TypeInv
    <3>2. CASE c.kind = "discard" /\ Receives(c.node)
      <4>1. Accepted' \cap saved[c.node] = {}
        BY <2>1, <3>2 DEF InStep, Holding, Accepted
      <4> QED BY <2>1, <4>1, DoEffect DEF TypeInv
    <3> QED BY <3>1, <3>2
  <2>4. CopyComplete' /\ OwnerHasAll'
    BY <1>m, <1>t, <2>1, <2>2, <2>3, CopiesStay
  <2>5. Outdated'
    BY <1>m, <1>q, <2>1, PassesStay
  <2> QED BY <1>o, <2>4, <2>5 DEF Orderly
<1>15. ASSUME UNCHANGED <<row.owner, move, pass, saved, fate, risked>> PROVE Orderly'
  <2>1. Accepted' = Accepted
    BY <1>15 DEF Accepted
  <2>2. CopyComplete' /\ OwnerHasAll' /\ Outdated'
    BY <1>15, <1>m, <2>1 DEF CopyComplete, OwnerHasAll, Outdated, Receives
  <2> QED BY <1>o, <2>2 DEF Orderly
<1>16. ASSUME NEW n \in Nodes, NodeDies(n) \/ NodeRestarts(n) PROVE Orderly'
  BY <1>15, <1>16 DEF NodeDies, NodeRestarts
<1>17. CASE Lapse \/ UNCHANGED vars
  BY <1>15, <1>17 DEF Lapse, node, vars, TypeInv
<1> QED
  BY <1>1, <1>2, <1>3, <1>4, <1>5, <1>6, <1>7, <1>8, <1>9, <1>10, <1>11, <1>12, <1>13, <1>14,
     <1>16, <1>17
     DEF Next, MoveStep, PassStep

LEMMA InitOrderly == Init => Orderly
<1> SUFFICES ASSUME Init PROVE Orderly
  OBVIOUS
<1>1. /\ \A g \in Movers : move[g].pc = "idle"
      /\ \A g \in Reconcilers : pass[g].fixes = {}
      /\ Accepted = {}
  BY DEF Init, NoMove, NoPass, Accepted
<1> QED BY <1>1 DEF Orderly, OneMover, Moving, CopyComplete, Outdated, OwnerHasAll

LEMMA InvFollows == IInv => AtOwner
<1> SUFFICES ASSUME IInv, NEW m \in Messages, fate[m] = "kept", m \notin risked
             PROVE  /\ m \in saved[row.owner]
                    /\ row.owner \in up => held[row.owner][m] > 0
  BY DEF AtOwner
<1>1. m \in Accepted
  BY DEF Accepted
<1>2. m \in saved[row.owner]
  BY <1>1 DEF IInv, Orderly, OwnerHasAll
<1> QED BY <1>2 DEF IInv, InStep

LEMMA InitInv == Init => IInv
BY InitType, InitCounted, InitOrderly DEF IInv

LEMMA NextInv ==
  ASSUME IInv, [Next]_vars
  PROVE  IInv'
<1>1. TypeInv' /\ CopiesCounted' /\ InStep'
  BY NextType, NextCounted, NextInStep DEF IInv
<1>2. risked = Messages => risked' = Messages
  BY <1>1, RiskStays DEF IInv, TypeInv
<1>3. risked' = Messages \/ Orderly'
  BY <1>2, NextOrderly DEF IInv
<1> QED BY <1>1, <1>3 DEF IInv

(* The node the row names has every message that was accepted and not      *)
(* acknowledged, in its log and - if it is up - in memory, at any time of  *)
(* any number of moves, whatever call failed and whoever died; the         *)
(* messages in the races that are named excepted.                          *)
THEOREM OwnerKeepsAll == Spec => []AtOwner
<1>1. Spec => []IInv
  BY InitInv, NextInv, PTL DEF Spec
<1> QED BY <1>1, InvFollows, PTL

(* The lock does its work, as long as its lease has not run out under a    *)
(* mover: one moves at a time, with all the owner has, and what is to be   *)
(* discarded is not the owner's.                                           *)
THEOREM LockKeepsOrder == Spec => [](risked = Messages \/ Orderly)
<1>1. Spec => []IInv
  BY InitInv, NextInv, PTL DEF Spec
<1>2. IInv => risked = Messages \/ Orderly
  BY DEF IInv
<1> QED BY <1>1, <1>2, PTL

=============================================================================
