---------------------------- MODULE DeadLetters ----------------------------
(***************************************************************************)
(* A message that is out of retries: from the queue it failed in to the    *)
(* queue its failures are routed to.  The node writes it to a log of its   *)
(* own and holds it (backend/queue/logic/deadletter-logic.go,              *)
(* repo/walfile/deadletters.go); every gateway asks the nodes for what     *)
(* they hold, enqueues it, and tells the node which ones it may let go of  *)
(* (backend/gateway/logic/deadletter-logic.go).                            *)
(*                                                                         *)
(* One queue on one node.  The queue's own log is in module Wal; here it   *)
(* is the one record that says a message has left.                         *)
(***************************************************************************)
EXTENDS Naturals, FiniteSets, Sequences, SequencesExt

CONSTANTS
  Messages,
  Gateways,
  MaxPending,  \* maxPendingDeadLetters
  DiskFails,   \* a write to the dead-letter log may fail
  MaxFaults    \* bound: crashes, and calls and writes that fail

ASSUME DeadLettersAssumption ==
  /\ MaxPending \in Nat /\ MaxFaults \in Nat
  /\ DiskFails \in BOOLEAN

VARIABLES
  up,       \* the node runs
  live,     \* the messages in the queue they may fail in
  left,     \* the messages whose terminal record is in the queue's own log
  offer,    \* offer[m]: how far the node is in giving m up
  dl,       \* lq.dl: what the node owes
  disk,     \* disk[m]: the last flushed record about m in the dead-letter log
  tail,     \* the messages of the drained records that follow, unflushed
  torn,     \* the log ends in half a record: what follows it is not read
  told,     \* the configuration the node has last seen has a target
  target,   \* so has the row, and the queue exists
  route,    \* route[g]: what gateway g is doing
  drain,    \* the drained records that AckDeadLetters has still to write
  moved,    \* the messages that were enqueued at the target, once or more
  faults,
  excused   \* history: messages that a known gap has lost or set aside

nodeVars    == <<up, live, left, offer, dl, disk, tail, torn, told, drain>>
gatewayVars == <<route, moved>>
vars == <<up, live, left, offer, dl, disk, tail, torn, told, target, route, drain, moved,
          faults, excused>>

Idle == [pc |-> "idle", items |-> {}, done |-> {}]

Init ==
  /\ up = TRUE
  /\ live = Messages
  /\ left = {}
  /\ offer = [m \in Messages |-> "no"]
  /\ dl = {}
  /\ disk = [m \in Messages |-> "none"]
  /\ tail = <<>>
  /\ torn = FALSE
  /\ told = TRUE /\ target = TRUE
  /\ route = [g \in Gateways |-> Idle]
  /\ drain = {}
  /\ moved = {}
  /\ faults = 0
  /\ excused = {}

MayFail == faults < MaxFaults /\ faults' = faults + 1

-----------------------------------------------------------------------------
(* The node gives a message up.                                            *)

(* Nack or Sweep finds m out of retries: it leaves the queue, and its      *)
(* terminal record is written.  Without a target it would be redelivered.  *)
GiveUp(m) ==
  /\ up /\ told /\ m \in live /\ offer[m] = "no"
  /\ live' = live \ {m}
  /\ left' = left \cup {m}
  /\ offer' = [offer EXCEPT ![m] = "journal"]
  /\ UNCHANGED <<up, dl, disk, tail, torn, told, target, gatewayVars, drain, faults, excused>>

(* What the dead-letter log says once its tail is flushed as well.         *)
Drained == Range(tail)
Flushed == [m \in Messages |-> IF m \in Drained THEN "drained" ELSE disk[m]]

(* AppendDeadLetter writes and flushes.  A write that fails is logged, and *)
(* the message is gone; it may leave half a record behind.                 *)
Journal(m) ==
  /\ up /\ offer[m] = "journal"
  /\ \/ /\ ~torn
        /\ disk' = [Flushed EXCEPT ![m] = "dead"] /\ tail' = <<>>
        /\ offer' = [offer EXCEPT ![m] = "hold"]
        /\ UNCHANGED <<torn, faults, excused>>
     \/ /\ torn
        /\ offer' = [offer EXCEPT ![m] = "hold"]
        /\ excused' = excused \cup {m}
        /\ UNCHANGED <<disk, tail, torn, faults>>
     \/ /\ DiskFails /\ MayFail
        /\ torn' \in {torn, TRUE}
        /\ offer' = [offer EXCEPT ![m] = "no"]
        /\ excused' = excused \cup {m}
        /\ UNCHANGED <<disk, tail>>
  /\ UNCHANGED <<up, live, left, dl, told, target, gatewayVars, drain>>

(* Into the map - unless that is full: then it waits on disk until the     *)
(* node is started again.                                                  *)
Hold(m) ==
  /\ up /\ offer[m] = "hold"
  /\ offer' = [offer EXCEPT ![m] = "no"]
  /\ IF Cardinality(dl) >= MaxPending
     THEN excused' = excused \cup {m} /\ UNCHANGED dl
     ELSE dl' = dl \cup {m} /\ UNCHANGED excused
  /\ UNCHANGED <<up, live, left, disk, tail, torn, told, target, gatewayVars, drain, faults>>

-----------------------------------------------------------------------------
(* The gateways.                                                           *)

(* What the node answers: all it owes, and it removes nothing.             *)
Reported == dl

(* DeadLetters: a gateway asks for what the node owes.                     *)
List(g) ==
  /\ route[g].pc = "idle" /\ up /\ Reported # {}
  /\ route' = [route EXCEPT ![g] = [Idle EXCEPT !.pc = "deliver", !.items = Reported]]
  /\ UNCHANGED <<nodeVars, target, moved, faults, excused>>

Took(g, m, done) ==
  route' = [route EXCEPT ![g].items = @ \ {m}, ![g].done = IF done THEN @ \cup {m} ELSE @]

Enqueued(m) == moved' = moved \cup {m}

(* Mutant of Deliver: what could not be enqueued is acknowledged as well. *)
DeliverAny(g, m) ==
  /\ route[g].pc = "deliver" /\ m \in route[g].items
  /\ \/ Enqueued(m) /\ UNCHANGED faults
     \/ MayFail /\ UNCHANGED moved
  /\ Took(g, m, TRUE)
  /\ UNCHANGED <<nodeVars, target, excused>>

(* deliverDeadLetter.  The configuration comes out of the cache, which may *)
(* still know of a target that was cleared.  Without one, or without the   *)
(* queue, the message is dropped; an enqueue that fails - it may have been *)
(* carried out - is tried again in the next round.                         *)
Deliver(g, m) ==
  /\ route[g].pc = "deliver" /\ m \in route[g].items
  /\ \/ Enqueued(m) /\ Took(g, m, TRUE) /\ UNCHANGED <<faults, excused>>
     \/ /\ ~target
        /\ Took(g, m, TRUE)
        /\ excused' = excused \cup {m}
        /\ UNCHANGED <<moved, faults>>
     \/ /\ MayFail /\ Took(g, m, FALSE)
        /\ Enqueued(m) \/ UNCHANGED moved
        /\ UNCHANGED excused
  /\ UNCHANGED <<nodeVars, target>>

(* AckDeadLetters at the node: it forgets them first and has then to write *)
(* that down.                                                              *)
HandOver(done) ==
  /\ dl' = dl \ done
  /\ drain' = drain \cup (done \cap dl)

(* AckDeadLetters, when there is anything to acknowledge.  The answer may  *)
(* be lost.                                                                *)
Confirm(g) ==
  /\ route[g].pc = "deliver" /\ route[g].items = {}
  /\ route' = [route EXCEPT ![g] = Idle]
  /\ \/ /\ up /\ route[g].done # {}
        /\ HandOver(route[g].done)
        /\ UNCHANGED faults
     \/ /\ IF up /\ route[g].done # {} THEN MayFail ELSE UNCHANGED faults
        /\ UNCHANGED <<dl, drain>>
  /\ UNCHANGED <<up, live, left, offer, disk, tail, torn, told, target, moved, excused>>

(* A drained record is written and not flushed.                            *)
WriteDrained(m) ==
  /\ up /\ m \in drain
  /\ drain' = drain \ {m}
  /\ \/ tail' = (IF torn THEN tail ELSE Append(tail, m)) /\ UNCHANGED <<torn, faults>>
     \/ DiskFails /\ MayFail /\ torn' \in {torn, TRUE} /\ UNCHANGED tail
  /\ UNCHANGED <<up, live, left, offer, dl, disk, told, target, gatewayVars, excused>>

-----------------------------------------------------------------------------
(* What happens around them.                                               *)

(* UpdateQueue clears the target, or the queue is deleted.                 *)
Clear ==
  /\ target
  /\ target' = FALSE
  /\ UNCHANGED <<nodeVars, gatewayVars, faults, excused>>

(* The engine takes a new configuration in place of the old one.           *)
Reconfigure == told' = target

(* The configuration of the row comes with the next request.               *)
Tell ==
  /\ up /\ told # target
  /\ Reconfigure
  /\ UNCHANGED <<up, live, left, offer, dl, disk, tail, torn, drain, target, gatewayVars,
                 faults, excused>>

(* A round of the gateway is cut short.                                    *)
GatewayDies(g) ==
  /\ route[g].pc # "idle" /\ MayFail
  /\ route' = [route EXCEPT ![g] = Idle]
  /\ UNCHANGED <<nodeVars, target, moved, excused>>

(* The process dies, or the machine does, and then what was not flushed    *)
(* may be lost: the last of the drained records, and any terminal record   *)
(* (Wal follows their flushes).  A message between its terminal record and *)
(* its dead letter is lost with the process.                               *)
Crash ==
  /\ up /\ MayFail
  /\ up' = FALSE
  /\ dl' = {} /\ drain' = {} /\ live' = {}
  /\ offer' = [m \in Messages |-> "no"]
  /\ \/ UNCHANGED <<left, tail>>
     \/ (\E k \in 0..Len(tail) : tail' = SubSeq(tail, 1, k)) /\ left' \in SUBSET left
  /\ excused' = excused \cup {m \in left' : offer[m] = "journal"}
  /\ UNCHANGED <<disk, torn, told, target, gatewayVars>>

(* Mutant of Replayed: drained records are not taken into account. *)
ReplayedAll == {m \in Messages : Flushed[m] # "none"}

(* ReplayDeadLetters: the last record about a message decides.             *)
Replayed == {m \in Messages : Flushed[m] = "dead"}

(* CompactDeadLetters writes a new log of what is still owed, flushes it   *)
(* and renames it into place.                                              *)
Compacted ==
  /\ disk' = [m \in Messages |-> IF m \in Replayed THEN "dead" ELSE "none"]
  /\ tail' = <<>>
  /\ torn' = FALSE

(* Mutant of Restart: the dead letters stay on disk. *)
RestartEmpty ==
  /\ ~up
  /\ up' = TRUE
  /\ dl' = {}
  /\ Compacted
  /\ live' = Messages \ left
  /\ told' = FALSE
  /\ UNCHANGED <<left, offer, drain, target, gatewayVars, faults, excused>>

(* Mutant of Restart: terminal records do not count. *)
RestartAll ==
  /\ ~up
  /\ up' = TRUE
  /\ dl' = Replayed
  /\ Compacted
  /\ live' = Messages
  /\ told' = FALSE
  /\ UNCHANGED <<left, offer, drain, target, gatewayVars, faults, excused>>

(* Recover: the dead letters come back, however many, and their log is     *)
(* rewritten to hold only them; then the queue's own log is replayed, and  *)
(* its configuration has no target until a request brings one.             *)
Restart ==
  /\ ~up
  /\ up' = TRUE
  /\ dl' = Replayed
  /\ Compacted
  /\ live' = Messages \ left
  /\ told' = FALSE
  /\ UNCHANGED <<left, offer, drain, target, gatewayVars, faults, excused>>

Node(m) == Journal(m) \/ Hold(m) \/ WriteDrained(m)
Round(g) == List(g) \/ (\E m \in Messages : Deliver(g, m)) \/ Confirm(g)

Next ==
  \/ \E m \in Messages : GiveUp(m) \/ Node(m)
  \/ \E g \in Gateways : Round(g) \/ GatewayDies(g)
  \/ Clear \/ Tell \/ Crash \/ Restart

(* A request that the node has begun is finished, a node that died is      *)
(* started again, and the router's ticker keeps every gateway at it.       *)
Fairness ==
  /\ \A m \in Messages : WF_vars(Node(m))
  /\ \A g \in Gateways : WF_vars(Round(g))
  /\ WF_vars(Restart)

Spec == Init /\ [][Next]_vars /\ Fairness

-----------------------------------------------------------------------------
(* The variables keep their types; a message is not in the queue and known *)
(* to have left it; a node that is down holds nothing.                     *)
TypeOK ==
  /\ up \in BOOLEAN /\ torn \in BOOLEAN /\ told \in BOOLEAN /\ target \in BOOLEAN
  /\ live \subseteq Messages /\ dl \subseteq Messages /\ drain \subseteq Messages
  /\ left \subseteq Messages \ live
  /\ offer \in [Messages -> {"no", "journal", "hold"}]
  /\ disk \in [Messages -> {"none", "dead", "drained"}]
  /\ Drained \subseteq Messages
  /\ \A g \in Gateways : /\ route[g].pc \in {"idle", "deliver"}
                         /\ route[g].items \subseteq Messages
                         /\ route[g].done \subseteq Messages \ route[g].items
  /\ moved \subseteq Messages
  /\ ~up => live = {} /\ dl = {} /\ drain = {}

(* A message that was given up is at its target, or the node will still    *)
(* know of it after the worst crash: it is on its way to the log, or its   *)
(* last record there says so, or the queue itself brings it back.  The     *)
(* exceptions are the gaps that `excused' names: a crash between the two   *)
(* records, a log that could not be written, a target that was cleared.    *)
Owed(m) ==
  \/ m \in moved
  \/ m \notin left \/ offer[m] = "journal"
  \/ Flushed[m] = "dead"

OwedOrMoved == \A m \in Messages : Owed(m) \/ m \in excused

(* What the node has, it owes: nothing comes back into the map after its   *)
(* drained record was flushed, unless the queue gave it up once more.      *)
HandedOverStays ==
  [][\A m \in Messages :
       m \in dl' \ dl /\ Flushed[m] # "dead" => offer[m] = "hold"]_vars

(* What the node holds reaches the target, whoever died in between, and    *)
(* however often a round had to be repeated.                               *)
Arrives == \A m \in Messages : m \in dl ~> m \in moved \/ m \in excused

-----------------------------------------------------------------------------
(* README.md:157, "a message that runs out of retries is moved to the      *)
(* queue's deadLetterQueue, not just counted and dropped", and 172: "a     *)
(* node that restarts in the middle still knows it owes them".             *)
OwedAfterRestart ==
  \A m \in Messages : target /\ ~torn /\ Cardinality(Messages) <= MaxPending => Owed(m)
=============================================================================
