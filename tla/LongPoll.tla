------------------------------ MODULE LongPoll ------------------------------
(***************************************************************************)
(* Waiting for a message: consumers that park at a gateway                 *)
(* (backend/gateway/logic/dequeue-logic.go, dequeue-wait-logic.go), the    *)
(* streams on which the nodes tell every gateway that a queue has work     *)
(* (backend/queue/logic/notify-logic.go, controller/v1-subscribe.go,       *)
(* gateway/repo/nodegrpc), and the backstop poll for what gets lost there. *)
(*                                                                         *)
(* One queue, whose messages are at one node or, when it is distributed,   *)
(* at several.  Which message a node hands out is in Slot and Engine.      *)
(***************************************************************************)
EXTENDS Naturals, FiniteSets, Sequences, Functions

CONSTANTS
  Consumers,
  Gateways,
  Nodes,
  Messages,
  At,        \* At[c]: the gateway consumer c asks
  Home,      \* Home[m]: the node that has m
  Behind,    \* Behind[m]: the messages of its group that m waits for
  Buffer,    \* notifications a stream holds before one is dropped
  MaxPolls,  \* bound: requests of the consumers
  MaxFaults  \* bound: calls that fail and streams that break

ASSUME LongPollAssumption ==
  /\ IsFiniteSet(Consumers)
  /\ At \in [Consumers -> Gateways] /\ Home \in [Messages -> Nodes]
  /\ Behind \in [Messages -> SUBSET Messages]
  /\ Buffer \in Nat /\ MaxPolls \in Nat /\ MaxFaults \in Nat

VARIABLES
  state,   \* state[m]: "new", "ready", "leased" or "acked"
  untold,  \* untold[n]: announcements that node n has still to make
  stream,  \* stream[g][n]: the notifications under way from n to g
  open,    \* open[g]: the nodes that g has a stream from
  list,    \* w.m: the consumers parked at each gateway, in order
  sig,     \* the parked consumers whose channel holds a wake
  next,    \* w.next: where the next wake of a gateway begins to look
  pc,      \* pc[c]: "idle", "take" or "wait"
  todo,    \* todo[c]: the nodes that c has still to ask in this round
  heard,   \* the consumers that a node has answered in this round
  first,   \* the consumers in their first round
  polls, faults,
  missed   \* history: a notification was lost or wasted, there was none, or
           \* one for several messages

queueVars == <<state, untold>>
pipes     == <<stream, open>>
waiters   == <<list, sig, next>>
round     == <<pc, todo, heard, first>>
vars == <<state, untold, stream, open, list, sig, next, pc, todo, heard, first, polls,
          faults, missed>>

Init ==
  /\ state = [m \in Messages |-> "new"]
  /\ untold = [n \in Nodes |-> 0]
  /\ stream = [g \in Gateways |-> [n \in Nodes |-> 0]]
  /\ open = [g \in Gateways |-> Nodes]
  /\ list = [g \in Gateways |-> <<>>]
  /\ sig = {}
  /\ next = [g \in Gateways |-> 0]
  /\ pc = [c \in Consumers |-> "idle"]
  /\ todo = [c \in Consumers |-> {}]
  /\ heard = {} /\ first = {}
  /\ polls = 0 /\ faults = 0
  /\ missed = FALSE

MayFail == faults < MaxFaults /\ faults' = faults + 1

Servable(m) == state[m] = "ready" /\ \A k \in Behind[m] : state[k] = "acked"

-----------------------------------------------------------------------------
(* The node.                                                               *)

(* notifyWork: publish puts a notification on every stream that is not     *)
(* full.                                                                   *)
Publish(n) ==
  /\ stream' = [g \in Gateways |->
                  [stream[g] EXCEPT ![n] = IF n \in open[g] /\ stream[g][n] < Buffer
                                          THEN stream[g][n] + 1 ELSE stream[g][n]]]
  /\ missed' = (missed \/ \E g \in Gateways : n \notin open[g] \/ stream[g][n] = Buffer)

(* A message is in the queue before anyone is told.                        *)
ToTell(n) == untold' = [untold EXCEPT ![n] = untold[n] + 1]

Enqueue(m) ==
  /\ state[m] = "new"
  /\ state' = [state EXCEPT ![m] = "ready"]
  /\ ToTell(Home[m])
  /\ UNCHANGED <<pipes, waiters, round, polls, faults, missed>>

Tell(n) ==
  /\ untold[n] > 0
  /\ untold' = [untold EXCEPT ![n] = untold[n] - 1]
  /\ Publish(n)
  /\ UNCHANGED <<state, open, waiters, round, polls, faults>>

(* An acknowledgement, which lets the rest of the group go, is announced   *)
(* to nobody.                                                              *)
Ack(m) ==
  /\ state[m] = "leased"
  /\ state' = [state EXCEPT ![m] = "acked"]
  /\ missed' = (missed \/ \E k \in Messages : m \in Behind[k] /\ state[k] = "ready")
  /\ UNCHANGED <<untold, pipes, waiters, round, polls, faults>>

Nack(m) ==
  /\ state[m] = "leased" /\ MayFail
  /\ state' = [state EXCEPT ![m] = "ready"]
  /\ ToTell(Home[m])
  /\ UNCHANGED <<pipes, waiters, round, polls, missed>>

(* The leases of a node that have run out: what comes back is announced    *)
(* once, however many messages it is.                                      *)
Sweep(n) ==
  /\ MayFail
  /\ \E S \in SUBSET {m \in Messages : Home[m] = n /\ state[m] = "leased"} :
       /\ S # {}
       /\ state' = [m \in Messages |-> IF m \in S THEN "ready" ELSE state[m]]
       /\ missed' = (missed \/ \E k, m \in S : k # m)
  /\ ToTell(n)
  /\ UNCHANGED <<pipes, waiters, round, polls>>

-----------------------------------------------------------------------------
(* waiters.                                                                *)

(* Mutant of Deliver: only the consumer at next is tried. *)
DeliverHead(g, ws, s, nx) ==
  IF ws = <<>> THEN sig' = s /\ next' = [next EXCEPT ![g] = nx]
  ELSE sig' = s \cup {ws[(nx % Len(ws)) + 1]} /\ next' = [next EXCEPT ![g] = nx]

(* The first channel from next on that has room.                           *)
Roomy(ws, s, nx) ==
  LET free  == {j \in DOMAIN ws : ws[j] \notin s}
      ahead == {j \in free : j > nx % Len(ws)}
      near  == IF ahead = {} THEN free ELSE ahead
  IN CHOOSE j \in near : \A k \in near : j <= k

(* deliver: when all are full the wake is dropped, and so it is when       *)
(* nobody is parked.                                                       *)
Deliver(g, ws, s, nx) ==
  IF Range(ws) \subseteq s
  THEN sig' = s /\ next' = [next EXCEPT ![g] = nx]
  ELSE LET i == Roomy(ws, s, nx)
       IN sig' = s \cup {ws[i]} /\ next' = [next EXCEPT ![g] = i % Len(ws)]

Park(c) == list' = [list EXCEPT ![At[c]] = Append(list[At[c]], c)]

Without(ws, c) ==
  LET i == CHOOSE j \in DOMAIN ws : ws[j] = c
  IN [j \in 1..(Len(ws) - 1) |-> IF j < i THEN ws[j] ELSE ws[j + 1]]

(* Mutant of Unpark: the wake goes with the consumer. *)
UnparkKeeps(c) ==
  LET g  == At[c]
      ws == Without(list[g], c)
  IN /\ list' = [list EXCEPT ![g] = ws]
     /\ sig' = sig \ {c}
     /\ next' = [next EXCEPT ![g] = IF ws = <<>> THEN 0 ELSE next[g]]

(* A consumer that leaves with a wake it has not claimed passes it on.     *)
Unpark(c) ==
  LET g  == At[c]
      ws == Without(list[g], c)
  IN /\ list' = [list EXCEPT ![g] = ws]
     /\ IF ws = <<>> \/ c \notin sig
        THEN sig' = sig \ {c} /\ next' = [next EXCEPT ![g] = IF ws = <<>> THEN 0 ELSE next[g]]
        ELSE Deliver(g, ws, sig \ {c}, next[g])

(* streamFrom: a notification has arrived.                                 *)
Wake(g, n) ==
  /\ stream[g][n] > 0
  /\ stream' = [stream EXCEPT ![g][n] = stream[g][n] - 1]
  /\ Deliver(g, list[g], sig, next[g])
  /\ UNCHANGED <<queueVars, open, list, round, polls, faults, missed>>

(* The stream ends, with what is on it, and is opened again after a while  *)
(* (module Membership).                                                    *)
Break(g, n) ==
  /\ n \in open[g] /\ MayFail
  /\ open' = [open EXCEPT ![g] = open[g] \ {n}]
  /\ stream' = [stream EXCEPT ![g][n] = 0]
  /\ missed' = (missed \/ stream[g][n] > 0)
  /\ UNCHANGED <<queueVars, waiters, round, polls>>

Reconnect(g, n) ==
  /\ n \notin open[g]
  /\ open' = [open EXCEPT ![g] = open[g] \cup {n}]
  /\ UNCHANGED <<queueVars, stream, waiters, round, polls, faults, missed>>

-----------------------------------------------------------------------------
(* Dequeue with a wait.                                                    *)

(* A round asks the owners one by one.                                     *)
Begin(c) ==
  /\ pc' = [pc EXCEPT ![c] = "take"]
  /\ todo' = [todo EXCEPT ![c] = Nodes]
  /\ heard' = heard \ {c}

(* A consumer parks before it looks for the first time.                    *)
Poll(c) ==
  /\ pc[c] = "idle" /\ polls < MaxPolls
  /\ polls' = polls + 1
  /\ Park(c)
  /\ Begin(c)
  /\ first' = first \cup {c}
  /\ UNCHANGED <<queueVars, pipes, sig, next, faults, missed>>

(* Mutant of Leave: the consumer stays in the list. *)
LeaveParked(c) ==
  /\ pc' = [pc EXCEPT ![c] = "idle"]
  /\ todo' = [todo EXCEPT ![c] = {}]
  /\ heard' = heard \ {c} /\ first' = first \ {c}
  /\ UNCHANGED waiters

Leave(c) ==
  /\ Unpark(c)
  /\ pc' = [pc EXCEPT ![c] = "idle"]
  /\ todo' = [todo EXCEPT ![c] = {}]
  /\ heard' = heard \ {c} /\ first' = first \ {c}

(* Two consumers at owners of a distributed queue may cross: c takes m,    *)
(* and the message c was woken for is at a node that the other has asked   *)
(* before it was there.                                                    *)
Crossed(c, m) ==
  \E k \in Messages \ {m}, d \in Consumers \ {c} :
    Servable(k) /\ At[d] = At[c] /\ pc[d] = "take" /\ Home[k] \notin todo[d]

(* The node leases a message to whoever asked.                             *)
Lease(m) == state' = [state EXCEPT ![m] = "leased"]

(* The call to a node that has one.                                        *)
DequeueAt(n, m) == Home[m] = n /\ Servable(m) /\ Lease(m)

(* The node asked hands out a message and the round is over; it has none;  *)
(* or the call fails - having leased a message, perhaps - and is passed    *)
(* over.                                                                   *)
Ask(c, n) ==
  /\ pc[c] = "take" /\ n \in todo[c]
  /\ \/ \E m \in Messages :
          /\ DequeueAt(n, m)
          /\ Leave(c)
          /\ missed' = (missed \/ Crossed(c, m))
          /\ UNCHANGED faults
     \/ /\ \A m \in Messages : Home[m] = n => ~Servable(m)
        /\ todo' = [todo EXCEPT ![c] = todo[c] \ {n}]
        /\ heard' = heard \cup {c}
        /\ UNCHANGED <<state, waiters, pc, first, faults, missed>>
     \/ /\ MayFail
        /\ todo' = [todo EXCEPT ![c] = todo[c] \ {n}]
        /\ \/ UNCHANGED state
           \/ \E m \in Messages : DequeueAt(n, m)
        /\ missed' = TRUE
        /\ UNCHANGED <<waiters, pc, heard, first>>
  /\ UNCHANGED <<untold, pipes, polls>>

(* Nothing was found.  A first round in which nobody answered is an error; *)
(* otherwise the consumer waits.                                           *)
Empty(c) ==
  /\ pc[c] = "take" /\ todo[c] = {}
  /\ IF c \in first /\ c \notin heard
     THEN Leave(c)
     ELSE /\ pc' = [pc EXCEPT ![c] = "wait"]
          /\ first' = first \ {c}
          /\ UNCHANGED <<waiters, todo, heard>>
  /\ UNCHANGED <<queueVars, pipes, polls, faults, missed>>

Woken(c) ==
  /\ pc[c] = "wait" /\ c \in sig
  /\ sig' = sig \ {c}
  /\ Begin(c)
  /\ UNCHANGED <<queueVars, pipes, list, next, first, polls, faults, missed>>

(* Mutant of Backstop: a poll for what was announced only. *)
BackstopSig(c) ==
  /\ pc[c] = "wait" /\ c \in sig
  /\ Begin(c)
  /\ UNCHANGED <<queueVars, pipes, waiters, first, polls, faults, missed>>

(* The ticker of the backstop poll.                                        *)
Backstop(c) ==
  /\ pc[c] = "wait"
  /\ Begin(c)
  /\ UNCHANGED <<queueVars, pipes, waiters, first, polls, faults, missed>>

(* The wait is over, or the client has gone.                               *)
GiveUp(c) ==
  /\ pc[c] = "wait"
  /\ Leave(c)
  /\ UNCHANGED <<queueVars, pipes, polls, faults, missed>>

-----------------------------------------------------------------------------
Round(c) == (\E n \in Nodes : Ask(c, n)) \/ Empty(c) \/ Woken(c)

Next ==
  \/ \E m \in Messages : Enqueue(m) \/ Ack(m) \/ Nack(m)
  \/ \E n \in Nodes : Tell(n) \/ Sweep(n)
  \/ \E g \in Gateways, n \in Nodes : Wake(g, n) \/ Break(g, n) \/ Reconnect(g, n)
  \/ \E c \in Consumers : Poll(c) \/ Round(c) \/ Backstop(c) \/ GiveUp(c)

(* A request that runs goes on, and the ticker of a consumer that waits    *)
(* goes off.  Neither the streams nor the announcements are relied upon.   *)
Fairness == \A c \in Consumers : WF_vars(Round(c)) /\ WF_vars(Backstop(c))

Spec == Init /\ [][Next]_vars /\ Fairness

-----------------------------------------------------------------------------
(* The variables keep their types; whoever holds a wake is parked, and     *)
(* whoever is served, is not.                                              *)
TypeOK ==
  /\ state \in [Messages -> {"new", "ready", "leased", "acked"}]
  /\ untold \in [Nodes -> Nat]
  /\ stream \in [Gateways -> [Nodes -> 0..Buffer]]
  /\ open \in [Gateways -> SUBSET Nodes]
  /\ list \in [Gateways -> Seq(Consumers)] /\ next \in [Gateways -> 0..Cardinality(Consumers)]
  /\ \A g \in Gateways : /\ Range(list[g]) = {c \in Consumers : At[c] = g /\ pc[c] # "idle"}
                         /\ IsInjective(list[g])
  /\ sig \subseteq {c \in Consumers : pc[c] # "idle"}
  /\ pc \in [Consumers -> {"idle", "take", "wait"}]
  /\ todo \in [Consumers -> SUBSET Nodes]
  /\ heard \subseteq Consumers /\ first \subseteq Consumers
  /\ polls \in 0..MaxPolls /\ faults \in 0..MaxFaults /\ missed \in BOOLEAN

(* As long as `missed' has not happened, a message that could be handed out *)
(* does not meet a gateway where everybody sleeps: something is being      *)
(* announced - its own wake may have gone to a consumer that found another *)
(* message - a notification is under way, or a consumer there has a wake   *)
(* or is looking already.                                                  *)
NoLostWake ==
  \A g \in Gateways, m \in Messages :
    Servable(m) /\ ~missed /\ list[g] # <<>> =>
      \/ \E n \in Nodes : untold[n] > 0
      \/ \E n \in Nodes : stream[g][n] > 0
      \/ \E c \in Range(list[g]) : c \in sig \/ pc[c] = "take"

(* A notification that comes while somebody sleeps without a wake is not   *)
(* wasted on one that has a wake already.                                  *)
WakesASleeper ==
  [][\A g \in Gateways, n \in Nodes :
       Wake(g, n) /\ ~(Range(list[g]) \subseteq sig) => sig' # sig]_vars

(* Even if notifications are lost, a message does not wait for ever while  *)
(* somebody waits for it.                                                  *)
Served ==
  \A m \in Messages :
    Servable(m) /\ (\E c \in Consumers : pc[c] = "wait")
      ~> ~Servable(m) \/ \A c \in Consumers : pc[c] = "idle"
=============================================================================
