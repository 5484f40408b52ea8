------------------------------- MODULE Engine -------------------------------
(***************************************************************************)
(* One queue on one node, used by many goroutines at once                  *)
(* (backend/queue/logic/engine: queue.go, dispatch.go).                    *)
(*                                                                         *)
(* What a slot does under its mutex is one action here (module Slot has    *)
(* the detail); what happens between two holds of a mutex, or between two  *)
(* atomic loads, is not: an enqueue reserves room, reads the depth, looks  *)
(* whether its slot is frozen, lands and is counted in separate steps, a   *)
(* dequeue reads three atomics per slot before it locks the winner, and    *)
(* the sweeper and a handoff come in between.                              *)
(*                                                                         *)
(* Messages are ungrouped here, so each is a group of its own and a band   *)
(* is a line of messages; an entry whose message has gone is 0.  They are  *)
(* numbered in the order they got in.                                      *)
(***************************************************************************)
EXTENDS Integers, Sequences, FiniteSets, Functions

CONSTANTS
  NumSlots,      \* slots of the queue, scanned in the order of their ids
  Producers,     \* goroutines that enqueue
  Consumers,     \* goroutines that dequeue and answer
  Nobody,        \* none of them
  Priorities,
  Movable,       \* the slots that placement hands to another node
  MaxDepth,      \* Config.MaxDepth
  MaxTries,      \* maxDispatchRetries
  HasTTL,        \* whether messages may expire
  MaxMessages,   \* bound: messages ever in the queue
  MaxAbsorbed    \* bound: messages taken in from another node

ASSUME EngineAssumption ==
  /\ NumSlots \in Nat \ {0}
  /\ Nobody \notin Consumers
  /\ Priorities \subseteq 0..100
  /\ Movable \subseteq 1..NumSlots
  /\ MaxDepth \in Nat \ {0}
  /\ MaxTries \in Nat \ {0}
  /\ HasTTL \in BOOLEAN
  /\ MaxMessages \in Nat
  /\ MaxAbsorbed \in Nat

VARIABLES
  msgs,      \* msgs[n]: slot and priority of the n-th message
  line,      \* line[s][p]: the entries of band p of slot s, 0 for a stale one
  lease,     \* lease[n]: the consumer n is out with, Nobody for none
  lapsed,    \* the messages whose ExpiresAt is past
  frozen,    \* frozen[s]
  depth,     \* the depth counter
  reserved,  \* enqueues that have claimed room and not given the claim back
  prod,      \* prod[p]: where producer p is in EnqueueToSlot
  cons,      \* cons[c]: where consumer c is in Dequeue, Ack or Nack
  sweep,     \* where the sweeper is
  move,      \* where the handoff of a slot, or the absorb of one, is
  leaked,    \* history: messages removed without depth being told
  absorbed,  \* history: messages taken in from another node
  late,      \* history: messages that landed in a slot already frozen
  lost,      \* history: messages a drop destroyed that its copy did not have
  passed     \* history: messages servable ever since consumer c began its scan

engineVars == <<depth, reserved, frozen>>
slotVars   == <<msgs, line, lease>>
history    == <<leaked, absorbed, late, lost>>
vars == <<msgs, line, lease, lapsed, frozen, depth, reserved, prod, cons, sweep,
          move, leaked, absorbed, late, lost, passed>>

-----------------------------------------------------------------------------
Slots    == 1..NumSlots
Messages == 1..MaxMessages
NoSlot   == 0
NoHead   == MaxMessages + 1        \* headSeq = math.MaxUint64

Listed(s, p) == {line[s][p][i] : i \in DOMAIN line[s][p]} \ {0}
Ready(s)     == UNION {Listed(s, p) : p \in Priorities}
Leased(s)    == {n \in DOMAIN msgs : msgs[n].slot = s /\ lease[n] # Nobody}
Held(s)      == Ready(s) \cup Leased(s)
AllHeld      == UNION {Held(s) : s \in Slots}
Servable     == UNION {Ready(s) : s \in {t \in Slots : ~frozen[t]}}

(* The two atomics a slot publishes when it lets go of its mutex (Slot,    *)
(* HintExact): the highest band with an entry, stale or not, and the first *)
(* message of it.                                                          *)
Hint(s) == IF \A p \in Priorities : line[s][p] = <<>> THEN 0
           ELSE 1 + CHOOSE p \in Priorities :
                  /\ line[s][p] # <<>>
                  /\ \A q \in Priorities : line[s][q] # <<>> => q <= p

HeadSeq(s) ==
  LET band == line[s][Hint(s) - 1]
      live == {i \in DOMAIN band : band[i] # 0}
  IN IF Hint(s) = 0 \/ live = {} THEN NoHead
     ELSE band[CHOOSE i \in live : \A j \in live : i <= j]

IdleSweep == [pc |-> "idle", todo |-> {}, at |-> NoSlot, removed |-> 0]

Init ==
  /\ msgs = <<>>
  /\ line = [s \in Slots |-> [p \in Priorities |-> <<>>]]
  /\ lease = [n \in Messages |-> Nobody]
  /\ lapsed = {}
  /\ frozen = [s \in Slots |-> FALSE]
  /\ depth = 0
  /\ reserved = 0
  /\ prod = [p \in Producers |-> [pc |-> "idle", slot |-> NoSlot, prio |-> 0, pending |-> 0]]
  /\ cons = [c \in Consumers |-> [pc |-> "idle", at |-> NoSlot, h |-> 0, best |-> NoSlot,
                                  band |-> 0, seq |-> 0, tries |-> 0, msg |-> 0]]
  /\ sweep = IdleSweep
  /\ move = [pc |-> "idle", slot |-> NoSlot, copy |-> {}, count |-> 0]
  /\ leaked = 0
  /\ absorbed = 0
  /\ late = {}
  /\ lost = {}
  /\ passed = [c \in Consumers |-> {}]

(* A message's time to live runs out. *)
Lapse(n) ==
  /\ HasTTL
  /\ n \in AllHeld \ lapsed
  /\ lapsed' = lapsed \cup {n}
  /\ UNCHANGED <<slotVars, engineVars, prod, cons, sweep, move, history>>

-----------------------------------------------------------------------------
(* EnqueueToSlot *)

IdleProducer == [pc |-> "idle", slot |-> NoSlot, prio |-> 0, pending |-> 0]

(* Room is claimed: the claim numbers this enqueue among those in flight. *)
Reserve(p, s, pr) ==
  /\ prod[p].pc = "idle"
  /\ Len(msgs) < MaxMessages
  /\ reserved' = reserved + 1
  /\ prod' = [prod EXCEPT ![p] = [pc |-> "depth", slot |-> s, prio |-> pr,
                                  pending |-> reserved + 1]]
  /\ UNCHANGED <<slotVars, lapsed, frozen, depth, cons, sweep, move, history>>

Goto(p, pc) == prod' = [prod EXCEPT ![p].pc = pc]

(* Mutant of CheckDepth: the depth is compared without the claims. *)
CheckDepthAlone(p) ==
  /\ prod[p].pc = "depth"
  /\ Goto(p, IF depth + 1 > MaxDepth THEN "release" ELSE "frozen")
  /\ UNCHANGED <<slotVars, lapsed, engineVars, cons, sweep, move, history>>

CheckDepth(p) ==
  /\ prod[p].pc = "depth"
  /\ Goto(p, IF depth + prod[p].pending > MaxDepth THEN "release" ELSE "frozen")
  /\ UNCHANGED <<slotVars, lapsed, engineVars, cons, sweep, move, history>>

CheckFrozen(p) ==
  /\ prod[p].pc = "frozen"
  /\ Goto(p, IF frozen[prod[p].slot] THEN "release" ELSE "land")
  /\ UNCHANGED <<slotVars, lapsed, engineVars, cons, sweep, move, history>>

(* Under the mutex: the sequence number, the journal and the list. *)
Enter(s, pr) ==
  /\ Len(msgs) < MaxMessages
  /\ msgs' = Append(msgs, [slot |-> s, prio |-> pr])
  /\ line' = [line EXCEPT ![s][pr] = Append(@, Len(msgs) + 1)]
  /\ UNCHANGED lease

Land(p) ==
  /\ prod[p].pc = "land"
  /\ Enter(prod[p].slot, prod[p].prio)
  /\ late' = IF frozen[prod[p].slot] THEN late \cup {Len(msgs) + 1} ELSE late
  /\ Goto(p, "count")
  /\ UNCHANGED <<lapsed, engineVars, cons, sweep, move, leaked, absorbed, lost>>

(* The journal refused the record. *)
JournalFails(p) ==
  /\ prod[p].pc = "land"
  /\ Goto(p, "release")
  /\ UNCHANGED <<slotVars, lapsed, engineVars, cons, sweep, move, history>>

CountEnqueue(p) ==
  /\ prod[p].pc = "count"
  /\ depth' = depth + 1
  /\ Goto(p, "release")
  /\ UNCHANGED <<slotVars, lapsed, frozen, reserved, cons, sweep, move, history>>

Release(p) ==
  /\ prod[p].pc = "release"
  /\ reserved' = reserved - 1
  /\ prod' = [prod EXCEPT ![p] = IdleProducer]
  /\ UNCHANGED <<slotVars, lapsed, frozen, depth, cons, sweep, move, history>>

-----------------------------------------------------------------------------
(* Dequeue: takeUrgent *)

Become(c, r) == cons' = [cons EXCEPT ![c] = r]

(* The scan number `tries' begins. *)
Scan(tries) == [pc |-> "look", at |-> 1, h |-> 0, best |-> NoSlot, band |-> 0,
                seq |-> NoHead, tries |-> tries, msg |-> 0]
IdleConsumer == [pc |-> "idle", at |-> NoSlot, h |-> 0, best |-> NoSlot, band |-> 0,
                 seq |-> 0, tries |-> 0, msg |-> 0]

Dequeue(c) ==
  /\ cons[c].pc = "idle"
  /\ Become(c, Scan(1))
  /\ UNCHANGED <<slotVars, lapsed, engineVars, prod, sweep, move, history>>

Skip(r) == [r EXCEPT !.pc = "look", !.at = @ + 1]

(* Mutant of LoadFrozen: nobody looks whether there was a winner. *)
LoadFrozenNoWinner(c) ==
  LET r == cons[c] IN
  /\ r.pc = "look"
  /\ \/ r.at > NumSlots /\ Become(c, [r EXCEPT !.pc = "take"])
     \/ r.at \in Slots /\ frozen[r.at] /\ Become(c, Skip(r))
     \/ r.at \in Slots /\ ~frozen[r.at] /\ Become(c, [r EXCEPT !.pc = "hint"])
  /\ UNCHANGED <<slotVars, lapsed, engineVars, prod, sweep, move, history>>

(* s.frozen.Load() of the next slot; past the last one the winner is known, *)
(* and with none Dequeue answers that there is nothing.                     *)
LoadFrozen(c) ==
  LET r == cons[c] IN
  /\ r.pc = "look"
  /\ \/ r.at > NumSlots /\ r.best = NoSlot /\ Become(c, IdleConsumer)
     \/ r.at > NumSlots /\ r.best # NoSlot /\ Become(c, [r EXCEPT !.pc = "take"])
     \/ r.at \in Slots /\ frozen[r.at] /\ Become(c, Skip(r))
     \/ r.at \in Slots /\ ~frozen[r.at] /\ Become(c, [r EXCEPT !.pc = "hint"])
  /\ UNCHANGED <<slotVars, lapsed, engineVars, prod, sweep, move, history>>

(* s.hint.Load() *)
LoadHint(c) ==
  LET r == cons[c] IN
  /\ r.pc = "hint"
  /\ Become(c, IF Hint(r.at) = 0 THEN Skip(r)
               ELSE [r EXCEPT !.pc = "seq", !.h = Hint(r.at)])
  /\ UNCHANGED <<slotVars, lapsed, engineVars, prod, sweep, move, history>>

(* Mutant of Better: the older head wins whatever its priority. *)
BetterBySeq(r, seq) == r.best = NoSlot \/ seq < r.seq

Better(r, seq) == \/ r.best = NoSlot
                  \/ r.h - 1 > r.band
                  \/ r.h - 1 = r.band /\ seq < r.seq

(* s.headSeq.Load(), and the comparison with the best slot so far *)
LoadSeq(c) ==
  LET r == cons[c] IN
  /\ r.pc = "seq"
  /\ Become(c, IF Better(r, HeadSeq(r.at))
               THEN Skip([r EXCEPT !.best = r.at, !.band = r.h - 1, !.seq = HeadSeq(r.at)])
               ELSE Skip(r))
  /\ UNCHANGED <<slotVars, lapsed, engineVars, prod, sweep, move, history>>

(* The winner is locked and its band taken from.  The slot may have        *)
(* changed since it was looked at: stale entries are dropped, and so is an *)
(* expired message, which depth is not told of.                            *)
Stale(s, b)  == {i \in DOMAIN line[s][b] : \A j \in 1..i : line[s][b][j] = 0}
Behind(s, b) == SubSeq(line[s][b], Cardinality(Stale(s, b)) + 1, Len(line[s][b]))
Retry(r)     == IF r.tries < MaxTries THEN Scan(r.tries + 1) ELSE IdleConsumer

TakeFails(c) ==
  LET r == cons[c]
      rest == Behind(r.best, r.band)
  IN
  /\ r.pc = "take"
  /\ \/ rest = <<>>
        /\ line' = [line EXCEPT ![r.best][r.band] = <<>>]
        /\ UNCHANGED leaked
     \/ rest # <<>> /\ Head(rest) \in lapsed
        /\ line' = [line EXCEPT ![r.best][r.band] = Tail(rest)]
        /\ leaked' = leaked + 1
  /\ Become(c, Retry(r))
  /\ UNCHANGED <<msgs, lease, lapsed, engineVars, prod, sweep, move, absorbed, late, lost>>

Take(c) ==
  LET r == cons[c]
      rest == Behind(r.best, r.band)
  IN
  /\ r.pc = "take"
  /\ rest # <<>>
  /\ Head(rest) \notin lapsed
  /\ line' = [line EXCEPT ![r.best][r.band] = Tail(rest)]
  /\ lease' = [lease EXCEPT ![Head(rest)] = c]
  /\ Become(c, [IdleConsumer EXCEPT !.pc = "work", !.msg = Head(rest)])
  /\ UNCHANGED <<msgs, lapsed, engineVars, prod, sweep, move, history>>

-----------------------------------------------------------------------------
(* Ack and Nack.  The receipt counts while its consumer has the lease; the *)
(* epochs that tell one lease of a message from another are in Slot.       *)

Out(n)       == lease' = [lease EXCEPT ![n] = Nobody]
GoesBack(n)  == line' = [line EXCEPT ![msgs[n].slot][msgs[n].prio] = Append(@, n)]
Counting(c)  == Become(c, [IdleConsumer EXCEPT !.pc = "count"])

(* ErrNotInFlight, ErrLeaseExpired, or no answer at all: the worker died. *)
Forget(c) ==
  /\ cons[c].pc = "work"
  /\ Become(c, IdleConsumer)
  /\ UNCHANGED <<slotVars, lapsed, engineVars, prod, sweep, move, history>>

Ack(c) ==
  LET n == cons[c].msg IN
  /\ cons[c].pc = "work"
  /\ lease[n] = c
  /\ Out(n)
  /\ Counting(c)
  /\ UNCHANGED <<msgs, line, lapsed, engineVars, prod, sweep, move, history>>

(* Mutant of Nack: the message goes back and the lease stays. *)
NackKeepsLease(c) ==
  LET n == cons[c].msg IN
  /\ cons[c].pc = "work"
  /\ lease[n] = c
  /\ n \notin lapsed
  /\ GoesBack(n)
  /\ Become(c, IdleConsumer)
  /\ UNCHANGED <<msgs, lease, lapsed, engineVars, prod, sweep, move, history>>

(* An expired message goes, and only the dead-lettered one is counted. *)
Nack(c) ==
  LET n == cons[c].msg IN
  /\ cons[c].pc = "work"
  /\ lease[n] = c
  /\ Out(n)
  /\ \/ /\ n \in lapsed
        /\ leaked' = leaked + 1
        /\ Become(c, IdleConsumer)
        /\ UNCHANGED line
     \/ /\ n \notin lapsed                 \* dead-lettered
        /\ Counting(c)
        /\ UNCHANGED <<line, leaked>>
     \/ /\ n \notin lapsed                 \* to be retried
        /\ GoesBack(n)
        /\ Become(c, IdleConsumer)
        /\ UNCHANGED leaked
  /\ UNCHANGED <<msgs, lapsed, engineVars, prod, sweep, move, absorbed, late, lost>>

CountRemoval(c) ==
  /\ cons[c].pc = "count"
  /\ depth' = depth - 1
  /\ Become(c, IdleConsumer)
  /\ UNCHANGED <<slotVars, lapsed, frozen, reserved, prod, sweep, move, history>>

-----------------------------------------------------------------------------
(* Sweep *)

BeginSweep ==
  /\ sweep.pc = "idle"
  /\ sweep' = [IdleSweep EXCEPT !.pc = "look", !.todo = Slots]
  /\ UNCHANGED <<slotVars, lapsed, engineVars, prod, cons, move, history>>

(* The slots are a map, ranged over in any order; a frozen one is left out. *)
SweepLook ==
  /\ sweep.pc = "look"
  /\ \/ /\ sweep.todo = {}
        /\ sweep' = [sweep EXCEPT !.pc = "count"]
     \/ \E s \in sweep.todo :
          sweep' = [sweep EXCEPT !.todo = @ \ {s},
                                 !.pc = IF frozen[s] THEN "look" ELSE "sweep",
                                 !.at = IF frozen[s] THEN NoSlot ELSE s]
  /\ UNCHANGED <<slotVars, lapsed, engineVars, prod, cons, move, history>>

Orders(S) == Bijection(1..Cardinality(S), S)

(* What is left of a band, and who of T goes back to it. *)
Purged(b)  == [i \in DOMAIN b |-> IF b[i] \in lapsed THEN 0 ELSE b[i]]
Back(T, p) == {n \in T \ lapsed : msgs[n].prio = p}

(* The timers of one slot: the leases T have run out, and those of D were  *)
(* the last their message gets; what has expired goes, and the others go   *)
(* back.                                                                   *)
SweepSlot ==
  LET s == sweep.at IN
  /\ sweep.pc = "sweep"
  /\ \E T \in SUBSET Leased(s) : \E D \in SUBSET (T \ lapsed) :
       \E back \in [Priorities -> UNION {Orders(Back(T \ D, p)) : p \in Priorities}] :
         /\ \A p \in Priorities : back[p] \in Orders(Back(T \ D, p))
         /\ lease' = [n \in Messages |-> IF n \in T THEN Nobody ELSE lease[n]]
         /\ line' = [line EXCEPT ![s] =
              [p \in Priorities |-> Purged(line[s][p]) \o back[p]]]
         /\ sweep' = [sweep EXCEPT !.pc = "look", !.at = NoSlot,
                        !.removed = @ + Cardinality((T \cap lapsed) \cup D
                                                    \cup (Ready(s) \cap lapsed))]
  /\ UNCHANGED <<msgs, lapsed, engineVars, prod, cons, move, history>>

(* Mutant of CountSwept: a recount, stale when it is written. *)
CountSweptByRecount ==
  /\ sweep.pc = "count"
  /\ depth' = Cardinality(AllHeld)
  /\ sweep' = IdleSweep
  /\ UNCHANGED <<slotVars, lapsed, frozen, reserved, prod, cons, move, history>>

CountSwept ==
  /\ sweep.pc = "count"
  /\ depth' = depth - sweep.removed
  /\ sweep' = IdleSweep
  /\ UNCHANGED <<slotVars, lapsed, frozen, reserved, prod, cons, move, history>>

-----------------------------------------------------------------------------
(* A slot leaves: FreezeSlots, then DropSlots or ThawSlots.  One comes in: *)
(* Absorb.                                                                 *)

IdleMove == [pc |-> "idle", slot |-> NoSlot, copy |-> {}, count |-> 0]

Freeze(s) ==
  /\ move.pc = "idle"
  /\ frozen' = [frozen EXCEPT ![s] = TRUE]
  /\ move' = [IdleMove EXCEPT !.pc = "copy", !.slot = s]
  /\ UNCHANGED <<slotVars, lapsed, depth, reserved, prod, cons, sweep, history>>

(* Mutant of CopyAll: what is out with a worker is not copied. *)
CopyAllReady ==
  /\ move.pc = "copy"
  /\ move' = [move EXCEPT !.pc = "moving", !.copy = Ready(move.slot)]
  /\ UNCHANGED <<slotVars, lapsed, engineVars, prod, cons, sweep, history>>

CopyAll ==
  /\ move.pc = "copy"
  /\ move' = [move EXCEPT !.pc = "moving", !.copy = Held(move.slot)]
  /\ UNCHANGED <<slotVars, lapsed, engineVars, prod, cons, sweep, history>>

Thaw ==
  /\ move.pc = "moving"
  /\ frozen' = [frozen EXCEPT ![move.slot] = FALSE]
  /\ move' = IdleMove
  /\ UNCHANGED <<slotVars, lapsed, depth, reserved, prod, cons, sweep, history>>

Drain ==
  LET s == move.slot IN
  /\ move.pc = "moving"
  /\ line' = [line EXCEPT ![s] = [p \in Priorities |-> <<>>]]
  /\ lease' = [n \in Messages |-> IF n \in Leased(s) THEN Nobody ELSE lease[n]]
  /\ lost' = lost \cup (Held(s) \ move.copy)
  /\ move' = [move EXCEPT !.pc = "thaw", !.copy = {}, !.count = Cardinality(Held(s))]
  /\ UNCHANGED <<msgs, lapsed, engineVars, prod, cons, sweep, leaked, absorbed, late>>

ThawEmpty ==
  /\ move.pc = "thaw"
  /\ frozen' = [frozen EXCEPT ![move.slot] = FALSE]
  /\ move' = [move EXCEPT !.pc = "dropped"]
  /\ UNCHANGED <<slotVars, lapsed, depth, reserved, prod, cons, sweep, history>>

CountDropped ==
  /\ move.pc = "dropped"
  /\ depth' = depth - move.count
  /\ move' = IdleMove
  /\ UNCHANGED <<slotVars, lapsed, frozen, reserved, prod, cons, sweep, history>>

AbsorbIn(s, pr) ==
  /\ move.pc = "idle"
  /\ absorbed < MaxAbsorbed
  /\ Enter(s, pr)
  /\ absorbed' = absorbed + 1
  /\ move' = [IdleMove EXCEPT !.pc = "absorbed", !.count = 1]
  /\ UNCHANGED <<lapsed, engineVars, prod, cons, sweep, leaked, late, lost>>

CountAbsorbed ==
  /\ move.pc = "absorbed"
  /\ depth' = depth + move.count
  /\ move' = IdleMove
  /\ UNCHANGED <<slotVars, lapsed, frozen, reserved, prod, cons, sweep, history>>

-----------------------------------------------------------------------------
(* The history of the scans goes along with every step; a scan's starts    *)
(* afresh with the scan.                                                   *)
Starts(c) == cons'[c].pc = "look" /\ cons'[c].at = 1 /\ cons[c].pc # "look"

Watch ==
  passed' = [c \in Consumers |->
               IF Starts(c) THEN Servable'
               ELSE IF cons'[c].pc \in {"look", "hint", "seq", "take"}
                    THEN passed[c] \cap Servable' ELSE {}]

Next ==
  \/ \E n \in Messages : Lapse(n) /\ Watch
  \/ \E p \in Producers :
       \/ \E s \in Slots, pr \in Priorities : Reserve(p, s, pr) /\ Watch
       \/ CheckDepth(p) /\ Watch
       \/ CheckFrozen(p) /\ Watch
       \/ Land(p) /\ Watch
       \/ JournalFails(p) /\ Watch
       \/ CountEnqueue(p) /\ Watch
       \/ Release(p) /\ Watch
  \/ \E c \in Consumers :
       \/ Dequeue(c) /\ Watch
       \/ LoadFrozen(c) /\ Watch
       \/ LoadHint(c) /\ Watch
       \/ LoadSeq(c) /\ Watch
       \/ TakeFails(c) /\ Watch
       \/ Take(c) /\ Watch
       \/ Forget(c) /\ Watch
       \/ Ack(c) /\ Watch
       \/ Nack(c) /\ Watch
       \/ CountRemoval(c) /\ Watch
  \/ BeginSweep /\ Watch
  \/ SweepLook /\ Watch
  \/ SweepSlot /\ Watch
  \/ CountSwept /\ Watch
  \/ \E s \in Movable : Freeze(s) /\ Watch
  \/ CopyAll /\ Watch
  \/ Thaw /\ Watch
  \/ Drain /\ Watch
  \/ ThawEmpty /\ Watch
  \/ CountDropped /\ Watch
  \/ \E s \in Slots, pr \in Priorities : AbsorbIn(s, pr) /\ Watch
  \/ CountAbsorbed /\ Watch

Spec == Init /\ [][Next]_vars

-----------------------------------------------------------------------------
TypeOK ==
  /\ msgs \in Seq([slot : Slots, prio : Priorities])
  /\ Len(msgs) <= MaxMessages
  /\ line \in [Slots -> [Priorities -> Seq(0..Len(msgs))]]
  /\ lease \in [Messages -> Consumers \cup {Nobody}]
  /\ lapsed \subseteq DOMAIN msgs
  /\ frozen \in [Slots -> BOOLEAN]
  /\ depth \in Int
  /\ reserved \in Nat
  /\ \A p \in Producers :
       /\ prod[p].pc \in {"idle", "depth", "frozen", "land", "count", "release"}
       /\ prod[p].pc # "idle" => prod[p].slot \in Slots /\ prod[p].prio \in Priorities
  /\ \A c \in Consumers :
       /\ cons[c].pc \in {"idle", "look", "hint", "seq", "take", "work", "count"}
       /\ cons[c].pc = "take" => cons[c].best \in Slots /\ cons[c].band \in Priorities
       /\ cons[c].pc = "work" <=> cons[c].msg # 0
  /\ sweep.pc \in {"idle", "look", "sweep", "count"}
  /\ move.pc \in {"idle", "copy", "moving", "thaw", "dropped", "absorbed"}
  /\ move.slot \in Slots \cup {NoSlot}

At(f, pc) == {x \in DOMAIN f : f[x].pc = pc}

(* The cap is a cap: however many producers run at once, and whatever      *)
(* sweeps, drops and acknowledgements do to the depth meanwhile, the queue *)
(* never holds more than MaxDepth, apart from what other nodes handed in.  *)
(* (queue.go:219-227; the depth is read and the message lands without one  *)
(* lock over both.)                                                        *)
CapHolds == Cardinality(AllHeld) <= MaxDepth + absorbed

(* The depth counter is what the queue holds, up to steps still to be      *)
(* counted and to the messages nobody counts: no two adjustments that race *)
(* lose one another, and the sweep's delta never erases an enqueue         *)
(* (queue.go:357-358).  A claim is given back on every path.               *)
DepthAccounted ==
  /\ depth = Cardinality(AllHeld) + leaked
             - Cardinality(At(prod, "count"))
             + Cardinality(At(cons, "count"))
             + sweep.removed
             + (IF move.pc = "absorbed" THEN - move.count ELSE move.count)
  /\ reserved = Cardinality({p \in Producers : prod[p].pc # "idle"})

(* A handoff destroys no message that its copy did not have, except one    *)
(* that landed after the freeze: the enqueue had looked at frozen before   *)
(* it was set.                                                             *)
LostOnlyIfLate == lost \subseteq late

(* A message is never listed twice, nor listed and out at once: two        *)
(* consumers that scanned the same head do not both get it.                *)
NotTwice ==
  \A s \in Slots : \A p \in Priorities :
    /\ \A i, j \in DOMAIN line[s][p] : line[s][p][i] = line[s][p][j] /\ i # j => line[s][p][i] = 0
    /\ \A n \in Listed(s, p) : /\ lease[n] = Nobody
                               /\ msgs[n] = [slot |-> s, prio |-> p]

(* Dequeue never hands out a message while a more urgent one has been      *)
(* there to be had since the scan began, and never answers that there is   *)
(* nothing while there was something all along (between priorities a       *)
(* normal queue is exact, HLD section 14).                                 *)
MostUrgentFirst ==
  [][\A c \in Consumers :
       /\ cons[c].pc = "take" /\ cons'[c].pc = "work" =>
            \A m \in passed[c] : msgs[m].prio <= msgs[cons'[c].msg].prio
       /\ cons[c].pc = "look" /\ cons'[c].pc = "idle" => passed[c] = {}]_vars

=============================================================================
