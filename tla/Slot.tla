-------------------------------- MODULE Slot --------------------------------
(***************************************************************************)
(* One slot of the queue engine (backend/queue/logic/engine: slot.go,      *)
(* sweep.go, group.go, heaps.go, stats.go).                                *)
(*                                                                         *)
(* A slot keeps messages in groups, and lists every group that can be      *)
(* served in the band of its head's priority.  A band entry is a group and *)
(* the version the group had when it was listed; bumping the version makes *)
(* the entries already in the bands stale without searching for them.      *)
(*                                                                         *)
(* Everything is covered by the slot's mutex, so an operation is one       *)
(* action.  The loops of Sweep and Absorb keep the mutex from their first  *)
(* to their last iteration; each iteration is an action, `holder' says     *)
(* whose loop has the mutex, and no other operation runs until the loop is *)
(* over.                                                                   *)
(*                                                                         *)
(* A message is named by its Seq, which is given out under the mutex, so   *)
(* message n is the n-th one ever enqueued in the slot.  Its group is the  *)
(* caller's GroupID; an ungrouped message has a group of its own.          *)
(***************************************************************************)
EXTENDS Integers, Sequences, FiniteSets

CONSTANTS
  Groups,         \* group keys
  Priorities,     \* the priorities producers use
  TTLs,           \* lifetimes a producer may ask for, 0 for none
  Delays,         \* delays of an enqueue or a nack, 0 for none
  Visibility,     \* length of a lease (Config.VisibilityTimeout)
  MaxRetries,     \* Config.MaxRetries
  HasDeadLetter,  \* Config.HasDeadLetter
  HeadScanLimit,  \* how many entries headMessage looks at
  MaxMessages,    \* bound: messages ever enqueued
  MaxEpoch,       \* bound: deliveries
  MaxTime         \* bound: the clock

ASSUME SlotAssumption ==
  /\ Priorities \subseteq 0..100
  /\ TTLs \subseteq Nat
  /\ Delays \subseteq Nat
  /\ Visibility \in Nat
  /\ MaxRetries \in Nat
  /\ HasDeadLetter \in BOOLEAN
  /\ HeadScanLimit \in Nat
  /\ MaxMessages \in Nat
  /\ MaxEpoch \in Nat
  /\ MaxTime \in Nat

VARIABLES
  now,       \* the clock
  msgs,      \* msgs[n] is the message with sequence number n
  grp,       \* grp[g]: list of messages, locked, inBand, version
  groups,    \* the keys of the map s.groups
  bands,     \* bands[p]: entries of the groups listed at priority p
  bandMask,  \* the priorities whose bit is set
  inflight,  \* inflight[n]: the epoch of the lease on n, 0 for none
  timers,    \* the timer heap: a message, an epoch and a deadline each
  delayed,   \* the delay heap: messages held until their deliverAfter
  epochSeq,  \* the last epoch given out
  st,        \* gauges and lifetime totals
  hint,      \* highest listed priority + 1, 0 for none (read without the mutex)
  headSeq,   \* Seq of the next message of that priority (read without the mutex)
  away,      \* messages drained from the slot, held by another owner
  holder,    \* the loop that has the mutex, "none" when it is free
  opNow,     \* the clock value the loop works with
  todo       \* what the loop still has to visit: groups of sweepTTL

vars == <<now, msgs, grp, groups, bands, bandMask, inflight, timers, delayed,
          epochSeq, st, hint, headSeq, away, holder, opNow, todo>>

content == <<grp, groups, bands, bandMask>>
lockVars == <<holder, opNow, todo>>

-----------------------------------------------------------------------------
(* Types *)

Seqs == 1..MaxMessages                   \* message names
NoHead == MaxMessages + 1                \* headSeq = math.MaxUint64

Message == [prio : Priorities, group : Groups, expiresAt : Nat,
            deliverAfter : Nat, attempts : Nat]
Group   == [msgs : Seq(Seqs), locked : BOOLEAN, inBand : BOOLEAN, version : Nat]
Entry   == [g : Groups, ver : Nat]
Timer   == [id : Seqs, epoch : Nat, at : Nat]
Buckets == 0..2
Stats   == [ready : [Buckets -> Int], inflight : Int, delayed : Int,
            acked : Nat, expired : Nat, deadLettered : Nat]
Holders == {"none", "release", "leases", "ttl", "absorb"}

-----------------------------------------------------------------------------
(* Messages *)

Expired(n, t) == msgs[n].expiresAt # 0 /\ t >= msgs[n].expiresAt

bucketOf(p) == IF p <= 33 THEN 0 ELSE IF p <= 66 THEN 1 ELSE 2

(* Mutant of Move: a transition adjusts the gauge it enters and forgets    *)
(* the one it leaves.                                                      *)
MoveForgetsSource(s, S, from, to) ==
  LET Delta(place) == IF to = place THEN 1 ELSE 0
      InBucket(b) == {n \in S : bucketOf(msgs'[n].prio) = b}
  IN [s EXCEPT !.ready = [b \in Buckets |->
                            s.ready[b] + Delta("ready") * Cardinality(InBucket(b))],
               !.inflight = @ + Delta("inflight") * Cardinality(S),
               !.delayed  = @ + Delta("delayed") * Cardinality(S)]

(* The gauges after the messages of S went from one place to another.  The *)
(* place "absent" has no gauge: a message there is not in the slot.  (The  *)
(* step may have created or changed a message, hence msgs'; its priority   *)
(* and its group never change.)                                            *)
Move(s, S, from, to) ==
  LET Delta(place) == (IF to = place THEN 1 ELSE 0) - (IF from = place THEN 1 ELSE 0)
      InBucket(b) == {n \in S : bucketOf(msgs'[n].prio) = b}
  IN [s EXCEPT !.ready = [b \in Buckets |->
                            s.ready[b] + Delta("ready") * Cardinality(InBucket(b))],
               !.inflight = @ + Delta("inflight") * Cardinality(S),
               !.delayed  = @ + Delta("delayed") * Cardinality(S)]

-----------------------------------------------------------------------------
(* Groups and bands *)

(* Group g becomes r; nothing is listed. *)
PutGroup(g, r) ==
  /\ grp' = [grp EXCEPT ![g] = r]
  /\ UNCHANGED <<bands, bandMask>>

(* pushGroup: lists r under a new version at the back of its head's band,  *)
(* unless it has nothing to serve or is locked.                            *)
PushGroup(g, r) ==
  \/ /\ r.msgs = <<>> \/ r.locked
     /\ PutGroup(g, r)
  \/ /\ r.msgs # <<>> /\ ~r.locked
     /\ LET p == msgs'[Head(r.msgs)].prio IN
          /\ grp' = [grp EXCEPT ![g] = [r EXCEPT !.version = @ + 1, !.inBand = TRUE]]
          /\ bands' = [bands EXCEPT ![p] = Append(@, [g |-> g, ver |-> r.version + 1])]
          /\ bandMask' = bandMask \cup {p}

(* "if !g.inBand { s.pushGroup(g) }" *)
PushIfUnlisted(g, r) ==
  \/ r.inBand /\ PutGroup(g, r)
  \/ ~r.inBand /\ PushGroup(g, r)

(* Mutant of DropGroupIfIdle: an empty group stays in the map. *)
DropGroupNever(g) == UNCHANGED groups

(* dropGroupIfIdle, after g became r: the map forgets a group nobody needs. *)
DropGroupIfIdle(g) ==
  LET r == grp'[g] IN
  groups' = IF ~r.locked /\ r.msgs = <<>> /\ ~r.inBand THEN groups \ {g} ELSE groups

(* admit: the message joins the back of its group. *)
Admit(n) ==
  LET g == msgs'[n].group
      r == [grp[g] EXCEPT !.msgs = Append(@, n)]
  IN /\ PushIfUnlisted(g, r)
     /\ groups' = groups \cup {g}

(* Mutant of Unlock: an empty group is forgotten without being unlocked. *)
UnlockEarlyReturn(g, r) ==
  LET u == [r EXCEPT !.locked = FALSE] IN
  IF u.msgs = <<>> THEN PutGroup(g, r) /\ groups' = groups \ {g}
  ELSE PushIfUnlisted(g, u) /\ UNCHANGED groups

(* unlock: the group can be served again, or is forgotten if it is empty. *)
Unlock(g, r) ==
  LET u == [r EXCEPT !.locked = FALSE] IN
  /\ IF u.msgs = <<>> THEN PutGroup(g, u) ELSE PushIfUnlisted(g, u)
  /\ IF u.msgs = <<>> THEN DropGroupIfIdle(g) ELSE UNCHANGED groups

-----------------------------------------------------------------------------
(* The hint the dispatcher reads without the mutex *)

(* headMessage looks at the first HeadScanLimit entries only. *)
Heads(p, b, gr) ==
  {i \in DOMAIN b[p] : /\ i <= HeadScanLimit
                       /\ b[p][i].ver = gr[b[p][i].g].version
                       /\ ~gr[b[p][i].g].locked
                       /\ gr[b[p][i].g].msgs # <<>>}

Highest(mask) == CHOOSE p \in mask : \A q \in mask : q <= p

HintOf(mask) == IF mask = {} THEN 0 ELSE Highest(mask) + 1

HeadSeqOf(mask, b, gr) ==
  LET p == Highest(mask)
      first == CHOOSE i \in Heads(p, b, gr) : \A j \in Heads(p, b, gr) : i <= j
  IN IF mask = {} THEN NoHead
     ELSE IF Heads(p, b, gr) = {} THEN NoHead
     ELSE Head(gr[b[p][first].g].msgs)

RefreshHint ==
  /\ hint' = HintOf(bandMask')
  /\ headSeq' = HeadSeqOf(bandMask', bands', grp')

KeepHint == UNCHANGED <<hint, headSeq>>

-----------------------------------------------------------------------------
(* What the slot holds *)

Queued(g) == {grp[g].msgs[i] : i \in DOMAIN grp[g].msgs}
Ready     == UNION {Queued(g) : g \in Groups}
InFlight  == {n \in Seqs : inflight[n] # 0}
Present   == Ready \cup InFlight \cup delayed

Free == holder = "none"

-----------------------------------------------------------------------------
(* Initial state: newSlot. *)

Init ==
  /\ now = 0
  /\ msgs = <<>>
  /\ grp = [g \in Groups |-> [msgs |-> <<>>, locked |-> FALSE,
                              inBand |-> FALSE, version |-> 0]]
  /\ groups = {}
  /\ bands = [p \in Priorities |-> <<>>]
  /\ bandMask = {}
  /\ inflight = [n \in Seqs |-> 0]
  /\ timers = {}
  /\ delayed = {}
  /\ epochSeq = 0
  /\ st = [ready |-> [b \in Buckets |-> 0], inflight |-> 0, delayed |-> 0,
           acked |-> 0, expired |-> 0, deadLettered |-> 0]
  /\ hint = 0
  /\ headSeq = NoHead
  /\ away = {}
  /\ holder = "none"
  /\ opNow = 0
  /\ todo = {}

(* The clock is read before the mutex is taken, so it also runs while a    *)
(* loop holds the mutex; the loop goes on with the value it read (opNow).  *)
Tick ==
  /\ now < MaxTime
  /\ now' = now + 1
  /\ UNCHANGED <<msgs, content, inflight, timers, delayed, epochSeq, st,
                 hint, headSeq, away, lockVars>>

-----------------------------------------------------------------------------
(* Enqueue, delivery, acknowledgement *)

(* A producer's message is held if it asked for a delay, else admitted.    *)
Enqueue(p, g, ttl, delay) ==
  LET n == Len(msgs) + 1
      m == [prio |-> p, group |-> g, attempts |-> 0,
            expiresAt |-> IF ttl > 0 THEN now + ttl ELSE 0,
            deliverAfter |-> IF delay > 0 THEN now + delay ELSE 0]
  IN
  /\ Free
  /\ n <= MaxMessages
  /\ msgs' = Append(msgs, m)
  /\ \/ /\ delay > 0
        /\ delayed' = delayed \cup {n}
        /\ st' = Move(st, {n}, "absent", "delayed")
        /\ UNCHANGED content
        /\ KeepHint
     \/ /\ delay = 0
        /\ st' = Move(st, {n}, "absent", "ready")
        /\ Admit(n)
        /\ RefreshHint
        /\ UNCHANGED delayed
  /\ UNCHANGED <<now, inflight, timers, epochSeq, away, lockVars>>

(* The entries takeGroup can serve.  A stale entry names a group that has  *)
(* been listed again since, or has left the bands.                         *)
Current(e)   == e.ver = grp[e.g].version
Servable(e)  == Current(e) /\ ~grp[e.g].locked /\ grp[e.g].msgs # <<>>
FirstServable(p) ==
  {i \in DOMAIN bands[p] : /\ Servable(bands[p][i])
                           /\ \A j \in 1..(i-1) : ~Servable(bands[p][j])}

(* takeGroup pops the first i entries of band p, and drops the band when   *)
(* that was all of it.  The groups popped while current are not listed any *)
(* more.                                                                   *)
PopBand(p, i) ==
  /\ bands' = [bands EXCEPT ![p] = SubSeq(@, i + 1, Len(@))]
  /\ bandMask' = IF i = Len(bands[p]) THEN bandMask \ {p} ELSE bandMask

Unlisted(p, i) ==
  [g \in Groups |->
     [grp[g] EXCEPT !.inBand = @ /\ ~\E j \in 1..i : /\ bands[p][j].g = g
                                                     /\ Current(bands[p][j])]]

(* take found nothing to serve in the band of a hint that was out of date. *)
TakeNothing(p) ==
  /\ Free
  /\ FirstServable(p) = {}
  /\ PopBand(p, Len(bands[p]))
  /\ grp' = Unlisted(p, Len(bands[p]))
  /\ RefreshHint
  /\ UNCHANGED <<now, msgs, groups, inflight, timers, delayed, epochSeq, st, away,
                 lockVars>>

(* take pops the first servable group of band p, drops its k expired       *)
(* messages, and leases the next one.  The group is not listed again: it   *)
(* is locked until the lease ends.                                         *)
ExpiredPrefix(g, t) ==
  {k \in 0..Len(grp[g].msgs) :
     /\ \A i \in 1..k : Expired(grp[g].msgs[i], t)
     /\ k < Len(grp[g].msgs) => ~Expired(grp[g].msgs[k + 1], t)}

Dropped(g, k) == {grp[g].msgs[i] : i \in 1..k}
After(g, k)   == SubSeq(grp[g].msgs, k + 1, Len(grp[g].msgs))

Expire(s, S) == [Move(s, S, "ready", "absent") EXCEPT !.expired = @ + Cardinality(S)]

Take(p) ==
  /\ Free
  /\ epochSeq < MaxEpoch
  /\ \E i \in FirstServable(p) :
       LET g == bands[p][i].g IN
       \E k \in ExpiredPrefix(g, now) :
         /\ k < Len(grp[g].msgs)
         /\ LET n == grp[g].msgs[k + 1]
                e == epochSeq + 1
            IN
            /\ msgs' = [msgs EXCEPT ![n].attempts = @ + 1]
            /\ epochSeq' = e
            /\ inflight' = [inflight EXCEPT ![n] = e]
            /\ timers' = timers \cup {[id |-> n, epoch |-> e, at |-> now + Visibility]}
            /\ PopBand(p, i)
            /\ grp' = [Unlisted(p, i) EXCEPT ![g].msgs = After(g, k + 1),
                                             ![g].locked = TRUE]
            /\ st' = Move(Expire(st, Dropped(g, k)), {n}, "ready", "inflight")
  /\ RefreshHint
  /\ UNCHANGED <<now, groups, delayed, away, lockVars>>

(* Every message of the group had expired: the group is forgotten. *)
TakeExpired(p) ==
  /\ Free
  /\ UNCHANGED msgs
  /\ \E i \in FirstServable(p) :
       LET g == bands[p][i].g
           k == Len(grp[g].msgs)
       IN /\ k \in ExpiredPrefix(g, now)
          /\ PopBand(p, i)
          /\ grp' = [Unlisted(p, i) EXCEPT ![g].msgs = <<>>]
          /\ DropGroupIfIdle(g)
          /\ st' = Expire(st, Dropped(g, k))
  /\ RefreshHint
  /\ UNCHANGED <<now, inflight, timers, delayed, epochSeq, away, lockVars>>

(* A receipt names a message and the epoch of one delivery.  It counts     *)
(* while that delivery holds the lease; otherwise the caller gets          *)
(* ErrNotInFlight or ErrLeaseExpired and nothing changes.                  *)
Holds(n, e) == inflight[n] # 0 /\ inflight[n] = e

(* Mutant of Ack: the lease is not deleted. *)
AckKeepsLease(n, e) ==
  /\ Free
  /\ Holds(n, e)
  /\ UNCHANGED <<inflight, msgs>>
  /\ st' = [Move(st, {n}, "inflight", "absent") EXCEPT !.acked = @ + 1]
  /\ Unlock(msgs[n].group, grp[msgs[n].group])
  /\ RefreshHint
  /\ UNCHANGED <<now, timers, delayed, epochSeq, away, lockVars>>

Ack(n, e) ==
  /\ Free
  /\ Holds(n, e)
  /\ inflight' = [inflight EXCEPT ![n] = 0]
  /\ UNCHANGED msgs
  /\ st' = [Move(st, {n}, "inflight", "absent") EXCEPT !.acked = @ + 1]
  /\ Unlock(msgs[n].group, grp[msgs[n].group])
  /\ RefreshHint
  /\ UNCHANGED <<now, timers, delayed, epochSeq, away, lockVars>>

(* Mutant of Retire: a message to be retried goes to the back of its group. *)
RetireToTheBack(n, t, delay) ==
  LET g == msgs[n].group IN
  /\ inflight' = [inflight EXCEPT ![n] = 0]
  /\ UNCHANGED <<msgs, delayed>>
  /\ st' = Move(st, {n}, "inflight", "ready")
  /\ Unlock(g, [grp[g] EXCEPT !.msgs = Append(@, n)])

(* retire: what becomes of message n when its lease ends without an        *)
(* acknowledgement.  Its group is unlocked whatever happens to it.         *)
Retire(n, t, delay) ==
  LET g == msgs[n].group
      spent == msgs[n].attempts >= MaxRetries /\ HasDeadLetter
  IN
  /\ inflight' = [inflight EXCEPT ![n] = 0]
  /\ \/ /\ Expired(n, t)
        /\ UNCHANGED <<msgs, delayed>>
        /\ st' = [Move(st, {n}, "inflight", "absent") EXCEPT !.expired = @ + 1]
        /\ Unlock(g, grp[g])
     \/ /\ ~Expired(n, t) /\ spent
        /\ UNCHANGED <<msgs, delayed>>
        /\ st' = [Move(st, {n}, "inflight", "absent") EXCEPT !.deadLettered = @ + 1]
        /\ Unlock(g, grp[g])
     \/ /\ ~Expired(n, t) /\ ~spent /\ delay > 0
        /\ msgs' = [msgs EXCEPT ![n].deliverAfter = t + delay]
        /\ delayed' = delayed \cup {n}
        /\ st' = Move(st, {n}, "inflight", "delayed")
        /\ Unlock(g, grp[g])
     \/ /\ ~Expired(n, t) /\ ~spent /\ delay = 0
        /\ UNCHANGED <<msgs, delayed>>
        /\ st' = Move(st, {n}, "inflight", "ready")
        /\ Unlock(g, [grp[g] EXCEPT !.msgs = <<n>> \o @])

Nack(n, e, delay) ==
  /\ Free
  /\ Holds(n, e)
  /\ Retire(n, now, delay)
  /\ RefreshHint
  /\ UNCHANGED <<now, timers, epochSeq, away, lockVars>>

-----------------------------------------------------------------------------
(* Sweep: releaseDelayed, sweepLeases and sweepTTL, one after the other    *)
(* under one hold of the mutex.                                            *)

BeginSweep ==
  /\ Free
  /\ holder' = "release"
  /\ opNow' = now
  /\ UNCHANGED <<now, msgs, content, inflight, timers, delayed, epochSeq, st,
                 hint, headSeq, away, todo>>

(* One message whose delay is over, the earliest first. *)
ReleaseDelayed(n) ==
  /\ holder = "release"
  /\ msgs[n].deliverAfter <= opNow
  /\ \A d \in delayed : msgs[n].deliverAfter <= msgs[d].deliverAfter
  /\ delayed' = delayed \ {n}
  /\ msgs' = [msgs EXCEPT ![n].deliverAfter = 0]
  /\ st' = Move(st, {n}, "delayed", "ready")
  /\ Admit(n)
  /\ KeepHint
  /\ UNCHANGED <<now, inflight, timers, epochSeq, away, lockVars>>

ReleaseDone ==
  /\ holder = "release"
  /\ \A d \in delayed : msgs[d].deliverAfter > opNow
  /\ holder' = "leases"
  /\ UNCHANGED <<content, now, msgs, inflight, timers, delayed, epochSeq, st, away,
                 opNow, todo>>
  /\ RefreshHint

(* Mutant of SweepLease: a stale timer takes its message's other timers    *)
(* with it.                                                                *)
SweepLeaseById(e) ==
  /\ holder = "leases"
  /\ e.at <= opNow
  /\ \A f \in timers : e.at <= f.at
  /\ timers' = {f \in timers : f.id # e.id}
  /\ \/ /\ ~Holds(e.id, e.epoch)
        /\ UNCHANGED <<msgs, content, inflight, delayed, st>>
     \/ /\ Holds(e.id, e.epoch)
        /\ Retire(e.id, opNow, 0)
  /\ KeepHint
  /\ UNCHANGED <<now, epochSeq, away, lockVars>>

(* One timer that is due, the earliest first.  An acknowledgement leaves   *)
(* its timer behind, so the epoch says whether the lease is still on.      *)
SweepLease(e) ==
  /\ holder = "leases"
  /\ e.at <= opNow
  /\ \A f \in timers : e.at <= f.at
  /\ timers' = timers \ {e}
  /\ \/ /\ ~Holds(e.id, e.epoch)
        /\ UNCHANGED <<msgs, content, inflight, delayed, st>>
     \/ /\ Holds(e.id, e.epoch)
        /\ Retire(e.id, opNow, 0)
  /\ KeepHint
  /\ UNCHANGED <<now, epochSeq, away, lockVars>>

LeasesDone ==
  /\ holder = "leases"
  /\ \A e \in timers : e.at > opNow
  /\ holder' = "ttl"
  /\ todo' = groups
  /\ UNCHANGED <<content, now, msgs, inflight, timers, delayed, epochSeq, st, away,
                 opNow>>
  /\ RefreshHint

(* Mutant of SweepTTL: the group keeps the entry of the head it lost. *)
SweepTTLKeepsEntry(g) ==
  /\ holder = "ttl"
  /\ UNCHANGED msgs
  /\ \E k \in ExpiredPrefix(g, opNow) :
       /\ PushIfUnlisted(g, [grp[g] EXCEPT !.msgs = After(g, k)])
       /\ DropGroupIfIdle(g)
       /\ st' = Expire(st, Dropped(g, k))
  /\ todo' = todo \ {g}
  /\ KeepHint
  /\ UNCHANGED <<now, inflight, timers, delayed, epochSeq, away, holder, opNow>>

(* One group of the map: its expired head goes.  A group that lost its     *)
(* head is listed under a priority it may no longer have, so it is listed  *)
(* again.                                                                  *)
SweepTTL(g) ==
  /\ holder = "ttl"
  /\ UNCHANGED msgs
  /\ \E k \in ExpiredPrefix(g, opNow) :
       LET cut == [grp[g] EXCEPT !.msgs = After(g, k)]
           r   == IF k > 0 /\ cut.inBand
                  THEN [cut EXCEPT !.version = @ + 1, !.inBand = FALSE]
                  ELSE cut
       IN /\ PushIfUnlisted(g, r)
          /\ DropGroupIfIdle(g)
          /\ st' = Expire(st, Dropped(g, k))
  /\ todo' = todo \ {g}
  /\ KeepHint
  /\ UNCHANGED <<now, inflight, timers, delayed, epochSeq, away, holder, opNow>>

(* Mutant of SweepDone: the mutex is freed in the middle of the loop. *)
SweepDoneEarly ==
  /\ holder = "ttl"
  /\ holder' = "none"
  /\ opNow' = 0
  /\ UNCHANGED <<content, now, msgs, inflight, timers, delayed, epochSeq, st, away,
                 todo>>
  /\ RefreshHint

SweepDone ==
  /\ holder = "ttl"
  /\ todo = {}
  /\ holder' = "none"
  /\ opNow' = 0
  /\ UNCHANGED <<content, now, msgs, inflight, timers, delayed, epochSeq, st, away,
                 todo>>
  /\ RefreshHint

-----------------------------------------------------------------------------
(* Handing the slot over and taking it (back) *)

(* drain: the slot is emptied; the epochs go on where they were. *)
Drain ==
  /\ Free
  /\ Present # {}
  /\ away' = away \cup Present
  /\ inflight' = [n \in Seqs |-> 0]
  /\ grp' = [g \in Groups |-> [grp[g] EXCEPT !.msgs = <<>>, !.locked = FALSE,
                                             !.inBand = FALSE]]
  /\ groups' = {}
  /\ bands' = [p \in Priorities |-> <<>>]
  /\ bandMask' = {}
  /\ timers' = {}
  /\ delayed' = {}
  /\ st' = [st EXCEPT !.ready = [b \in Buckets |-> 0], !.inflight = 0, !.delayed = 0]
  /\ RefreshHint
  /\ UNCHANGED <<now, msgs, epochSeq, lockVars>>

(* Absorb: what is away comes (back) in, as from the log of a node that    *)
(* restarts or from another owner.  Messages still delayed are held; the   *)
(* others go, group by group and in Seq order, ahead of what the group     *)
(* already has.                                                            *)
StillDelayed(n, t) == msgs[n].deliverAfter # 0 /\ msgs[n].deliverAfter > t
Arriving(g, t)     == {n \in away : msgs[n].group = g /\ ~StillDelayed(n, t)}
InSeqOrder(S)      == {s \in [1..Cardinality(S) -> S] :
                         \A i, j \in 1..Cardinality(S) : i < j => s[i] < s[j]}

BeginAbsorb ==
  /\ Free
  /\ away # {}
  /\ holder' = "absorb"
  /\ opNow' = now
  /\ UNCHANGED <<now, msgs, content, inflight, timers, delayed, epochSeq, st,
                 hint, headSeq, away, todo>>

AbsorbGroup(g) ==
  /\ holder = "absorb"
  /\ Arriving(g, opNow) # {}
  /\ UNCHANGED msgs
  /\ \E list \in InSeqOrder(Arriving(g, opNow)) :
       PushGroup(g, [grp[g] EXCEPT !.msgs = list \o @, !.version = @ + 1,
                                   !.inBand = FALSE])
  /\ groups' = groups \cup {g}
  /\ st' = Move(st, Arriving(g, opNow), "absent", "ready")
  /\ away' = away \ Arriving(g, opNow)
  /\ KeepHint
  /\ UNCHANGED <<now, inflight, timers, delayed, epochSeq, lockVars>>

(* Mutant of AbsorbDone: the messages still delayed are not held. *)
AbsorbDoneForgetsDelayed ==
  /\ holder = "absorb"
  /\ \A g \in Groups : Arriving(g, opNow) = {}
  /\ UNCHANGED <<now, msgs, content, inflight, timers, epochSeq, todo, delayed, st>>
  /\ away' = {}
  /\ holder' = "none"
  /\ opNow' = 0
  /\ RefreshHint

AbsorbDone ==
  /\ holder = "absorb"
  /\ \A g \in Groups : Arriving(g, opNow) = {}
  /\ UNCHANGED <<now, msgs, content, inflight, timers, epochSeq, todo>>
  /\ delayed' = delayed \cup away
  /\ st' = Move(st, away, "absent", "delayed")
  /\ away' = {}
  /\ holder' = "none"
  /\ opNow' = 0
  /\ RefreshHint

-----------------------------------------------------------------------------
Next ==
  \/ Tick
  \/ \E p \in Priorities, g \in Groups, ttl \in TTLs, d \in Delays :
       Enqueue(p, g, ttl, d)
  \/ \E p \in Priorities : Take(p) \/ TakeExpired(p) \/ TakeNothing(p)
  \/ \E n \in Seqs, e \in 1..epochSeq :
       Ack(n, e) \/ \E d \in Delays : Nack(n, e, d)
  \/ BeginSweep
  \/ \E n \in delayed : ReleaseDelayed(n)
  \/ ReleaseDone
  \/ \E e \in timers : SweepLease(e)
  \/ LeasesDone
  \/ \E g \in todo : SweepTTL(g)
  \/ SweepDone
  \/ Drain
  \/ BeginAbsorb
  \/ \E g \in Groups : AbsorbGroup(g)
  \/ AbsorbDone

Spec == Init /\ [][Next]_vars

-----------------------------------------------------------------------------
(* Every variable has its type (that the gauges are right is GaugesExact), *)
(* and a loop leaves nothing to do when it frees the mutex.                *)
TypeOK ==
  /\ now \in 0..MaxTime
  /\ msgs \in Seq(Message)
  /\ Len(msgs) <= MaxMessages
  /\ grp \in [Groups -> Group]
  /\ groups \subseteq Groups
  /\ bands \in [Priorities -> Seq(Entry)]
  /\ bandMask \subseteq Priorities
  /\ inflight \in [Seqs -> 0..MaxEpoch]
  /\ timers \subseteq Timer
  /\ delayed \subseteq 1..Len(msgs)
  /\ epochSeq \in 0..MaxEpoch
  /\ st \in Stats
  /\ hint \in 0..101
  /\ headSeq \in 1..NoHead
  /\ away \subseteq 1..Len(msgs)
  /\ holder \in Holders
  /\ opNow \in 0..MaxTime
  /\ todo \subseteq Groups
  /\ holder # "ttl" => todo = {}

(* Groups are served one message at a time: a group is locked exactly      *)
(* while one of its messages is leased, and never two of them are.         *)
(* (LLD invariant 2; the lock is what keeps two workers off one group.)    *)
LockedByOneLease ==
  \A g \in Groups :
    /\ grp[g].locked <=> \E n \in InFlight : msgs[n].group = g
    /\ \A m, n \in InFlight : msgs[m].group = g /\ msgs[n].group = g => m = n

(* An unlocked group that has messages is in the bands, so a take reaches  *)
(* it: no path (ack, nack, lease expiry, TTL, release, absorb) forgets to  *)
(* list a group it makes servable.                                         *)
Dispatchable ==
  \A g \in Groups :
    /\ ~grp[g].locked /\ grp[g].msgs # <<>> => grp[g].inBand
    /\ grp[g].inBand =>
         \E p \in Priorities : \E i \in DOMAIN bands[p] :
           bands[p][i].g = g /\ Current(bands[p][i])

(* A group has at most one entry that is not stale, so it is never handed  *)
(* out twice; that entry is for a group that is marked listed, unlocked    *)
(* and has messages, and it is in the band of the message a take will      *)
(* deliver.  (LLD invariant 3.)                                            *)
ListedOnceAtItsHead ==
  \A p \in Priorities : \A i \in DOMAIN bands[p] :
    LET e == bands[p][i] IN
    Current(e) =>
      /\ grp[e.g].inBand
      /\ ~grp[e.g].locked
      /\ grp[e.g].msgs # <<>>
      /\ msgs[Head(grp[e.g].msgs)].prio = p
      /\ \A q \in Priorities : \A j \in DOMAIN bands[q] :
           bands[q][j] = e => q = p /\ j = i

(* A message is in exactly one place: once in one group's list (its own),  *)
(* or leased, or held, or away.  (LLD invariant 1.)                        *)
OnePlace ==
  /\ \A g \in Groups :
       /\ \A i \in DOMAIN grp[g].msgs :
            /\ grp[g].msgs[i] \in 1..Len(msgs)
            /\ msgs[grp[g].msgs[i]].group = g
       /\ \A i, j \in DOMAIN grp[g].msgs : grp[g].msgs[i] = grp[g].msgs[j] => i = j
  /\ InFlight \subseteq 1..Len(msgs)
  /\ Ready \cap InFlight = {}
  /\ (Ready \cup InFlight) \cap delayed = {}
  /\ Present \cap away = {}

(* Nothing disappears: a message that is nowhere was acknowledged, expired *)
(* or dead-lettered, and the totals say how many were.                     *)
NothingLost ==
  Len(msgs) = Cardinality(Present \cup away)
              + st.acked + st.expired + st.deadLettered

(* The gauges are a partition of what the slot holds (stats.go:18), which  *)
(* is what HeldSlots and the gateway's ranking read.                       *)
GaugesExact ==
  /\ \A b \in Buckets :
       st.ready[b] = Cardinality({n \in Ready : bucketOf(msgs[n].prio) = b})
  /\ st.inflight = Cardinality(InFlight)
  /\ st.delayed = Cardinality(delayed)

(* With the mutex free, the hint is the highest listed priority and        *)
(* headSeq its next message: the dispatcher, which reads nothing else,     *)
(* never passes over a slot that has something to serve, nor over the      *)
(* priority it would serve it at.                                          *)
HintExact ==
  Free =>
    /\ bandMask = {p \in Priorities : bands[p] # <<>>}
    /\ hint = HintOf(bandMask)
    /\ headSeq = HeadSeqOf(bandMask, bands, grp)
    /\ \A g \in Groups :
         ~grp[g].locked /\ grp[g].msgs # <<>> => hint > msgs[Head(grp[g].msgs)].prio

(* Every lease has its timer, so a worker that never answers loses it. *)
LeaseHasTimer ==
  \A n \in InFlight : \E t \in timers : t.id = n /\ t.epoch = inflight[n]

(* With the mutex free, the map holds exactly the groups that have a       *)
(* message or a lease: a slot fed with ungrouped messages, each a group of *)
(* its own, does not grow for ever.  (LLD invariant 5.)                    *)
NoIdleGroups ==
  Free => groups = {g \in Groups : grp[g].locked \/ grp[g].msgs # <<>>}

(* No message gets stuck: a group that could be served is listed, and a    *)
(* worker that never answers loses its lease.                              *)
NothingStranded == Dispatchable /\ LeaseHasTimer

(* What a take reads is right: the entries of the bands, and the summary   *)
(* of them that the dispatcher goes by.                                    *)
IndexExact == ListedOnceAtItsHead /\ HintExact

(* Messages neither appear twice nor disappear, by any of the operations   *)
(* that move them between lists, leases, delays and nodes.                 *)
Conserved == OnePlace /\ NothingLost

(* No step puts a group out of order, the leased message counted first: a  *)
(* retry puts a message back where it was, and an absorb puts what is      *)
(* older ahead.  There are two exceptions: a release, which admits a       *)
(* message behind those that came while it was held, and an absorb into a  *)
(* group with a lease out, whose message goes back to the front when the   *)
(* lease ends.                                                             *)
InOrder(g) ==
  /\ \A i, j \in DOMAIN grp[g].msgs : i < j => grp[g].msgs[i] < grp[g].msgs[j]
  /\ \A n \in InFlight : \A i \in DOMAIN grp[g].msgs :
       msgs[n].group = g => n < grp[g].msgs[i]

OrderKept ==
  [][\A g \in Groups :
       /\ InOrder(g)
       /\ holder # "release"
       /\ ~(holder = "absorb" /\ grp[g].locked)
       => InOrder(g)']_vars

-----------------------------------------------------------------------------
(* The slot implements Delivery. *)

OfGroup(S, g) == {n \in S : msgs[n].group = g}
Gone          == (1..Len(msgs)) \ (Present \cup away)

Promise == INSTANCE Delivery WITH
  Messages <- Seqs,
  ready    <- [g \in Groups |-> OfGroup(Ready, g)],
  leased   <- [g \in Groups |-> OfGroup(InFlight, g)],
  held     <- [g \in Groups |-> OfGroup(delayed, g)],
  away     <- [g \in Groups |-> OfGroup(away, g)],
  done     <- [g \in Groups |-> OfGroup(Gone, g)]

(* Every step of the slot is a step of what it promises: no two messages   *)
(* of a group out at once, nothing done that was not leased or expired,    *)
(* nothing done that comes back.                                           *)
KeepsPromise == Promise!Spec

=============================================================================
