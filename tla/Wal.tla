-------------------------------- MODULE Wal --------------------------------
(***************************************************************************)
(* The write-ahead log of one slot, with the goroutines that write to it   *)
(* (backend/queue/repo/walfile/wal.go, record.go) and the node operations  *)
(* that decide in which order log and memory change: an enqueue, an        *)
(* absorbed transfer, a delivery, an acknowledgement, the compactor, the   *)
(* removal of a slot that moved away, a crash and the recovery after it.   *)
(*                                                                         *)
(* Memory is reduced to the set of messages the slot holds (module Slot    *)
(* has the rest).  The log is the sequence of records a reader of the file *)
(* sees; a prefix of it is on stable storage.  A process that dies leaves  *)
(* the whole of it, a machine that dies may leave no more than the prefix, *)
(* and both may leave a torn record at the end.  A rename and an unlink    *)
(* are taken to be durable at once.                                        *)
(***************************************************************************)
EXTENDS Naturals, Sequences, FiniteSets, SequencesExt

CONSTANTS
  Threads,      \* goroutines that serve requests
  Messages,     \* their numbers are their Seq
  Nothing,      \* not a thread
  SyncModes,    \* the modes a node may be configured with
  MaxAttempts,  \* bound: deliveries of a message
  MaxOps,       \* bound: operations, compactions and drops that begin
  DiskFills     \* whether a write may fail halfway

ASSUME WalAssumption ==
  /\ Messages \subseteq Nat \ {0}
  /\ Nothing \notin Threads
  /\ SyncModes \subseteq {"always", "interval", "never"}
  /\ MaxAttempts \in Nat
  /\ MaxOps \in Nat
  /\ DiskFills \in BOOLEAN

VARIABLES
  sync,     \* Options.Sync
  log,      \* the records of the file, in order; <<>> also when there is none
  durable,  \* how many of them are on stable storage
  handle,   \* what the slotFile in w.slots points to: nothing, the file at
            \* the path, or a file that has been unlinked
  mem,      \* the messages the engine's slot holds
  att,      \* att[m]: deliveries of m
  known,    \* the engine has created the slot
  smu,      \* who holds the slot's mutex
  thr,      \* thr[t]: where goroutine t is
  flush,    \* the flush under way: who is covered, and how far it reaches
  comp,     \* the compactor
  drop,     \* where DiscardMove is
  up,       \* the process runs
  begun,    \* how many operations have begun
  fate,     \* history: what the callers know of a message
  exposed,  \* history: messages whose record a known race may have lost
  ghosts,   \* history: messages a known race may have brought back
  behind,   \* history: messages whose attempts the log may understate
  again     \* history: messages absorbed into a log that holds their end

disk    == <<log, durable>>
memory  == <<mem, att, known, smu>>
history == <<fate, exposed, ghosts, behind, again>>
vars == <<sync, log, durable, handle, mem, att, known, smu, thr, flush, comp, drop,
          up, begun, fate, exposed, ghosts, behind, again>>

-----------------------------------------------------------------------------
(* Records, and what a replay makes of them. *)

Record(k, m, n) == [kind |-> k, id |-> m, n |-> n]
Torn == Record("torn", 0, 0)

(* readRecord stops a replay at the first record that is not whole. *)
Readable(s) ==
  LET bad == SelectInSeq(s, LAMBDA r : r.kind = "torn")
  IN IF bad = 0 THEN s ELSE SubSeq(s, 1, bad - 1)

LastOf(s, k, m) == SelectLastInSeq(s, LAMBDA r : r.kind = k /\ r.id = m)

(* replaySlot: an enqueue record brings a message in, a terminal record    *)
(* takes it out, and an enqueue record starts its attempts afresh.         *)
Live(s) ==
  LET r == Readable(s)
  IN {m \in Messages : LastOf(r, "enqueue", m) > LastOf(r, "terminal", m)}

AttemptsIn(s, m) ==
  LET r == Readable(s)
      a == LastOf(r, "attempt", m)
  IN IF a > LastOf(r, "enqueue", m) THEN r[a].n ELSE 0

(* Mutant of Listings: an enqueue record lists what is live already. *)
ListingsAll(s, m) ==
  LET r == Readable(s) IN Cardinality({i \in DOMAIN r : r[i].kind = "enqueue" /\ r[i].id = m})

(* A message is put on the replay's list whenever an enqueue record finds  *)
(* it not live.                                                            *)
Listings(s, m) ==
  LET r == Readable(s)
  IN Cardinality({i \in DOMAIN r : /\ r[i].kind = "enqueue" /\ r[i].id = m
                                   /\ m \notin Live(SubSeq(r, 1, i - 1))})

-----------------------------------------------------------------------------
Idle    == [pc |-> "idle", op |-> "none", m |-> 0, todo |-> {}, got |-> {}, n |-> 0]
NoFlush == [by |-> Nothing, covers |-> {}, upto |-> 0, swapped |-> FALSE, synced |-> {},
            err |-> FALSE]
NoComp  == [pc |-> "idle", mark |-> 0, snap |-> {}, rec |-> <<>>, missed |-> {}, stale |-> FALSE]

Init ==
  /\ sync \in SyncModes
  /\ log = <<>>
  /\ durable = 0
  /\ handle = "none"
  /\ mem = {}
  /\ att = [m \in Messages |-> 0]
  /\ known = FALSE
  /\ smu = Nothing
  /\ thr = [t \in Threads |-> Idle]
  /\ flush = NoFlush
  /\ comp = NoComp
  /\ drop = "idle"
  /\ up = TRUE
  /\ begun = 0
  /\ fate = [m \in Messages |-> "new"]
  /\ exposed = {}
  /\ ghosts = {}
  /\ behind = {}
  /\ again = {}

(* Bound: no more than MaxOps operations begin. *)
MayBegin == up /\ begun < MaxOps /\ begun' = begun + 1
Free(t) == thr[t] = Idle /\ MayBegin

(* Messages that some goroutine is bringing in. *)
Coming(t) == IF thr[t].op \in {"enqueue", "absorb"}
             THEN ({thr[t].m} \cup thr[t].todo \cup thr[t].got) \ {0} ELSE {}
AllComing == UNION {Coming(t) : t \in Threads}

-----------------------------------------------------------------------------
(* The node's operations up to their first append.                         *)

(* EnqueueToSlot creates the slot if need be, takes its mutex and keeps it *)
(* across the append.                                                      *)
BeginEnqueue(t, m) ==
  /\ Free(t) /\ smu = Nothing
  /\ fate[m] = "new" /\ m \notin AllComing
  /\ known' = TRUE
  /\ smu' = t
  /\ thr' = [thr EXCEPT ![t] = [Idle EXCEPT !.pc = "open", !.op = "enqueue", !.m = m]]
  /\ UNCHANGED <<disk, handle, mem, att, flush, comp, drop, sync, up, history>>

(* Absorb journals a transfer without the slot's mutex, one message after  *)
(* the other.  The transfer may bring back a message that was here before. *)
BeginAbsorb(t, ms) ==
  /\ Free(t)
  /\ ms # {} /\ ms \cap (mem \cup AllComing) = {}
  /\ \A m \in ms : fate[m] \in {"new", "coming", "away", "done"}
  /\ \E m \in ms :
       thr' = [thr EXCEPT ![t] = [Idle EXCEPT !.pc = "open", !.op = "absorb", !.m = m,
                                              !.todo = ms \ {m}]]
  /\ UNCHANGED <<disk, handle, memory, flush, comp, drop, sync, up, history>>

(* Dequeue counts the delivery under the mutex and journals it afterwards. *)
Deliver(t, m) ==
  /\ Free(t) /\ smu = Nothing
  /\ m \in mem /\ att[m] < MaxAttempts
  /\ att' = [att EXCEPT ![m] = @ + 1]
  /\ thr' = [thr EXCEPT ![t] = [Idle EXCEPT !.pc = "open", !.op = "attempt", !.m = m,
                                            !.n = att[m] + 1]]
  /\ UNCHANGED <<disk, handle, mem, known, smu, flush, comp, drop, sync, up, history>>

(* Ack removes the message under the mutex and journals it afterwards.     *)
Ack(t, m) ==
  /\ Free(t) /\ smu = Nothing
  /\ m \in mem /\ att[m] > 0
  /\ mem' = mem \ {m}
  /\ fate' = [fate EXCEPT ![m] = "acked"]
  /\ thr' = [thr EXCEPT ![t] = [Idle EXCEPT !.pc = "open", !.op = "terminal", !.m = m]]
  /\ UNCHANGED <<disk, handle, att, known, smu, flush, comp, drop, sync, up,
                 exposed, ghosts, behind, again>>

-----------------------------------------------------------------------------
(* One append: look the slotFile up, write under its mutex, and wait for a *)
(* flush if the record has to be durable.                                  *)

(* WAL.slot opens the file, creating it, unless it is in the map.          *)
Open(t) ==
  /\ thr[t].pc = "open"
  /\ handle' = IF handle = "none" THEN "path" ELSE handle
  /\ thr' = [thr EXCEPT ![t].pc = "write"]
  /\ UNCHANGED <<begun, disk, memory, flush, comp, drop, sync, up, history>>

(* Mutant of Return: a failed enqueue leaves with the mutex. *)
ReturnKeepsMutex(t, ok) ==
  LET th == thr[t]
      got == th.got \cup {th.m}
  IN /\ mem' = IF th.op = "enqueue" /\ ok THEN mem \cup {th.m} ELSE mem
     /\ smu' = IF th.op = "enqueue" /\ ok THEN Nothing ELSE smu
     /\ IF th.op = "absorb" /\ ok
        THEN \/ /\ th.todo = {}
                /\ thr' = [thr EXCEPT ![t] = [th EXCEPT !.pc = "publish", !.m = 0, !.got = got]]
             \/ \E x \in th.todo :
                  thr' = [thr EXCEPT ![t] = [th EXCEPT !.pc = "open", !.m = x, !.got = got,
                                                       !.todo = th.todo \ {x}]]
        ELSE thr' = [thr EXCEPT ![t] = Idle]

(* The append of goroutine t is over; what its caller does with that.  An  *)
(* enqueue reaches memory and lets go of the mutex, an absorb goes on to   *)
(* its next message or to memory, the others do not look at the outcome.   *)
Return(t, ok) ==
  LET th == thr[t]
      got == th.got \cup {th.m}
  IN /\ mem' = IF th.op = "enqueue" /\ ok THEN mem \cup {th.m} ELSE mem
     /\ smu' = IF th.op = "enqueue" THEN Nothing ELSE smu
     /\ IF th.op = "absorb" /\ ok
        THEN \/ /\ th.todo = {}
                /\ thr' = [thr EXCEPT ![t] = [th EXCEPT !.pc = "publish", !.m = 0, !.got = got]]
             \/ \E x \in th.todo :
                  thr' = [thr EXCEPT ![t] = [th EXCEPT !.pc = "open", !.m = x, !.got = got,
                                                       !.todo = th.todo \ {x}]]
        ELSE thr' = [thr EXCEPT ![t] = Idle]

(* What the caller has been told then. *)
Told(t, ok, f) == IF thr[t].op = "enqueue" /\ ok THEN [f EXCEPT ![thr[t].m] = "here"] ELSE f

Sound == handle = "path" /\ Torn \notin ToSet(log)
NeedsFlush(t) == thr[t].op \in {"enqueue", "absorb"} /\ sync = "always"

(* The record is in the page cache.  fate, exposed, behind and again note  *)
(* what the record is worth.                                               *)
Write(t) ==
  LET th == thr[t]
      f == CASE th.op \in {"enqueue", "absorb"} -> [fate EXCEPT ![th.m] = "coming"]
             [] th.op = "terminal" /\ Sound      -> [fate EXCEPT ![th.m] = "done"]
             [] OTHER                            -> fate
  IN /\ th.pc = "write"
     /\ log' = IF handle = "path"
               THEN Append(log, Record(IF th.op = "absorb" THEN "enqueue" ELSE th.op, th.m, th.n))
               ELSE log
     /\ IF NeedsFlush(t)
        THEN /\ thr' = [thr EXCEPT ![t].pc = "sync"]
             /\ fate' = f
             /\ UNCHANGED <<mem, smu>>
        ELSE Return(t, TRUE) /\ fate' = Told(t, TRUE, f)
     /\ exposed' = IF th.op \notin {"enqueue", "absorb"} THEN exposed
                   ELSE IF Sound THEN exposed \ {th.m} ELSE exposed \cup {th.m}
     /\ behind' = IF \/ th.op = "absorb" /\ att[th.m] > 0
                     \/ th.op = "attempt" /\ (~Sound \/ th.n < AttemptsIn(log, th.m))
                  THEN behind \cup {th.m} ELSE behind
     /\ again' = IF /\ th.op = "absorb" /\ th.m \notin Live(log)
                    /\ LastOf(Readable(log), "terminal", th.m) > 0
                 THEN again \cup {th.m} ELSE again
     /\ UNCHANGED <<begun, durable, handle, att, known, flush, comp, drop, sync, up, ghosts>>

(* The disk is full halfway through the write: the append fails and leaves *)
(* a torn record that nothing removes before the next replay.              *)
WriteShort(t) ==
  /\ DiskFills
  /\ thr[t].pc = "write" /\ Sound
  /\ log' = Append(log, Torn)
  /\ Return(t, FALSE)
  /\ behind' = IF thr[t].op = "attempt" THEN behind \cup {thr[t].m} ELSE behind
  /\ UNCHANGED <<begun, durable, handle, att, known, flush, comp, drop, sync, up,
                 fate, exposed, ghosts, again>>

(* syncThrough.  Whoever finds no flush under way flushes for all who wait *)
(* and lets go of the mutex meanwhile; who writes during it is not covered *)
(* (the numbers seq, written and synced are the sets covers and synced).   *)
BeginFlush(t) ==
  /\ thr[t].pc = "sync" /\ t \notin flush.synced
  /\ flush.by = Nothing
  /\ flush' = [flush EXCEPT !.by = t,
                            !.covers = {u \in Threads : thr[u].pc = "sync"} \ flush.synced,
                            !.upto = Len(log),
                            !.swapped = FALSE]
  /\ thr' = [thr EXCEPT ![t].pc = "flush"]
  /\ UNCHANGED <<begun, disk, handle, memory, comp, drop, sync, up, history>>

(* Mutant of Flushed: a failed flush leaves `syncing' set. *)
FlushedUnlessError(t, ok) ==
  IF ok THEN [NoFlush EXCEPT !.synced = flush.synced \cup (flush.covers \ {t})]
        ELSE [flush EXCEPT !.err = TRUE]

(* What a flush leaves behind: nobody flushes, and a successful one has    *)
(* covered the others that waited when it began.                           *)
Flushed(t, ok) ==
  [NoFlush EXCEPT !.err = ~ok,
                  !.synced = flush.synced \cup (IF ok THEN flush.covers \ {t} ELSE {})]

(* It may fail when the compactor has closed the file in between.          *)
EndFlush(t) ==
  /\ thr[t].pc = "flush"
  /\ \E ok \in IF flush.swapped THEN BOOLEAN ELSE {TRUE} :
       /\ durable' = IF ok /\ ~flush.swapped /\ handle = "path" /\ flush.upto > durable
                     THEN flush.upto ELSE durable
       /\ flush' = Flushed(t, ok)
       /\ Return(t, ok)
       /\ fate' = Told(t, ok, fate)
  /\ UNCHANGED <<begun, log, handle, att, known, comp, drop, sync, up, exposed, ghosts, behind, again>>

(* A waiter whose record is covered returns how the latest flush ended.    *)
Wake(t) ==
  /\ thr[t].pc = "sync" /\ t \in flush.synced
  /\ flush' = [flush EXCEPT !.synced = @ \ {t}]
  /\ Return(t, ~flush.err)
  /\ fate' = Told(t, ~flush.err, fate)
  /\ UNCHANGED <<begun, disk, handle, att, known, comp, drop, sync, up, exposed, ghosts, behind, again>>

(* The slotFile was dropped under an append: it returns the error of the   *)
(* closed file, unless a flush had covered it before.                      *)
ReturnDropped(t) ==
  /\ \/ thr[t].pc = "failed" /\ Return(t, FALSE) /\ fate' = fate
     \/ thr[t].pc = "cut" /\ Return(t, TRUE) /\ fate' = Told(t, TRUE, fate)
     \/ thr[t].pc = "cut" /\ Return(t, FALSE) /\ fate' = fate
  /\ behind' = IF thr[t].op = "attempt" THEN behind \cup {thr[t].m} ELSE behind
  /\ UNCHANGED <<begun, disk, handle, att, known, flush, comp, drop, sync, up, exposed, ghosts, again>>

(* The absorbed messages become visible, under the slot's mutex.           *)
Publish(t) ==
  /\ thr[t].pc = "publish" /\ smu = Nothing
  /\ mem' = mem \cup thr[t].got
  /\ known' = TRUE
  /\ fate' = [m \in Messages |-> IF m \in thr[t].got THEN "here" ELSE fate[m]]
  /\ thr' = [thr EXCEPT ![t] = Idle]
  /\ UNCHANGED <<begun, disk, handle, att, smu, flush, comp, drop, sync, up,
                 exposed, ghosts, behind, again>>

(* syncLoop, which runs in the interval mode only, where nobody waits.     *)
SyncAll ==
  /\ up /\ sync = "interval"
  /\ handle = "path" /\ durable < Len(log)
  /\ durable' = Len(log)
  /\ UNCHANGED <<begun, log, handle, memory, thr, flush, comp, drop, sync, up, history>>

-----------------------------------------------------------------------------
(* The compactor (QueueLogic.Compact): marks, then a snapshot of memory,   *)
(* then a new file with the snapshot and what is past the mark.            *)

Marks ==
  /\ MayBegin /\ comp.pc = "idle"
  /\ comp' = [NoComp EXCEPT !.pc = "snapshot", !.mark = Len(log),
                            !.missed = {m \in AllComing : LastOf(log, "enqueue", m) > 0}]
  /\ UNCHANGED <<disk, handle, memory, thr, flush, drop, sync, up, history>>

(* Only slots the engine has created are in the snapshot.  `missed' keeps  *)
(* what was journalled before the mark and is not in the snapshot.         *)
Snapshot ==
  /\ comp.pc = "snapshot" /\ smu = Nothing
  /\ comp' = IF ~known THEN NoComp
             ELSE [comp EXCEPT
                    !.pc = "rewrite",
                    !.snap = mem,
                    !.missed = comp.missed \ mem]
  /\ UNCHANGED <<begun, disk, handle, memory, thr, flush, drop, sync, up, history>>

(* Mutant of Lines: the attempts of a message are forgotten. *)
LinesWithoutAttempts(m) == <<Record("enqueue", m, 0)>>

(* What the new file says of a message.                                    *)
Lines(m) ==
  IF att[m] > 0 THEN <<Record("enqueue", m, 0), Record("attempt", m, att[m])>>
                ELSE <<Record("enqueue", m, 0)>>

(* The lines of the messages in S, in the order of their numbers.          *)
Described(S) ==
  LET all == UNION {ToSet(Lines(m)) : m \in S}
      Before(r, q) == r.id < q.id \/ (r.id = q.id /\ r.kind = "enqueue" /\ q.kind = "attempt")
  IN CHOOSE s \in [1..Cardinality(all) -> all] :
       \A i, j \in 1..Cardinality(all) : i < j => Before(s[i], s[j])

(* The head of the new file.  The snapshot holds the messages themselves,  *)
(* so their attempts are read now, without a lock.                         *)
Rewrite ==
  /\ comp.pc = "rewrite"
  /\ comp' = [comp EXCEPT !.pc = "swap", !.rec = Described(comp.snap)]
  /\ UNCHANGED <<begun, disk, handle, memory, thr, flush, drop, sync, up, history>>

(* Mutant of Tails: what is past the mark is dropped. *)
TailsNone == {<<>>}

(* copyTail.  The mark is an offset into the file that was there then.  If *)
(* a drop has removed it since, the offset may be past the end of the new  *)
(* one, in the middle of a record, or at the start of any.                 *)
Tails ==
  IF ~comp.stale THEN {SubSeq(log, comp.mark + 1, Len(log))}
  ELSE {<<>>} \cup {SubSeq(log, i, Len(log)) : i \in 1..Len(log)}
             \cup (IF log = <<>> THEN {} ELSE {<<Torn>>})

(* Mutant of NewLog: the snapshot is appended to what was kept. *)
NewLogSnapshotLast(tail) == tail \o comp.rec

(* The new file: what the snapshot says, then what is past the mark.       *)
NewLog(tail) == comp.rec \o tail

(* What the snapshot makes safe again: nothing behind it undoes it.        *)
Mended(tail) ==
  {m \in comp.snap : \A i \in DOMAIN tail :
      tail[i].kind # "torn" /\ ~(tail[i].kind = "terminal" /\ tail[i].id = m)}

(* Compact, from the copy of the tail to the reopened file: it holds both  *)
(* mutexes.  A flush under way has its file closed under it.               *)
Swap ==
  /\ comp.pc = "swap"
  /\ \E tail \in Tails :
       /\ log' = NewLog(tail)
       /\ durable' = Len(NewLog(tail))
       /\ behind' = {m \in behind : m \in AllComing \/ AttemptsIn(NewLog(tail), m) # att[m]}
                    \cup (IF comp.stale THEN Messages ELSE {})
       /\ exposed' = IF comp.stale THEN exposed \cup mem \cup AllComing
                     ELSE (exposed \ Mended(tail)) \cup comp.missed
  /\ handle' = IF handle = "none" THEN "none" ELSE "path"
  /\ flush' = [flush EXCEPT !.swapped = flush.by # Nothing /\ handle # "none"]
  /\ ghosts' = IF comp.stale THEN ghosts \cup comp.snap ELSE ghosts
  /\ comp' = NoComp
  /\ UNCHANGED <<begun, memory, thr, drop, sync, up, fate, again>>

(* The rewrite fails before the rename; the old file stays.                *)
CompactFails ==
  /\ DiskFills /\ comp.pc \in {"rewrite", "swap"}
  /\ comp' = NoComp
  /\ UNCHANGED <<begun, disk, handle, memory, thr, flush, drop, sync, up, history>>

-----------------------------------------------------------------------------
(* DiscardMove: the slot's messages have a new owner.  DropSlots empties   *)
(* the slot, WAL.Drop forgets the slotFile under w.mu and unlinks the file *)
(* after it has let go of it.                                              *)

DropSlot ==
  /\ MayBegin /\ drop = "idle" /\ smu = Nothing
  /\ mem' = {}
  /\ fate' = [m \in Messages |-> IF m \in mem THEN "leaving" ELSE fate[m]]
  /\ drop' = "close"
  /\ UNCHANGED <<disk, handle, att, known, smu, thr, flush, comp, sync, up,
                 exposed, ghosts, behind, again>>

CloseFile ==
  /\ drop = "close"
  /\ handle' = "none"
  /\ \E flushed \in BOOLEAN :
       LET safe == flush.synced \cup (IF flushed THEN flush.covers ELSE {})
       IN /\ flushed => flush.by # Nothing
          /\ durable' = IF flushed /\ ~flush.swapped /\ handle = "path" /\ flush.upto > durable
                        THEN flush.upto ELSE durable
          /\ thr' = [t \in Threads |->
               IF thr[t].pc \in {"write", "sync", "flush"}
               THEN [thr[t] EXCEPT !.pc = IF t \in safe THEN "cut" ELSE "failed"]
               ELSE thr[t]]
  /\ flush' = NoFlush
  /\ drop' = "remove"
  /\ UNCHANGED <<begun, log, memory, comp, sync, up, history>>

(* A handle opened in between is left pointing to a file without a name.   *)
RemoveFile ==
  /\ drop = "remove"
  /\ log' = <<>>
  /\ durable' = 0
  /\ handle' = IF handle = "path" THEN "unlinked" ELSE handle
  /\ exposed' = exposed \cup (Live(log) \cap (mem \cup AllComing))
  /\ behind' = behind \cup mem
  /\ fate' = [m \in Messages |-> IF fate[m] = "leaving" THEN "away" ELSE fate[m]]
  /\ again' = {}
  /\ comp' = IF comp.pc = "idle" THEN comp ELSE [comp EXCEPT !.stale = TRUE]
  /\ drop' = "idle"
  /\ UNCHANGED <<begun, memory, thr, flush, sync, up, ghosts>>

-----------------------------------------------------------------------------
(* Crashes and recovery.                                                   *)

Stop(left) ==
  /\ up
  /\ log' = left
  /\ handle' = "none"
  /\ mem' = {}
  /\ known' = FALSE
  /\ smu' = Nothing
  /\ thr' = [t \in Threads |-> Idle]
  /\ flush' = NoFlush
  /\ comp' = NoComp
  /\ drop' = "idle"
  /\ up' = FALSE
  /\ UNCHANGED <<begun, att, sync, exposed, ghosts, behind, again>>

(* The process dies, perhaps in the middle of a write.                     *)
ProcessDies ==
  /\ \/ Stop(log)
     \/ Sound /\ (\E t \in Threads : thr[t].pc = "write") /\ Stop(Append(log, Torn))
  /\ UNCHANGED <<begun, durable, fate>>

(* The machine dies: what had not been flushed may be gone, wholly or in   *)
(* part.  Only the mode "always" promises more than that.                  *)
PowerLost ==
  /\ \E k \in durable..Len(log) :
       /\ \/ Stop(SubSeq(log, 1, k)) /\ durable' = k
          \/ k < Len(log) /\ Stop(Append(SubSeq(log, 1, k), Torn)) /\ durable' = k + 1
       /\ fate' = [m \in Messages |->
            LET left == m \in Live(SubSeq(log, 1, k))
            IN CASE fate[m] = "here" /\ ~left /\ sync # "always" -> "lost"
                 [] fate[m] = "done" /\ left                     -> "acked"
                 [] OTHER                                        -> fate[m]]

(* Recover: replay the log, truncate its torn tail, absorb what is live.   *)
Recover ==
  /\ ~up
  /\ log' = Readable(log)
  /\ durable' = IF durable > Len(log') THEN Len(log') ELSE durable
  /\ mem' = Live(log)
  /\ known' = (mem' # {})
  /\ att' = [m \in Messages |-> IF m \in mem' THEN AttemptsIn(log, m) ELSE att[m]]
  /\ fate' = [m \in Messages |->
       CASE m \in mem' /\ fate[m] # "here"     -> "back"
         [] m \notin mem' /\ fate[m] = "here"   -> "lost"
         [] m \notin mem' /\ fate[m] = "leaving" -> "acked"
         [] OTHER                               -> fate[m]]
  /\ up' = TRUE
  /\ exposed' = {}
  /\ ghosts' = {}
  /\ behind' = {}
  /\ UNCHANGED <<begun, handle, smu, thr, flush, comp, drop, sync, again>>

-----------------------------------------------------------------------------
Step(t) == Open(t) \/ Write(t) \/ BeginFlush(t) \/ EndFlush(t) \/ Wake(t)
           \/ ReturnDropped(t) \/ Publish(t)

Next ==
  \/ \E t \in Threads, m \in Messages : BeginEnqueue(t, m) \/ Deliver(t, m) \/ Ack(t, m)
  \/ \E t \in Threads, ms \in SUBSET Messages : BeginAbsorb(t, ms)
  \/ \E t \in Threads : Step(t)
  \/ \E t \in Threads : WriteShort(t)
  \/ SyncAll
  \/ Marks \/ Snapshot \/ Rewrite \/ Swap \/ CompactFails
  \/ DropSlot \/ CloseFile \/ RemoveFile
  \/ ProcessDies \/ PowerLost \/ Recover

Spec == Init /\ [][Next]_vars

-----------------------------------------------------------------------------
Records == [kind : {"enqueue", "attempt", "terminal"}, id : Messages, n : Nat] \cup {Torn}

(* The variables keep their types, no more is durable than there is, and   *)
(* the mutex is with a goroutine that is enqueuing.                        *)
TypeOK ==
  /\ sync \in SyncModes
  /\ log \in Seq(Records)
  /\ durable \in 0..Len(log)
  /\ handle \in {"none", "path", "unlinked"}
  /\ mem \subseteq Messages
  /\ att \in [Messages -> 0..MaxAttempts]
  /\ known \in BOOLEAN /\ up \in BOOLEAN
  /\ smu = Nothing \/ (smu \in Threads /\ thr[smu].op = "enqueue")
  /\ \A t \in Threads :
       /\ thr[t].pc \in {"idle", "open", "write", "sync", "flush", "publish", "failed", "cut"}
       /\ thr[t].op \in {"none", "enqueue", "absorb", "attempt", "terminal"}
       /\ thr[t].todo \cup thr[t].got \subseteq Messages
  /\ flush.by \in Threads \cup {Nothing} /\ flush.synced \cup flush.covers \subseteq Threads
  /\ comp.pc \in {"idle", "snapshot", "rewrite", "swap"}
  /\ drop \in {"idle", "close", "remove"}
  /\ fate \in [Messages -> {"new", "coming", "here", "back", "acked", "done", "leaving",
                            "away", "lost"}]
  /\ exposed \cup ghosts \cup behind \cup again \subseteq Messages

(* What an enqueue or an absorb was told is safe is found by a replay of   *)
(* whatever a crash may leave now: of the whole file if the process dies,  *)
(* of any part past what is durable if the machine does in the mode        *)
(* "always".  The exceptions are the races that `exposed' names: an absorb *)
(* that a compaction's snapshot missed, a record written while its slot's  *)
(* file was being removed, or behind a torn record.                        *)
ReportedSurvives ==
  \A m \in Messages : fate[m] = "here" /\ m \notin exposed =>
    /\ m \in Live(log)
    /\ sync = "always" => \A k \in durable..Len(log) : m \in Live(SubSeq(log, 1, k))

(* A message whose end is in the log, or whose slot's log was removed, is  *)
(* not brought back by a replay, whatever compaction has done to the file  *)
(* since - unless a drop removed the file under that compaction.           *)
StaysGone ==
  \A m \in Messages : fate[m] \in {"done", "away"} /\ m \notin ghosts => m \notin Live(log)

(* The log knows how often a message was delivered, so that a restart does *)
(* not give it more tries than it has - unless the message was absorbed    *)
(* with attempts behind it, or two records of them overtook each other.    *)
AttemptsKept ==
  \A m \in mem \ behind : (\A t \in Threads : thr[t].m # m) => AttemptsIn(log, m) = att[m]

(* A replay lists a message once although a compaction describes it both   *)
(* by the snapshot and by the tail - unless it was absorbed into a log     *)
(* that still held its end.                                                *)
ReplaysOnce == \A m \in Messages \ again : Listings(log, m) <= 1

(* The group commit forgets nobody: while a goroutine waits for a flush    *)
(* that has not covered it, one is under way or it may start its own.      *)
CommitGoesOn ==
  \A t \in Threads : thr[t].pc = "sync" /\ t \notin flush.synced =>
    flush.by = Nothing \/ thr[flush.by].pc = "flush"
=============================================================================
