----------------------------- MODULE Membership -----------------------------
(***************************************************************************)
(* Who is there (backend/queue/repo/membershipetcd, which publishes a node *)
(* under a lease; backend/gateway/repo/membershipetcd, which follows the   *)
(* members), and what a gateway makes of it: the notification stream to    *)
(* every node (RunSubscriber) and the passes that bring the queues to the  *)
(* nodes they belong on (RunRebalancer).                                   *)
(*                                                                         *)
(* etcd keeps one key for a node, a history of changes that it compacts,   *)
(* and the leases.  How a queue is moved is in Handoff: here a move is one *)
(* step, and it takes effect if both nodes answer.                         *)
(***************************************************************************)
EXTENDS Placement, Integers, Sequences

CONSTANTS
  Addrs,
  Listens,    \* Listens[n]: the addresses of node n
  Gateways,
  None,
  Settle,     \* stabilityWindow, in ticks
  MaxPerPass, \* maxConcurrent: queues a pass moves
  MaxStarts,  \* bound: starts of node processes
  MaxStops,   \* bound: how many of them end
  MaxFaults   \* bound: partitions, compactions, failed calls, broken watches

ASSUME MembershipAssumption ==
  /\ None \notin Addrs \cup Nodes /\ Listens \in [Nodes -> SUBSET Addrs]
  /\ Settle \in Nat \ {0} /\ MaxPerPass \in Nat \ {0}
  /\ MaxStarts \in Nat /\ MaxStops \in Nat /\ MaxFaults \in Nat

VARIABLES
  history,   \* etcd: the changes of the members' keys, oldest first
  compacted, \* etcd: the changes that can no longer be watched
  leases,    \* etcd: the leases that have not ended
  granted,   \* etcd: leases granted so far (to a put)
  proc,      \* proc[n]: where the process of node n is
  members,   \* gateway: the address of each member it knows of
  seen,      \* gateway: the changes that are in members
  watching,  \* the gateways whose watch is open
  signal,    \* <<g, l>>: the channel of listener l at g holds a signal
  open,      \* gateway: the address its stream to each node is for
  live,      \* <<g, n>>: that stream is connected
  settle,    \* gateway: ticks to the pass after a change, 0 when none is due
  placed,    \* placed[k]: the node that has k
  starts, faults

etcd   == <<history, compacted, leases, granted>>
view   == <<members, seen, watching>>
stream == <<open, live>>
vars == <<history, compacted, leases, granted, proc, members, seen, watching, signal,
          open, live, settle, placed, starts, faults>>

Nobody == [n \in Nodes |-> None]
Listeners == {"subscriber", "rebalancer"}

(* A change of a key: the new address, or None when it is deleted.         *)
Changes == [node: Nodes, addr: Addrs \cup {None}, lease: Nat]

(* A node: "down"; "publish"; "kept", when its lease is being renewed.     *)
(* `known' after its first registration, from when on it listens.          *)
Proc == [pc: {"down", "publish", "kept"}, addr: Addrs \cup {None}, lease: Nat,
         known: BOOLEAN]
Down == [pc |-> "down", addr |-> None, lease |-> 0, known |-> FALSE]

Init ==
  /\ history = <<>> /\ compacted = 0 /\ leases = {} /\ granted = 0
  /\ proc = [n \in Nodes |-> Down]
  /\ members = [g \in Gateways |-> Nobody]
  /\ seen = [g \in Gateways |-> 0]
  /\ watching = Gateways
  /\ signal = {}
  /\ open = [g \in Gateways |-> Nobody]
  /\ live = {}
  /\ settle = [g \in Gateways |-> 0]
  /\ placed = [k \in Keys |-> None]
  /\ starts = 0 /\ faults = 0

MayFail == faults < MaxFaults /\ faults' = faults + 1

(* The place of the last change of n among some changes, 0 if there is     *)
(* none; the members after the changes of a part of the history: the last  *)
(* change of a member is the one that counts.                              *)
Latest(changes, n) ==
  LET S == {0} \cup {i \in DOMAIN changes : changes[i].node = n}
  IN CHOOSE i \in S : \A j \in S : j <= i
After(from, changes) ==
  [n \in Nodes |-> IF Latest(changes, n) = 0 THEN from[n] ELSE changes[Latest(changes, n)].addr]
Key(n) == IF Latest(history, n) = 0 THEN [node |-> n, addr |-> None, lease |-> 0]
          ELSE history[Latest(history, n)]
Answers(n, a) == proc[n].known /\ proc[n].addr = a

-----------------------------------------------------------------------------
(* The node.                                                               *)

Start(n, a) ==
  /\ proc[n].pc = "down" /\ starts < MaxStarts
  /\ starts' = starts + 1
  /\ proc' = [proc EXCEPT ![n] = [Down EXCEPT !.pc = "publish", !.addr = a]]
  /\ UNCHANGED <<etcd, view, signal, stream, settle, placed, faults>>

(* publish: a lease, and the key under it, which replaces what was there.  *)
(* A call fails, or seems to: a node that is not registered yet gives up,  *)
(* the others try again after a while.                                     *)
Publish(n) ==
  LET p   == proc[n]
      put == /\ granted' = granted + 1
             /\ leases' = leases \cup {granted'}
             /\ history' = Append(history, [node |-> n, addr |-> p.addr, lease |-> granted'])
  IN
  /\ p.pc = "publish"
  /\ \/ /\ put
        /\ proc' = [proc EXCEPT ![n] = [p EXCEPT !.pc = "kept", !.lease = granted',
                                                !.known = TRUE]]
        /\ UNCHANGED faults
     \/ /\ MayFail
        /\ put \/ UNCHANGED <<history, granted, leases>>
        /\ proc' = [proc EXCEPT ![n] = IF p.known THEN p ELSE Down]
  /\ UNCHANGED <<compacted, view, signal, stream, settle, placed, starts>>

(* Mutant of Republish: a new lease is kept, the key is not written again. *)
RepublishLeaseOnly(n) ==
  /\ granted' = granted + 1
  /\ leases' = leases \cup {granted'}
  /\ proc' = [proc EXCEPT ![n].lease = granted']

(* keepRegistered: publish from the beginning.                             *)
Republish(n) ==
  /\ proc' = [proc EXCEPT ![n] = [proc[n] EXCEPT !.pc = "publish", !.lease = 0]]
  /\ UNCHANGED <<granted, leases>>

(* The channel of the lease closes: it has ended, or the node has not      *)
(* heard from etcd for so long that it takes it for ended.                 *)
LeaseLost(n) ==
  /\ proc[n].pc = "kept"
  /\ proc[n].lease \in leases => MayFail
  /\ proc[n].lease \notin leases => UNCHANGED faults
  /\ Republish(n)
  /\ UNCHANGED <<history, compacted, view, signal, stream, settle, placed, starts>>

(* The process is stopped or crashes, with its streams.  Its lease is not  *)
(* given up: it ends by itself.                                            *)
NodeDies(n) ==
  /\ proc[n].pc # "down"
  /\ starts < MaxStops + Cardinality({k \in Nodes : proc[k].pc # "down"})
  /\ proc' = [proc EXCEPT ![n] = Down]
  /\ live' = {s \in live : s[2] # n}
  /\ UNCHANGED <<etcd, view, signal, open, settle, placed, starts, faults>>

-----------------------------------------------------------------------------
(* etcd.                                                                   *)

(* A lease ends that nobody renews, or whose renewals do not get through;  *)
(* the key goes with it, if it is still attached to it.                    *)
LeaseEnds(l) ==
  LET gone == {n \in Nodes : Key(n).lease = l /\ Key(n).addr # None} IN
  /\ l \in leases
  /\ IF \E n \in Nodes : proc[n].lease = l /\ proc[n].pc = "kept"
     THEN MayFail ELSE UNCHANGED faults
  /\ leases' = leases \ {l}
  /\ IF gone = {} THEN UNCHANGED history
     ELSE \E n \in gone : history' = Append(history, [node |-> n, addr |-> None, lease |-> 0])
  /\ UNCHANGED <<compacted, granted, proc, view, signal, stream, settle, placed, starts>>

Compact ==
  /\ MayFail
  /\ compacted' = Len(history)
  /\ UNCHANGED <<history, leases, granted, proc, view, signal, stream, settle, placed,
                 starts>>

-----------------------------------------------------------------------------
(* The gateway's member list.                                              *)

(* Mutant of Notify: one channel for all the listeners, which whoever      *)
(* comes first empties.                                                    *)
NotifyShared(g) ==
  \E l \in Listeners : signal' = signal \cup {<<g, l>>}

Notify(g) == signal' = signal \cup ({g} \X Listeners)

(* A response of the watch: one or more changes.                           *)
Follow(g) ==
  /\ g \in watching /\ compacted <= seen[g]
  /\ \E k \in (seen[g] + 1)..Len(history) :
       /\ members' = [members EXCEPT ![g] = After(members[g], SubSeq(history, seen[g] + 1, k))]
       /\ seen' = [seen EXCEPT ![g] = k]
  /\ Notify(g)
  /\ UNCHANGED <<etcd, proc, watching, stream, settle, placed, starts, faults>>

(* The watch ends: the next change has been compacted, or for any other    *)
(* reason.                                                                 *)
WatchEnds(g) ==
  /\ g \in watching
  /\ IF seen[g] < compacted THEN UNCHANGED faults ELSE MayFail
  /\ watching' = watching \ {g}
  /\ UNCHANGED <<etcd, proc, members, seen, signal, stream, settle, placed, starts>>

(* Mutant of Listed: the list is added to what the gateway knows. *)
ListedMerged(g) ==
  [n \in Nodes |-> IF Key(n).addr # None THEN Key(n).addr ELSE members[g][n]]

(* What resync reads: the keys as they are, and nobody else's.             *)
Listed(g) == [n \in Nodes |-> Key(n).addr]

(* follow, after the backoff.  Without an answer it watches from where it  *)
(* was.                                                                    *)
Resync(g) ==
  /\ g \notin watching
  /\ watching' = watching \cup {g}
  /\ \/ /\ members' = [members EXCEPT ![g] = Listed(g)]
        /\ seen' = [seen EXCEPT ![g] = Len(history)]
        /\ Notify(g)
        /\ UNCHANGED faults
     \/ MayFail /\ UNCHANGED <<members, seen, signal>>
  /\ UNCHANGED <<etcd, proc, stream, settle, placed, starts>>

-----------------------------------------------------------------------------
(* The streams.                                                            *)

(* A stream for every member, at its address.                              *)
Streams(g) == [n \in Nodes |-> members[g][n]]

(* Mutant of Subscribe: the stream to the old address is not cancelled. *)
SubscribeUncancelled(g) ==
  /\ <<g, "subscriber">> \in signal \/ open[g] # Streams(g)
  /\ signal' = signal \ {<<g, "subscriber">>}
  /\ open' = [open EXCEPT ![g] = Streams(g)]
  /\ UNCHANGED <<etcd, proc, view, live, settle, placed, starts, faults>>

(* RunSubscriber, on a signal or every two seconds.                        *)
Subscribe(g) ==
  /\ <<g, "subscriber">> \in signal \/ open[g] # Streams(g)
  /\ signal' = signal \ {<<g, "subscriber">>}
  /\ open' = [open EXCEPT ![g] = Streams(g)]
  /\ live' = {s \in live : s[1] = g => open'[g][s[2]] = open[g][s[2]]}
  /\ UNCHANGED <<etcd, proc, view, settle, placed, starts, faults>>

(* streamFrom, again and again.                                            *)
Connect(g, n) ==
  /\ <<g, n>> \notin live
  /\ open[g][n] # None /\ Answers(n, open[g][n])
  /\ live' = live \cup {<<g, n>>}
  /\ UNCHANGED <<etcd, proc, view, signal, open, settle, placed, starts, faults>>

-----------------------------------------------------------------------------
(* The rebalancer.                                                         *)

Alive(g) == {n \in Nodes : members[g][n] # None}

(* A move needs both nodes where the gateway has them; what is on a node   *)
(* that has gone stays.                                                    *)
Movable(g, k) ==
  /\ placed[k] \in Alive(g)
  /\ Answers(placed[k], members[g][placed[k]])
  /\ LET to == Wanted(k, Alive(g)) IN placed[k] # to /\ Answers(to, members[g][to])

(* Rebalance: the first few queues that are not where they belong.  (The   *)
(* slots of a distributed queue are moved together.)                       *)
Rebalance(g) ==
  LET wrong  == {QueueOf[k] : k \in {x \in Keys : Movable(g, x)}}
  IN \E now \in SUBSET wrong :
       /\ now = wrong \/ Cardinality(now) = MaxPerPass
       /\ Cardinality(now) <= MaxPerPass
       /\ placed' = [k \in Keys |->
            IF QueueOf[k] \in now /\ Movable(g, k) THEN Wanted(k, Alive(g)) ELSE placed[k]]

Changed(g) ==
  /\ <<g, "rebalancer">> \in signal
  /\ signal' = signal \ {<<g, "rebalancer">>}
  /\ settle' = [settle EXCEPT ![g] = Settle]
  /\ UNCHANGED <<etcd, proc, view, stream, placed, starts, faults>>

Tick(g) ==
  /\ settle[g] > 0
  /\ settle' = [settle EXCEPT ![g] = @ - 1]
  /\ IF settle[g] = 1 THEN Rebalance(g) ELSE UNCHANGED placed
  /\ UNCHANGED <<etcd, proc, view, signal, stream, starts, faults>>

(* Once a minute, whether the members have settled or not.                 *)
Sweep(g) ==
  /\ Rebalance(g)
  /\ UNCHANGED <<etcd, proc, view, signal, stream, settle, starts, faults>>

(* ownerAddr: the first request for a queue places it.                     *)
Place(g, k) ==
  /\ placed[k] = None /\ Alive(g) # {}
  /\ placed' = [placed EXCEPT ![k] = Wanted(k, Alive(g))]
  /\ UNCHANGED <<etcd, proc, view, signal, stream, settle, starts, faults>>

-----------------------------------------------------------------------------
NodeStep(n)    == Publish(n) \/ LeaseLost(n)
WatchStep(g)   == Follow(g) \/ WatchEnds(g) \/ Resync(g)
StreamStep(g)  == Subscribe(g) \/ \E n \in Nodes : Connect(g, n)

Next ==
  \/ \E n \in Nodes : (\E a \in Listens[n] : Start(n, a)) \/ NodeStep(n) \/ NodeDies(n)
  \/ \E l \in leases : LeaseEnds(l)
  \/ Compact
  \/ \E g \in Gateways : \/ WatchStep(g) \/ StreamStep(g)
                         \/ Changed(g) \/ Tick(g) \/ Sweep(g)
                         \/ \E k \in Keys : Place(g, k)

(* Processes go on, a lease that nobody renews ends, the tickers tick.     *)
Fairness ==
  /\ \A n \in Nodes : WF_vars(NodeStep(n))
  /\ \A l \in 1..(MaxStarts + MaxFaults) : WF_vars(LeaseEnds(l))
  /\ \A g \in Gateways : /\ WF_vars(WatchStep(g))
                         /\ WF_vars(Subscribe(g))
                         /\ \A n \in Nodes : WF_vars(Connect(g, n))
                         /\ WF_vars(Changed(g)) /\ WF_vars(Tick(g))

Spec == Init /\ [][Next]_vars /\ Fairness

-----------------------------------------------------------------------------
(* The variables keep their types; nothing is read from a watch before it  *)
(* is written, and a stream that is connected is to where the node is.     *)
TypeOK ==
  /\ history \in Seq(Changes)
  /\ compacted \in 0..Len(history)
  /\ leases \subseteq 1..granted
  /\ proc \in [Nodes -> Proc]
  /\ members \in [Gateways -> [Nodes -> Addrs \cup {None}]]
  /\ \A g \in Gateways : seen[g] \in 0..Len(history)
  /\ watching \subseteq Gateways
  /\ signal \subseteq Gateways \X Listeners
  /\ open \in [Gateways -> [Nodes -> Addrs \cup {None}]]
  /\ \A s \in live : Answers(s[2], open[s[1]][s[2]])
  /\ settle \in [Gateways -> 0..Settle]
  /\ placed \in [Keys -> Nodes \cup {None}]
  /\ starts \in 0..MaxStarts /\ faults \in 0..MaxFaults

(* The list of a gateway is always one that the registry has had: what it  *)
(* misses while its watch is down, compacted changes included, is neither  *)
(* left out nor left over when it reads the list again.                    *)
ListWasTrue ==
  \A g \in Gateways : members[g] = After(Nobody, SubSeq(history, 1, seen[g]))

(* A node whose lease has not ended is registered where it listens: the    *)
(* end of an older lease - of its last process, of a registration it took  *)
(* for lost - does not unregister it.                                      *)
KeepsItsKey ==
  \A n \in Nodes :
    proc[n].pc = "kept" /\ proc[n].lease \in leases => Key(n).addr = proc[n].addr

(* When nodes stop coming and going, every gateway ends up with a stream   *)
(* to every node that runs, where it runs now, and with none to the        *)
(* others; and a queue whose node runs is where its hash puts it, even if  *)
(* no sweep ever comes round (MaxPerPass allowing).                        *)
Converges ==
  LET up == {n \in Nodes : proc[n].pc = "kept"} IN
  <>[](/\ \A g \in Gateways, n \in Nodes :
            /\ open[g][n] = (IF n \in up THEN proc[n].addr ELSE None)
            /\ <<g, n>> \in live <=> n \in up
       /\ \A k \in Keys : placed[k] \in up => placed[k] = Wanted(k, up))
=============================================================================
