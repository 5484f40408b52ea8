------------------------------ MODULE Delivery ------------------------------
(***************************************************************************)
(* What a slot promises about its messages, whatever it does with bands,   *)
(* versions, timers and hints (HLD section 14, LLD 01 section 10).         *)
(*                                                                         *)
(* A message of a group is ready, leased, held back until its delay is     *)
(* over, away with another owner, or done (acknowledged, dead-lettered or  *)
(* expired).  At most one message of a group is leased; a message is done  *)
(* only from its lease, or because it expired while it was ready; one that *)
(* is done stays done.                                                     *)
(***************************************************************************)
CONSTANTS Groups, Messages

VARIABLES ready, leased, held, away, done

vars == <<ready, leased, held, away, done>>

Places == [Groups -> SUBSET Messages]
Nothing == [g \in Groups |-> {}]

Known(m) == \E g \in Groups :
              m \in ready[g] \cup leased[g] \cup held[g] \cup away[g] \cup done[g]

Init == /\ ready = Nothing /\ leased = Nothing /\ held = Nothing
        /\ away = Nothing /\ done = Nothing

Gain(place, g, S) == [place EXCEPT ![g] = @ \cup S]
Lose(place, g, S) == [place EXCEPT ![g] = @ \ S]

Submit(g, m) ==
  /\ ~Known(m)
  /\ \/ ready' = Gain(ready, g, {m}) /\ UNCHANGED held
     \/ held' = Gain(held, g, {m}) /\ UNCHANGED ready
  /\ UNCHANGED <<leased, away, done>>

(* The group has no lease out; what expired ahead of m goes. *)
Deliver(g, m, S) ==
  /\ leased[g] = {}
  /\ m \in ready[g]
  /\ S \subseteq ready[g] \ {m}
  /\ ready' = Lose(ready, g, S \cup {m})
  /\ leased' = Gain(leased, g, {m})
  /\ done' = Gain(done, g, S)
  /\ UNCHANGED <<held, away>>

Expire(g, S) ==
  /\ S # {}
  /\ S \subseteq ready[g]
  /\ ready' = Lose(ready, g, S)
  /\ done' = Gain(done, g, S)
  /\ UNCHANGED <<leased, held, away>>

(* The lease on m ends: m is done, ready again, or held. *)
EndLease(g, m) ==
  /\ m \in leased[g]
  /\ leased' = Lose(leased, g, {m})
  /\ \/ done' = Gain(done, g, {m}) /\ UNCHANGED <<ready, held>>
     \/ ready' = Gain(ready, g, {m}) /\ UNCHANGED <<held, done>>
     \/ held' = Gain(held, g, {m}) /\ UNCHANGED <<ready, done>>
  /\ UNCHANGED away

Release(g, m) ==
  /\ m \in held[g]
  /\ held' = Lose(held, g, {m})
  /\ ready' = Gain(ready, g, {m})
  /\ UNCHANGED <<leased, away, done>>

(* Another owner has everything now. *)
HandOver ==
  /\ away' = [g \in Groups |-> away[g] \cup ready[g] \cup leased[g] \cup held[g]]
  /\ ready' = Nothing /\ leased' = Nothing /\ held' = Nothing
  /\ UNCHANGED done

TakeIn(g, S) ==
  /\ S # {}
  /\ S \subseteq away[g]
  /\ away' = Lose(away, g, S)
  /\ ready' = Gain(ready, g, S)
  /\ UNCHANGED <<leased, held, done>>

TakeInHeld ==
  /\ held' = [g \in Groups |-> held[g] \cup away[g]]
  /\ away' = Nothing
  /\ UNCHANGED <<ready, leased, done>>

Next ==
  \/ \E g \in Groups, m \in Messages :
       \/ Submit(g, m)
       \/ \E S \in SUBSET ready[g] : Deliver(g, m, S)
       \/ EndLease(g, m)
       \/ Release(g, m)
  \/ \E g \in Groups : \E S \in SUBSET ready[g] : Expire(g, S)
  \/ \E g \in Groups : \E S \in SUBSET away[g] : TakeIn(g, S)
  \/ HandOver
  \/ TakeInHeld

Spec == Init /\ [][Next]_vars

(* A group never has two messages out at once. *)
OneLeasePerGroup ==
  \A g \in Groups : \A m, n \in leased[g] : m = n
=============================================================================
