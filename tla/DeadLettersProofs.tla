------------------------- MODULE DeadLettersProofs -------------------------
(***************************************************************************)
(* Theorems about DeadLetters for any sets of messages and gateways, any   *)
(* size of the map, and any number of faults, failing disks or not.        *)
(***************************************************************************)
EXTENDS DeadLetters, TLAPS

(* What one gateway may have in hand. *)
Rounds == [pc : {"idle", "deliver"}, items : SUBSET Messages, done : SUBSET Messages]

(* TypeOK, with the shape of the two variables whose parts it names. *)
TypeInv ==
  /\ up \in BOOLEAN /\ torn \in BOOLEAN /\ told \in BOOLEAN /\ target \in BOOLEAN
  /\ live \subseteq Messages /\ dl \subseteq Messages /\ drain \subseteq Messages
  /\ left \subseteq Messages \ live
  /\ offer \in [Messages -> {"no", "journal", "hold"}]
  /\ disk \in [Messages -> {"none", "dead", "drained"}]
  /\ tail \in Seq(Messages)
  /\ route \in [Gateways -> Rounds]
  /\ \A g \in Gateways : route[g].done \cap route[g].items = {}
  /\ moved \subseteq Messages
  /\ ~up => live = {} /\ dl = {} /\ drain = {}

(* Nobody says of a message that it was handed over before it is at its    *)
(* target, or lost in a gap that is known: neither a gateway that is to    *)
(* acknowledge it, nor the records of that, wherever they have got to.     *)
Safe(m) == m \in moved \/ m \in excused

NothingLetGo ==
  \A m \in Messages :
    \/ Safe(m)
    \/ /\ \A g \in Gateways : m \notin route[g].done
       /\ m \notin drain /\ m \notin Drained /\ disk[m] # "drained"

IInv == TypeInv /\ NothingLetGo /\ OwedOrMoved

-----------------------------------------------------------------------------
(* The tail of the log *)

(* A record that is written to the tail is the only new one. *)
LEMMA TailGrows ==
  ASSUME NEW m \in Messages, tail \in Seq(Messages)
  PROVE  /\ Append(tail, m) \in Seq(Messages)
         /\ Range(Append(tail, m)) = Range(tail) \cup {m}
<1> DEFINE s == Append(tail, m)
<1>1. /\ s \in Seq(Messages) /\ DOMAIN s = 1..(Len(tail) + 1)
      /\ DOMAIN tail = 1..Len(tail) /\ Len(tail) \in Nat
      /\ \A i \in 1..Len(tail) : s[i] = tail[i]
      /\ s[Len(tail) + 1] = m
  OBVIOUS
<1> HIDE DEF s
<1>2. ASSUME NEW x \in Range(s) PROVE x \in Range(tail) \cup {m}
  <2>1. PICK i \in DOMAIN s : x = s[i]
    BY DEF Range
  <2>2. i \in 1..Len(tail) \/ i = Len(tail) + 1
    BY <1>1, <2>1
  <2> QED BY <1>1, <2>1, <2>2 DEF Range
<1>3. ASSUME NEW x \in Range(tail) PROVE x \in Range(s)
  <2>1. PICK i \in DOMAIN tail : x = tail[i]
    BY DEF Range
  <2>2. i \in DOMAIN s /\ x = s[i]
    BY <1>1, <2>1
  <2> QED BY <2>2 DEF Range
<1>4. m \in Range(s)
  <2>1. Len(tail) + 1 \in DOMAIN s
    BY <1>1
  <2> QED BY <1>1, <2>1 DEF Range
<1>5. s \in Seq(Messages) /\ Range(s) = Range(tail) \cup {m}
  BY <1>1, <1>2, <1>3, <1>4
<1> QED BY <1>5 DEF s

(* What a crash leaves of the tail was in it. *)
LEMMA TailShrinks ==
  ASSUME tail \in Seq(Messages), NEW k \in 0..Len(tail)
  PROVE  /\ SubSeq(tail, 1, k) \in Seq(Messages)
         /\ Range(SubSeq(tail, 1, k)) \subseteq Range(tail)
<1>1. /\ SubSeq(tail, 1, k) \in Seq(Messages)
      /\ DOMAIN SubSeq(tail, 1, k) = 1..k
      /\ \A i \in 1..k : i \in DOMAIN tail /\ SubSeq(tail, 1, k)[i] = tail[i]
  OBVIOUS
<1> QED BY <1>1 DEF Range

(* Messages are what the tail is of. *)
LEMMA TailOfMessages == tail \in Seq(Messages) => Drained \subseteq Messages
<1> SUFFICES ASSUME tail \in Seq(Messages), NEW i \in DOMAIN tail PROVE tail[i] \in Messages
  BY DEF Drained, Range
<1> QED OBVIOUS

LEMMA EmptyTail == Range(<<>>) = {} /\ <<>> \in Seq(Messages)
BY DEF Range

-----------------------------------------------------------------------------
(* Type correctness *)

LEMMA InitType == Init => TypeInv
<1>1. Idle \in Rounds /\ Idle.done = {}
  BY DEF Idle, Rounds
<1>2. <<>> \in Seq(Messages)
  BY EmptyTail
<1> QED BY <1>1, <1>2 DEF Init, TypeInv

LEMMA NextType ==
  ASSUME TypeInv, [Next]_vars
  PROVE  TypeInv'
<1>1. ASSUME NEW m \in Messages, GiveUp(m) PROVE TypeInv'
  BY <1>1 DEF GiveUp, TypeInv, gatewayVars
<1>2. ASSUME NEW m \in Messages, Journal(m) PROVE TypeInv'
  <2>1. Flushed \in [Messages -> {"none", "dead", "drained"}]
    BY DEF TypeInv, Flushed
  <2>2. disk' \in [Messages -> {"none", "dead", "drained"}] /\ tail' \in Seq(Messages)
    BY <1>2, <2>1, EmptyTail DEF Journal, TypeInv
  <2>3. offer' \in [Messages -> {"no", "journal", "hold"}] /\ torn' \in BOOLEAN
    BY <1>2 DEF Journal, TypeInv
  <2> QED BY <1>2, <2>2, <2>3 DEF Journal, TypeInv, gatewayVars
<1>3. ASSUME NEW m \in Messages, Hold(m) PROVE TypeInv'
  BY <1>3 DEF Hold, TypeInv, gatewayVars
<1>4. ASSUME NEW m \in Messages, WriteDrained(m) PROVE TypeInv'
  <2>1. tail' \in Seq(Messages)
    BY <1>4, TailGrows DEF WriteDrained, TypeInv
  <2> QED BY <1>4, <2>1 DEF WriteDrained, TypeInv, gatewayVars
<1>5. ASSUME NEW g \in Gateways, List(g) PROVE TypeInv'
  BY <1>5 DEF List, TypeInv, nodeVars, Idle, Rounds, Reported
<1>6. ASSUME NEW g \in Gateways, NEW m \in Messages, Deliver(g, m) PROVE TypeInv'
  <2>1. Took(g, m, TRUE) \/ Took(g, m, FALSE)
    BY <1>6 DEF Deliver
  <2>2. /\ route' \in [Gateways -> Rounds]
        /\ \A h \in Gateways : route'[h].done \cap route'[h].items = {}
    BY <2>1 DEF Took, TypeInv, Rounds
  <2>3. moved' \subseteq Messages
    BY <1>6 DEF Deliver, Enqueued, TypeInv
  <2> QED BY <1>6, <2>2, <2>3 DEF Deliver, TypeInv, nodeVars
<1>7. ASSUME NEW g \in Gateways, Confirm(g) PROVE TypeInv'
  BY <1>7 DEF Confirm, HandOver, TypeInv, Idle, Rounds
<1>8. ASSUME NEW g \in Gateways, GatewayDies(g) PROVE TypeInv'
  BY <1>8 DEF GatewayDies, TypeInv, nodeVars, Idle, Rounds
<1>9. CASE Clear
  BY <1>9 DEF Clear, TypeInv, nodeVars, gatewayVars
<1>10. CASE Tell
  BY <1>10 DEF Tell, Reconfigure, TypeInv, gatewayVars
<1>11. CASE Crash
  <2>1. tail' \in Seq(Messages) /\ left' \subseteq left
    BY <1>11, TailShrinks DEF Crash, TypeInv
  <2> QED BY <1>11, <2>1 DEF Crash, TypeInv, gatewayVars
<1>12. CASE Restart
  <2>1. Replayed \subseteq Messages
    BY DEF Replayed
  <2>2. disk' \in [Messages -> {"none", "dead", "drained"}] /\ tail' \in Seq(Messages)
    BY <1>12, EmptyTail DEF Restart, Compacted
  <2> QED BY <1>12, <2>1, <2>2 DEF Restart, Compacted, TypeInv, gatewayVars
<1>13. CASE UNCHANGED vars
  BY <1>13 DEF vars, TypeInv
<1> QED
  BY <1>1, <1>2, <1>3, <1>4, <1>5, <1>6, <1>7, <1>8, <1>9, <1>10, <1>11, <1>12, <1>13
     DEF Next, Node, Round

LEMMA TypeFollows == TypeInv => TypeOK
BY TailOfMessages DEF TypeInv, TypeOK, Rounds

(* The variables keep their types: no message is in the queue and known to *)
(* have left it, and a node that is down holds nothing.                    *)
THEOREM TypeCorrect == Spec => []TypeOK
<1>1. Spec => []TypeInv
  BY InitType, NextType, PTL DEF Spec
<1> QED BY <1>1, TypeFollows, PTL

-----------------------------------------------------------------------------
(* Nothing is let go of too early *)

LEMMA InitSafe == Init => IInv
BY InitType, EmptyTail
   DEF Init, IInv, NothingLetGo, OwedOrMoved, Owed, Safe, Drained, Flushed, Idle

(* Steps that let nothing go, and leave the logs and the queue alone. *)
LEMMA Quiet ==
  ASSUME IInv, TypeInv',
         moved \subseteq moved', excused \subseteq excused',
         UNCHANGED <<disk, tail, left>>,
         drain' \subseteq drain,
         \A m \in Messages : offer[m] = "journal" => offer'[m] = "journal",
         \A g \in Gateways : \A m \in route'[g].done :
           m \in route[g].done \/ m \in moved' \/ m \in excused'
  PROVE  IInv'
<1>1. NothingLetGo'
  BY DEF IInv, NothingLetGo, Safe, Drained
<1>2. OwedOrMoved'
  BY DEF IInv, OwedOrMoved, Owed, Flushed, Drained
<1> QED BY <1>1, <1>2 DEF IInv

LEMMA NextSafe ==
  ASSUME IInv, [Next]_vars
  PROVE  IInv'
<1>0. TypeInv /\ TypeInv'
  BY NextType DEF IInv
<1>1. ASSUME NEW m \in Messages, GiveUp(m) PROVE IInv'
  <2>1. offer'[m] = "journal" /\ \A k \in Messages \ {m} : offer'[k] = offer[k]
    BY <1>0, <1>1 DEF GiveUp, TypeInv
  <2>2. NothingLetGo'
    BY <1>1 DEF IInv, NothingLetGo, Safe, Drained, GiveUp, gatewayVars
  <2>3. OwedOrMoved'
    BY <1>1, <2>1 DEF IInv, OwedOrMoved, Owed, Flushed, Drained, GiveUp, gatewayVars
  <2> QED BY <1>0, <2>2, <2>3 DEF IInv
<1>2. ASSUME NEW m \in Messages, Journal(m) PROVE IInv'
  <2>1. \A k \in Messages \ {m} : offer'[k] = offer[k]
    BY <1>0, <1>2 DEF Journal, TypeInv
  <2>2. CASE disk' = [Flushed EXCEPT ![m] = "dead"] /\ tail' = <<>> /\ UNCHANGED excused
    <3>1. disk'[m] = "dead" /\ \A k \in Messages \ {m} : disk'[k] = Flushed[k]
      BY <2>2 DEF Flushed
    <3>2. Drained' = {}
      BY <2>2, EmptyTail DEF Drained
    <3>3. NothingLetGo'
      BY <1>2, <2>2, <3>1, <3>2 DEF IInv, NothingLetGo, Safe, Flushed, Journal, gatewayVars
    <3>4. \A k \in Messages : Flushed'[k] = disk'[k]
      BY <3>2 DEF Flushed
    <3>5. OwedOrMoved'
      BY <1>2, <2>1, <2>2, <3>1, <3>4 DEF IInv, OwedOrMoved, Owed, Journal, gatewayVars
    <3> QED BY <1>0, <3>3, <3>5 DEF IInv
  <2>3. CASE excused' = excused \cup {m} /\ UNCHANGED <<disk, tail>>
    <3>1. NothingLetGo'
      BY <1>2, <2>3 DEF IInv, NothingLetGo, Safe, Drained, Journal, gatewayVars
    <3>2. OwedOrMoved'
      BY <1>2, <2>1, <2>3
         DEF IInv, OwedOrMoved, Owed, Flushed, Drained, Journal, gatewayVars
    <3> QED BY <1>0, <3>1, <3>2 DEF IInv
  <2> QED BY <1>2, <2>2, <2>3 DEF Journal
<1>3. ASSUME NEW m \in Messages, Hold(m) PROVE IInv'
  <2>1. \A k \in Messages : offer[k] = "journal" => offer'[k] = "journal"
    BY <1>0, <1>3 DEF Hold, TypeInv
  <2> QED BY <1>0, <1>3, <2>1, Quiet DEF Hold, gatewayVars
<1>4. ASSUME NEW m \in Messages, WriteDrained(m) PROVE IInv'
  <2>1. Drained' \subseteq Drained \cup {m} /\ Drained \subseteq Drained'
    BY <1>0, <1>4, TailGrows DEF WriteDrained, TypeInv, Drained
  <2>2. Safe(m)
    BY <1>4 DEF IInv, NothingLetGo, WriteDrained
  <2>3. NothingLetGo'
    BY <1>4, <2>1, <2>2 DEF IInv, NothingLetGo, Safe, WriteDrained, gatewayVars
  <2>4. OwedOrMoved'
    <3> SUFFICES ASSUME NEW k \in Messages PROVE (Owed(k) \/ k \in excused)'
      BY DEF OwedOrMoved
    <3>1. CASE k = m
      BY <1>4, <2>2, <3>1 DEF Safe, Owed, WriteDrained, gatewayVars
    <3>2. CASE k # m
      <4>1. Flushed'[k] = Flushed[k]
        BY <1>4, <2>1, <3>2 DEF Flushed, WriteDrained
      <4> QED BY <1>4, <4>1 DEF IInv, OwedOrMoved, Owed, WriteDrained, gatewayVars
    <3> QED BY <3>1, <3>2
  <2> QED BY <1>0, <2>3, <2>4 DEF IInv
<1>5. ASSUME NEW g \in Gateways, List(g) PROVE IInv'
  <2>1. \A h \in Gateways : route'[h].done \subseteq route[h].done
    BY <1>0, <1>5 DEF List, TypeInv, Idle
  <2> QED BY <1>0, <1>5, <2>1, Quiet DEF List, nodeVars
<1>6. ASSUME NEW g \in Gateways, NEW m \in Messages, Deliver(g, m) PROVE IInv'
  <2>1. moved \subseteq moved' /\ excused \subseteq excused'
    BY <1>6 DEF Deliver, Enqueued
  <2>2. \A h \in Gateways : \A k \in route'[h].done :
          k \in route[h].done \/ k \in moved' \/ k \in excused'
    BY <1>0, <1>6 DEF Deliver, Enqueued, Took, TypeInv, Rounds
  <2> QED BY <1>0, <1>6, <2>1, <2>2, Quiet DEF Deliver, nodeVars
<1>7. ASSUME NEW g \in Gateways, Confirm(g) PROVE IInv'
  <2>1. \A h \in Gateways : route'[h].done \subseteq route[h].done
    BY <1>0, <1>7 DEF Confirm, TypeInv, Idle
  <2>2. drain' \subseteq drain \cup route[g].done
    BY <1>7 DEF Confirm, HandOver
  <2>3. NothingLetGo'
    BY <1>7, <2>1, <2>2 DEF IInv, NothingLetGo, Safe, Drained, Confirm
  <2>4. OwedOrMoved'
    BY <1>7 DEF IInv, OwedOrMoved, Owed, Flushed, Drained, Confirm
  <2> QED BY <1>0, <2>3, <2>4 DEF IInv
<1>8. ASSUME NEW g \in Gateways, GatewayDies(g) PROVE IInv'
  <2>1. \A h \in Gateways : route'[h].done \subseteq route[h].done
    BY <1>0, <1>8 DEF GatewayDies, TypeInv, Idle
  <2> QED BY <1>0, <1>8, <2>1, Quiet DEF GatewayDies, nodeVars
<1>9. CASE Clear
  BY <1>0, <1>9, Quiet DEF Clear, nodeVars, gatewayVars
<1>10. CASE Tell
  BY <1>0, <1>10, Quiet DEF Tell, gatewayVars
<1>11. CASE Crash
  <2>1. Drained' \subseteq Drained /\ left' \subseteq left
    BY <1>0, <1>11, TailShrinks DEF Crash, TypeInv, Drained
  <2>2. NothingLetGo'
    BY <1>11, <2>1 DEF IInv, NothingLetGo, Safe, Crash, gatewayVars
  <2>3. OwedOrMoved'
    <3> SUFFICES ASSUME NEW m \in Messages, m \in left', ~Safe(m), offer[m] # "journal"
                 PROVE  Flushed'[m] = "dead"
      BY <1>0, <1>11 DEF OwedOrMoved, Owed, Safe, Crash, TypeInv, gatewayVars
    <3>1. m \notin Drained /\ disk[m] = "dead"
      BY <2>1 DEF IInv, NothingLetGo, OwedOrMoved, Owed, Safe, Flushed
    <3> QED BY <1>11, <2>1, <3>1 DEF Flushed, Crash
  <2> QED BY <1>0, <2>2, <2>3 DEF IInv
<1>12. CASE Restart
  <2>1. Drained' = {}
    BY <1>12, EmptyTail DEF Restart, Compacted, Drained
  <2>2. \A m \in Messages : disk'[m] = IF Flushed[m] = "dead" THEN "dead" ELSE "none"
    BY <1>12 DEF Restart, Compacted, Replayed
  <2>3. NothingLetGo'
    BY <1>12, <2>1, <2>2 DEF IInv, NothingLetGo, Safe, Restart, gatewayVars
  <2>4. \A m \in Messages : Flushed'[m] = disk'[m]
    BY <2>1 DEF Flushed
  <2>5. OwedOrMoved'
    BY <1>12, <2>2, <2>4 DEF IInv, OwedOrMoved, Owed, Restart, gatewayVars
  <2> QED BY <1>0, <2>3, <2>5 DEF IInv
<1>13. CASE UNCHANGED vars
  BY <1>0, <1>13, Quiet DEF vars
<1> QED
  BY <1>1, <1>2, <1>3, <1>4, <1>5, <1>6, <1>7, <1>8, <1>9, <1>10, <1>11, <1>12, <1>13
     DEF Next, Node, Round

(* A message that was given up is at its target, or the node still knows   *)
(* of it after the worst crash, or it is in one of the gaps that are named.*)
THEOREM NeverForgotten == Spec => []OwedOrMoved
<1>1. Spec => []IInv
  BY InitSafe, NextSafe, PTL DEF Spec
<1>2. IInv => OwedOrMoved
  BY DEF IInv
<1> QED BY <1>1, <1>2, PTL

(* The node does not let go of a message - nor does a gateway tell it to - *)
(* before the message is at its target or in one of those gaps.            *)
THEOREM LetGoInTime == Spec => []NothingLetGo
<1>1. Spec => []IInv
  BY InitSafe, NextSafe, PTL DEF Spec
<1>2. IInv => NothingLetGo
  BY DEF IInv
<1> QED BY <1>1, <1>2, PTL

-----------------------------------------------------------------------------
(* What was handed over does not come back *)

LEMMA NextHandedOver ==
  ASSUME [Next]_vars, NEW m \in Messages, m \in dl' \ dl, Flushed[m] # "dead"
  PROVE  offer[m] = "hold"
<1>1. \/ \E k \in Messages : GiveUp(k) \/ Node(k)
      \/ \E g \in Gateways : Round(g) \/ GatewayDies(g)
      \/ Clear \/ Tell \/ Crash \/ Restart \/ UNCHANGED vars
  BY DEF Next
<1>2. ASSUME NEW g \in Gateways, Round(g) PROVE dl' \subseteq dl
  BY <1>2 DEF Round, List, Deliver, Confirm, HandOver, nodeVars
<1>3. ASSUME NEW k \in Messages, GiveUp(k) \/ Journal(k) \/ WriteDrained(k) PROVE dl' = dl
  BY <1>3 DEF GiveUp, Journal, WriteDrained
<1>4. ASSUME NEW k \in Messages, Hold(k) PROVE m = k /\ offer[m] = "hold"
  BY <1>4 DEF Hold
<1>5. CASE Crash
  BY <1>5 DEF Crash
<1>6. CASE Restart
  BY <1>6 DEF Restart, Replayed
<1>7. CASE Clear \/ Tell \/ (\E g \in Gateways : GatewayDies(g)) \/ UNCHANGED vars
  BY <1>7 DEF Clear, Tell, GatewayDies, nodeVars, vars
<1> QED BY <1>1, <1>2, <1>3, <1>4, <1>5, <1>6, <1>7 DEF Node

(* After its drained record was flushed a message does not come back into  *)
(* the map, unless the queue gives it up once more.                        *)
THEOREM HandedOverOnce == Spec => HandedOverStays
<1>1. [Next]_vars =>
        [\A m \in Messages : m \in dl' \ dl /\ Flushed[m] # "dead" => offer[m] = "hold"]_vars
  BY NextHandedOver
<1> QED BY <1>1, PTL DEF Spec, HandedOverStays
=============================================================================
