---------------------------- MODULE MCMembership ----------------------------
(***************************************************************************)
(* Membership for TLC: two nodes, one of which may move, and a slot s of a  *)
(* distributed queue d that may use one node, which is n1 if it can be.    *)
(***************************************************************************)
EXTENDS Membership, TLC

CONSTANTS n1, n2, a1, a2, a3, d, s

MCListens == n1 :> {a1, a2} @@ n2 :> {a3}
MCQueueOf == s :> d
MCWidth == s :> 1
MCScore == d :> (n1 :> 2 @@ n2 :> 1) @@ s :> (n1 :> 0 @@ n2 :> 3)
=============================================================================
