------------------------------ MODULE MCAdmin -------------------------------
(***************************************************************************)
(* Admin for TLC: queue a is at node n1, queue b is distributed over both. *)
(***************************************************************************)
EXTENDS Admin, TLC

CONSTANTS a, b, n1, n2, g1, g2, c1, c2

MCHomes == a :> <<n1>> @@ b :> <<n1, n2>>
Alike == Permutations(Gateways) \cup Permutations(Clients)
=============================================================================
