----------------------------- MODULE Placement ------------------------------
(***************************************************************************)
(* Which node a queue belongs on (backend/gateway/entity/model-member.go): *)
(* rendezvous hashing, a pure function of the key and the members.         *)
(***************************************************************************)
EXTENDS Naturals, FiniteSets

CONSTANTS
  Nodes,
  Keys,      \* what is placed: a whole queue, or a slot of a distributed one
  Queues,
  QueueOf,   \* QueueOf[k]: its queue
  Width,     \* Width[k]: the placement width of a distributed queue, else 0
  Score,     \* Score[k][n]: mix of the hashes of key k and of the ID of n
  MaxScore   \* 2^64 - 1 in the code

(* No two nodes tie: mix is a bijection of the node's hash for every key.  *)
ASSUME PlacementAssumption ==
  /\ MaxScore \in Nat
  /\ Score \in [Keys \cup Queues -> [Nodes -> 0..MaxScore]]
  /\ \A k \in Keys \cup Queues, m, n \in Nodes : Score[k][m] = Score[k][n] => m = n
  /\ QueueOf \in [Keys -> Queues] /\ Width \in [Keys -> Nat]

(* CandidatesFor: the top `width' of the ranking.                          *)
CandidatesFor(q, members, width) ==
  IF width = 0 \/ width >= Cardinality(members) THEN members
  ELSE {m \in members : Cardinality({x \in members : Score[q][x] > Score[q][m]}) < width}

(* OwnerFor: the member that scores highest.                               *)
OwnerFor(k, members) ==
  CHOOSE m \in members : \A x \in members : Score[k][x] <= Score[k][m]

(* assignOwner, and what a pass of the rebalancer wants: the slots of a    *)
(* distributed queue stay among its candidates.                            *)
Wanted(k, members) == OwnerFor(k, CandidatesFor(QueueOf[k], members, Width[k]))
=============================================================================
