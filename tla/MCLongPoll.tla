----------------------------- MODULE MCLongPoll -----------------------------
(***************************************************************************)
(* LongPoll for TLC: two consumers that share a gateway, and two nodes,    *)
(* with a group of two messages at the first.                              *)
(***************************************************************************)
EXTENDS LongPoll, TLC

CONSTANTS c1, c2, g1, n1, n2, m1, m2, m3

MCAt == c1 :> g1 @@ c2 :> g1
MCHome == m1 :> n1 @@ m2 :> n1 @@ m3 :> n2
MCBehind == m1 :> {} @@ m2 :> {m1} @@ m3 :> {}
=============================================================================
