------------------------------- MODULE MCWal --------------------------------
(***************************************************************************)
(* Wal for TLC.  Goroutines are interchangeable; messages are not, the     *)
(* compactor writes them in the order of their numbers.                    *)
(***************************************************************************)
EXTENDS Wal, TLC

Goroutines == Permutations(Threads)
=============================================================================
