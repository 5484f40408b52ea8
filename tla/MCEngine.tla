------------------------------ MODULE MCEngine ------------------------------
(***************************************************************************)
(* Engine for TLC.  Goroutines of one kind are interchangeable.  The run   *)
(* of the counters has a view that leaves out the scans' history `passed', *)
(* which neither its steps nor its properties can tell.                    *)
(***************************************************************************)
EXTENDS Engine, TLC

ProducersAlike == Permutations(Producers)
ConsumersAlike == Permutations(Consumers)

Counted == <<msgs, line, lease, lapsed, frozen, depth, reserved, prod, cons, sweep,
             move, leaked, absorbed, late, lost>>
=============================================================================
