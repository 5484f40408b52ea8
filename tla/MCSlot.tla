------------------------------- MODULE MCSlot -------------------------------
(***************************************************************************)
(* Slot for TLC.  Groups are interchangeable: no definition orders them.   *)
(* A band entry matters only as current or stale, so two states that       *)
(* differ in the numbers of the versions alone have the same behaviours:   *)
(* the view tells entries apart by that and forgets the numbers.           *)
(***************************************************************************)
EXTENDS Slot, TLC

Symmetry == Permutations(Groups)

Listing == [p \in Priorities |->
             [i \in DOMAIN bands[p] |-> [g |-> bands[p][i].g,
                                         current |-> Current(bands[p][i])]]]
State == <<now, msgs, [g \in Groups |-> [grp[g] EXCEPT !.version = 0]], groups,
           Listing, bandMask, inflight, timers, delayed, epochSeq, st, hint,
           headSeq, away, holder, opNow, todo>>
=============================================================================
