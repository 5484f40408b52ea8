----------------------------- MODULE MCHandoff ------------------------------
(***************************************************************************)
(* Handoff for TLC.                                                        *)
(***************************************************************************)
EXTENDS Handoff, TLC
=============================================================================
