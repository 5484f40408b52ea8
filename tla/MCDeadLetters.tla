--------------------------- MODULE MCDeadLetters ---------------------------
(***************************************************************************)
(* DeadLetters for TLC.                                                    *)
(***************************************************************************)
EXTENDS DeadLetters, TLC
=============================================================================
