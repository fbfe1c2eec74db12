---------------------------- MODULE RuntimeStateMC ----------------------------
(***************************************************************************)
(* Instances of RuntimeState for TLC.                                      *)
(***************************************************************************)
EXTENDS RuntimeState, TLC

CONSTANTS s1, s2

(* The saves are interchangeable.                                          *)
Turns == Permutations(Savers)
=============================================================================
