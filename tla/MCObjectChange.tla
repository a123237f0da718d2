--------------------------- MODULE MCObjectChange ---------------------------
(***************************************************************************)
(* Instances of ObjectChange for TLC.                                      *)
(***************************************************************************)
EXTENDS ObjectChange, TLC

CONSTANTS c1, c2, o1, o2, mine, yours

Symmetry == Permutations(Change)
=============================================================================
