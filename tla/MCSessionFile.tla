--------------------------- MODULE MCSessionFile ---------------------------
(***************************************************************************)
(* Instances of SessionFile for TLC.                                       *)
(***************************************************************************)
EXTENDS SessionFile, TLC

CONSTANTS r1, r2, r3, l1, l2
=============================================================================
