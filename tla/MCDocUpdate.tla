---------------------------- MODULE MCDocUpdate ----------------------------
(***************************************************************************)
(* Instances of DocUpdate for TLC.                                         *)
(***************************************************************************)
EXTENDS DocUpdate, TLC

CONSTANTS c1, c2, c3, s1, s2, plain

\* All previews spell the URL alike.
OneSpelling == [c \in Change |-> plain]

\* c1 and c2 replace different sections.
OwnSections == [c \in Change |-> IF c = c1 THEN s1 ELSE s2]
=============================================================================
