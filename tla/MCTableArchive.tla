--------------------------- MODULE MCTableArchive ---------------------------
(***************************************************************************)
(* Instances of TableArchive for TLC.                                      *)
(***************************************************************************)
EXTENDS TableArchive, TLC

CONSTANTS c1, c2, r1, r2, active, archive, v1, v2

\* Both archives move r1 from the one table to the other.
FromActive == [c \in Change |-> active]
ToArchive  == [c \in Change |-> archive]
MoveFirst  == [c \in Change |-> r1]
OneRecord  == [t \in Table |-> [r \in Row |-> IF t = active THEN v1 ELSE Absent]]
=============================================================================
