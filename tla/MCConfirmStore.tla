--------------------------- MODULE MCConfirmStore ---------------------------
(***************************************************************************)
(* Instances of ConfirmStore for TLC.                                      *)
(***************************************************************************)
EXTENDS ConfirmStore, TLC

CONSTANTS c1, c2, c3, p1, p2

\* A transfer of three keys against an archive and a document update.
ChainOfChanges == c1 :> {1, 2, 3} @@ c2 :> {2, 3} @@ c3 :> {1, 3}

\* One change of two keys and one that shares the second of them.
TwoChanges == c1 :> {1, 2} @@ c2 :> {2}

Succeeded == [thrown |-> FALSE, as |-> "succeeded"]
Partial   == [thrown |-> FALSE, as |-> "partial"]
Refused   == [thrown |-> TRUE, as |-> "conflict"]

\* A returned state that needs no error, one that a failed audit can hide, an error.
TwoResults   == {Succeeded, Refused}
ThreeResults == {Succeeded, Partial, Refused}
=============================================================================
