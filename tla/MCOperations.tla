---------------------------- MODULE MCOperations ----------------------------
(***************************************************************************)
(* Instances of Operations for TLC.                                        *)
(***************************************************************************)
EXTENDS Operations, TLC

CONSTANTS ann, bob, home, other, v1, v2

FirstInstance == [id |-> 0, alias |-> home, port |-> 1, image |-> v1]

\* Maintenance alone, one command of each kind, two of the instance manager.
SomeMixes == {<<3, 0, 2>>, <<1, 1, 2>>, <<0, 2, 1>>}
=============================================================================
