-------------------------- MODULE MCCatalogSystem --------------------------
(***************************************************************************)
(* Instances of CatalogSystem for TLC.                                     *)
(***************************************************************************)
EXTENDS CatalogSystem, TLC

CONSTANTS b1, b2, c1, c2, t1, d1, d2, tab, x, u

\* b1 holds a Table in a directory in a directory.
OneTree == (d1 :> b1) @@ (d2 :> b1) @@ (tab :> b1)
Nested  == (d1 :> Root) @@ (d2 :> d1) @@ (tab :> d2)
=============================================================================
