------------------------------ MODULE MCTopDisable ------------------------------
(***************************************************************************)
(* Small instances of TopDisable: the limits are scaled down with the      *)
(* number of pages (20 pages, half of at least five in the code).          *)
(***************************************************************************)
EXTENDS TopDisable, TLC

CONSTANTS n1, n2, n3

TwoSources == (n1 :> 1) @@ (n2 :> 1) @@ (n3 :> 2)
=============================================================================
