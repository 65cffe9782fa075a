---------------------------- MODULE MCPageMigration ----------------------------
(***************************************************************************)
(* Small instances of PageMigration.                                       *)
(***************************************************************************)
EXTENDS PageMigration, TLC

CONSTANTS p1, p2, plain, changed

PageOrder == <<p1, p2>>
=============================================================================
