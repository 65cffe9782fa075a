---------------------------- MODULE MCSourceCircuits ----------------------------
(***************************************************************************)
(* Small instances of SourceCircuits.                                      *)
(***************************************************************************)
EXTENDS SourceCircuits, TLC

CONSTANTS s1, s2
=============================================================================
