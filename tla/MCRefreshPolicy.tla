---------------------------- MODULE MCRefreshPolicy ----------------------------
(***************************************************************************)
(* Small instances of RefreshPolicy.                                       *)
(***************************************************************************)
EXTENDS RefreshPolicy, TLC

CONSTANTS r1, top
=============================================================================
