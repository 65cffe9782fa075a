----------------------------- MODULE MCRunLifecycle -----------------------------
(***************************************************************************)
(* Small instances of RunLifecycle.                                        *)
(***************************************************************************)
EXTENDS RunLifecycle, TLC

CONSTANTS p1, p2, n1, c1, c2, c3
=============================================================================
