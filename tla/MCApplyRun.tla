------------------------------ MODULE MCApplyRun ------------------------------
(***************************************************************************)
(* Small instances of ApplyRun: a source with two notices, so that one can *)
(* get in the way of the other, and a source with one.                     *)
(***************************************************************************)
EXTENDS ApplyRun, TLC

CONSTANTS n1, n2, n3, s1, s2, v1, v2

TwoSources == (n1 :> s1) @@ (n2 :> s1) @@ (n3 :> s2)
OneSource == (n1 :> s1) @@ (n2 :> s1)

\* The second content of the first notice never reads back as written.
OneStubborn == {<<n1, v2>>}
NoneStubborn == {}

VersionSymmetry == Permutations({v1, v2})
=============================================================================
