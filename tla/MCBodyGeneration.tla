--------------------------- MODULE MCBodyGeneration ---------------------------
(***************************************************************************)
(* Small instances of BodyGeneration.  Bodies of three chunks take a       *)
(* container append and one more batch; a body of one chunk is the notice  *)
(* without children.                                                       *)
(***************************************************************************)
EXTENDS BodyGeneration, TLC

CONSTANTS i1, i2, i3, q1, q2, q3, q4

\* Two items share a body (only a property of the notice changed); no body
\* extends another.
FreeBodies ==
    (i1 :> <<"a", "b", "c">>) @@ (i2 :> <<"a", "d">>) @@ (i3 :> <<"a", "b", "c">>)

\* The second body is the first one with a batch appended.
GrowingBodies ==
    (i1 :> <<"a", "b">>) @@ (i2 :> <<"a", "b", "c">>) @@ (i3 :> <<"d">>)

BlockSymmetry == Permutations({q1, q2, q3, q4})
=============================================================================
