---------------------------- MODULE MCMediaTransfer ----------------------------
(***************************************************************************)
(* Small instances of MediaTransfer: two files on one host, one of them    *)
(* reached through another host.                                           *)
(***************************************************************************)
EXTENDS MediaTransfer, TLC

CONSTANTS n1, n2, f1, f2, h1, h2, v1, v2

FirstHosts == (f1 :> h1) @@ (f2 :> h2)
LastHosts == (f1 :> h1) @@ (f2 :> h1)

TwoNotices == <<n1, n2>>
OneShared == (n1 :> <<f1>>) @@ (n2 :> <<f2, f1>>)
NoneRefused == {}

AllFirst == (f1 :> v1) @@ (f2 :> v1)

\* A notice that shows its only file twice.
OneNotice == <<n1>>
ShownTwice == (n1 :> <<f1, f1>>)
=============================================================================
