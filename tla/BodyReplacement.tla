---------------------------- MODULE BodyReplacement ----------------------------
(***************************************************************************)
(* What the body protocol promises a reader of one page: replacement is    *)
(* make-before-break.  The complete bodies on display never run out once   *)
(* there has been one, nothing changes while the page claims to be         *)
(* committed, and the claim is only made when the claimed item's body is   *)
(* the one and only body on display.                                       *)
(***************************************************************************)
CONSTANTS Items, BodyOf, NoItem

VARIABLES
    claim,    \* the item the page claims to show, NoItem while pending
    display   \* the complete bodies on display

vars == <<claim, display>>

Bodies == {BodyOf[i] : i \in Items}

Init == claim = NoItem /\ display \subseteq Bodies

Withdraw == claim # NoItem /\ claim' = NoItem /\ UNCHANGED display

Publish ==
    /\ claim = NoItem
    /\ \E b \in Bodies : display' = display \cup {b}
    /\ UNCHANGED claim

Retire ==
    /\ claim = NoItem
    /\ \E b \in display : display' = display \ {b}
    /\ display' # {}
    /\ UNCHANGED claim

Claim ==
    /\ claim = NoItem
    /\ \E i \in Items : display = {BodyOf[i]} /\ claim' = i
    /\ UNCHANGED display

Next == Withdraw \/ Publish \/ Retire \/ Claim

Spec == Init /\ [][Next]_vars
=============================================================================
