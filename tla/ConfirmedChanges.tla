--------------------------- MODULE ConfirmedChanges ---------------------------
(***************************************************************************)
(* What the runs of ApplyRun promise together, whoever of them fails, is   *)
(* killed or loses its state.  A page shows only what its board published. *)
(* What it shows is replaced only by a version that the latest recorded    *)
(* run noted as a change of it and that another run finds on the board     *)
(* again; each noted change is used once.  And the books are honest: a     *)
(* version that counts as read is on the page, or the notice is owed       *)
(* another reading, and a notice stops being owed one only when its page   *)
(* shows the version that counts.                                          *)
(***************************************************************************)
CONSTANTS
    Notices,
    Versions,
    NoVersion     \* not listed, nothing shown, nothing noted, nothing read

VARIABLES
    board,    \* what each board publishes
    body,     \* the version each page shows in full
    noted,    \* the change of it that the latest recorded run saw
    counted,  \* the version of each notice that counts as read
    owed,     \* the notices to be read again
    stage     \* no run, a run, or one that repeats the run that noted

vars == <<board, body, noted, counted, owed, stage>>

Content == Versions \cup {NoVersion}
Blank == [n \in Notices |-> NoVersion]

Init ==
    /\ board \in [Notices -> Content]
    /\ body = Blank /\ noted = Blank /\ counted = Blank
    /\ owed = {}
    /\ stage = "rest"

-----------------------------------------------------------------------------
\* A run shows the same board from its start to its end.
ChangeBoard ==
    /\ stage = "rest"
    /\ \E n \in Notices, v \in Content : board' = [board EXCEPT ![n] = v]
    /\ UNCHANGED <<body, noted, counted, owed, stage>>

Begin ==
    /\ stage = "rest"
    /\ stage' \in {"run", "rerun"}
    /\ UNCHANGED <<board, body, noted, counted, owed>>

\* A page without a version gets the one on the board; one that shows a
\* version changes only as noted, by a run that is not the same one again.
MayPublish(n) ==
    /\ board[n] # NoVersion
    /\ \/ body[n] = NoVersion
       \/ stage = "run" /\ noted[n] = board[n] /\ n \in owed

\* The pages of S are brought up to date, and what was noted of them is used.
Published(S) ==
    /\ \A n \in S : MayPublish(n)
    /\ body' = [n \in Notices |-> IF n \in S THEN board[n] ELSE body[n]]

Unused(S) == [n \in Notices |-> IF n \in S THEN NoVersion ELSE noted[n]]

Publish ==
    /\ stage # "rest"
    /\ \E S \in SUBSET Notices : Published(S) /\ noted' = Unused(S)
    /\ UNCHANGED <<board, counted, owed, stage>>

\* What a recorded run noted: changes that the board has and the page has not.
Noted == \A n \in Notices : noted'[n] # NoVersion => noted'[n] = board[n] /\ body'[n] # board[n]

\* What counts is the version counted before or the one on the board.
Settled ==
    /\ counted' \in [Notices -> Content] /\ owed' \subseteq Notices
    /\ \A n \in Notices :
          /\ counted'[n] \in {counted[n], board[n]}
          /\ counted'[n] \in {NoVersion, body'[n]} \/ n \in owed'
          /\ n \in owed \ owed' => body'[n] = counted'[n]

\* A run ends, in the middle of a page or not, with a record or without one.
End ==
    /\ stage # "rest"
    /\ \E S \in SUBSET Notices : Published(S) /\ (noted' = Unused(S) \/ Noted)
    /\ noted' \in [Notices -> Content]
    /\ Settled
    /\ stage' = "rest"
    /\ UNCHANGED board

\* A run of another kind is recorded in between: nothing stays noted.
RecordOther ==
    /\ stage = "rest"
    /\ noted' = Blank
    /\ UNCHANGED <<board, body, counted, owed, stage>>

-----------------------------------------------------------------------------
Next == ChangeBoard \/ Begin \/ Publish \/ End \/ RecordOther

Spec == Init /\ [][Next]_vars
=============================================================================
