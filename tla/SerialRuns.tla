----------------------------- MODULE SerialRuns -----------------------------
(***************************************************************************)
(* What the processes of RunLifecycle promise together: they behave like   *)
(* runs that follow one another on one book.  A run starts from what the   *)
(* runs before it left, each of its records is added to what is there, and *)
(* a run that breaks off leaves what it recorded.  A failure is announced  *)
(* or, if it repeats one announced less than the interval ago, passed over.*)
(* There is no lock here, no copy in memory and no state file.             *)
(***************************************************************************)
EXTENDS Naturals, FiniteSets

CONSTANTS
    Notices,
    Causes,        \* kinds of failures
    NoCause,
    Repeat,        \* the interval in which a failure is not announced again
    MaxIncidents   \* active incidents that are kept at most

VARIABLES
    book,    \* active incidents, the ages of their announcements, notices done
    stage,   \* no run, a run, or one about to announce or pass over its failure
    cause    \* that failure

vars == <<book, stage, cause>>

Never == [c \in Causes |-> Repeat]

Init ==
    /\ book = [active |-> {}, age |-> Never, done |-> {}]
    /\ stage = "none"
    /\ cause = NoCause

-----------------------------------------------------------------------------
Begin ==
    /\ stage = "none"
    /\ stage' = "open"
    /\ UNCHANGED <<book, cause>>

Complete ==
    /\ stage = "open"
    /\ \E n \in Notices : book' = [book EXCEPT !.done = @ \cup {n}]
    /\ UNCHANGED <<stage, cause>>

Close == stage' = "none" /\ cause' = NoCause

EndWell ==
    /\ stage = "open"
    /\ book' = [book EXCEPT !.active = {}, !.age = Never]
    /\ Close

HasRoom(c) == Cardinality(book.active \cup {c}) <= MaxIncidents

Repeated(c) == c \in book.active /\ book.age[c] < Repeat

\* A run that went through notes a failure and decides how to end.
Note ==
    /\ stage = "open"
    /\ \E c \in Causes :
          /\ HasRoom(c)
          /\ book' = [book EXCEPT !.active = @ \cup {c}]
          /\ cause' = c
          /\ stage' = "telling" \/ (stage' = "silent" /\ Repeated(c))

EndFailed ==
    /\ \/ stage = "telling" /\ book' = [book EXCEPT !.age[cause] = 0]
       \/ stage = "silent" /\ UNCHANGED book
    /\ Close

\* A run breaks off: it notes why, and announces it unless it is repeated.
BreakOff ==
    /\ stage # "none"
    /\ \E c \in Causes :
          /\ HasRoom(c)
          /\ \/ book' = [book EXCEPT !.active = @ \cup {c}, !.age[c] = 0]
             \/ Repeated(c) /\ UNCHANGED book
    /\ Close

\* A run ends without adding anything: it was killed, is of another kind, or
\* its failure has no room.
Vanish ==
    /\ stage # "none"
    /\ UNCHANGED book
    /\ Close

Tick ==
    /\ book' = [book EXCEPT !.age = [c \in Causes |-> IF @[c] < Repeat THEN @[c] + 1 ELSE Repeat]]
    /\ UNCHANGED <<stage, cause>>

-----------------------------------------------------------------------------
Next ==
    Begin \/ Complete \/ EndWell \/ Note \/ EndFailed \/ BreakOff \/ Vanish \/ Tick

Spec == Init /\ [][Next]_vars
=============================================================================
