------------------------------ MODULE PageMigration ------------------------------
(***************************************************************************)
(* The tool that hands existing pages over to the synchroniser             *)
(* (migrate_existing_pages).  A plan names pages and remembers what they   *)
(* hold.  Applying it checks all of them twice, then writes the metadata   *)
(* page by page, each after one more look and before one more, and takes   *)
(* everything back when a step fails.  A request may fail before or after  *)
(* it took effect, the tool may be killed, and people go on editing.  A    *)
(* look at a page is several requests and taken as one step here; a patch  *)
(* that meets somebody else's metadata overwrites all of it here.          *)
(***************************************************************************)
EXTENDS Naturals, Sequences, FiniteSets, SequencesExt

CONSTANTS
    Pages,
    Order,       \* the pages by their ids
    Contents,    \* everything of a page but its metadata
    Ambiguous,   \* contents whose URL or body cannot be handed over
    MaxEdits,    \* bound on the edits of people
    MaxFaults    \* bound on failed requests and killed runs

ASSUME OrderAssumption == Order \in Seq(Pages) /\ ToSet(Order) = Pages /\ IsInjective(Order)
ASSUME AmbiguousAssumption == Ambiguous \subseteq Contents
ASSUME BoundsAssumption == MaxEdits \in Nat /\ MaxFaults \in Nat

VARIABLES
    page,       \* the pages
    scope,      \* how the database changed as a whole since the plan was made
    plan,       \* the plan file
    run,        \* the locals of the tool
    pc,
    outcome,    \* how the last application ended
    written,    \* ghost: pages that hold metadata this application wrote
    disturbed,  \* ghost: pages somebody edited since the plan was made
    unseen,     \* ghost: pages edited since the tool's last look at them began
    edits, faults

vars == <<page, scope, plan, run, pc, outcome, written, disturbed, unseen, edits, faults>>

-----------------------------------------------------------------------------
\* Types

\* Metadata: none, that of the plan for some content, or any other.
NoMeta == <<>>
OtherMeta == <<"other">>
MetaFor(content) == <<"committed", content>>

Page == [trashed : BOOLEAN, content : Contents,
         meta : {NoMeta, OtherMeta} \cup {MetaFor(c) : c \in Contents}]

\* A further page of its own, a second page of one of the notices, or a
\* change of the schema.
Scopes == {"same", "newPage", "twin", "schema"}

Plan == [pages : SUBSET Pages, all : BOOLEAN, content : [Pages -> Contents]]

States == {"pending", "applied"}

Finding == [p : Pages, state : States]

Run == [round : 0..2,                       \* which full preflight
        todo : SUBSET Pages,                \* entries still to be looked at
        seen : SUBSET Finding,              \* what this preflight found
        first : SUBSET Finding,             \* what the first one found
        attempted : Seq(Pages),
        failures : SUBSET Pages]            \* pages that could not be taken back

NoRun == [round |-> 0, todo |-> {}, seen |-> {}, first |-> {},
          attempted |-> <<>>, failures |-> {}]

TypeOK ==
    /\ page \in [Pages -> Page]
    /\ scope \in Scopes
    /\ plan \in Plan
    /\ run \in Run
    /\ run.todo \cup ToSet(run.attempted) \subseteq plan.pages
    /\ IsInjective(run.attempted)
    /\ pc \in {"idle", "query", "check", "look", "patch", "verify",
               "undo", "clear", "cleared"}
    /\ outcome \in {"none", "done", "failed", "killed"}
    /\ written \subseteq Pages /\ disturbed \subseteq Pages /\ unseen \subseteq disturbed
    /\ edits \in 0..MaxEdits /\ faults \in 0..MaxFaults

-----------------------------------------------------------------------------
\* The state of an entry

Matches(p) == ~page[p].trashed /\ page[p].content = plan.content[p]

\* Mutant of StateOf: only untouched pages are accepted.
StateOfUntouched(p) ==
    IF Matches(p) /\ page[p].meta = NoMeta THEN "pending" ELSE "changed"

\* _current_entry_state; anything but the two states is an error.
StateOf(p) ==
    CASE ~Matches(p) -> "changed"
      [] Matches(p) /\ page[p].meta = NoMeta -> "pending"
      [] Matches(p) /\ page[p].meta = MetaFor(plan.content[p]) -> "applied"
      [] OTHER -> "changed"

\* Mutant of Entries: every page, planned or not.
EveryPage == Pages

Entries == plan.pages

\* The entries are treated by their ids.
Next1 ==
    Order[CHOOSE i \in DOMAIN Order :
             Order[i] \in run.todo /\ \A j \in 1..(i - 1) : Order[j] \notin run.todo]

Rest == run.todo \ {Next1}
LastAttempted == run.attempted[Len(run.attempted)]

\* The request of a step fails: at a price.
Fault == faults < MaxFaults /\ faults' = faults + 1

Unwritten == UNCHANGED <<page, written>>
Content(p) == unseen' = unseen \ {p}
Still == UNCHANGED <<scope, plan, disturbed, edits>>

-----------------------------------------------------------------------------
\* Making a plan

\* A page can be planned if it is untouched, or already exactly as planned.
Plannable(p) ==
    /\ ~page[p].trashed
    /\ page[p].content \notin Ambiguous
    /\ page[p].meta \in {NoMeta, MetaFor(page[p].content)}

\* build_migration_plan, for named pages or for all that are not in the trash.
MakePlan(S, all) ==
    /\ pc = "idle" /\ plan.pages = {}
    /\ S # {} /\ (all => S = {p \in Pages : ~page[p].trashed})
    /\ scope = "same"
    /\ \A p \in S : Plannable(p)
    /\ plan' = [pages |-> S, all |-> all, content |-> [p \in Pages |-> page[p].content]]
    /\ UNCHANGED <<page, scope, run, pc, outcome, written, disturbed, unseen, edits, faults>>

-----------------------------------------------------------------------------
\* Checking everything

StartApply ==
    /\ pc = "idle" /\ plan.pages # {} /\ outcome # "done"
    /\ run' = [NoRun EXCEPT !.round = 1]
    /\ written' = {}
    /\ pc' = "query"
    /\ outcome' = "none"
    /\ UNCHANGED <<page, faults>>
    /\ Still /\ UNCHANGED unseen

EndAs(how) ==
    /\ outcome' = how
    /\ pc' = "idle"
    /\ run' = [NoRun EXCEPT !.failures = run.failures]

\* The database as a whole is as planned; the schema is compared only once.
InScope ==
    /\ scope # "twin"
    /\ scope = "schema" => run.round = 2
    /\ \A p \in plan.pages : ~page[p].trashed
    /\ plan.all => scope # "newPage" /\ \A p \in Pages \ plan.pages : page[p].trashed

\* The first half of _full_preflight.
QueryPages(answered) ==
    /\ pc = "query"
    /\ IF answered THEN UNCHANGED faults ELSE Fault
    /\ IF answered /\ InScope
       THEN /\ run' = [run EXCEPT !.todo = Entries, !.seen = {}]
            /\ pc' = "check"
            /\ UNCHANGED outcome
       ELSE EndAs("failed")
    /\ Unwritten /\ Still /\ UNCHANGED unseen

\* The second half, page by page.
CheckEntry(answered) ==
    /\ pc = "check" /\ run.todo # {}
    /\ IF answered THEN UNCHANGED faults ELSE Fault
    /\ IF answered /\ StateOf(Next1) \in States
       THEN /\ run' = [run EXCEPT !.todo = Rest,
                         !.seen = @ \cup {[p |-> Next1, state |-> StateOf(Next1)]}]
            /\ UNCHANGED <<pc, outcome>>
       ELSE EndAs("failed")
    /\ Unwritten /\ Still /\ UNCHANGED unseen

\* Two full preflights have to find the same.
Checked ==
    /\ pc = "check" /\ run.todo = {}
    /\ CASE run.round = 1 ->
              /\ run' = [run EXCEPT !.round = 2, !.first = run.seen]
              /\ pc' = "query"
              /\ UNCHANGED outcome
         [] run.round = 2 /\ run.seen = run.first ->
              /\ run' = [run EXCEPT !.todo = Entries, !.seen = {}, !.first = {}]
              /\ pc' = "look"
              /\ UNCHANGED outcome
         [] OTHER -> EndAs("failed")
    /\ UNCHANGED faults
    /\ Unwritten /\ Still /\ UNCHANGED unseen

-----------------------------------------------------------------------------
\* Applying

TakeBack == pc' = "undo" /\ UNCHANGED run

\* The last look before the patch.
LookAgain(answered) ==
    /\ pc = "look" /\ run.todo # {}
    /\ IF answered THEN UNCHANGED faults ELSE Fault
    /\ CASE answered /\ StateOf(Next1) = "applied" ->
              run' = [run EXCEPT !.todo = Rest] /\ Content(Next1) /\ UNCHANGED pc
         [] answered /\ StateOf(Next1) = "pending" ->
              pc' = "patch" /\ UNCHANGED <<run, unseen>>
         [] OTHER -> TakeBack /\ UNCHANGED unseen
    /\ UNCHANGED outcome
    /\ Unwritten /\ Still

\* Mutant of Attempt: an entry counts when its patch was answered.
AttemptAnswered(p, answered) ==
    IF answered THEN Append(run.attempted, p) ELSE run.attempted

\* An entry counts as attempted before its patch is sent.
Attempt(p, answered) == Append(run.attempted, p)

Patch(landed, answered) ==
    /\ pc = "patch"
    /\ answered => landed
    /\ IF answered THEN UNCHANGED faults ELSE Fault
    /\ page' = IF landed /\ ~page[Next1].trashed
               THEN [page EXCEPT ![Next1].meta = MetaFor(plan.content[Next1])] ELSE page
    /\ written' = IF page' = page THEN written ELSE written \cup {Next1}
    /\ run' = [run EXCEPT !.attempted = Attempt(Next1, answered)]
    /\ pc' = IF answered THEN "verify" ELSE "undo"
    /\ UNCHANGED outcome
    /\ Still /\ UNCHANGED unseen

\* Mutant of Verified: the answer of the patch is believed.
VerifiedUnread(p, answered) == TRUE

Verified(p, answered) == answered /\ StateOf(p) = "applied"

\* _verify_applied.
Verify(answered) ==
    /\ pc = "verify"
    /\ IF answered THEN UNCHANGED faults ELSE Fault
    /\ IF Verified(Next1, answered)
       THEN run' = [run EXCEPT !.todo = Rest] /\ Content(Next1) /\ pc' = "look"
       ELSE TakeBack /\ UNCHANGED unseen
    /\ UNCHANGED outcome
    /\ Unwritten /\ Still

Finish ==
    /\ pc = "look" /\ run.todo = {}
    /\ EndAs("done")
    /\ UNCHANGED faults
    /\ Unwritten /\ Still /\ UNCHANGED unseen

-----------------------------------------------------------------------------
\* Taking back, in reverse order (_rollback_properties)

Undone == run' = [run EXCEPT !.attempted = Front(@)] /\ pc' = "undo"

CannotUndo ==
    /\ run' = [run EXCEPT !.attempted = Front(@), !.failures = @ \cup {LastAttempted}]
    /\ pc' = "undo"

UndoEntry(answered) ==
    /\ pc = "undo" /\ run.attempted # <<>>
    /\ IF answered THEN UNCHANGED faults ELSE Fault
    /\ CASE answered /\ StateOf(LastAttempted) = "pending" -> Undone
         [] answered /\ StateOf(LastAttempted) = "applied" -> pc' = "clear" /\ UNCHANGED run
         [] OTHER -> CannotUndo
    /\ UNCHANGED outcome
    /\ Unwritten /\ Still /\ UNCHANGED unseen

ClearEntry(landed, answered) ==
    /\ pc = "clear"
    /\ answered => landed
    /\ IF answered THEN UNCHANGED faults ELSE Fault
    /\ page' = IF landed /\ ~page[LastAttempted].trashed
               THEN [page EXCEPT ![LastAttempted].meta = NoMeta] ELSE page
    /\ written' = IF page' = page THEN written ELSE written \ {LastAttempted}
    /\ IF answered THEN pc' = "cleared" /\ UNCHANGED run ELSE CannotUndo
    /\ UNCHANGED outcome
    /\ Still /\ UNCHANGED unseen

VerifyCleared(answered) ==
    /\ pc = "cleared"
    /\ IF answered THEN UNCHANGED faults ELSE Fault
    /\ IF answered /\ StateOf(LastAttempted) = "pending" THEN Undone ELSE CannotUndo
    /\ UNCHANGED outcome
    /\ Unwritten /\ Still /\ UNCHANGED unseen

Fail ==
    /\ pc = "undo" /\ run.attempted = <<>>
    /\ EndAs("failed")
    /\ UNCHANGED faults
    /\ Unwritten /\ Still /\ UNCHANGED unseen

Kill ==
    /\ pc # "idle"
    /\ Fault
    /\ EndAs("killed")
    /\ Unwritten /\ Still /\ UNCHANGED unseen

-----------------------------------------------------------------------------
\* People, from the making of the plan on

EditPage(p) ==
    /\ plan.pages # {}
    /\ edits < MaxEdits /\ edits' = edits + 1
    /\ \E new \in [trashed : BOOLEAN, content : Contents, meta : {page[p].meta, NoMeta, OtherMeta}] :
          /\ new # page[p]
          /\ page' = [page EXCEPT ![p] = new]
          /\ written' = IF new.meta = page[p].meta THEN written ELSE written \ {p}
    /\ disturbed' = disturbed \cup {p}
    /\ unseen' = unseen \cup {p}
    /\ UNCHANGED <<scope, plan, run, pc, outcome, faults>>

EditDatabase ==
    /\ plan.pages # {}
    /\ edits < MaxEdits /\ edits' = edits + 1
    /\ scope' \in Scopes \ {scope}
    /\ UNCHANGED <<page, plan, run, pc, outcome, written, disturbed, unseen, faults>>

-----------------------------------------------------------------------------
Init ==
    /\ page \in [Pages -> {q \in Page : ~q.trashed /\ q.meta \in {NoMeta, OtherMeta}}]
    /\ scope = "same"
    /\ plan = [pages |-> {}, all |-> FALSE, content |-> [p \in Pages |-> page[p].content]]
    /\ run = NoRun
    /\ pc = "idle"
    /\ outcome = "none"
    /\ written = {} /\ disturbed = {} /\ unseen = {}
    /\ edits = 0 /\ faults = 0

ToolStep ==
    \/ StartApply \/ Checked \/ Finish \/ Fail
    \/ \E answered \in BOOLEAN :
          \/ QueryPages(answered) \/ CheckEntry(answered) \/ LookAgain(answered)
          \/ Verify(answered) \/ UndoEntry(answered) \/ VerifyCleared(answered)
    \/ \E landed, answered \in BOOLEAN : Patch(landed, answered) \/ ClearEntry(landed, answered)

Next ==
    \/ \E S \in SUBSET Pages, all \in BOOLEAN : MakePlan(S, all)
    \/ ToolStep
    \/ Kill
    \/ \E p \in Pages : EditPage(p)
    \/ EditDatabase

Spec == Init /\ [][Next]_vars

\* A started application goes on, and one that failed is tried again.
FairSpec == Spec /\ WF_vars(ToolStep)

-----------------------------------------------------------------------------
\* Properties

\* migrate_existing_pages.py:904: metadata that a failed application wrote and
\* did not take back is on the pages it names in its error.
LeftoversAreNamed == pc = "idle" /\ outcome = "failed" => written \subseteq run.failures

\* migrate_existing_pages.py:910: what a successful application reports holds:
\* every planned page carries the metadata of the content it has, unless somebody
\* edited it after the tool's last look at it had begun.  A look reads the page,
\* its blocks and its quote one after the other, so an edit between these
\* requests is one the tool need not have seen.
DoneMeansApplied ==
    pc = "idle" /\ outcome = "done" =>
        \A p \in plan.pages \ unseen : page[p].meta = MetaFor(page[p].content)

Touched == disturbed # {} \/ scope # "same"

\* However often it is killed or fails half-way, an application that is tried
\* again succeeds if nobody changes anything.
Completes == plan.pages # {} ~> (outcome = "done" \/ Touched)

=============================================================================
