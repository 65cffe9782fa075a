-------------------------- MODULE PageMigrationProofs --------------------------
(***************************************************************************)
(* What a failed application of a plan leaves on the pages it names, and   *)
(* what a successful one has done, for any number of pages, failures and   *)
(* edits.                                                                  *)
(***************************************************************************)
EXTENDS PageMigration, SequenceTheorems, FiniteSetTheorems, TLAPS

-----------------------------------------------------------------------------
\* The inductive invariant

PageTypes ==
    /\ page \in [Pages -> Page]
    /\ plan \in Plan
    /\ written \in SUBSET Pages
    /\ DOMAIN run = DOMAIN NoRun
    /\ run.attempted \in Seq(ToSet(run.attempted))
    /\ pc \in {"clear", "cleared"} => run.attempted # <<>>

\* Pages are written under a plan, and not before they were all checked.
WrittenLate ==
    /\ plan.pages = {} => pc = "idle" /\ written = {}
    /\ pc \in {"query", "check"} => written = {}

\* What the tool wrote shows on the page.
WrittenShows == \A p \in written : page[p].meta = MetaFor(plan.content[p])

\* What the tool wrote can be taken back, or is a failure to do so.
WrittenTracked == pc # "idle" => written \subseteq ToSet(run.attempted) \cup run.failures

IInv ==
    /\ PageTypes
    /\ WrittenLate
    /\ WrittenShows
    /\ WrittenTracked
    /\ LeftoversAreNamed

-----------------------------------------------------------------------------
\* Helpers

LEMMA AppendSet ==
    ASSUME NEW s, s \in Seq(ToSet(s)), NEW e
    PROVE  /\ Append(s, e) \in Seq(ToSet(Append(s, e)))
           /\ ToSet(s) \subseteq ToSet(Append(s, e))
           /\ e \in ToSet(Append(s, e))
<1> DEFINE S == ToSet(s) \cup {e}
           t == Append(s, e)
<1>1. s \in Seq(S)
    BY SeqMonotonic
<1>2. /\ t \in Seq(S) /\ Len(t) = Len(s) + 1 /\ t[Len(s) + 1] = e
      /\ \A i \in 1..Len(s) : t[i] = s[i]
    BY <1>1, AppendProperties
<1>3. DOMAIN s = 1..Len(s) /\ DOMAIN t = 1..Len(t) /\ Len(s) \in Nat
    BY <1>1, <1>2, LenProperties
<1>4. ToSet(t) = {t[i] : i \in 1..Len(t)} /\ ToSet(s) = {s[i] : i \in 1..Len(s)}
    BY <1>3 DEF ToSet
<1>5. t \in Seq(ToSet(t))
    <2>1. t = [i \in 1..Len(t) |-> t[i]] /\ Len(t) \in Nat
        BY <1>2, <1>3, LenProperties
    <2>2. \A i \in 1..Len(t) : t[i] \in ToSet(t)
        BY <1>4
    <2> QED
        BY <2>1, <2>2, IsASeq
<1> QED
    BY <1>2, <1>3, <1>4, <1>5

LEMMA FrontSet ==
    ASSUME NEW s, s \in Seq(ToSet(s)), s # <<>>
    PROVE  /\ Front(s) \in Seq(ToSet(Front(s)))
           /\ ToSet(s) = ToSet(Front(s)) \cup {s[Len(s)]}
<1> DEFINE n == Len(s) - 1
           t == SubSeq(s, 1, n)
<1>1. Len(s) \in Nat \ {0} /\ DOMAIN s = 1..Len(s)
    BY EmptySeq, LenProperties
<1>2. n \in Nat /\ n <= Len(s)
    BY <1>1
<1>3. Front(s) = t
    BY DEF Front
<1>4. /\ t \in Seq(ToSet(s)) /\ Len(t) = n
      /\ \A i \in 1..n : t[i] = s[i]
    BY <1>1, <1>2, SubSeqProperties
<1>5. DOMAIN t = 1..n
    BY <1>4, LenProperties
<1>6. ToSet(t) = {s[i] : i \in 1..n} /\ ToSet(s) = {s[i] : i \in 1..Len(s)}
    BY <1>1, <1>4, <1>5 DEF ToSet
<1>7. t \in Seq(ToSet(t))
    <2>1. t = [i \in 1..Len(t) |-> t[i]] /\ Len(t) \in Nat
        BY <1>2, <1>4, <1>5, LenProperties
    <2>2. \A i \in 1..Len(t) : t[i] \in ToSet(t)
        BY <1>4, <1>5 DEF ToSet
    <2> QED
        BY <2>1, <2>2, IsASeq
<1> QED
    BY <1>1, <1>2, <1>3, <1>6, <1>7

LEMMA RunFields ==
    DOMAIN NoRun = {"round", "todo", "seen", "first", "attempted", "failures"}
BY DEF NoRun

LEMMA NothingAttempted == <<>> \in Seq(ToSet(<<>>)) /\ ToSet(<<>>) = {}
BY DEF ToSet

LEMMA PendingHasNone ==
    ASSUME NEW p, StateOf(p) = "pending"
    PROVE  page[p].meta = NoMeta
BY DEF StateOf

LEMMA MetaIsSome ==
    ASSUME NEW content
    PROVE  MetaFor(content) # NoMeta
BY DEF MetaFor, NoMeta

-----------------------------------------------------------------------------
\* Every step preserves the invariant

LEMMA InitFine == Init => IInv
<1> SUFFICES ASSUME Init PROVE IInv
    OBVIOUS
<1>1. page \in [Pages -> Page]
    BY DEF Init
<1>2. plan \in Plan
    BY <1>1 DEF Init, Page, Plan
<1>3. run.attempted = <<>> /\ DOMAIN run = DOMAIN NoRun
    BY DEF Init, NoRun
<1> QED
    BY <1>1, <1>2, <1>3, NothingAttempted
    DEF Init, IInv, PageTypes, WrittenLate, WrittenShows, WrittenTracked, LeftoversAreNamed

\* Steps that write no page and keep what was attempted.
LEMMA LookingStep ==
    ASSUME IInv, UNCHANGED <<page, plan, written>>, pc # "idle", pc' # "idle",
           run'.attempted = run.attempted, run'.failures = run.failures,
           DOMAIN run' = DOMAIN run,
           pc' \in {"query", "check"} => written = {},
           pc' \in {"clear", "cleared"} => run.attempted # <<>>
    PROVE  IInv'
BY DEF IInv, PageTypes, WrittenLate, WrittenShows, WrittenTracked, LeftoversAreNamed

\* An application ends.
LEMMA EndStep ==
    ASSUME IInv, UNCHANGED <<page, plan, written>>, NEW how,
           EndAs(how), how = "failed" => written \subseteq run.failures
    PROVE  IInv'
<1>1. /\ run'.attempted = <<>> /\ run'.failures = run.failures
      /\ outcome' = how /\ pc' = "idle" /\ DOMAIN run' = DOMAIN NoRun
    BY DEF EndAs, NoRun
<1> QED
    BY <1>1, NothingAttempted
    DEF IInv, PageTypes, WrittenLate, WrittenShows, WrittenTracked, LeftoversAreNamed

LEMMA MakePlanStep ==
    ASSUME IInv, NEW S \in SUBSET Pages, NEW all \in BOOLEAN, MakePlan(S, all)
    PROVE  IInv'
<1>1. plan' \in Plan
    BY DEF MakePlan, Plan, IInv, PageTypes, Page
<1> QED
    BY <1>1 DEF MakePlan, IInv, PageTypes, WrittenLate, WrittenShows, WrittenTracked,
       LeftoversAreNamed

LEMMA StartApplyStep ==
    ASSUME IInv, StartApply
    PROVE  IInv'
<1>1. run'.attempted = <<>> /\ DOMAIN run' = DOMAIN NoRun
    BY DEF StartApply, NoRun
<1> QED
    BY <1>1, NothingAttempted
    DEF StartApply, Still, IInv, PageTypes, WrittenLate, WrittenShows, WrittenTracked,
        LeftoversAreNamed

LEMMA CheckSteps ==
    ASSUME IInv,
           \/ \E answered \in BOOLEAN : QueryPages(answered) \/ CheckEntry(answered)
           \/ Checked
    PROVE  IInv'
<1>1. UNCHANGED <<page, plan, written>> /\ pc \in {"query", "check"}
    BY DEF QueryPages, CheckEntry, Checked, Unwritten, Still
<1>2. written = {}
    BY <1>1 DEF IInv, WrittenLate
<1>3. CASE EndAs("failed")
    BY <1>1, <1>2, <1>3, EndStep
<1>4. CASE ~EndAs("failed")
    <2>1. run'.attempted = run.attempted /\ run'.failures = run.failures
          /\ DOMAIN run' = DOMAIN run /\ pc' \in {"query", "check", "look"}
        <3>1. CASE \E answered \in BOOLEAN : QueryPages(answered)
            BY <1>4, <3>1, RunFields DEF QueryPages, IInv, PageTypes
        <3>2. CASE \E answered \in BOOLEAN : CheckEntry(answered)
            BY <1>4, <3>2, RunFields DEF CheckEntry, IInv, PageTypes
        <3>3. CASE Checked
            BY <1>4, <3>3, RunFields DEF Checked, IInv, PageTypes
        <3> QED
            BY <3>1, <3>2, <3>3
    <2> QED
        BY <1>1, <1>2, <2>1, LookingStep
<1> QED
    BY <1>3, <1>4

LEMMA LookAgainStep ==
    ASSUME IInv, NEW answered \in BOOLEAN, LookAgain(answered) \/ Verify(answered)
    PROVE  IInv'
<1>1. UNCHANGED <<page, plan, written>> /\ pc \in {"look", "verify"}
    BY DEF LookAgain, Verify, Unwritten, Still
<1>2. run'.attempted = run.attempted /\ run'.failures = run.failures
      /\ DOMAIN run' = DOMAIN run /\ pc' \in {"look", "patch", "verify", "undo"}
    BY RunFields DEF LookAgain, Verify, TakeBack, IInv, PageTypes
<1> QED
    BY <1>1, <1>2, LookingStep

\* A page counts as attempted before it can be written.
LEMMA PatchStep ==
    ASSUME IInv, NEW landed \in BOOLEAN, NEW answered \in BOOLEAN, Patch(landed, answered)
    PROVE  IInv'
<1> DEFINE p == Next1
<1>1. /\ pc = "patch" /\ pc' \in {"verify", "undo"} /\ plan' = plan
      /\ run'.attempted = Append(run.attempted, p) /\ run'.failures = run.failures
      /\ DOMAIN run' = DOMAIN run
    BY RunFields DEF Patch, Attempt, Still, IInv, PageTypes
<1>2. /\ run'.attempted \in Seq(ToSet(run'.attempted))
      /\ ToSet(run.attempted) \subseteq ToSet(run'.attempted)
      /\ p \in ToSet(run'.attempted)
    BY <1>1, AppendSet DEF IInv, PageTypes
<1>3. CASE page' = page
    <2>1. written' = written
        BY <1>3 DEF Patch
    <2> QED
        BY <1>1, <1>2, <1>3, <2>1
        DEF IInv, PageTypes, WrittenLate, WrittenShows, WrittenTracked, LeftoversAreNamed
<1>4. CASE page' # page
    <2>1. page' = [page EXCEPT ![p].meta = MetaFor(plan.content[p])]
          /\ written' = written \cup {p}
        BY <1>4 DEF Patch
    <2>2. p \in Pages
        BY <1>4, <2>1 DEF IInv, PageTypes
    <2>3. plan.content[p] \in Contents
        BY <2>2 DEF IInv, PageTypes, Plan
    <2>4. /\ page' \in [Pages -> Page]
          /\ page'[p].meta = MetaFor(plan.content[p])
          /\ \A q \in Pages \ {p} : page'[q] = page[q]
        BY <2>1, <2>2, <2>3 DEF IInv, PageTypes, Page
    <2>5. PageTypes'
        BY <1>1, <1>2, <2>1, <2>2, <2>4 DEF IInv, PageTypes
    <2>6. WrittenShows'
        BY <1>1, <2>1, <2>4 DEF IInv, PageTypes, WrittenShows
    <2>7. WrittenTracked'
        BY <1>1, <1>2, <2>1 DEF IInv, WrittenTracked
    <2>8. WrittenLate' /\ LeftoversAreNamed'
        BY <1>1 DEF IInv, WrittenLate, LeftoversAreNamed
    <2> QED
        BY <2>5, <2>6, <2>7, <2>8 DEF IInv
<1> QED
    BY <1>3, <1>4

\* The page taken back last leaves the attempted ones, clean or as a failure.
LEMMA LeaveAttempted ==
    ASSUME IInv, run.attempted # <<>>, pc # "idle",
           pc' = "undo", plan' = plan, page' \in [Pages -> Page],
           \A q \in written' : q \in written /\ page'[q].meta = page[q].meta,
           run'.attempted = Front(run.attempted), DOMAIN run' = DOMAIN run,
           \/ LastAttempted \notin written' /\ run'.failures = run.failures
           \/ run'.failures = run.failures \cup {LastAttempted}
    PROVE  IInv'
<1>1. /\ run'.attempted \in Seq(ToSet(run'.attempted))
      /\ ToSet(run.attempted) = ToSet(run'.attempted) \cup {LastAttempted}
    BY FrontSet DEF IInv, PageTypes, LastAttempted
<1>2. WrittenTracked'
    BY <1>1 DEF IInv, WrittenTracked
<1>3. PageTypes'
    BY <1>1 DEF IInv, PageTypes
<1> QED
    BY <1>2, <1>3 DEF IInv, WrittenLate, WrittenShows, LeftoversAreNamed

LEMMA UndoLooks ==
    ASSUME IInv, NEW answered \in BOOLEAN, UndoEntry(answered) \/ VerifyCleared(answered)
    PROVE  IInv'
<1>1. UNCHANGED <<page, plan, written>> /\ pc \in {"undo", "cleared"}
    BY DEF UndoEntry, VerifyCleared, Unwritten, Still
<1>2. run.attempted # <<>>
    BY DEF UndoEntry, VerifyCleared, IInv, PageTypes
<1>3. CASE pc' = "clear"
    <2>1. run' = run
        BY <1>3 DEF UndoEntry, VerifyCleared, Undone, CannotUndo
    <2> QED
        BY <1>1, <1>2, <1>3, <2>1, LookingStep
<1>4. CASE Undone /\ StateOf(LastAttempted) = "pending"
    <2>1. LastAttempted \notin written
        BY <1>4, PendingHasNone, MetaIsSome DEF IInv, WrittenShows
    <2>2. /\ run'.attempted = Front(run.attempted) /\ run'.failures = run.failures
          /\ DOMAIN run' = DOMAIN run /\ pc' = "undo"
        BY <1>4, RunFields DEF Undone, IInv, PageTypes
    <2> QED
        BY <1>1, <1>2, <2>1, <2>2, LeaveAttempted DEF IInv, PageTypes
<1>5. CASE CannotUndo
    <2>1. /\ run'.attempted = Front(run.attempted)
          /\ run'.failures = run.failures \cup {LastAttempted}
          /\ DOMAIN run' = DOMAIN run /\ pc' = "undo"
        BY <1>5, RunFields DEF CannotUndo, IInv, PageTypes
    <2> QED
        BY <1>1, <1>2, <2>1, LeaveAttempted DEF IInv, PageTypes
<1> QED
    BY <1>3, <1>4, <1>5 DEF UndoEntry, VerifyCleared

\* Taking back clears the page, or names it.
LEMMA ClearStep ==
    ASSUME IInv, NEW landed \in BOOLEAN, NEW answered \in BOOLEAN,
           ClearEntry(landed, answered)
    PROVE  IInv'
<1> DEFINE p == LastAttempted
<1>1. pc = "clear" /\ plan' = plan /\ run.attempted # <<>>
    BY DEF ClearEntry, Still, IInv, PageTypes
<1>2. /\ page' \in [Pages -> Page] /\ written' \subseteq written
      /\ \A q \in written' : page'[q].meta = page[q].meta
    <2>1. CASE page' = page
        BY <2>1 DEF ClearEntry, IInv, PageTypes
    <2>2. CASE page' # page
        <3>1. page' = [page EXCEPT ![p].meta = NoMeta] /\ written' = written \ {p}
            BY <2>2 DEF ClearEntry
        <3>2. /\ page' \in [Pages -> Page]
              /\ \A q \in Pages \ {p} : page'[q] = page[q]
            BY <3>1 DEF IInv, PageTypes, Page
        <3> QED
            BY <3>1, <3>2 DEF IInv, PageTypes
    <2> QED
        BY <2>1, <2>2
<1>3. CASE answered
    <2>1. pc' = "cleared" /\ run' = run
        BY <1>3 DEF ClearEntry
    <2>2. PageTypes'
        BY <1>1, <1>2, <2>1 DEF IInv, PageTypes
    <2>3. WrittenShows' /\ WrittenTracked'
        BY <1>1, <1>2, <2>1 DEF IInv, WrittenShows, WrittenTracked
    <2> QED
        BY <1>1, <1>2, <2>1, <2>2, <2>3 DEF IInv, WrittenLate, LeftoversAreNamed
<1>4. CASE ~answered
    <2>1. /\ run'.attempted = Front(run.attempted)
          /\ run'.failures = run.failures \cup {p}
          /\ DOMAIN run' = DOMAIN run /\ pc' = "undo"
        BY <1>4, RunFields DEF ClearEntry, CannotUndo, IInv, PageTypes
    <2> QED
        BY <1>1, <1>2, <2>1, LeaveAttempted
<1> QED
    BY <1>3, <1>4

LEMMA EndSteps ==
    ASSUME IInv, Finish \/ Fail \/ Kill
    PROVE  IInv'
<1>1. UNCHANGED <<page, plan, written>>
    BY DEF Finish, Fail, Kill, Unwritten, Still
<1>2. CASE Fail
    <2>1. written \subseteq run.failures
        BY <1>2, NothingAttempted DEF Fail, IInv, WrittenTracked
    <2> QED
        BY <1>1, <1>2, <2>1, EndStep DEF Fail
<1>3. CASE Finish
    BY <1>1, <1>3, EndStep DEF Finish
<1>4. CASE Kill
    BY <1>1, <1>4, EndStep DEF Kill
<1> QED
    BY <1>2, <1>3, <1>4

\* What somebody replaced is no longer the tool's.
LEMMA EditPageStep ==
    ASSUME IInv, NEW p \in Pages, EditPage(p)
    PROVE  IInv'
<1>1. PICK new \in [trashed : BOOLEAN, content : Contents,
                    meta : {page[p].meta, NoMeta, OtherMeta}] :
         /\ page' = [page EXCEPT ![p] = new]
         /\ written' = IF new.meta = page[p].meta THEN written ELSE written \ {p}
    BY DEF EditPage
<1>2. new \in Page
    BY DEF IInv, PageTypes, Page
<1>3. /\ page' \in [Pages -> Page] /\ written' \subseteq written
      /\ \A q \in written' : page'[q].meta = page[q].meta
    BY <1>1, <1>2 DEF IInv, PageTypes
<1>4. UNCHANGED <<plan, run, pc, outcome>>
    BY DEF EditPage
<1> QED
    BY <1>3, <1>4 DEF IInv, PageTypes, WrittenLate, WrittenShows, WrittenTracked,
       LeftoversAreNamed

LEMMA NextFine ==
    ASSUME IInv, [Next]_vars
    PROVE  IInv'
<1>1. CASE UNCHANGED vars
    BY <1>1 DEF vars, IInv, PageTypes, WrittenLate, WrittenShows, WrittenTracked,
       LeftoversAreNamed
<1>2. CASE ToolStep
    BY <1>2, StartApplyStep, CheckSteps, LookAgainStep, PatchStep, UndoLooks, ClearStep,
       EndSteps DEF ToolStep
<1>3. CASE EditDatabase
    BY <1>3 DEF EditDatabase, IInv, PageTypes, WrittenLate, WrittenShows, WrittenTracked,
       LeftoversAreNamed
<1> QED
    BY <1>1, <1>2, <1>3, MakePlanStep, EditPageStep, EndSteps DEF Next

-----------------------------------------------------------------------------
\* The theorem

\* A failed application tells which pages still carry metadata it wrote
\* (migrate_existing_pages.py, apply_migration_plan), whatever fails while it
\* takes them back and whoever edits them meanwhile.
THEOREM FailureNamesLeftovers == Spec => []LeftoversAreNamed
<1>1. IInv => LeftoversAreNamed
    BY DEF IInv
<1> QED
    BY <1>1, InitFine, NextFine, PTL DEF Spec

-----------------------------------------------------------------------------
(***************************************************************************)
(* A successful application.  No page is attempted twice, because a page   *)
(* leaves those to be treated when the tool is content with it; and it     *)
(* leaves them only when it was seen with its metadata.                    *)
(***************************************************************************)

Attempting ==
    /\ pc \in {"patch", "verify"} => run.todo # {}
    /\ pc \in {"query", "check"} => run.attempted = <<>>
    /\ pc \in {"look", "patch"} => run.todo \cap ToSet(run.attempted) = {}
    /\ pc = "verify" => Rest \cap ToSet(run.attempted) = {}
    /\ pc \in {"clear", "cleared"} => run.attempted # <<>>

Shows(p) == page[p].meta = MetaFor(page[p].content)

Handled ==
    pc \in {"look", "patch", "verify"} =>
        \A p \in plan.pages \ (run.todo \cup unseen) : Shows(p)

Unplanned == plan.pages = {} => outcome = "none" /\ pc = "idle"

SInv == TypeOK /\ Attempting /\ Handled /\ Unplanned /\ DoneMeansApplied

-----------------------------------------------------------------------------
\* Helpers

\* Every set of numbers has a least element.
LEMMA Least ==
    ASSUME NEW S \in SUBSET Nat, S # {}
    PROVE  \E x \in S : \A y \in S : x <= y
<1> DEFINE T == {1..n : n \in S}
<1>1. T \subseteq FiniteSubsetsOf(Nat) /\ T # {}
    <2>1. ASSUME NEW n \in S PROVE 1..n \in FiniteSubsetsOf(Nat)
        <3>1. 1 \in Int /\ n \in Int /\ 1..n \in SUBSET Nat
            OBVIOUS
        <3>2. IsFiniteSet(1..n)
            BY <3>1, FS_Interval
        <3> QED
            BY <3>1, <3>2 DEF FiniteSubsetsOf
    <2> QED
        BY <2>1
<1>2. PICK t \in T : \A u \in T : <<u, t>> \notin StrictSubsetOrdering(Nat)
    <2>1. IsWellFoundedOn(StrictSubsetOrdering(Nat), FiniteSubsetsOf(Nat))
        BY FS_StrictSubsetOrderingWellFounded
    <2> HIDE DEF T
    <2> QED
        BY <1>1, <2>1, WFMin
<1>3. PICK x \in S : t = 1..x
    OBVIOUS
<1>4. ASSUME NEW y \in S, ~(x <= y) PROVE FALSE
    <2>1. x \in 1..x /\ x \notin 1..y
        BY <1>4
    <2>2. 1..y \subseteq 1..x /\ 1..y # 1..x /\ 1..y \in SUBSET Nat /\ 1..x \in SUBSET Nat
        BY <1>4, <2>1
    <2>3. <<1..y, t>> \in StrictSubsetOrdering(Nat)
        BY <1>3, <2>2 DEF StrictSubsetOrdering
    <2> QED
        BY <1>2, <2>3
<1> QED
    BY <1>4

\* The next entry is one of those left.
LEMMA NextIsLeft ==
    ASSUME run.todo \subseteq Pages, run.todo # {}
    PROVE  Next1 \in run.todo
<1> DEFINE I == {i \in DOMAIN Order : Order[i] \in run.todo}
<1>1. DOMAIN Order = 1..Len(Order) /\ Len(Order) \in Nat
    BY OrderAssumption, LenProperties
<1>2. I \in SUBSET Nat /\ I # {}
    BY <1>1, OrderAssumption DEF ToSet
<1>3. PICK i \in I : \A j \in I : i <= j
    BY <1>2, Least
<1>4. \A j \in 1..(i - 1) : Order[j] \notin run.todo
    <2> SUFFICES ASSUME NEW j \in 1..(i - 1), Order[j] \in run.todo PROVE FALSE
        OBVIOUS
    <2>1. i \in Nat /\ i <= Len(Order)
        BY <1>1
    <2>2. j \in I /\ j < i
        BY <1>1, <2>1
    <2> QED
        BY <1>3, <2>1, <2>2
<1> QED
    BY <1>3, <1>4 DEF Next1

LEMMA LongerInjective ==
    ASSUME NEW s \in Seq(Pages), IsInjective(s), NEW p \in Pages, p \notin ToSet(s),
           NEW t, t = Append(s, p)
    PROVE  t \in Seq(Pages) /\ IsInjective(t) /\ ToSet(t) = ToSet(s) \cup {p}
<1>1. /\ t \in Seq(Pages) /\ Len(t) = Len(s) + 1 /\ t[Len(s) + 1] = p
      /\ \A i \in 1..Len(s) : t[i] = s[i]
    BY AppendProperties
<1>2. DOMAIN s = 1..Len(s) /\ DOMAIN t = 1..Len(t) /\ Len(s) \in Nat
    BY <1>1, LenProperties
<1>3. ToSet(t) = ToSet(s) \cup {p}
    BY <1>1, <1>2 DEF ToSet
<1>4. IsInjective(t)
    BY <1>1, <1>2 DEF IsInjective, ToSet
<1> QED
    BY <1>1, <1>3, <1>4

LEMMA ShorterInjective ==
    ASSUME NEW s \in Seq(Pages), IsInjective(s), s # <<>>
    PROVE  /\ Front(s) \in Seq(Pages) /\ IsInjective(Front(s))
           /\ ToSet(Front(s)) \subseteq ToSet(s)
           /\ s[Len(s)] \in ToSet(s)
<1> DEFINE n == Len(s) - 1
           t == SubSeq(s, 1, n)
<1>1. Len(s) \in Nat \ {0} /\ DOMAIN s = 1..Len(s) /\ n \in Nat /\ n <= Len(s)
    BY EmptySeq, LenProperties
<1>2. Front(s) = t /\ t \in Seq(Pages) /\ Len(t) = n /\ \A i \in 1..n : t[i] = s[i]
    BY <1>1, SubSeqProperties DEF Front
<1>3. DOMAIN t = 1..n
    BY <1>2, LenProperties
<1> HIDE DEF t
<1>4. ToSet(t) \subseteq ToSet(s) /\ s[Len(s)] \in ToSet(s)
    BY <1>1, <1>2, <1>3 DEF ToSet
<1>5. IsInjective(t)
    BY <1>1, <1>2, <1>3 DEF IsInjective
<1> QED
    BY <1>2, <1>4, <1>5

LEMMA FaultBounded ==
    ASSUME TypeOK, UNCHANGED faults \/ Fault
    PROVE  faults' \in 0..MaxFaults
BY BoundsAssumption DEF TypeOK, Fault

LEMMA NoRunType == NoRun \in Run /\ NoRun.todo = {} /\ NoRun.attempted = <<>>
BY EmptySeq DEF NoRun, Run

LEMMA NoneInjective == IsInjective(<<>>) /\ ToSet(<<>>) = {}
BY DEF IsInjective, ToSet

LEMMA AppliedShows ==
    ASSUME NEW p, StateOf(p) = "applied"
    PROVE  Shows(p)
BY DEF StateOf, Matches, Shows

-----------------------------------------------------------------------------
\* Every step preserves it

LEMMA SafeInit == Init => SInv
<1> SUFFICES ASSUME Init PROVE SInv
    OBVIOUS
<1>1. page \in [Pages -> Page] /\ plan \in Plan
    BY DEF Init, Page, Plan
<1>2. run \in Run /\ run.todo = {} /\ ToSet(run.attempted) = {} /\ IsInjective(run.attempted)
    BY NoRunType, NoneInjective DEF Init
<1>3. TypeOK
    BY <1>1, <1>2, BoundsAssumption DEF Init, TypeOK, Scopes
<1> QED
    BY <1>3 DEF Init, SInv, Attempting, Handled, Unplanned, DoneMeansApplied

\* Steps of the tool that keep the pages; each says what becomes of its locals.
LEMMA SafeLook ==
    ASSUME SInv, pc # "idle", UNCHANGED <<page, scope, plan, written, disturbed, edits, outcome>>,
           UNCHANGED faults \/ Fault,
           run' \in Run, run'.todo \subseteq plan.pages,
           run'.attempted = run.attempted,
           unseen' \subseteq unseen,
           pc' \in {"query", "check", "look", "patch", "verify", "undo", "clear"},
           Attempting', Handled'
    PROVE  SInv'
<1>1. faults' \in 0..MaxFaults
    BY FaultBounded DEF SInv
<1> QED
    BY <1>1 DEF SInv, TypeOK, Unplanned, DoneMeansApplied

LEMMA SafeEnd ==
    ASSUME SInv, pc # "idle", UNCHANGED <<page, scope, plan, written, disturbed, unseen, edits>>,
           UNCHANGED faults \/ Fault,
           NEW how \in {"done", "failed", "killed"}, EndAs(how),
           how = "done" => \A p \in plan.pages \ unseen : Shows(p)
    PROVE  SInv'
<1>1. faults' \in 0..MaxFaults
    BY FaultBounded DEF SInv
<1>2. /\ run' \in Run /\ run'.todo = {} /\ run'.attempted = <<>>
      /\ pc' = "idle" /\ outcome' = how
    BY NoRunType DEF EndAs, SInv, TypeOK, NoRun, Run
<1>3. TypeOK'
    BY <1>1, <1>2, NoneInjective DEF SInv, TypeOK
<1> QED
    BY <1>2, <1>3 DEF SInv, Attempting, Handled, Unplanned, DoneMeansApplied, Shows

LEMMA SafeMakePlan ==
    ASSUME SInv, NEW S \in SUBSET Pages, NEW all \in BOOLEAN, MakePlan(S, all)
    PROVE  SInv'
<1>1. plan' \in Plan /\ plan'.pages = S /\ plan.pages = {}
    BY DEF MakePlan, Plan, SInv, TypeOK, Page
<1>2. TypeOK'
    BY <1>1 DEF MakePlan, SInv, TypeOK
<1> QED
    BY <1>1, <1>2 DEF MakePlan, SInv, Attempting, Handled, Unplanned, DoneMeansApplied

LEMMA SafeStartApply ==
    ASSUME SInv, StartApply
    PROVE  SInv'
<1>1. run' \in Run /\ run'.todo = {} /\ run'.attempted = <<>>
    <2>1. run' = [NoRun EXCEPT !.round = 1] /\ 1 \in 0..2
        BY DEF StartApply
    <2> QED
        BY <2>1, NoRunType DEF Run
<1>2. TypeOK'
    BY <1>1, NoneInjective DEF StartApply, Still, SInv, TypeOK
<1> QED
    BY <1>1, <1>2 DEF StartApply, Still, SInv, Attempting, Handled, Unplanned, DoneMeansApplied

LEMMA SafeChecks ==
    ASSUME SInv,
           \/ \E answered \in BOOLEAN : QueryPages(answered) \/ CheckEntry(answered)
           \/ Checked
    PROVE  SInv'
<1>1. /\ UNCHANGED <<page, scope, plan, written, disturbed, unseen, edits>>
      /\ pc \in {"query", "check"} /\ (UNCHANGED faults \/ Fault)
    BY DEF QueryPages, CheckEntry, Checked, Unwritten, Still
<1>2. run \in Run /\ plan.pages \subseteq Pages /\ run.todo \subseteq plan.pages
      /\ run.attempted = <<>>
    BY <1>1 DEF SInv, TypeOK, Plan, Attempting
<1>3. CASE EndAs("failed")
    BY <1>1, <1>3, SafeEnd
<1>4. CASE ~EndAs("failed")
    <2>1. /\ run' \in Run /\ run'.todo \subseteq plan.pages /\ run'.attempted = <<>>
          /\ pc' \in {"query", "check", "look"} /\ outcome' = outcome
          /\ pc' = "look" => run'.todo = plan.pages
        <3>1. CASE \E answered \in BOOLEAN : QueryPages(answered)
            BY <1>2, <1>4, <3>1 DEF QueryPages, Entries, Run
        <3>2. ASSUME NEW answered \in BOOLEAN, CheckEntry(answered)
              PROVE  <2>1!:
            <4>1. Next1 \in run.todo
                BY <1>2, <3>2, NextIsLeft DEF CheckEntry
            <4>2. StateOf(Next1) \in States
                BY <1>4, <3>2 DEF CheckEntry
            <4> DEFINE found == [p |-> Next1, state |-> StateOf(Next1)]
            <4>3. found \in Finding
                BY <1>2, <4>1, <4>2 DEF Finding
            <4>4. /\ run' = [run EXCEPT !.todo = Rest, !.seen = @ \cup {found}]
                  /\ pc' = pc /\ pc = "check" /\ outcome' = outcome
                BY <1>4, <3>2 DEF CheckEntry
            <4> HIDE DEF found
            <4> QED
                BY <1>2, <4>3, <4>4 DEF Run, Rest
        <3>3. CASE Checked
            <4>1. CASE run.round = 1
                <5>1. run' = [run EXCEPT !.round = 2, !.first = run.seen] /\ pc' = "query"
                      /\ outcome' = outcome /\ 2 \in 0..2
                    BY <3>3, <4>1 DEF Checked
                <5>2. run' \in Run
                    BY <1>2, <5>1 DEF Run
                <5> QED
                    BY <1>2, <5>1, <5>2 DEF Run
            <4>2. CASE run.round # 1
                <5>1. run' = [run EXCEPT !.todo = plan.pages, !.seen = {}, !.first = {}]
                      /\ pc' = "look" /\ outcome' = outcome
                    BY <1>4, <3>3, <4>2 DEF Checked, Entries
                <5> QED
                    BY <1>2, <5>1 DEF Run
            <4> QED
                BY <4>1, <4>2
        <3> QED
            BY <3>1, <3>2, <3>3
    <2>2. Attempting'
        BY <2>1, NoneInjective DEF Attempting
    <2>3. Handled'
        BY <1>1, <2>1 DEF Handled
    <2> QED
        BY <1>1, <1>2, <2>1, <2>2, <2>3, SafeLook
<1> QED
    BY <1>3, <1>4

\* The tool is content with a page: it shows what it should.
LEMMA ContentStep ==
    ASSUME SInv, Next1 \in run.todo, StateOf(Next1) = "applied",
           pc \in {"look", "verify"}, pc' = "look", run' = [run EXCEPT !.todo = Rest],
           UNCHANGED <<page, plan>>, Content(Next1)
    PROVE  run' \in Run /\ run'.todo \subseteq plan.pages /\ Attempting' /\ Handled'
<1>1. run' \in Run /\ run'.todo = run.todo \ {Next1} /\ run'.attempted = run.attempted
    BY DEF SInv, TypeOK, Run, Rest
<1>2. Attempting'
    BY <1>1 DEF SInv, Attempting, Rest
<1>3. Shows(Next1)
    BY AppliedShows
<1>4. \A q \in plan'.pages \ (run'.todo \cup unseen') : Shows(q)'
    BY <1>1, <1>3 DEF SInv, Handled, Content, Shows
<1> QED
    BY <1>1, <1>2, <1>4 DEF Handled, SInv, TypeOK

LEMMA SafeLookAgain ==
    ASSUME SInv, NEW answered \in BOOLEAN, LookAgain(answered) \/ Verify(answered)
    PROVE  SInv'
<1>1. /\ UNCHANGED <<page, scope, plan, written, disturbed, edits, outcome>>
      /\ pc \in {"look", "verify"} /\ (UNCHANGED faults \/ Fault)
    BY DEF LookAgain, Verify, Unwritten, Still
<1>2. run.todo \subseteq Pages /\ run.todo # {} /\ Next1 \in run.todo
    BY NextIsLeft DEF LookAgain, Verify, SInv, TypeOK, Plan, Attempting
<1>3. CASE /\ run' = [run EXCEPT !.todo = Rest] /\ Content(Next1) /\ pc' = "look"
           /\ StateOf(Next1) = "applied"
    <2>1. run' \in Run /\ run'.todo \subseteq plan.pages /\ Attempting' /\ Handled'
        BY <1>1, <1>2, <1>3, ContentStep
    <2>2. run'.attempted = run.attempted /\ unseen' \subseteq unseen
        BY <1>3 DEF SInv, TypeOK, Run, Content
    <2> QED
        BY <1>1, <1>3, <2>1, <2>2, SafeLook
<1>4. CASE run' = run /\ unseen' = unseen /\ (pc' = "undo" \/ (pc = "look" /\ pc' = "patch"))
    <2>1. Attempting' /\ Handled'
        BY <1>1, <1>2, <1>4 DEF SInv, Attempting, Handled, Shows
    <2>2. run' \in Run /\ run'.todo \subseteq plan.pages
        BY <1>4 DEF SInv, TypeOK
    <2> QED
        BY <1>1, <1>4, <2>1, <2>2, SafeLook
<1>5. CASE LookAgain(answered)
    BY <1>3, <1>4, <1>5 DEF LookAgain, TakeBack
<1>6. CASE Verify(answered)
    BY <1>3, <1>4, <1>6 DEF Verify, Verified, TakeBack
<1> QED
    BY <1>5, <1>6

\* The next entry was not attempted, and is attempted before it is written.
LEMMA SafePatch ==
    ASSUME SInv, NEW landed \in BOOLEAN, NEW answered \in BOOLEAN, Patch(landed, answered)
    PROVE  SInv'
<1> DEFINE p == Next1
<1>1. /\ UNCHANGED <<scope, plan, disturbed, unseen, edits, outcome>>
      /\ pc = "patch" /\ pc' \in {"verify", "undo"} /\ (UNCHANGED faults \/ Fault)
      /\ run' = [run EXCEPT !.attempted = Append(run.attempted, p)]
    BY DEF Patch, Still, Attempt
<1>2. /\ run.todo \subseteq plan.pages /\ plan.pages \subseteq Pages
      /\ p \in run.todo /\ p \notin ToSet(run.attempted)
    BY <1>1, NextIsLeft DEF SInv, TypeOK, Plan, Attempting
<1>3. /\ run' \in Run /\ run'.todo = run.todo
      /\ run'.attempted = Append(run.attempted, p)
      /\ IsInjective(run'.attempted) /\ ToSet(run'.attempted) = ToSet(run.attempted) \cup {p}
    <2>1. run.attempted \in Seq(Pages) /\ IsInjective(run.attempted) /\ p \in Pages
        BY <1>2 DEF SInv, TypeOK, Run
    <2> DEFINE t == Append(run.attempted, p)
    <2>2. t \in Seq(Pages) /\ IsInjective(t) /\ ToSet(t) = ToSet(run.attempted) \cup {p}
        BY <1>2, <2>1, LongerInjective
    <2>3. run' = [run EXCEPT !.attempted = t] /\ t = Append(run.attempted, p)
        BY <1>1
    <2> HIDE DEF t, p
    <2>4. run' \in Run /\ run'.todo = run.todo /\ run'.attempted = t
        BY <2>2, <2>3 DEF SInv, TypeOK, Run
    <2> QED
        BY <2>2, <2>3, <2>4
<1>4. /\ page' \in [Pages -> Page] /\ written' \subseteq Pages
      /\ \A q \in Pages \ {p} : page'[q] = page[q]
    <2>1. CASE page' = page
        BY <2>1 DEF Patch, SInv, TypeOK
    <2>2. CASE page' # page
        <3>1. /\ page' = [page EXCEPT ![p].meta = MetaFor(plan.content[p])]
              /\ written' = written \cup {p}
            BY <2>2 DEF Patch
        <3>2. plan.content[p] \in Contents /\ p \in Pages
            BY <1>2 DEF SInv, TypeOK, Plan
        <3> QED
            BY <3>1, <3>2 DEF SInv, TypeOK, Page
    <2> QED
        BY <2>1, <2>2
<1>5. faults' \in 0..MaxFaults
    BY <1>1, FaultBounded DEF SInv
<1>6. TypeOK'
    BY <1>1, <1>2, <1>3, <1>4, <1>5 DEF SInv, TypeOK
<1>7. Attempting'
    <2>1. Next1' = Next1
        BY <1>3 DEF Next1
    <2> QED
        BY <1>1, <1>2, <1>3, <2>1 DEF SInv, Attempting, Rest
<1>8. Handled'
    <2> SUFFICES ASSUME NEW q \in plan'.pages \ (run'.todo \cup unseen') PROVE Shows(q)'
        BY DEF Handled
    <2>1. q \in Pages \ {p} /\ page'[q] = page[q] /\ Shows(q)
        BY <1>1, <1>2, <1>3, <1>4 DEF SInv, Handled
    <2> QED
        BY <2>1 DEF Shows
<1> QED
    BY <1>1, <1>2, <1>6, <1>7, <1>8 DEF SInv, Unplanned, DoneMeansApplied

\* Taking back only drops attempted pages, and takes none for treated.
LEMMA SafeUndo ==
    ASSUME SInv, NEW landed \in BOOLEAN, NEW answered \in BOOLEAN,
           UndoEntry(answered) \/ ClearEntry(landed, answered) \/ VerifyCleared(answered)
    PROVE  SInv'
<1> DEFINE p == LastAttempted
<1>1. /\ UNCHANGED <<scope, plan, disturbed, unseen, edits, outcome>>
      /\ pc \in {"undo", "clear", "cleared"} /\ (UNCHANGED faults \/ Fault)
      /\ run.attempted # <<>>
    BY DEF UndoEntry, ClearEntry, VerifyCleared, Unwritten, Still, SInv, Attempting
<1>2. /\ run.attempted \in Seq(Pages) /\ IsInjective(run.attempted)
      /\ ToSet(run.attempted) \subseteq plan.pages /\ plan.pages \subseteq Pages
    BY DEF SInv, TypeOK, Run, Plan
<1> DEFINE t == Front(run.attempted)
<1>3. /\ t \in Seq(Pages) /\ IsInjective(t) /\ ToSet(t) \subseteq ToSet(run.attempted)
      /\ p \in Pages
    BY <1>1, <1>2, ShorterInjective DEF LastAttempted
<1>4. /\ run' \in Run /\ run'.todo = run.todo
      /\ IsInjective(run'.attempted) /\ ToSet(run'.attempted) \subseteq plan.pages
      /\ \/ pc' = "undo"
         \/ pc' \in {"clear", "cleared"} /\ run'.attempted = run.attempted
    <2>1. CASE run' = run /\ pc' \in {"clear", "cleared"}
        BY <1>2, <2>1 DEF SInv, TypeOK
    <2>2. CASE Undone \/ CannotUndo
        <3>1. \/ run' = [run EXCEPT !.attempted = t]
              \/ run' = [run EXCEPT !.attempted = t, !.failures = @ \cup {p}]
            BY <2>2 DEF Undone, CannotUndo
        <3>2. pc' = "undo"
            BY <2>2 DEF Undone, CannotUndo
        <3> HIDE DEF t, p
        <3>3. run' \in Run /\ run'.todo = run.todo /\ run'.attempted = t
            BY <1>3, <3>1 DEF SInv, TypeOK, Run
        <3> QED
            BY <1>2, <1>3, <3>2, <3>3
    <2> QED
        BY <2>1, <2>2 DEF UndoEntry, ClearEntry, VerifyCleared
<1>5. page' \in [Pages -> Page] /\ written' \subseteq Pages
    <2>1. CASE page' = page
        BY <2>1 DEF UndoEntry, ClearEntry, VerifyCleared, Unwritten, SInv, TypeOK
    <2>2. CASE page' # page
        <3>1. page' = [page EXCEPT ![p].meta = NoMeta] /\ written' = written \ {p}
            BY <2>2 DEF UndoEntry, ClearEntry, VerifyCleared, Unwritten
        <3> QED
            BY <1>3, <3>1 DEF SInv, TypeOK, Page
    <2> QED
        BY <2>1, <2>2
<1>6. faults' \in 0..MaxFaults
    BY <1>1, FaultBounded DEF SInv
<1>7. TypeOK'
    BY <1>1, <1>4, <1>5, <1>6 DEF SInv, TypeOK
<1> QED
    BY <1>1, <1>4, <1>7 DEF SInv, Attempting, Handled, Unplanned, DoneMeansApplied

LEMMA SafeEnds ==
    ASSUME SInv, Finish \/ Fail \/ Kill
    PROVE  SInv'
<1>1. /\ UNCHANGED <<page, scope, plan, written, disturbed, unseen, edits>>
      /\ pc # "idle" /\ (UNCHANGED faults \/ Fault)
    BY DEF Finish, Fail, Kill, Unwritten, Still
<1>2. CASE Finish
    <2>1. \A p \in plan.pages \ unseen : Shows(p)
        BY <1>2 DEF Finish, SInv, Handled
    <2> QED
        BY <1>1, <1>2, <2>1, SafeEnd DEF Finish
<1>3. CASE Fail
    BY <1>1, <1>3, SafeEnd DEF Fail
<1>4. CASE Kill
    BY <1>1, <1>4, SafeEnd DEF Kill
<1> QED
    BY <1>2, <1>3, <1>4

\* An edited page is one the tool has not seen since.
LEMMA SafeEditPage ==
    ASSUME SInv, NEW p \in Pages, EditPage(p)
    PROVE  SInv'
<1>1. PICK new \in [trashed : BOOLEAN, content : Contents,
                    meta : {page[p].meta, NoMeta, OtherMeta}] :
         /\ page' = [page EXCEPT ![p] = new]
         /\ written' = IF new.meta = page[p].meta THEN written ELSE written \ {p}
    BY DEF EditPage
<1>2. new \in Page
    BY DEF SInv, TypeOK, Page
<1>3. /\ page' \in [Pages -> Page] /\ written' \subseteq Pages
      /\ \A q \in Pages \ {p} : page'[q] = page[q]
    BY <1>1, <1>2 DEF SInv, TypeOK
<1>4. /\ UNCHANGED <<scope, plan, run, pc, outcome, faults>>
      /\ disturbed' = disturbed \cup {p} /\ unseen' = unseen \cup {p}
      /\ edits' = edits + 1 /\ edits < MaxEdits
    BY DEF EditPage
<1>5. TypeOK'
    BY <1>3, <1>4, BoundsAssumption DEF SInv, TypeOK
<1>6. \A q \in Pages \ unseen' : Shows(q) => Shows(q)'
    BY <1>3, <1>4 DEF Shows
<1>7. plan.pages \subseteq Pages
    BY DEF SInv, TypeOK, Plan
<1>8. Handled' /\ DoneMeansApplied'
    BY <1>4, <1>6, <1>7 DEF SInv, Handled, DoneMeansApplied, Shows
<1>9. Attempting'
    BY <1>4 DEF SInv, Attempting, Rest, Next1
<1> QED
    BY <1>4, <1>5, <1>8, <1>9 DEF SInv, Unplanned

LEMMA SafeNext ==
    ASSUME SInv, [Next]_vars
    PROVE  SInv'
<1>1. CASE UNCHANGED vars
    BY <1>1 DEF vars, SInv, TypeOK, Attempting, Rest, Next1, Handled, Shows, Unplanned,
       DoneMeansApplied
<1>2. CASE ToolStep
    BY <1>2, SafeStartApply, SafeChecks, SafeLookAgain, SafePatch, SafeUndo, SafeEnds DEF ToolStep
<1>3. CASE EditDatabase
    <2>1. /\ UNCHANGED <<page, plan, run, pc, outcome, written, disturbed, unseen, faults>>
          /\ scope' \in Scopes /\ edits' = edits + 1 /\ edits < MaxEdits
        BY <1>3 DEF EditDatabase
    <2>2. TypeOK'
        BY <2>1, BoundsAssumption DEF SInv, TypeOK
    <2> QED
        BY <2>1, <2>2 DEF SInv, Attempting, Rest, Next1, Handled, Shows, Unplanned,
           DoneMeansApplied
<1> QED
    BY <1>1, <1>2, <1>3, SafeMakePlan, SafeEditPage, SafeEnds DEF Next

-----------------------------------------------------------------------------
\* The theorems

\* Whatever happens to a plan and its pages, the tool treats only pages of the
\* plan and attempts none of them twice.
THEOREM Types == Spec => []TypeOK
<1>1. SInv => TypeOK
    BY DEF SInv
<1> QED
    BY <1>1, SafeInit, SafeNext, PTL DEF Spec

\* An application that reports success (migrate_existing_pages.py:910) leaves
\* every planned page with the metadata of the content it has, unless somebody
\* edited it after the tool was through with it.
THEOREM SuccessMeansApplied == Spec => []DoneMeansApplied
<1>1. SInv => DoneMeansApplied
    BY DEF SInv
<1> QED
    BY <1>1, SafeInit, SafeNext, PTL DEF Spec

=============================================================================
