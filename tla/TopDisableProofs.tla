--------------------------- MODULE TopDisableProofs ---------------------------
(***************************************************************************)
(* Marks are only taken after two sightings, and never too many, for any   *)
(* number of notices and sources and for any limits.                       *)
(***************************************************************************)
EXTENDS TopDisable, FiniteSetTheorems, TLAPS

-----------------------------------------------------------------------------
\* The inductive invariant

\* Nothing of a run outlives it.
NothingLeft == pc = "idle" => run = NoRun

\* A source is under treatment, and its page only between its last reading
\* and its verification; a source begins with nothing treated.
Treated ==
    /\ pc \in {"apply", "first"} => run.todo = {} /\ run.taken = {}
    /\ pc \in {"second", "third", "retrieve", "unmark", "verify"} => run.at \in Sources
    /\ pc \notin {"unmark", "verify"} => run.page = {}

\* Absences that can confirm are absences the latest recorded run itself saw.
AbsencesSeen ==
    \A n \in saved.absent : SourceOf[n] \in saved.fresh => n \in saved.witness

\* What will be recorded as absent was not found by this run.
MissingSeen ==
    \A n \in run.missing : n \notin run.top /\ SourceOf[n] \notin run.skipped

\* A reason to take the mark of a page.
Justified(n) ==
    /\ n \notin run.top
    /\ \/ n \in run.listed
       \/ n \in saved.witness /\ ~run.rerun

EligibleJustified == \A n \in run.eligible : Justified(n)

OnlyEligible == run.todo \cup run.page \cup run.taken \subseteq run.eligible

WithinLimit == ~LimitExceeded(Cardinality(run.first), Cardinality(run.eligible))

IInv ==
    /\ TypeOK
    /\ NothingLeft
    /\ Treated
    /\ AbsencesSeen
    /\ MissingSeen
    /\ EligibleJustified
    /\ OnlyEligible
    /\ WithinLimit

-----------------------------------------------------------------------------
\* Helpers

\* A set of notices is finite, and a part of it is not larger.
LEMMA PartSize ==
    ASSUME NEW S \in SUBSET Notices, NEW T \in SUBSET S
    PROVE  /\ Cardinality(S) \in Nat /\ Cardinality(T) \in Nat
           /\ Cardinality(T) <= Cardinality(S)
<1>1. IsFiniteSet(S) /\ IsFiniteSet(T)
    BY NoticesAssumption, FS_Subset
<1> QED
    BY <1>1, FS_CardinalityType, FS_Subset

\* A listing has one entry per page.
LEMMA ShownSize ==
    ASSUME NEW S \in SUBSET Notices
    PROVE  Cardinality(Shown(S)) = Cardinality(S)
<1> DEFINE f == [n \in S |-> <<n, other[n]>>]
<1>1. IsFiniteSet(S)
    BY NoticesAssumption, FS_Subset
<1>2. \A n \in S : f[n] \in Shown(S)
    BY DEF Shown
<1>3. \A e \in Shown(S) : \E n \in S : f[n] = e
    BY DEF Shown
<1>4. \A m, n \in S : f[m] = f[n] => m = n
    OBVIOUS
<1>5. f \in Bijection(S, Shown(S))
    BY <1>2, <1>3, <1>4 DEF Bijection, Injection, Surjection, IsInjective
<1> QED
    BY <1>1, <1>5, FS_Bijection DEF ExistsBijection

\* Fewer pages do not exceed a limit that more respect.
LEMMA FewerAreFine ==
    ASSUME NEW total \in Nat, NEW count \in Nat, NEW fewer \in Nat, fewer <= count,
           ~LimitExceeded(total, count)
    PROVE  ~LimitExceeded(total, fewer)
<1> DEFINE allowed == MaxPercent * total
<1>1. allowed \in Nat
    BY LimitsAssumption
<1> HIDE DEF allowed
<1>2. LimitExceeded(total, fewer) <=>
         fewer > MaxCount \/ (total >= RatioFrom /\ 100 * fewer > allowed)
    BY DEF LimitExceeded, allowed
<1>3. ~(count > MaxCount) /\ ~(total >= RatioFrom /\ 100 * count > allowed)
    BY DEF LimitExceeded, allowed
<1> QED
    BY <1>1, <1>2, <1>3, LimitsAssumption

\* No page exceeds no limit.
LEMMA NothingIsFine == ~LimitExceeded(Cardinality({}), Cardinality({}))
<1>1. Cardinality({}) = 0
    BY FS_EmptySet
<1>2. MaxPercent * 0 = 0
    BY LimitsAssumption
<1> QED
    BY <1>1, <1>2, LimitsAssumption DEF LimitExceeded

\* A page is only eligible with a reason.
LEMMA EligibleIsJustified ==
    ASSUME IInv, NEW s \in Sources
    PROVE  /\ Eligible(s) \subseteq MissingTop(s)
           /\ \A n \in Eligible(s) : Justified(n)
<1>1. Confirmed(s) \subseteq MissingTop(s)
      /\ \A n \in Confirmed(s) : n \in saved.absent /\ s \in saved.fresh /\ ~run.rerun
    BY DEF Confirmed
<1>2. Immediate(s) \subseteq MissingTop(s) /\ Immediate(s) \subseteq run.listed
    BY DEF Immediate
<1>3. \A n \in MissingTop(s) : n \in marked /\ SourceOf[n] = s /\ n \notin run.top
    BY DEF MissingTop, TopPages, InSource
<1> QED
    BY <1>1, <1>2, <1>3 DEF Eligible, Justified, IInv, AbsencesSeen

LEMMA StateTypes ==
    ASSUME TypeOK
    PROVE  Failed \in State /\ Completed \in State
BY DEF TypeOK, State, Run, Failed, Completed, SawMissing, Sources

\* A state that may be kept after a run.
LEMMA KeptStates ==
    ASSUME IInv, saved' \in {saved, Failed, Completed}
    PROVE  AbsencesSeen'
<1>1. CASE saved' = saved
    BY <1>1 DEF IInv, AbsencesSeen
<1>2. CASE saved' = Failed
    BY <1>2 DEF AbsencesSeen, Failed
<1>3. CASE saved' = Completed
    <2> SUFFICES ASSUME NEW n \in saved'.absent, SourceOf[n] \in saved'.fresh
                 PROVE  n \in saved'.witness
        BY DEF AbsencesSeen
    <2>1. n \in Notices /\ SourceOf[n] \notin run.skipped
        BY <1>3 DEF Completed
    <2>2. n \in run.missing
        BY <1>3, <2>1 DEF Completed
    <2>3. n \notin run.top
        BY <2>2 DEF IInv, MissingSeen
    <2> QED
        BY <1>3, <2>1, <2>3 DEF Completed, SawMissing
<1> QED
    BY <1>1, <1>2, <1>3

\* No run: nothing to justify.
LEMMA NoRunFine ==
    ASSUME run' = NoRun, pc' = "idle", TypeOK', AbsencesSeen'
    PROVE  IInv'
<1>1. WithinLimit'
    BY NothingIsFine DEF WithinLimit, NoRun, LimitExceeded
<1> QED
    BY <1>1 DEF IInv, NothingLeft, Treated, MissingSeen, EligibleJustified, OnlyEligible, NoRun

\* The end of a job, whatever it does to the marks.
LEMMA EndStep ==
    ASSUME IInv, saved' \in {saved, Failed, Completed}, run' = NoRun, pc' = "idle",
           UNCHANGED <<board, other, changes, edits>>,
           marked' \in SUBSET Notices, faults' \in 0..MaxFaults
    PROVE  IInv'
<1>1. NoRun \in Run
    BY DEF NoRun, Run, Listing
<1>2. NoRun.at \in 1..(N + 1)
    BY SourcesAssumption DEF NoRun
<1>3. saved' \in State
    BY StateTypes DEF IInv, TypeOK
<1>4. TypeOK'
    BY <1>1, <1>2, <1>3 DEF IInv, TypeOK
<1> QED
    BY <1>4, KeptStates, NoRunFine

-----------------------------------------------------------------------------
\* Every step preserves the invariant

LEMMA InitFine == Init => IInv
<1> SUFFICES ASSUME Init PROVE IInv
    OBVIOUS
<1>1. TypeOK
    BY SourcesAssumption, BoundsAssumption
    DEF Init, TypeOK, EmptyState, State, NoRun, Run, Listing, Places
<1>2. WithinLimit
    BY NothingIsFine DEF Init, NoRun, WithinLimit
<1> QED
    BY <1>1, <1>2 DEF Init, IInv, NothingLeft, Treated, AbsencesSeen, MissingSeen,
       EligibleJustified, OnlyEligible, EmptyState, NoRun

\* Boards, people and the clock do not touch the run.
LEMMA OutsideStep ==
    ASSUME IInv,
           (\E n \in Notices : ChangeBoard(n) \/ PersonEdits(n))
           \/ (\E s \in Sources : Expire(s))
    PROVE  IInv'
<1>1. run' = run /\ pc' = pc
    BY DEF ChangeBoard, PersonEdits, Expire
<1>2. /\ saved'.absent = saved.absent /\ saved'.witness = saved.witness
      /\ saved'.fresh \subseteq saved.fresh
      /\ saved' \in State
    BY DEF ChangeBoard, PersonEdits, Expire, IInv, TypeOK, State
<1>3. TypeOK'
    <2>1. CASE \E n \in Notices : ChangeBoard(n)
        BY <2>1, BoundsAssumption DEF ChangeBoard, IInv, TypeOK
    <2>2. CASE \E n \in Notices : PersonEdits(n)
        <3>1. PICK n \in Notices : PersonEdits(n)
            BY <2>2
        <3>2. marked' \in SUBSET Notices /\ other' \in [Notices -> BOOLEAN]
            BY <3>1 DEF PersonEdits, IInv, TypeOK
        <3>3. edits' \in 0..MaxEdits
            BY <3>1, BoundsAssumption DEF PersonEdits, IInv, TypeOK
        <3> QED
            BY <3>1, <3>2, <3>3 DEF PersonEdits, IInv, TypeOK
    <2>3. CASE \E s \in Sources : Expire(s)
        BY <1>2, <2>3, BoundsAssumption DEF Expire, Spend, IInv, TypeOK
    <2> QED
        BY <2>1, <2>2, <2>3
<1> QED
    BY <1>1, <1>2, <1>3 DEF IInv, NothingLeft, Treated, AbsencesSeen, MissingSeen,
       EligibleJustified, Justified, OnlyEligible, WithinLimit, LimitExceeded

LEMMA OtherRunStep ==
    ASSUME IInv, OtherRun
    PROVE  IInv'
<1>1. run' = NoRun /\ pc' = "idle"
    BY DEF OtherRun, IInv, NothingLeft
<1>2. AbsencesSeen'
    BY DEF OtherRun, AbsencesSeen
<1>3. TypeOK'
    <2>1. faults' \in 0..MaxFaults
        BY BoundsAssumption DEF OtherRun, Spend, IInv, TypeOK
    <2>2. saved' \in State
        BY DEF OtherRun, IInv, TypeOK, State
    <2> QED
        BY <2>1, <2>2 DEF OtherRun, IInv, TypeOK
<1> QED
    BY <1>1, <1>2, <1>3, NoRunFine

LEMMA StartRunStep ==
    ASSUME IInv, NEW rerun \in BOOLEAN, NEW skipped \in SUBSET Sources, NEW api \in BOOLEAN,
           StartRun(rerun, skipped, api)
    PROVE  IInv'
<1> DEFINE top == {n \in Notices : board[n] = "top"}
           listed == {n \in Notices : api /\ board[n] = "listed"}
<1>1. run' = [rerun |-> rerun, skipped |-> skipped, top |-> top, listed |-> listed,
              at |-> 1, first |-> {}, eligible |-> {}, todo |-> {}, page |-> {},
              missing |-> {}, taken |-> {}]
    BY DEF StartRun, NoRun
<1>2. pc' = "apply" /\ saved' = saved
    BY DEF StartRun
<1>3. run' \in Run /\ run'.at \in 1..(N + 1)
    BY <1>1, SourcesAssumption DEF Run, Listing
<1>4. faults' \in 0..MaxFaults
    BY BoundsAssumption DEF StartRun, Spend, IInv, TypeOK
<1>5. TypeOK'
    BY <1>2, <1>3, <1>4 DEF StartRun, IInv, TypeOK
<1>6. WithinLimit'
    BY <1>1, NothingIsFine DEF WithinLimit, LimitExceeded
<1> QED
    BY <1>1, <1>2, <1>5, <1>6 DEF IInv, NothingLeft, Treated, AbsencesSeen, MissingSeen,
       EligibleJustified, OnlyEligible

LEMMA ApplyEntriesStep ==
    ASSUME IInv, NEW detailed \in SUBSET Notices, ApplyEntries(detailed)
    PROVE  IInv'
<1>1. pc = "apply" /\ pc' = "first" /\ run' = run /\ saved' = saved
    BY DEF ApplyEntries
<1>2. TypeOK'
    BY DEF ApplyEntries, IInv, TypeOK
<1> QED
    BY <1>1, <1>2 DEF IInv, NothingLeft, Treated, AbsencesSeen, MissingSeen,
       EligibleJustified, Justified, OnlyEligible, WithinLimit, LimitExceeded

LEMMA SkipSourceStep ==
    ASSUME IInv, SkipSource
    PROVE  IInv'
<1>1. run.at \in Sources
    BY DEF SkipSource, IInv, TypeOK, Run
<1>2. run.at + 1 \in 1..(N + 1) /\ run.at + 1 \in Nat
    BY <1>1, SourcesAssumption DEF Sources
<1>3. TypeOK'
    BY <1>2 DEF SkipSource, IInv, TypeOK, Run
<1>4. /\ run' = [run EXCEPT !.at = run.at + 1] /\ pc = "first" /\ pc' = "first"
      /\ saved' = saved
    BY DEF SkipSource
<1>5. /\ run'.page = run.page /\ run'.missing = run.missing /\ run'.top = run.top
      /\ run'.skipped = run.skipped /\ run'.eligible = run.eligible /\ run'.first = run.first
      /\ run'.listed = run.listed /\ run'.rerun = run.rerun /\ run'.todo = run.todo
      /\ run'.taken = run.taken
    BY <1>4 DEF IInv, TypeOK, Run
<1> QED
    BY <1>3, <1>4, <1>5 DEF IInv, NothingLeft, Treated, AbsencesSeen, MissingSeen,
       EligibleJustified, Justified, OnlyEligible, WithinLimit, LimitExceeded

\* The first listing makes eligible what has a reason and keeps to the limit.
LEMMA FirstListingStep ==
    ASSUME IInv, FirstListing
    PROVE  IInv'
<1> DEFINE s == run.at
<1>1. s \in Sources /\ s \notin run.skipped
    BY DEF FirstListing
<1>2. CASE TooMany(s)
    BY <1>2, EndStep DEF FirstListing, EndJob, IInv, TypeOK
<1>3. CASE ~TooMany(s)
    <2>1. /\ run' = [run EXCEPT !.first = Shown(TopPages(s)), !.eligible = Eligible(s),
                                !.missing = run.missing \cup MissingTop(s)]
          /\ pc = "first" /\ pc' = "second"
          /\ UNCHANGED <<saved, board, marked, other, changes, faults, edits>>
        BY <1>3 DEF FirstListing
    <2>2. TopPages(s) \in SUBSET Notices /\ MissingTop(s) \subseteq TopPages(s)
        BY DEF TopPages, MissingTop, InSource
    <2>3. Eligible(s) \subseteq MissingTop(s) /\ \A n \in Eligible(s) : Justified(n)
        BY <1>1, EligibleIsJustified
    <2>4. Shown(TopPages(s)) \in SUBSET Listing
        BY <2>2 DEF Shown, Listing, IInv, TypeOK
    <2>5. run' \in Run /\ run'.at = s
        BY <2>1, <2>2, <2>3, <2>4 DEF IInv, TypeOK, Run
    <2>6. TypeOK'
        BY <2>1, <2>5 DEF IInv, TypeOK
    <2>7. /\ run'.first = Shown(TopPages(s)) /\ run'.eligible = Eligible(s)
          /\ run'.missing = run.missing \cup MissingTop(s)
          /\ run'.top = run.top /\ run'.listed = run.listed /\ run'.rerun = run.rerun
          /\ run'.skipped = run.skipped /\ run'.page = run.page /\ run'.todo = run.todo
          /\ run'.taken = run.taken
        BY <2>1 DEF IInv, TypeOK, Run
    <2>8. MissingSeen'
        <3>1. \A n \in MissingTop(s) : n \notin run.top /\ SourceOf[n] = s
            BY DEF MissingTop, TopPages, InSource
        <3> QED
            BY <1>1, <2>7, <3>1 DEF IInv, MissingSeen
    <2>9. EligibleJustified'
        BY <2>1, <2>3, <2>7 DEF EligibleJustified, Justified
    <2>10. WithinLimit'
        <3>1. ~LimitExceeded(Cardinality(TopPages(s)), Cardinality(Eligible(s)))
            BY <1>3 DEF TooMany
        <3>2. Cardinality(Shown(TopPages(s))) = Cardinality(TopPages(s))
            BY <2>2, ShownSize
        <3> QED
            BY <2>7, <3>1, <3>2 DEF WithinLimit, LimitExceeded
    <2>11. OnlyEligible'
        <3>1. run.todo = {} /\ run.page = {} /\ run.taken = {}
            BY <2>1 DEF IInv, Treated
        <3> QED
            BY <2>7, <3>1 DEF OnlyEligible
    <2> QED
        BY <1>1, <2>1, <2>5, <2>6, <2>7, <2>8, <2>9, <2>10, <2>11
        DEF IInv, NothingLeft, Treated, AbsencesSeen
<1> QED
    BY <1>2, <1>3

\* Steps that leave the listing, the reasons and the absences alone.
LEMMA SameSource ==
    ASSUME IInv, run' \in Run, pc' \in {"third", "retrieve", "unmark", "verify"},
           run.at \in Sources, run'.at = run.at,
           run'.todo \cup run'.page \cup run'.taken \subseteq run.eligible,
           pc' \in {"third", "retrieve"} => run'.page = {},
           run'.eligible = run.eligible, run'.first = run.first, run'.missing = run.missing,
           run'.top = run.top, run'.listed = run.listed, run'.rerun = run.rerun,
           run'.skipped = run.skipped,
           marked' \in SUBSET Notices,
           UNCHANGED <<board, other, saved, changes, faults, edits>>
    PROVE  IInv'
<1>1. TypeOK'
    BY DEF IInv, TypeOK
<1>2. Treated' /\ NothingLeft'
    BY DEF Treated, NothingLeft
<1> QED
    BY <1>1, <1>2 DEF IInv, AbsencesSeen, MissingSeen, EligibleJustified, Justified,
       OnlyEligible, WithinLimit, LimitExceeded

LEMMA SecondListingStep ==
    ASSUME IInv, SecondListing
    PROVE  IInv'
<1>1. CASE pc' = "third"
    <2>1. run' = run /\ saved' = saved /\ pc = "second"
        BY <1>1 DEF SecondListing, EndJob
    <2>2. run' \in Run /\ run.at \in Sources /\ run.page = {}
        BY <2>1 DEF IInv, TypeOK, Treated
    <2> QED
        BY <1>1, <2>1, <2>2, SameSource DEF SecondListing, IInv, TypeOK, OnlyEligible
<1>2. CASE pc' # "third"
    BY <1>2, EndStep DEF SecondListing, EndJob, IInv, TypeOK
<1> QED
    BY <1>1, <1>2

LEMMA ThirdListingStep ==
    ASSUME IInv, ThirdListing
    PROVE  IInv'
<1>1. CASE Expected
    <2>1. run' = [run EXCEPT !.todo = run.eligible] /\ pc = "third" /\ pc' = "retrieve"
          /\ UNCHANGED <<saved, board, marked, other, changes, faults, edits>>
        BY <1>1 DEF ThirdListing
    <2>2. run' \in Run /\ run.at \in Sources /\ run.page = {}
        BY <2>1 DEF IInv, TypeOK, Run, Treated
    <2>3. /\ run'.todo = run.eligible /\ run'.page = run.page /\ run'.taken = run.taken
          /\ run'.at = run.at /\ run'.eligible = run.eligible /\ run'.first = run.first
          /\ run'.missing = run.missing /\ run'.top = run.top /\ run'.listed = run.listed
          /\ run'.rerun = run.rerun /\ run'.skipped = run.skipped
        BY <2>1 DEF IInv, TypeOK, Run
    <2> QED
        BY <2>1, <2>2, <2>3, SameSource DEF IInv, TypeOK, OnlyEligible
<1>2. CASE ~Expected
    BY <1>2, EndStep DEF ThirdListing, EndJob, IInv, TypeOK
<1> QED
    BY <1>1, <1>2

LEMMA RetrievePageStep ==
    ASSUME IInv, NEW n \in Notices, RetrievePage(n)
    PROVE  IInv'
<1>1. CASE n \in marked /\ <<n, other[n]>> \in run.first
    <2>1. run' = [run EXCEPT !.todo = run.todo \ {n}, !.page = {n}]
          /\ pc = "retrieve" /\ pc' = "unmark" /\ n \in run.todo
          /\ UNCHANGED <<saved, board, marked, other, changes, faults, edits>>
        BY <1>1 DEF RetrievePage
    <2>2. run' \in Run /\ run.at \in Sources
        BY <2>1 DEF IInv, TypeOK, Run, Treated
    <2>3. /\ run'.todo = run.todo \ {n} /\ run'.page = {n} /\ run'.taken = run.taken
          /\ run'.at = run.at /\ run'.eligible = run.eligible /\ run'.first = run.first
          /\ run'.missing = run.missing /\ run'.top = run.top /\ run'.listed = run.listed
          /\ run'.rerun = run.rerun /\ run'.skipped = run.skipped
        BY <2>1 DEF IInv, TypeOK, Run
    <2> QED
        BY <2>1, <2>2, <2>3, SameSource DEF IInv, TypeOK, OnlyEligible
<1>2. CASE ~(n \in marked /\ <<n, other[n]>> \in run.first)
    BY <1>2, EndStep DEF RetrievePage, EndJob, IInv, TypeOK
<1> QED
    BY <1>1, <1>2

LEMMA UnmarkStep ==
    ASSUME IInv, Unmark
    PROVE  IInv'
<1>1. run' = [run EXCEPT !.taken = run.taken \cup run.page]
      /\ pc = "unmark" /\ pc' = "verify" /\ marked' = marked \ run.page
      /\ UNCHANGED <<saved, board, other, changes, faults, edits>>
    BY DEF Unmark
<1>2. run' \in Run /\ run.at \in Sources /\ marked' \in SUBSET Notices
    BY <1>1 DEF IInv, TypeOK, Run, Treated
<1>3. /\ run'.todo = run.todo /\ run'.page = run.page
      /\ run'.taken = run.taken \cup run.page
      /\ run'.at = run.at /\ run'.eligible = run.eligible /\ run'.first = run.first
      /\ run'.missing = run.missing /\ run'.top = run.top /\ run'.listed = run.listed
      /\ run'.rerun = run.rerun /\ run'.skipped = run.skipped
    BY <1>1 DEF IInv, TypeOK, Run
<1> QED
    BY <1>1, <1>2, <1>3, SameSource DEF IInv, OnlyEligible

LEMMA VerifyUnmarkedStep ==
    ASSUME IInv, VerifyUnmarked
    PROVE  IInv'
<1>1. CASE run.page \cap marked = {}
    <2>1. run' = [run EXCEPT !.page = {}] /\ pc = "verify" /\ pc' = "retrieve"
          /\ UNCHANGED <<saved, board, marked, other, changes, faults, edits>>
        BY <1>1 DEF VerifyUnmarked
    <2>2. run' \in Run /\ run.at \in Sources
        BY <2>1 DEF IInv, TypeOK, Run, Treated
    <2>3. /\ run'.todo = run.todo /\ run'.page = {} /\ run'.taken = run.taken
          /\ run'.at = run.at /\ run'.eligible = run.eligible /\ run'.first = run.first
          /\ run'.missing = run.missing /\ run'.top = run.top /\ run'.listed = run.listed
          /\ run'.rerun = run.rerun /\ run'.skipped = run.skipped
        BY <2>1 DEF IInv, TypeOK, Run
    <2> QED
        BY <2>1, <2>2, <2>3, SameSource DEF IInv, TypeOK, OnlyEligible
<1>2. CASE run.page \cap marked # {}
    BY <1>2, EndStep DEF VerifyUnmarked, EndJob, IInv, TypeOK
<1> QED
    BY <1>1, <1>2

LEMMA NextSourceStep ==
    ASSUME IInv, NextSource
    PROVE  IInv'
<1>1. run' = [run EXCEPT !.at = run.at + 1, !.first = {}, !.eligible = {}, !.taken = {}]
      /\ pc = "retrieve" /\ pc' = "first" /\ run.todo = {}
      /\ UNCHANGED <<saved, board, marked, other, changes, faults, edits>>
    BY DEF NextSource
<1>2. run.at \in Sources /\ run.page = {}
    BY <1>1 DEF IInv, Treated
<1>3. run.at + 1 \in 1..(N + 1) /\ run.at + 1 \in Nat
    BY <1>2, SourcesAssumption DEF Sources
<1>4. /\ run' \in Run /\ run'.at \in 1..(N + 1)
    BY <1>1, <1>3 DEF IInv, TypeOK, Run, Listing
<1>5. /\ run'.todo = {} /\ run'.page = {} /\ run'.taken = {} /\ run'.eligible = {}
      /\ run'.first = {} /\ run'.missing = run.missing /\ run'.top = run.top
      /\ run'.skipped = run.skipped
    BY <1>1, <1>2 DEF IInv, TypeOK, Run
<1>6. TypeOK'
    BY <1>1, <1>4 DEF IInv, TypeOK
<1>7. WithinLimit'
    BY <1>5, NothingIsFine DEF WithinLimit, LimitExceeded
<1> QED
    BY <1>1, <1>5, <1>6, <1>7 DEF IInv, NothingLeft, Treated, AbsencesSeen, MissingSeen,
       EligibleJustified, OnlyEligible

LEMMA BreakOffStep ==
    ASSUME IInv, FinishRun \/ Fail \/ Kill
    PROVE  IInv'
<1>1. marked' \in SUBSET Notices /\ faults' \in 0..MaxFaults
    BY BoundsAssumption DEF FinishRun, Fail, Kill, Spend, IInv, TypeOK
<1>2. run' = NoRun /\ pc' = "idle" /\ saved' \in {saved, Failed, Completed}
      /\ UNCHANGED <<board, other, changes, edits>>
    BY DEF FinishRun, Fail, Kill, EndJob
<1> QED
    BY <1>1, <1>2, EndStep

LEMMA NextFine ==
    ASSUME IInv, [Next]_vars
    PROVE  IInv'
<1>1. CASE UNCHANGED vars
    BY <1>1 DEF vars, IInv, TypeOK, NothingLeft, Treated, AbsencesSeen, MissingSeen,
       EligibleJustified, Justified, OnlyEligible, WithinLimit, LimitExceeded
<1>2. CASE RunStep
    BY <1>2, StartRunStep, ApplyEntriesStep, SkipSourceStep, FirstListingStep,
       SecondListingStep, ThirdListingStep, RetrievePageStep, UnmarkStep,
       VerifyUnmarkedStep, NextSourceStep, BreakOffStep DEF RunStep
<1>3. CASE Environment
    BY <1>3, OutsideStep, OtherRunStep, BreakOffStep DEF Environment
<1> QED
    BY <1>1, <1>2, <1>3 DEF Next

LEMMA Invariance == Spec => []IInv
BY InitFine, NextFine, PTL DEF Spec

-----------------------------------------------------------------------------
\* The theorems

\* The locals of the run, the saved absences and the pages keep their types.
THEOREM TypeCorrect == Spec => []TypeOK
<1>1. IInv => TypeOK
    BY DEF IInv
<1> QED
    BY <1>1, Invariance, PTL

\* However many pages change between the listings, no source loses more marks in
\* a run than sync.py's limit allows for the pages it listed first.
THEOREM NeverTooMany == Spec => []LimitRespected
<1>1. IInv => LimitRespected
    <2> SUFFICES ASSUME IInv PROVE LimitRespected
        OBVIOUS
    <2>1. run.eligible \in SUBSET Notices /\ run.taken \in SUBSET run.eligible
        BY DEF IInv, TypeOK, Run, OnlyEligible
    <2>2. /\ Cardinality(run.eligible) \in Nat /\ Cardinality(run.taken) \in Nat
          /\ Cardinality(run.taken) <= Cardinality(run.eligible)
        BY <2>1, PartSize
    <2>3. Cardinality(run.first) \in Nat
        <3>1. IsFiniteSet(Listing)
            <4>1. IsFiniteSet({TRUE} \cup {FALSE})
                BY FS_EmptySet, FS_Singleton, FS_Union
            <4>2. IsFiniteSet(BOOLEAN)
                <5>1. BOOLEAN = {TRUE} \cup {FALSE}
                    OBVIOUS
                <5> QED
                    BY <4>1, <5>1
            <4> QED
                BY <4>2, NoticesAssumption, FS_Product DEF Listing
        <3>2. run.first \in SUBSET Listing
            BY DEF IInv, TypeOK, Run
        <3> QED
            BY <3>1, <3>2, FS_Subset, FS_CardinalityType
    <2> QED
        BY <2>2, <2>3, FewerAreFine DEF IInv, WithinLimit, LimitRespected
<1> QED
    BY <1>1, Invariance, PTL

\* The program takes a mark only from a page whose notice was listed without it
\* or was absent in the latest recorded run too, another logical run.
THEOREM AbsencesAreConfirmed == Spec => AbsentTwiceOrListed
<1> DEFINE Step == \A n \in Notices :
                      (n \in marked \ marked' /\ UNCHANGED edits) =>
                         /\ n \notin run.top
                         /\ \/ n \in run.listed
                            \/ n \in saved.witness /\ ~run.rerun
<1>1. ASSUME IInv, [Next]_vars PROVE [Step]_vars
    <2> SUFFICES ASSUME Next, NEW n \in Notices, n \in marked, n \notin marked',
                        UNCHANGED edits
                 PROVE  Justified(n)
        BY <1>1 DEF Justified, vars
    <2>1. n \in run.page
        <3>1. CASE RunStep
            BY <3>1 DEF RunStep, StartRun, ApplyEntries, SkipSource, FirstListing,
               SecondListing, ThirdListing, RetrievePage, Unmark, VerifyUnmarked,
               NextSource, FinishRun
        <3>2. CASE Environment
            <4>1. ~\E m \in Notices : PersonEdits(m)
                BY <1>1 DEF PersonEdits, IInv, TypeOK
            <4> QED
                BY <3>2, <4>1 DEF Environment, ChangeBoard, Expire, Fail, Kill, OtherRun
        <3> QED
            BY <3>1, <3>2 DEF Next
    <2> QED
        BY <1>1, <2>1 DEF IInv, OnlyEligible, EligibleJustified
<1> QED
    BY <1>1, Invariance, PTL DEF Spec, AbsentTwiceOrListed

=============================================================================
