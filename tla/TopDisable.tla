------------------------------ MODULE TopDisable ------------------------------
(***************************************************************************)
(* How the TOP mark of a page is taken away (the last loop of              *)
(* sync_engine._apply_report, sync.disable_missing_top and the absences    *)
(* kept by run_state.update_state_from_report).                            *)
(*                                                                         *)
(* A page loses its mark when its notice is listed without it, or is not   *)
(* among the TOP notices in two consecutive runs.  The sources are treated *)
(* one after the other; the marked pages of a source are listed three      *)
(* times, then each is read once more before it is changed, and a limit    *)
(* stops the run before it changes too many.                               *)
(*                                                                         *)
(* Every notice here has a managed page; `listed` stands for a place in    *)
(* the list without the mark, `gone` for no place the crawl reaches.       *)
(***************************************************************************)
EXTENDS Naturals, FiniteSets

CONSTANTS
    Notices,
    N,           \* number of sources, in the order of the report
    SourceOf,    \* the source of a notice
    MaxCount,    \* TOP_DISABLE_MAX_COUNT
    MaxPercent,  \* TOP_DISABLE_MAX_RATIO
    RatioFrom,   \* marked pages a source needs for the ratio to apply
    MaxChanges,  \* bound on the changes of the boards
    MaxFaults,   \* bound on failures, reruns, expiries and other runs
    MaxEdits     \* bound on what people change on the pages

Sources == 1..N

ASSUME SourcesAssumption == N \in Nat /\ SourceOf \in [Notices -> Sources]
ASSUME NoticesAssumption == IsFiniteSet(Notices)
ASSUME LimitsAssumption == MaxCount \in Nat /\ MaxPercent \in Nat /\ RatioFrom \in Nat
ASSUME BoundsAssumption == MaxChanges \in Nat /\ MaxFaults \in Nat /\ MaxEdits \in Nat

VARIABLES
    board,    \* where each board has its notices
    marked,   \* pages whose TOP property is set
    other,    \* the other fingerprinted properties of each page
    saved,    \* the run state kept between jobs
    run,      \* the locals of the running process
    pc,
    changes, faults, edits

vars == <<board, marked, other, saved, run, pc, changes, faults, edits>>

-----------------------------------------------------------------------------
\* Types

Places == {"top", "listed", "gone"}

(***************************************************************************)
(* absent: the notices of top_absence_counts, whose counts are positive.   *)
(* fresh: the sources whose absences carry the identity of the latest      *)
(* recorded run.  witness is a ghost: the notices that run itself did not  *)
(* find among the TOP notices.                                             *)
(***************************************************************************)
State == [absent : SUBSET Notices, fresh : SUBSET Sources, witness : SUBSET Notices]

EmptyState == [absent |-> {}, fresh |-> {}, witness |-> {}]

\* What a listing shows of a page.
Listing == Notices \X BOOLEAN

Run == [rerun : BOOLEAN,           \* same logical run as the latest recorded one
        skipped : SUBSET Sources,  \* unsafe, quarantined or unverified TOP snapshot
        top : SUBSET Notices,      \* the TOP notices the run read
        listed : SUBSET Notices,   \* notices the API listed without the mark
        at : Nat,                  \* the source under treatment
        first : SUBSET Listing,    \* its marked pages as first listed
        eligible : SUBSET Notices, \* pages that may lose their mark
        todo : SUBSET Notices,     \* those not yet treated
        page : SUBSET Notices,     \* the page under treatment, once it was read
        missing : SUBSET Notices,  \* absences to record
        taken : SUBSET Notices]    \* ghost: pages of this source unmarked so far

NoRun == [rerun |-> FALSE, skipped |-> {}, top |-> {}, listed |-> {}, at |-> 1,
          first |-> {}, eligible |-> {}, todo |-> {}, page |-> {}, missing |-> {},
          taken |-> {}]

TypeOK ==
    /\ board \in [Notices -> Places]
    /\ marked \in SUBSET Notices
    /\ other \in [Notices -> BOOLEAN]
    /\ saved \in State
    /\ run \in Run
    /\ run.at \in 1..(N + 1)
    /\ pc \in {"idle", "apply", "first", "second", "third", "retrieve", "unmark", "verify"}
    /\ changes \in 0..MaxChanges
    /\ faults \in 0..MaxFaults
    /\ edits \in 0..MaxEdits

-----------------------------------------------------------------------------
\* Helpers

InSource(s) == {n \in Notices : SourceOf[n] = s}

LimitExceeded(total, count) ==
    \/ count > MaxCount
    \/ total >= RatioFrom /\ 100 * count > MaxPercent * total

\* The marked pages of a source, and what a listing shows of pages.
TopPages(s) == marked \cap InSource(s)
Shown(pages) == {<<n, other[n]>> : n \in pages}

\* The marked pages whose notice the run did not read as TOP.
MissingTop(s) == TopPages(s) \ run.top

\* Mutant of Confirmed: any recorded absence counts.
EverAbsent(s) == IF run.rerun THEN {} ELSE MissingTop(s) \cap saved.absent

\* Absent for the latest recorded run too, another logical run.
Confirmed(s) ==
    IF s \in saved.fresh /\ ~run.rerun THEN MissingTop(s) \cap saved.absent ELSE {}

\* Listed without the mark; held back when that makes too many.
Immediate(s) ==
    LET unmarked == (MissingTop(s) \cap run.listed) \ Confirmed(s)
    IN  IF LimitExceeded(Cardinality(TopPages(s)), Cardinality(Confirmed(s) \cup unmarked))
        THEN {} ELSE unmarked

Eligible(s) == Confirmed(s) \cup Immediate(s)

\* Mutant of TooMany: only what is taken away at once is counted.
TooManyImmediate(s) == LimitExceeded(Cardinality(TopPages(s)), Cardinality(Immediate(s)))

TooMany(s) == LimitExceeded(Cardinality(TopPages(s)), Cardinality(Eligible(s)))

Spend(cost) == faults + cost <= MaxFaults /\ faults' = faults + cost

EndJob(s) ==
    /\ saved' = s
    /\ run' = NoRun
    /\ pc' = "idle"

\* What the run itself did not find among the TOP notices.
SawMissing == {n \in Notices : SourceOf[n] \notin run.skipped /\ n \notin run.top}

\* A failed run is recorded without its absences.
Failed == [saved EXCEPT !.fresh = {}, !.witness = SawMissing]

\* Mutant of Completed: the absences carry the identity of the run before.
CompletedUnderOldIdentity ==
    [absent |-> {n \in Notices : IF SourceOf[n] \in run.skipped
                                 THEN n \in saved.absent ELSE n \in run.missing},
     fresh |-> {},
     witness |-> SawMissing]

\* What update_state_from_report makes of the run.
Completed ==
    [absent |-> {n \in Notices : IF SourceOf[n] \in run.skipped
                                 THEN n \in saved.absent ELSE n \in run.missing},
     fresh |-> Sources \ run.skipped,
     witness |-> SawMissing]

-----------------------------------------------------------------------------
\* The boards, the clock and the people

ChangeBoard(n) ==
    /\ pc = "idle"
    /\ changes < MaxChanges
    /\ changes' = changes + 1
    /\ \E p \in Places \ {board[n]} : board' = [board EXCEPT ![n] = p]
    /\ UNCHANGED <<marked, other, saved, run, pc, faults, edits>>

\* The absences of a source grow older than the confirmation window.
Expire(s) ==
    /\ s \in saved.fresh
    /\ Spend(1)
    /\ saved' = [saved EXCEPT !.fresh = @ \ {s}]
    /\ UNCHANGED <<board, marked, other, run, pc, changes, edits>>

\* Somebody sets or takes away the mark, or changes another property.
PersonEdits(n) ==
    /\ edits < MaxEdits
    /\ edits' = edits + 1
    /\ \/ /\ marked' = IF n \in marked THEN marked \ {n} ELSE marked \cup {n}
          /\ UNCHANGED other
       \/ /\ other' = [other EXCEPT ![n] = ~@]
          /\ UNCHANGED marked
    /\ UNCHANGED <<board, saved, run, pc, changes, faults>>

-----------------------------------------------------------------------------
\* A run

\* The run reads the boards.  What the HTML pages list without the mark does
\* not count.
StartRun(rerun, skipped, api) ==
    /\ pc = "idle"
    /\ Spend((IF rerun THEN 1 ELSE 0) + (IF skipped = {} THEN 0 ELSE 1))
    /\ run' = [NoRun EXCEPT !.rerun = rerun, !.skipped = skipped,
                            !.top = {n \in Notices : board[n] = "top"},
                            !.listed = {n \in Notices : api /\ board[n] = "listed"}]
    /\ pc' = "apply"
    /\ UNCHANGED <<board, marked, other, saved, changes, edits>>

\* The notices read in detail are applied: this sets marks, and takes none away.
ApplyEntries(detailed) ==
    /\ pc = "apply"
    /\ detailed \subseteq {n \in run.top : SourceOf[n] \notin run.skipped}
    /\ marked' = marked \cup detailed
    /\ pc' = "first"
    /\ UNCHANGED <<board, other, saved, run, changes, faults, edits>>

\* Mutant of SkipSource: any source may be skipped, the end too.
SkipAnything ==
    /\ pc = "first"
    /\ run' = [run EXCEPT !.at = @ + 1]
    /\ UNCHANGED <<board, marked, other, saved, pc, changes, faults, edits>>

SkipSource ==
    /\ pc = "first"
    /\ run.at \in run.skipped
    /\ run' = [run EXCEPT !.at = @ + 1]
    /\ UNCHANGED <<board, marked, other, saved, pc, changes, faults, edits>>

FirstListing ==
    /\ pc = "first"
    /\ run.at \in Sources \ run.skipped
    /\ IF TooMany(run.at)
       THEN EndJob(Failed)
       ELSE /\ run' = [run EXCEPT !.first = Shown(TopPages(run.at)),
                                  !.eligible = Eligible(run.at),
                                  !.missing = @ \cup MissingTop(run.at)]
            /\ pc' = "second"
            /\ UNCHANGED saved
    /\ UNCHANGED <<board, marked, other, changes, faults, edits>>

\* The marked pages are listed again and must be the same.
SecondListing ==
    /\ pc = "second"
    /\ IF Shown(TopPages(run.at)) # run.first
       THEN EndJob(Failed)
       ELSE pc' = "third" /\ UNCHANGED <<saved, run>>
    /\ UNCHANGED <<board, marked, other, changes, faults, edits>>

\* As many marked pages as before, and the eligible ones unchanged.
Expected ==
    /\ Cardinality(TopPages(run.at)) = Cardinality(run.first)
    /\ Shown(MissingTop(run.at) \cap run.eligible) = {f \in run.first : f[1] \in run.eligible}

ThirdListing ==
    /\ pc = "third"
    /\ IF Expected
       THEN /\ run' = [run EXCEPT !.todo = run.eligible]
            /\ pc' = "retrieve"
            /\ UNCHANGED saved
       ELSE EndJob(Failed)
    /\ UNCHANGED <<board, marked, other, changes, faults, edits>>

\* The page is read once more; it must be as it was listed.
RetrievePage(n) ==
    /\ pc = "retrieve"
    /\ n \in run.todo
    /\ IF n \in marked /\ <<n, other[n]>> \in run.first
       THEN /\ run' = [run EXCEPT !.todo = @ \ {n}, !.page = {n}]
            /\ pc' = "unmark"
            /\ UNCHANGED saved
       ELSE EndJob(Failed)
    /\ UNCHANGED <<board, marked, other, changes, faults, edits>>

Unmark ==
    /\ pc = "unmark"
    /\ marked' = marked \ run.page
    /\ run' = [run EXCEPT !.taken = @ \cup run.page]
    /\ pc' = "verify"
    /\ UNCHANGED <<board, other, saved, changes, faults, edits>>

\* The page is read again; somebody may have set the mark meanwhile.
VerifyUnmarked ==
    /\ pc = "verify"
    /\ IF run.page \cap marked = {}
       THEN /\ run' = [run EXCEPT !.page = {}]
            /\ pc' = "retrieve"
            /\ UNCHANGED saved
       ELSE EndJob(Failed)
    /\ UNCHANGED <<board, marked, other, changes, faults, edits>>

NextSource ==
    /\ pc = "retrieve"
    /\ run.todo = {}
    /\ run' = [run EXCEPT !.at = @ + 1, !.first = {}, !.eligible = {}, !.taken = {}]
    /\ pc' = "first"
    /\ UNCHANGED <<board, marked, other, saved, changes, faults, edits>>

FinishRun ==
    /\ pc = "first"
    /\ run.at = N + 1
    /\ EndJob(Completed)
    /\ UNCHANGED <<board, marked, other, changes, faults, edits>>

\* An exception anywhere; a request that failed may have landed.
Fail ==
    /\ pc # "idle"
    /\ Spend(1)
    /\ \/ UNCHANGED marked
       \/ pc = "unmark" /\ marked' = marked \ run.page
    /\ EndJob(Failed)
    /\ UNCHANGED <<board, other, changes, edits>>

\* The process dies, or its runner is lost before the state is saved.
Kill ==
    /\ pc # "idle"
    /\ Spend(1)
    /\ \/ UNCHANGED marked
       \/ pc = "unmark" /\ marked' = marked \ run.page
    /\ EndJob(saved)
    /\ UNCHANGED <<board, other, changes, edits>>

\* A schema migration, or a run that failed before it read the boards.
OtherRun ==
    /\ pc = "idle"
    /\ Spend(1)
    /\ saved' = [saved EXCEPT !.fresh = {}, !.witness = {}]
    /\ UNCHANGED <<board, marked, other, run, pc, changes, edits>>

-----------------------------------------------------------------------------
Init ==
    /\ board \in [Notices -> Places]
    /\ marked = Notices
    /\ other = [n \in Notices |-> FALSE]
    /\ saved = EmptyState
    /\ run = NoRun
    /\ pc = "idle"
    /\ changes = 0 /\ faults = 0 /\ edits = 0

RunStep ==
    \/ \E rerun \in BOOLEAN, skipped \in SUBSET Sources, api \in BOOLEAN :
          StartRun(rerun, skipped, api)
    \/ \E detailed \in SUBSET Notices : ApplyEntries(detailed)
    \/ SkipSource \/ FirstListing \/ SecondListing \/ ThirdListing
    \/ \E n \in Notices : RetrievePage(n)
    \/ Unmark \/ VerifyUnmarked \/ NextSource \/ FinishRun

Environment ==
    \/ \E n \in Notices : ChangeBoard(n) \/ PersonEdits(n)
    \/ \E s \in Sources : Expire(s)
    \/ Fail \/ Kill \/ OtherRun

Next == RunStep \/ Environment

Spec == Init /\ [][Next]_vars

\* Runs are scheduled for ever and a started run goes on.
FairSpec == Spec /\ WF_vars(RunStep)

-----------------------------------------------------------------------------
\* Properties

\* README.md:10: the program takes a mark away only if this run did not find
\* the notice among the TOP notices and either found it listed without the
\* mark, or the latest recorded run, another logical run, did not find it among
\* the TOP notices either: no failed or lost run, rerun or run that skipped the
\* source stands in for that second sighting.
AbsentTwiceOrListed ==
    [][\A n \in Notices :
          (n \in marked \ marked' /\ UNCHANGED edits) =>
             /\ n \notin run.top
             /\ \/ n \in run.listed
                \/ n \in saved.witness /\ ~run.rerun]_vars

\* However often pages change between the listings: a run never takes more
\* marks from a source than the limit allows for the pages first listed.
LimitRespected == ~LimitExceeded(Cardinality(run.first), Cardinality(run.taken))

\* The marks of the source that the limit keeps the program from taking.
Overloaded(s) ==
    LET stale == {n \in TopPages(s) : board[n] # "top"}
    IN  LimitExceeded(Cardinality(TopPages(s)), Cardinality(stale))

\* Once boards, people and failures rest, every mark the board no longer shows
\* is taken away, except in a source over the limit and those after it: such
\* a source fails the run before the others record or confirm an absence.
MarksConverge ==
    <>[](\A n \in marked :
            board[n] = "top" \/ \E s \in 1..SourceOf[n] : Overloaded(s))

=============================================================================
