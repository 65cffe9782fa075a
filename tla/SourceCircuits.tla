----------------------------- MODULE SourceCircuits -----------------------------
(***************************************************************************)
(* Which sources a run may ask at all (crawler.crawl_sources), and what    *)
(* run_state.update_state_from_report remembers of the refusals and        *)
(* failures for the next runs.  All sources are on one host.               *)
(*                                                                         *)
(* A source that refuses access is left alone for a while; a refusal that  *)
(* concerns the host (too many requests, an access challenge) stops the    *)
(* requests to every source.  It is known by its error alone, and the      *)
(* error is replaced where a reading confirms an earlier one: such a       *)
(* refusal only counts against its source.  A fallback that keeps failing  *)
(* is left alone too.  SourceCrawl says what one method of a source reads. *)
(***************************************************************************)
EXTENDS Naturals, Sequences, FiniteSets, SequencesExt

CONSTANTS
    Sources,
    Threshold,   \* FALLBACK_FAILURE_THRESHOLD
    Cooldown,    \* runs during which a circuit stays open
    MaxFaults    \* bound on refusals, failures, hasty and lost runs

ASSUME SourcesAssumption == IsFiniteSet(Sources)
ASSUME LimitsAssumption == Threshold \in Nat \ {0} /\ Cooldown \in Nat \ {0}
ASSUME BoundsAssumption == MaxFaults \in Nat

VARIABLES
    saved,     \* the circuits of each source, kept between runs
    run,       \* the results of the run under way
    pc,
    apiWorks,  \* whether the API answers; never changes
    banned,    \* ghost: runs for which the last refusal of the host holds
    read,      \* ghost: the sources the latest completed run has read
    faults

vars == <<saved, run, pc, apiWorks, banned, read, faults>>

-----------------------------------------------------------------------------
\* Types

\* fallbackLeft and sourceLeft: how long the two circuits stay open.
Circuits == [failures : 0..Threshold, fallbackLeft : 0..Cooldown,
             sourceLeft : 0..Cooldown, hostWide : BOOLEAN]

Closed == [failures |-> 0, fallbackLeft |-> 0, sourceLeft |-> 0, hostWide |-> FALSE]

\* What one method meets: a result that may be written, a refusal of the host
\* or of the source, or something else, a challenge that reads like an ordinary
\* page included.
Answers == {"ok", "hostWide", "local", "other"}

Methods == {"api", "circuit_open", "api_fallback_circuit_open", "fallback"}

NoResult == [method |-> "none", answer |-> "none"]

Results == [method : Methods, answer : Answers] \cup {NoResult}

Run == [todo : Seq(Sources),
        blocked : BOOLEAN,        \* blocked_hosts has the host
        browserFailed : BOOLEAN,  \* the browser was tried for the source
        results : [Sources -> Results],
        refused : BOOLEAN]        \* ghost: the host refused, in so many words

NoRun == [todo |-> <<>>, blocked |-> FALSE, browserFailed |-> FALSE,
          results |-> [s \in Sources |-> NoResult], refused |-> FALSE]

TypeOK ==
    /\ saved \in [Sources -> Circuits]
    /\ run \in Run
    /\ pc \in {"idle", "next", "api", "browser", "http"}
    /\ apiWorks \in BOOLEAN
    /\ banned \in 0..Cooldown
    /\ read \in SUBSET Sources
    /\ faults \in 0..MaxFaults

-----------------------------------------------------------------------------
\* What is remembered

OneLess(n) == IF n = 0 THEN 0 ELSE n - 1

Wait(s) == [saved[s] EXCEPT !.fallbackLeft = OneLess(@), !.sourceLeft = OneLess(@)]

HostWide(result) == result.answer = "hostWide"

\* Mutant of AfterFailure: a result of an open circuit opens it again, for
\* as long as is left and the whole cooldown.
AfterAnyFailure(circuits, result) ==
    LET failures == IF result.method = "fallback" /\ circuits.failures < Threshold
                    THEN circuits.failures + 1 ELSE circuits.failures
    IN  [circuits EXCEPT
           !.failures = failures,
           !.fallbackLeft = IF result.method = "fallback" /\ failures = Threshold
                            THEN Cooldown ELSE @,
           !.sourceLeft = IF result.answer \in {"hostWide", "local"}
                          THEN @ + Cooldown ELSE @,
           !.hostWide = HostWide(result)]

\* Failures are counted up to the threshold, which opens the circuit of the
\* fallback; a refusal opens that of the source, but for the results that an
\* open circuit gave.
AfterFailure(circuits, result) ==
    LET failures == IF result.method = "fallback" /\ circuits.failures < Threshold
                    THEN circuits.failures + 1 ELSE circuits.failures
        refusal == result.answer \in {"hostWide", "local"} /\ result.method # "circuit_open"
    IN  [circuits EXCEPT
           !.failures = failures,
           !.fallbackLeft = IF result.method = "fallback" /\ failures = Threshold
                            THEN Cooldown ELSE @,
           !.sourceLeft = IF refusal THEN Cooldown ELSE @,
           !.hostWide = IF refusal THEN HostWide(result) ELSE @]

\* update_state_from_report, for the circuits of one source.
Updated(s) ==
    IF run.results[s].answer = "ok" THEN Closed
    ELSE AfterFailure(saved[s], run.results[s])

-----------------------------------------------------------------------------
\* A run

\* Mutant of HostBlocked: what an earlier run remembered is not looked up.
NeverBlocked(circuits) == FALSE

\* The circuit of some source was opened for the whole host.
HostBlocked(circuits) ==
    \E s \in Sources : circuits[s].sourceLeft > 0 /\ circuits[s].hostWide

Orders == {order \in [1..Cardinality(Sources) -> Sources] : ToSet(order) = Sources}

\* Sources that are reconciled come first.  Runs follow each other by the
\* hour; a hasty one starts before the circuits have grown older.
StartRun(order, hasty) ==
    /\ pc = "idle"
    /\ IF hasty THEN faults < MaxFaults /\ faults' = faults + 1 ELSE UNCHANGED faults
    /\ saved' = IF hasty THEN saved ELSE [s \in Sources |-> Wait(s)]
    /\ banned' = IF hasty THEN banned ELSE OneLess(banned)
    /\ run' = [NoRun EXCEPT !.todo = order, !.blocked = HostBlocked(saved')]
    /\ pc' = "next"
    /\ UNCHANGED <<apiWorks, read>>

This == Head(run.todo)

\* The words of a refusal are lost when it is met by a confirming reading, and
\* when the error of a failed browser is joined to it.  Confirming readings are
\* the second one of the API's lists and, in the fallbacks, that of a list, a
\* detail or an empty page; those of the API's details keep the words.
WordsLost(confirming) == confirming \/ run.browserFailed

\* Its category stays, and says that the source refused.
Noticed(answer, confirming) ==
    IF answer = "hostWide" /\ WordsLost(confirming) THEN "local" ELSE answer

\* The result of this source; a refusal of the host blocks the others.
Deliver(method, answer, confirming) ==
    LET noticed == Noticed(answer, confirming) IN
    /\ run' = [run EXCEPT
                 !.todo = Tail(@),
                 !.browserFailed = FALSE,
                 !.blocked = @ \/ noticed = "hostWide",
                 !.results = [@ EXCEPT ![This] = [method |-> method, answer |-> noticed]],
                 !.refused = @ \/ (answer = "hostWide" /\ ~WordsLost(confirming))]
    /\ pc' = "next"

Rest == UNCHANGED <<saved, apiWorks, banned, read>>

\* No request is made while the circuit of the host or of the source is open.
SkipSource ==
    /\ pc = "next" /\ run.todo # <<>>
    /\ run.blocked \/ saved[This].sourceLeft > 0
    /\ run' = [run EXCEPT !.todo = Tail(@),
                 !.results = [@ EXCEPT ![This] = [method |-> "circuit_open", answer |-> "local"]]]
    /\ pc' = "next"
    /\ UNCHANGED faults
    /\ Rest

AskSource ==
    /\ pc = "next" /\ run.todo # <<>>
    /\ ~run.blocked /\ saved[This].sourceLeft = 0
    /\ pc' = "api"
    /\ UNCHANGED <<run, faults>>
    /\ Rest

\* A site in order answers; everything else is a fault.
Costs(answer, usual) ==
    IF answer = usual THEN UNCHANGED faults
    ELSE faults < MaxFaults /\ faults' = faults + 1

\* Mutant of FallbackOpen: the failures are looked at, not the cooldown.
FallbackGivenUp(s) == saved[s].failures = Threshold

FallbackOpen(s) == saved[s].fallbackLeft > 0

\* Without a browser the pages are read by plain HTTP at once.
AskApi(answer, confirming) ==
    /\ pc = "api"
    /\ Costs(answer, IF apiWorks THEN "ok" ELSE "other")
    /\ IF answer # "other" THEN Deliver("api", answer, confirming)
       ELSE IF FallbackOpen(This) THEN Deliver("api_fallback_circuit_open", answer, confirming)
       ELSE pc' \in {"browser", "http"} /\ UNCHANGED run
    /\ Rest

AskBrowser(answer, confirming) ==
    /\ pc = "browser"
    /\ Costs(answer, "ok")
    /\ IF answer # "other" THEN Deliver("fallback", answer, confirming)
       ELSE pc' = "http" /\ run' = [run EXCEPT !.browserFailed = TRUE]
    /\ Rest

AskHttp(answer, confirming) ==
    /\ pc = "http"
    /\ Costs(answer, "ok")
    /\ Deliver("fallback", answer, confirming)
    /\ Rest

EndRun ==
    /\ pc = "next" /\ run.todo = <<>>
    /\ saved' = [s \in Sources |-> Updated(s)]
    /\ banned' = IF run.refused THEN Cooldown ELSE banned
    /\ read' = {s \in Sources : run.results[s].answer = "ok"}
    /\ run' = NoRun
    /\ pc' = "idle"
    /\ UNCHANGED <<apiWorks, faults>>

\* The run fails after the crawl, or is lost: its results are not remembered.
LoseRun ==
    /\ pc # "idle"
    /\ faults < MaxFaults /\ faults' = faults + 1
    /\ run' = NoRun
    /\ pc' = "idle"
    /\ UNCHANGED <<saved, apiWorks, banned, read>>

-----------------------------------------------------------------------------
Init ==
    /\ saved = [s \in Sources |-> Closed]
    /\ run = NoRun
    /\ pc = "idle"
    /\ apiWorks \in BOOLEAN
    /\ banned = 0
    /\ read = {}
    /\ faults = 0

RunStep ==
    \/ \E order \in Orders, hasty \in BOOLEAN : StartRun(order, hasty)
    \/ SkipSource \/ AskSource
    \/ \E answer \in Answers, confirming \in BOOLEAN :
          \/ AskApi(answer, confirming)
          \/ AskBrowser(answer, confirming)
          \/ AskHttp(answer, confirming)
    \/ EndRun

Next == RunStep \/ LoseRun

Spec == Init /\ [][Next]_vars

\* Runs are scheduled for ever and a started run goes on.
FairSpec == Spec /\ WF_vars(RunStep)

-----------------------------------------------------------------------------
\* Properties

Asking == pc \in {"api", "browser", "http"}

\* crawler.py:3177: a refusal of the host stops the requests to all its sources,
\* for the rest of the run and, once the run is remembered, for the cooldown,
\* over hasty, lost and skipping runs.  The exceptions are the refusals whose
\* words are lost: those met by a confirming reading (2753, 4280, 4470, 4624)
\* and those that follow a failed browser (5491).  They stop their own source
\* only, and the next source of the host is asked in the same run.
RefusalRespected == Asking => banned = 0 /\ ~run.refused

\* Circuits close: once the site answers again, by the API or by its pages
\* alone, every run reads every source.
SourcesComeBack == <>[](read = Sources)

=============================================================================
