----------------------------- MODULE RefreshPolicy -----------------------------
(***************************************************************************)
(* Which notices of one source a run reads in full, over many runs: the    *)
(* plan of main.collect_report and refresh_policy, the choice each row of  *)
(* the list makes in the crawler, and what the run state remembers of the  *)
(* rows it saw (run_state.update_state_from_report and the checkpoints and *)
(* failure handling of main).                                              *)
(*                                                                         *)
(* A row stands for its fingerprint: title, date and TOP mark.  ApplyRun   *)
(* says what a run does with what it read; here a run completes, notes or  *)
(* leaves each notice as the environment chooses.                          *)
(***************************************************************************)
EXTENDS Naturals, FiniteSets

CONSTANTS
    Notices,       \* numbers: the order of the ids
    Rows,          \* the rows a notice can have on the list
    TopRows,       \* those that are marked TOP
    NoRow,         \* the notice is not on the list
    RefreshLimit,  \* DETAIL_REFRESH_LIMIT
    ChangeLimit,   \* DETAIL_CHANGE_REFRESH_LIMIT
    NewLimit,      \* DETAIL_COLLECTION_LIMIT
    Hourly,        \* RECENT_REFRESH_INTERVAL, in runs
    Daily,         \* MONTH_REFRESH_INTERVAL, in runs
    Horizon,       \* no notice waits longer, in runs
    MaxChanges,    \* bound on changes of the list
    MaxFaults      \* bound on crawls and runs that fail or put notices off

ASSUME NoticesAssumption == Notices \subseteq Nat /\ IsFiniteSet(Notices)
ASSUME RowsAssumption == TopRows \subseteq Rows /\ NoRow \notin Rows
ASSUME LimitsAssumption == {RefreshLimit, ChangeLimit, NewLimit} \subseteq Nat \ {0}
ASSUME TimesAssumption == {Hourly, Daily, Horizon} \subseteq Nat /\ Hourly <= Daily
ASSUME BoundsAssumption == MaxChanges \in Nat /\ MaxFaults \in Nat

VARIABLES
    row,      \* the list as it is now
    age,      \* of each notice: under 8 days, under 31 days, or more
    saved,    \* the state kept between runs
    run,      \* what the run under way has read
    pc,
    shown,    \* ghost: the row of the last version applied
    astray,   \* ghost: the state lost sight of the row the page shows
    changes, faults

vars == <<row, age, saved, run, pc, shown, astray, changes, faults>>

-----------------------------------------------------------------------------
\* Types

\* since: the time since the last reading of a notice in detailed, else since
\* it was first seen.
State == [observed : SUBSET Notices,
          pending : SUBSET Notices,             \* pending_notice_ids
          candidates : SUBSET Notices,          \* shrink_candidates
          recorded : [Notices -> Rows \cup {NoRow}],
          detailed : SUBSET Notices,
          since : [Notices -> 0..Horizon]]

EmptyState == [observed |-> {}, pending |-> {}, candidates |-> {},
               recorded |-> [n \in Notices |-> NoRow],
               detailed |-> {},
               since |-> [n \in Notices |-> 0]]

Run == [read : SUBSET Notices,                \* detailed_notice_ids
        row : [Notices -> Rows \cup {NoRow}], \* notice_observations
        known : SUBSET Notices]

NoRun == [read |-> {}, row |-> [n \in Notices |-> NoRow], known |-> {}]

TypeOK ==
    /\ row \in [Notices -> Rows \cup {NoRow}]
    /\ age \in [Notices -> {"recent", "month", "old"}]
    /\ saved \in State
    /\ run \in Run
    /\ pc \in {"idle", "apply"}
    /\ shown \in [Notices -> Rows \cup {NoRow}]
    /\ astray \in SUBSET Notices
    /\ changes \in 0..MaxChanges
    /\ faults \in 0..MaxFaults

-----------------------------------------------------------------------------
\* Helpers

AtMost(a, b) == IF a <= b THEN a ELSE b

Spend(cost) == faults + cost <= MaxFaults /\ faults' = faults + cost

\* The first k members of S in the order Before.
First(S, k, Before(_, _)) ==
    {n \in S : Cardinality({m \in S \ {n} : Before(m, n)}) < k}

Listed == {n \in Notices : row[n] # NoRow}

\* known_ids_for_source
Known == saved.observed \cup saved.pending

-----------------------------------------------------------------------------
\* The plan of a run

\* pending_notice_ids: what an earlier run left must be on the list.
Targeted == First(saved.pending, NewLimit, LAMBDA m, n : m < n)

PendingFirst(m, n) ==
    \/ m \in saved.pending /\ n \notin saved.pending
    \/ (m \in saved.pending <=> n \in saved.pending) /\ m < n

\* Mutant of Mandatory: a change seen once need not be read again.
PendingOnly == First(saved.pending, NewLimit, PendingFirst)

\* pending_shrink_ids
Mandatory == First(saved.pending \cup saved.candidates, NewLimit, PendingFirst)

\* A notice off the list makes the reading fail if it must be read
\* (targeted_refresh_missing); an empty list is never believed.
Unreadable == Listed = {} \/ ~(Targeted \subseteq Listed)

\* refresh_interval_for_notice, for the notices of the last month.
Interval(n) == IF age[n] = "recent" THEN Hourly ELSE Daily

\* notice_refresh_due: one that was never read is due at once.
Due(n) ==
    /\ saved.recorded[n] # NoRow
    /\ age[n] # "old"
    /\ n \in saved.detailed => saved.since[n] >= Interval(n)

\* The time a notice has been due; one never read, since it was first seen.
Delay(n) == [waits |-> saved.since[n], from |-> IF n \in saved.detailed THEN Interval(n) ELSE 0]

\* Mutant of DueEarlier: the order of the ids alone.
ListedEarlier(m, n) == m < n

DueEarlier(m, n) ==
    LET a == Delay(m).waits + Delay(n).from
        b == Delay(n).waits + Delay(m).from
    IN  a > b \/ (a = b /\ m < n)

AllDue == {n \in Known \ Mandatory : Due(n)}

\* Places that the mandatory notices leave.
Places == IF Cardinality(Mandatory) >= RefreshLimit THEN 0
          ELSE RefreshLimit - Cardinality(Mandatory)

\* select_due_notice_ids
Scheduled == First(AllDue, Places, DueEarlier)

\* Known notices whose row is not the recorded one.
Changed == {n \in (Known \cap Listed) \ (Mandatory \cup Scheduled) :
               saved.recorded[n] \notin {NoRow, row[n]}}

\* Unknown notices are read if they are TOP or of the last month.
UnknownTop == {n \in Listed \ Known : row[n] \in TopRows}
UnknownRecent == {n \in Listed \ (Known \cup UnknownTop) : age[n] # "old"}

-----------------------------------------------------------------------------
\* The list and the clock

\* A run sees the list once, so a change during a run is one after it.
ChangeRow(n) ==
    /\ pc = "idle"
    /\ changes < MaxChanges
    /\ changes' = changes + 1
    /\ \E r \in (Rows \cup {NoRow}) \ {row[n]} : row' = [row EXCEPT ![n] = r]
    /\ UNCHANGED <<age, saved, run, pc, shown, astray, faults>>

GrowOlder(n) ==
    /\ pc = "idle"
    /\ \/ age[n] = "recent" /\ age' = [age EXCEPT ![n] = "month"]
       \/ age[n] = "month" /\ age' = [age EXCEPT ![n] = "old"]
    /\ UNCHANGED <<row, saved, run, pc, shown, astray, changes, faults>>

\* Notices whose times still matter.
Timed(s) == {n \in Notices : s.recorded[n] # NoRow /\ age[n] # "old"}

\* State s at the next run.  The clock rests while all of them are overdue:
\* time would then change neither which notices are due nor their order.
Later(s) ==
    LET step == IF \A n \in Timed(s) : s.since[n] > Daily THEN 0 ELSE 1
    IN  [s EXCEPT !.since = [n \in Notices |-> IF n \in Timed(s) THEN @[n] + step ELSE 0]]

-----------------------------------------------------------------------------
\* A run

(***************************************************************************)
(* The list is read to its end, and in full the mandatory notices, the     *)
(* scheduled ones, and by their place on the list changed ones and new     *)
(* ones, each kind up to its limit; a new TOP notice is always read.       *)
(***************************************************************************)
Collect(changed, new) ==
    /\ pc = "idle"
    /\ ~Unreadable
    /\ changed \subseteq Changed
    /\ Cardinality(changed) = AtMost(ChangeLimit, Cardinality(Changed))
    /\ new \subseteq UnknownRecent
    /\ Cardinality(new) <= NewLimit
    /\ new = UnknownRecent \/ Cardinality(new \cup UnknownTop) >= NewLimit
    /\ run' = [read |-> ((Mandatory \cup Scheduled) \cap Listed)
                        \cup changed \cup new \cup UnknownTop,
               row |-> row,
               known |-> Known]
    /\ pc' = "apply"
    /\ UNCHANGED <<row, age, saved, shown, astray, changes, faults>>

\* The source is not read, or not safely.
NotRead ==
    /\ pc = "idle"
    /\ Spend(IF Unreadable THEN 0 ELSE 1)
    /\ saved' = Later(saved)
    /\ UNCHANGED <<row, age, run, pc, shown, astray, changes>>

\* checkpoint_completed_notice, for each notice in done.
Checkpointed(s, done) ==
    [s EXCEPT !.recorded = [n \in Notices |-> IF n \in done THEN run.row[n] ELSE @[n]],
              !.since = [n \in Notices |-> IF n \in done THEN 0 ELSE @[n]],
              !.detailed = @ \cup done,
              !.observed = @ \cup done,
              !.pending = @ \ done]

\* Mutant of Merged: the state takes every row it saw.
MergedRow(n) == run.row[n]

\* The recorded row stays the one of the last reading.
RowKept(n) ==
    IF n \in run.read \/ saved.recorded[n] = NoRow THEN run.row[n] ELSE saved.recorded[n]

\* update_state_from_report after a complete list: what is off the list is
\* forgotten.
Merged(s) ==
    LET listed == {n \in Notices : run.row[n] # NoRow}
        fresh == run.read \cup {n \in Notices : saved.recorded[n] = NoRow}
    IN  [s EXCEPT !.recorded = [n \in Notices |-> IF n \in listed THEN RowKept(n) ELSE NoRow],
                  !.since = [n \in Notices |-> IF n \in listed \ fresh THEN saved.since[n] ELSE 0],
                  !.detailed = (saved.detailed \cup run.read) \cap listed,
                  !.observed = @ \cup run.read \cup (run.known \cap listed)]

Complete(done) ==
    /\ shown' = [n \in Notices |-> IF n \in done THEN run.row[n] ELSE shown[n]]
    /\ run' = NoRun
    /\ pc' = "idle"

\* The source is applied; changes seen for the first time are only noted, and
\* notices whose files could not be had are put off.
Finish(noted, deferred) ==
    /\ pc = "apply"
    /\ noted \cup deferred \subseteq run.read
    /\ Spend(IF noted \cup deferred = {} THEN 0 ELSE 1)
    /\ LET done == run.read \ (noted \cup deferred)
           dropped == {n \in Notices : saved.recorded[n] # NoRow /\ run.row[n] = NoRow}
       IN  /\ saved' = Later([Merged(Checkpointed(saved, done)) EXCEPT
                                 !.pending = @ \cup deferred,
                                 !.candidates = (@ \ done) \cup noted])
           /\ astray' = (astray \cup dropped) \ done
           /\ Complete(done)
    /\ UNCHANGED <<row, age, changes>>

\* Pages are found pending: the source is quarantined, and its rows are not
\* taken over but for the notices that were done.
Quarantine(done, held, noted) ==
    /\ pc = "apply"
    /\ done \subseteq run.read
    /\ held \subseteq (run.read \cup run.known) \ done /\ held # {}
    /\ noted \subseteq run.read \ done
    /\ Spend(1)
    /\ saved' = Later([Checkpointed(saved, done) EXCEPT
                          !.pending = @ \cup held,
                          !.candidates = (@ \ done) \cup noted])
    /\ astray' = astray \ done
    /\ Complete(done)
    /\ UNCHANGED <<row, age, changes>>

\* An exception: what was read and not done becomes pending
\* (preserve_failed_report_notice_ids).
Fail(done) ==
    /\ pc = "apply"
    /\ done \subseteq run.read
    /\ Spend(1)
    /\ saved' = Later([Checkpointed(saved, done) EXCEPT
                          !.pending = @ \cup (run.read \ done)])
    /\ astray' = astray \ done
    /\ Complete(done)
    /\ UNCHANGED <<row, age, changes>>

\* The process dies after it applied the notices in done, of which those in
\* kept were checkpointed and not lost with the runner.
Kill(done, kept) ==
    /\ pc = "apply"
    /\ done \subseteq run.read /\ kept \subseteq done
    /\ Spend(1)
    /\ saved' = Later(Checkpointed(saved, kept))
    /\ astray' = (astray \cup done) \ kept
    /\ Complete(done)
    /\ UNCHANGED <<row, age, changes>>

-----------------------------------------------------------------------------
Init ==
    /\ row \in [Notices -> Rows \cup {NoRow}]
    /\ age \in [Notices -> {"recent", "month", "old"}]
    /\ saved = EmptyState
    /\ run = NoRun
    /\ pc = "idle"
    /\ shown = [n \in Notices |-> NoRow]
    /\ astray = {}
    /\ changes = 0
    /\ faults = 0

RunStep ==
    \/ \E changed, new \in SUBSET Notices : Collect(changed, new)
    \/ NotRead
    \/ \E noted, deferred \in SUBSET Notices : Finish(noted, deferred)

Environment ==
    \/ \E n \in Notices : ChangeRow(n) \/ GrowOlder(n)
    \/ \E done, held, noted \in SUBSET Notices : Quarantine(done, held, noted)
    \/ \E done \in SUBSET Notices : Fail(done)
    \/ \E done, kept \in SUBSET Notices : Kill(done, kept)

Next == RunStep \/ Environment

Spec == Init /\ [][Next]_vars

\* The schedule of the workflow starts runs for ever, and a run goes on.
FairSpec == Spec /\ WF_vars(RunStep)

-----------------------------------------------------------------------------
\* Properties

\* The row the state takes for the one last read is that of the version
\* applied, or the notice is read again: after failures and quarantines too, no
\* change of a row counts as read that was not.
RecordedIsShown ==
    \A n \in saved.detailed \ astray :
        saved.recorded[n] = shown[n] \/ n \in saved.pending \cup saved.candidates

\* A new notice older than a month is left alone.
LeftAlone(n) == n \notin Known /\ age[n] = "old" /\ row[n] \notin TopRows

\* Noted changes of notices that left the list take every place.
Crowded == Cardinality(Mandatory \ Listed) >= AtMost(NewLimit, RefreshLimit)

\* Once the list stays still and failures stop, every notice is shown as
\* listed: each change of a title, a date or a TOP mark is read, whatever the
\* limits and however the runs in between ended.  Sight of a notice older than
\* a month is lost while it is off the list, or with the state of a run.
EveryRowIsRead ==
    <>[](\A n \in Listed : shown[n] = row[n] \/ LeftAlone(n)
                           \/ (n \in astray /\ age[n] = "old"))
    \/ []<>(Unreadable \/ Crowded)
=============================================================================
