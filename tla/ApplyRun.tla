------------------------------ MODULE ApplyRun ------------------------------
(***************************************************************************)
(* The protocol between consecutive runs of the program (main.main,        *)
(* sync_engine._apply_report, run_state.update_state_from_report).  A run  *)
(* restores the saved state, reads the boards, compares every read notice  *)
(* with its page, applies what it may apply and records what it saw.       *)
(*                                                                         *)
(* Two memories have to agree across runs that may fail, be killed or lose *)
(* their state: the pages in the database, and the saved state that says   *)
(* which notices were read, which are pending and which changes wait for a *)
(* second sighting.                                                        *)
(*                                                                         *)
(* A notice is the pair (source, notice id); a version stands for all the  *)
(* content of a notice.  How one page is written is module BodyGeneration: *)
(* here it is one step that commits the page, holds it, or is cut short.   *)
(***************************************************************************)
EXTENDS Naturals, FiniteSets

CONSTANTS
    Notices,      \* notices of all boards
    Sources,      \* boards
    SourceOf,     \* the board of a notice
    Versions,     \* contents a notice can have
    NoVersion,    \* not listed on the board, or no content
    Stubborn,     \* <<notice, version>> whose body never reads back as written
    MaxChanges,   \* bound on the changes of the boards
    MaxFaults     \* bound on the failures, reruns, expiries and other runs

ASSUME NoticesAssumption == SourceOf \in [Notices -> Sources]
ASSUME VersionsAssumption == NoVersion \notin Versions
ASSUME StubbornAssumption == Stubborn \subseteq Notices \X Versions
ASSUME BoundsAssumption == MaxChanges \in Nat /\ MaxFaults \in Nat

VARIABLES
    board,    \* what each board publishes
    page,     \* the managed page of each notice
    saved,    \* the run state kept between jobs (the Actions cache)
    disk,     \* run-state.json of the running job
    mem,      \* the state the running process holds
    run,      \* the locals of the running process
    pc,       \* where the running process is
    outcome,  \* how the last job ended
    changes, faults

vars == <<board, page, saved, disk, mem, run, pc, outcome, changes, faults>>

-----------------------------------------------------------------------------
\* Types

Content == Versions \cup {NoVersion}

\* A page: draft is the version whose partial body a page that never had a
\* body hash holds, if it can be resumed.
Page == [status : {"absent", "pending", "committed"}, hash : Content, draft : Content]
NoPage == [status |-> "absent", hash |-> NoVersion, draft |-> NoVersion]
Committed(v) == [status |-> "committed", hash |-> v, draft |-> NoVersion]

\* The identity of a change to an applied notice (candidate_id).
Change == [from : Content, to : Content]
NoChange == [from |-> NoVersion, to |-> NoVersion]

Hold == [reason : {"none", "pending_refresh", "destructive_change_confirmation"},
         change : Change]
NoHold == [reason |-> "none", change |-> NoChange]

(***************************************************************************)
(* The run state.  recent and heldRecently hold the notices whose          *)
(* candidate, respectively hold, carries the identity of the latest        *)
(* recorded run: an identity never comes back, so the others can never     *)
(* match again.  alarm: an incident is active.  witness is a ghost: what   *)
(* the latest recorded run itself saw of each notice.                      *)
(***************************************************************************)
State == [read : [Notices -> Content],
          pending : SUBSET Notices,
          candidate : [Notices -> Change],
          recent : SUBSET Notices,
          hold : [Notices -> Hold],
          heldRecently : SUBSET Notices,
          alarm : BOOLEAN,
          witness : [Notices -> Change]]

EmptyState == [read |-> [n \in Notices |-> NoVersion],
               pending |-> {},
               candidate |-> [n \in Notices |-> NoChange],
               recent |-> {},
               hold |-> [n \in Notices |-> NoHold],
               heldRecently |-> {},
               alarm |-> FALSE,
               witness |-> [n \in Notices |-> NoChange]]

Run == [rerun : BOOLEAN,                \* same logical run as the latest recorded one
        safe : SUBSET Sources,          \* sources whose crawl is safe to write
        item : [Notices -> Content],    \* what was read
        saw : [Notices -> Change],      \* the change each entry makes to its page
        waiting : SUBSET Notices,       \* pages pending when the run inspected them
        quarantined : SUBSET Sources,
        deferred : SUBSET Notices,      \* media could not be verified in budget
        todo : SUBSET Notices,
        done : SUBSET Notices,
        observed : SUBSET Notices,
        cleared : SUBSET Notices]

NoRun == [rerun |-> FALSE, safe |-> {},
          item |-> [n \in Notices |-> NoVersion],
          saw |-> [n \in Notices |-> NoChange],
          waiting |-> {}, quarantined |-> {}, deferred |-> {},
          todo |-> {}, done |-> {}, observed |-> {}, cleared |-> {}]

Outcomes == {"none", "succeeded", "safety_deferred", "partial_failed", "failed",
             "killed", "lost"}

TypeOK ==
    /\ board \in [Notices -> Content]
    /\ page \in [Notices -> Page]
    /\ saved \in State /\ disk \in State /\ mem \in State
    /\ run \in Run
    /\ pc \in {"idle", "collect", "unread", "preflight", "apply"}
    /\ outcome \in Outcomes
    /\ changes \in 0..MaxChanges
    /\ faults \in 0..MaxFaults

-----------------------------------------------------------------------------
\* Helpers

PendingPages == {n \in Notices : page[n].status = "pending"}
SourcesOf(S) == {SourceOf[n] : n \in S}
Listed == {n \in Notices : board[n] # NoVersion}
Read == {n \in Notices : run.item[n] # NoVersion}

\* A source with a pending notice that its board no longer lists cannot be
\* read safely (targeted_refresh_missing).
Readable == Sources \ SourcesOf(mem.pending \ Listed)

\* Mutant of Mandatory: a noted candidate does not have to be read again.
MandatoryForgetsCandidates == {n \in Listed : mem.read[n] = NoVersion \/ n \in mem.pending}

\* The notices a run must read: new ones, pending ones and candidates.
Mandatory == {n \in Listed : \/ mem.read[n] = NoVersion
                             \/ n \in mem.pending
                             \/ mem.candidate[n] # NoChange}

\* The page was created for this very version and never got its body hash.
InitialPending(n, v) ==
    page[n].status = "pending" /\ page[n].hash = NoVersion /\ page[n].draft = v

\* Mutant of ChangeOf: the identity leaves out what the page holds now.
ChangeTo(n, v) ==
    IF page[n] = NoPage \/ page[n].hash = v \/ InitialPending(n, v)
    THEN NoChange
    ELSE [to |-> v]

\* The change that version v makes to a page that already has content.
ChangeOf(n, v) ==
    IF page[n] = NoPage \/ page[n].hash = v \/ InitialPending(n, v)
    THEN NoChange
    ELSE [from |-> page[n].hash, to |-> v]

\* Mutant of Confirmed: any earlier sighting of the change counts.
SeenBefore(n, change) ==
    /\ change # NoChange
    /\ mem.candidate[n] = change
    /\ ~run.rerun

\* The latest recorded run, of another logical run, saw the same change.
Confirmed(n, change) ==
    /\ change # NoChange
    /\ mem.candidate[n] = change
    /\ n \in mem.recent
    /\ ~run.rerun

Unconfirmed(n) == run.saw[n] # NoChange /\ ~Confirmed(n, run.saw[n])

\* Entries of pages that were pending come first.
NextEntries == IF run.todo \cap run.waiting # {} THEN run.todo \cap run.waiting ELSE run.todo

\* What an interrupted write of version v can leave behind.
Interrupted(n, v) ==
    {page[n]} \cup
    (IF page[n] = Committed(v) THEN {}
     ELSE {p \in {Committed(v)} : <<n, v>> \notin Stubborn} \cup
          {[status |-> "pending", hash |-> page[n].hash, draft |-> d] :
              d \in IF page[n].hash = NoVersion THEN {v, NoVersion} ELSE {NoVersion}})

\* Every record of a non-dry run replaces the identity that confirmations
\* are measured against.
Recorded(s, saw) ==
    [s EXCEPT !.recent = {}, !.heldRecently = {}, !.witness = saw]

Spend(cost) == faults + cost <= MaxFaults /\ faults' = faults + cost

(***************************************************************************)
(* The job ends with state s on its disk.  The state is saved for the next *)
(* job unless the runner is lost first.                                    *)
(***************************************************************************)
EndJob(s, how, cost) ==
    \E lost \in BOOLEAN :
        /\ Spend(IF lost THEN cost + 1 ELSE cost)
        /\ saved' = IF lost THEN saved ELSE s
        /\ disk' = saved' /\ mem' = saved'
        /\ outcome' = IF lost THEN "lost" ELSE how
        /\ pc' = "idle"
        /\ run' = NoRun

-----------------------------------------------------------------------------
\* The boards and the clock

\* A run reads every notice once, so a change during a run is one before or
\* after it.
ChangeBoard(n) ==
    /\ pc = "idle"
    /\ changes < MaxChanges
    /\ changes' = changes + 1
    /\ \E v \in Content \ {board[n]} : board' = [board EXCEPT ![n] = v]
    /\ UNCHANGED <<page, saved, disk, mem, run, pc, outcome, faults>>

\* The first sighting of a change grows older than the confirmation window.
Expire(n) ==
    /\ n \in saved.recent
    /\ Spend(1)
    /\ saved' = [saved EXCEPT !.recent = @ \ {n}]
    /\ disk' = [disk EXCEPT !.recent = @ \ {n}]
    /\ mem' = [mem EXCEPT !.recent = @ \ {n}]
    /\ UNCHANGED <<board, page, run, pc, outcome, changes>>

-----------------------------------------------------------------------------
\* A run

\* After a failure the pending pages are added to the notices to read.
StartRun(rerun) ==
    /\ pc = "idle"
    /\ Spend(IF rerun THEN 1 ELSE 0)
    /\ mem' = IF mem.alarm THEN [mem EXCEPT !.pending = @ \cup PendingPages] ELSE mem
    /\ run' = [NoRun EXCEPT !.rerun = rerun]
    /\ pc' = "collect"
    /\ UNCHANGED <<board, page, saved, disk, outcome, changes>>

\* The crawl of the sources in safe succeeds; due are the known notices the
\* refresh policy picks.
Collect(safe, due) ==
    /\ pc = "collect"
    /\ safe \subseteq Readable
    /\ Spend(IF safe = Readable THEN 0 ELSE 1)
    /\ due \subseteq Listed \ Mandatory
    /\ run' = [run EXCEPT
                 !.safe = safe,
                 !.item = [n \in Notices |->
                             IF n \in Mandatory \cup due /\ SourceOf[n] \in safe
                             THEN board[n] ELSE NoVersion]]
    /\ pc' = IF safe = {} THEN "unread" ELSE "preflight"
    /\ UNCHANGED <<board, page, saved, disk, mem, outcome, changes>>

(***************************************************************************)
(* Every entry is compared with its page.  A source is quarantined while   *)
(* one of its pending pages was not read or waits for a second sighting.   *)
(***************************************************************************)
Preflight(deferred) ==
    /\ pc = "preflight"
    /\ deferred \subseteq Read
    /\ Spend(IF deferred = {} THEN 0 ELSE 1)
    /\ LET saw == [n \in Notices |-> IF n \in Read \ deferred
                                     THEN ChangeOf(n, run.item[n]) ELSE NoChange]
           unsure == {n \in PendingPages : saw[n] # NoChange /\ ~Confirmed(n, saw[n])}
           quarantined == SourcesOf(PendingPages \ Read) \cup SourcesOf(unsure)
       IN  run' = [run EXCEPT
                     !.saw = saw,
                     !.waiting = PendingPages,
                     !.deferred = deferred,
                     !.quarantined = quarantined,
                     !.observed = unsure,
                     !.todo = {n \in Read \ deferred : SourceOf[n] \notin quarantined}]
    /\ pc' = "apply"
    /\ UNCHANGED <<board, page, saved, disk, mem, outcome, changes>>

\* A change seen for the first time is only noted.
ObserveEntry(n) ==
    /\ pc = "apply"
    /\ n \in NextEntries
    /\ Unconfirmed(n)
    /\ run' = [run EXCEPT !.todo = @ \ {n}, !.observed = @ \cup {n}]
    /\ UNCHANGED <<board, page, saved, disk, mem, pc, outcome, changes, faults>>

\* The state that knows the entry is done (checkpoint_completed_notice).
Checkpoint(n) ==
    [mem EXCEPT !.read[n] = run.item[n], !.pending = @ \ {n}]

CompleteEntry(n) ==
    /\ pc = "apply"
    /\ n \in NextEntries
    /\ ~Unconfirmed(n)
    /\ <<n, run.item[n]>> \notin Stubborn
    /\ page' = [page EXCEPT ![n] = Committed(run.item[n])]
    /\ mem' = Checkpoint(n)
    /\ disk' = Checkpoint(n)
    /\ run' = [run EXCEPT !.todo = @ \ {n}, !.done = @ \cup {n}, !.cleared = @ \cup {n}]
    /\ UNCHANGED <<board, saved, pc, outcome, changes, faults>>

\* The body does not read back as written: the page stays pending.
HoldEntry(n) ==
    /\ pc = "apply"
    /\ n \in NextEntries
    /\ ~Unconfirmed(n)
    /\ <<n, run.item[n]>> \in Stubborn
    /\ page' = [page EXCEPT ![n] = [status |-> "pending", hash |-> page[n].hash,
                                    draft |-> NoVersion]]
    /\ run' = [run EXCEPT !.todo = @ \ {n}, !.cleared = @ \cup {n}]
    /\ UNCHANGED <<board, saved, disk, mem, pc, outcome, changes, faults>>

-----------------------------------------------------------------------------
\* The end of a run

\* Why page n is still pending.
HoldOf(n) ==
    IF Unconfirmed(n)
    THEN [reason |-> "destructive_change_confirmation", change |-> run.saw[n]]
    ELSE [reason |-> "pending_refresh", change |-> NoChange]

\* The latest recorded run, of another logical run, held it for the same reason.
HeldAgain(n) ==
    n \in mem.heldRecently /\ mem.hold[n] = HoldOf(n) /\ ~run.rerun

\* Mutant of StillPending: only the pages the run found pending at its start.
PendingAtStart == run.waiting \cup run.deferred

\* Pages found pending when the entries are through, and what was put off.
StillPending == PendingPages \cup run.deferred

QuarantinedAtEnd == run.quarantined \cup SourcesOf(PendingPages)

\* Mutant of Applied: a quarantined source counts as read.
AppliedDespiteQuarantine(banned) == IF banned THEN {} ELSE run.safe

\* Sources whose reading the state takes over.
Applied(banned) == IF banned THEN {} ELSE run.safe \ QuarantinedAtEnd

HoldRepeated == \E n \in PendingPages : HeldAgain(n)

Failing(banned) == banned \/ run.safe # Sources \/ HoldRepeated

\* What update_state_from_report makes of the run.
Updated(banned) ==
    [read |-> [n \in Notices |-> IF n \in Read /\ SourceOf[n] \in Applied(banned)
                                 THEN run.item[n] ELSE mem.read[n]],
     pending |-> mem.pending \cup StillPending,
     candidate |-> [n \in Notices |->
                      IF n \in run.observed THEN run.saw[n]
                      ELSE IF n \in run.cleared THEN NoChange
                      ELSE mem.candidate[n]],
     recent |-> run.observed,
     hold |-> [n \in Notices |-> IF n \in PendingPages THEN HoldOf(n) ELSE NoHold],
     heldRecently |-> PendingPages,
     alarm |-> Failing(banned),
     witness |-> run.saw]

\* banned: a file host answered 403 or 429.
FinishRun(banned) ==
    /\ pc = "apply"
    /\ run.todo = {}
    /\ banned => run.deferred # {}
    /\ EndJob(Updated(banned),
              IF Failing(banned) THEN "partial_failed"
              ELSE IF QuarantinedAtEnd # {} THEN "safety_deferred" ELSE "succeeded",
              0)
    /\ UNCHANGED <<board, page, changes>>

\* No source was safe to read.
FinishUnread ==
    /\ pc = "unread"
    /\ EndJob([Recorded(mem, NoRun.saw) EXCEPT !.alarm = TRUE], "partial_failed", 0)
    /\ UNCHANGED <<board, page, changes>>

\* The pages that remain when a run stops in the middle of an entry.
CutShort ==
    \/ UNCHANGED page
    \/ /\ pc = "apply"
       /\ \E n \in NextEntries :
             /\ ~Unconfirmed(n)
             /\ \E p \in Interrupted(n, run.item[n]) : page' = [page EXCEPT ![n] = p]

\* An exception ends the run: what it read and did not finish becomes pending.
Fail ==
    /\ pc # "idle"
    /\ CutShort
    /\ EndJob([Recorded(mem, run.saw) EXCEPT
                 !.pending = @ \cup (Read \ run.done), !.alarm = TRUE], "failed", 1)
    /\ UNCHANGED <<board, changes>>

\* An exception after the run was recorded keeps its record.  A repeated hold
\* has made the quarantined sources unsafe by then.
FailRecorded(banned) ==
    /\ pc = "apply"
    /\ run.todo = {}
    /\ banned => run.deferred # {}
    /\ LET unfinished == {n \in Read \ run.done :
                             HoldRepeated => SourceOf[n] \notin QuarantinedAtEnd}
       IN  EndJob([Updated(banned) EXCEPT !.pending = @ \cup unfinished, !.alarm = TRUE],
                  "failed", 1)
    /\ UNCHANGED <<board, page, changes>>

\* The process dies without a word; its last checkpoint is on the disk.
Kill ==
    /\ pc # "idle"
    /\ CutShort
    /\ EndJob(disk, "killed", 1)
    /\ UNCHANGED <<board, changes>>

\* Another kind of run records itself between two runs that apply.
RecordOther(s) ==
    /\ pc = "idle"
    /\ Spend(1)
    /\ saved' = s /\ disk' = s /\ mem' = s
    /\ UNCHANGED <<board, page, run, pc, outcome, changes>>

\* A schema migration reads nothing, but the next run is measured against it.
SchemaRun == RecordOther(Recorded(saved, NoRun.saw))

\* A dry run is never measured against; an unsafe crawl raises the alarm.
DryRun == RecordOther([saved EXCEPT !.alarm = TRUE])

-----------------------------------------------------------------------------
Init ==
    /\ board \in [Notices -> Content]
    /\ page = [n \in Notices |-> NoPage]
    /\ saved = EmptyState /\ disk = EmptyState /\ mem = EmptyState
    /\ run = NoRun
    /\ pc = "idle"
    /\ outcome = "none"
    /\ changes = 0
    /\ faults = 0

RunStep ==
    \/ \E rerun \in BOOLEAN : StartRun(rerun)
    \/ \E safe \in SUBSET Sources, due \in SUBSET Notices : Collect(safe, due)
    \/ \E deferred \in SUBSET Notices : Preflight(deferred)
    \/ \E n \in Notices : ObserveEntry(n) \/ CompleteEntry(n) \/ HoldEntry(n)
    \/ \E banned \in BOOLEAN : FinishRun(banned)
    \/ FinishUnread

Environment ==
    \/ \E n \in Notices : ChangeBoard(n) \/ Expire(n)
    \/ \E banned \in BOOLEAN : FailRecorded(banned)
    \/ Fail \/ Kill \/ SchemaRun \/ DryRun

Next == RunStep \/ Environment

Spec == Init /\ [][Next]_vars

(***************************************************************************)
(* The schedule of the workflow starts runs for ever and a started run     *)
(* goes on.  The refresh policy picks each notice of the last month again  *)
(* within a bounded number of days, so no notice is left unread for ever.  *)
(***************************************************************************)
FairSpec ==
    /\ Spec
    /\ WF_vars(RunStep)
    /\ \A n \in Notices :
          SF_vars(\E due \in SUBSET Notices : n \in due /\ Collect(Readable, due))

-----------------------------------------------------------------------------
\* Properties

Overwrites(n) ==
    /\ page'[n] # page[n]
    /\ page[n] # NoPage
    /\ page[n].hash # run.item[n]
    /\ ~InitialPending(n, run.item[n])

\* A page that has content is only rewritten if the latest recorded run,
\* another logical run, itself saw the same change: a failed run, a rerun, a
\* migration or a lost state in between never counts as a sighting.
ConfirmedTwice ==
    [][\A n \in Notices : Overwrites(n) =>
          /\ mem.witness[n] = [from |-> page[n].hash, to |-> run.item[n]]
          /\ ~run.rerun]_vars

\* Whatever failed, was killed or was lost: a version the saved state counts
\* as read is the one on the page, or the notice will be read again.
ReadIsServed ==
    \A n \in Notices : saved.read[n] # NoVersion =>
        \/ page[n].hash = saved.read[n]
        \/ n \in saved.pending
        \/ saved.candidate[n] # NoChange

\* After a run that recorded its end, failed or not, every page left pending
\* is among the notices the next run reads first.
PendingRemembered ==
    (pc = "idle" /\ outcome \in {"succeeded", "safety_deferred", "partial_failed", "failed"})
        => saved.alarm \/ PendingPages \subseteq saved.pending

\* The pages and the saved state as ConfirmedChanges sees them: a sighting
\* stands while the page shows what it did when it was seen.
Shown == [n \in Notices |-> page[n].hash]

Standing == [n \in Notices |->
    IF saved.witness[n].from = page[n].hash THEN saved.witness[n].to ELSE NoVersion]

OwedIn(s) == s.pending \cup {n \in Notices : s.candidate[n] # NoChange}

Stage == IF pc = "idle" THEN "rest" ELSE IF run.rerun THEN "rerun" ELSE "run"

Changes == INSTANCE ConfirmedChanges WITH
    body <- Shown, noted <- Standing, counted <- saved.read, owed <- OwedIn(saved),
    stage <- Stage

\* Runs that fail, are killed, repeated or lost together keep the promise of
\* ConfirmedChanges: pages change as noted and seen again, and what counts as
\* read is shown or owed.
ImplementsChanges == Changes!Spec

Served(n) == board[n] # NoVersion => page[n] = Committed(board[n])

\* A pending notice of the source was taken off its board: no crawl of the
\* source is safe any more.
Stuck(s) == \E n \in saved.pending : SourceOf[n] = s /\ board[n] = NoVersion

\* A notice of the source never reads back as written.
Troubled(s) == \E n \in Notices : SourceOf[n] = s /\ <<n, board[n]>> \in Stubborn

\* Two pages of the source are pending at once.
Entangled(s) ==
    \E n, m \in PendingPages : n # m /\ SourceOf[n] = s /\ SourceOf[m] = s

\* Once the boards stay still and failures stop, every page carries the
\* version its board lists: nothing that failed, was killed or was lost is
\* forgotten, and trouble in one source delays no other source.
Converges ==
    <>[](\A n \in Notices :
            Served(n) \/ LET s == SourceOf[n] IN Stuck(s) \/ Troubled(s) \/ Entangled(s))

=============================================================================
