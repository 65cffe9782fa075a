--------------------------- MODULE ApplyRunProofs ---------------------------
(***************************************************************************)
(* Proofs about ApplyRun for any notices, sources, versions and bounds:    *)
(* the types, three safety properties (what is written was seen twice, what*)
(* was read is served, what is pending is remembered), and, in the second  *)
(* half, that the runs implement ConfirmedChanges.                         *)
(***************************************************************************)
EXTENDS ApplyRun, TLAPS

-----------------------------------------------------------------------------
\* Types

\* The change a version makes is a change.
LEMMA ChangeOfType ==
    ASSUME TypeOK, NEW n \in Notices, NEW v \in Content
    PROVE  ChangeOf(n, v) \in Change
<1>1. page[n].hash \in Content
    BY DEF TypeOK, Page
<1> QED
    BY <1>1 DEF ChangeOf, NoChange, Change, Content

LEMMA InitTypes ==
    /\ EmptyState \in State
    /\ NoRun \in Run
    /\ NoPage \in Page
<1>1. NoVersion \in Content /\ NoChange \in Change
    BY DEF NoChange, Change, Content
<1>2. NoHold \in Hold
    BY <1>1 DEF NoHold, Hold
<1>3. EmptyState \in State
    BY <1>1, <1>2 DEF EmptyState, State
<1>4. NoRun \in Run
    BY <1>1 DEF NoRun, Run
<1>5. NoPage \in Page
    BY <1>1 DEF NoPage, Page
<1> QED
    BY <1>3, <1>4, <1>5

\* What a record of another run leaves of a state is a state.
LEMMA RecordedType ==
    ASSUME NEW s \in State, NEW saw \in [Notices -> Change]
    PROVE  Recorded(s, saw) \in State
BY DEF Recorded, State

\* The state a finished run leaves is a state.
LEMMA UpdatedType ==
    ASSUME TypeOK, NEW banned \in BOOLEAN
    PROVE  Updated(banned) \in State
<1>1. mem \in State /\ run \in Run
    BY DEF TypeOK
<1>2. NoChange \in Change /\ NoHold \in Hold
    BY DEF NoChange, NoHold, Change, Hold, Content
<1>3. \A n \in Notices : HoldOf(n) \in Hold
    BY <1>1, <1>2 DEF HoldOf, Hold, Run
<1>4. StillPending \subseteq Notices /\ PendingPages \subseteq Notices
    BY <1>1 DEF StillPending, PendingPages, Run
<1>5. Failing(banned) \in BOOLEAN
    BY DEF Failing, HoldRepeated
<1>6. [n \in Notices |-> IF n \in Read /\ SourceOf[n] \in Applied(banned)
                         THEN run.item[n] ELSE mem.read[n]] \in [Notices -> Content]
    BY <1>1 DEF Run, State
<1>7. [n \in Notices |-> IF n \in run.observed THEN run.saw[n]
                         ELSE IF n \in run.cleared THEN NoChange
                         ELSE mem.candidate[n]] \in [Notices -> Change]
    BY <1>1, <1>2 DEF Run, State
<1>8. [n \in Notices |-> IF n \in PendingPages THEN HoldOf(n) ELSE NoHold]
        \in [Notices -> Hold]
    BY <1>2, <1>3
<1>9. run.observed \subseteq Notices /\ run.saw \in [Notices -> Change]
    BY <1>1 DEF Run
<1>10. mem.pending \subseteq Notices
    BY <1>1 DEF State
<1> QED
    BY <1>4, <1>5, <1>6, <1>7, <1>8, <1>9, <1>10 DEF Updated, State

\* The end of a job leaves states and an idle process.
LEMMA EndJobType ==
    ASSUME TypeOK, NEW s \in State, NEW how \in Outcomes, NEW cost \in Nat,
           EndJob(s, how, cost)
    PROVE  /\ saved' \in State /\ disk' \in State /\ mem' \in State
           /\ run' \in Run
           /\ pc' = "idle"
           /\ outcome' \in Outcomes
           /\ faults' \in 0..MaxFaults
<1>1. PICK lost \in BOOLEAN :
        /\ Spend(IF lost THEN cost + 1 ELSE cost)
        /\ saved' = IF lost THEN saved ELSE s
        /\ disk' = saved' /\ mem' = saved'
        /\ outcome' = IF lost THEN "lost" ELSE how
        /\ pc' = "idle"
        /\ run' = NoRun
    BY DEF EndJob
<1>2. faults' \in 0..MaxFaults
    BY <1>1, BoundsAssumption DEF Spend, TypeOK
<1>3. saved' \in State
    BY <1>1 DEF TypeOK
<1> QED
    BY <1>1, <1>2, <1>3, InitTypes DEF Outcomes

\* An entry a run writes is a notice that was read.
LEMMA EntryType ==
    ASSUME TypeOK, NEW n \in NextEntries
    PROVE  n \in run.todo /\ n \in Notices /\ run.item[n] \in Content
BY DEF NextEntries, TypeOK, Run

\* What a run writes, in full or in part, is a page.
LEMMA InterruptedType ==
    ASSUME TypeOK, NEW n \in Notices, NEW v \in Content, NEW p \in Interrupted(n, v)
    PROVE  p \in Page
<1>1. page[n] \in Page /\ page[n].hash \in Content /\ NoVersion \in Content
    BY DEF TypeOK, Page, Content
<1>2. Committed(v) \in Page
    BY <1>1 DEF Committed, Page
<1>3. \A d \in {v, NoVersion} :
        [status |-> "pending", hash |-> page[n].hash, draft |-> d] \in Page
    BY <1>1 DEF Page
<1> QED
    BY <1>1, <1>2, <1>3 DEF Interrupted

LEMMA CutShortType ==
    ASSUME TypeOK, CutShort
    PROVE  page' \in [Notices -> Page]
<1>1. CASE UNCHANGED page
    BY <1>1 DEF TypeOK
<1>2. CASE ~UNCHANGED page
    <2>1. PICK n \in NextEntries : \E p \in Interrupted(n, run.item[n]) :
                page' = [page EXCEPT ![n] = p]
        BY <1>2 DEF CutShort
    <2>2. PICK p \in Interrupted(n, run.item[n]) : page' = [page EXCEPT ![n] = p]
        BY <2>1
    <2>3. p \in Page
        BY <2>2, EntryType, InterruptedType
    <2> QED
        BY <2>2, <2>3 DEF TypeOK
<1> QED
    BY <1>1, <1>2

\* Every step keeps the types.
LEMMA TypeStep ==
    ASSUME TypeOK, [Next]_vars
    PROVE  TypeOK'
<1> USE DEF TypeOK
<1>1. CASE UNCHANGED vars
    BY <1>1 DEF vars
<1>2. ASSUME NEW n \in Notices, ChangeBoard(n) PROVE TypeOK'
    BY <1>2, BoundsAssumption DEF ChangeBoard
<1>3. ASSUME NEW n \in Notices, Expire(n) PROVE TypeOK'
    <2>1. \A s \in State : [s EXCEPT !.recent = @ \ {n}] \in State
        BY DEF State
    <2>2. faults' \in 0..MaxFaults
        BY <1>3, BoundsAssumption DEF Expire, Spend
    <2> QED
        BY <1>3, <2>1, <2>2 DEF Expire
<1>4. ASSUME NEW rerun \in BOOLEAN, StartRun(rerun) PROVE TypeOK'
    <2>1. faults' \in 0..MaxFaults
        BY <1>4, BoundsAssumption DEF StartRun, Spend
    <2>2. mem' \in State
        <3>1. PendingPages \subseteq Notices
            BY DEF PendingPages
        <3>2. [mem EXCEPT !.pending = @ \cup PendingPages] \in State
            BY <3>1 DEF State
        <3> QED
            BY <1>4, <3>2 DEF StartRun
    <2>3. run' \in Run
        BY <1>4, InitTypes DEF StartRun, Run
    <2> QED
        BY <1>4, <2>1, <2>2, <2>3 DEF StartRun
<1>5. ASSUME NEW safe \in SUBSET Sources, NEW due \in SUBSET Notices, Collect(safe, due)
      PROVE  TypeOK'
    <2>1. faults' \in 0..MaxFaults
        BY <1>5, BoundsAssumption DEF Collect, Spend
    <2>2. [n \in Notices |-> IF n \in Mandatory \cup due /\ SourceOf[n] \in safe
                             THEN board[n] ELSE NoVersion] \in [Notices -> Content]
        BY DEF Content
    <2>3. run' \in Run
        BY <1>5, <2>2 DEF Collect, Run
    <2> QED
        BY <1>5, <2>1, <2>3 DEF Collect
<1>6. ASSUME NEW deferred \in SUBSET Notices, Preflight(deferred) PROVE TypeOK'
    <2> DEFINE saw == [n \in Notices |-> IF n \in Read \ deferred
                                         THEN ChangeOf(n, run.item[n]) ELSE NoChange]
               unsure == {n \in PendingPages : saw[n] # NoChange /\ ~Confirmed(n, saw[n])}
               quarantined == SourcesOf(PendingPages \ Read) \cup SourcesOf(unsure)
               todo == {n \in Read \ deferred : SourceOf[n] \notin quarantined}
    <2>1. faults' \in 0..MaxFaults
        BY <1>6, BoundsAssumption DEF Preflight, Spend
    <2>2. saw \in [Notices -> Change]
        <3>1. NoChange \in Change
            BY DEF NoChange, Change, Content
        <3>2. \A n \in Notices : run.item[n] \in Content
            BY DEF Run
        <3>3. \A n \in Notices : ChangeOf(n, run.item[n]) \in Change
            BY <3>2, ChangeOfType
        <3> QED
            BY <3>1, <3>3
    <2>3. PendingPages \subseteq Notices /\ Read \subseteq Notices
        BY DEF PendingPages, Read
    <2>4. unsure \subseteq Notices /\ todo \subseteq Notices
        BY <2>3
    <2>5. quarantined \subseteq Sources
        BY <2>3, <2>4, NoticesAssumption DEF SourcesOf
    <2>6. run' = [run EXCEPT !.saw = saw, !.waiting = PendingPages, !.deferred = deferred,
                             !.quarantined = quarantined, !.observed = unsure, !.todo = todo]
        BY <1>6 DEF Preflight
    <2>7. run' \in Run
        <3> HIDE DEF saw, unsure, quarantined, todo
        <3> QED
            BY <2>2, <2>3, <2>4, <2>5, <2>6 DEF Run
    <2> QED
        BY <1>6, <2>1, <2>7 DEF Preflight
<1>7. ASSUME NEW n \in Notices, ObserveEntry(n) PROVE TypeOK'
    <2>1. run' \in Run
        BY <1>7 DEF ObserveEntry, Run
    <2> QED
        BY <1>7, <2>1 DEF ObserveEntry
<1>8. ASSUME NEW n \in Notices, CompleteEntry(n) PROVE TypeOK'
    <2>1. run.item[n] \in Content
        BY DEF Run
    <2>2. Checkpoint(n) \in State
        BY <2>1 DEF Checkpoint, State
    <2>3. Committed(run.item[n]) \in Page
        BY <2>1 DEF Committed, Page, Content
    <2>4. run' \in Run
        BY <1>8 DEF CompleteEntry, Run
    <2> QED
        BY <1>8, <2>2, <2>3, <2>4 DEF CompleteEntry
<1>9. ASSUME NEW n \in Notices, HoldEntry(n) PROVE TypeOK'
    <2>1. [status |-> "pending", hash |-> page[n].hash, draft |-> NoVersion] \in Page
        BY DEF Page, Content
    <2>2. run' \in Run
        BY <1>9 DEF HoldEntry, Run
    <2> QED
        BY <1>9, <2>1, <2>2 DEF HoldEntry
<1>10. ASSUME NEW banned \in BOOLEAN, FinishRun(banned) PROVE TypeOK'
    <2> DEFINE how == IF Failing(banned) THEN "partial_failed"
                      ELSE IF QuarantinedAtEnd # {} THEN "safety_deferred" ELSE "succeeded"
    <2>1. how \in Outcomes
        BY DEF Outcomes
    <2>2. EndJob(Updated(banned), how, 0)
        BY <1>10 DEF FinishRun
    <2> HIDE DEF how
    <2> QED
        BY <1>10, <2>1, <2>2, UpdatedType, EndJobType DEF FinishRun
<1>11. CASE FinishUnread
    <2>1. NoRun.saw \in [Notices -> Change]
        BY InitTypes DEF Run
    <2>2. Recorded(mem, NoRun.saw) \in State
        BY <2>1, RecordedType
    <2>3. [Recorded(mem, NoRun.saw) EXCEPT !.alarm = TRUE] \in State
        BY <2>2 DEF State
    <2> QED
        BY <1>11, <2>3, EndJobType DEF FinishUnread, Outcomes
<1>12. CASE Fail
    <2>1. Recorded(mem, run.saw) \in State
        BY RecordedType DEF Run
    <2>2. Read \ run.done \subseteq Notices
        BY DEF Read
    <2>3. [Recorded(mem, run.saw) EXCEPT !.pending = @ \cup (Read \ run.done), !.alarm = TRUE]
            \in State
        BY <2>1, <2>2 DEF State
    <2>4. page' \in [Notices -> Page]
        BY <1>12, CutShortType DEF Fail
    <2> QED
        BY <1>12, <2>3, <2>4, EndJobType DEF Fail, Outcomes
<1>13. ASSUME NEW banned \in BOOLEAN, FailRecorded(banned) PROVE TypeOK'
    <2> DEFINE unfinished == {n \in Read \ run.done :
                                HoldRepeated => SourceOf[n] \notin QuarantinedAtEnd}
               left == [Updated(banned) EXCEPT !.pending = @ \cup unfinished, !.alarm = TRUE]
    <2>1. unfinished \subseteq Notices
        BY DEF Read
    <2>2. left \in State
        <3> HIDE DEF unfinished
        <3> QED
            BY <2>1, UpdatedType DEF State
    <2>3. EndJob(left, "failed", 1)
        BY <1>13 DEF FailRecorded
    <2> HIDE DEF left
    <2> QED
        BY <1>13, <2>2, <2>3, EndJobType DEF FailRecorded, Outcomes
<1>14. CASE Kill
    <2>1. page' \in [Notices -> Page]
        BY <1>14, CutShortType DEF Kill
    <2> QED
        BY <1>14, <2>1, EndJobType DEF Kill, Outcomes
<1>15. ASSUME NEW s \in State, RecordOther(s) PROVE TypeOK'
    <2>1. faults' \in 0..MaxFaults
        BY <1>15, BoundsAssumption DEF RecordOther, Spend
    <2> QED
        BY <1>15, <2>1 DEF RecordOther
<1>16. CASE SchemaRun
    BY <1>15, <1>16, RecordedType, InitTypes DEF SchemaRun, Run
<1>17. CASE DryRun
    <2>1. [saved EXCEPT !.alarm = TRUE] \in State
        BY DEF State
    <2> QED
        BY <1>15, <1>17, <2>1 DEF DryRun
<1> QED
    BY <1>1, <1>2, <1>3, <1>4, <1>5, <1>6, <1>7, <1>8, <1>9, <1>10, <1>11, <1>12, <1>13,
       <1>14, <1>16, <1>17 DEF Next, RunStep, Environment

\* Every variable keeps its type: in particular the state a run leaves behind,
\* however it ended, is one the next run can read.
THEOREM TypeCorrect == Spec => []TypeOK
<1>1. Init => TypeOK
    <2> SUFFICES ASSUME Init PROVE TypeOK
        OBVIOUS
    <2>1. board \in [Notices -> Content] /\ page \in [Notices -> Page]
        BY InitTypes DEF Init
    <2> QED
        BY <2>1, InitTypes, BoundsAssumption DEF Init, TypeOK, Outcomes
<1>2. TypeOK /\ [Next]_vars => TypeOK'
    BY TypeStep
<1> QED
    BY <1>1, <1>2, PTL DEF Spec

-----------------------------------------------------------------------------
\* The inductive invariant

\* A sighting that can still confirm is what the latest recorded run saw.
SightingsAreTrue(s) == \A n \in s.recent : s.witness[n] = s.candidate[n]

\* A version that counts as read is on the page or will be read again.
Accounted(s) ==
    \A n \in Notices : s.read[n] # NoVersion =>
        page[n].hash = s.read[n] \/ n \in s.pending \/ s.candidate[n] # NoChange

\* During a run the candidates are those of the last job: a page is written
\* under them whichever of the three states survives.
CandidatesAgree == disk.candidate = saved.candidate /\ mem.candidate = saved.candidate

\* What the run still wants to write is what it compared with the page.
EntriesCompared ==
    \A n \in run.todo : run.saw[n] = ChangeOf(n, run.item[n])

\* Nothing that was read gets lost between preflight and the record.
ReadsAccounted ==
    \A n \in Read :
        \/ SourceOf[n] \in run.quarantined
        \/ n \in run.deferred \cup run.todo \cup run.observed \cup PendingPages
        \/ page[n].hash = run.item[n]

ApplyingInv ==
    /\ EntriesCompared
    /\ ReadsAccounted
    /\ \A n \in run.observed : run.saw[n] # NoChange
    /\ \A n \in run.cleared : n \in PendingPages \/ page[n].hash = mem.read[n]

RunInv ==
    /\ TypeOK
    /\ SightingsAreTrue(saved) /\ SightingsAreTrue(disk) /\ SightingsAreTrue(mem)
    /\ Accounted(saved) /\ Accounted(disk) /\ Accounted(mem)
    /\ CandidatesAgree
    /\ pc \in {"collect", "preflight"} => run.cleared = {}
    /\ pc = "apply" => ApplyingInv

-----------------------------------------------------------------------------
\* Writing a page

\* An entry that changes what its page holds was seen by the latest recorded
\* run with the very same change.
LEMMA WritesAreConfirmed ==
    ASSUME TypeOK, EntriesCompared,
           NEW n \in NextEntries, ~Unconfirmed(n),
           page[n] # NoPage, page[n].hash # run.item[n], ~InitialPending(n, run.item[n])
    PROVE  /\ Confirmed(n, run.saw[n])
           /\ run.saw[n] = [from |-> page[n].hash, to |-> run.item[n]]
<1>1. n \in run.todo
    BY EntryType
<1>2. run.saw[n] = [from |-> page[n].hash, to |-> run.item[n]]
    BY <1>1 DEF EntriesCompared, ChangeOf
<1>3. run.saw[n] # NoChange
    BY <1>2 DEF NoChange
<1> QED
    BY <1>2, <1>3 DEF Unconfirmed

\* A write keeps every read version accounted for, whatever it leaves on the
\* page, in each state that has the candidates the run was started with.
LEMMA WriteKeepsAccounted ==
    ASSUME TypeOK, EntriesCompared,
           NEW n \in NextEntries, ~Unconfirmed(n),
           NEW p, p.hash = page[n].hash \/ p.hash = run.item[n],
           page' = [page EXCEPT ![n] = p],
           NEW s \in State, s.candidate = mem.candidate, Accounted(s)
    PROVE  \A m \in Notices : s.read[m] # NoVersion =>
              page'[m].hash = s.read[m] \/ m \in s.pending \/ s.candidate[m] # NoChange
<1> SUFFICES ASSUME NEW m \in Notices, s.read[m] # NoVersion,
                    m \notin s.pending, s.candidate[m] = NoChange
             PROVE  page'[m].hash = s.read[m]
    OBVIOUS
<1>1. page[m].hash = s.read[m]
    BY DEF Accounted
<1>2. n \in Notices
    BY EntryType
<1>3. CASE m # n
    BY <1>1, <1>2, <1>3 DEF TypeOK
<1>4. CASE m = n
    <2>1. page'[n] = p
        BY <1>2 DEF TypeOK
    <2>2. page[n] # NoPage /\ ~InitialPending(n, run.item[n])
        BY <1>1, <1>4 DEF NoPage, InitialPending
    <2>3. ASSUME page[n].hash # run.item[n] PROVE FALSE
        <3>1. Confirmed(n, run.saw[n])
            BY <2>2, <2>3, WritesAreConfirmed
        <3>2. s.candidate[n] # NoChange
            BY <3>1 DEF Confirmed
        <3> QED
            BY <1>4, <3>2
    <2> QED
        BY <1>1, <1>4, <2>1, <2>3
<1> QED
    BY <1>3, <1>4

\* So does a write that is cut short.
LEMMA CutShortKeepsAccounted ==
    ASSUME RunInv, CutShort,
           NEW s \in State, s.candidate = mem.candidate, Accounted(s)
    PROVE  \A m \in Notices : s.read[m] # NoVersion =>
              page'[m].hash = s.read[m] \/ m \in s.pending \/ s.candidate[m] # NoChange
<1>1. CASE UNCHANGED page
    BY <1>1 DEF Accounted
<1>2. CASE ~UNCHANGED page
    <2>1. PICK n \in NextEntries :
            /\ ~Unconfirmed(n)
            /\ \E p \in Interrupted(n, run.item[n]) : page' = [page EXCEPT ![n] = p]
        BY <1>2 DEF CutShort
    <2>2. PICK p \in Interrupted(n, run.item[n]) : page' = [page EXCEPT ![n] = p]
        BY <2>1
    <2>3. p.hash = page[n].hash \/ p.hash = run.item[n]
        BY <2>2 DEF Interrupted, Committed
    <2>4. TypeOK /\ EntriesCompared
        BY <1>2 DEF RunInv, ApplyingInv, CutShort
    <2> QED
        BY <2>1, <2>2, <2>3, <2>4, WriteKeepsAccounted
<1> QED
    BY <1>1, <1>2

-----------------------------------------------------------------------------
\* The states a run leaves

LEMMA UpdatedIsTrue ==
    ASSUME TypeOK, NEW banned \in BOOLEAN
    PROVE  SightingsAreTrue(Updated(banned))
<1>1. Updated(banned).recent = run.observed /\ Updated(banned).witness = run.saw
    BY DEF Updated
<1>2. run.observed \subseteq Notices
    BY DEF TypeOK, Run
<1>3. \A n \in run.observed : Updated(banned).candidate[n] = run.saw[n]
    BY <1>2 DEF Updated
<1> QED
    BY <1>1, <1>3 DEF SightingsAreTrue

LEMMA UpdatedIsAccounted ==
    ASSUME TypeOK, ApplyingInv, Accounted(mem), run.todo = {}, NEW banned \in BOOLEAN
    PROVE  Accounted(Updated(banned))
<1> DEFINE s == Updated(banned)
<1> SUFFICES ASSUME NEW n \in Notices, s.read[n] # NoVersion,
                    n \notin s.pending, s.candidate[n] = NoChange
             PROVE  page[n].hash = s.read[n]
    BY DEF Accounted
<1>1. n \notin mem.pending /\ n \notin PendingPages /\ n \notin run.deferred
    BY DEF Updated, StillPending
<1>2. n \notin run.observed
    BY DEF Updated, ApplyingInv
<1>3. s.read[n] = IF n \in Read /\ SourceOf[n] \in Applied(banned)
                  THEN run.item[n] ELSE mem.read[n]
    BY DEF Updated
<1>4. CASE n \in Read /\ SourceOf[n] \in Applied(banned)
    <2>1. SourceOf[n] \notin run.quarantined
        BY <1>4 DEF Applied, QuarantinedAtEnd
    <2> QED
        BY <1>1, <1>2, <1>3, <1>4, <2>1 DEF ApplyingInv, ReadsAccounted
<1>5. CASE ~(n \in Read /\ SourceOf[n] \in Applied(banned))
    <2>1. CASE n \in run.cleared
        BY <1>1, <1>3, <1>5, <2>1 DEF ApplyingInv
    <2>2. CASE n \notin run.cleared
        <3>1. mem.candidate[n] = NoChange
            BY <1>2, <2>2 DEF Updated
        <3> QED
            BY <1>1, <1>3, <1>5, <3>1 DEF Accounted
    <2> QED
        BY <2>1, <2>2
<1> QED
    BY <1>4, <1>5

\* A job that ends leaves three equal states, the one it ended with or the
\* one it started from.
LEMMA EndJobKeeps ==
    ASSUME NEW s, NEW how, NEW cost, EndJob(s, how, cost)
    PROVE  /\ saved' = s \/ saved' = saved
           /\ disk' = saved' /\ mem' = saved'
           /\ pc' = "idle"
           /\ outcome' = "lost" \/ (saved' = s /\ outcome' = how)
BY DEF EndJob

\* The end of a job keeps the invariant if both states it can leave are
\* accounted for on the pages it leaves.
LEMMA EndJobKeepsInv ==
    ASSUME RunInv, TypeOK', NEW s \in State, NEW how, NEW cost, EndJob(s, how, cost),
           SightingsAreTrue(s),
           \A t \in {saved, s} : \A m \in Notices : t.read[m] # NoVersion =>
              page'[m].hash = t.read[m] \/ m \in t.pending \/ t.candidate[m] # NoChange
    PROVE  RunInv'
<1>1. /\ saved' \in {saved, s}
      /\ disk' = saved' /\ mem' = saved'
      /\ pc' = "idle"
    BY EndJobKeeps
<1>2. SightingsAreTrue(saved)'
    BY <1>1 DEF RunInv, SightingsAreTrue
<1>3. Accounted(saved)'
    BY <1>1 DEF Accounted
<1>4. (SightingsAreTrue(disk) /\ SightingsAreTrue(mem))'
    BY <1>1, <1>2 DEF SightingsAreTrue
<1>5. (Accounted(disk) /\ Accounted(mem))'
    BY <1>1, <1>3 DEF Accounted
<1>6. CandidatesAgree'
    BY <1>1 DEF CandidatesAgree
<1>7. pc' \notin {"collect", "preflight", "apply"}
    BY <1>1
<1> QED
    BY <1>2, <1>3, <1>4, <1>5, <1>6, <1>7 DEF RunInv

\* A record that leaves read versions, pending notices and candidates in
\* place, or adds pending notices, keeps them accounted for.
LEMMA CutShortEnds ==
    ASSUME RunInv, TypeOK', CutShort,
           NEW base \in {mem, disk}, NEW s \in State, NEW how, NEW cost, EndJob(s, how, cost),
           SightingsAreTrue(s), s.read = base.read, s.candidate = base.candidate,
           base.pending \subseteq s.pending
    PROVE  RunInv'
<1>1. saved \in State /\ mem \in State /\ disk \in State
    BY DEF RunInv, TypeOK
<1>2. saved.candidate = mem.candidate /\ base.candidate = mem.candidate
    BY DEF RunInv, CandidatesAgree
<1>3. \A m \in Notices : saved.read[m] # NoVersion =>
         page'[m].hash = saved.read[m] \/ m \in saved.pending \/ saved.candidate[m] # NoChange
    BY <1>1, <1>2, CutShortKeepsAccounted DEF RunInv
<1>4. \A m \in Notices : base.read[m] # NoVersion =>
         page'[m].hash = base.read[m] \/ m \in base.pending \/ base.candidate[m] # NoChange
    <2>1. base \in State /\ Accounted(base)
        BY <1>1 DEF RunInv
    <2> QED
        BY <1>2, <2>1, CutShortKeepsAccounted
<1>5. \A m \in Notices : s.read[m] # NoVersion =>
         page'[m].hash = s.read[m] \/ m \in s.pending \/ s.candidate[m] # NoChange
    BY <1>4
<1> QED
    BY <1>3, <1>5, EndJobKeepsInv

-----------------------------------------------------------------------------
\* Every step keeps the invariant

\* While the pages and the process stay as they are, the three states are all
\* there is to look at.
LEMMA StatesOnly ==
    ASSUME RunInv, TypeOK', UNCHANGED <<page, run, pc>>, pc = "idle",
           SightingsAreTrue(saved)', Accounted(saved)', disk' = saved', mem' = saved'
    PROVE  RunInv'
<1>1. (SightingsAreTrue(disk) /\ SightingsAreTrue(mem) /\ Accounted(disk) /\ Accounted(mem))'
    BY DEF SightingsAreTrue, Accounted
<1>2. CandidatesAgree'
    BY DEF CandidatesAgree
<1> QED
    BY <1>1, <1>2 DEF RunInv

LEMMA BoardStep ==
    ASSUME RunInv, TypeOK', NEW n \in Notices, ChangeBoard(n)
    PROVE  RunInv'
BY DEF ChangeBoard, RunInv, SightingsAreTrue, Accounted, CandidatesAgree

LEMMA StartStep ==
    ASSUME RunInv, TypeOK', NEW rerun \in BOOLEAN, StartRun(rerun)
    PROVE  RunInv'
<1>1. /\ mem'.read = mem.read /\ mem'.candidate = mem.candidate
      /\ mem'.recent = mem.recent /\ mem'.witness = mem.witness
      /\ mem.pending \subseteq mem'.pending
    BY DEF StartRun, RunInv, TypeOK, State
<1>2. (SightingsAreTrue(mem) /\ Accounted(mem))'
    BY <1>1 DEF StartRun, RunInv, SightingsAreTrue, Accounted
<1>3. (SightingsAreTrue(saved) /\ SightingsAreTrue(disk) /\ Accounted(saved) /\ Accounted(disk))'
    BY DEF StartRun, RunInv, SightingsAreTrue, Accounted
<1>4. CandidatesAgree'
    BY <1>1 DEF StartRun, RunInv, CandidatesAgree
<1>5. pc' = "collect" /\ run'.cleared = {}
    BY DEF StartRun, NoRun
<1> QED
    BY <1>2, <1>3, <1>4, <1>5 DEF RunInv

\* A step that leaves the pages and the three states alone.
LEMMA StatesKept ==
    ASSUME RunInv, TypeOK', UNCHANGED <<page, saved, disk, mem>>,
           pc' \in {"collect", "preflight"} => run'.cleared = {},
           pc' = "apply" => ApplyingInv'
    PROVE  RunInv'
<1>1. CandidatesAgree'
    BY DEF RunInv, CandidatesAgree
<1>2. (SightingsAreTrue(saved) /\ SightingsAreTrue(disk) /\ SightingsAreTrue(mem))'
    BY DEF RunInv, SightingsAreTrue
<1>3. (Accounted(saved) /\ Accounted(disk) /\ Accounted(mem))'
    BY DEF RunInv, Accounted
<1> QED
    BY <1>1, <1>2, <1>3 DEF RunInv

LEMMA CollectStep ==
    ASSUME RunInv, TypeOK', NEW safe, NEW due, Collect(safe, due)
    PROVE  RunInv'
<1>1. run'.cleared = {}
    BY DEF Collect, RunInv, TypeOK, Run
<1>2. pc' # "apply"
    BY DEF Collect
<1> QED
    BY <1>1, <1>2, StatesKept DEF Collect

LEMMA PreflightStep ==
    ASSUME RunInv, TypeOK', NEW deferred, Preflight(deferred)
    PROVE  RunInv'
<1> DEFINE saw == [n \in Notices |-> IF n \in Read \ deferred
                                     THEN ChangeOf(n, run.item[n]) ELSE NoChange]
           unsure == {n \in PendingPages : saw[n] # NoChange /\ ~Confirmed(n, saw[n])}
           quarantined == SourcesOf(PendingPages \ Read) \cup SourcesOf(unsure)
           todo == {n \in Read \ deferred : SourceOf[n] \notin quarantined}
<1>1. run' = [run EXCEPT !.saw = saw, !.waiting = PendingPages, !.deferred = deferred,
                         !.quarantined = quarantined, !.observed = unsure, !.todo = todo]
    BY DEF Preflight
<1>2. \A n \in todo : saw[n] = ChangeOf(n, run.item[n])
    BY DEF Read
<1>3. \A n \in unsure : saw[n] # NoChange
    OBVIOUS
<1>4. \A n \in Read : SourceOf[n] \in quarantined \/ n \in deferred \cup todo
    OBVIOUS
<1> HIDE DEF saw, unsure, quarantined, todo
<1>5. /\ run'.saw = saw /\ run'.deferred = deferred /\ run'.quarantined = quarantined
      /\ run'.observed = unsure /\ run'.todo = todo
      /\ run'.item = run.item /\ run'.cleared = run.cleared
    BY <1>1 DEF RunInv, TypeOK, Run
<1>6. page' = page /\ mem' = mem
    BY DEF Preflight
<1>7. EntriesCompared'
    BY <1>2, <1>5, <1>6 DEF EntriesCompared, ChangeOf, InitialPending
<1>8. ReadsAccounted'
    BY <1>4, <1>5, <1>6 DEF ReadsAccounted, Read
<1>9. run'.cleared = {}
    BY <1>5 DEF RunInv, Preflight
<1>10. ApplyingInv'
    BY <1>3, <1>5, <1>7, <1>8, <1>9 DEF ApplyingInv
<1> QED
    BY <1>9, <1>10, StatesKept DEF Preflight

LEMMA ObserveStep ==
    ASSUME RunInv, TypeOK', NEW n \in Notices, ObserveEntry(n)
    PROVE  RunInv'
<1>1. TypeOK /\ ApplyingInv /\ pc = "apply" /\ pc' = "apply"
    BY DEF RunInv, ObserveEntry
<1>2. /\ run'.saw = run.saw /\ run'.item = run.item /\ run'.cleared = run.cleared
      /\ run'.quarantined = run.quarantined /\ run'.deferred = run.deferred
      /\ run'.todo = run.todo \ {n} /\ run'.observed = run.observed \cup {n}
      /\ page' = page /\ mem' = mem
    BY <1>1 DEF ObserveEntry, TypeOK, Run
<1>3. EntriesCompared'
    BY <1>1, <1>2 DEF ApplyingInv, EntriesCompared, ChangeOf, InitialPending
<1>4. ReadsAccounted'
    BY <1>1, <1>2 DEF ApplyingInv, ReadsAccounted, Read, PendingPages
<1>5. run.saw[n] # NoChange
    BY DEF ObserveEntry, Unconfirmed
<1>6. ApplyingInv'
    BY <1>1, <1>2, <1>3, <1>4, <1>5 DEF ApplyingInv, PendingPages
<1> QED
    BY <1>1, <1>6, StatesKept DEF ObserveEntry

\* A write of entry n leaves the other entries of the run as they were.
LEMMA OtherEntriesKept ==
    ASSUME TypeOK, ApplyingInv, NEW n \in NextEntries, NEW p,
           page' = [page EXCEPT ![n] = p],
           run' = [run EXCEPT !.todo = @ \ {n}, !.done = run'.done,
                              !.cleared = @ \cup {n}],
           p.status = "pending" \/ p.hash = run.item[n],
           \A m \in Notices \ {n} : mem'.read[m] = mem.read[m],
           p.status = "pending" \/ p.hash = mem'.read[n]
    PROVE  ApplyingInv'
<1>1. n \in Notices
    BY EntryType
<1>2. /\ run'.saw = run.saw /\ run'.item = run.item /\ run'.observed = run.observed
      /\ run'.quarantined = run.quarantined /\ run'.deferred = run.deferred
      /\ run'.todo = run.todo \ {n} /\ run'.cleared = run.cleared \cup {n}
    BY DEF TypeOK, Run
<1>3. page'[n] = p /\ \A m \in Notices \ {n} : page'[m] = page[m]
    BY <1>1 DEF TypeOK
<1>4. run.todo \subseteq Notices /\ run.cleared \subseteq Notices
    BY DEF TypeOK, Run
<1>5. EntriesCompared'
    BY <1>2, <1>3, <1>4 DEF ApplyingInv, EntriesCompared, ChangeOf, InitialPending
<1>6. \A m \in Notices \ {n} : m \in PendingPages' <=> m \in PendingPages
    BY <1>3 DEF PendingPages
<1>7. n \in PendingPages' \/ p.status # "pending"
    BY <1>1, <1>3 DEF PendingPages
<1>8. ReadsAccounted'
    <2> SUFFICES ASSUME NEW m \in Notices, run.item[m] # NoVersion
                 PROVE  \/ SourceOf[m] \in run'.quarantined
                        \/ m \in run'.deferred \cup run'.todo \cup run'.observed \cup PendingPages'
                        \/ page'[m].hash = run'.item[m]
        BY <1>2 DEF ReadsAccounted, Read
    <2>1. CASE m = n
        BY <1>2, <1>3, <1>7, <2>1
    <2>2. CASE m # n
        BY <1>2, <1>3, <1>6, <2>2 DEF ApplyingInv, ReadsAccounted, Read
    <2> QED
        BY <2>1, <2>2
<1>9. \A m \in run'.cleared : m \in PendingPages' \/ page'[m].hash = mem'.read[m]
    BY <1>2, <1>3, <1>4, <1>6, <1>7 DEF ApplyingInv
<1>10. \A m \in run'.observed : run'.saw[m] # NoChange
    BY <1>2 DEF ApplyingInv
<1> QED
    BY <1>5, <1>8, <1>9, <1>10 DEF ApplyingInv

LEMMA CompleteStep ==
    ASSUME RunInv, TypeOK', NEW n \in Notices, CompleteEntry(n)
    PROVE  RunInv'
<1> DEFINE v == run.item[n]
<1>1. TypeOK /\ ApplyingInv /\ EntriesCompared /\ pc' = "apply"
    BY DEF RunInv, CompleteEntry, ApplyingInv
<1>2. Committed(v).hash = v /\ page' = [page EXCEPT ![n] = Committed(v)]
    BY DEF CompleteEntry, Committed
<1>3. /\ mem' = Checkpoint(n) /\ disk' = Checkpoint(n) /\ saved' = saved
      /\ n \in NextEntries /\ ~Unconfirmed(n)
    BY DEF CompleteEntry
<1>4. /\ Checkpoint(n).read = [mem.read EXCEPT ![n] = v]
      /\ Checkpoint(n).pending = mem.pending \ {n}
      /\ Checkpoint(n).candidate = mem.candidate
      /\ Checkpoint(n).recent = mem.recent
      /\ Checkpoint(n).witness = mem.witness
    BY <1>1 DEF Checkpoint, TypeOK, State
<1>5. \A s \in State : s.candidate = mem.candidate /\ Accounted(s) =>
         \A m \in Notices : s.read[m] # NoVersion =>
            page'[m].hash = s.read[m] \/ m \in s.pending \/ s.candidate[m] # NoChange
    <2> SUFFICES ASSUME NEW s \in State, s.candidate = mem.candidate, Accounted(s)
                 PROVE  \A m \in Notices : s.read[m] # NoVersion =>
                           page'[m].hash = s.read[m] \/ m \in s.pending
                              \/ s.candidate[m] # NoChange
        OBVIOUS
    <2> QED
        BY <1>1, <1>2, <1>3, WriteKeepsAccounted
<1>6. Accounted(saved)'
    BY <1>1, <1>3, <1>5 DEF RunInv, TypeOK, CandidatesAgree, Accounted
<1>7. Accounted(mem)'
    <2> SUFFICES ASSUME NEW m \in Notices, mem'.read[m] # NoVersion
                 PROVE  \/ page'[m].hash = mem'.read[m]
                        \/ m \in mem'.pending
                        \/ mem'.candidate[m] # NoChange
        BY DEF Accounted
    <2>1. CASE m = n
        BY <1>1, <1>2, <1>3, <1>4, <2>1 DEF TypeOK, State
    <2>2. CASE m # n
        <3>1. mem'.read[m] = mem.read[m] /\ (m \in mem.pending => m \in mem'.pending)
            BY <1>3, <1>4, <2>2
        <3>2. page'[m].hash = mem.read[m] \/ m \in mem.pending \/ mem.candidate[m] # NoChange
            BY <1>1, <1>5, <3>1 DEF RunInv, TypeOK
        <3> QED
            BY <1>3, <1>4, <3>1, <3>2
    <2> QED
        BY <2>1, <2>2
<1>8. Accounted(disk)'
    BY <1>3, <1>7 DEF Accounted
<1>9. (SightingsAreTrue(saved) /\ SightingsAreTrue(disk) /\ SightingsAreTrue(mem))'
    BY <1>3, <1>4 DEF RunInv, SightingsAreTrue
<1>10. CandidatesAgree'
    BY <1>3, <1>4 DEF RunInv, CandidatesAgree
<1>11. ApplyingInv'
    <2>1. /\ mem'.read[n] = v
          /\ \A m \in Notices \ {n} : mem'.read[m] = mem.read[m]
        BY <1>1, <1>3, <1>4 DEF TypeOK, State
    <2>2. run' = [run EXCEPT !.todo = @ \ {n}, !.done = run'.done, !.cleared = @ \cup {n}]
        BY <1>1 DEF CompleteEntry, TypeOK, Run
    <2> QED
        BY <1>1, <1>2, <1>3, <2>1, <2>2, OtherEntriesKept
<1> QED
    BY <1>1, <1>6, <1>7, <1>8, <1>9, <1>10, <1>11 DEF RunInv

LEMMA HoldStep ==
    ASSUME RunInv, TypeOK', NEW n \in Notices, HoldEntry(n)
    PROVE  RunInv'
<1> DEFINE p == [status |-> "pending", hash |-> page[n].hash, draft |-> NoVersion]
<1>1. TypeOK /\ ApplyingInv /\ EntriesCompared /\ pc' = "apply"
    BY DEF RunInv, HoldEntry, ApplyingInv
<1>2. /\ page' = [page EXCEPT ![n] = p]
      /\ UNCHANGED <<saved, disk, mem>>
      /\ n \in NextEntries /\ ~Unconfirmed(n)
    BY DEF HoldEntry
<1>3. p.status = "pending" /\ p.hash = page[n].hash
    OBVIOUS
<1>4. ASSUME NEW s \in State, s.candidate = mem.candidate, Accounted(s)
      PROVE  \A m \in Notices : s.read[m] # NoVersion =>
                page'[m].hash = s.read[m] \/ m \in s.pending \/ s.candidate[m] # NoChange
    <2> HIDE DEF p
    <2> QED
        BY <1>1, <1>2, <1>3, <1>4, WriteKeepsAccounted
<1>5. (Accounted(saved) /\ Accounted(disk) /\ Accounted(mem))'
    BY <1>1, <1>2, <1>4 DEF RunInv, TypeOK, CandidatesAgree, Accounted
<1>6. (SightingsAreTrue(saved) /\ SightingsAreTrue(disk) /\ SightingsAreTrue(mem))'
    BY <1>2 DEF RunInv, SightingsAreTrue
<1>7. CandidatesAgree'
    BY <1>2 DEF RunInv, CandidatesAgree
<1>8. ApplyingInv'
    <2>1. run' = [run EXCEPT !.todo = @ \ {n}, !.done = run'.done, !.cleared = @ \cup {n}]
        BY <1>1 DEF HoldEntry, TypeOK, Run
    <2> HIDE DEF p
    <2> QED
        BY <1>1, <1>2, <1>3, <2>1, OtherEntriesKept
<1> QED
    BY <1>1, <1>5, <1>6, <1>7, <1>8 DEF RunInv

\* A finished run leaves the state it updated, with possibly more pending
\* notices, or the one it started from.
LEMMA UpdatedEnds ==
    ASSUME RunInv, TypeOK', pc = "apply", run.todo = {}, UNCHANGED page,
           NEW banned \in BOOLEAN, NEW s \in State, NEW how, NEW cost, EndJob(s, how, cost),
           s.read = Updated(banned).read, s.candidate = Updated(banned).candidate,
           s.recent = Updated(banned).recent, s.witness = Updated(banned).witness,
           Updated(banned).pending \subseteq s.pending
    PROVE  RunInv'
<1>1. TypeOK /\ ApplyingInv /\ Accounted(mem) /\ Accounted(saved)
    BY DEF RunInv
<1>2. SightingsAreTrue(s)
    BY <1>1, UpdatedIsTrue DEF SightingsAreTrue
<1>3. Accounted(Updated(banned))
    BY <1>1, UpdatedIsAccounted
<1>4. Accounted(s)
    BY <1>3 DEF Accounted
<1>5. \A t \in {saved, s} : \A m \in Notices : t.read[m] # NoVersion =>
         page'[m].hash = t.read[m] \/ m \in t.pending \/ t.candidate[m] # NoChange
    BY <1>1, <1>4 DEF Accounted
<1> QED
    BY <1>2, <1>5, EndJobKeepsInv

LEMMA FinishStep ==
    ASSUME RunInv, TypeOK', NEW banned \in BOOLEAN, FinishRun(banned)
    PROVE  RunInv'
<1>1. Updated(banned) \in State
    BY UpdatedType DEF RunInv
<1>2. PICK how \in Outcomes : EndJob(Updated(banned), how, 0)
    <2>1. (IF Failing(banned) THEN "partial_failed"
           ELSE IF QuarantinedAtEnd # {} THEN "safety_deferred" ELSE "succeeded") \in Outcomes
        BY DEF Outcomes
    <2> QED
        BY <2>1 DEF FinishRun
<1> QED
    BY <1>1, <1>2, UpdatedEnds DEF FinishRun

LEMMA FailRecordedStep ==
    ASSUME RunInv, TypeOK', NEW banned \in BOOLEAN, FailRecorded(banned)
    PROVE  RunInv'
<1> DEFINE unfinished == {n \in Read \ run.done :
                            HoldRepeated => SourceOf[n] \notin QuarantinedAtEnd}
           left == [Updated(banned) EXCEPT !.pending = @ \cup unfinished, !.alarm = TRUE]
<1>1. EndJob(left, "failed", 1)
    BY DEF FailRecorded
<1>2. Updated(banned) \in State
    BY UpdatedType DEF RunInv
<1>3. unfinished \subseteq Notices
    BY DEF Read
<1> HIDE DEF unfinished
<1>4. /\ left \in State
      /\ left.read = Updated(banned).read /\ left.candidate = Updated(banned).candidate
      /\ left.recent = Updated(banned).recent /\ left.witness = Updated(banned).witness
      /\ Updated(banned).pending \subseteq left.pending
    BY <1>2, <1>3 DEF State
<1> HIDE DEF left
<1> QED
    BY <1>1, <1>4, UpdatedEnds DEF FailRecorded

\* Recorded keeps what was read, pending and noted, and confirms nothing.
LEMMA RecordedKeeps ==
    ASSUME NEW s \in State, NEW saw \in [Notices -> Change]
    PROVE  /\ Recorded(s, saw) \in State
           /\ Recorded(s, saw).read = s.read
           /\ Recorded(s, saw).candidate = s.candidate
           /\ Recorded(s, saw).pending = s.pending
           /\ Recorded(s, saw).recent = {}
BY DEF Recorded, State

LEMMA FailStep ==
    ASSUME RunInv, TypeOK', Fail
    PROVE  RunInv'
<1> DEFINE r == Recorded(mem, run.saw)
           left == [r EXCEPT !.pending = @ \cup (Read \ run.done), !.alarm = TRUE]
<1>1. EndJob(left, "failed", 1) /\ CutShort
    BY DEF Fail
<1>2. /\ r \in State /\ r.read = mem.read /\ r.candidate = mem.candidate
      /\ r.pending = mem.pending /\ r.recent = {}
    BY RecordedKeeps DEF RunInv, TypeOK, Run
<1>3. Read \ run.done \subseteq Notices
    BY DEF Read
<1> HIDE DEF r
<1>4. /\ left \in State /\ left.read = mem.read /\ left.candidate = mem.candidate
      /\ mem.pending \subseteq left.pending /\ left.recent = {}
    BY <1>2, <1>3 DEF State
<1> HIDE DEF left
<1>5. SightingsAreTrue(left)
    BY <1>4 DEF SightingsAreTrue
<1> QED
    BY <1>1, <1>4, <1>5, CutShortEnds

LEMMA FinishUnreadStep ==
    ASSUME RunInv, TypeOK', FinishUnread
    PROVE  RunInv'
<1> DEFINE r == Recorded(mem, NoRun.saw)
           left == [r EXCEPT !.alarm = TRUE]
<1>1. EndJob(left, "partial_failed", 0) /\ CutShort
    BY DEF FinishUnread, CutShort
<1>2. /\ r \in State /\ r.read = mem.read /\ r.candidate = mem.candidate
      /\ r.pending = mem.pending /\ r.recent = {}
    BY RecordedKeeps, InitTypes DEF RunInv, TypeOK, Run
<1> HIDE DEF r
<1>3. /\ left \in State /\ left.read = mem.read /\ left.candidate = mem.candidate
      /\ mem.pending \subseteq left.pending /\ left.recent = {}
    BY <1>2 DEF State
<1> HIDE DEF left
<1>4. SightingsAreTrue(left)
    BY <1>3 DEF SightingsAreTrue
<1> QED
    BY <1>1, <1>3, <1>4, CutShortEnds

LEMMA KillStep ==
    ASSUME RunInv, TypeOK', Kill
    PROVE  RunInv'
<1>1. EndJob(disk, "killed", 1) /\ CutShort
    BY DEF Kill
<1>2. disk \in State /\ SightingsAreTrue(disk)
    BY DEF RunInv, TypeOK
<1> QED
    BY <1>1, <1>2, CutShortEnds

\* A record between two runs that apply, and an expiry, keep what was read,
\* pending and noted, and confirm no more than before.
LEMMA BetweenRuns ==
    ASSUME RunInv, TypeOK', UNCHANGED <<page, run, pc>>, pc = "idle",
           disk' = saved', mem' = saved',
           saved'.read = saved.read, saved'.candidate = saved.candidate,
           saved'.pending = saved.pending,
           SightingsAreTrue(saved')
    PROVE  RunInv'
<1>1. Accounted(saved)'
    BY DEF RunInv, Accounted
<1>2. SightingsAreTrue(saved)'
    BY DEF SightingsAreTrue
<1> QED
    BY <1>1, <1>2, StatesOnly

LEMMA SchemaStep ==
    ASSUME RunInv, TypeOK', SchemaRun
    PROVE  RunInv'
<1>1. saved' = Recorded(saved, NoRun.saw) /\ disk' = saved' /\ mem' = saved'
    BY DEF SchemaRun, RecordOther
<1>2. /\ saved'.read = saved.read /\ saved'.candidate = saved.candidate
      /\ saved'.pending = saved.pending /\ saved'.recent = {}
    BY <1>1, RecordedKeeps, InitTypes DEF RunInv, TypeOK, Run
<1>3. SightingsAreTrue(saved')
    BY <1>2 DEF SightingsAreTrue
<1> QED
    BY <1>1, <1>2, <1>3, BetweenRuns DEF SchemaRun, RecordOther

LEMMA DryStep ==
    ASSUME RunInv, TypeOK', DryRun
    PROVE  RunInv'
<1>1. saved' = [saved EXCEPT !.alarm = TRUE] /\ disk' = saved' /\ mem' = saved'
    BY DEF DryRun, RecordOther
<1>2. /\ saved'.read = saved.read /\ saved'.candidate = saved.candidate
      /\ saved'.pending = saved.pending /\ saved'.recent = saved.recent
      /\ saved'.witness = saved.witness
    BY <1>1 DEF RunInv, TypeOK, State
<1>3. SightingsAreTrue(saved')
    BY <1>2 DEF RunInv, SightingsAreTrue
<1> QED
    BY <1>1, <1>2, <1>3, BetweenRuns DEF DryRun, RecordOther

LEMMA ExpireStep ==
    ASSUME RunInv, TypeOK', NEW n \in Notices, Expire(n)
    PROVE  RunInv'
<1>1. \A s \in {saved, disk, mem} :
         LET t == [s EXCEPT !.recent = @ \ {n}]
         IN  /\ t.read = s.read /\ t.pending = s.pending /\ t.candidate = s.candidate
             /\ t.witness = s.witness /\ t.recent = s.recent \ {n}
    BY DEF RunInv, TypeOK, State
<1>2. UNCHANGED <<page, run, pc>>
    BY DEF Expire
<1>3. (Accounted(saved) /\ Accounted(disk) /\ Accounted(mem))'
    BY <1>1, <1>2 DEF Expire, RunInv, Accounted
<1>4. (SightingsAreTrue(saved) /\ SightingsAreTrue(disk) /\ SightingsAreTrue(mem))'
    BY <1>1 DEF Expire, RunInv, SightingsAreTrue
<1>5. CandidatesAgree'
    BY <1>1 DEF Expire, RunInv, CandidatesAgree
<1>6. mem'.read = mem.read
    BY <1>1 DEF Expire
<1>7. pc' = "apply" => ApplyingInv'
    BY <1>2, <1>6 DEF RunInv, ApplyingInv, EntriesCompared, ReadsAccounted, ChangeOf,
       InitialPending, PendingPages, Read
<1> QED
    BY <1>2, <1>3, <1>4, <1>5, <1>7 DEF RunInv

LEMMA InvInit == Init => RunInv
<1> SUFFICES ASSUME Init PROVE RunInv
    OBVIOUS
<1>1. TypeOK
    <2>1. board \in [Notices -> Content] /\ page \in [Notices -> Page]
        BY InitTypes DEF Init
    <2> QED
        BY <2>1, InitTypes, BoundsAssumption DEF Init, TypeOK, Outcomes
<1> QED
    BY <1>1 DEF Init, RunInv, SightingsAreTrue, Accounted, CandidatesAgree, EmptyState

LEMMA InvStep == RunInv /\ [Next]_vars => RunInv'
<1> SUFFICES ASSUME RunInv, [Next]_vars PROVE RunInv'
    OBVIOUS
<1>1. TypeOK'
    BY TypeStep DEF RunInv
<1>2. CASE UNCHANGED vars
    <2>1. pc' = "apply" => ApplyingInv'
        BY <1>2 DEF vars, RunInv, ApplyingInv, EntriesCompared, ReadsAccounted, ChangeOf,
           InitialPending, PendingPages, Read
    <2> QED
        BY <1>1, <1>2, <2>1, StatesKept DEF vars, RunInv
<1>3. CASE RunStep
    BY <1>1, <1>3, StartStep, CollectStep, PreflightStep, ObserveStep, CompleteStep, HoldStep,
       FinishStep, FinishUnreadStep DEF RunStep
<1>4. CASE Environment
    BY <1>1, <1>4, BoardStep, ExpireStep, FailRecordedStep, FailStep, KillStep, SchemaStep,
       DryStep DEF Environment
<1> QED
    BY <1>2, <1>3, <1>4 DEF Next

LEMMA Invariant == Spec => []RunInv
BY InvInit, InvStep, PTL DEF Spec

-----------------------------------------------------------------------------
\* The results

\* Whatever failed, was killed or was lost: a version the saved state counts
\* as read is the one on the page, or the notice will be read again.
THEOREM ReadIsAlwaysServed == Spec => []ReadIsServed
<1>1. RunInv => ReadIsServed
    BY DEF RunInv, Accounted, ReadIsServed
<1> QED
    BY <1>1, Invariant, PTL

\* A page that has content is only rewritten if the latest recorded run,
\* another logical run, itself saw the very same change.
THEOREM ChangesAreConfirmedTwice == Spec => ConfirmedTwice
<1> DEFINE Step == \A n \in Notices : Overwrites(n) =>
                      /\ mem.witness[n] = [from |-> page[n].hash, to |-> run.item[n]]
                      /\ ~run.rerun
<1>1. ASSUME RunInv, Next PROVE Step
    <2> SUFFICES ASSUME NEW n \in Notices, Overwrites(n)
                 PROVE  /\ mem.witness[n] = [from |-> page[n].hash, to |-> run.item[n]]
                        /\ ~run.rerun
        OBVIOUS
    <2>1. /\ page'[n] # page[n] /\ page[n] # NoPage
          /\ page[n].hash # run.item[n] /\ ~InitialPending(n, run.item[n])
        BY DEF Overwrites
    <2>2. pc = "apply" /\ n \in NextEntries /\ ~Unconfirmed(n)
        <3>1. ASSUME NEW m \in Notices, CompleteEntry(m) \/ HoldEntry(m)
              PROVE  pc = "apply" /\ n \in NextEntries /\ ~Unconfirmed(n)
            <4>1. \E q : page' = [page EXCEPT ![m] = q]
                BY <3>1 DEF CompleteEntry, HoldEntry
            <4>2. m = n
                BY <1>1, <2>1, <4>1 DEF RunInv, TypeOK
            <4> QED
                BY <3>1, <4>2 DEF CompleteEntry, HoldEntry
        <3>2. ASSUME CutShort
              PROVE  pc = "apply" /\ n \in NextEntries /\ ~Unconfirmed(n)
            <4>1. PICK m \in NextEntries :
                    /\ pc = "apply" /\ ~Unconfirmed(m)
                    /\ \E p \in Interrupted(m, run.item[m]) : page' = [page EXCEPT ![m] = p]
                BY <2>1, <3>2 DEF CutShort
            <4>2. m = n
                BY <2>1, <4>1, EntryType DEF RunInv, TypeOK
            <4> QED
                BY <4>1, <4>2
        <3>3. CASE Fail \/ Kill
            BY <3>2, <3>3 DEF Fail, Kill
        <3>4. \/ \E m \in Notices : CompleteEntry(m) \/ HoldEntry(m)
              \/ Fail \/ Kill
            BY <1>1, <2>1 DEF Next, RunStep, Environment, StartRun, Collect, Preflight,
               ObserveEntry, FinishRun, FinishUnread, ChangeBoard, Expire, FailRecorded,
               SchemaRun, DryRun, RecordOther
        <3> QED
            BY <3>1, <3>3, <3>4
    <2>3. TypeOK /\ EntriesCompared
        BY <1>1, <2>2 DEF RunInv, ApplyingInv
    <2>4. /\ Confirmed(n, run.saw[n])
          /\ run.saw[n] = [from |-> page[n].hash, to |-> run.item[n]]
        BY <2>1, <2>2, <2>3, WritesAreConfirmed
    <2> QED
        BY <1>1, <2>4 DEF Confirmed, RunInv, SightingsAreTrue
<1>2. RunInv /\ [Next]_vars => [Step]_vars
    BY <1>1
<1>3. Spec => [][Step]_vars
    <2> HIDE DEF Step
    <2> QED
        BY <1>2, Invariant, PTL DEF Spec
<1> QED
    BY <1>3 DEF ConfirmedTwice

\* After a run that recorded its end, every page left pending is among the
\* notices the next run reads first, or the alarm makes it look for them.
THEOREM PendingAlwaysRemembered == Spec => []PendingRemembered
<1>1. Init => PendingRemembered
    BY DEF Init, PendingRemembered
<1>2. RunInv /\ PendingRemembered /\ [Next]_vars => PendingRemembered'
    <2> SUFFICES ASSUME RunInv, PendingRemembered, [Next]_vars,
                        pc' = "idle",
                        outcome' \in {"succeeded", "safety_deferred", "partial_failed", "failed"}
                 PROVE  saved'.alarm \/ PendingPages' \subseteq saved'.pending
        BY DEF PendingRemembered
    <2>1. saved \in State /\ mem \in State
        BY DEF RunInv, TypeOK
    <2>2. CASE UNCHANGED <<page, pc, outcome, saved>>
        BY <2>2 DEF PendingRemembered, PendingPages
    <2>3. ASSUME NEW n \in Notices, Expire(n)
          PROVE  saved'.alarm \/ PendingPages' \subseteq saved'.pending
        BY <2>1, <2>3 DEF Expire, PendingRemembered, PendingPages, State
    <2>4. ASSUME NEW banned \in BOOLEAN, FinishRun(banned)
          PROVE  saved'.alarm \/ PendingPages' \subseteq saved'.pending
        <3>1. saved' = Updated(banned) /\ page' = page
            BY <2>4 DEF FinishRun, EndJob
        <3> QED
            BY <3>1 DEF Updated, StillPending, PendingPages
    <2>5. CASE FinishUnread
        <3>1. Recorded(mem, NoRun.saw) \in State
            BY <2>1, RecordedType, InitTypes DEF Run
        <3>2. saved' = [Recorded(mem, NoRun.saw) EXCEPT !.alarm = TRUE]
            BY <2>5 DEF FinishUnread, EndJob
        <3> QED
            BY <3>1, <3>2 DEF State
    <2>6. CASE Fail
        <3>1. Recorded(mem, run.saw) \in State
            BY <2>1, RecordedType DEF RunInv, TypeOK, Run
        <3>2. saved' = [Recorded(mem, run.saw) EXCEPT
                          !.pending = @ \cup (Read \ run.done), !.alarm = TRUE]
            BY <2>6 DEF Fail, EndJob
        <3> QED
            BY <3>1, <3>2 DEF State
    <2>7. ASSUME NEW banned \in BOOLEAN, FailRecorded(banned)
          PROVE  saved'.alarm \/ PendingPages' \subseteq saved'.pending
        <3>1. Updated(banned) \in State
            BY UpdatedType DEF RunInv
        <3>2. saved'.alarm = TRUE
            BY <2>7, <3>1 DEF FailRecorded, EndJob, State
        <3> QED
            BY <3>2
    <2>8. ~Kill
        BY DEF Kill, EndJob
    <2>9. CASE SchemaRun
        <3>1. saved'.pending = saved.pending /\ saved'.alarm = saved.alarm
            BY <2>1, <2>9, InitTypes DEF SchemaRun, RecordOther, Recorded, State
        <3> QED
            BY <2>9, <3>1 DEF SchemaRun, RecordOther, PendingRemembered, PendingPages
    <2>10. CASE DryRun
        BY <2>1, <2>10 DEF DryRun, RecordOther, State
    <2>11. ASSUME NEW n \in Notices, ChangeBoard(n)
           PROVE  saved'.alarm \/ PendingPages' \subseteq saved'.pending
        BY <2>2, <2>11 DEF ChangeBoard
    <2>12. ~\E n \in Notices : ObserveEntry(n) \/ CompleteEntry(n) \/ HoldEntry(n)
        BY DEF ObserveEntry, CompleteEntry, HoldEntry
    <2>13. ~\E rerun \in BOOLEAN : StartRun(rerun)
        BY DEF StartRun
    <2>14. /\ ~\E safe \in SUBSET Sources, due \in SUBSET Notices : Collect(safe, due)
           /\ ~\E deferred \in SUBSET Notices : Preflight(deferred)
        BY DEF Collect, Preflight
    <2>15. CASE UNCHANGED vars
        BY <2>2, <2>15 DEF vars
    <2>16. CASE RunStep
        BY <2>4, <2>5, <2>12, <2>13, <2>14, <2>16 DEF RunStep
    <2>17. CASE Environment
        BY <2>3, <2>6, <2>7, <2>8, <2>9, <2>10, <2>11, <2>17 DEF Environment
    <2> QED
        BY <2>15, <2>16, <2>17 DEF Next
<1> QED
    BY <1>1, <1>2, Invariant, PTL DEF Spec

-----------------------------------------------------------------------------
(***************************************************************************)
(* The runs implement ConfirmedChanges.  Most of what its steps ask for    *)
(* relates three states, the pages and the locals of the run: CInv says,   *)
(* beside RunInv, how they belong together.                                *)
(***************************************************************************)

AtRest == pc = "idle" => disk = saved /\ mem = saved /\ run = NoRun

WitnessesAgree == disk.witness = saved.witness /\ mem.witness = saved.witness

\* A later state t of the job forgets only what was done, and counts only
\* what the saved state counts or the board has.
Follows(t) ==
    /\ saved.pending \ t.pending \subseteq run.done
    /\ \A n \in Notices : t.read[n] \in {saved.read[n], board[n]}
    /\ \A n \in run.done : t.read[n] = run.item[n]

ReadFromBoard == \A n \in Notices : run.item[n] \in {NoVersion, board[n]}

SawChanges ==
    \A n \in Notices : run.saw[n] # NoChange =>
        /\ run.saw[n].to = run.item[n] /\ run.item[n] # NoVersion
        /\ run.saw[n].from # run.item[n]

\* Of a page that never showed a version no change of one was seen.
Unwritten ==
    \A n \in Notices : page[n].hash = NoVersion =>
        saved.witness[n].from = NoVersion /\ run.saw[n].from = NoVersion

DoneWritten ==
    /\ run.todo \subseteq Read /\ run.todo \cap run.done = {}
    /\ run.done \subseteq run.cleared /\ run.cleared \subseteq PendingPages \cup run.done
    /\ \A n \in run.done : page[n].hash = run.item[n]

NothingSeenYet == pc = "collect" => run.todo = {} /\ run.saw = NoRun.saw

CInv ==
    /\ AtRest /\ WitnessesAgree /\ Follows(disk) /\ Follows(mem)
    /\ ReadFromBoard /\ NothingSeenYet /\ SawChanges /\ Unwritten /\ DoneWritten

\* Every change ConfirmedChanges would see.
Stutter ==
    UNCHANGED board /\ Shown' = Shown /\ Standing' = Standing
    /\ saved'.read = saved.read /\ OwedIn(saved)' = OwedIn(saved) /\ Stage' = Stage

LEMMA StutterStep == Stutter => UNCHANGED Changes!vars
BY DEF Stutter, Changes!vars

-----------------------------------------------------------------------------
\* Writes

\* The pages in S get the version of the board, and may.
Writes(S) ==
    /\ S \subseteq Notices
    /\ \A n \in Notices : page'[n].hash = IF n \in S THEN board[n] ELSE page[n].hash
    /\ \A n \in S :
          /\ n \in run.todo /\ pc = "apply"
          /\ board[n] # NoVersion /\ page[n].hash # board[n]
          /\ saved.witness[n].from # board[n] /\ run.saw[n].from # board[n]
          /\ \/ page[n].hash = NoVersion
             \/ ~run.rerun /\ Standing[n] = board[n] /\ n \in OwedIn(saved)

LEMMA EntryMayBeWritten ==
    ASSUME RunInv, CInv, pc = "apply", NEW n \in NextEntries, ~Unconfirmed(n),
           page[n].hash # run.item[n]
    PROVE  /\ n \in Notices /\ n \in run.todo
           /\ run.item[n] = board[n] /\ board[n] # NoVersion
           /\ saved.witness[n].from # board[n] /\ run.saw[n].from # board[n]
           /\ \/ page[n].hash = NoVersion
              \/ ~run.rerun /\ Standing[n] = board[n] /\ n \in OwedIn(saved)
<1>1. TypeOK /\ EntriesCompared /\ SightingsAreTrue(mem) /\ CandidatesAgree
    BY DEF RunInv, ApplyingInv
<1>2. n \in Notices /\ n \in run.todo
    BY <1>1, EntryType
<1>3. run.item[n] = board[n] /\ board[n] # NoVersion
    BY <1>2 DEF CInv, DoneWritten, Read, ReadFromBoard
<1>4. CASE page[n].hash = NoVersion
    BY <1>2, <1>3, <1>4 DEF CInv, Unwritten
<1>5. CASE page[n].hash # NoVersion
    <2>1. page[n] # NoPage /\ ~InitialPending(n, run.item[n])
        BY <1>5 DEF NoPage, InitialPending
    <2>2. /\ Confirmed(n, run.saw[n])
          /\ run.saw[n] = [from |-> page[n].hash, to |-> run.item[n]]
        BY <1>1, <2>1, WritesAreConfirmed
    <2>3. /\ run.saw[n] # NoChange /\ mem.candidate[n] = run.saw[n]
          /\ n \in mem.recent /\ ~run.rerun
        BY <2>2 DEF Confirmed
    <2>4. saved.candidate[n] # NoChange /\ saved.witness[n] = run.saw[n]
        BY <1>1, <2>3 DEF CInv, WitnessesAgree, CandidatesAgree, SightingsAreTrue
    <2> QED
        BY <1>2, <1>3, <2>2, <2>3, <2>4 DEF Standing, OwedIn
<1> QED
    BY <1>4, <1>5

LEMMA EntryWrites ==
    ASSUME RunInv, CInv, pc = "apply", NEW n \in NextEntries, ~Unconfirmed(n),
           NEW p, p.hash = page[n].hash \/ p.hash = run.item[n],
           page' = [page EXCEPT ![n] = p]
    PROVE  \E S : Writes(S)
<1>1. n \in Notices /\ page'[n] = p /\ \A m \in Notices \ {n} : page'[m] = page[m]
    BY EntryType DEF RunInv, TypeOK
<1>2. CASE p.hash = page[n].hash
    <2>1. Writes({})
        BY <1>1, <1>2 DEF Writes
    <2> QED
        BY <2>1
<1>3. CASE p.hash # page[n].hash
    <2>1. Writes({n})
        BY <1>1, <1>3, EntryMayBeWritten DEF Writes
    <2> QED
        BY <2>1
<1> QED
    BY <1>2, <1>3

LEMMA NothingWritten ==
    ASSUME UNCHANGED page
    PROVE  Writes({})
BY DEF Writes

LEMMA CutShortWrites ==
    ASSUME RunInv, CInv, CutShort
    PROVE  \E S : Writes(S)
<1>1. CASE UNCHANGED page
    BY <1>1, NothingWritten
<1>2. CASE ~UNCHANGED page
    <2>1. PICK n \in NextEntries :
            /\ pc = "apply" /\ ~Unconfirmed(n)
            /\ \E p \in Interrupted(n, run.item[n]) : page' = [page EXCEPT ![n] = p]
        BY <1>2 DEF CutShort
    <2>2. PICK p \in Interrupted(n, run.item[n]) : page' = [page EXCEPT ![n] = p]
        BY <2>1
    <2>3. p.hash = page[n].hash \/ p.hash = run.item[n]
        BY <2>2 DEF Interrupted, Committed
    <2> QED
        BY <2>1, <2>2, <2>3, EntryWrites
<1> QED
    BY <1>1, <1>2

\* What the pages show after a write is what ConfirmedChanges publishes.
LEMMA WritesPublish ==
    ASSUME RunInv, NEW S, Writes(S), pc # "idle"
    PROVE  /\ S \in SUBSET Notices /\ Changes!Published(S)
           /\ saved'.witness = saved.witness => Standing' = Changes!Unused(S)
<1>1. \A n \in S : Changes!MayPublish(n)
    BY DEF Writes, Changes!MayPublish, Shown, Stage
<1>2. Shown' = [n \in Notices |-> IF n \in S THEN board[n] ELSE Shown[n]]
    BY DEF Writes, Shown
<1>3. ASSUME saved'.witness = saved.witness PROVE Standing' = Changes!Unused(S)
    BY <1>3 DEF Writes, Standing, Changes!Unused
<1> QED
    BY <1>1, <1>2, <1>3 DEF Changes!Published, Writes

\* A page is not unwritten, and what is done stays as it is.
LEMMA WritesKeep ==
    ASSUME RunInv, CInv, NEW S, Writes(S)
    PROVE  /\ \A n \in Notices : page'[n].hash = NoVersion => page[n].hash = NoVersion
           /\ \A n \in run.done : page'[n].hash = run.item[n]
<1>1. run.done \subseteq Notices
    BY DEF RunInv, TypeOK, Run
<1>2. S \cap run.done = {}
    BY DEF Writes, CInv, DoneWritten
<1> QED
    BY <1>1, <1>2 DEF Writes, CInv, DoneWritten

-----------------------------------------------------------------------------
\* Every action keeps CInv.

\* Between two jobs only the witness of the saved state has anything to say.
LEMMA RestInv ==
    ASSUME pc' = "idle", disk' = saved', mem' = saved', run' = NoRun,
           \A n \in Notices : page'[n].hash = NoVersion => saved'.witness[n].from = NoVersion
    PROVE  CInv'
<1>1. AtRest' /\ WitnessesAgree' /\ ReadFromBoard' /\ NothingSeenYet' /\ SawChanges'
    BY DEF AtRest, WitnessesAgree, ReadFromBoard, NothingSeenYet, SawChanges, NoRun
<1>2. Follows(disk)' /\ Follows(mem)'
    BY DEF Follows, NoRun
<1>3. Unwritten' /\ DoneWritten'
    BY DEF Unwritten, DoneWritten, NoRun, NoChange
<1> QED
    BY <1>1, <1>2, <1>3 DEF CInv

LEMMA CInvInit == Init => CInv
<1> SUFFICES ASSUME Init PROVE CInv
    OBVIOUS
<1>1. AtRest /\ WitnessesAgree /\ ReadFromBoard /\ NothingSeenYet /\ SawChanges
    BY DEF Init, AtRest, WitnessesAgree, ReadFromBoard, NothingSeenYet, SawChanges, NoRun
<1>2. Follows(disk) /\ Follows(mem)
    BY DEF Init, Follows, NoRun
<1>3. Unwritten /\ DoneWritten
    BY DEF Init, Unwritten, DoneWritten, NoRun, NoChange, EmptyState
<1> QED
    BY <1>1, <1>2, <1>3 DEF CInv

LEMMA CInvStart ==
    ASSUME RunInv, CInv, NEW rerun \in BOOLEAN, StartRun(rerun)
    PROVE  CInv'
<1>1. mem \in State /\ disk = saved /\ mem = saved /\ run = NoRun
    BY DEF RunInv, TypeOK, CInv, AtRest, StartRun
<1>2. /\ pc' = "collect" /\ UNCHANGED <<board, page, saved, disk>>
      /\ run' = [NoRun EXCEPT !.rerun = rerun]
    BY DEF StartRun
<1>3. mem'.read = mem.read /\ mem'.witness = mem.witness /\ mem.pending \subseteq mem'.pending
    BY <1>1 DEF StartRun, State
<1>4. /\ run'.item = run.item /\ run'.saw = run.saw /\ run'.todo = {} /\ run'.done = {}
      /\ run'.cleared = {} /\ run'.saw = NoRun.saw
    BY <1>1, <1>2 DEF NoRun
<1>5. AtRest' /\ WitnessesAgree' /\ ReadFromBoard' /\ NothingSeenYet' /\ SawChanges'
    BY <1>1, <1>2, <1>3, <1>4
    DEF AtRest, WitnessesAgree, ReadFromBoard, NothingSeenYet, SawChanges, CInv
<1>6. Follows(disk)' /\ Follows(mem)'
    BY <1>1, <1>2, <1>3, <1>4 DEF Follows
<1>7. Unwritten' /\ DoneWritten'
    BY <1>2, <1>4 DEF Unwritten, DoneWritten, CInv
<1> QED
    BY <1>5, <1>6, <1>7 DEF CInv

LEMMA CInvCollect ==
    ASSUME RunInv, CInv,
           NEW safe \in SUBSET Sources, NEW due \in SUBSET Notices, Collect(safe, due)
    PROVE  CInv'
<1>1. run \in Run /\ run.done = {} /\ run.cleared = {} /\ run.todo = {} /\ run.saw = NoRun.saw
    BY DEF RunInv, TypeOK, CInv, DoneWritten, NothingSeenYet, Collect
<1>2. UNCHANGED <<board, page, saved, disk, mem>> /\ pc' \in {"unread", "preflight"}
    BY DEF Collect
<1>3. /\ run'.done = {} /\ run'.cleared = {} /\ run'.todo = {} /\ run'.saw = run.saw
      /\ \A n \in Notices : run'.item[n] \in {NoVersion, board[n]}
    BY <1>1 DEF Collect, Run
<1>4. AtRest' /\ WitnessesAgree' /\ ReadFromBoard' /\ NothingSeenYet'
    BY <1>2, <1>3 DEF AtRest, WitnessesAgree, ReadFromBoard, NothingSeenYet, CInv
<1>5. SawChanges'
    BY <1>1, <1>3 DEF SawChanges, NoRun
<1>6. Follows(disk)' /\ Follows(mem)'
    BY <1>1, <1>2, <1>3 DEF Follows, CInv
<1>7. Unwritten' /\ DoneWritten'
    BY <1>2, <1>3 DEF Unwritten, DoneWritten, CInv
<1> QED
    BY <1>4, <1>5, <1>6, <1>7 DEF CInv

LEMMA CInvPreflight ==
    ASSUME RunInv, CInv, NEW deferred \in SUBSET Notices, Preflight(deferred)
    PROVE  CInv'
<1>1. run \in Run /\ run.done = {} /\ run.cleared = {}
    BY DEF RunInv, TypeOK, CInv, DoneWritten, Preflight
<1>2. UNCHANGED <<board, page, saved, disk, mem>> /\ pc' = "apply"
    BY DEF Preflight
<1>3. /\ run'.done = {} /\ run'.cleared = {} /\ run'.item = run.item /\ run'.todo \subseteq Read
      /\ run'.saw = [n \in Notices |-> IF n \in Read \ deferred
                                       THEN ChangeOf(n, run.item[n]) ELSE NoChange]
    BY <1>1 DEF Preflight, Run
<1>4. AtRest' /\ WitnessesAgree' /\ ReadFromBoard' /\ NothingSeenYet'
    BY <1>2, <1>3 DEF AtRest, WitnessesAgree, ReadFromBoard, NothingSeenYet, CInv
<1>5. SawChanges'
    <2> SUFFICES ASSUME NEW n \in Notices, run'.saw[n] # NoChange
                 PROVE  /\ run'.saw[n].to = run'.item[n] /\ run'.item[n] # NoVersion
                        /\ run'.saw[n].from # run'.item[n]
        BY DEF SawChanges
    <2>1. n \in Read /\ run'.saw[n] = ChangeOf(n, run.item[n])
        BY <1>3
    <2>2. /\ run'.saw[n] = [from |-> page[n].hash, to |-> run.item[n]]
          /\ page[n].hash # run.item[n]
        BY <2>1 DEF ChangeOf
    <2> QED
        BY <1>3, <2>1, <2>2 DEF Read
<1>6. Follows(disk)' /\ Follows(mem)'
    BY <1>1, <1>2, <1>3 DEF Follows, CInv
<1>7. Unwritten'
    BY <1>2, <1>3 DEF Unwritten, CInv, ChangeOf, NoChange
<1>8. DoneWritten'
    BY <1>3 DEF DoneWritten, Read
<1> QED
    BY <1>4, <1>5, <1>6, <1>7, <1>8 DEF CInv

LEMMA CInvObserve ==
    ASSUME RunInv, CInv, NEW n \in Notices, ObserveEntry(n)
    PROVE  CInv'
<1>1. UNCHANGED <<board, page, saved, disk, mem, pc>> /\ pc = "apply"
    BY DEF ObserveEntry
<1>2. /\ run'.done = run.done /\ run'.cleared = run.cleared /\ run'.item = run.item
      /\ run'.saw = run.saw /\ run'.todo \subseteq run.todo
    BY DEF RunInv, TypeOK, ObserveEntry, Run
<1>3. AtRest' /\ WitnessesAgree' /\ ReadFromBoard' /\ NothingSeenYet' /\ SawChanges'
    BY <1>1, <1>2
    DEF AtRest, WitnessesAgree, ReadFromBoard, NothingSeenYet, SawChanges, CInv
<1>4. Follows(disk)' /\ Follows(mem)'
    BY <1>1, <1>2 DEF Follows, CInv
<1>5. Unwritten' /\ DoneWritten'
    BY <1>1, <1>2 DEF Unwritten, DoneWritten, CInv, Read, PendingPages
<1> QED
    BY <1>3, <1>4, <1>5 DEF CInv

LEMMA CInvComplete ==
    ASSUME RunInv, CInv, NEW n \in Notices, CompleteEntry(n)
    PROVE  CInv'
<1>1. mem \in State /\ run \in Run /\ page \in [Notices -> Page]
    BY DEF RunInv, TypeOK
<1>2. n \in run.todo /\ run.item[n] = board[n]
    BY EntryType DEF RunInv, CInv, DoneWritten, Read, ReadFromBoard, CompleteEntry
<1>3. UNCHANGED <<board, saved, pc>> /\ pc = "apply"
    BY DEF CompleteEntry
<1>4. /\ page'[n].hash = run.item[n]
      /\ \A m \in Notices \ {n} : page'[m] = page[m]
    BY <1>1 DEF CompleteEntry, Committed
<1>5. /\ disk' = mem' /\ mem'.witness = mem.witness /\ mem'.pending = mem.pending \ {n}
      /\ mem'.read = [mem.read EXCEPT ![n] = run.item[n]]
    BY <1>1 DEF CompleteEntry, Checkpoint, State
<1>6. /\ run'.done = run.done \cup {n} /\ run'.cleared = run.cleared \cup {n}
      /\ run'.todo = run.todo \ {n} /\ run'.item = run.item /\ run'.saw = run.saw
    BY <1>1 DEF CompleteEntry, Run
<1>7. AtRest' /\ WitnessesAgree' /\ ReadFromBoard' /\ NothingSeenYet' /\ SawChanges'
    BY <1>3, <1>5, <1>6
    DEF AtRest, WitnessesAgree, ReadFromBoard, NothingSeenYet, SawChanges, CInv
<1>8. Follows(mem)'
    <2>1. saved'.pending \ mem'.pending \subseteq run'.done
        BY <1>3, <1>5, <1>6 DEF CInv, Follows
    <2>2. mem.read \in [Notices -> Content] /\ run.done \subseteq Notices
        BY <1>1 DEF State, Run
    <2> QED
        BY <1>2, <1>3, <1>5, <1>6, <2>1, <2>2 DEF CInv, Follows
<1>9. Follows(disk)'
    BY <1>5, <1>8 DEF Follows
<1>10. Unwritten'
    <2>1. board[n] # NoVersion
        BY <1>2 DEF CInv, DoneWritten, Read
    <2> QED
        BY <1>2, <1>3, <1>4, <1>6, <2>1 DEF CInv, Unwritten
<1>11. DoneWritten'
    <2>1. run.done \subseteq Notices /\ run.cleared \subseteq Notices
        BY <1>1 DEF Run
    <2> QED
        BY <1>2, <1>4, <1>6, <2>1 DEF CInv, DoneWritten, Read, PendingPages
<1> QED
    BY <1>7, <1>8, <1>9, <1>10, <1>11 DEF CInv

LEMMA CInvHold ==
    ASSUME RunInv, CInv, NEW n \in Notices, HoldEntry(n)
    PROVE  CInv'
<1>1. run \in Run /\ page \in [Notices -> Page]
    BY DEF RunInv, TypeOK
<1>2. n \in run.todo
    BY EntryType DEF RunInv, HoldEntry
<1>3. UNCHANGED <<board, saved, disk, mem, pc>> /\ pc = "apply"
    BY DEF HoldEntry
<1>4. /\ page'[n].hash = page[n].hash /\ page'[n].status = "pending"
      /\ \A m \in Notices \ {n} : page'[m] = page[m]
    BY <1>1 DEF HoldEntry
<1>5. /\ run'.done = run.done /\ run'.cleared = run.cleared \cup {n}
      /\ run'.todo = run.todo \ {n} /\ run'.item = run.item /\ run'.saw = run.saw
    BY <1>1 DEF HoldEntry, Run
<1>6. AtRest' /\ WitnessesAgree' /\ ReadFromBoard' /\ NothingSeenYet' /\ SawChanges'
    BY <1>3, <1>5
    DEF AtRest, WitnessesAgree, ReadFromBoard, NothingSeenYet, SawChanges, CInv
<1>7. Follows(disk)' /\ Follows(mem)'
    BY <1>3, <1>5 DEF CInv, Follows
<1>8. Unwritten'
    BY <1>3, <1>4, <1>5 DEF CInv, Unwritten
<1>9. DoneWritten'
    <2>1. run.done \subseteq Notices /\ run.cleared \subseteq Notices
        BY <1>1 DEF Run
    <2> QED
        BY <1>2, <1>4, <1>5, <2>1 DEF CInv, DoneWritten, Read, PendingPages
<1> QED
    BY <1>6, <1>7, <1>8, <1>9 DEF CInv

\* The end of a job, whatever it wrote.
LEMMA CInvEnd ==
    ASSUME RunInv, CInv, NEW S, Writes(S),
           NEW s, NEW how, NEW cost, EndJob(s, how, cost),
           s.witness \in {saved.witness, run.saw, NoRun.saw}
    PROVE  CInv'
<1>1. saved' \in {saved, s} /\ disk' = saved' /\ mem' = saved' /\ pc' = "idle" /\ run' = NoRun
    BY DEF EndJob
<1>2. ASSUME NEW n \in Notices, page'[n].hash = NoVersion
      PROVE  saved'.witness[n].from = NoVersion
    <2>1. saved.witness[n].from = NoVersion /\ run.saw[n].from = NoVersion
        BY <1>2, WritesKeep DEF CInv, Unwritten
    <2>2. NoRun.saw[n].from = NoVersion
        BY DEF NoRun, NoChange
    <2> QED
        BY <1>1, <2>1, <2>2
<1> QED
    BY <1>1, <1>2, RestInv

\* What happens while no job runs.
LEMMA CInvBetweenRuns ==
    ASSUME RunInv, CInv,
           \/ \E n \in Notices : ChangeBoard(n)
           \/ SchemaRun
           \/ DryRun
    PROVE  CInv'
<1>1. disk = saved /\ mem = saved /\ run = NoRun /\ saved \in State
    BY DEF CInv, AtRest, RunInv, TypeOK, ChangeBoard, SchemaRun, DryRun, RecordOther
<1>2. pc' = "idle" /\ disk' = saved' /\ mem' = saved' /\ run' = NoRun /\ page' = page
    BY <1>1 DEF ChangeBoard, SchemaRun, DryRun, RecordOther
<1>3. saved'.witness \in {saved.witness, NoRun.saw}
    BY <1>1 DEF ChangeBoard, SchemaRun, DryRun, RecordOther, Recorded, State
<1>4. \A n \in Notices : NoRun.saw[n].from = NoVersion
    BY DEF NoRun, NoChange
<1> QED
    BY <1>2, <1>3, <1>4, RestInv DEF CInv, Unwritten

LEMMA CInvExpire ==
    ASSUME RunInv, CInv, NEW n \in Notices, Expire(n)
    PROVE  CInv'
<1>1. saved \in State /\ disk \in State /\ mem \in State
    BY DEF RunInv, TypeOK
<1>2. UNCHANGED <<board, page, run, pc>>
    BY DEF Expire
<1>3. /\ saved'.read = saved.read /\ saved'.pending = saved.pending
      /\ saved'.witness = saved.witness
      /\ disk'.read = disk.read /\ disk'.pending = disk.pending
      /\ disk'.witness = disk.witness
      /\ mem'.read = mem.read /\ mem'.pending = mem.pending
      /\ mem'.witness = mem.witness
    BY <1>1 DEF Expire, State
<1>4. AtRest' /\ WitnessesAgree' /\ ReadFromBoard' /\ NothingSeenYet' /\ SawChanges'
    BY <1>2, <1>3
    DEF Expire, AtRest, WitnessesAgree, ReadFromBoard, NothingSeenYet, SawChanges, CInv
<1>5. Follows(disk)' /\ Follows(mem)'
    BY <1>2, <1>3 DEF CInv, Follows
<1>6. Unwritten' /\ DoneWritten'
    BY <1>2, <1>3 DEF CInv, Unwritten, DoneWritten, Read, PendingPages
<1> QED
    BY <1>4, <1>5, <1>6 DEF CInv

-----------------------------------------------------------------------------
\* The end of a job

\* Only notices are owed a reading.
LEMMA OwedNotices == TypeOK => OwedIn(saved) \subseteq Notices
BY DEF TypeOK, State, OwedIn

\* A new record notes changes that the board has and the page has not.
LEMMA RecordNotes ==
    ASSUME CInv, saved'.witness = run.saw
    PROVE  Changes!Noted
<1> SUFFICES ASSUME NEW n \in Notices, Standing'[n] # NoVersion
             PROVE  Standing'[n] = board[n] /\ Shown'[n] # board[n]
    BY DEF Changes!Noted
<1>1. run.saw[n].from = page'[n].hash /\ Standing'[n] = run.saw[n].to
    BY DEF Standing
<1>2. run.saw[n] # NoChange
    BY <1>1 DEF NoChange
<1>3. /\ run.saw[n].to = run.item[n] /\ run.item[n] = board[n]
      /\ run.saw[n].from # run.item[n]
    BY <1>2 DEF CInv, SawChanges, ReadFromBoard
<1> QED
    BY <1>1, <1>3 DEF Shown

\* A job that ends with state s, or with its runner lost, ends a run.
LEMMA EndOfJob ==
    ASSUME RunInv, TypeOK', Accounted(saved)', CInv, pc # "idle", UNCHANGED board,
           NEW S, Writes(S),
           NEW s, NEW how, NEW cost, EndJob(s, how, cost),
           s.witness \in {saved.witness, run.saw, NoRun.saw},
           \A n \in Notices : s.read[n] \in {saved.read[n], board[n]},
           \A n \in OwedIn(saved) \ OwedIn(s) : page'[n].hash = s.read[n]
    PROVE  CInv' /\ Changes!End
<1>1. saved' \in {saved, s} /\ pc' = "idle"
    BY DEF EndJob
<1>2. saved'.witness \in {saved.witness, run.saw, NoRun.saw}
    BY <1>1
<1>3. S \in SUBSET Notices /\ Changes!Published(S)
    BY WritesPublish
<1>4. Standing' = Changes!Unused(S) \/ Changes!Noted
    <2>1. CASE saved'.witness = saved.witness
        BY <2>1, WritesPublish
    <2>2. CASE saved'.witness = run.saw
        BY <2>2, RecordNotes
    <2>3. CASE saved'.witness = NoRun.saw
        BY <2>3 DEF NoRun, NoChange, Standing, Changes!Noted
    <2> QED
        BY <1>2, <2>1, <2>2, <2>3
<1>5. TypeOK' => /\ saved'.read \in [Notices -> Content] /\ Shown' \in [Notices -> Content]
                 /\ Standing' \in [Notices -> Content] /\ OwedIn(saved)' \subseteq Notices
    BY DEF TypeOK, State, Page, Change, Content, Shown, Standing, OwedIn
<1>6. Changes!Settled
    <2>1. \A n \in Notices : saved'.read[n] \in {saved.read[n], board[n]}
        BY <1>1
    <2>2. \A n \in Notices : saved'.read[n] \in {NoVersion, Shown'[n]} \/ n \in OwedIn(saved)'
        BY DEF Accounted, Shown, OwedIn
    <2>3. \A n \in OwedIn(saved) \ OwedIn(saved)' : Shown'[n] = saved'.read[n]
        <3>1. OwedIn(saved) \subseteq Notices
            BY OwedNotices DEF RunInv
        <3>2. OwedIn(saved)' = OwedIn(saved')
            BY DEF OwedIn
        <3>3. \A n \in Notices : Shown'[n] = page'[n].hash
            BY DEF Shown
        <3> QED
            BY <1>1, <3>1, <3>2, <3>3
    <2> QED
        BY <1>5, <2>1, <2>2, <2>3 DEF Changes!Settled, Changes!Content, Content
<1>7. Changes!End
    BY <1>1, <1>3, <1>4, <1>5, <1>6 DEF Changes!End, Changes!Content, Content, Stage
<1>8. CInv'
    BY CInvEnd
<1> QED
    BY <1>7, <1>8

\* A job that ends with what it restored or checkpointed, marked as failed or not.
LEMMA EndAsRead ==
    ASSUME RunInv, RunInv', CInv, pc # "idle", UNCHANGED board, CutShort,
           NEW base \in {mem, disk},
           NEW s, NEW how, NEW cost, EndJob(s, how, cost),
           s.witness \in {base.witness, run.saw, NoRun.saw},
           s.read = base.read, s.candidate = base.candidate, base.pending \subseteq s.pending
    PROVE  CInv' /\ Changes!End
<1>1. PICK S : Writes(S)
    BY CutShortWrites
<1>2. /\ base.witness = saved.witness /\ base.candidate = saved.candidate
      /\ Follows(base)
    BY DEF CInv, WitnessesAgree, RunInv, CandidatesAgree
<1>3. \A n \in Notices : s.read[n] \in {saved.read[n], board[n]}
    BY <1>2 DEF Follows
<1>4. ASSUME NEW n \in OwedIn(saved) \ OwedIn(s)
      PROVE  page'[n].hash = s.read[n]
    <2>1. n \in run.done
        BY <1>2, <1>4 DEF OwedIn, Follows
    <2> QED
        BY <1>1, <1>2, <2>1, WritesKeep DEF Follows
<1>5. TypeOK' /\ Accounted(saved)'
    BY DEF RunInv
<1> QED
    BY <1>1, <1>2, <1>3, <1>4, <1>5, EndOfJob

\* What a finished run no longer owes is on its page.
LEMMA UpdatedServes ==
    ASSUME RunInv, CInv, pc = "apply", NEW banned \in BOOLEAN
    PROVE  /\ \A n \in Notices : Updated(banned).read[n] \in {saved.read[n], board[n]}
           /\ \A n \in OwedIn(saved) \ OwedIn(Updated(banned)) :
                 page[n].hash = Updated(banned).read[n]
<1>1. Follows(mem) /\ DoneWritten /\ ApplyingInv /\ mem.candidate = saved.candidate
    BY DEF CInv, RunInv, CandidatesAgree
<1>2. \A n \in Notices : Updated(banned).read[n] \in {mem.read[n], run.item[n]}
                        /\ (n \notin Read => Updated(banned).read[n] = mem.read[n])
    BY DEF Updated
<1>3. \A n \in Notices : Updated(banned).read[n] \in {saved.read[n], board[n]}
    BY <1>1, <1>2 DEF Follows, CInv, ReadFromBoard, Read
<1>4. ASSUME NEW n \in OwedIn(saved) \ OwedIn(Updated(banned))
      PROVE  page[n].hash = Updated(banned).read[n]
    <2>1. n \in Notices
        BY DEF OwedIn, RunInv, TypeOK, State
    <2>2. n \notin mem.pending /\ n \notin PendingPages /\ Updated(banned).candidate[n] = NoChange
        BY <2>1 DEF OwedIn, Updated, StillPending
    <2>3. n \in run.done
        <3>1. CASE n \in saved.pending
            BY <1>1, <2>2, <3>1 DEF Follows
        <3>2. CASE n \notin saved.pending
            <4>1. mem.candidate[n] # NoChange
                BY <1>1, <2>1, <3>2 DEF OwedIn
            <4>2. n \notin run.observed
                BY <1>1, <2>1, <2>2 DEF Updated, ApplyingInv
            <4>3. n \in run.cleared
                BY <2>1, <2>2, <4>1, <4>2 DEF Updated
            <4> QED
                BY <1>1, <2>2, <4>3 DEF DoneWritten
        <3> QED
            BY <3>1, <3>2
    <2> QED
        BY <1>1, <1>2, <2>1, <2>3 DEF DoneWritten, Follows
<1> QED
    BY <1>3, <1>4

\* A run that was recorded, and may have failed after that.
LEMMA EndAsUpdated ==
    ASSUME RunInv, RunInv', CInv, pc = "apply", UNCHANGED <<board, page>>,
           NEW banned \in BOOLEAN,
           NEW s, NEW how, NEW cost, EndJob(s, how, cost),
           s.witness = Updated(banned).witness, s.read = Updated(banned).read,
           s.candidate = Updated(banned).candidate,
           Updated(banned).pending \subseteq s.pending
    PROVE  CInv' /\ Changes!End
<1>1. Writes({})
    BY NothingWritten
<1>2. s.witness = run.saw
    BY DEF Updated
<1>3. \A n \in Notices : s.read[n] \in {saved.read[n], board[n]}
    BY UpdatedServes
<1>4. \A n \in OwedIn(saved) \ OwedIn(s) : page'[n].hash = s.read[n]
    <2>1. OwedIn(Updated(banned)) \subseteq OwedIn(s)
        BY DEF OwedIn
    <2> QED
        BY <2>1, UpdatedServes
<1>5. TypeOK' /\ Accounted(saved)' /\ pc # "idle"
    BY DEF RunInv
<1> QED
    BY <1>1, <1>2, <1>3, <1>4, <1>5, EndOfJob

LEMMA FinishEnds ==
    ASSUME RunInv, RunInv', CInv, NEW banned \in BOOLEAN,
           FinishRun(banned) \/ FailRecorded(banned)
    PROVE  CInv' /\ Changes!End
<1> DEFINE unfinished == {n \in Read \ run.done :
                            HoldRepeated => SourceOf[n] \notin QuarantinedAtEnd}
           left == [Updated(banned) EXCEPT !.pending = @ \cup unfinished, !.alarm = TRUE]
<1>1. Updated(banned) \in State
    BY UpdatedType DEF RunInv
<1>2. pc = "apply" /\ UNCHANGED <<board, page>>
    BY DEF FinishRun, FailRecorded
<1>3. CASE FinishRun(banned)
    <2>1. PICK how : EndJob(Updated(banned), how, 0)
        BY <1>3 DEF FinishRun
    <2> QED
        BY <1>2, <2>1, EndAsUpdated
<1>4. CASE FailRecorded(banned)
    <2>1. EndJob(left, "failed", 1)
        BY <1>4 DEF FailRecorded
    <2> HIDE DEF unfinished
    <2>2. /\ left.witness = Updated(banned).witness /\ left.read = Updated(banned).read
          /\ left.candidate = Updated(banned).candidate
          /\ Updated(banned).pending \subseteq left.pending
        BY <1>1 DEF State
    <2> HIDE DEF left
    <2> QED
        BY <1>2, <2>1, <2>2, EndAsUpdated
<1> QED
    BY <1>3, <1>4

LEMMA FailEnds ==
    ASSUME RunInv, RunInv', CInv, Fail
    PROVE  CInv' /\ Changes!End
<1> DEFINE r == Recorded(mem, run.saw)
           left == [r EXCEPT !.pending = @ \cup (Read \ run.done), !.alarm = TRUE]
<1>1. EndJob(left, "failed", 1) /\ CutShort /\ pc # "idle" /\ UNCHANGED board
    BY DEF Fail
<1>2. /\ r \in State /\ r.read = mem.read /\ r.candidate = mem.candidate
      /\ r.pending = mem.pending
    BY RecordedKeeps DEF RunInv, TypeOK, Run
<1>3. r.witness = run.saw
    BY DEF RunInv, TypeOK, State, Recorded
<1> HIDE DEF r
<1>4. /\ left.read = mem.read /\ left.candidate = mem.candidate
      /\ mem.pending \subseteq left.pending /\ left.witness = run.saw
    BY <1>2, <1>3 DEF State
<1> HIDE DEF left
<1> QED
    BY <1>1, <1>4, EndAsRead

LEMMA FinishUnreadEnds ==
    ASSUME RunInv, RunInv', CInv, FinishUnread
    PROVE  CInv' /\ Changes!End
<1> DEFINE r == Recorded(mem, NoRun.saw)
           left == [r EXCEPT !.alarm = TRUE]
<1>1. /\ EndJob(left, "partial_failed", 0) /\ CutShort /\ pc # "idle"
      /\ UNCHANGED board
    BY DEF FinishUnread, CutShort
<1>2. /\ r \in State /\ r.read = mem.read /\ r.candidate = mem.candidate
      /\ r.pending = mem.pending
    BY RecordedKeeps, InitTypes DEF RunInv, TypeOK, Run
<1>3. r.witness = NoRun.saw
    BY DEF RunInv, TypeOK, State, Recorded
<1> HIDE DEF r
<1>4. /\ left.read = mem.read /\ left.candidate = mem.candidate
      /\ mem.pending \subseteq left.pending /\ left.witness = NoRun.saw
    BY <1>2, <1>3 DEF State
<1> HIDE DEF left
<1> QED
    BY <1>1, <1>4, EndAsRead

LEMMA KillEnds ==
    ASSUME RunInv, RunInv', CInv, Kill
    PROVE  CInv' /\ Changes!End
<1>1. EndJob(disk, "killed", 1) /\ CutShort /\ pc # "idle" /\ UNCHANGED board
    BY DEF Kill
<1> QED
    BY <1>1, EndAsRead

-----------------------------------------------------------------------------
\* Every action is one of ConfirmedChanges or changes nothing it sees.

LEMMA EntryPublishes ==
    ASSUME RunInv, CInv, NEW n \in Notices, CompleteEntry(n) \/ HoldEntry(n)
    PROVE  Changes!Publish
<1>1. /\ pc = "apply" /\ n \in NextEntries /\ ~Unconfirmed(n)
      /\ UNCHANGED <<board, saved, pc>>
    BY DEF CompleteEntry, HoldEntry
<1>2. run \in Run
    BY DEF RunInv, TypeOK
<1>3. ASSUME CompleteEntry(n) PROVE \E S : Writes(S)
    <2>1. page' = [page EXCEPT ![n] = Committed(run.item[n])]
        BY <1>3 DEF CompleteEntry
    <2>2. Committed(run.item[n]).hash = run.item[n]
        BY DEF Committed
    <2> QED
        BY <1>1, <2>1, <2>2, EntryWrites
<1>4. ASSUME HoldEntry(n) PROVE \E S : Writes(S)
    <2> DEFINE p == [status |-> "pending", hash |-> page[n].hash, draft |-> NoVersion]
    <2>1. page' = [page EXCEPT ![n] = p]
        BY <1>4 DEF HoldEntry
    <2>2. p.hash = page[n].hash
        OBVIOUS
    <2> HIDE DEF p
    <2> QED
        BY <1>1, <2>1, <2>2, EntryWrites
<1>5. \E S : Writes(S)
    BY <1>3, <1>4
<1>6. run'.rerun = run.rerun
    BY <1>2 DEF CompleteEntry, HoldEntry, Run
<1>7. saved'.read = saved.read /\ OwedIn(saved)' = OwedIn(saved) /\ Stage' = Stage /\ Stage # "rest"
    BY <1>1, <1>6 DEF OwedIn, Stage
<1>8. \E S \in SUBSET Notices : Changes!Published(S) /\ Standing' = Changes!Unused(S)
    BY <1>1, <1>5, WritesPublish
<1> QED
    BY <1>1, <1>7, <1>8 DEF Changes!Publish

LEMMA BoardChanges ==
    ASSUME RunInv, NEW n \in Notices, ChangeBoard(n)
    PROVE  Changes!ChangeBoard
<1>1. /\ pc = "idle" /\ UNCHANGED <<page, saved, run, pc>>
      /\ \E v \in Content : board' = [board EXCEPT ![n] = v]
    BY DEF ChangeBoard
<1> QED
    BY <1>1 DEF Changes!ChangeBoard, Changes!Content, Content, Shown, Standing, OwedIn, Stage

LEMMA StartBegins ==
    ASSUME RunInv, NEW rerun \in BOOLEAN, StartRun(rerun)
    PROVE  Changes!Begin
BY DEF StartRun, Changes!Begin, Shown, Standing, OwedIn, Stage

LEMMA RunStutters ==
    ASSUME RunInv,
           \/ \E safe \in SUBSET Sources, due \in SUBSET Notices : Collect(safe, due)
           \/ \E deferred \in SUBSET Notices : Preflight(deferred)
           \/ \E n \in Notices : ObserveEntry(n)
    PROVE  Stutter
<1>1. run \in Run
    BY DEF RunInv, TypeOK
<1>2. UNCHANGED <<board, page, saved>> /\ pc # "idle" /\ pc' # "idle"
    BY DEF Collect, Preflight, ObserveEntry
<1>3. run'.rerun = run.rerun
    BY <1>1 DEF Collect, Preflight, ObserveEntry, Run
<1> QED
    BY <1>2, <1>3 DEF Stutter, Shown, Standing, OwedIn, Stage

LEMMA StateStutters ==
    ASSUME RunInv, DryRun \/ \E n \in Notices : Expire(n)
    PROVE  Stutter
<1>1. saved \in State
    BY DEF RunInv, TypeOK
<1>2. /\ saved'.read = saved.read /\ saved'.pending = saved.pending
      /\ saved'.candidate = saved.candidate /\ saved'.witness = saved.witness
    BY <1>1 DEF DryRun, RecordOther, Expire, State
<1>3. UNCHANGED <<board, page, run, pc>>
    BY DEF DryRun, RecordOther, Expire
<1> QED
    BY <1>2, <1>3 DEF Stutter, Shown, Standing, OwedIn, Stage

LEMMA SchemaRecords ==
    ASSUME RunInv, SchemaRun
    PROVE  Changes!RecordOther
<1>1. saved \in State
    BY DEF RunInv, TypeOK
<1>2. /\ saved'.read = saved.read /\ saved'.pending = saved.pending
      /\ saved'.candidate = saved.candidate /\ saved'.witness = NoRun.saw
    BY <1>1 DEF SchemaRun, RecordOther, Recorded, State
<1>3. UNCHANGED <<board, page, run, pc>> /\ pc = "idle"
    BY DEF SchemaRun, RecordOther
<1>4. Standing' = Changes!Blank
    BY <1>2 DEF Standing, Changes!Blank, NoRun, NoChange
<1> QED
    BY <1>2, <1>3, <1>4 DEF Changes!RecordOther, Shown, OwedIn, Stage

LEMMA ChangesInit == Init => Changes!Init
<1> SUFFICES ASSUME Init PROVE Changes!Init
    OBVIOUS
<1>1. Shown = Changes!Blank /\ Standing = Changes!Blank /\ saved.read = Changes!Blank
    BY DEF Init, Shown, Standing, Changes!Blank, NoPage, NoChange, EmptyState
<1>2. OwedIn(saved) = {} /\ Stage = "rest"
    BY DEF Init, OwedIn, Stage, EmptyState
<1> QED
    BY <1>1, <1>2 DEF Init, Changes!Init, Changes!Content, Content

LEMMA CInvStep == RunInv /\ RunInv' /\ CInv /\ [Next]_vars => CInv'
<1> SUFFICES ASSUME RunInv, RunInv', CInv, [Next]_vars PROVE CInv'
    OBVIOUS
<1>1. CASE UNCHANGED vars
    BY <1>1 DEF vars, CInv, AtRest, WitnessesAgree, Follows, ReadFromBoard, NothingSeenYet,
       SawChanges, Unwritten, DoneWritten, Read, PendingPages
<1>2. CASE RunStep
    BY <1>2, CInvStart, CInvCollect, CInvPreflight, CInvObserve, CInvComplete, CInvHold,
       FinishEnds, FinishUnreadEnds DEF RunStep
<1>3. CASE Environment
    BY <1>3, CInvBetweenRuns, CInvExpire, FinishEnds, FailEnds, KillEnds DEF Environment
<1> QED
    BY <1>1, <1>2, <1>3 DEF Next

LEMMA ChangesStep == RunInv /\ RunInv' /\ CInv /\ [Next]_vars => [Changes!Next]_(Changes!vars)
<1> SUFFICES ASSUME RunInv, RunInv', CInv, [Next]_vars
             PROVE  Changes!Next \/ Stutter
    BY StutterStep
<1>1. CASE UNCHANGED vars
    BY <1>1 DEF vars, Stutter, Shown, Standing, OwedIn, Stage
<1>2. CASE RunStep
    BY <1>2, StartBegins, RunStutters, EntryPublishes, FinishEnds, FinishUnreadEnds
    DEF RunStep, Changes!Next
<1>3. CASE Environment
    BY <1>3, BoardChanges, StateStutters, SchemaRecords, FinishEnds, FailEnds, KillEnds
    DEF Environment, Changes!Next
<1> QED
    BY <1>1, <1>2, <1>3 DEF Next

\* Whatever happens to the runs, one after the other: pages change only as a
\* recorded run noted and another run saw again, and what counts as read is
\* on its page or owed another reading.
THEOREM RunsImplementChanges == Spec => ImplementsChanges
<1>1. Spec => [](RunInv /\ CInv)
    BY Invariant, CInvInit, CInvStep, PTL DEF Spec
<1>2. Spec => Changes!Init /\ [][Changes!Next]_(Changes!vars)
    BY <1>1, ChangesInit, ChangesStep, PTL DEF Spec
<1> QED
    BY <1>2 DEF ImplementsChanges, Changes!Spec

\* The promise is strong enough for the reader of the pages: whoever keeps it
\* counts no version as read that is neither shown nor owed.
THEOREM PromiseServes == ImplementsChanges => []ReadIsServed
<1> DEFINE Honest == \A n \in Notices :
                        saved.read[n] \in {NoVersion, Shown[n]} \/ n \in OwedIn(saved)
<1>1. Changes!Init => Honest
    BY DEF Changes!Init, Changes!Blank
<1>2. Honest /\ [Changes!Next]_(Changes!vars) => Honest'
    <2> SUFFICES ASSUME Honest, [Changes!Next]_(Changes!vars) PROVE Honest'
        OBVIOUS
    <2>1. CASE UNCHANGED <<Shown, saved.read, OwedIn(saved)>>
        BY <2>1
    <2>2. CASE Changes!Publish
        <3>1. PICK S \in SUBSET Notices : Changes!Published(S)
            BY <2>2 DEF Changes!Publish
        <3>2. UNCHANGED <<saved.read, OwedIn(saved)>>
            BY <2>2 DEF Changes!Publish
        <3>3. \A n \in S : Shown[n] = NoVersion \/ n \in OwedIn(saved)
            BY <3>1 DEF Changes!Published, Changes!MayPublish
        <3>4. \A n \in Notices \ S : Shown'[n] = Shown[n]
            BY <3>1 DEF Changes!Published
        <3> QED
            BY <3>2, <3>3, <3>4
    <2>3. CASE Changes!End
        BY <2>3 DEF Changes!End, Changes!Settled
    <2> QED
        BY <2>1, <2>2, <2>3
        DEF Changes!Next, Changes!vars, Changes!ChangeBoard, Changes!Begin, Changes!RecordOther
<1>3. Honest => ReadIsServed
    BY DEF ReadIsServed, Shown, OwedIn
<1> QED
    BY <1>1, <1>2, <1>3, PTL DEF ImplementsChanges, Changes!Spec
=============================================================================
