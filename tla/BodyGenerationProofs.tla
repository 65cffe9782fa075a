------------------------- MODULE BodyGenerationProofs -------------------------
(***************************************************************************)
(* Theorems about BodyGeneration for every set of items, bodies and block  *)
(* ids and every bound on the environment: the types and the claim of a    *)
(* commit; then the quotes a person has edited; then the protocol as an    *)
(* implementation of BodyReplacement.                                      *)
(***************************************************************************)
EXTENDS BodyGeneration, SequenceTheorems, FiniteSetTheorems, TLAPS

\* A run in progress works on an item, from the moment it has a candidate on a
\* block, and it only deletes what is left to do and is not the candidate.
Working ==
    /\ pc # "idle" => run.item \in Items
    /\ pc \in {"check", "persist", "record", "extend", "regrow", "seal", "retire", "delete"} =>
        run.cand \in BlockIds
    /\ pc = "delete" => run.todo # <<>> /\ ~OldSkipped(Head(run.todo))

TypeInv == TypeOK /\ Working

-----------------------------------------------------------------------------
(* Types of the helpers *)

\* No content at all, and no refs at all.
LEMMA EmptyType == <<>> \in Content /\ <<>> \in Seq(Ref)
BY DEF Content

\* One ref is a list of refs.
LEMMA OneRefType ==
    ASSUME NEW q \in BlockIds, NEW h \in Content
    PROVE  <<[i |-> q, h |-> h]>> \in Seq(Ref)
BY DEF Ref

\* Naming another candidate keeps a manifest a manifest.
LEMMA ManifestType ==
    ASSUME NEW m \in Manifest, NEW parts \in Seq(Ref)
    PROVE  [m EXCEPT !.p = parts] \in Manifest
BY DEF Manifest

\* A body is content: the chunks of a body are chunks of a quote.
LEMMA BodyType ==
    ASSUME NEW i \in Items
    PROVE  /\ BodyOf[i] \in Content
           /\ BodyOf[i] # <<>>
BY ItemsAssumption DEF Content

\* Whatever a run stages as parts and old refs is a list of refs.
LEMMA StagedType ==
    ASSUME TypeOK, run.item \in Items
    PROVE  StagedParts \in Seq(Ref) /\ StagedOld \in Seq(Ref)
<1>1. manifest.p \in Seq(Ref) /\ manifest.o \in Seq(Ref)
  BY DEF TypeOK, Manifest
<1>2. StagedOld \in Seq(Ref)
  BY <1>1 DEF StagedOld
<1>3. Body \in Content
  BY BodyType DEF Body
<1>4. ASSUME LegacyPart # {}
      PROVE  <<[i |-> CHOOSE q \in LegacyPart : TRUE, h |-> Body]>> \in Seq(Ref)
  <2>1. LegacyPart \subseteq BlockIds
    BY DEF LegacyPart, Untracked, Present
  <2>2. (CHOOSE q \in LegacyPart : TRUE) \in BlockIds
    BY <1>4, <2>1
  <2> QED
    BY <2>2, <1>3 DEF Ref
<1>5. StagedParts \in Seq(Ref)
  BY <1>1, <1>4 DEF StagedParts
<1> QED
  BY <1>2, <1>5

\* A chunk more, a chunk retyped or the text alone is content again.
LEMMA ContentType ==
    ASSUME NEW c \in Content, NEW x \in Chunks \cup {Foreign}
    PROVE  /\ Append(c, x) \in Content
           /\ c # <<>> => <<x>> \o Tail(c) \in Content
           /\ c # <<>> => <<Head(c)>> \in Content
           /\ <<x>> \in Content
<1>1. c # <<>> => Tail(c) \in Content /\ Head(c) \in Chunks \cup {Foreign}
  BY DEF Content
<1> QED
  BY <1>1 DEF Content

\* What a run reads of a quote that is there is content.
LEMMA ReadType ==
    ASSUME TypeOK, NEW q \in Present
    PROVE  AsRead(q) \in Content
<1>1. q \in BlockIds /\ quotes[q] \in Content /\ quotes[q] # <<>> /\ run.heads[q] \in Content
  BY DEF Present, TypeOK, Run
<1>2. Tail(quotes[q]) \in Content
  BY <1>1 DEF Content
<1> QED
  BY <1>1, <1>2 DEF AsRead, Content

\* Recording what was read of the candidate keeps the manifest well typed.
LEMMA RecordType ==
    ASSUME TypeOK, run.cand \in Present, RecordCandidate(AsRead(run.cand))
    PROVE  manifest' \in Manifest
<1>1. <<[i |-> run.cand, h |-> AsRead(run.cand)]>> \in Seq(Ref)
  BY OneRefType, ReadType DEF Present
<1> QED
  BY <1>1, ManifestType DEF RecordCandidate, TypeOK

\* The text of a quote is content.
LEMMA TextType == TypeOK => \A q \in BlockIds : Text(q) \in Content
BY EmptyType, ContentType DEF Text, Present, TypeOK

\* Noting the text of a listed quote.
LEMMA HeadsType ==
    ASSUME TypeOK, NEW q \in BlockIds, NEW t \in Content
    PROVE  [run.heads EXCEPT ![q] = t] \in [BlockIds -> Content]
BY DEF TypeOK, Run

\* What an append carries is content, mangled or not.
LEMMA FirstBatchType ==
    ASSUME run.item \in Items
    PROVE  /\ FirstBatch \in Content /\ FirstBatch # <<>>
           /\ Append(Front(FirstBatch), Foreign) \in Content
           /\ Append(Front(FirstBatch), Foreign) # <<>>
<1>1. Body \in Content /\ Len(Body) \in Nat /\ Len(Body) >= 1
  BY BodyType DEF Body, Content
<1>2. FirstBatch \in Content /\ Len(FirstBatch) >= 1
  BY <1>1 DEF FirstBatch, Content
<1>3. Front(FirstBatch) \in Content
  BY <1>2 DEF Front, Content
<1>4. Len(Append(Front(FirstBatch), Foreign)) >= 1
  BY <1>3 DEF Content
<1> QED
  BY <1>2, <1>3, <1>4 DEF Content

\* Leaving a run is well typed whatever its result.
LEMMA EndRunType ==
    ASSUME NEW result \in Outcomes, EndRun(result)
    PROVE  pc' = "idle" /\ run' \in Run /\ outcome' \in Outcomes
BY DEF EndRun, IdleRun, Run, Content

\* A fault is only spent below the bound.
LEMMA FaultType ==
    ASSUME faults \in 0..MaxFaults, Fault
    PROVE  faults' \in 0..MaxFaults
BY BoundsAssumption DEF Fault

-----------------------------------------------------------------------------
(* Type correctness *)

LEMMA InitType == Init => TypeInv
<1> SUFFICES ASSUME Init PROVE TypeInv
  OBVIOUS
<1>1. run \in Run
  BY DEF Init, IdleRun, Run, Content
<1>2. manifest \in Manifest
  BY DEF Init, NoManifest, Manifest
<1>3. quotes \in [BlockIds -> Content]
  <2>1. CASE status = "absent"
    BY <2>1, EmptyType DEF Init
  <2>2. CASE operation \in Items
    <3>1. BodyOf[operation] \in Content
      BY <2>2, BodyType
    <3> QED
      BY <3>1, EmptyType DEF Init
  <2> QED
    BY <2>1, <2>2 DEF Init
<1> QED
  BY <1>1, <1>2, <1>3, ItemsAssumption, BoundsAssumption
     DEF Init, TypeInv, TypeOK, Working, Content, Steps, Outcomes

LEMMA NextType == TypeInv /\ [Next]_vars => TypeInv'
<1> SUFFICES ASSUME TypeInv, [Next]_vars PROVE TypeInv'
  OBVIOUS
<1> USE DEF TypeInv, Working, envVars, pageVars
<1>1. CASE PreflightBlocked
  BY <1>1, EndRunType DEF PreflightBlocked, TypeOK, Steps, Outcomes
<1>2. CASE ApplyBase
  <2>1. run' \in Run
    BY <1>2, EmptyType DEF ApplyBase, TypeOK, IdleRun, Run
  <2> QED
    BY <1>2, <2>1 DEF ApplyBase, TypeOK, Steps, IdleRun
<1>3. CASE DecideSync
  BY <1>3 DEF DecideSync, TypeOK, Steps
<1>4. CASE DecideCurrent
  BY <1>4, EndRunType DEF DecideCurrent, TypeOK, Steps, Outcomes
<1>5. CASE StageManifest
  <2>1. manifest' \in Manifest
    BY <1>5, StagedType DEF StageManifest, Manifest, TypeOK
  <2>2. run' \in Run /\ run'.item = run.item
    BY <1>5 DEF StageManifest, TypeOK, Run, Present, SameGeneration
  <2> QED
    BY <1>5, <2>1, <2>2 DEF StageManifest, TypeOK, Steps
<1>6. CASE StageRefused
  BY <1>6, EndRunType DEF StageRefused, TypeOK, Steps, Outcomes
<1>7. CASE CandidateFromManifest
  <2>1. manifest' \in Manifest
    <3>1. manifest \in Manifest /\ [manifest EXCEPT !.p = <<>>] \in Manifest
      BY EmptyType, ManifestType DEF TypeOK
    <3> QED
      BY <1>7, <3>1 DEF CandidateFromManifest
  <2>2. manifest.p # <<>> => manifest.p[1].i \in BlockIds
    <3>1. manifest.p \in Seq(Ref)
      BY DEF TypeOK, Manifest
    <3>2. manifest.p # <<>> => manifest.p[1] \in Ref
      BY <3>1
    <3> QED
      BY <3>2 DEF Ref
  <2>3. /\ run' \in Run /\ pc' \in Steps /\ outcome' \in Outcomes
        /\ Working'
    BY <1>7, <2>2, EndRunType DEF CandidateFromManifest, TypeOK, Run, Steps, Outcomes
  <2> QED
    BY <1>7, <2>1, <2>3 DEF CandidateFromManifest, TypeOK
<1>8. CASE CandidateFromOldRef
  <2>1. PICK k \in AdoptableRefs :
          /\ manifest' = [manifest EXCEPT !.p = <<manifest.o[k]>>]
          /\ run' = [run EXCEPT !.cand = manifest.o[k].i]
    BY <1>8 DEF CandidateFromOldRef
  <2>2. manifest.o[k] \in Ref
    BY DEF AdoptableRefs, TypeOK, Manifest
  <2>3. manifest' \in Manifest
    <3>1. <<manifest.o[k]>> \in Seq(Ref)
      BY <2>2
    <3> QED
      BY <2>1, <3>1, ManifestType DEF TypeOK
  <2>4. run' \in Run /\ run'.item = run.item /\ run'.cand \in BlockIds
    BY <2>1, <2>2 DEF TypeOK, Run, Ref
  <2> QED
    BY <1>8, <2>3, <2>4 DEF CandidateFromOldRef, TypeOK, Steps
<1>9. CASE CandidateUntracked
  <2>1. UntrackedCandidates \subseteq BlockIds
    BY DEF UntrackedCandidates, Untracked, Present
  <2>2. /\ run' \in Run /\ pc' \in Steps /\ outcome' \in Outcomes
        /\ Working'
    BY <1>9, <2>1, EndRunType DEF CandidateUntracked, TypeOK, Run, Steps, Outcomes
  <2> QED
    BY <1>9, <2>2 DEF CandidateUntracked, TypeOK
<1>10. CASE AppendContainer
  <2>1. PICK q \in BlockIds \ used :
          /\ quotes' = [quotes EXCEPT ![q] = FirstBatch]
          /\ used' = used \cup {q}
          /\ \/ /\ run' = [run EXCEPT !.cand = q, !.heads[q] = <<Head(FirstBatch)>>]
                /\ pc' = "check"
                /\ UNCHANGED faults
             \/ Fault /\ pc' = "find" /\ UNCHANGED run
    BY <1>10 DEF AppendContainer, NewQuote
  <2>2. quotes' \in [BlockIds -> Content] /\ used' \subseteq BlockIds
    BY <1>10, <2>1, FirstBatchType DEF AppendContainer, TypeOK
  <2>a. <<Head(FirstBatch)>> \in Content
    BY <1>10, FirstBatchType, ContentType DEF AppendContainer
  <2>b. [run.heads EXCEPT ![q] = <<Head(FirstBatch)>>] \in [BlockIds -> Content]
    BY <2>a, HeadsType
  <2>3. run' \in Run /\ pc' \in Steps /\ Working'
    BY <1>10, <2>1, <2>b DEF AppendContainer, TypeOK, Run, Steps
  <2>4. faults' \in 0..MaxFaults
    BY <2>1, FaultType DEF TypeOK
  <2> QED
    BY <1>10, <2>2, <2>3, <2>4 DEF AppendContainer, TypeOK
<1>11. CASE AppendContainerMangled
  <2> DEFINE mangled == Append(Front(FirstBatch), Foreign)
  <2>1. PICK q \in BlockIds \ used :
          /\ quotes' = [quotes EXCEPT ![q] = mangled]
          /\ used' = used \cup {q}
          /\ \/ pc' = "find" /\ UNCHANGED run
             \/ /\ pc' = "check"
                /\ run' = [run EXCEPT !.cand = q, !.heads[q] = <<Head(mangled)>>]
    BY <1>11 DEF AppendContainerMangled
  <2>2. quotes' \in [BlockIds -> Content] /\ used' \subseteq BlockIds
    BY <1>11, <2>1, FirstBatchType DEF AppendContainerMangled, TypeOK
  <2>a. <<Head(mangled)>> \in Content
    BY <1>11, FirstBatchType, ContentType DEF AppendContainerMangled
  <2> HIDE DEF mangled
  <2>b. [run.heads EXCEPT ![q] = <<Head(mangled)>>] \in [BlockIds -> Content]
    BY <2>a, HeadsType
  <2>3. run' \in Run /\ pc' \in Steps /\ Working'
    BY <1>11, <2>1, <2>b DEF AppendContainerMangled, TypeOK, Run, Steps
  <2> QED
    BY <1>11, <2>2, <2>3, FaultType DEF AppendContainerMangled, TypeOK
<1>12. CASE AppendContainerFailed
  BY <1>12, FaultType DEF AppendContainerFailed, TypeOK, Steps
<1>13. CASE FindAppended
  <2>1. UntrackedCandidates \subseteq BlockIds
    BY DEF UntrackedCandidates, Untracked, Present
  <2>a. CASE EndRun("failed")
    BY <1>13, <2>a, EndRunType DEF FindAppended, TypeOK, Steps, Outcomes
  <2>b. CASE ~EndRun("failed")
    <3>1. PICK q \in UntrackedCandidates :
            run' = [run EXCEPT !.cand = q, !.heads[q] = Text(q)] /\ pc' = "check"
      BY <1>13, <2>b DEF FindAppended
    <3>2. [run.heads EXCEPT ![q] = Text(q)] \in [BlockIds -> Content]
      BY <2>1, TextType, HeadsType
    <3>3. run' \in Run /\ pc' \in Steps /\ Working'
      BY <1>13, <2>1, <3>1, <3>2 DEF FindAppended, TypeOK, Run, Steps
    <3> QED
      BY <1>13, <2>b, <3>3 DEF FindAppended, TypeOK
  <2> QED
    BY <2>a, <2>b
<1>14. CASE CheckAppended
  <2>1. manifest' \in Manifest
    BY <1>14, RecordType DEF CheckAppended, TypeOK
  <2>2. /\ run' \in Run /\ pc' \in Steps /\ outcome' \in Outcomes
        /\ Working'
    BY <1>14, EndRunType DEF CheckAppended, TypeOK, Steps, Outcomes
  <2> QED
    BY <1>14, <2>1, <2>2 DEF CheckAppended, TypeOK
<1>15. CASE PersistCandidate
  <2>1. PrefixLength \in Nat /\ run.cand \in BlockIds
    BY <1>15 DEF PersistCandidate, PrefixLength, TypeOK, Content
  <2>2. [run.heads EXCEPT ![run.cand] = Text(run.cand)] \in [BlockIds -> Content]
    BY <2>1, TextType, HeadsType
  <2>3. /\ run' \in Run /\ pc' \in Steps /\ outcome' \in Outcomes
        /\ Working'
    BY <1>15, <2>1, <2>2, EndRunType DEF PersistCandidate, TypeOK, Run, Steps, Outcomes
  <2> QED
    BY <1>15, <2>3 DEF PersistCandidate, TypeOK
<1>27. CASE RecordPrefix
  <2>1. manifest' \in Manifest
    BY <1>27, RecordType DEF RecordPrefix, TypeOK
  <2>2. /\ run' \in Run /\ pc' \in Steps /\ outcome' \in Outcomes
        /\ Working'
    BY <1>27, EndRunType DEF RecordPrefix, TypeOK, Steps, Outcomes
  <2> QED
    BY <1>27, <2>1, <2>2 DEF RecordPrefix, TypeOK
<1>16. CASE AppendBatch
  <2>1. Body[run.reached + 1] \in Chunks
    BY <1>16, ItemsAssumption, BodyType DEF AppendBatch, Body, TypeOK, Run
  <2>2. quotes' \in [BlockIds -> Content]
    <3>1. run.cand \in BlockIds /\ quotes[run.cand] \in Content
      BY <1>16 DEF AppendBatch, TypeOK
    <3>2. /\ Append(quotes[run.cand], Body[run.reached + 1]) \in Content
          /\ Append(quotes[run.cand], Foreign) \in Content
      BY <2>1, <3>1, ContentType
    <3> QED
      BY <1>16, <3>2 DEF AppendBatch, TypeOK
  <2>3. faults' \in 0..MaxFaults
    BY <1>16, FaultType DEF AppendBatch, TypeOK
  <2> QED
    BY <1>16, <2>2, <2>3 DEF AppendBatch, TypeOK, Steps
<1>17. CASE VerifyCompleted
  <2>1. [q \in BlockIds |-> Text(q)] \in [BlockIds -> Content]
    BY TextType
  <2>2. run' \in Run /\ pc' \in Steps /\ Working'
    BY <1>17, <2>1 DEF VerifyCompleted, TypeOK, Run, Steps
  <2>3. shown' \in Content
    BY <1>17, BodyType DEF VerifyCompleted, Body
  <2> QED
    BY <1>17, <2>2, <2>3 DEF VerifyCompleted, TypeOK
<1>18. CASE VerifyFailed
  BY <1>18, EndRunType DEF VerifyFailed, TypeOK, Steps, Outcomes
<1>28. CASE SealCandidate
  <2>1. manifest' \in Manifest /\ manifest.o \in Seq(Ref)
    BY <1>28, RecordType DEF SealCandidate, TypeOK, Manifest
  <2>2. /\ run' \in Run /\ pc' \in Steps /\ outcome' \in Outcomes
        /\ Working'
    BY <1>28, <2>1, EndRunType DEF SealCandidate, TypeOK, Run, Steps, Outcomes
  <2> QED
    BY <1>28, <2>1, <2>2 DEF SealCandidate, TypeOK
<1>19. CASE CheckOld
  <2>1. run.todo \in Seq(Ref) /\ run.todo # <<>>
    BY <1>19 DEF CheckOld, TypeOK, Run
  <2>2. Tail(run.todo) \in Seq(Ref)
    BY <2>1
  <2>3. CASE \E result \in Outcomes : EndRun(result)
    BY <1>19, <2>3, EndRunType DEF CheckOld, TypeOK, Steps
  <2>4. CASE run' = [run EXCEPT !.todo = Tail(@)] /\ UNCHANGED <<pc, outcome>>
    <3>1. run' \in Run /\ run'.item = run.item /\ run'.cand = run.cand
      BY <2>2, <2>4 DEF TypeOK, Run
    <3> QED
      BY <1>19, <2>4, <3>1 DEF CheckOld, TypeOK
  <2>5. CASE pc' = "delete" /\ UNCHANGED <<run, outcome>>
    <3>1. ~OldSkipped(Head(run.todo))
      BY <1>19, <2>5 DEF CheckOld, EndRun
    <3> QED
      BY <1>19, <2>1, <2>5, <3>1 DEF CheckOld, TypeOK, Steps, OldSkipped
  <2> QED
    BY <1>19, <2>3, <2>4, <2>5 DEF CheckOld, Outcomes
<1>29. CASE DeleteOld
  <2>1. run.todo \in Seq(Ref) /\ run.todo # <<>>
    BY <1>29 DEF DeleteOld, TypeOK, Run
  <2>2. Tail(run.todo) \in Seq(Ref)
    BY <2>1
  <2>3. quotes' \in [BlockIds -> Content]
    BY <1>29, EmptyType DEF DeleteOld, TypeOK
  <2>4. /\ run' \in Run /\ pc' \in Steps /\ outcome' \in Outcomes
        /\ Working'
    BY <1>29, <2>2, EndRunType DEF DeleteOld, TypeOK, Run, Steps, Outcomes
  <2> QED
    BY <1>29, <2>3, <2>4 DEF DeleteOld, TypeOK
<1>20. CASE RetiredAll
  BY <1>20 DEF RetiredAll, TypeOK, Run, Steps
<1>21. CASE CommitItem
  <2>1. manifest' \in Manifest /\ bodyHash' \in Content
    <3>1. Body \in Content
      BY <1>21, BodyType DEF CommitItem, Body
    <3>2. [s |-> "committed", op |-> run.item, p |-> manifest.p, o |-> <<>>] \in Manifest
      BY <1>21, EmptyType DEF CommitItem, TypeOK, Manifest
    <3> QED
      BY <1>21, <3>1, <3>2 DEF CommitItem, TypeOK
  <2> QED
    BY <1>21, <2>1 DEF CommitItem, TypeOK, Steps
<1>22. CASE ReadBack
  BY <1>22, EndRunType DEF ReadBack, TypeOK, Steps, Outcomes
<1>23. CASE Crash
  BY <1>23, EndRunType, FaultType DEF Crash, TypeOK, Steps, Outcomes
<1>24. CASE SourceChanges
  BY <1>24, ItemsAssumption, BoundsAssumption DEF SourceChanges, TypeOK, OldSkipped
<1>25. CASE PersonEdits
  <2>1. PICK q \in BlockIds : EditText(q) \/ EditChildren(q) \/ AddQuote(q) \/ RemoveQuote(q)
    BY <1>25 DEF PersonEdits
  <2>2. quotes' \in [BlockIds -> Content]
    <3>1. CASE EditText(q)
      BY <3>1, ContentType DEF EditText, Present, TypeOK
    <3>2. CASE EditChildren(q)
      BY <3>2, ContentType DEF EditChildren, TypeOK
    <3>3. CASE AddQuote(q)
      BY <3>3, ContentType, EmptyType DEF AddQuote, TypeOK
    <3>4. CASE RemoveQuote(q)
      BY <3>4, EmptyType DEF RemoveQuote, TypeOK
    <3> QED
      BY <2>1, <3>1, <3>2, <3>3, <3>4
  <2>3. used' \subseteq BlockIds /\ guarded' \subseteq BlockIds
    BY <2>1 DEF EditText, EditChildren, AddQuote, RemoveQuote, TypeOK
  <2> QED
    BY <1>25, <2>2, <2>3, BoundsAssumption DEF PersonEdits, TypeOK, OldSkipped
<1>26. CASE UNCHANGED vars
  BY <1>26 DEF vars, TypeOK, OldSkipped
<1> QED
  BY <1>1, <1>2, <1>3, <1>4, <1>5, <1>6, <1>7, <1>8, <1>9, <1>10, <1>11, <1>12,
     <1>13, <1>14, <1>15, <1>16, <1>17, <1>18, <1>19, <1>20, <1>21, <1>22, <1>23,
     <1>24, <1>25, <1>26, <1>27, <1>28, <1>29 DEF Next, RunStep

\* Every reachable state is well typed, whatever crashes, changes and edits.
THEOREM TypeCorrect == Spec => []TypeOK
<1>1. Spec => []TypeInv
  BY InitType, NextType, PTL DEF Spec
<1>2. TypeInv => TypeOK
  BY DEF TypeInv
<1> QED
  BY <1>1, <1>2, PTL

-----------------------------------------------------------------------------
(***************************************************************************)
(* CommittedIsExact.  It is not inductive: that a commit is exact was      *)
(* settled earlier in the run, by the verification of the candidate and by *)
(* the deletions that followed it, or by an earlier run whose commit the   *)
(* present one repeats.  CommitInv carries those facts to the commit.      *)
(***************************************************************************)

\* The steps between the pending manifest and the commit.
BuildSteps == {"pick", "reuse", "append", "find", "check", "persist", "record", "extend",
               "regrow", "seal", "retire", "delete"}

\* Those before the candidate has been verified.
GrowSteps == BuildSteps \ {"seal", "retire", "delete"}

\* The old quotes are going.
Retiring == pc \in {"retire", "delete"}

\* The commit of a body this run has built.
Finished == Retiring \/ (pc = "commit" /\ run.wrote)

\* The page is the run's: pending for its item until the commit.
PagePending ==
    /\ pc # "idle" => operation = run.item
    /\ pc = "decide" => ~run.wrote
    /\ pc \in BuildSteps \cup {"stage", "commit"} => status = "pending"
    /\ pc \in BuildSteps \/ Finished => manifest.s = "pending"

\* A commit without a new body repeats one that was complete.
CommitRepeats ==
    pc = "commit" /\ ~run.wrote => manifest.s = "committed" /\ bodyHash = Body

\* A candidate is read again as it was listed.
CandidateListed ==
    edits = 0 =>
        /\ pc \in {"check", "record"} =>
            run.cand \in Present /\ run.heads[run.cand] = Text(run.cand)
        /\ pc = "seal" =>
            /\ run.cand \in BlockIds
            /\ quotes[run.cand] = Body
            /\ \A q \in Present : run.heads[q] = Text(q)

\* After the verification the manifest names the candidate, the candidate is
\* the body, and whatever else is on the page is still to be deleted.
CandidateComplete ==
    Finished /\ edits = 0 =>
        /\ run.cand \in BlockIds
        /\ manifest.p = <<[i |-> run.cand, h |-> Body]>>
        /\ quotes[run.cand] = Body
        /\ \A q \in Present \ {run.cand} :
            Retiring /\ q \in Ids(run.todo) /\ run.heads[q] # <<>>

\* A committed manifest describes the page.
ManifestExact ==
    manifest.s = "committed" =>
        /\ manifest.o = <<>>
        /\ edits = 0 =>
            \E q \in BlockIds :
                /\ manifest.p = <<[i |-> q, h |-> bodyHash]>>
                /\ Present = {q}
                /\ quotes[q] = bodyHash

\* A committed status rests on a committed manifest of the same body.
StatusExact ==
    status = "committed" => manifest.s = "committed" /\ bodyHash = BodyOf[operation]

CommitInv ==
    /\ PagePending
    /\ CommitRepeats
    /\ CandidateListed
    /\ CandidateComplete
    /\ ManifestExact
    /\ StatusExact

LEMMA CommitInvSuffices == CommitInv => CommittedIsExact
BY DEF CommitInv, ManifestExact, StatusExact, CommittedIsExact

LEMMA CommitInit == Init => CommitInv
BY DEF Init, CommitInv, PagePending, CommitRepeats, CandidateListed, CandidateComplete,
       Finished, Retiring, ManifestExact, StatusExact, BuildSteps, NoManifest

\* The refs still to delete are the first one and the rest.
LEMMA IdsTail ==
    ASSUME NEW refs \in Seq(Ref), refs # <<>>
    PROVE  Ids(refs) = {Head(refs).i} \cup Ids(Tail(refs))
<1>1. \A k \in DOMAIN Tail(refs) : k + 1 \in DOMAIN refs /\ Tail(refs)[k] = refs[k + 1]
  OBVIOUS
<1>2. \A k \in DOMAIN refs : k = 1 \/ (k - 1 \in DOMAIN Tail(refs) /\ Tail(refs)[k - 1] = refs[k])
  OBVIOUS
<1>3. 1 \in DOMAIN refs /\ Head(refs) = refs[1]
  OBVIOUS
<1>4. ASSUME NEW q \in Ids(refs) PROVE q \in {Head(refs).i} \cup Ids(Tail(refs))
  <2>1. PICK k \in DOMAIN refs : refs[k].i = q
    BY DEF Ids
  <2>2. CASE k = 1
    BY <1>3, <2>1, <2>2
  <2>3. CASE k # 1
    BY <1>2, <2>1, <2>3 DEF Ids
  <2> QED
    BY <2>2, <2>3
<1>5. ASSUME NEW q \in Ids(Tail(refs)) PROVE q \in Ids(refs)
  <2>1. PICK k \in DOMAIN Tail(refs) : Tail(refs)[k].i = q
    BY DEF Ids
  <2> QED
    BY <1>1, <2>1 DEF Ids
<1>6. Head(refs).i \in Ids(refs)
  BY <1>3 DEF Ids
<1> QED
  BY <1>4, <1>5, <1>6

\* A quote is its text and its children.
LEMMA TextAndRest ==
    ASSUME TypeOK, NEW q \in Present
    PROVE  Text(q) \o Tail(quotes[q]) = quotes[q]
<1>1. quotes[q] \in Seq(Chunks \cup {Foreign}) /\ quotes[q] # <<>>
  BY DEF Present, TypeOK, Content
<1>2. <<Head(quotes[q])>> \o Tail(quotes[q]) = quotes[q]
  BY <1>1
<1> QED
  BY <1>2 DEF Text

\* What a page claims does not depend on a run that has ended.
LEMMA CommitEndRun ==
    ASSUME CommitInv, NEW result, EndRun(result),
           UNCHANGED <<pageVars, quotes, edits>>
    PROVE  CommitInv'
BY DEF CommitInv, PagePending, CommitRepeats, CandidateListed, CandidateComplete, Finished,
       Retiring, ManifestExact, StatusExact, BuildSteps, EndRun, IdleRun, pageVars, Present

\* Between the pending manifest and the verification only the page's pending
\* state and the listed candidate matter: quotes may appear, grow or be read.
LEMMA CommitBuild ==
    ASSUME TypeInv, CommitInv, pc \in BuildSteps, pc' \in GrowSteps,
           run'.item = run.item, manifest'.s = "pending",
           UNCHANGED <<status, operation>>, CandidateListed'
    PROVE  CommitInv'
<1>1. status = "pending" /\ operation = run.item
  BY DEF CommitInv, PagePending, BuildSteps
<1>2. PagePending'
  BY <1>1 DEF PagePending, Finished, Retiring, BuildSteps, GrowSteps
<1>3. CommitRepeats' /\ CandidateComplete'
  BY DEF CommitRepeats, CandidateComplete, Finished, Retiring, BuildSteps, GrowSteps
<1>4. ManifestExact' /\ StatusExact'
  BY <1>1 DEF ManifestExact, StatusExact
<1> QED
  BY <1>2, <1>3, <1>4 DEF CommitInv

\* A run that ends while it builds leaves a pending manifest behind.
LEMMA CommitAbandon ==
    ASSUME CommitInv, pc \in BuildSteps, NEW result, EndRun(result),
           manifest'.s = "pending", UNCHANGED <<status, operation>>
    PROVE  CommitInv'
<1>1. status = "pending"
  BY DEF CommitInv, PagePending, BuildSteps
<1> QED
  BY <1>1 DEF CommitInv, PagePending, CommitRepeats, CandidateListed, CandidateComplete,
              Finished, Retiring, ManifestExact, StatusExact, BuildSteps, EndRun, IdleRun

\* A new quote is known by the text it came with.
LEMMA NewListed ==
    ASSUME TypeInv, NEW q \in BlockIds, NEW c, c # <<>>, pc' \in {"find", "check"},
           quotes' = [quotes EXCEPT ![q] = c],
           \/ pc' = "find"
           \/ run' = [run EXCEPT !.cand = q, !.heads[q] = <<Head(c)>>]
    PROVE  CandidateListed'
<1>1. quotes'[q] = c /\ q \in Present'
  BY DEF TypeInv, TypeOK, Present
<1>2. CASE run' = [run EXCEPT !.cand = q, !.heads[q] = <<Head(c)>>]
  <2>1. run'.cand = q /\ run'.heads[q] = <<Head(c)>>
    BY <1>2 DEF TypeInv, TypeOK, Run
  <2> QED
    BY <1>1, <2>1 DEF CandidateListed, Text
<1> QED
  BY <1>2 DEF CandidateListed

\* The first of the old refs is done with: it was to be skipped, or its quote is
\* deleted, which is not the candidate.
LEMMA CommitShorter ==
    ASSUME TypeInv, CommitInv, Retiring, pc' = "retire", run.todo # <<>>,
           run' = [run EXCEPT !.todo = Tail(@)], UNCHANGED <<pageVars, edits>>,
           \/ OldSkipped(Head(run.todo)) /\ UNCHANGED quotes
           \/ /\ quotes' = [quotes EXCEPT ![Head(run.todo).i] = <<>>]
              /\ ~OldSkipped(Head(run.todo))
    PROVE  CommitInv'
<1>a. run \in Run
  BY DEF TypeInv, TypeOK
<1>1. /\ run'.item = run.item /\ run'.cand = run.cand /\ run'.heads = run.heads
      /\ run'.todo = Tail(run.todo)
  BY <1>a DEF Run
<1>2. Ids(run.todo) = {Head(run.todo).i} \cup Ids(run'.todo)
  BY <1>1, <1>a, IdsTail DEF Run
<1>3. Present' \subseteq Present /\ (edits = 0 => quotes'[run.cand] = quotes[run.cand])
  <2> DEFINE old == Head(run.todo).i
  <2>1. CASE UNCHANGED quotes
    BY <2>1 DEF Present
  <2>2. CASE quotes' = [quotes EXCEPT ![old] = <<>>] /\ old # run.cand
    <3>1. \A q : q # old => quotes'[q] = quotes[q]
      BY <2>2 DEF TypeInv, TypeOK
    <3>2. old \in BlockIds => quotes'[old] = <<>>
      BY <2>2 DEF TypeInv, TypeOK
    <3> QED
      BY <2>2, <3>1, <3>2 DEF Present
  <2> QED
    BY <2>1, <2>2 DEF OldSkipped
<1>4. ASSUME edits = 0, NEW q \in Present' \ {run.cand}
      PROVE  q \in Ids(run'.todo) /\ run.heads[q] # <<>>
  <2>1. q \in Ids(run.todo) /\ run.heads[q] # <<>>
    BY <1>3, <1>4 DEF CommitInv, CandidateComplete, Finished
  <2>2. q # Head(run.todo).i
    BY <1>4, <2>1 DEF Present, OldSkipped, TypeInv, TypeOK
  <2> QED
    BY <1>2, <2>1, <2>2
<1>5. CandidateComplete'
  BY <1>1, <1>3, <1>4 DEF CommitInv, CandidateComplete, Finished, Retiring, Body, pageVars
<1>6. PagePending' /\ CommitRepeats' /\ CandidateListed' /\ ManifestExact' /\ StatusExact'
  BY <1>1, <1>3 DEF CommitInv, PagePending, CommitRepeats, CandidateListed, Finished, Retiring,
                    ManifestExact, StatusExact, BuildSteps, pageVars
<1> QED
  BY <1>5, <1>6 DEF CommitInv

LEMMA CommitNext == TypeInv /\ CommitInv /\ [Next]_vars => CommitInv'
<1> SUFFICES ASSUME TypeInv, CommitInv, [Next]_vars PROVE CommitInv'
  OBVIOUS
<1> USE DEF envVars
<1>a. run \in Run /\ manifest \in Manifest
  BY DEF TypeInv, TypeOK
<1>b. pc \in BuildSteps => status = "pending" /\ manifest.s = "pending"
  BY DEF CommitInv, PagePending
<1>1. CASE PreflightBlocked
  BY <1>1, CommitEndRun DEF PreflightBlocked
<1>2. CASE ApplyBase
  <2>1. /\ pc' = "decide" /\ run'.item = source /\ ~run'.wrote /\ operation' = source
        /\ UNCHANGED <<bodyHash, manifest, quotes, edits>>
    BY <1>2 DEF ApplyBase, IdleRun
  <2>2. status' = "committed" => status = "committed" /\ operation' = operation
    BY <1>2 DEF ApplyBase
  <2>3. PagePending' /\ CommitRepeats' /\ CandidateListed' /\ CandidateComplete'
    BY <2>1
       DEF PagePending, CommitRepeats, CandidateListed, CandidateComplete, Finished,
           Retiring, BuildSteps
  <2>4. ManifestExact' /\ StatusExact'
    BY <2>1, <2>2 DEF CommitInv, ManifestExact, StatusExact, Present
  <2> QED
    BY <2>3, <2>4 DEF CommitInv
<1>3. CASE DecideSync
  <2>1. PagePending' /\ CommitRepeats' /\ CandidateListed' /\ CandidateComplete'
    BY <1>3
       DEF DecideSync, PagePending, CommitRepeats, CandidateListed, CandidateComplete,
           Finished, Retiring, BuildSteps
  <2>2. ManifestExact' /\ StatusExact'
    BY <1>3 DEF DecideSync, CommitInv, ManifestExact, StatusExact, Present
  <2> QED
    BY <2>1, <2>2 DEF CommitInv
<1>4. CASE DecideCurrent
  <2>1. CASE status = "pending"
    <3>1. /\ pc = "decide" /\ pc' = "commit" /\ bodyHash = Body /\ manifest.s = "committed"
          /\ UNCHANGED <<run, pageVars, quotes, edits>>
      BY <1>4, <2>1 DEF DecideCurrent, NeedsBodySync, GenerationCurrent, Body
    <3>2. ~run.wrote /\ operation = run.item
      BY <3>1 DEF CommitInv, PagePending
    <3>3. PagePending' /\ CommitRepeats' /\ CandidateListed' /\ CandidateComplete'
      BY <2>1, <3>1, <3>2
         DEF PagePending, CommitRepeats, CandidateListed, CandidateComplete, Finished,
             Retiring,
                              BuildSteps, pageVars, Body
    <3>4. ManifestExact' /\ StatusExact'
      BY <3>1 DEF CommitInv, ManifestExact, StatusExact, pageVars, Present
    <3> QED
      BY <3>3, <3>4 DEF CommitInv
  <2>2. CASE status # "pending"
    BY <1>4, <2>2, CommitEndRun DEF DecideCurrent
  <2> QED
    BY <2>1, <2>2
<1>5. CASE StageManifest
  <2>1. /\ pc = "stage" /\ pc' = "pick" /\ manifest'.s = "pending"
        /\ run'.item = run.item /\ UNCHANGED <<status, operation>>
    BY <1>5, <1>a DEF StageManifest, Run
  <2>2. status = "pending" /\ operation = run.item
    BY <2>1 DEF CommitInv, PagePending
  <2> QED
    BY <2>1, <2>2
       DEF CommitInv, PagePending, CommitRepeats, CandidateListed, CandidateComplete,
           Finished, Retiring,
                      ManifestExact, StatusExact, BuildSteps
<1>6. CASE StageRefused
  BY <1>6, CommitEndRun DEF StageRefused
<1>7. CASE CandidateFromManifest
  <2>1. pc \in BuildSteps /\ manifest'.s = "pending" /\ UNCHANGED <<status, operation>>
    BY <1>7, <1>a, <1>b DEF CandidateFromManifest, BuildSteps, Manifest
  <2>2. EndRun("held") \/ (pc' \in {"reuse", "persist"} /\ run'.item = run.item)
    BY <1>7, <1>a DEF CandidateFromManifest, BuildSteps, Run
  <2> QED
    BY <2>1, <2>2, CommitBuild, CommitAbandon DEF CandidateListed, BuildSteps, GrowSteps
<1>8. CASE CandidateFromOldRef
  <2>1. /\ pc \in BuildSteps /\ pc' = "persist" /\ run'.item = run.item
        /\ manifest'.s = "pending" /\ UNCHANGED <<status, operation>>
    BY <1>8, <1>a, <1>b DEF CandidateFromOldRef, BuildSteps, Manifest, Run
  <2> QED
    BY <2>1, CommitBuild DEF CandidateListed, BuildSteps, GrowSteps
<1>9. CASE CandidateUntracked
  <2>1. pc \in BuildSteps /\ manifest'.s = "pending" /\ UNCHANGED <<status, operation>>
    BY <1>9, <1>b DEF CandidateUntracked, BuildSteps, pageVars
  <2>2. EndRun("failed") \/ (pc' \in {"append", "persist"} /\ run'.item = run.item)
    BY <1>9, <1>a DEF CandidateUntracked, Run
  <2> QED
    BY <2>1, <2>2, CommitBuild, CommitAbandon DEF CandidateListed, BuildSteps, GrowSteps
<1>10. CASE AppendContainer
  <2>1. /\ pc \in BuildSteps /\ pc' \in GrowSteps /\ run'.item = run.item
        /\ manifest'.s = "pending" /\ UNCHANGED <<status, operation>>
    BY <1>10, <1>a, <1>b DEF AppendContainer, NewQuote, BuildSteps, GrowSteps, pageVars, Run
  <2>2. CandidateListed'
    <3>1. PICK q \in BlockIds :
            /\ quotes' = [quotes EXCEPT ![q] = FirstBatch]
            /\ \/ pc' = "find"
               \/ run' = [run EXCEPT !.cand = q, !.heads[q] = <<Head(FirstBatch)>>]
      BY <1>10 DEF AppendContainer, NewQuote
    <3>2. FirstBatch # <<>> /\ pc' \in {"find", "check"}
      BY <1>10, FirstBatchType DEF AppendContainer, NewQuote, TypeInv, Working
    <3> QED
      BY <3>1, <3>2, NewListed
  <2> QED
    BY <2>1, <2>2, CommitBuild
<1>11. CASE AppendContainerMangled
  <2> DEFINE mangled == Append(Front(FirstBatch), Foreign)
  <2>1. /\ pc \in BuildSteps /\ pc' \in GrowSteps /\ run'.item = run.item
        /\ manifest'.s = "pending" /\ UNCHANGED <<status, operation>>
    BY <1>11, <1>a, <1>b DEF AppendContainerMangled, BuildSteps, GrowSteps, pageVars, Run
  <2>2. CandidateListed'
    <3>1. PICK q \in BlockIds :
            /\ quotes' = [quotes EXCEPT ![q] = mangled]
            /\ \/ pc' = "find"
               \/ run' = [run EXCEPT !.cand = q, !.heads[q] = <<Head(mangled)>>]
      BY <1>11 DEF AppendContainerMangled
    <3>2. mangled # <<>> /\ pc' \in {"find", "check"}
      BY <1>11, FirstBatchType DEF AppendContainerMangled, TypeInv, Working
    <3> HIDE DEF mangled
    <3> QED
      BY <3>1, <3>2, NewListed
  <2> QED
    BY <2>1, <2>2, CommitBuild
<1>12. CASE AppendContainerFailed
  <2>1. /\ pc \in BuildSteps /\ pc' = "find" /\ run'.item = run.item
        /\ manifest'.s = "pending" /\ UNCHANGED <<status, operation>>
    BY <1>12, <1>b DEF AppendContainerFailed, BuildSteps, pageVars
  <2> QED
    BY <2>1, CommitBuild DEF CandidateListed, BuildSteps, GrowSteps
<1>13. CASE FindAppended
  <2>1. pc \in BuildSteps /\ manifest'.s = "pending" /\ UNCHANGED <<status, operation>>
    BY <1>13, <1>b DEF FindAppended, BuildSteps, pageVars
  <2>2. CASE EndRun("failed")
    BY <2>1, <2>2, CommitAbandon
  <2>3. CASE ~EndRun("failed")
    <3>1. PICK q \in UntrackedCandidates :
            run' = [run EXCEPT !.cand = q, !.heads[q] = Text(q)] /\ pc' = "check"
      BY <1>13, <2>3 DEF FindAppended
    <3>2. UNCHANGED quotes /\ q \in Present
      BY <1>13 DEF FindAppended, UntrackedCandidates, Untracked
    <3>3. run'.item = run.item /\ run'.cand = q /\ run'.heads[q] = Text(q)
      BY <3>1, <3>2, <1>a DEF Run, Present
    <3>4. CandidateListed'
      BY <3>1, <3>2, <3>3 DEF CandidateListed, Present, Text
    <3> QED
      BY <2>1, <3>1, <3>3, <3>4, CommitBuild DEF BuildSteps, GrowSteps
  <2> QED
    BY <2>2, <2>3
<1>14. CASE CheckAppended
  <2>1. pc \in BuildSteps /\ manifest'.s = "pending" /\ UNCHANGED <<status, operation>>
    BY <1>14, <1>a, <1>b DEF CheckAppended, RecordCandidate, BuildSteps, Manifest
  <2>2. \/ \E result : EndRun(result)
        \/ pc' = "persist" /\ run'.item = run.item
    BY <1>14 DEF CheckAppended
  <2> QED
    BY <2>1, <2>2, CommitBuild, CommitAbandon DEF CandidateListed, BuildSteps, GrowSteps
<1>15. CASE PersistCandidate
  <2>1. pc \in BuildSteps /\ manifest'.s = "pending" /\ UNCHANGED <<status, operation>>
    BY <1>15, <1>b DEF PersistCandidate, BuildSteps, pageVars
  <2>2. CASE \E result : EndRun(result)
    BY <2>1, <2>2, CommitAbandon
  <2>3. CASE ~\E result : EndRun(result)
    <3>1. /\ run' = [run EXCEPT
                        !.reached = PrefixLength,
                        !.short = (pc = "regrow" /\ PrefixLength <= run.reached),
                        !.heads[run.cand] = Text(run.cand)]
          /\ pc' = "record" /\ UNCHANGED quotes /\ run.cand \in Present
      BY <1>15, <2>3 DEF PersistCandidate
    <3>2. run'.item = run.item /\ run'.cand = run.cand /\ run'.heads[run.cand] = Text(run.cand)
      BY <3>1, <1>a DEF Run, Present
    <3>3. CandidateListed'
      BY <3>1, <3>2 DEF CandidateListed, Present, Text
    <3> QED
      BY <2>1, <3>1, <3>2, <3>3, CommitBuild DEF BuildSteps, GrowSteps
  <2> QED
    BY <2>2, <2>3
<1>27. CASE RecordPrefix
  <2>1. pc \in BuildSteps /\ manifest'.s = "pending" /\ UNCHANGED <<status, operation>>
    BY <1>27, <1>a, <1>b DEF RecordPrefix, RecordCandidate, BuildSteps, Manifest
  <2>2. \/ \E result : EndRun(result)
        \/ pc' = "extend" /\ run'.item = run.item
    BY <1>27 DEF RecordPrefix
  <2> QED
    BY <2>1, <2>2, CommitBuild, CommitAbandon DEF CandidateListed, BuildSteps, GrowSteps
<1>16. CASE AppendBatch
  <2>1. /\ pc \in BuildSteps /\ pc' = "regrow" /\ run'.item = run.item
        /\ manifest'.s = "pending" /\ UNCHANGED <<status, operation>>
    BY <1>16, <1>b DEF AppendBatch, BuildSteps, pageVars
  <2> QED
    BY <2>1, CommitBuild DEF CandidateListed, BuildSteps, GrowSteps
<1>17. CASE VerifyCompleted
  <2>1. /\ pc = "extend" /\ pc' = "seal" /\ UNCHANGED <<pageVars, quotes, edits>>
        /\ status = "pending" /\ operation = run.item /\ manifest.s = "pending"
        /\ run.cand \in BlockIds /\ quotes[run.cand] = Body
    BY <1>17, <1>b DEF VerifyCompleted, BuildSteps, CommitInv, PagePending, TypeInv, Working
  <2>2. /\ run'.item = run.item /\ run'.cand = run.cand
        /\ run'.heads = [q \in BlockIds |-> Text(q)]
    BY <1>17, <1>a DEF VerifyCompleted, Run
  <2>3. CandidateListed'
    BY <2>1, <2>2 DEF CandidateListed, Present, Text, Body
  <2>4. PagePending' /\ CommitRepeats' /\ CandidateComplete' /\ ManifestExact' /\ StatusExact'
    BY <2>1, <2>2 DEF PagePending, CommitRepeats, CandidateComplete, Finished, Retiring,
                      ManifestExact, StatusExact, pageVars
  <2> QED
    BY <2>3, <2>4 DEF CommitInv
<1>28. CASE SealCandidate
  <2>1. /\ pc = "seal" /\ pc \in BuildSteps /\ manifest'.s = "pending"
        /\ UNCHANGED <<status, operation, quotes, edits>>
        /\ status = "pending" /\ operation = run.item /\ run.cand \in BlockIds
    BY <1>28, <1>a, <1>b DEF SealCandidate, RecordCandidate, BuildSteps, Manifest,
                             CommitInv, PagePending, TypeInv, Working
  <2>2. CASE EndRun("failed")
    BY <2>1, <2>2, CommitAbandon
  <2>3. CASE ~EndRun("failed")
    <3>1. /\ pc' = "retire" /\ run' = [run EXCEPT !.todo = manifest.o]
          /\ run.cand \in Present
          /\ RecordCandidate(AsRead(run.cand))
          /\ \A q \in BlockIds :
                run.heads[q] # <<>> => q = run.cand \/ q \in Ids(manifest.o)
      BY <1>28, <2>3 DEF SealCandidate
    <3>2. /\ run'.item = run.item /\ run'.cand = run.cand /\ run'.todo = manifest.o
          /\ run'.heads = run.heads
      BY <3>1, <1>a DEF Run
    <3>3. manifest'.p = <<[i |-> run.cand, h |-> AsRead(run.cand)]>>
      BY <3>1, <1>a DEF RecordCandidate, Manifest
    <3>4. ASSUME edits = 0
          PROVE  /\ AsRead(run.cand) = Body /\ quotes[run.cand] = Body
                 /\ \A q \in Present : run.heads[q] = Text(q)
      <4>1. quotes[run.cand] = Body /\ \A q \in Present : run.heads[q] = Text(q)
        BY <2>1, <3>4 DEF CommitInv, CandidateListed
      <4>2. AsRead(run.cand) = quotes[run.cand]
        BY <3>1, <4>1, TextAndRest DEF AsRead, TypeInv
      <4> QED
        BY <4>1, <4>2
    <3>5. \A q \in Present : q \in BlockIds /\ Text(q) # <<>>
      BY DEF Present, Text
    <3>6. CandidateComplete'
      <4> SUFFICES ASSUME edits = 0
                   PROVE  /\ manifest'.p = <<[i |-> run'.cand, h |-> Body']>>
                          /\ quotes'[run'.cand] = Body' /\ run'.cand \in BlockIds
                          /\ \A q \in Present' \ {run'.cand} :
                                Retiring' /\ q \in Ids(run'.todo) /\ run'.heads[q] # <<>>
        BY <2>1 DEF CandidateComplete
      <4>1. Body' = Body /\ Present' = Present /\ Retiring'
        BY <2>1, <3>1, <3>2 DEF Body, Present, Retiring
      <4> QED
        BY <2>1, <3>1, <3>2, <3>3, <3>4, <3>5, <4>1
    <3>7. PagePending' /\ CommitRepeats' /\ CandidateListed' /\ ManifestExact' /\ StatusExact'
      BY <2>1, <3>1, <3>2 DEF PagePending, CommitRepeats, CandidateListed, Finished, Retiring,
                              ManifestExact, StatusExact
    <3> QED
      BY <3>6, <3>7 DEF CommitInv
  <2> QED
    BY <2>2, <2>3
<1>18. CASE VerifyFailed
  BY <1>18, CommitEndRun DEF VerifyFailed
<1>19. CASE CheckOld
  <2>1. pc = "retire" /\ UNCHANGED <<pageVars, quotes, edits>> /\ run.todo # <<>>
    BY <1>19 DEF CheckOld
  <2>2. CASE \E result : EndRun(result)
    BY <2>1, <2>2, CommitEndRun
  <2>3. CASE OldSkipped(Head(run.todo)) /\ run' = [run EXCEPT !.todo = Tail(@)] /\ UNCHANGED pc
    BY <2>1, <2>3, CommitShorter DEF Retiring
  <2>4. CASE pc' = "delete" /\ UNCHANGED run
    BY <2>1, <2>4 DEF CommitInv, PagePending, CommitRepeats, CandidateListed, CandidateComplete,
                      Finished, Retiring, ManifestExact, StatusExact, BuildSteps, pageVars,
                      Present, Body
  <2> QED
    BY <1>19, <2>2, <2>3, <2>4 DEF CheckOld
<1>29. CASE DeleteOld
  <2>1. /\ pc = "delete" /\ UNCHANGED <<pageVars, edits>>
        /\ run.todo # <<>> /\ ~OldSkipped(Head(run.todo))
    BY <1>29 DEF DeleteOld, TypeInv, Working
  <2>2. CASE UNCHANGED quotes /\ EndRun("failed")
    BY <2>1, <2>2, CommitEndRun
  <2>3. CASE /\ quotes' = [quotes EXCEPT ![Head(run.todo).i] = <<>>]
             /\ run' = [run EXCEPT !.todo = Tail(@)] /\ pc' = "retire"
    BY <2>1, <2>3, CommitShorter DEF Retiring
  <2> QED
    BY <1>29, <2>2, <2>3 DEF DeleteOld
<1>20. CASE RetiredAll
  <2>1. /\ pc = "retire" /\ pc' = "commit" /\ run.todo = <<>>
        /\ run'.item = run.item /\ run'.cand = run.cand /\ run'.wrote
        /\ UNCHANGED <<pageVars, quotes, edits>>
    BY <1>20, <1>a DEF RetiredAll, Run
  <2>2. Ids(run.todo) = {}
    BY <2>1 DEF Ids
  <2>3. CandidateComplete'
    BY <2>1, <2>2 DEF CommitInv, CandidateComplete, Finished, Retiring, Present, Body, pageVars
  <2>4. PagePending' /\ CommitRepeats' /\ CandidateListed' /\ ManifestExact' /\ StatusExact'
    BY <2>1
       DEF CommitInv, PagePending, CommitRepeats, CandidateListed, Finished, Retiring,
           ManifestExact,
                StatusExact, BuildSteps, pageVars, Present
  <2> QED
    BY <2>3, <2>4 DEF CommitInv
<1>21. CASE CommitItem
  <2>1. /\ pc = "commit" /\ pc' = "readback" /\ operation' = run.item
        /\ UNCHANGED <<quotes, run, edits>>
    BY <1>21 DEF CommitItem
  <2>2. PagePending' /\ CommitRepeats' /\ CandidateListed' /\ CandidateComplete'
    BY <2>1
       DEF PagePending, CommitRepeats, CandidateListed, CandidateComplete, Finished,
           Retiring, BuildSteps
  <2>3. CASE run.wrote
    <3>1. /\ bodyHash' = Body
          /\ manifest' = [s |-> "committed", op |-> run.item, p |-> manifest.p, o |-> <<>>]
      BY <1>21, <2>3 DEF CommitItem
    <3>2. edits = 0 =>
            /\ run.cand \in BlockIds
            /\ manifest.p = <<[i |-> run.cand, h |-> Body]>>
            /\ quotes[run.cand] = Body
            /\ Present \ {run.cand} = {}
      BY <2>1, <2>3 DEF CommitInv, CandidateComplete, Finished, Retiring
    <3>3. Body # <<>>
      BY <2>1, BodyType DEF Body, TypeInv, Working
    <3>4. edits = 0 => Present = {run.cand}
      BY <3>2, <3>3 DEF Present
    <3>5. ManifestExact'
      BY <2>1, <3>1, <3>2, <3>4 DEF ManifestExact, Present
    <3>6. StatusExact'
      BY <2>1, <3>1 DEF StatusExact, Body
    <3> QED
      BY <2>2, <3>5, <3>6 DEF CommitInv
  <2>4. CASE ~run.wrote
    <3>1. UNCHANGED <<bodyHash, manifest>>
      BY <1>21, <2>4 DEF CommitItem
    <3>2. manifest.s = "committed" /\ bodyHash = BodyOf[operation']
      BY <2>1, <2>4 DEF CommitInv, CommitRepeats, Body
    <3>3. ManifestExact' /\ StatusExact'
      BY <2>1, <3>1, <3>2 DEF CommitInv, ManifestExact, StatusExact, Present
    <3> QED
      BY <2>2, <3>3 DEF CommitInv
  <2> QED
    BY <2>3, <2>4
<1>22. CASE ReadBack
  BY <1>22, CommitEndRun DEF ReadBack
<1>23. CASE Crash
  BY <1>23, CommitEndRun DEF Crash
<1>24. CASE SourceChanges
  BY <1>24
     DEF SourceChanges, CommitInv, PagePending, CommitRepeats, CandidateListed,
         CandidateComplete,
               Finished, Retiring, ManifestExact, StatusExact, BuildSteps, pageVars, Present,
               Body, Text
<1>25. CASE PersonEdits
  <2>1. edits' # 0 /\ UNCHANGED <<pageVars, pc, run>>
    BY <1>25 DEF PersonEdits, TypeInv, TypeOK
  <2> QED
    BY <2>1
       DEF CommitInv, PagePending, CommitRepeats, CandidateListed, CandidateComplete,
           Finished, Retiring,
                ManifestExact, StatusExact, BuildSteps, pageVars, Body
<1>26. CASE UNCHANGED vars
  BY <1>26
     DEF vars, CommitInv, PagePending, CommitRepeats, CandidateListed, CandidateComplete,
         Finished, Retiring,
               ManifestExact, StatusExact, BuildSteps, Present, Body, Text
<1> QED
  BY <1>1, <1>2, <1>3, <1>4, <1>5, <1>6, <1>7, <1>8, <1>9, <1>10, <1>11, <1>12,
     <1>13, <1>14, <1>15, <1>16, <1>17, <1>18, <1>19, <1>20, <1>21, <1>22, <1>23,
     <1>24, <1>25, <1>26, <1>27, <1>28, <1>29 DEF Next, RunStep

\* On a page nobody edits, a committed status always describes the page: the
\* item's whole body, once, and nothing left of earlier generations.
THEOREM CommittedIsAlwaysExact == Spec => []CommittedIsExact
<1>1. Init => TypeInv /\ CommitInv
  BY InitType, CommitInit
<1>2. TypeInv /\ CommitInv /\ [Next]_vars => TypeInv' /\ CommitInv'
  BY NextType, CommitNext
<1>3. TypeInv /\ CommitInv => CommittedIsExact
  BY CommitInvSuffices
<1> QED
  BY <1>1, <1>2, <1>3, PTL DEF Spec

-----------------------------------------------------------------------------
(***************************************************************************)
(* No run deletes a quote that holds a guarded edit of a person            *)
(* (GuardedQuotesSurvive) for any number of edits, faults and changes.     *)
(*                                                                         *)
(* What protects the edit is the recorded hash, and the hash is re-recorded*)
(* by later runs from a text and children read at different times, adopted *)
(* into other manifests and compared before the deletion with a text listed*)
(* earlier than the children.  The invariant says that none of this ever   *)
(* makes a recorded hash catch up with a guarded edit: people only put     *)
(* Foreign chunks where the recorded content has none.  An edit that falls *)
(* after the last reading of its place is not guarded: UnseenText and      *)
(* UnseenChildren name the steps at which the code looks no more.          *)
(***************************************************************************)

\* The refs of the manifest.
Refs == {manifest.p[k] : k \in DOMAIN manifest.p} \cup {manifest.o[k] : k \in DOMAIN manifest.o}

\* The content has grown from what was recorded: it is no shorter and no
\* Foreign chunk of the record has gone.
Covers(h, c) == Len(h) <= Len(c) /\ \A k \in 1..Len(h) : h[k] = Foreign => c[k] = Foreign

\* The content holds a Foreign chunk that was not recorded.
Touched(h, c) == \E k \in 1..Len(c) : c[k] = Foreign /\ (k > Len(h) \/ h[k] # Foreign)

\* Ids are not reused and every recorded quote has had one.
IdsUsed == Present \cup guarded \cup Recorded \subseteq used

\* Edits show, so that nothing edited passes for the beginning of a body.
EditsShow == \A q \in guarded \cap Present : \E k \in 1..Len(quotes[q]) : quotes[q][k] = Foreign

\* No recorded hash has caught up with an edit.
RecordsBehind ==
    \A r \in Refs : r.i \in Present =>
        /\ Covers(r.h, quotes[r.i])
        /\ r.i \in guarded => Touched(r.h, quotes[r.i])

\* A quote built by this run is not recorded, hence not guarded, until its
\* first check.
FreshCandidate == pc = "check" => run.cand \in used \ (Recorded \cup guarded)

\* Between its check and its record a candidate that fitted is only guarded by
\* an edit of its text, which the text it was listed with does not have.
CandidateWatched ==
    pc \in {"check", "record", "seal"} =>
        /\ Len(run.heads[run.cand]) = 1
        /\ run.cand \in Present =>
            /\ run.heads[run.cand][1] = Foreign => quotes[run.cand][1] = Foreign
            /\ run.cand \in guarded => quotes[run.cand][1] = Foreign
        /\ pc # "check" => run.heads[run.cand][1] # Foreign

\* The steps after the last listing of the page.
ListedSteps == {"seal", "retire", "delete"}

\* From the last listing on, a guarded edit of an old quote is visible through
\* the text listed then.
EditsListed ==
    pc \in ListedSteps =>
        /\ \A q \in BlockIds : run.heads[q] # <<>> => Len(run.heads[q]) = 1
        /\ \A r \in Refs :
            r.i \in guarded \cap Present /\ r.i # run.cand /\ run.heads[r.i] # <<>> =>
                Touched(r.h, AsRead(r.i))

\* What is left to delete is recorded, and not guarded once it was compared.
TodoUnedited ==
    /\ pc \in {"retire", "delete"} =>
        \A k \in DOMAIN run.todo : \E j \in DOMAIN manifest.o : manifest.o[j] = run.todo[k]
    /\ pc = "delete" => Head(run.todo).i \notin guarded

GuardInv ==
    /\ IdsUsed
    /\ EditsShow
    /\ RecordsBehind
    /\ FreshCandidate
    /\ CandidateWatched
    /\ EditsListed
    /\ TodoUnedited

\* The steps at which a reading is still to be used.
ReadingSteps == {"check", "record"} \cup ListedSteps

-----------------------------------------------------------------------------
(* Records and contents *)

\* A record made from the page covers it and holds no news.
LEMMA RecordSelf ==
    ASSUME NEW c \in Content
    PROVE  Covers(c, c) /\ ~Touched(c, c)
BY DEF Covers, Touched, Content

\* Growth at the end keeps a record behind; a Foreign chunk is news.
LEMMA RecordAppend ==
    ASSUME NEW h \in Content, NEW c \in Content, NEW x \in Chunks \cup {Foreign},
           Covers(h, c)
    PROVE  /\ Covers(h, Append(c, x))
           /\ Touched(h, c) => Touched(h, Append(c, x))
           /\ Touched(h, Append(c, Foreign))
<1>1. /\ Len(Append(c, x)) = Len(c) + 1 /\ Append(c, x)[Len(c) + 1] = x
      /\ \A k \in 1..Len(c) : Append(c, x)[k] = c[k]
    BY DEF Content
<1>2. Len(Append(c, Foreign)) = Len(c) + 1 /\ Append(c, Foreign)[Len(c) + 1] = Foreign
    BY DEF Content
<1>3. Len(c) \in Nat /\ Len(h) \in Nat
    BY DEF Content
<1>4. Covers(h, Append(c, x))
    BY <1>1, <1>3 DEF Covers
<1>5. Touched(h, c) => Touched(h, Append(c, x))
    BY <1>1, <1>3 DEF Touched
<1>6. Touched(h, Append(c, Foreign))
    BY <1>2, <1>3 DEF Covers, Touched
<1> QED
    BY <1>4, <1>5, <1>6

\* So is a Foreign text where there was none.
LEMMA RecordRetype ==
    ASSUME NEW h \in Content, NEW c \in Content, c # <<>>, Head(c) # Foreign,
           Covers(h, c)
    PROVE  /\ Covers(h, <<Foreign>> \o Tail(c))
           /\ Touched(h, <<Foreign>> \o Tail(c))
<1> DEFINE d == <<Foreign>> \o Tail(c)
<1>1. /\ Len(d) = Len(c) /\ Len(c) \in Nat /\ Len(h) \in Nat /\ Len(c) >= 1
      /\ d[1] = Foreign /\ c[1] # Foreign
      /\ \A k \in 2..Len(c) : d[k] = c[k]
  BY DEF Content
<1> HIDE DEF d
<1>2. Covers(h, d) /\ Touched(h, d)
  BY <1>1 DEF Covers, Touched
<1> QED
  BY <1>2 DEF d

\* A text before some children.
LEMMA Prepend ==
    ASSUME NEW S, NEW t \in Seq(S), NEW u \in Seq(S), Len(t) = 1
    PROVE  /\ Len(t \o u) = 1 + Len(u)
           /\ \A k \in 1..(1 + Len(u)) : (t \o u)[k] = IF k = 1 THEN t[1] ELSE u[k - 1]
<1> DEFINE w == t \o u
           m == Len(u)
<1>1. /\ Len(w) = Len(t) + m
      /\ \A k \in 1..(Len(t) + m) : w[k] = IF k <= Len(t) THEN t[k] ELSE u[k - Len(t)]
  BY ConcatProperties
<1>2. m \in Nat
  OBVIOUS
<1> HIDE DEF w, m
<1>3. \A k \in 1..(1 + m) : w[k] = IF k <= 1 THEN t[k] ELSE u[k - 1]
  BY <1>1
<1>4. \A k \in 1..(1 + m) : w[k] = IF k = 1 THEN t[1] ELSE u[k - 1]
  <2> SUFFICES ASSUME NEW k \in 1..(1 + m)
               PROVE  w[k] = IF k = 1 THEN t[1] ELSE u[k - 1]
    OBVIOUS
  <2>1. k <= 1 <=> k = 1
    BY <1>2
  <2> QED
    BY <1>3, <2>1
<1>5. Len(w) = 1 + m
  BY <1>1
<1> QED
  BY <1>4, <1>5 DEF w, m

\* What the run reads of an old quote keeps showing an edit.
LEMMA RecordListed ==
    ASSUME NEW h \in Content, NEW c \in Content, c # <<>>,
           NEW t \in Content, Len(t) = 1
    PROVE  /\ Touched(h, c) => Touched(h, <<Head(c)>> \o Tail(c))
           /\ Touched(h, t \o Tail(c)) => Touched(h, t \o Tail(Append(c, Foreign)))
           /\ Covers(h, c) => Touched(h, t \o Tail(Append(c, Foreign)))
           /\ Tail(<<Foreign>> \o Tail(c)) = Tail(c)
<1>1. <<Head(c)>> \o Tail(c) = c
  BY DEF Content
<1>2. Tail(<<Foreign>> \o Tail(c)) = Tail(c)
  BY DEF Content
<1> DEFINE e == t \o Tail(c)
           f == t \o Tail(Append(c, Foreign))
<1>3. /\ Len(e) = Len(c) /\ Len(f) = Len(c) + 1 /\ Len(c) \in Nat /\ Len(h) \in Nat
      /\ f[Len(c) + 1] = Foreign
      /\ \A k \in 1..Len(c) : f[k] = e[k]
  <2> DEFINE a == Append(c, Foreign)
             u == Tail(c)
             v == Tail(a)
  <2>1. /\ Len(c) \in Nat /\ Len(c) >= 1 /\ Len(h) \in Nat
        /\ a \in Content /\ Len(a) = Len(c) + 1 /\ a[Len(c) + 1] = Foreign
        /\ \A k \in 1..Len(c) : a[k] = c[k]
    BY DEF Content
  <2>2. /\ u \in Content /\ Len(u) = Len(c) - 1
        /\ \A k \in 1..Len(u) : u[k] = c[k + 1]
    BY DEF Content
  <2> HIDE DEF a, u
  <2>3. /\ v \in Content /\ Len(v) = Len(c)
        /\ \A k \in 1..Len(v) : v[k] = a[k + 1]
    BY <2>1 DEF Content
  <2> HIDE DEF v
  <2>4. v[Len(c)] = Foreign /\ \A k \in 1..Len(u) : v[k] = u[k]
    <3>1. Len(c) \in 1..Len(v)
      BY <2>1, <2>3
    <3>2. v[Len(c)] = Foreign
      BY <2>1, <2>3, <3>1
    <3>3. ASSUME NEW k \in 1..Len(u) PROVE v[k] = u[k]
      <4>1. k \in 1..Len(v) /\ k + 1 \in 1..Len(c) /\ k \in 1..Len(u)
        BY <2>1, <2>2, <2>3
      <4>2. v[k] = a[k + 1] /\ a[k + 1] = c[k + 1] /\ u[k] = c[k + 1]
        BY <2>1, <2>2, <2>3, <4>1
      <4> QED
        BY <4>2
    <3> QED
      BY <3>2, <3>3
  <2>5. /\ Len(t \o u) = Len(c) /\ Len(t \o v) = Len(c) + 1
        /\ (t \o v)[Len(c) + 1] = Foreign
        /\ \A k \in 1..Len(c) : (t \o v)[k] = (t \o u)[k]
    <3>1. /\ u \in Seq(Chunks \cup {Foreign}) /\ v \in Seq(Chunks \cup {Foreign})
          /\ t \in Seq(Chunks \cup {Foreign})
      BY <2>2, <2>3 DEF Content
    <3>2. Len(t \o u) = 1 + Len(u) /\ Len(t \o v) = 1 + Len(v)
      BY <3>1, Prepend
    <3>3. /\ \A k \in 1..(1 + Len(u)) : (t \o u)[k] = IF k = 1 THEN t[1] ELSE u[k - 1]
          /\ \A k \in 1..(1 + Len(v)) : (t \o v)[k] = IF k = 1 THEN t[1] ELSE v[k - 1]
      BY <3>1, Prepend
    <3>4. (t \o v)[Len(c) + 1] = Foreign
      <4>1. Len(c) + 1 \in 1..(1 + Len(v)) /\ Len(c) + 1 # 1 /\ (Len(c) + 1) - 1 = Len(c)
        BY <2>1, <2>3
      <4> QED
        BY <2>4, <3>3, <4>1
    <3>5. ASSUME NEW k \in 1..Len(c) PROVE (t \o v)[k] = (t \o u)[k]
      <4>1. k \in 1..(1 + Len(u)) /\ k \in 1..(1 + Len(v)) /\ (k # 1 => k - 1 \in 1..Len(u))
        BY <2>1, <2>2, <2>3
      <4>2. k # 1 => v[k - 1] = u[k - 1]
        BY <2>4, <4>1
      <4> QED
        BY <3>3, <4>1, <4>2
    <3>6. Len(t \o u) = Len(c) /\ Len(t \o v) = Len(c) + 1
      BY <2>1, <2>2, <2>3, <3>2
    <3> QED
      BY <3>4, <3>5, <3>6
  <2> QED
    BY <2>1, <2>5 DEF a, u, v
<1> HIDE DEF e, f
<1>4. Touched(h, e) => Touched(h, f)
  BY <1>3 DEF Touched
<1>5. Covers(h, c) => Touched(h, f)
  BY <1>3 DEF Touched, Covers
<1> QED
  BY <1>1, <1>2, <1>4, <1>5 DEF e, f

\* A record made from a text listed earlier than the children lacks only what
\* became of the text.
LEMMA RecordRead ==
    ASSUME NEW c \in Content, c # <<>>, NEW t \in Content, Len(t) = 1,
           t[1] = Foreign => c[1] = Foreign
    PROVE  /\ Covers(t \o Tail(c), c)
           /\ t[1] # Foreign /\ c[1] = Foreign => Touched(t \o Tail(c), c)
<1> DEFINE u == Tail(c)
           w == t \o u
           S == Chunks \cup {Foreign}
<1>1. /\ Len(c) \in Nat /\ Len(c) >= 1 /\ u \in Seq(S) /\ t \in Seq(S)
      /\ Len(u) = Len(c) - 1 /\ \A k \in 1..Len(u) : u[k] = c[k + 1]
  BY DEF Content
<1> HIDE DEF u, S
<1>2. /\ Len(w) = 1 + Len(u)
      /\ \A k \in 1..(1 + Len(u)) : w[k] = IF k = 1 THEN t[1] ELSE u[k - 1]
  BY <1>1, Prepend
<1> HIDE DEF w
<1>3. Len(w) = Len(c) /\ w[1] = t[1]
  <2>1. 1 \in 1..(1 + Len(u))
    BY <1>1
  <2> QED
    BY <1>1, <1>2, <2>1
<1>4. ASSUME NEW k \in 1..Len(c), k # 1 PROVE w[k] = c[k]
  <2>1. k \in 1..(1 + Len(u)) /\ k - 1 \in 1..Len(u) /\ (k - 1) + 1 = k
    BY <1>1, <1>4
  <2>2. w[k] = u[k - 1] /\ u[k - 1] = c[(k - 1) + 1]
    BY <1>1, <1>2, <1>4, <2>1
  <2> QED
    BY <2>1, <2>2
<1>5. Covers(w, c)
  BY <1>1, <1>3, <1>4 DEF Covers
<1>6. t[1] # Foreign /\ c[1] = Foreign => Touched(w, c)
  BY <1>1, <1>3 DEF Touched
<1> QED
  BY <1>5, <1>6 DEF u, w

\* A body and what begins like it hold nothing Foreign.
LEMMA BodyPure ==
    ASSUME TypeOK, NEW i \in Items, NEW c \in Content, IsPrefix(c, BodyOf[i])
    PROVE  \A k \in 1..Len(c) : c[k] # Foreign
<1>1. BodyOf[i] \in Seq(Chunks)
  BY ItemsAssumption
<1>2. Len(c) <= Len(BodyOf[i]) /\ \A k \in 1..Len(c) : c[k] = BodyOf[i][k]
  BY <1>1 DEF IsPrefix, Content
<1>3. Len(c) \in Nat /\ Len(BodyOf[i]) \in Nat
  BY <1>1 DEF Content
<1> QED
  BY <1>1, <1>2, <1>3, BlocksAssumption

\* Nobody has edited a quote that begins like the body.
LEMMA FittingUnedited ==
    ASSUME TypeOK, EditsShow, run.item \in Items, NEW q \in Present, Fits(q)
    PROVE  q \notin guarded
<1>1. quotes[q] \in Content
  BY DEF Present, TypeOK
<1> QED
  BY <1>1, BodyPure DEF Fits, Body, EditsShow

LEMMA CompleteUnedited ==
    ASSUME TypeOK, EditsShow, run.item \in Items, NEW q \in Present, quotes[q] = Body
    PROVE  q \notin guarded
<1>1. quotes[q] \in Content
  BY DEF Present, TypeOK
<1>2. IsPrefix(quotes[q], Body)
  BY <1>1 DEF IsPrefix, Content
<1> QED
  BY <1>2, FittingUnedited DEF Fits

\* Recorded ids are those of the refs, which are well typed.
LEMMA RefsType ==
    ASSUME TypeOK
    PROVE  Refs \subseteq Ref /\ Recorded = {r.i : r \in Refs}
<1>1. manifest.p \in Seq(Ref) /\ manifest.o \in Seq(Ref)
  BY DEF TypeOK, Manifest
<1>2. Refs \subseteq Ref
  BY <1>1 DEF Refs
<1>3. Recorded = {r.i : r \in Refs}
  BY DEF Refs, Recorded, Ids
<1> QED
  BY <1>2, <1>3

-----------------------------------------------------------------------------
(* Steps *)

\* A record of a quote that is there, behind the edits of it.
Behind(r) ==
    /\ r.i \in Present
    /\ Covers(r.h, quotes[r.i])
    /\ r.i \in guarded => Touched(r.h, quotes[r.i])

\* A record of a quote nobody has edited, made from the page as it is.
LEMMA BehindSelf ==
    ASSUME TypeOK, NEW r, r.i \in Present \ guarded, r.h = quotes[r.i]
    PROVE  Behind(r)
BY RecordSelf DEF Behind, Present, TypeOK

\* The record of a candidate, made from what was read of it.
LEMMA BehindRead ==
    ASSUME TypeOK, GuardInv, pc \in {"check", "record", "seal"}, run.cand \in Present
    PROVE  Behind([i |-> run.cand, h |-> AsRead(run.cand)])
<1> DEFINE c == quotes[run.cand]
           t == run.heads[run.cand]
<1>1. c \in Content /\ c # <<>> /\ t \in Content /\ Len(t) = 1
  BY DEF GuardInv, CandidateWatched, Present, TypeOK, Run
<1>2. /\ t[1] = Foreign => c[1] = Foreign
      /\ run.cand \in guarded => t[1] # Foreign /\ c[1] = Foreign
  BY DEF GuardInv, CandidateWatched, FreshCandidate
<1>3. AsRead(run.cand) = t \o Tail(c)
  BY DEF AsRead
<1> HIDE DEF c, t
<1>4. Covers(t \o Tail(c), c) /\ (run.cand \in guarded => Touched(t \o Tail(c), c))
  BY <1>1, <1>2, RecordRead
<1> QED
  BY <1>3, <1>4 DEF Behind, c

\* A step that only moves records about, or makes one that is behind the edits,
\* leaves them all behind.
LEMMA GuardRecords ==
    ASSUME TypeOK, TypeOK', GuardInv, UNCHANGED <<quotes, used, guarded>>,
           \A r \in Refs' : r \in Refs \/ Behind(r)
    PROVE  IdsUsed' /\ EditsShow' /\ RecordsBehind'
<1>1. Present' = Present
  BY DEF Present
<1>2. EditsShow'
  BY <1>1 DEF GuardInv, EditsShow
<1>3. IdsUsed'
  <2>1. Recorded' = {r.i : r \in Refs'}
    BY DEF Refs, Recorded, Ids
  <2>2. Recorded = {r.i : r \in Refs}
    BY RefsType
  <2> QED
    BY <1>1, <2>1, <2>2 DEF GuardInv, IdsUsed, Behind
<1>4. RecordsBehind'
  <2> SUFFICES ASSUME NEW r \in Refs', r.i \in Present'
               PROVE  /\ Covers(r.h, quotes[r.i])
                      /\ r.i \in guarded => Touched(r.h, quotes[r.i])
    BY DEF RecordsBehind
  <2> QED
    BY <1>1 DEF GuardInv, RecordsBehind, Behind
<1> QED
  BY <1>2, <1>3, <1>4

\* Where no reading is still to be used there is nothing to say of one.
LEMMA NothingRead ==
    pc' \notin ReadingSteps =>
        FreshCandidate' /\ CandidateWatched' /\ EditsListed' /\ TodoUnedited'
BY DEF ReadingSteps, ListedSteps, FreshCandidate, CandidateWatched, EditsListed, TodoUnedited

\* A step of the run that touches neither the page nor its manifest.
LEMMA GuardQuiet ==
    ASSUME TypeOK, TypeOK', GuardInv, UNCHANGED <<manifest, quotes, used, guarded>>,
           pc' \notin ReadingSteps
    PROVE  GuardInv'
<1>1. Refs' = Refs
  BY DEF Refs
<1>2. IdsUsed' /\ EditsShow' /\ RecordsBehind'
  BY <1>1, GuardRecords
<1> QED
  BY <1>2, NothingRead DEF GuardInv

\* A new quote has a new id, so no record and no edit is about it.
LEMMA GuardNewQuote ==
    ASSUME TypeOK, TypeOK', GuardInv, NEW q \in BlockIds \ used, NEW c \in Content,
           quotes' = [quotes EXCEPT ![q] = c], used' = used \cup {q},
           UNCHANGED <<manifest, guarded>>, c # <<>>,
           \/ pc' = "find"
           \/ pc' = "check" /\ run' = [run EXCEPT !.cand = q, !.heads[q] = <<Head(c)>>]
    PROVE  GuardInv'
<1>1. Refs' = Refs /\ Recorded' = Recorded
  BY DEF Refs, Recorded
<1>2. q \notin Present \cup guarded \cup Recorded
  BY DEF GuardInv, IdsUsed
<1>3. /\ \A r \in BlockIds \ {q} : quotes'[r] = quotes[r]
      /\ Present' \subseteq Present \cup {q}
  BY DEF Present, TypeOK
<1>4. Recorded = {r.i : r \in Refs} /\ Refs \subseteq Ref
  BY RefsType
<1>5. pc' = "check" => run'.cand = q /\ run'.heads[q] = <<Head(c)>>
  <2>1. CASE run' = [run EXCEPT !.cand = q, !.heads[q] = <<Head(c)>>]
    BY <2>1 DEF TypeOK, Run
  <2> QED
    BY <2>1
<1>9. IdsUsed' /\ FreshCandidate'
  BY <1>1, <1>2, <1>3, <1>5 DEF GuardInv, IdsUsed, FreshCandidate
<1>10. CandidateWatched'
  <2>1. quotes'[q] = c /\ Head(c) = c[1] /\ q \notin guarded'
    BY <1>2 DEF TypeOK, Content
  <2>2. Len(<<Head(c)>>) = 1 /\ <<Head(c)>>[1] = Head(c)
    OBVIOUS
  <2> QED
    BY <1>5, <2>1, <2>2 DEF CandidateWatched
<1>6. EditsShow'
  BY <1>2, <1>3 DEF GuardInv, EditsShow, TypeOK
<1>7. RecordsBehind'
  <2> SUFFICES ASSUME NEW r \in Refs, r.i \in Present'
               PROVE  /\ Covers(r.h, quotes'[r.i])
                      /\ r.i \in guarded => Touched(r.h, quotes'[r.i])
    BY <1>1 DEF RecordsBehind
  <2>1. r.i \in BlockIds \ {q}
    BY <1>2, <1>4 DEF Ref
  <2>2. r.i \in Present /\ quotes'[r.i] = quotes[r.i]
    BY <1>3, <2>1
  <2> QED
    BY <2>2 DEF GuardInv, RecordsBehind
<1>8. EditsListed' /\ TodoUnedited'
  BY DEF EditsListed, ListedSteps, TodoUnedited
<1> QED
  BY <1>6, <1>7, <1>8, <1>9, <1>10 DEF GuardInv

LEMMA GuardInit == Init => GuardInv
<1> SUFFICES ASSUME Init PROVE GuardInv
  OBVIOUS
<1>1. Recorded = {} /\ Refs = {}
  BY DEF Init, NoManifest, Recorded, Refs, Ids
<1>2. Present \subseteq used
  BY DEF Init, Present
<1> QED
  BY <1>1, <1>2 DEF Init, GuardInv, IdsUsed, EditsShow, RecordsBehind, FreshCandidate,
                    CandidateWatched, EditsListed, ListedSteps, TodoUnedited

\* The first batch, whole or mangled, is a new quote's content.
LEMMA GuardAppend ==
    ASSUME TypeInv, TypeInv', GuardInv,
           AppendContainer \/ AppendContainerMangled \/ AppendContainerFailed
    PROVE  GuardInv'
<1> USE DEF TypeInv, pageVars
<1>1. CASE AppendContainer
  <2>1. PICK q \in BlockIds \ used :
          /\ quotes' = [quotes EXCEPT ![q] = FirstBatch]
          /\ used' = used \cup {q}
          /\ \/ /\ run' = [run EXCEPT !.cand = q, !.heads[q] = <<Head(FirstBatch)>>]
                /\ pc' = "check"
             \/ pc' = "find"
    BY <1>1 DEF AppendContainer, NewQuote
  <2>2. FirstBatch \in Content /\ FirstBatch # <<>>
    BY <1>1, FirstBatchType DEF AppendContainer, Working
  <2> QED
    BY <1>1, <2>1, <2>2, GuardNewQuote DEF AppendContainer
<1>2. CASE AppendContainerMangled
  <2> DEFINE mangled == Append(Front(FirstBatch), Foreign)
  <2>1. PICK q \in BlockIds \ used :
          /\ quotes' = [quotes EXCEPT ![q] = mangled]
          /\ used' = used \cup {q}
          /\ \/ /\ run' = [run EXCEPT !.cand = q, !.heads[q] = <<Head(mangled)>>]
                /\ pc' = "check"
             \/ pc' = "find"
    BY <1>2 DEF AppendContainerMangled
  <2>2. mangled \in Content /\ mangled # <<>>
    BY <1>2, FirstBatchType DEF AppendContainerMangled, Working
  <2> HIDE DEF mangled
  <2> QED
    BY <1>2, <2>1, <2>2, GuardNewQuote DEF AppendContainerMangled
<1>3. CASE AppendContainerFailed
  BY <1>3, GuardQuiet DEF AppendContainerFailed, ReadingSteps, ListedSteps
<1> QED
  BY <1>1, <1>2, <1>3

\* Another batch leaves every record behind as far as it was.
LEMMA GuardBatch ==
    ASSUME TypeInv, TypeInv', GuardInv, AppendBatch
    PROVE  GuardInv'
<1> USE DEF TypeInv
<1>1. CASE UNCHANGED quotes
  BY <1>1, GuardQuiet DEF AppendBatch, pageVars, ReadingSteps, ListedSteps
<1>2. CASE quotes' # quotes
  <2>1. PICK x \in Chunks \cup {Foreign} :
          quotes' = [quotes EXCEPT ![run.cand] = Append(@, x)] /\ run.cand \in Present
    <3>1. Body[run.reached + 1] \in Chunks
      BY BodyType, ItemsAssumption DEF AppendBatch, Body, TypeOK, Run, Working
    <3> QED
      BY <1>2, <3>1 DEF AppendBatch
  <2>2. UNCHANGED <<manifest, used, guarded>> /\ pc' = "regrow" /\ run.cand \in BlockIds
    BY <2>1 DEF AppendBatch, pageVars, Present
  <2>3. \A q \in BlockIds : quotes[q] \in Content /\ quotes'[q] \in Content
    BY DEF TypeOK
  <2>4. \A q \in BlockIds \ {run.cand} : quotes'[q] = quotes[q]
    BY <2>1, <2>2 DEF TypeOK
  <2>5. quotes'[run.cand] = Append(quotes[run.cand], x)
    BY <2>1, <2>2 DEF TypeOK
  <2>6. Present' = Present
    BY <2>1, <2>2, <2>3, <2>4, <2>5 DEF Present, Content
  <2>7. Refs' = Refs /\ Recorded' = Recorded /\ Refs \subseteq Ref
    BY <2>2, RefsType DEF Refs, Recorded
  <2>8. EditsShow'
    <3> SUFFICES ASSUME NEW q \in guarded \cap Present
                 PROVE  \E k \in 1..Len(quotes'[q]) : quotes'[q][k] = Foreign
      BY <2>2, <2>6 DEF EditsShow
    <3>1. PICK k \in 1..Len(quotes[q]) : quotes[q][k] = Foreign
      BY DEF GuardInv, EditsShow
    <3>2. q \in BlockIds /\ quotes[q] \in Content /\ quotes[run.cand] \in Content
      BY <2>2, <2>3 DEF Present
    <3>3. CASE q = run.cand
      <4>1. quotes'[q] = Append(quotes[q], x)
        BY <2>5, <3>3
      <4>2. /\ Len(quotes'[q]) = Len(quotes[q]) + 1
            /\ Len(quotes[q]) \in Nat
            /\ quotes'[q][k] = quotes[q][k]
        BY <3>1, <3>2, <4>1 DEF Content
      <4>3. k \in 1..Len(quotes'[q])
        BY <3>1, <4>2
      <4> QED
        BY <3>1, <4>2, <4>3
    <3>4. CASE q # run.cand
      BY <2>4, <3>1, <3>2, <3>4
    <3> QED
      BY <3>3, <3>4
  <2>9. RecordsBehind'
    <3> SUFFICES ASSUME NEW r \in Refs, r.i \in Present
                 PROVE  /\ Covers(r.h, quotes'[r.i])
                        /\ r.i \in guarded => Touched(r.h, quotes'[r.i])
      BY <2>2, <2>6, <2>7 DEF RecordsBehind
    <3>1. /\ Covers(r.h, quotes[r.i])
          /\ r.i \in guarded => Touched(r.h, quotes[r.i])
      BY DEF GuardInv, RecordsBehind
    <3>2. r.i \in BlockIds /\ r.h \in Content
      BY <2>7 DEF Ref
    <3>3. CASE r.i = run.cand
      BY <2>3, <2>5, <3>1, <3>2, <3>3, RecordAppend
    <3>4. CASE r.i # run.cand
      BY <2>4, <3>1, <3>2, <3>4
    <3> QED
      BY <3>3, <3>4
  <2> QED
    BY <2>2, <2>6, <2>7, <2>8, <2>9, NothingRead
       DEF GuardInv, IdsUsed, ReadingSteps, ListedSteps
<1> QED
  BY <1>1, <1>2

\* The first of the old refs is recorded.
LEMMA TodoRecorded ==
    ASSUME TypeOK, GuardInv, pc \in {"retire", "delete"}, run.todo # <<>>
    PROVE  /\ run.todo \in Seq(Ref) /\ Head(run.todo) \in Refs /\ Head(run.todo) \in Ref
           /\ \A k \in DOMAIN Tail(run.todo) :
                \E j \in DOMAIN manifest.o : manifest.o[j] = Tail(run.todo)[k]
<1>1. run.todo \in Seq(Ref)
  BY DEF TypeOK, Run
<1>2. 1 \in DOMAIN run.todo /\ Head(run.todo) = run.todo[1]
  BY <1>1
<1>3. Head(run.todo) \in Refs
  BY <1>2 DEF GuardInv, TodoUnedited, Refs
<1>4. \A k \in DOMAIN Tail(run.todo) :
        k + 1 \in DOMAIN run.todo /\ Tail(run.todo)[k] = run.todo[k + 1]
  BY <1>1
<1> QED
  BY <1>1, <1>3, <1>4, RefsType DEF GuardInv, TodoUnedited

\* An old quote that reads as recorded holds no guarded edit.
LEMMA GuardCheck ==
    ASSUME TypeInv, TypeInv', GuardInv, CheckOld
    PROVE  GuardInv'
<1> USE DEF TypeInv
<1> DEFINE old == Head(run.todo)
<1>1. /\ pc = "retire" /\ run.todo # <<>>
      /\ UNCHANGED <<manifest, quotes, used, guarded>>
  BY DEF CheckOld, pageVars, envVars
<1>2. Refs' = Refs /\ Recorded' = Recorded /\ Present' = Present
  BY <1>1 DEF Refs, Recorded, Present
<1>3. CASE pc' = "idle"
  BY <1>1, <1>3, GuardQuiet DEF ReadingSteps, ListedSteps
<1>4. CASE run' = [run EXCEPT !.todo = Tail(@)] /\ UNCHANGED pc
  <2>1. run'.heads = run.heads /\ run'.todo = Tail(run.todo) /\ run'.cand = run.cand
    BY <1>4 DEF TypeOK, Run
  <2>2. TodoUnedited'
    BY <1>1, <1>4, <2>1, TodoRecorded DEF TodoUnedited
  <2> QED
    BY <1>1, <1>2, <1>4, <2>1, <2>2
       DEF GuardInv, IdsUsed, EditsShow, RecordsBehind, FreshCandidate, CandidateWatched,
           EditsListed, AsRead
<1>5. CASE pc' = "delete"
  <2>1. /\ UNCHANGED run /\ ~OldSkipped(old) /\ old.i \in Present /\ AsRead(old.i) = old.h
    BY <1>5 DEF CheckOld, EndRun, ReadsAsRecorded
  <2>2. old \in Refs /\ old \in Ref
    BY <1>1, TodoRecorded
  <2>3. ~Touched(old.h, old.h)
    BY <2>2, RecordSelf DEF Ref
  <2>4. old.i \notin guarded
    BY <1>1, <2>1, <2>2, <2>3 DEF GuardInv, EditsListed, ListedSteps, OldSkipped
  <2>5. TodoUnedited'
    BY <1>1, <1>5, <2>1, <2>4 DEF GuardInv, TodoUnedited
  <2> QED
    BY <1>1, <1>2, <1>5, <2>1, <2>5
       DEF GuardInv, IdsUsed, EditsShow, RecordsBehind, FreshCandidate, CandidateWatched,
           EditsListed, ListedSteps, AsRead
<1> QED
  BY <1>1, <1>3, <1>4, <1>5 DEF CheckOld, EndRun

\* A deletion takes away a quote without a guarded edit, and its records with it.
LEMMA GuardDelete ==
    ASSUME TypeInv, TypeInv', GuardInv, DeleteOld
    PROVE  /\ GuardInv'
           /\ \A q \in guarded : quotes[q] # <<>> => quotes'[q] # <<>>
<1> USE DEF TypeInv
<1> DEFINE old == Head(run.todo).i
<1>1. /\ pc = "delete" /\ run.todo # <<>> /\ UNCHANGED <<manifest, used, guarded>>
      /\ old \notin guarded
  BY DEF DeleteOld, Working, pageVars, envVars, GuardInv, TodoUnedited
<1>2. old \in BlockIds
  BY <1>1, TodoRecorded DEF Ref
<1>3. CASE UNCHANGED quotes /\ pc' = "idle"
  BY <1>1, <1>3, GuardQuiet DEF ReadingSteps, ListedSteps
<1>4. CASE /\ quotes' = [quotes EXCEPT ![old] = <<>>]
           /\ run' = [run EXCEPT !.todo = Tail(@)]
           /\ pc' = "retire"
  <2>1. run'.heads = run.heads /\ run'.todo = Tail(run.todo) /\ run'.cand = run.cand
    BY <1>4 DEF TypeOK, Run
  <2>2. TodoUnedited'
    BY <1>1, <1>4, <2>1, TodoRecorded DEF TodoUnedited
  <2>3. Refs' = Refs /\ Recorded' = Recorded
    BY <1>1 DEF Refs, Recorded
  <2>4. /\ \A q \in BlockIds \ {old} : quotes'[q] = quotes[q]
        /\ quotes'[old] = <<>>
    BY <1>2, <1>4 DEF TypeOK
  <2>5. Present' = Present \ {old}
    BY <2>4 DEF Present
  <2>6. IdsUsed' /\ FreshCandidate' /\ CandidateWatched'
    BY <1>1, <1>4, <2>3, <2>5 DEF GuardInv, IdsUsed, FreshCandidate, CandidateWatched
  <2>7. EditsShow' /\ RecordsBehind'
    BY <1>1, <2>3, <2>4, <2>5 DEF GuardInv, EditsShow, RecordsBehind, Present
  <2>8. EditsListed'
    BY <1>1, <1>4, <2>1, <2>3, <2>4, <2>5
       DEF GuardInv, EditsListed, ListedSteps, AsRead, Present
  <2>9. \A q \in guarded : quotes'[q] = quotes[q]
    BY <1>1, <2>4 DEF TypeOK
  <2> QED
    BY <2>2, <2>6, <2>7, <2>8, <2>9 DEF GuardInv
<1> QED
  BY <1>3, <1>4 DEF DeleteOld, EndRun

\* People put Foreign chunks where no record has one.
LEMMA GuardEdits ==
    ASSUME TypeInv, TypeInv', GuardInv, PersonEdits
    PROVE  GuardInv'
<1> USE DEF TypeInv
<1>1. PICK q \in BlockIds : EditText(q) \/ EditChildren(q) \/ AddQuote(q) \/ RemoveQuote(q)
  BY DEF PersonEdits
<1>2. UNCHANGED <<manifest, pc, run>>
  BY DEF PersonEdits, pageVars
<1>3. Refs' = Refs /\ Recorded' = Recorded /\ Refs \subseteq Ref /\ Recorded = {r.i : r \in Refs}
  BY <1>2, RefsType DEF Refs, Recorded
<1>4. /\ \A b \in BlockIds \ {q} : quotes'[b] = quotes[b]
      /\ \A b \in BlockIds : quotes[b] \in Content /\ quotes'[b] \in Content
      /\ \A b \in BlockIds \ {q} : b \in guarded' <=> b \in guarded
      /\ run.heads \in [BlockIds -> Content]
  BY <1>1 DEF TypeOK, Run, EditText, EditChildren, AddQuote, RemoveQuote
<1>5. /\ \A b \in BlockIds \ {q} : b \in Present' <=> b \in Present
      /\ Present \subseteq BlockIds /\ Present' \subseteq BlockIds
      /\ guarded' \subseteq BlockIds
  BY <1>4 DEF Present, TypeOK
\* It is enough to look at the quote that was edited.
<1> DEFINE EditedBehind ==
      /\ (q \in Present' \cup guarded' => q \in used') /\ used \subseteq used'
      /\ q \in guarded' \cap Present' =>
            \E k \in 1..Len(quotes'[q]) : quotes'[q][k] = Foreign
      /\ \A r \in Refs : r.i = q /\ q \in Present' =>
            /\ Covers(r.h, quotes'[q])
            /\ q \in guarded' => Touched(r.h, quotes'[q])
      /\ pc = "check" => run.cand # q \/ (q \in guarded' => q \in guarded)
      /\ pc \in {"check", "record", "seal"} /\ run.cand = q /\ q \in Present' =>
            /\ run.heads[q][1] = Foreign => quotes'[q][1] = Foreign
            /\ q \in guarded' => quotes'[q][1] = Foreign
      /\ pc \in ListedSteps /\ q # run.cand =>
            \A r \in Refs : r.i = q /\ q \in guarded' \cap Present' /\ run.heads[q] # <<>> =>
                Touched(r.h, run.heads[q] \o Tail(quotes'[q]))
      /\ pc = "delete" /\ Head(run.todo).i = q => q \notin guarded'
<1>6. ASSUME EditedBehind PROVE GuardInv'
  <2>1. IdsUsed'
    <3>1. Present \cup guarded \cup Recorded \subseteq used
      BY DEF GuardInv, IdsUsed
    <3>2. guarded \subseteq BlockIds
      BY DEF TypeOK
    <3>3. \A b \in Present' \cup guarded' : b \in used'
      BY <1>4, <1>5, <1>6, <3>1, <3>2
    <3> QED
      BY <1>3, <1>6, <3>1, <3>3 DEF IdsUsed
  <2>2. EditsShow'
    BY <1>4, <1>5, <1>6 DEF GuardInv, EditsShow
  <2>3. RecordsBehind'
    <3> SUFFICES ASSUME NEW r \in Refs, r.i \in Present'
                 PROVE  /\ Covers(r.h, quotes'[r.i])
                        /\ r.i \in guarded' => Touched(r.h, quotes'[r.i])
      BY <1>3 DEF RecordsBehind
    <3>1. CASE r.i = q
      BY <1>6, <3>1
    <3>2. CASE r.i # q
      BY <1>4, <1>5, <3>2 DEF GuardInv, RecordsBehind
    <3> QED
      BY <3>1, <3>2
  <2>4. FreshCandidate'
    BY <1>2, <1>3, <1>4, <1>6 DEF GuardInv, FreshCandidate, Working
  <2>5. EditsListed'
    <3> SUFFICES ASSUME pc \in ListedSteps
                 PROVE  \A r \in Refs :
                          /\ r.i \in guarded' \cap Present'
                          /\ r.i # run.cand
                          /\ run.heads[r.i] # <<>>
                          => Touched(r.h, run.heads[r.i] \o Tail(quotes'[r.i]))
      BY <1>2, <1>3 DEF GuardInv, EditsListed, AsRead
    <3> SUFFICES ASSUME NEW r \in Refs, r.i \in guarded' \cap Present', r.i # run.cand,
                        run.heads[r.i] # <<>>
                 PROVE  Touched(r.h, run.heads[r.i] \o Tail(quotes'[r.i]))
      OBVIOUS
    <3>1. CASE r.i = q
      BY <1>6, <3>1
    <3>2. CASE r.i # q
      BY <1>4, <1>5, <3>2 DEF GuardInv, EditsListed, AsRead
    <3> QED
      BY <3>1, <3>2
  <2>6. CandidateWatched'
    <3>1. pc \in {"check", "record", "seal"} => run.cand \in BlockIds
      BY DEF Working
    <3>2. CASE run.cand = q
      BY <1>2, <1>6, <3>2 DEF GuardInv, CandidateWatched
    <3>3. CASE run.cand # q
      BY <1>2, <1>4, <1>5, <3>1, <3>3 DEF GuardInv, CandidateWatched
    <3> QED
      BY <3>2, <3>3
  <2>7. TodoUnedited'
    <3>1. pc = "delete" => Head(run.todo).i \notin guarded'
      <4>1. pc = "delete" => Head(run.todo).i \in BlockIds
        BY TodoRecorded DEF Ref, Working
      <4> QED
        BY <1>4, <1>6, <4>1 DEF GuardInv, TodoUnedited
    <3> QED
      BY <1>2, <3>1 DEF GuardInv, TodoUnedited
  <2> QED
    BY <2>1, <2>2, <2>3, <2>4, <2>5, <2>6, <2>7 DEF GuardInv
<1>7. \A r \in Refs : r.h \in Content /\ (q \in Present /\ r.i = q => Covers(r.h, quotes[q]))
  BY <1>3 DEF GuardInv, RecordsBehind, Ref
<1>8. pc = "check" => run.cand \notin Recorded
  BY DEF GuardInv, FreshCandidate
<1>9. pc \in ListedSteps /\ run.heads[q] # <<>> => Len(run.heads[q]) = 1
  BY DEF GuardInv, EditsListed
<1>14. pc = "delete" /\ Head(run.todo).i = q =>
         q # run.cand /\ q \notin guarded /\ q \in Recorded
  BY <1>3, TodoRecorded DEF Working, OldSkipped, GuardInv, TodoUnedited
<1>10. CASE EditText(q)
  <2>1. /\ quotes'[q] = <<Foreign>> \o Tail(quotes[q]) /\ quotes[q] # <<>>
        /\ Head(quotes[q]) # Foreign /\ q \in Present /\ UNCHANGED used
    BY <1>10 DEF EditText, TypeOK, Present
  <2>2. quotes'[q][1] = Foreign /\ 1 \in 1..Len(quotes'[q])
    BY <1>4, <2>1 DEF Content
  <2>3. \A r \in Refs : r.i = q => Covers(r.h, quotes'[q]) /\ Touched(r.h, quotes'[q])
    BY <1>4, <1>7, <2>1, RecordRetype
  <2>4. Tail(quotes'[q]) = Tail(quotes[q])
    BY <1>4, <2>1 DEF Content
  <2>5. pc = "check" => run.cand # q \/ (q \in guarded' => q \in guarded)
    BY <1>8, <1>10 DEF EditText
  <2>6. pc \in ListedSteps /\ q # run.cand => guarded' = guarded
    BY <1>10 DEF EditText, UnseenText, ListedSteps
  <2>7. pc \in ListedSteps /\ q # run.cand =>
          \A r \in Refs : r.i = q /\ q \in guarded' \cap Present' /\ run.heads[q] # <<>> =>
           Touched(r.h, run.heads[q] \o Tail(quotes'[q]))
    BY <2>1, <2>4, <2>6 DEF GuardInv, EditsListed, AsRead
  <2>8. q \in used
    BY <2>1 DEF GuardInv, IdsUsed
  <2>9. pc = "delete" /\ Head(run.todo).i = q => q \notin guarded'
    BY <1>14, <2>6 DEF ListedSteps
  <2> QED
    BY <1>6, <2>1, <2>2, <2>3, <2>5, <2>7, <2>8, <2>9
<1>11. CASE EditChildren(q)
  <2>1. /\ quotes'[q] = Append(quotes[q], Foreign) /\ quotes[q] # <<>>
        /\ q \in Present /\ UNCHANGED used
    BY <1>11 DEF EditChildren, TypeOK, Present
  <2>2. \E k \in 1..Len(quotes'[q]) : quotes'[q][k] = Foreign
    BY <1>4, <2>1 DEF Content
  <2>3. \A r \in Refs : r.i = q => Covers(r.h, quotes'[q]) /\ Touched(r.h, quotes'[q])
    BY <1>4, <1>7, <2>1, RecordAppend
  <2>4. pc = "check" => run.cand # q \/ (q \in guarded' => q \in guarded)
    BY <1>8, <1>11 DEF EditChildren
  <2>5. \A r \in Refs : pc \in ListedSteps /\ r.i = q /\ run.heads[q] # <<>> =>
           Touched(r.h, run.heads[q] \o Tail(quotes'[q]))
    BY <1>4, <1>7, <1>9, <2>1, RecordListed
  <2>6. q \in used
    BY <2>1 DEF GuardInv, IdsUsed
  <2>7. pc \in {"check", "record", "seal"} /\ run.cand = q =>
          /\ quotes'[q][1] = quotes[q][1]
          /\ guarded' = guarded
    <3>1. quotes'[q][1] = quotes[q][1]
      BY <1>4, <2>1 DEF Content
    <3> QED
      BY <1>8, <1>11, <3>1 DEF EditChildren, UnseenChildren
  <2>8. pc = "delete" /\ Head(run.todo).i = q => q \notin guarded'
    BY <1>11, <1>14 DEF EditChildren, UnseenChildren
  <2>9. pc \in {"check", "record", "seal"} /\ run.cand = q =>
          /\ run.heads[q][1] = Foreign => quotes'[q][1] = Foreign
          /\ q \in guarded' => quotes'[q][1] = Foreign
    BY <2>1, <2>7 DEF GuardInv, CandidateWatched
  <2> QED
    BY <1>6, <2>1, <2>2, <2>3, <2>4, <2>5, <2>6, <2>8, <2>9
<1>12. CASE AddQuote(q)
  <2>1. q \notin used /\ quotes'[q] = <<Foreign>> /\ used' = used \cup {q}
    BY <1>12 DEF AddQuote, TypeOK
  <2>2. \E k \in 1..Len(quotes'[q]) : quotes'[q][k] = Foreign
    BY <2>1
  <2>3. \A r \in Refs : r.i # q
    BY <1>3, <2>1 DEF GuardInv, IdsUsed
  <2>4. pc = "check" => run.cand # q
    BY <2>1 DEF GuardInv, FreshCandidate
  <2>5. ~(pc = "delete" /\ Head(run.todo).i = q)
    BY <1>14, <2>1 DEF GuardInv, IdsUsed
  <2>6. quotes'[q][1] = Foreign
    BY <2>1
  <2> QED
    BY <1>6, <2>1, <2>2, <2>3, <2>4, <2>5, <2>6
<1>13. CASE RemoveQuote(q)
  <2>1. q \notin Present' /\ UNCHANGED <<used, guarded>> /\ q \in used
    BY <1>13 DEF RemoveQuote, TypeOK, Present, GuardInv, IdsUsed
  <2> QED
    BY <1>6, <1>14, <2>1
<1> QED
  BY <1>1, <1>10, <1>11, <1>12, <1>13

\* The record of a candidate as it was read is behind the edits; the others
\* stay as they are, and only that one is about the candidate's part.
LEMMA RecordedRefs ==
    ASSUME TypeOK, GuardInv, pc \in {"check", "record", "seal"}, run.cand \in Present,
           RecordCandidate(AsRead(run.cand))
    PROVE  /\ \A r \in Refs' : r \in Refs \/ Behind(r)
           /\ \A r \in Refs' : r.i # run.cand => r \in Refs
<1> DEFINE ref == [i |-> run.cand, h |-> AsRead(run.cand)]
<1>1. manifest'.p = <<ref>> /\ manifest'.o = manifest.o
  BY DEF RecordCandidate, TypeOK, Manifest
<1>2. ref.i = run.cand /\ Behind(ref)
  BY BehindRead
<1> HIDE DEF ref
<1> QED
  BY <1>1, <1>2 DEF Refs

\* A candidate that fits was not edited, and its text is the body's.
LEMMA FittingWatched ==
    ASSUME TypeOK, EditsShow, run.item \in Items, NEW q \in Present, Fits(q)
    PROVE  /\ Len(Text(q)) = 1
           /\ Text(q)[1] # Foreign
           /\ q \notin guarded
<1>1. quotes[q] \in Content /\ quotes[q] # <<>>
  BY DEF Present, TypeOK
<1>2. Text(q) = <<quotes[q][1]>> /\ 1 \in 1..Len(quotes[q])
  BY <1>1 DEF Text, Content
<1>3. quotes[q][1] # Foreign
  BY <1>1, <1>2, BodyPure DEF Fits, Body
<1> QED
  BY <1>2, <1>3, FittingUnedited

\* Every step keeps the invariant, and no step of the run deletes an edit.
LEMMA GuardNext ==
    ASSUME TypeInv, TypeInv', GuardInv, [Next]_vars
    PROVE  /\ GuardInv'
           /\ RunStep => \A q \in guarded : quotes[q] # <<>> => quotes'[q] # <<>>
<1> USE DEF TypeInv, envVars, pageVars
<1>a. run \in Run /\ manifest \in Manifest
  BY DEF TypeOK
<1>b. \A q \in BlockIds : quotes[q] \in Content
  BY DEF TypeOK
<1>c. guarded \subseteq BlockIds
  BY DEF TypeOK
<1>d. guarded \cap Present \subseteq used
  BY DEF GuardInv, IdsUsed
<1>1. CASE PreflightBlocked
  BY <1>1, GuardQuiet DEF PreflightBlocked, EndRun, ReadingSteps, ListedSteps
<1>2. CASE ApplyBase
  BY <1>2, GuardQuiet DEF ApplyBase, ReadingSteps, ListedSteps
<1>3. CASE DecideSync
  BY <1>3, GuardQuiet DEF DecideSync, ReadingSteps, ListedSteps
<1>4. CASE DecideCurrent
  BY <1>4, GuardQuiet DEF DecideCurrent, EndRun, ReadingSteps, ListedSteps
<1>5. CASE StageManifest
  <2>1. ASSUME NEW r \in Refs'
        PROVE  r \in Refs \/ Behind(r)
    <3>1. /\ manifest'.p = StagedParts /\ manifest'.o = StagedOld
          /\ run.item \in Items
      BY <1>5 DEF StageManifest, Working
    <3>2. CASE \E k \in DOMAIN StagedOld : r = StagedOld[k]
      <4>1. manifest.p \in Seq(Ref) /\ manifest.o \in Seq(Ref)
        BY <1>a DEF Manifest
      <4>2. \A k \in DOMAIN (manifest.p \o manifest.o) : (manifest.p \o manifest.o)[k] \in Refs
        <5>1. DOMAIN (manifest.p \o manifest.o) = 1..(Len(manifest.p) + Len(manifest.o))
          BY <4>1, ConcatProperties
        <5>2. ASSUME NEW k \in 1..(Len(manifest.p) + Len(manifest.o))
              PROVE  (manifest.p \o manifest.o)[k] \in Refs
          <6>1. (manifest.p \o manifest.o)[k] =
                  IF k <= Len(manifest.p) THEN manifest.p[k] ELSE manifest.o[k - Len(manifest.p)]
            BY <4>1, ConcatProperties
          <6>2. /\ Len(manifest.p) \in Nat /\ DOMAIN manifest.p = 1..Len(manifest.p)
                /\ Len(manifest.o) \in Nat /\ DOMAIN manifest.o = 1..Len(manifest.o)
            BY <4>1
          <6>3. CASE k <= Len(manifest.p)
            <7>1. k \in DOMAIN manifest.p
              BY <6>2, <6>3
            <7> QED
              BY <6>1, <6>3, <7>1 DEF Refs
          <6>4. CASE ~(k <= Len(manifest.p))
            <7>1. k - Len(manifest.p) \in DOMAIN manifest.o
              <8>1. \A m, n \in Nat : \A x \in 1..(m + n) : ~(x <= m) => x - m \in 1..n
                OBVIOUS
              <8>2. k - Len(manifest.p) \in 1..Len(manifest.o)
                BY <6>2, <6>4, <8>1
              <8> QED
                BY <6>2, <8>2
            <7> QED
              BY <6>1, <6>4, <7>1 DEF Refs
          <6> QED
            BY <6>3, <6>4
        <5> QED
          BY <5>1, <5>2
      <4> QED
        BY <3>2, <4>2 DEF StagedOld, Refs
    <3>3. CASE \E k \in DOMAIN StagedParts : r = StagedParts[k]
      <4>1. CASE SameGeneration
        BY <3>3, <4>1 DEF StagedParts, Refs
      <4>2. CASE ~SameGeneration /\ LegacyPart = {}
        BY <3>3, <4>2 DEF StagedParts
      <4>3. CASE ~SameGeneration /\ LegacyPart # {}
        <5> DEFINE b == CHOOSE q \in LegacyPart : TRUE
        <5>1. b \in LegacyPart
          BY <4>3
        <5>2. b \in Present /\ quotes[b] = Body
          BY <5>1 DEF LegacyPart, Untracked
        <5>3. r = [i |-> b, h |-> Body]
          <6>1. StagedParts = <<[i |-> b, h |-> Body]>>
            BY <4>3 DEF StagedParts
          <6> HIDE DEF b
          <6> QED
            BY <3>3, <6>1
        <5>4. b \notin guarded
          BY <3>1, <5>2, CompleteUnedited DEF GuardInv
        <5> HIDE DEF b
        <5> QED
          BY <5>2, <5>3, <5>4, BehindSelf
      <4> QED
        BY <4>1, <4>2, <4>3
    <3> QED
      BY <3>1, <3>2, <3>3 DEF Refs
  <2>2. UNCHANGED <<quotes, used, guarded>> /\ pc' = "pick"
    BY <1>5 DEF StageManifest
  <2> QED
    BY <2>1, <2>2, GuardRecords, NothingRead DEF GuardInv, ReadingSteps, ListedSteps
<1>6. CASE StageRefused
  BY <1>6, GuardQuiet DEF StageRefused, EndRun, ReadingSteps, ListedSteps
<1>7. CASE CandidateFromManifest
  <2>1. Refs' \subseteq Refs
    <3>1. CASE UNCHANGED manifest
      BY <3>1 DEF Refs
    <3>2. CASE manifest' = [manifest EXCEPT !.p = <<>>]
      BY <1>a, <3>2 DEF Refs, Manifest
    <3> QED
      BY <1>7, <3>1, <3>2 DEF CandidateFromManifest
  <2>2. UNCHANGED <<quotes, used, guarded>> /\ pc' \notin ReadingSteps
    BY <1>7 DEF CandidateFromManifest, EndRun, ReadingSteps, ListedSteps
  <2> QED
    BY <2>1, <2>2, GuardRecords, NothingRead DEF GuardInv, ReadingSteps, ListedSteps
<1>8. CASE CandidateFromOldRef
  <2>1. Refs' \subseteq Refs
    <3>1. PICK k \in DOMAIN manifest.o : manifest' = [manifest EXCEPT !.p = <<manifest.o[k]>>]
      BY <1>8 DEF CandidateFromOldRef, AdoptableRefs
    <3>2. manifest'.p = <<manifest.o[k]>> /\ manifest'.o = manifest.o
      BY <1>a, <3>1 DEF Manifest
    <3> QED
      BY <3>2 DEF Refs
  <2>2. UNCHANGED <<quotes, used, guarded>> /\ pc' \notin ReadingSteps
    BY <1>8 DEF CandidateFromOldRef, ReadingSteps, ListedSteps
  <2> QED
    BY <2>1, <2>2, GuardRecords, NothingRead DEF GuardInv, ReadingSteps, ListedSteps
<1>9. CASE CandidateUntracked
  BY <1>9, GuardQuiet DEF CandidateUntracked, EndRun, ReadingSteps, ListedSteps
<1>10. CASE AppendContainer \/ AppendContainerMangled \/ AppendContainerFailed
  <2>1. ASSUME NEW q \in guarded, quotes[q] # <<>> PROVE quotes'[q] = quotes[q]
    <3>1. q \in used
      BY <1>c, <1>d, <2>1 DEF Present
    <3> QED
      BY <1>10, <1>c, <3>1
         DEF AppendContainer, NewQuote, AppendContainerMangled, AppendContainerFailed, TypeOK
  <2> QED
    BY <1>10, <2>1, GuardAppend
<1>11. CASE FindAppended
  <2>1. CASE pc' = "idle"
    BY <1>11, <2>1, GuardQuiet DEF FindAppended, ReadingSteps, ListedSteps
  <2>2. CASE pc' # "idle"
    <3>1. PICK q \in UntrackedCandidates :
            pc' = "check" /\ run' = [run EXCEPT !.cand = q, !.heads[q] = Text(q)]
      BY <1>11, <2>2 DEF FindAppended, EndRun
    <3>2. q \in BlockIds /\ UNCHANGED <<manifest, quotes, used, guarded>>
      BY <1>11 DEF FindAppended, UntrackedCandidates, Untracked, Present
    <3>8. run'.cand = q /\ run'.heads[q] = Text(q)
      BY <1>a, <3>1, <3>2 DEF Run
    <3>3. q \in Present \ Recorded /\ Fits(q) /\ q \in used
      BY DEF UntrackedCandidates, Untracked, GuardInv, IdsUsed
    <3>4. q \notin guarded
      BY <1>11, <3>3, FittingUnedited DEF GuardInv, FindAppended, Working
    <3>5. Refs' = Refs /\ Recorded' = Recorded
      BY <3>2 DEF Refs, Recorded
    <3>6. IdsUsed' /\ EditsShow' /\ RecordsBehind'
      BY <3>2, <3>5, GuardRecords
    <3>7. FreshCandidate' /\ EditsListed' /\ TodoUnedited'
      BY <3>1, <3>2, <3>3, <3>4, <3>5, <3>8
         DEF FreshCandidate, EditsListed, ListedSteps, TodoUnedited
    <3>9. CandidateWatched'
      <4>1. quotes[q] \in Content /\ quotes[q] # <<>> /\ Text(q) = <<Head(quotes[q])>>
        BY <1>b, <3>2, <3>3 DEF Present, Text
      <4>2. Len(Text(q)) = 1 /\ Text(q)[1] = quotes[q][1]
        BY <4>1 DEF Content
      <4> QED
        BY <3>1, <3>2, <3>4, <3>8, <4>2 DEF CandidateWatched
    <3> QED
      BY <3>2, <3>6, <3>7, <3>9 DEF GuardInv
  <2> QED
    BY <1>11, <2>1, <2>2 DEF FindAppended
<1>12. CASE CheckAppended \/ RecordPrefix
  <2>1. UNCHANGED <<quotes, used, guarded>> /\ pc' \notin ReadingSteps
    BY <1>12 DEF CheckAppended, RecordPrefix, EndRun, ReadingSteps, ListedSteps
  <2>2. CASE UNCHANGED manifest
    BY <2>1, <2>2, GuardQuiet
  <2>3. CASE manifest' # manifest
    <3>1. /\ RecordCandidate(AsRead(run.cand)) /\ run.cand \in Present
          /\ pc \in {"check", "record", "seal"}
      BY <1>12, <2>3 DEF CheckAppended, RecordPrefix
    <3>2. \A r \in Refs' : r \in Refs \/ Behind(r)
      BY <3>1, RecordedRefs
    <3> QED
      BY <2>1, <3>2, GuardRecords, NothingRead DEF GuardInv
  <2> QED
    BY <2>1, <2>2, <2>3
<1>23. CASE PersistCandidate
  <2>1. CASE pc' = "idle"
    BY <1>23, <2>1, GuardQuiet DEF PersistCandidate, ReadingSteps, ListedSteps
  <2>2. CASE pc' # "idle"
    <3>1. /\ pc' = "record" /\ run.cand \in Present /\ Fits(run.cand)
          /\ run.cand \in BlockIds /\ run.item \in Items
          /\ UNCHANGED <<manifest, quotes, used, guarded>>
      BY <1>23, <2>2 DEF PersistCandidate, EndRun, Working
    <3>2. run'.cand = run.cand /\ run'.heads[run.cand] = Text(run.cand)
      <4>1. PICK short \in BOOLEAN :
              run' = [run EXCEPT !.reached = PrefixLength, !.short = short,
                                 !.heads[run.cand] = Text(run.cand)]
        BY <1>23, <3>1 DEF PersistCandidate, EndRun
      <4> QED
        BY <1>a, <3>1, <4>1 DEF Run
    <3>3. Refs' = Refs
      BY <3>1 DEF Refs
    <3>4. IdsUsed' /\ EditsShow' /\ RecordsBehind'
      BY <3>1, <3>3, GuardRecords
    <3>5. CandidateWatched'
      BY <3>1, <3>2, FittingWatched DEF GuardInv, CandidateWatched, Present
    <3> QED
      BY <3>1, <3>4, <3>5
         DEF GuardInv, FreshCandidate, EditsListed, ListedSteps, TodoUnedited
  <2> QED
    BY <2>1, <2>2
<1>13. CASE AppendBatch
  <2>1. ASSUME NEW q \in guarded, quotes[q] # <<>> PROVE quotes'[q] # <<>>
    BY <1>13, <1>b, <1>c, <2>1 DEF AppendBatch, TypeOK, Content
  <2> QED
    BY <1>13, <2>1, GuardBatch
<1>14. CASE VerifyCompleted
  <2>1. /\ pc' = "seal" /\ run.cand \in BlockIds /\ run.item \in Items
        /\ quotes[run.cand] = Body
        /\ UNCHANGED <<manifest, quotes, used, guarded>>
    BY <1>14 DEF VerifyCompleted, Working
  <2>2. run'.cand = run.cand /\ run'.heads = [q \in BlockIds |-> Text(q)]
    BY <1>14, <1>a DEF VerifyCompleted, Run
  <2>3. Refs' = Refs /\ Present' = Present
    BY <2>1 DEF Refs, Present
  <2>4. IdsUsed' /\ EditsShow' /\ RecordsBehind'
    BY <2>1, <2>3, GuardRecords
  <2>5. CandidateWatched'
    <3>1. run.cand \in Present /\ Fits(run.cand)
      <4>1. Body \in Content /\ Body # <<>>
        BY <2>1, BodyType DEF Body
      <4> QED
        BY <2>1, <4>1 DEF Present, Fits, IsPrefix, Content
    <3> QED
      BY <2>1, <2>2, <2>3, <3>1, FittingWatched DEF GuardInv, CandidateWatched
  <2>6. EditsListed'
    <3>1. ASSUME NEW q \in BlockIds, run'.heads[q] # <<>>
          PROVE  q \in Present /\ run'.heads[q] = Text(q) /\ Len(run'.heads[q]) = 1
      BY <2>2, <3>1 DEF Text
    <3>2. ASSUME NEW r \in Refs, r.i \in guarded \cap Present
          PROVE  Touched(r.h, Text(r.i) \o Tail(quotes[r.i]))
      BY <3>2, TextAndRest DEF GuardInv, RecordsBehind
    <3>3. \A r \in Refs : r.i \in BlockIds
      BY RefsType DEF Ref
    <3> QED
      BY <2>1, <2>2, <2>3, <3>1, <3>2, <3>3 DEF EditsListed, AsRead
  <2> QED
    BY <2>1, <2>4, <2>5, <2>6 DEF GuardInv, FreshCandidate, TodoUnedited
<1>24. CASE SealCandidate
  <2>1. /\ pc = "seal" /\ UNCHANGED <<quotes, used, guarded>> /\ pc' \in {"idle", "retire"}
        /\ run.cand \in BlockIds
    BY <1>24 DEF SealCandidate, EndRun, Working
  <2>2. CASE UNCHANGED manifest /\ pc' = "idle"
    BY <2>1, <2>2, GuardQuiet DEF ReadingSteps, ListedSteps
  <2>3. CASE RecordCandidate(AsRead(run.cand)) /\ run.cand \in Present
    <3>1. \A r \in Refs' : r \in Refs \/ Behind(r)
      BY <2>1, <2>3, RecordedRefs
    <3>2. IdsUsed' /\ EditsShow' /\ RecordsBehind'
      BY <2>1, <3>1, GuardRecords
    <3>3. CASE pc' = "idle"
      BY <2>1, <3>2, <3>3, NothingRead DEF GuardInv, ReadingSteps, ListedSteps
    <3>4. CASE pc' = "retire"
      <4>1. run' = [run EXCEPT !.todo = manifest.o]
        BY <1>24, <3>4 DEF SealCandidate, EndRun
      <4>2. run'.cand = run.cand /\ run'.heads = run.heads /\ run'.todo = manifest.o
        BY <1>a, <4>1 DEF Run
      <4>3. manifest'.o = manifest.o
        BY <1>a, <2>3 DEF RecordCandidate, Manifest
      <4>4. TodoUnedited'
        BY <3>4, <4>2, <4>3 DEF TodoUnedited
      <4>5. Present' = Present /\ \A r \in Refs' : r.i # run.cand => r \in Refs
        BY <2>1, <2>3, RecordedRefs DEF Present
      <4>6. EditsListed'
        BY <2>1, <3>4, <4>2, <4>5 DEF GuardInv, EditsListed, ListedSteps, AsRead
      <4> QED
        BY <2>1, <3>2, <3>4, <4>4, <4>6 DEF GuardInv, FreshCandidate, CandidateWatched
    <3> QED
      BY <2>1, <3>3, <3>4
  <2> QED
    BY <1>24, <2>2, <2>3 DEF SealCandidate, EndRun
<1>15. CASE VerifyFailed
  BY <1>15, GuardQuiet DEF VerifyFailed, EndRun, ReadingSteps, ListedSteps
<1>16. CASE CheckOld
  BY <1>16, GuardCheck DEF CheckOld
<1>25. CASE DeleteOld
  BY <1>25, GuardDelete
<1>17. CASE RetiredAll
  BY <1>17, GuardQuiet DEF RetiredAll, ReadingSteps, ListedSteps
<1>18. CASE CommitItem
  <2>1. Refs' \subseteq Refs
    BY <1>18 DEF CommitItem, Refs
  <2>2. UNCHANGED <<quotes, used, guarded>> /\ pc' = "readback"
    BY <1>18 DEF CommitItem
  <2> QED
    BY <2>1, <2>2, GuardRecords, NothingRead DEF GuardInv, ReadingSteps, ListedSteps
<1>19. CASE ReadBack
  BY <1>19, GuardQuiet DEF ReadBack, EndRun, ReadingSteps, ListedSteps
<1>20. CASE Crash
  <2>1. GuardInv'
    BY <1>20, GuardQuiet DEF Crash, EndRun, ReadingSteps, ListedSteps
  <2> QED
    BY <1>20, <2>1 DEF Crash
<1>21. CASE SourceChanges \/ UNCHANGED vars
  <2>1. UNCHANGED <<manifest, quotes, used, guarded, pc, run>>
    BY <1>21 DEF SourceChanges, vars
  <2> QED
    BY <2>1 DEF GuardInv, IdsUsed, EditsShow, RecordsBehind, FreshCandidate,
                CandidateWatched, EditsListed, AsRead, TodoUnedited, Refs, Recorded, Present
<1>22. CASE PersonEdits /\ ~RunStep
  BY <1>22, GuardEdits
<1> QED
  BY <1>1, <1>2, <1>3, <1>4, <1>5, <1>6, <1>7, <1>8, <1>9, <1>10, <1>11, <1>12,
     <1>13, <1>14, <1>15, <1>16, <1>17, <1>18, <1>19, <1>20, <1>21, <1>22,
     <1>23, <1>24, <1>25
     DEF Next, RunStep

\* Whatever crashed, changed or was lost between a person's edit of a recorded
\* quote and the end of the run, the run does not delete that quote: delete_block
\* (scripts/sync.py:2862) only follows a comparison that would have shown the
\* edit.  Only edits made too late for that comparison are lost: of the text
\* after the listing it uses (2799), of the children between the comparison and
\* the deletion, or between a candidate's check and the hash put on record.
THEOREM EditsAreNeverDeleted == Spec => GuardedQuotesSurvive
<1>1. Init => TypeInv /\ GuardInv
  BY InitType, GuardInit
<1>2. TypeInv /\ [Next]_vars => TypeInv'
  BY NextType
<1>3. TypeInv /\ TypeInv' /\ GuardInv /\ [Next]_vars => GuardInv'
  BY GuardNext
<1>4. TypeInv /\ TypeInv' /\ GuardInv /\ [Next]_vars =>
        [RunStep => \A q \in guarded : quotes[q] # <<>> => quotes'[q] # <<>>]_vars
  BY GuardNext
<1> QED
  BY <1>1, <1>2, <1>3, <1>4, PTL DEF Spec, GuardedQuotesSurvive

-----------------------------------------------------------------------------
(***************************************************************************)
(* Replacing a body is make-before-break: the protocol implements          *)
(* BodyReplacement on a page nobody edits, for every set of items, bodies  *)
(* and block ids and any number of faults and changes.                     *)
(*                                                                         *)
(* A reader sees complete bodies come and go; the protocol sees one batch  *)
(* at a time, over runs that were cut anywhere.  BuildInv says what such a *)
(* run may rely on: the page holds one quote besides those to be deleted,  *)
(* and a quote about to grow is a beginning of the body as long as it was  *)
(* measured.                                                               *)
(***************************************************************************)

\* A quote has had an id.
IdsGiven == Present \subseteq used

\* Before a quote is added, whatever is on the page is recorded; when the
\* candidate of the manifest is gone, it is to be deleted.
NothingBeside ==
    /\ Len(manifest.p) <= 1
    /\ pc = "pick" /\ edits = 0 => Present \subseteq Recorded
    /\ pc \in {"reuse", "append"} /\ edits = 0 => Present \subseteq Ids(manifest.o)

\* Whatever is not to be deleted is one quote.
OneBeside == edits = 0 => \A q, r \in Present \ Ids(manifest.o) : q = r

\* A quote that is about to grow was measured as it is.
Measured ==
    pc \in {"record", "extend"} /\ edits = 0 =>
        /\ run.cand \in Present
        /\ Fits(run.cand)
        /\ run.reached = Len(quotes[run.cand])

\* What was verified last is a body, and while old quotes go it is this run's.
ShownIsBody ==
    /\ shown # <<>> => \E i \in Items : shown = BodyOf[i]
    /\ pc \in ListedSteps => shown = Body

BuildInv ==
    /\ IdsGiven
    /\ NothingBeside
    /\ OneBeside
    /\ Measured
    /\ ShownIsBody
    /\ NoBatchTwice
    /\ CurrentBodyKeptUnlessExtended

LEMMA OneLive == TypeInv /\ BuildInv => OneLiveCandidate
<1> SUFFICES ASSUME TypeInv, BuildInv, edits = 0
             PROVE  Cardinality(Present \ Ids(manifest.o)) <= 1
  BY DEF OneLiveCandidate
<1> DEFINE S == Present \ Ids(manifest.o)
<1>1. CASE S = {}
  BY <1>1, FS_EmptySet
<1>2. CASE S # {}
  <2>1. PICK q : q \in S
    BY <1>2
  <2>2. S = {q}
    BY <2>1 DEF BuildInv, OneBeside
  <2> QED
    BY <2>2, FS_Singleton
<1> QED
  BY <1>1, <1>2

-----------------------------------------------------------------------------
(* Prefixes of a body *)

\* A prefix agrees chunk by chunk.
LEMMA PrefixElements ==
    ASSUME NEW c \in Content, NEW b \in Content
    PROVE  IsPrefix(c, b) <=> Len(c) <= Len(b) /\ \A k \in 1..Len(c) : c[k] = b[k]
<1> DEFINE n == Len(c)
           C == Chunks \cup {Foreign}
<1>1. n \in Nat /\ Len(b) \in Nat /\ c \in Seq(C) /\ b \in Seq(C)
  BY LenProperties DEF Content
<1>2. SUFFICES ASSUME n <= Len(b)
               PROVE  SubSeq(c, 1, n) = SubSeq(b, 1, n) <=> \A k \in 1..n : c[k] = b[k]
  BY DEF IsPrefix
<1>3. \A k \in 1..n : c[k] \in C /\ b[k] \in C
  BY <1>1, <1>2, ElementOfSeq
<1>4. /\ SubSeq(c, 1, n) \in Seq(C) /\ SubSeq(b, 1, n) \in Seq(C)
      /\ Len(SubSeq(c, 1, n)) = n /\ Len(SubSeq(b, 1, n)) = n
      /\ \A k \in 1..n : SubSeq(c, 1, n)[k] = c[k] /\ SubSeq(b, 1, n)[k] = b[k]
  <2> HIDE DEF C, n
  <2>1. 1 \in Int /\ n \in Int /\ n - 1 + 1 = n
        /\ (IF 1 <= n THEN n - 1 + 1 ELSE 0) = n
    BY <1>1
  <2>2. \A k \in 1..n : 1 + k - 1 = k
    BY <1>1
  <2> QED
    BY <1>3, <2>1, <2>2, SubSeqProperties
<1>5. ASSUME \A k \in 1..n : c[k] = b[k]
      PROVE  SubSeq(c, 1, n) = SubSeq(b, 1, n)
  BY <1>4, <1>5, SeqEqual
<1> QED
  BY <1>4, <1>5

\* The chunk that follows a prefix makes it a longer one.
LEMMA PrefixGrows ==
    ASSUME NEW c \in Content, NEW b \in Content, IsPrefix(c, b), Len(c) < Len(b)
    PROVE  IsPrefix(Append(c, b[Len(c) + 1]), b)
<1> DEFINE n == Len(c)
           d == Append(c, b[n + 1])
<1>1. n \in Nat /\ Len(b) \in Nat /\ n + 1 \in 1..Len(b)
  BY LenProperties DEF Content
<1>2. b[n + 1] \in Chunks \cup {Foreign}
  BY <1>1, ElementOfSeq DEF Content
<1>3. d \in Content /\ Len(d) = n + 1 /\ d[n + 1] = b[n + 1]
      /\ \A k \in 1..n : d[k] = c[k]
  BY <1>2, AppendProperties DEF Content
<1>4. \A k \in 1..n : c[k] = b[k]
  BY PrefixElements
<1>5. \A k \in 1..(n + 1) : d[k] = b[k]
  BY <1>1, <1>3, <1>4
<1> HIDE DEF d, n
<1>6. n + 1 <= Len(b)
  BY <1>1
<1>7. IsPrefix(d, b)
  BY <1>3, <1>5, <1>6, PrefixElements
<1> QED
  BY <1>7 DEF d, n

\* The first append carries a beginning of the body, or a mangled one.
LEMMA FirstBatchFits ==
    ASSUME run.item \in Items
    PROVE  /\ FirstBatch \in Content /\ FirstBatch # <<>>
           /\ IsPrefix(FirstBatch, Body)
<1> DEFINE n == IF Len(Body) < 2 THEN Len(Body) ELSE 2
           C == Chunks \cup {Foreign}
<1>1. Body \in Seq(C) /\ Body # <<>>
  BY BodyType DEF Body, Content
<1>2. Len(Body) \in Nat \ {0}
  BY <1>1, EmptySeq
<1>3. n \in Nat /\ 1 <= n /\ n <= Len(Body)
  BY <1>2
<1>4. \A k \in 1..n : Body[k] \in C
  BY <1>1, <1>2, <1>3, ElementOfSeq
<1>5. FirstBatch = SubSeq(Body, 1, n)
  BY DEF FirstBatch
<1> HIDE DEF n, C
<1>6. /\ SubSeq(Body, 1, n) \in Seq(C) /\ Len(SubSeq(Body, 1, n)) = n
      /\ \A k \in 1..n : SubSeq(Body, 1, n)[k] = Body[k]
  <2>1. 1 \in Int /\ n \in Int /\ n - 1 + 1 = n
        /\ (IF 1 <= n THEN n - 1 + 1 ELSE 0) = n
    BY <1>3
  <2>2. \A k \in 1..n : 1 + k - 1 = k
    BY <1>3
  <2> QED
    BY <1>4, <2>1, <2>2, SubSeqProperties
<1>7. FirstBatch \in Content /\ Body \in Content
  BY <1>1, <1>5, <1>6 DEF Content, C
<1>8. IsPrefix(FirstBatch, Body)
  BY <1>3, <1>5, <1>6, <1>7, PrefixElements
<1>9. FirstBatch # <<>>
  <2>1. Len(<<>>) = 0
    BY EmptySeq
  <2>2. Len(FirstBatch) # 0
    BY <1>3, <1>5, <1>6
  <2> QED
    BY <2>1, <2>2
<1> QED
  BY <1>7, <1>8, <1>9

\* All but the last chunk is content.
LEMMA FrontType ==
    ASSUME NEW c \in Content, c # <<>>
    PROVE  Front(c) \in Content
BY DEF Front, Content

\* One more chunk makes content again.
LEMMA AppendType ==
    ASSUME NEW c \in Content, NEW x \in Chunks \cup {Foreign}
    PROVE  Append(c, x) \in Content /\ Append(c, x) # <<>>
BY AppendProperties DEF Content

\* A chunk of no body marks what has it.
LEMMA MangledShows ==
    ASSUME NEW c \in Content
    PROVE  /\ Append(c, Foreign) # <<>>
           /\ \E k \in DOMAIN Append(c, Foreign) : Append(c, Foreign)[k] = Foreign
           /\ \A i \in Items : Append(c, Foreign) # BodyOf[i]
<1> DEFINE d == Append(c, Foreign)
           C == Chunks \cup {Foreign}
<1>1. c \in Seq(C) /\ Foreign \in C
  BY DEF Content
<1>2. d \in Seq(C) /\ d # <<>> /\ Len(d) = Len(c) + 1 /\ d[Len(c) + 1] = Foreign
  BY <1>1, AppendProperties
<1>3. Len(c) \in Nat /\ DOMAIN d = 1..Len(d)
  BY <1>1, <1>2, LenProperties
<1>4. Len(c) + 1 \in DOMAIN d
  BY <1>2, <1>3
<1>5. ASSUME NEW i \in Items, d = BodyOf[i]
      PROVE  FALSE
  <2>1. d \in Seq(Chunks)
    BY <1>5, ItemsAssumption
  <2>2. d[Len(c) + 1] \in Chunks
    BY <1>2, <1>3, <2>1, ElementOfSeq
  <2> QED
    BY <1>2, <2>2, BlocksAssumption
<1> QED
  BY <1>2, <1>4, <1>5

-----------------------------------------------------------------------------
(* Every step keeps BuildInv *)

\* The definitions of BuildInv that look at the page only.
LEMMA PageSame ==
    ASSUME BuildInv, UNCHANGED <<quotes, used, shown, edits>>,
           NothingBeside', OneBeside', Measured', pc' \in ListedSteps => shown = Body'
    PROVE  BuildInv'
BY DEF BuildInv, IdsGiven, ShownIsBody, NoBatchTwice, CurrentBodyKeptUnlessExtended,
       CurrentBodyKept, Present

\* Steps that look at the page, or write its properties.
LEMMA QuietStep ==
    ASSUME BuildInv, UNCHANGED <<quotes, used, shown, edits>>,
           manifest'.o = manifest.o, Len(manifest'.p) <= 1,
           pc' \notin {"pick", "reuse", "append", "record", "extend"} \cup ListedSteps
    PROVE  BuildInv'
<1>1. NothingBeside' /\ Measured'
  BY DEF NothingBeside, Measured
<1>2. OneBeside'
  BY DEF BuildInv, OneBeside, Present, Ids
<1> QED
  BY <1>1, <1>2, PageSame

LEMMA BuildInit == Init => BuildInv
<1> SUFFICES ASSUME Init PROVE BuildInv
  OBVIOUS
<1>1. IdsGiven /\ NoBatchTwice
  <2>1. CASE status = "absent"
    BY <2>1 DEF Init, IdsGiven, NoBatchTwice, Present
  <2>2. CASE operation \in Items
    <3>1. PICK b \in BlockIds :
            /\ quotes = [q \in BlockIds |-> IF q = b THEN BodyOf[operation] ELSE <<>>]
            /\ used = {b}
      BY <2>2, ItemsAssumption DEF Init
    <3>2. Present \subseteq {b} /\ quotes[b] = BodyOf[operation]
      BY <3>1 DEF Present
    <3>3. IsPrefix(BodyOf[operation], BodyOf[operation])
      <4>1. BodyOf[operation] \in Content /\ Len(BodyOf[operation]) \in Nat
        BY <2>2, BodyType, ItemsAssumption, LenProperties DEF Content
      <4> QED
        BY <4>1, PrefixElements
    <3> QED
      BY <2>2, <3>1, <3>2, <3>3 DEF IdsGiven, NoBatchTwice
  <2> QED
    BY <2>1, <2>2 DEF Init
<1>2. OneBeside
  BY DEF Init, OneBeside, Present, Ids, NoManifest
<1>3. NothingBeside /\ Measured /\ ShownIsBody /\ CurrentBodyKeptUnlessExtended
  <2>1. Len(<<>>) = 0
    BY EmptySeq
  <2> QED
    BY <2>1 DEF Init, NothingBeside, Measured, ShownIsBody, ListedSteps,
       CurrentBodyKeptUnlessExtended, CurrentBodyKept, NoManifest
<1> QED
  BY <1>1, <1>2, <1>3 DEF BuildInv

\* Lists of refs, joined.
LEMMA IdsJoin ==
    ASSUME NEW a \in Seq(Ref), NEW b \in Seq(Ref)
    PROVE  Ids(b) \subseteq Ids(a \o b)
<1> SUFFICES ASSUME NEW k \in DOMAIN b PROVE b[k].i \in Ids(a \o b)
  BY DEF Ids
<1>1. /\ Len(a) \in Nat /\ Len(b) \in Nat /\ DOMAIN b = 1..Len(b)
      /\ a \o b \in Seq(Ref) /\ Len(a \o b) = Len(a) + Len(b)
  BY LenProperties, ConcatProperties
<1>2. DOMAIN (a \o b) = 1..(Len(a) + Len(b))
  BY <1>1, LenProperties
<1>3. Len(a) + k \in DOMAIN (a \o b)
  BY <1>1, <1>2
<1>4. (a \o b)[Len(a) + k] = b[k]
  BY <1>1, ConcatProperties
<1> QED
  BY <1>3, <1>4 DEF Ids

\* Staging keeps what is to be deleted and accounts for everything else.
LEMMA StageStep ==
    ASSUME TypeInv, BuildInv, StageManifest
    PROVE  BuildInv'
<1>1. /\ UNCHANGED <<quotes, used, shown, edits>> /\ pc' = "pick"
      /\ manifest' = [s |-> "pending", op |-> run.item, p |-> StagedParts, o |-> StagedOld]
      /\ Present \subseteq Ids(StagedParts) \cup Ids(StagedOld)
  BY DEF StageManifest, envVars
<1>2. Ids(manifest.o) \subseteq Ids(StagedOld)
  <2>1. manifest.p \in Seq(Ref) /\ manifest.o \in Seq(Ref)
    BY DEF TypeInv, TypeOK, Manifest
  <2> QED
    BY <2>1, IdsJoin DEF StagedOld
<1>3. Len(StagedParts) <= 1
  <2>1. Len(<<>>) = 0
    BY EmptySeq
  <2>2. Len(<<[i |-> CHOOSE q \in LegacyPart : TRUE, h |-> Body]>>) = 1
    OBVIOUS
  <2> QED
    BY <2>1, <2>2 DEF StagedParts, BuildInv, NothingBeside
<1>4. NothingBeside'
  BY <1>1, <1>3 DEF NothingBeside, Recorded, Ids, Present
<1>5. OneBeside'
  BY <1>1, <1>2 DEF BuildInv, OneBeside, Present, Ids
<1> QED
  BY <1>1, <1>4, <1>5, PageSame DEF Measured, ListedSteps

\* A recorded candidate that is gone leaves nothing beside the old quotes.
LEMMA PickStep ==
    ASSUME TypeInv, BuildInv, CandidateFromManifest
    PROVE  BuildInv'
<1> DEFINE part == manifest.p[1]
<1>1. /\ UNCHANGED <<quotes, used, shown, edits>> /\ pc = "pick"
      /\ manifest \in Manifest /\ manifest.p \in Seq(Ref)
  BY DEF CandidateFromManifest, envVars, TypeInv, TypeOK, Manifest
<1>2. Len(<<>>) = 0 /\ Len(manifest.p) \in Nat /\ Len(manifest.p) <= 1
      /\ DOMAIN manifest.p = 1..Len(manifest.p)
      /\ (manifest.p # <<>> => Len(manifest.p) # 0)
  BY <1>1, EmptySeq, LenProperties DEF BuildInv, NothingBeside
<1>3. CASE pc' = "reuse"
  <2>1. /\ manifest'.o = manifest.o /\ Len(manifest'.p) <= 1
        /\ manifest.p # <<>> => part.i \notin Present
    BY <1>1, <1>2, <1>3 DEF CandidateFromManifest, Manifest, EndRun
  <2>2. Ids(manifest.p) \subseteq {part.i} /\ (manifest.p = <<>> => Ids(manifest.p) = {})
    BY <1>2 DEF Ids
  <2>3. edits = 0 => Present \subseteq Ids(manifest.o)
    BY <1>1, <2>1, <2>2 DEF BuildInv, NothingBeside, Recorded
  <2>4. NothingBeside'
    BY <1>1, <1>3, <2>1, <2>3 DEF NothingBeside, Present, Ids
  <2>5. OneBeside'
    BY <1>1, <2>1 DEF BuildInv, OneBeside, Present, Ids
  <2> QED
    BY <1>1, <1>3, <2>4, <2>5, PageSame DEF Measured, ListedSteps
<1>4. CASE pc' # "reuse"
  <2>1. manifest' = manifest /\ pc' \in {"persist", "idle"}
    BY <1>4 DEF CandidateFromManifest, EndRun
  <2> QED
    BY <1>1, <1>2, <2>1, QuietStep DEF ListedSteps
<1> QED
  BY <1>3, <1>4

LEMMA ReuseSteps ==
    ASSUME TypeInv, BuildInv, CandidateFromOldRef \/ CandidateUntracked
    PROVE  BuildInv'
<1>1. UNCHANGED <<quotes, used, shown, edits>> /\ pc = "reuse"
      /\ manifest \in Manifest /\ manifest'.o = manifest.o
  BY DEF CandidateFromOldRef, CandidateUntracked, envVars, pageVars, TypeInv, TypeOK, Manifest
<1>2. Len(manifest'.p) <= 1
  <2>1. CASE CandidateFromOldRef
    <3>1. \E r : manifest'.p = <<r>>
      BY <1>1, <2>1 DEF CandidateFromOldRef, Manifest
    <3> QED
      BY <3>1
  <2>2. CASE CandidateUntracked
    BY <2>2 DEF CandidateUntracked, pageVars, BuildInv, NothingBeside
  <2> QED
    BY <2>1, <2>2
<1>3. pc' \in {"persist", "append", "idle"}
  BY DEF CandidateFromOldRef, CandidateUntracked, EndRun
<1>4. CASE pc' = "append"
  <2>1. NothingBeside'
    BY <1>1, <1>2, <1>4 DEF BuildInv, NothingBeside, Present, Ids
  <2>2. OneBeside'
    BY <1>1 DEF BuildInv, OneBeside, Present, Ids
  <2> QED
    BY <1>1, <1>4, <2>1, <2>2, PageSame DEF Measured, ListedSteps
<1>5. CASE pc' # "append"
  BY <1>1, <1>2, <1>3, <1>5, QuietStep DEF ListedSteps
<1> QED
  BY <1>4, <1>5

\* A candidate that was read and fits is measured, and recorded as such.
LEMMA RecordSteps ==
    ASSUME TypeInv, BuildInv, CheckAppended \/ PersistCandidate \/ RecordPrefix
    PROVE  BuildInv'
<1>1. UNCHANGED <<quotes, used, shown, edits>>
      /\ manifest \in Manifest /\ run \in Run /\ manifest'.o = manifest.o
  BY DEF CheckAppended, PersistCandidate, RecordPrefix, RecordCandidate, pageVars, envVars,
     TypeInv, TypeOK, Manifest
<1>2. Len(manifest'.p) <= 1
  <2>1. manifest'.p = manifest.p \/ \E r : manifest'.p = <<r>>
    BY <1>1 DEF CheckAppended, PersistCandidate, RecordPrefix, RecordCandidate, pageVars,
       Manifest
  <2>2. ASSUME NEW r, manifest'.p = <<r>> PROVE Len(manifest'.p) <= 1
    BY <2>2
  <2>3. ASSUME manifest'.p = manifest.p PROVE Len(manifest'.p) <= 1
    BY <2>3 DEF BuildInv, NothingBeside
  <2> QED
    BY <2>1, <2>2, <2>3
<1>3. CASE pc' \in {"record", "extend"}
  <2>1. Measured'
    <3>1. CASE PersistCandidate
      <4>1. PICK short \in BOOLEAN :
              run' = [run EXCEPT !.reached = Len(quotes[run.cand]), !.short = short,
                                 !.heads[run.cand] = Text(run.cand)]
        BY <1>3, <3>1 DEF PersistCandidate, PrefixLength, EndRun
      <4>2. run.cand \in Present /\ Fits(run.cand)
        BY <1>3, <3>1 DEF PersistCandidate, EndRun
      <4>3. run'.cand = run.cand /\ run'.item = run.item /\ run'.reached = Len(quotes[run.cand])
        BY <1>1, <4>1 DEF Run
      <4> QED
        BY <1>1, <4>2, <4>3 DEF Measured, Fits, Body, Present
    <3>2. CASE RecordPrefix
      <4>1. UNCHANGED run /\ pc = "record"
        BY <1>3, <3>2 DEF RecordPrefix, EndRun
      <4> QED
        BY <1>1, <4>1 DEF BuildInv, Measured, Fits, Body, Present
    <3>3. ~CheckAppended
      BY <1>3 DEF CheckAppended, EndRun
    <3> QED
      BY <3>1, <3>2, <3>3
  <2>2. NothingBeside' /\ OneBeside'
    BY <1>1, <1>2, <1>3 DEF BuildInv, NothingBeside, OneBeside, Present, Ids
  <2> QED
    BY <1>1, <1>3, <2>1, <2>2, PageSame DEF ListedSteps
<1>4. CASE pc' \notin {"record", "extend"}
  <2>1. pc' \in {"idle", "persist"}
    BY <1>4 DEF CheckAppended, PersistCandidate, RecordPrefix, EndRun
  <2> QED
    BY <1>1, <1>2, <2>1, QuietStep DEF ListedSteps
<1> QED
  BY <1>3, <1>4

\* A quote with a new id joins those to be deleted.
LEMMA NewQuoteKeeps ==
    ASSUME TypeInv, BuildInv, pc = "append", pc' \in {"check", "find"},
           NEW q \in BlockIds \ used, NEW c \in Content,
           quotes' = [quotes EXCEPT ![q] = c], used' = used \cup {q},
           UNCHANGED <<manifest, shown, edits>>,
           \/ \E k \in DOMAIN c : c[k] = Foreign
           \/ \E i \in Items : IsPrefix(c, BodyOf[i])
    PROVE  BuildInv'
<1>1. /\ quotes'[q] = c /\ quotes[q] = <<>>
      /\ \A r \in BlockIds \ {q} : quotes'[r] = quotes[r]
  BY DEF TypeInv, TypeOK, BuildInv, IdsGiven, Present
<1>2. Present' \subseteq Present \cup {q}
  BY <1>1 DEF Present
<1>3. IdsGiven'
  BY <1>2 DEF BuildInv, IdsGiven
<1>4. OneBeside'
  BY <1>2 DEF BuildInv, NothingBeside, OneBeside, Ids
<1>5. NoBatchTwice'
  BY <1>1, <1>2 DEF BuildInv, NoBatchTwice
<1>6. CurrentBodyKeptUnlessExtended'
  <2> SUFFICES ASSUME PrefixFree, edits = 0, shown # <<>>
               PROVE  \E r \in BlockIds : quotes'[r] = shown
    BY DEF CurrentBodyKeptUnlessExtended, CurrentBodyKept
  <2>1. PICK r \in BlockIds : quotes[r] = shown
    BY DEF BuildInv, CurrentBodyKeptUnlessExtended, CurrentBodyKept
  <2> QED
    BY <1>1, <2>1
<1>7. NothingBeside' /\ Measured' /\ ShownIsBody'
  BY DEF BuildInv, NothingBeside, Measured, ShownIsBody, ListedSteps
<1> QED
  BY <1>3, <1>4, <1>5, <1>6, <1>7 DEF BuildInv

LEMMA AppendSteps ==
    ASSUME TypeInv, BuildInv, AppendContainer \/ AppendContainerMangled
    PROVE  BuildInv'
<1>1. run.item \in Items /\ pc = "append" /\ UNCHANGED <<manifest, shown, edits>>
  BY DEF AppendContainer, AppendContainerMangled, TypeInv, Working, pageVars
<1>2. /\ FirstBatch \in Content /\ FirstBatch # <<>>
      /\ IsPrefix(FirstBatch, BodyOf[run.item])
  BY <1>1, FirstBatchFits DEF Body
<1>3. CASE AppendContainer
  <2>1. PICK q \in BlockIds \ used :
          /\ quotes' = [quotes EXCEPT ![q] = FirstBatch]
          /\ used' = used \cup {q}
          /\ pc' \in {"check", "find"}
    BY <1>3 DEF AppendContainer, NewQuote
  <2> QED
    BY <1>1, <1>2, <2>1, NewQuoteKeeps
<1>4. CASE AppendContainerMangled
  <2> DEFINE c == Append(Front(FirstBatch), Foreign)
  <2>1. PICK q \in BlockIds \ used :
          /\ quotes' = [quotes EXCEPT ![q] = c]
          /\ used' = used \cup {q}
          /\ pc' \in {"check", "find"}
    BY <1>4 DEF AppendContainerMangled
  <2>2. Front(FirstBatch) \in Content /\ c \in Content
    BY <1>1, <1>2, FirstBatchType, FrontType
  <2>3. \E k \in DOMAIN c : c[k] = Foreign
    BY <2>2, MangledShows
  <2> HIDE DEF c
  <2> QED
    BY <1>1, <2>1, <2>2, <2>3, NewQuoteKeeps
<1> QED
  BY <1>3, <1>4

\* A quote about to grow is not complete.
LEMMA GrowingIsPart ==
    ASSUME TypeInv, BuildInv, PrefixFree, edits = 0, AppendBatch
    PROVE  \A i \in Items : quotes[run.cand] # BodyOf[i]
<1> SUFFICES ASSUME NEW i \in Items, quotes[run.cand] = BodyOf[i] PROVE FALSE
  OBVIOUS
<1>1. pc = "extend" /\ run.item \in Items /\ run.reached < Len(Body)
  BY DEF AppendBatch, TypeInv, Working
<1>2. IsPrefix(BodyOf[i], BodyOf[run.item]) /\ run.reached = Len(BodyOf[i])
  BY <1>1 DEF BuildInv, Measured, Fits, Body
<1>3. BodyOf[i] = BodyOf[run.item]
  BY <1>1, <1>2 DEF PrefixFree
<1>4. Len(BodyOf[run.item]) \in Nat
  BY <1>1, BodyType, LenProperties DEF Content
<1> QED
  BY <1>1, <1>2, <1>3, <1>4 DEF Body

\* What the batch leaves in the candidate.
LEMMA BatchContent ==
    ASSUME TypeInv, BuildInv, edits = 0, AppendBatch, quotes' # quotes
    PROVE  /\ run.cand \in Present
           /\ quotes' = [quotes EXCEPT ![run.cand] = quotes'[run.cand]]
           /\ quotes'[run.cand] \in Content /\ quotes'[run.cand] # <<>>
           /\ \/ \E k \in DOMAIN quotes'[run.cand] : quotes'[run.cand][k] = Foreign
              \/ IsPrefix(quotes'[run.cand], Body)
<1> DEFINE c == quotes[run.cand]
<1>1. pc = "extend" /\ run.item \in Items /\ run.reached < Len(Body)
      /\ run.cand \in BlockIds /\ run.cand \in Present /\ c \in Content
  BY DEF AppendBatch, TypeInv, TypeOK, Working, Present
<1>2. IsPrefix(c, Body) /\ run.reached = Len(c) /\ Body \in Content
  BY <1>1, BodyType DEF BuildInv, Measured, Fits, Body
<1>3. CASE quotes' = [quotes EXCEPT ![run.cand] = Append(c, Body[run.reached + 1])]
  <2>1. quotes'[run.cand] = Append(c, Body[Len(c) + 1])
    BY <1>1, <1>2, <1>3 DEF TypeInv, TypeOK
  <2>2. IsPrefix(quotes'[run.cand], Body)
    BY <1>1, <1>2, <2>1, PrefixGrows
  <2>3. Body[Len(c) + 1] \in Chunks \cup {Foreign}
    BY <1>1, <1>2, LenProperties, ElementOfSeq DEF Content
  <2>4. quotes'[run.cand] \in Content /\ quotes'[run.cand] # <<>>
    BY <1>1, <2>1, <2>3, AppendType
  <2> QED
    BY <1>1, <1>3, <2>1, <2>2, <2>4
<1>4. CASE quotes' = [quotes EXCEPT ![run.cand] = Append(c, Foreign)]
  <2>1. quotes'[run.cand] = Append(c, Foreign)
    BY <1>1, <1>4 DEF TypeInv, TypeOK
  <2> QED
    BY <1>1, <1>4, <2>1, MangledShows, ContentType
<1> QED
  BY <1>3, <1>4 DEF AppendBatch

LEMMA BatchStep ==
    ASSUME TypeInv, BuildInv, AppendBatch
    PROVE  BuildInv'
<1>1. pc = "extend" /\ pc' = "regrow" /\ UNCHANGED <<manifest, used, shown, edits>>
  BY DEF AppendBatch, pageVars
<1>2. CASE quotes' = quotes
  BY <1>1, <1>2, QuietStep DEF BuildInv, NothingBeside, ListedSteps
<1>3. CASE quotes' # quotes
  <2>1. run.cand \in Present /\ \A q \in BlockIds \ {run.cand} : quotes'[q] = quotes[q]
    BY <1>3 DEF AppendBatch, TypeInv, TypeOK
  <2>2. Present' \subseteq Present
    BY <2>1 DEF Present
  <2>3. NoBatchTwice'
    <3> SUFFICES ASSUME edits = 0, NEW q \in Present'
                 PROVE  \/ \E k \in DOMAIN quotes'[q] : quotes'[q][k] = Foreign
                        \/ \E i \in Items : IsPrefix(quotes'[q], BodyOf[i])
      BY <1>1 DEF NoBatchTwice
    <3>1. CASE q = run.cand
      BY <1>1, <1>3, <3>1, BatchContent DEF TypeInv, Working, Body
    <3>2. CASE q # run.cand
      BY <2>1, <2>2, <3>2 DEF BuildInv, NoBatchTwice, Present
    <3> QED
      BY <3>1, <3>2
  <2>4. CurrentBodyKeptUnlessExtended'
    <3> SUFFICES ASSUME PrefixFree, edits = 0, shown # <<>>
                 PROVE  \E r \in BlockIds : quotes'[r] = shown
      BY <1>1 DEF CurrentBodyKeptUnlessExtended, CurrentBodyKept
    <3>1. PICK r \in BlockIds : quotes[r] = shown
      BY DEF BuildInv, CurrentBodyKeptUnlessExtended, CurrentBodyKept
    <3>2. r # run.cand
      BY <3>1, GrowingIsPart DEF BuildInv, ShownIsBody
    <3> QED
      BY <2>1, <3>1, <3>2
  <2>5. IdsGiven' /\ OneBeside'
    BY <1>1, <2>2 DEF BuildInv, IdsGiven, OneBeside, Ids
  <2>6. NothingBeside' /\ Measured' /\ ShownIsBody'
    BY <1>1 DEF BuildInv, NothingBeside, Measured, ShownIsBody, ListedSteps
  <2> QED
    BY <2>3, <2>4, <2>5, <2>6 DEF BuildInv
<1> QED
  BY <1>2, <1>3

\* The verified candidate is what is shown.
LEMMA VerifyStep ==
    ASSUME TypeInv, BuildInv, VerifyCompleted
    PROVE  BuildInv'
<1>1. /\ UNCHANGED <<manifest, quotes, used, edits>> /\ shown' = Body
      /\ quotes[run.cand] = Body /\ run.cand \in BlockIds /\ run.item \in Items
      /\ pc' = "seal"
  BY DEF VerifyCompleted, pageVars, envVars, TypeInv, Working
<1>2. run'.item = run.item
  BY DEF VerifyCompleted, TypeInv, TypeOK, Run
<1>3. ShownIsBody'
  BY <1>1, <1>2 DEF ShownIsBody, Body
<1>4. CurrentBodyKeptUnlessExtended'
  BY <1>1 DEF CurrentBodyKeptUnlessExtended, CurrentBodyKept
<1>5. IdsGiven' /\ OneBeside' /\ NoBatchTwice'
  BY <1>1 DEF BuildInv, IdsGiven, OneBeside, NoBatchTwice, Present, Ids
<1>6. NothingBeside' /\ Measured'
  BY <1>1 DEF BuildInv, NothingBeside, Measured
<1> QED
  BY <1>3, <1>4, <1>5, <1>6 DEF BuildInv

\* Its final record leaves the old refs and what is shown.
LEMMA SealStep ==
    ASSUME TypeInv, BuildInv, SealCandidate
    PROVE  BuildInv'
<1>1. /\ UNCHANGED <<quotes, used, shown, edits>> /\ pc = "seal"
      /\ pc' \in {"retire", "idle"} /\ manifest'.o = manifest.o
  BY DEF SealCandidate, RecordCandidate, envVars, EndRun, TypeInv, TypeOK, Manifest
<1>2. Len(manifest'.p) <= 1
  <2>1. manifest'.p = manifest.p \/ \E r : manifest'.p = <<r>>
    BY DEF SealCandidate, RecordCandidate, TypeInv, TypeOK, Manifest
  <2>2. ASSUME NEW r, manifest'.p = <<r>> PROVE Len(manifest'.p) <= 1
    BY <2>2
  <2> QED
    BY <2>1, <2>2 DEF BuildInv, NothingBeside
<1>3. pc' = "retire" => run'.item = run.item
  BY DEF SealCandidate, EndRun, TypeInv, TypeOK, Run
<1>4. pc' \in ListedSteps => shown = Body'
  BY <1>1, <1>3 DEF BuildInv, ShownIsBody, ListedSteps, Body
<1>5. NothingBeside' /\ Measured'
  BY <1>1, <1>2 DEF NothingBeside, Measured
<1>6. OneBeside'
  BY <1>1 DEF BuildInv, OneBeside, Present, Ids
<1> QED
  BY <1>1, <1>4, <1>5, <1>6, PageSame

\* Comparing an old quote changes nothing on the page.
LEMMA CheckStep ==
    ASSUME TypeInv, BuildInv, CheckOld
    PROVE  BuildInv'
<1>1. /\ UNCHANGED <<manifest, quotes, used, shown, edits>> /\ pc = "retire"
      /\ pc' \in {"retire", "delete", "idle"}
  BY DEF CheckOld, pageVars, envVars, EndRun
<1>2. pc' \in ListedSteps => run'.item = run.item
  BY DEF CheckOld, EndRun, ListedSteps, TypeInv, TypeOK, Run
<1>3. pc' \in ListedSteps => shown = Body'
  BY <1>1, <1>2 DEF BuildInv, ShownIsBody, ListedSteps, Body
<1>4. NothingBeside' /\ Measured' /\ OneBeside'
  BY <1>1 DEF BuildInv, NothingBeside, Measured, OneBeside, Present, Ids
<1> QED
  BY <1>1, <1>3, <1>4, PageSame

\* Deleting spares the candidate, which is what is shown.
LEMMA DeleteStep ==
    ASSUME TypeInv, CommitInv, BuildInv, DeleteOld
    PROVE  BuildInv'
<1>1. /\ pc = "delete" /\ UNCHANGED <<manifest, used, shown, edits>>
      /\ pc' \in {"retire", "idle"} /\ (pc' = "retire" => run'.item = run.item)
  BY DEF DeleteOld, pageVars, envVars, EndRun, TypeInv, TypeOK, Run
<1>2. /\ \A q \in BlockIds : quotes'[q] = quotes[q] \/ quotes'[q] = <<>>
      /\ quotes'[run.cand] = quotes[run.cand]
  <2> DEFINE old == Head(run.todo).i
  <2>1. UNCHANGED quotes \/ (quotes' = [quotes EXCEPT ![old] = <<>>] /\ old # run.cand)
    BY <1>1 DEF DeleteOld, OldSkipped, TypeInv, Working
  <2>2. quotes \in [BlockIds -> Content] /\ run.cand \in BlockIds
    BY <1>1 DEF TypeInv, TypeOK, Working
  <2> HIDE DEF old
  <2>3. CASE UNCHANGED quotes
    BY <2>3
  <2>4. CASE quotes' = [quotes EXCEPT ![old] = <<>>] /\ old # run.cand
    <3>1. quotes'[run.cand] = quotes[run.cand]
      BY <2>2, <2>4
    <3>2. \A q \in BlockIds : quotes'[q] = IF q = old THEN <<>> ELSE quotes[q]
      BY <2>2, <2>4
    <3> QED
      BY <3>1, <3>2
  <2> QED
    BY <2>1, <2>3, <2>4
<1>3. Present' \subseteq Present /\ \A q \in Present' : quotes'[q] = quotes[q]
  BY <1>2 DEF Present
<1>4. CurrentBodyKeptUnlessExtended'
  <2>1. edits = 0 => run.cand \in BlockIds /\ quotes[run.cand] = Body /\ shown = Body
    BY <1>1 DEF CommitInv, CandidateComplete, Finished, Retiring, BuildInv, ShownIsBody,
       ListedSteps
  <2> QED
    BY <1>1, <1>2, <2>1 DEF CurrentBodyKeptUnlessExtended, CurrentBodyKept
<1>5. IdsGiven' /\ OneBeside' /\ NoBatchTwice'
  BY <1>1, <1>3 DEF BuildInv, IdsGiven, OneBeside, NoBatchTwice, Ids
<1>6. NothingBeside' /\ Measured' /\ ShownIsBody'
  BY <1>1 DEF BuildInv, NothingBeside, Measured, ShownIsBody, ListedSteps, Body
<1> QED
  BY <1>4, <1>5, <1>6 DEF BuildInv

\* The commit gives up the old refs once the page is one quote.
LEMMA CommitStep ==
    ASSUME TypeInv, CommitInv, BuildInv, CommitItem
    PROVE  BuildInv'
<1>1. /\ pc = "commit" /\ pc' = "readback" /\ UNCHANGED <<quotes, used, shown, edits>>
      /\ manifest'.p = manifest.p
  BY DEF CommitItem, envVars
<1>2. OneBeside'
  <2>1. CASE run.wrote
    BY <1>1, <2>1 DEF CommitInv, CandidateComplete, Finished, Retiring, OneBeside, Present, Ids
  <2>2. CASE ~run.wrote
    BY <1>1, <2>2 DEF CommitItem, BuildInv, OneBeside, Present, Ids
  <2> QED
    BY <2>1, <2>2
<1>3. NothingBeside' /\ Measured'
  BY <1>1 DEF BuildInv, NothingBeside, Measured
<1> QED
  BY <1>1, <1>2, <1>3, PageSame DEF ListedSteps

LEMMA BuildNext == TypeInv /\ CommitInv /\ BuildInv /\ [Next]_vars => BuildInv'
<1> SUFFICES ASSUME TypeInv, CommitInv, BuildInv, [Next]_vars PROVE BuildInv'
  OBVIOUS
<1>1. Len(manifest.p) <= 1
  BY DEF BuildInv, NothingBeside
<1>2. CASE \/ PreflightBlocked \/ ApplyBase \/ DecideSync \/ DecideCurrent \/ StageRefused
           \/ AppendContainerFailed \/ FindAppended \/ VerifyFailed \/ RetiredAll
           \/ ReadBack \/ Crash
  <2>1. UNCHANGED <<quotes, used, shown, edits, manifest>>
    BY <1>2 DEF PreflightBlocked, ApplyBase, DecideSync, DecideCurrent, StageRefused,
       AppendContainerFailed, FindAppended, VerifyFailed, RetiredAll, ReadBack, Crash,
       pageVars, envVars
  <2>2. pc' \in {"idle", "decide", "stage", "commit", "find", "check"}
    BY <1>2 DEF PreflightBlocked, ApplyBase, DecideSync, DecideCurrent, StageRefused,
       AppendContainerFailed, FindAppended, VerifyFailed, RetiredAll, ReadBack, Crash, EndRun
  <2> QED
    BY <1>1, <2>1, <2>2, QuietStep DEF ListedSteps
<1>3. CASE PersonEdits
  <2>1. edits' # 0 /\ UNCHANGED <<pc, run, shown, manifest>>
    BY <1>3 DEF PersonEdits, TypeInv, TypeOK, pageVars
  <2>2. IdsGiven'
    <3>1. PICK q \in BlockIds : EditText(q) \/ EditChildren(q) \/ AddQuote(q) \/ RemoveQuote(q)
      BY <1>3 DEF PersonEdits
    <3>2. Present' \subseteq Present \cup {q} /\ used \subseteq used'
      BY <3>1 DEF EditText, EditChildren, AddQuote, RemoveQuote, Present, TypeInv, TypeOK
    <3>3. q \in Present' => q \in used'
      BY <3>1 DEF EditText, EditChildren, AddQuote, RemoveQuote, BuildInv, IdsGiven, Present,
         TypeInv, TypeOK
    <3> QED
      BY <3>2, <3>3 DEF BuildInv, IdsGiven
  <2> QED
    BY <2>1, <2>2 DEF BuildInv, NothingBeside, OneBeside, Measured, ShownIsBody, NoBatchTwice,
       CurrentBodyKeptUnlessExtended, CurrentBodyKept, Body
<1>4. CASE SourceChanges \/ UNCHANGED vars
  <2>1. UNCHANGED <<quotes, used, shown, edits, manifest, pc, run>>
    BY <1>4 DEF SourceChanges, vars, pageVars
  <2>2. NothingBeside' /\ OneBeside'
    BY <2>1 DEF BuildInv, NothingBeside, OneBeside, Present, Recorded, Ids
  <2>3. Measured' /\ (pc' \in ListedSteps => shown = Body')
    BY <2>1 DEF BuildInv, Measured, ShownIsBody, Fits, Body, Present
  <2> QED
    BY <2>1, <2>2, <2>3, PageSame
<1> QED
  BY <1>2, <1>3, <1>4, StageStep, PickStep, ReuseSteps, RecordSteps, AppendSteps, BatchStep,
     VerifyStep, SealStep, CheckStep, DeleteStep, CommitStep DEF Next, RunStep

\* Lost responses, retries and abandoned generations never leave a second quote
\* that the run is not about to delete: sync_page_body_blocks looks for what an
\* append may have left before it appends again, and keeps the rest as old refs.
THEOREM OneQuoteBeside == Spec => []OneLiveCandidate
<1>1. Init => TypeInv /\ CommitInv /\ BuildInv
  BY InitType, CommitInit, BuildInit
<1>2. TypeInv /\ CommitInv /\ BuildInv /\ [Next]_vars => TypeInv' /\ CommitInv' /\ BuildInv'
  BY NextType, CommitNext, BuildNext
<1>3. TypeInv /\ CommitInv /\ BuildInv => OneLiveCandidate
  BY OneLive
<1> QED
  BY <1>1, <1>2, <1>3, PTL DEF Spec

\* Batches are appended once and in order, however often a run was cut between
\* an append and its record: persist_candidate measures the candidate on the
\* page before the next batch.
THEOREM BatchesOnce == Spec => []NoBatchTwice
<1>1. Init => TypeInv /\ CommitInv /\ BuildInv
  BY InitType, CommitInit, BuildInit
<1>2. TypeInv /\ CommitInv /\ BuildInv /\ [Next]_vars => TypeInv' /\ CommitInv' /\ BuildInv'
  BY NextType, CommitNext, BuildNext
<1>3. TypeInv /\ CommitInv /\ BuildInv => NoBatchTwice
  BY DEF BuildInv
<1> QED
  BY <1>1, <1>2, <1>3, PTL DEF Spec

\* README.md:192: until a new body has been verified, the one verified last
\* stays on the page as it is, when no body extends another.
THEOREM BodyKept == Spec => []CurrentBodyKeptUnlessExtended
<1>1. Init => TypeInv /\ CommitInv /\ BuildInv
  BY InitType, CommitInit, BuildInit
<1>2. TypeInv /\ CommitInv /\ BuildInv /\ [Next]_vars => TypeInv' /\ CommitInv' /\ BuildInv'
  BY NextType, CommitNext, BuildNext
<1>3. TypeInv /\ CommitInv /\ BuildInv => CurrentBodyKeptUnlessExtended
  BY DEF BuildInv
<1> QED
  BY <1>1, <1>2, <1>3, PTL DEF Spec

-----------------------------------------------------------------------------
(***************************************************************************)
(* The refinement.  Claimed and OnDisplay are functions of the page alone, *)
(* so a step that leaves the page as it is stutters.                       *)
(***************************************************************************)

\* What the page shows and says of itself, as BodyReplacement sees it.
Seen == <<Claimed, OnDisplay>>

\* A step that leaves the page alone stutters.
LEMMA SeenSame == UNCHANGED <<status, operation, quotes>> => UNCHANGED Seen
BY DEF Seen, Claimed, OnDisplay, Present

\* A quote that was no complete body takes its content.
LEMMA ContentPublished ==
    ASSUME TypeInv, status = "pending", UNCHANGED <<status, operation>>,
           NEW q \in BlockIds, NEW c \in Content, c # <<>>,
           quotes' = [quotes EXCEPT ![q] = c],
           q \in Present => \A i \in Items : quotes[q] # BodyOf[i]
    PROVE  Replacement!Publish \/ UNCHANGED Seen
<1>1. Claimed = NoItem /\ Claimed' = NoItem
  BY DEF Claimed
<1>2. quotes'[q] = c /\ \A r \in BlockIds \ {q} : quotes'[r] = quotes[r]
  BY DEF TypeInv, TypeOK
<1>3. Present' = Present \cup {q}
  BY <1>2 DEF Present
<1>4. {quotes'[r] : r \in Present'} = {quotes[r] : r \in Present \ {q}} \cup {c}
  BY <1>2, <1>3 DEF Present
<1>5. OnDisplay = {BodyOf[i] : i \in Items} \cap {quotes[r] : r \in Present \ {q}}
  BY DEF OnDisplay
<1>6. OnDisplay' = {BodyOf[i] : i \in Items} \cap ({quotes[r] : r \in Present \ {q}} \cup {c})
  BY <1>4 DEF OnDisplay
<1>7. CASE c \in {BodyOf[i] : i \in Items}
  <2>1. OnDisplay' = OnDisplay \cup {c}
    BY <1>5, <1>6, <1>7
  <2> QED
    BY <1>1, <1>7, <2>1 DEF Replacement!Publish, Replacement!Bodies
<1>8. CASE c \notin {BodyOf[i] : i \in Items}
  BY <1>1, <1>5, <1>6, <1>8 DEF Seen
<1> QED
  BY <1>7, <1>8

LEMMA AppendPublishes ==
    ASSUME TypeInv, CommitInv, BuildInv, edits = 0, PrefixFree,
           AppendContainer \/ AppendContainerMangled \/ AppendBatch
    PROVE  Replacement!Publish \/ UNCHANGED Seen
<1>1. status = "pending" /\ UNCHANGED <<status, operation>>
  BY DEF AppendContainer, AppendContainerMangled, AppendBatch, pageVars, CommitInv,
     PagePending, BuildSteps
<1>2. CASE AppendContainer \/ AppendContainerMangled
  <2>1. FirstBatch \in Content /\ FirstBatch # <<>>
    BY <1>2, FirstBatchFits DEF AppendContainer, AppendContainerMangled, TypeInv, Working, Body
  <2>2. /\ Append(Front(FirstBatch), Foreign) \in Content
        /\ Append(Front(FirstBatch), Foreign) # <<>>
    BY <2>1, FirstBatchType, FrontType, MangledShows, ContentType
  <2>3. PICK q \in BlockIds \ used :
          \/ quotes' = [quotes EXCEPT ![q] = FirstBatch]
          \/ quotes' = [quotes EXCEPT ![q] = Append(Front(FirstBatch), Foreign)]
    BY <1>2 DEF AppendContainer, AppendContainerMangled, NewQuote
  <2>4. q \notin Present
    BY <2>3 DEF BuildInv, IdsGiven
  <2>5. CASE quotes' = [quotes EXCEPT ![q] = FirstBatch]
    BY <1>1, <2>1, <2>4, <2>5, ContentPublished
  <2>6. CASE quotes' = [quotes EXCEPT ![q] = Append(Front(FirstBatch), Foreign)]
    BY <1>1, <2>2, <2>4, <2>6, ContentPublished
  <2> QED
    BY <2>3, <2>5, <2>6
<1>3. CASE AppendBatch /\ quotes' # quotes
  <2> DEFINE c == quotes'[run.cand]
  <2>1. /\ run.cand \in BlockIds /\ quotes' = [quotes EXCEPT ![run.cand] = c]
        /\ c \in Content /\ c # <<>>
    BY <1>3, BatchContent DEF Present
  <2>2. \A i \in Items : quotes[run.cand] # BodyOf[i]
    BY <1>3, GrowingIsPart
  <2> HIDE DEF c
  <2> QED
    BY <1>1, <2>1, <2>2, ContentPublished
<1>4. CASE quotes' = quotes
  BY <1>1, <1>4, SeenSame
<1> QED
  BY <1>2, <1>3, <1>4

\* The candidate stays on display while an old body goes.
LEMMA RetireRetires ==
    ASSUME TypeInv, CommitInv, edits = 0, DeleteOld
    PROVE  Replacement!Retire \/ UNCHANGED Seen
<1> DEFINE old == Head(run.todo).i
<1>1. /\ pc = "delete" /\ run.item \in Items /\ status = "pending" /\ old # run.cand
      /\ UNCHANGED <<status, operation>>
  BY DEF DeleteOld, pageVars, TypeInv, Working, OldSkipped, CommitInv, PagePending, BuildSteps
<1>2. Claimed = NoItem /\ Claimed' = NoItem
  BY <1>1 DEF Claimed
<1>3. /\ run.cand \in BlockIds /\ quotes[run.cand] = Body
      /\ \E i \in Items : Body = BodyOf[i]
      /\ Body # <<>>
  BY <1>1, ItemsAssumption DEF CommitInv, CandidateComplete, Finished, Retiring, Body
<1>4. CASE UNCHANGED quotes
  BY <1>1, <1>4, SeenSame
<1>5. CASE /\ quotes' = [quotes EXCEPT ![old] = <<>>]
           /\ old # run.cand
           /\ old \in Present
  <2> HIDE DEF old
  <2>1. quotes'[old] = <<>> /\ \A r \in BlockIds \ {old} : quotes'[r] = quotes[r]
    BY <1>5 DEF TypeInv, TypeOK, Present
  <2>2. Present' = Present \ {old}
    BY <2>1 DEF Present
  <2>3. {quotes'[r] : r \in Present'} = {quotes[r] : r \in Present \ {old}}
    BY <2>1, <2>2 DEF Present
  <2>4. OnDisplay' = {BodyOf[i] : i \in Items} \cap {quotes[r] : r \in Present \ {old}}
    BY <2>3 DEF OnDisplay
  <2>5. Body \in OnDisplay'
    BY <1>3, <1>5, <2>4 DEF Present
  <2>6. CASE OnDisplay' = OnDisplay
    BY <1>2, <2>6 DEF Seen
  <2>7. CASE OnDisplay' # OnDisplay
    <3>1. OnDisplay \subseteq OnDisplay' \cup {quotes[old]} /\ OnDisplay' \subseteq OnDisplay
      BY <2>4 DEF OnDisplay
    <3>2. quotes[old] \in OnDisplay /\ OnDisplay' = OnDisplay \ {quotes[old]}
      BY <2>7, <3>1
    <3> QED
      BY <1>2, <2>5, <3>2 DEF Replacement!Retire
  <2> QED
    BY <2>6, <2>7
<1>6. CASE quotes' = [quotes EXCEPT ![old] = <<>>] /\ old \notin Present
  <2> HIDE DEF old
  <2>1. UNCHANGED quotes
    BY <1>6 DEF Present, TypeInv, TypeOK
  <2> QED
    BY <1>4, <2>1
<1> QED
  BY <1>1, <1>4, <1>5, <1>6 DEF DeleteOld

\* At the commit the item's body is all there is.
LEMMA CommitClaims ==
    ASSUME TypeInv, CommitInv, edits = 0, CommitItem
    PROVE  Replacement!Claim
<1>1. /\ pc = "commit" /\ run.item \in Items /\ status = "pending"
      /\ status' = "committed" /\ operation' = run.item /\ UNCHANGED quotes
  BY DEF CommitItem, TypeInv, Working, CommitInv, PagePending
<1>2. Claimed = NoItem /\ Claimed' = run.item
  BY <1>1 DEF Claimed
<1>3. \E q \in BlockIds : Present = {q} /\ quotes[q] = Body
  <2>1. CASE run.wrote
    <3>1. /\ run.cand \in BlockIds /\ quotes[run.cand] = Body
          /\ Present \ {run.cand} = {}
      BY <1>1, <2>1 DEF CommitInv, CandidateComplete, Finished, Retiring
    <3>2. run.cand \in Present
      BY <1>1, <3>1, ItemsAssumption DEF Present, Body
    <3> QED
      BY <3>1, <3>2
  <2>2. CASE ~run.wrote
    BY <1>1, <2>2 DEF CommitInv, CommitRepeats, ManifestExact
  <2> QED
    BY <2>1, <2>2
<1>4. OnDisplay = {BodyOf[run.item]} /\ OnDisplay' = OnDisplay
  BY <1>1, <1>3 DEF OnDisplay, Present, Body
<1> QED
  BY <1>1, <1>2, <1>4 DEF Replacement!Claim

LEMMA StepReplaces ==
    ASSUME MaxEdits = 0, PrefixFree, TypeInv, CommitInv, BuildInv, [Next]_vars
    PROVE  Replacement!Next \/ UNCHANGED Seen
<1>1. edits = 0 /\ ~PersonEdits
  BY DEF TypeInv, TypeOK, PersonEdits
<1>2. CASE ApplyBase \/ DecideSync
  <2>1. UNCHANGED quotes /\ (status' = "pending" \/ UNCHANGED <<status, operation>>)
    BY <1>2 DEF ApplyBase, DecideSync
  <2>2. OnDisplay' = OnDisplay
    BY <2>1 DEF OnDisplay, Present
  <2>3. Claimed' = NoItem \/ Claimed' = Claimed
    BY <2>1 DEF Claimed
  <2> QED
    BY <2>2, <2>3 DEF Seen, Replacement!Next, Replacement!Withdraw
<1>3. CASE CommitItem
  BY <1>1, <1>3, CommitClaims DEF Replacement!Next
<1>4. CASE AppendContainer \/ AppendContainerMangled \/ AppendBatch
  BY <1>1, <1>4, AppendPublishes DEF Replacement!Next
<1>5. CASE DeleteOld
  BY <1>1, <1>5, RetireRetires DEF Replacement!Next
<1>6. CASE \/ PreflightBlocked \/ DecideCurrent \/ StageManifest \/ StageRefused
           \/ CandidateFromManifest \/ CandidateFromOldRef \/ CandidateUntracked
           \/ AppendContainerFailed \/ FindAppended \/ CheckAppended \/ PersistCandidate
           \/ RecordPrefix \/ VerifyCompleted \/ VerifyFailed \/ SealCandidate
           \/ CheckOld \/ RetiredAll \/ ReadBack \/ Crash
           \/ SourceChanges \/ UNCHANGED vars
  <2>1. UNCHANGED <<status, operation, quotes>>
    BY <1>6 DEF PreflightBlocked, DecideCurrent, StageManifest, StageRefused,
       CandidateFromManifest, CandidateFromOldRef, CandidateUntracked,
       AppendContainerFailed, FindAppended, CheckAppended, PersistCandidate, RecordPrefix,
       VerifyCompleted, VerifyFailed, SealCandidate, CheckOld, RetiredAll, ReadBack, Crash,
       SourceChanges, pageVars, vars
  <2> QED
    BY <2>1, SeenSame
<1> QED
  BY <1>1, <1>2, <1>3, <1>4, <1>5, <1>6 DEF Next, RunStep

\* README.md:192, scripts/README.md:36: on a page nobody edits, whose bodies do
\* not extend each other, the protocol of sync_page_body_blocks is
\* make-before-break: a reader sees complete bodies come before others go, and
\* the page claims an item only while that item's body is all it displays.
THEOREM ProtocolReplaces ==
    ASSUME MaxEdits = 0, PrefixFree
    PROVE  Spec => ImplementsReplacement
<1>1. Init => TypeInv /\ CommitInv /\ BuildInv
  BY InitType, CommitInit, BuildInit
<1>2. TypeInv /\ CommitInv /\ BuildInv /\ [Next]_vars => TypeInv' /\ CommitInv' /\ BuildInv'
  BY NextType, CommitNext, BuildNext
<1>3. Init => Replacement!Init
  BY DEF Init, Replacement!Init, Replacement!Bodies, Claimed, OnDisplay
<1>4. TypeInv /\ CommitInv /\ BuildInv /\ [Next]_vars => [Replacement!Next]_(Replacement!vars)
  BY StepReplaces DEF Seen, Replacement!vars
<1> QED
  BY <1>1, <1>2, <1>3, <1>4, PTL DEF Spec, ImplementsReplacement, Replacement!Spec

=============================================================================
