---------------------------- MODULE BodyGeneration ----------------------------
(***************************************************************************)
(* One managed Notion page and the runs that keep its body equal to the    *)
(* notice it mirrors: _apply_item (scripts/sync_engine.py) and             *)
(* sync_page_body_blocks (scripts/sync.py).                                *)
(*                                                                         *)
(* The body lives in one top-level quote block.  A run never rewrites it:  *)
(* it builds a new quote batch by batch, verifies it, deletes the quotes   *)
(* of earlier generations and then commits, and it records every step in   *)
(* the page's generation manifest so that the next run can resume.  Every  *)
(* request that writes is a step of its own, and so is every reading that  *)
(* a later write rests on: a candidate's children are read to check them   *)
(* and once more for the hash on record, an old quote's to compare them    *)
(* before it is deleted.  A run may die between any two steps (deadline,   *)
(* signal, error), a request may take effect although its response is      *)
(* lost, and people may edit the page meanwhile.                           *)
(*                                                                         *)
(* The content of a quote is a sequence of chunks: the quote's own text,   *)
(* then one chunk per batch of child blocks.  A content hash is the        *)
(* content itself (SHA-256 is taken to be injective).                      *)
(***************************************************************************)
EXTENDS Naturals, Sequences, FiniteSets, SequencesExt

CONSTANTS
    Items,      \* versions of the notice; an item stands for its operation id
    Chunks,     \* what a body is made of
    BodyOf,     \* the body of each item, a non-empty sequence of chunks
    Foreign,    \* a chunk of no body: mangled by storage or typed by a person
    BlockIds,   \* ids Notion can give to top-level quotes, never reused
    NoItem,     \* no operation id
    NoBlock,    \* no candidate
    MaxFaults,  \* bound on crashes, lost or failed requests, mangled chunks
    MaxChanges, \* bound on changes of the notice at its source
    MaxEdits    \* bound on edits people make to the page

ASSUME ItemsAssumption ==
    /\ Items # {}
    /\ BodyOf \in [Items -> Seq(Chunks)]
    /\ \A i \in Items : BodyOf[i] # <<>>
    /\ NoItem \notin Items

ASSUME BlocksAssumption ==
    /\ Foreign \notin Chunks
    /\ NoBlock \notin BlockIds

ASSUME BoundsAssumption ==
    /\ MaxFaults \in Nat
    /\ MaxChanges \in Nat
    /\ MaxEdits \in Nat

VARIABLES
    source,     \* the item the source serves now
    status,     \* SYNC_STATUS: "absent" before the page exists
    operation,  \* SYNC_OPERATION
    bodyHash,   \* BODY_HASH, <<>> while empty
    manifest,   \* SYNC_GENERATION, s = "none" while empty
    quotes,     \* content of every top-level quote, <<>> where there is none
    used,       \* ids already given out
    pc,         \* the run's next step
    run,        \* the run's local variables
    outcome,    \* how the last run ended
    faults, changes, edits,  \* the bounded environment so far
    guarded,    \* history: recorded quotes a person has edited
    shown       \* history: the body last verified on the page

pageVars == <<status, operation, bodyHash, manifest>>
envVars == <<source, faults, changes, edits, guarded>>
vars == <<source, status, operation, bodyHash, manifest, quotes, used, pc, run,
          outcome, faults, changes, edits, guarded, shown>>

Content == Seq(Chunks \cup {Foreign})
Ref == [i : BlockIds, h : Content]

NoManifest == [s |-> "none", op |-> NoItem, p |-> <<>>, o |-> <<>>]

Manifest == [s : {"none", "pending", "committed"}, op : Items \cup {NoItem},
             p : Seq(Ref), o : Seq(Ref)]

\* The locals of _apply_item and sync_page_body_blocks that outlive a request.
IdleRun ==
    [item |-> NoItem,     \* the item being applied
     cand |-> NoBlock,    \* candidate_id
     resume |-> FALSE,    \* resume_untracked
     seen |-> {},         \* ids of initial_root_blocks
     reached |-> 0,       \* prefix_length
     short |-> FALSE,     \* updated_prefix < target_length
     heads |-> [q \in BlockIds |-> <<>>],  \* text of the quotes as listed
     todo |-> <<>>,       \* old refs still to delete
     wrote |-> FALSE]     \* body_changed

Run == [item : Items \cup {NoItem}, cand : BlockIds \cup {NoBlock},
        resume : BOOLEAN, seen : SUBSET BlockIds, reached : Nat, short : BOOLEAN,
        heads : [BlockIds -> Content], todo : Seq(Ref), wrote : BOOLEAN]

Steps == {"idle", "decide", "stage", "pick", "reuse", "append", "find", "check",
          "persist", "record", "extend", "regrow", "seal", "retire", "delete",
          "commit", "readback"}

Outcomes == {"none", "unchanged", "done", "held", "failed", "blocked",
             "tampered", "unwritable"}

TypeOK ==
    /\ source \in Items
    /\ status \in {"absent", "pending", "committed"}
    /\ operation \in Items \cup {NoItem}
    /\ bodyHash \in Content
    /\ manifest \in Manifest
    /\ quotes \in [BlockIds -> Content]
    /\ used \subseteq BlockIds
    /\ pc \in Steps
    /\ run \in Run
    /\ outcome \in Outcomes
    /\ faults \in 0..MaxFaults
    /\ changes \in 0..MaxChanges
    /\ edits \in 0..MaxEdits
    /\ guarded \subseteq BlockIds
    /\ shown \in Content

-----------------------------------------------------------------------------
(* What a run reads *)

Present == {q \in BlockIds : quotes[q] # <<>>}

Ids(refs) == {refs[k].i : k \in DOMAIN refs}

Recorded == Ids(manifest.p) \cup Ids(manifest.o)

Untracked == Present \ Recorded

Body == BodyOf[run.item]

\* The text of a quote, without its children.
Text(q) == IF q \in Present THEN <<Head(quotes[q])>> ELSE <<>>

\* sync_container_actual_hash of a block as it was listed: the text is the one
\* listed before, the children are requested now.
AsRead(q) == run.heads[q] \o Tail(quotes[q])

\* What the first append carries: the quote's text and the first batch.
FirstBatch == SubSeq(Body, 1, IF Len(Body) < 2 THEN Len(Body) ELSE 2)

\* Mutant: a prefix check that stops at the quote's own text.
FitsByText(q) == quotes[q] # <<>> /\ Head(quotes[q]) = Head(Body)

\* sync_container_prefix_validation: every chunk so far is the body's.
Fits(q) == IsPrefix(quotes[q], Body)

\* is_body_generation_current: the committed part is the page's only quote.
GenerationCurrent ==
    /\ manifest.s = "committed"
    /\ Len(manifest.p) = 1
    /\ Present = {manifest.p[1].i}
    /\ quotes[manifest.p[1].i] = manifest.p[1].h

\* Mutant: trusts BODY_HASH without looking at the page.
HashDiffers(item) == bodyHash # BodyOf[item]

NeedsBodySync(item) == bodyHash # BodyOf[item] \/ ~GenerationCurrent

\* A page left by a version that wrote no manifest: pending for this very
\* operation with exactly one quote, which already is the whole body.
LegacyRecovery(item) ==
    /\ status = "pending"
    /\ operation = item
    /\ manifest.s = "none"
    /\ \E q \in Present : Untracked = {q} /\ quotes[q] = BodyOf[item]

\* The generation id is reused only by the operation that left it pending.
SameGeneration == manifest.s = "pending" /\ manifest.op = run.item

\* untracked_candidates: quotes that appeared after the run listed the page.
UntrackedCandidates == {q \in Untracked \ run.seen : Fits(q)}

\* parse_body_generation_manifest rejects a list that names a block twice.
Serializable(refs) == \A j, k \in DOMAIN refs : refs[j].i = refs[k].i => j = k

-----------------------------------------------------------------------------
Init ==
    /\ source \in Items
    /\ bodyHash = <<>>
    /\ manifest = NoManifest
    /\ \/ /\ status = "absent"
          /\ operation = NoItem
          /\ quotes = [q \in BlockIds |-> <<>>]
          /\ used = {}
       \/ /\ status = "pending"
          /\ operation \in Items
          /\ \E b \in BlockIds :
                /\ quotes = [q \in BlockIds |->
                                IF q = b THEN BodyOf[operation] ELSE <<>>]
                /\ used = {b}
    /\ pc = "idle"
    /\ run = IdleRun
    /\ outcome = "none"
    /\ faults = 0
    /\ changes = 0
    /\ edits = 0
    /\ guarded = {}
    /\ shown = <<>>

EndRun(result) ==
    /\ pc' = "idle"
    /\ run' = IdleRun
    /\ outcome' = result

\* An error whose cause is the environment uses up one fault.
Fault == faults < MaxFaults /\ faults' = faults + 1

-----------------------------------------------------------------------------
(* _apply_item up to the body *)

\* Preflight: an untracked top-level quote stops the run before any write.
PreflightBlocked ==
    /\ pc = "idle"
    /\ Untracked # {}
    /\ ~LegacyRecovery(source)
    /\ EndRun("blocked")
    /\ UNCHANGED <<pageVars, quotes, used, envVars, shown>>

\* Create the page, or mark it pending when the item's operation is new.
ApplyBase ==
    /\ pc = "idle"
    /\ Untracked = {} \/ LegacyRecovery(source)
    /\ IF operation # source
       THEN status' = "pending" /\ operation' = source
       ELSE UNCHANGED <<status, operation>>
    /\ run' = [IdleRun EXCEPT !.item = source]
    /\ pc' = "decide"
    /\ UNCHANGED <<bodyHash, manifest, quotes, used, outcome, envVars, shown>>

\* needs_body_sync; a page that is already pending is not marked again.
DecideSync ==
    /\ pc = "decide"
    /\ NeedsBodySync(run.item)
    /\ status' = "pending"
    /\ operation' = run.item
    /\ pc' = "stage"
    /\ UNCHANGED <<bodyHash, manifest, quotes, used, run, outcome, envVars, shown>>

DecideCurrent ==
    /\ pc = "decide"
    /\ ~NeedsBodySync(run.item)
    /\ IF status = "pending"
       THEN pc' = "commit" /\ UNCHANGED <<run, outcome>>
       ELSE EndRun("unchanged")
    /\ UNCHANGED <<pageVars, quotes, used, envVars, shown>>

-----------------------------------------------------------------------------
(* sync_page_body_blocks *)

\* The refs the new pending manifest starts from.
LegacyPart ==
    IF manifest.s = "none" /\ operation = run.item
    THEN {q \in Untracked : Untracked = {q} /\ quotes[q] = Body}
    ELSE {}

StagedParts ==
    IF SameGeneration THEN manifest.p
    ELSE IF LegacyPart = {} THEN <<>>
    ELSE <<[i |-> CHOOSE q \in LegacyPart : TRUE, h |-> Body]>>

StagedOld == IF SameGeneration THEN manifest.o ELSE manifest.p \o manifest.o

\* Write the pending manifest: earlier parts become refs to delete.
StageManifest ==
    /\ pc = "stage"
    /\ Present \subseteq Ids(StagedParts) \cup Ids(StagedOld)
    /\ Serializable(StagedOld)
    /\ manifest' = [s |-> "pending", op |-> run.item, p |-> StagedParts, o |-> StagedOld]
    /\ run' = [run EXCEPT !.resume = SameGeneration, !.seen = Present]
    /\ pc' = "pick"
    /\ UNCHANGED <<status, operation, bodyHash, quotes, used, outcome, envVars, shown>>

StageRefused ==
    /\ pc = "stage"
    /\ \/ /\ ~(Present \subseteq Ids(StagedParts) \cup Ids(StagedOld))
          /\ \E result \in IF manifest.s = "none" THEN {"held", "failed"}
                           ELSE {"failed"} : EndRun(result)
       \/ /\ Present \subseteq Ids(StagedParts) \cup Ids(StagedOld)
          /\ ~Serializable(StagedOld)
          /\ EndRun("unwritable")
    /\ UNCHANGED <<pageVars, quotes, used, envVars, shown>>

\* candidate_from_manifest: resume the recorded part, forget one that is gone,
\* hold the notice when its content is no prefix of the body.
CandidateFromManifest ==
    /\ pc = "pick"
    /\ LET part == manifest.p[1] IN
       \/ /\ manifest.p = <<>>
          /\ pc' = "reuse"
          /\ UNCHANGED <<manifest, run, outcome>>
       \/ /\ manifest.p # <<>>
          /\ part.i \notin Present
          /\ manifest' = [manifest EXCEPT !.p = <<>>]
          /\ pc' = "reuse"
          /\ UNCHANGED <<run, outcome>>
       \/ /\ manifest.p # <<>>
          /\ part.i \in Present
          /\ Fits(part.i)
          /\ run' = [run EXCEPT !.cand = part.i]
          /\ pc' = "persist"
          /\ UNCHANGED <<manifest, outcome>>
       \/ /\ manifest.p # <<>>
          /\ part.i \in Present
          /\ ~Fits(part.i)
          /\ EndRun("held")
          /\ UNCHANGED manifest
    /\ UNCHANGED <<status, operation, bodyHash, quotes, used, envVars, shown>>

\* Old quotes an interrupted run may adopt as its candidate, unchanged since
\* they were recorded and a prefix of the new body.
AdoptableRefs ==
    {k \in DOMAIN manifest.o :
        /\ run.resume
        /\ manifest.o[k].i \in Present
        /\ Fits(manifest.o[k].i)
        /\ quotes[manifest.o[k].i] = manifest.o[k].h}

\* candidate_from_old_ref: the longest one, the first of equals.
CandidateFromOldRef ==
    /\ pc = "reuse"
    /\ \E k \in AdoptableRefs :
        /\ \A j \in AdoptableRefs :
            \/ Len(manifest.o[j].h) < Len(manifest.o[k].h)
            \/ Len(manifest.o[j].h) = Len(manifest.o[k].h) /\ k <= j
        /\ manifest' = [manifest EXCEPT !.p = <<manifest.o[k]>>]
        /\ run' = [run EXCEPT !.cand = manifest.o[k].i]
    /\ pc' = "persist"
    /\ UNCHANGED <<status, operation, bodyHash, quotes, used, outcome, envVars, shown>>

\* No old quote fits: look for an unrecorded one, else build a new quote.
CandidateUntracked ==
    /\ pc = "reuse"
    /\ AdoptableRefs = {}
    /\ LET found == IF run.resume THEN UntrackedCandidates ELSE {} IN
       \/ /\ found = {}
          /\ pc' = "append"
          /\ UNCHANGED <<run, outcome>>
       \/ /\ Cardinality(found) > 1
          /\ EndRun("failed")
       \/ \E q \in found :
          /\ found = {q}
          /\ run' = [run EXCEPT !.cand = q]
          /\ pc' = "persist"
          /\ UNCHANGED outcome
    /\ UNCHANGED <<pageVars, quotes, used, envVars, shown>>

\* append_block_children on the page.  The request lands or not, its chunks
\* are stored as sent or mangled, and the response arrives or is lost.
NewQuote(content) ==
    \E q \in BlockIds \ used :
        /\ quotes' = [quotes EXCEPT ![q] = content]
        /\ used' = used \cup {q}
        /\ \/ /\ run' = [run EXCEPT !.cand = q, !.heads[q] = <<Head(content)>>]
              /\ pc' = "check"
              /\ UNCHANGED faults
           \/ Fault /\ pc' = "find" /\ UNCHANGED run

AppendContainer ==
    /\ pc = "append"
    /\ NewQuote(FirstBatch)
    /\ UNCHANGED <<pageVars, outcome, source, changes, edits, guarded, shown>>

AppendContainerMangled ==
    /\ pc = "append"
    /\ Fault
    /\ \E q \in BlockIds \ used, lost \in BOOLEAN :
        LET mangled == Append(Front(FirstBatch), Foreign) IN
        /\ quotes' = [quotes EXCEPT ![q] = mangled]
        /\ used' = used \cup {q}
        /\ IF lost
           THEN pc' = "find" /\ UNCHANGED run
           ELSE /\ pc' = "check"
                /\ run' = [run EXCEPT !.cand = q, !.heads[q] = <<Head(mangled)>>]
    /\ UNCHANGED <<pageVars, outcome, source, changes, edits, guarded, shown>>

AppendContainerFailed ==
    /\ pc = "append"
    /\ Fault
    /\ pc' = "find"
    /\ UNCHANGED <<pageVars, quotes, used, run, outcome, source, changes, edits,
                   guarded, shown>>

\* Mutant: sends the request again without looking for what it left behind.
AppendAgain ==
    /\ pc = "find"
    /\ pc' = "append"
    /\ UNCHANGED <<pageVars, quotes, used, run, outcome, envVars, shown>>

\* No usable response: whatever quote appeared meanwhile and fits is ours.
FindAppended ==
    /\ pc = "find"
    /\ \/ /\ Cardinality(UntrackedCandidates) # 1
          /\ EndRun("failed")
       \/ \E q \in UntrackedCandidates :
          /\ UntrackedCandidates = {q}
          /\ run' = [run EXCEPT !.cand = q, !.heads[q] = Text(q)]
          /\ pc' = "check"
          /\ UNCHANGED outcome
    /\ UNCHANGED <<pageVars, quotes, used, envVars, shown>>

\* Mutant: files the candidate under the operation id.
RecordOperation(content) ==
    manifest' = [manifest EXCEPT !.p = <<[i |-> run.item, h |-> content]>>]

\* The manifest entry of the candidate: the content it was read with.
RecordCandidate(content) ==
    manifest' = [manifest EXCEPT !.p = <<[i |-> run.cand, h |-> content]>>]

\* A new quote that does not fit is recorded as it is and the notice held.
CheckAppended ==
    /\ pc = "check"
    /\ \/ /\ run.cand \notin Present
          /\ EndRun("failed")
          /\ UNCHANGED manifest
       \/ /\ run.cand \in Present
          /\ IsPrefix(AsRead(run.cand), Body)
          /\ pc' = "persist"
          /\ UNCHANGED <<manifest, run, outcome>>
       \/ /\ run.cand \in Present
          /\ ~IsPrefix(AsRead(run.cand), Body)
          /\ RecordCandidate(AsRead(run.cand))
          /\ EndRun("held")
    /\ UNCHANGED <<status, operation, bodyHash, quotes, used, envVars, shown>>

\* Mutant: resumes from the length of the recorded hash.
RecordedLength ==
    IF pc = "persist" /\ manifest.p # <<>> THEN Len(manifest.p[1].h)
    ELSE Len(quotes[run.cand])

\* The prefix length persist_candidate returns, read from the page.
PrefixLength == Len(quotes[run.cand])

\* persist_candidate before the first batch and after each one: the candidate
\* is listed and its children are checked.  One that stopped fitting leaves
\* the recorded hash as it was.
PersistCandidate ==
    /\ pc \in {"persist", "regrow"}
    /\ \/ /\ run.cand \notin Present
          /\ EndRun("failed")
       \/ /\ run.cand \in Present
          /\ ~Fits(run.cand)
          /\ EndRun("held")
       \/ /\ run.cand \in Present
          /\ Fits(run.cand)
          /\ run' = [run EXCEPT
                        !.reached = PrefixLength,
                        !.short = (pc = "regrow" /\ PrefixLength <= run.reached),
                        !.heads[run.cand] = Text(run.cand)]
          /\ pc' = "record"
          /\ UNCHANGED outcome
    /\ UNCHANGED <<pageVars, quotes, used, envVars, shown>>

\* The rest of persist_candidate: the children are requested once more and
\* their hash goes on record; a batch that did not arrive ends the run.
RecordPrefix ==
    /\ pc = "record"
    /\ \/ /\ run.cand \notin Present
          /\ EndRun("failed")
          /\ UNCHANGED manifest
       \/ /\ run.cand \in Present
          /\ RecordCandidate(AsRead(run.cand))
          /\ IF run.short
             THEN \E result \in {"held", "failed"} : EndRun(result)
             ELSE pc' = "extend" /\ UNCHANGED <<run, outcome>>
    /\ UNCHANGED <<status, operation, bodyHash, quotes, used, envVars, shown>>

\* Append the next batch of children; its error, if any, is only looked at
\* after the candidate has been read again.
AppendBatch ==
    /\ pc = "extend"
    /\ run.reached < Len(Body)
    /\ pc' = "regrow"
    /\ \/ /\ run.cand \in Present
          /\ quotes' = [quotes EXCEPT ![run.cand] = Append(@, Body[run.reached + 1])]
          /\ UNCHANGED faults
       \/ /\ run.cand \in Present
          /\ Fault
          /\ quotes' = [quotes EXCEPT ![run.cand] = Append(@, Foreign)]
       \/ /\ Fault
          /\ UNCHANGED quotes
       \/ /\ run.cand \notin Present
          /\ UNCHANGED <<quotes, faults>>
    /\ UNCHANGED <<pageVars, used, run, outcome, source, changes, edits, guarded, shown>>

\* The page is listed and the whole candidate compared with the body; the
\* texts listed here serve the deletions that follow.
VerifyCompleted ==
    /\ pc = "extend"
    /\ run.reached >= Len(Body)
    /\ quotes[run.cand] = Body
    /\ run' = [run EXCEPT !.heads = [q \in BlockIds |-> Text(q)]]
    /\ shown' = Body
    /\ pc' = "seal"
    /\ UNCHANGED <<pageVars, quotes, used, outcome, envVars>>

VerifyFailed ==
    /\ pc = "extend"
    /\ run.reached >= Len(Body)
    /\ quotes[run.cand] # Body
    /\ EndRun("held")
    /\ UNCHANGED <<pageVars, quotes, used, envVars, shown>>

\* Its children are requested once more for the final record, and every other
\* quote of the listing must be an old one.
SealCandidate ==
    /\ pc = "seal"
    /\ \/ /\ run.cand \notin Present
          /\ EndRun("failed")
          /\ UNCHANGED manifest
       \/ /\ run.cand \in Present
          /\ RecordCandidate(AsRead(run.cand))
          /\ IF \A q \in BlockIds :
                    run.heads[q] # <<>> => q = run.cand \/ q \in Ids(manifest.o)
             THEN /\ run' = [run EXCEPT !.todo = manifest.o]
                  /\ pc' = "retire"
                  /\ UNCHANGED outcome
             ELSE EndRun("failed")
    /\ UNCHANGED <<status, operation, bodyHash, quotes, used, envVars, shown>>

\* Mutant: compares the text only.
SameText(ref) == run.heads[ref.i] = <<Head(ref.h)>>

\* sync_container_actual_hash_for_expected of an old quote.
ReadsAsRecorded(ref) == AsRead(ref.i) = ref.h

\* Mutants: deletes a candidate that is also an old quote; expects every old
\* quote to be there still.
SkipsAbsent(ref) == run.heads[ref.i] = <<>>
SkipsCandidate(ref) == ref.i = run.cand

OldSkipped(ref) == ref.i = run.cand \/ run.heads[ref.i] = <<>>

\* The old quotes in order: the children of the next one are requested, and it
\* is to be deleted only if it reads as recorded.
CheckOld ==
    /\ pc = "retire"
    /\ run.todo # <<>>
    /\ LET ref == Head(run.todo) IN
       \/ /\ OldSkipped(ref)
          /\ run' = [run EXCEPT !.todo = Tail(@)]
          /\ UNCHANGED <<pc, outcome>>
       \/ /\ ~OldSkipped(ref)
          /\ ref.i \in Present
          /\ ReadsAsRecorded(ref)
          /\ pc' = "delete"
          /\ UNCHANGED <<run, outcome>>
       \/ /\ ~OldSkipped(ref)
          /\ ref.i \in Present
          /\ ~ReadsAsRecorded(ref)
          /\ EndRun("tampered")
       \/ /\ ~OldSkipped(ref)
          /\ ref.i \notin Present
          /\ EndRun("failed")
    /\ UNCHANGED <<pageVars, quotes, used, envVars, shown>>

\* delete_block is a request of its own and looks at nothing; a block that is
\* gone already counts as deleted (404) or is an error.
DeleteOld ==
    /\ pc = "delete"
    /\ LET q == Head(run.todo).i IN
       \/ /\ quotes' = [quotes EXCEPT ![q] = <<>>]
          /\ run' = [run EXCEPT !.todo = Tail(@)]
          /\ pc' = "retire"
          /\ UNCHANGED outcome
       \/ /\ q \notin Present
          /\ EndRun("failed")
          /\ UNCHANGED quotes
    /\ UNCHANGED <<pageVars, used, envVars, shown>>

RetiredAll ==
    /\ pc = "retire"
    /\ run.todo = <<>>
    /\ run' = [run EXCEPT !.wrote = TRUE]
    /\ pc' = "commit"
    /\ UNCHANGED <<pageVars, quotes, used, outcome, envVars, shown>>

-----------------------------------------------------------------------------
(* _apply_item after the body *)

\* One property update confirms operation, body hash and manifest together.
CommitItem ==
    /\ pc = "commit"
    /\ status' = "committed"
    /\ operation' = run.item
    /\ IF run.wrote
       THEN /\ bodyHash' = Body
            /\ manifest' = [s |-> "committed", op |-> run.item, p |-> manifest.p, o |-> <<>>]
       ELSE UNCHANGED <<bodyHash, manifest>>
    /\ pc' = "readback"
    /\ UNCHANGED <<quotes, used, run, outcome, envVars, shown>>

\* verify_committed_item reads page and body once more.
ReadBack ==
    /\ pc = "readback"
    /\ EndRun(IF bodyHash = Body /\ GenerationCurrent THEN "done" ELSE "failed")
    /\ UNCHANGED <<pageVars, quotes, used, envVars, shown>>

\* Deadline, signal, lost response or any other error outside the handlers.
Crash ==
    /\ pc # "idle"
    /\ Fault
    /\ EndRun("failed")
    /\ UNCHANGED <<pageVars, quotes, used, source, changes, edits, guarded, shown>>

-----------------------------------------------------------------------------
(* The environment *)

SourceChanges ==
    /\ changes < MaxChanges
    /\ changes' = changes + 1
    /\ source' \in Items \ {source}
    /\ UNCHANGED <<pageVars, quotes, used, pc, run, outcome, faults, edits, guarded, shown>>

\* What the program cannot see any more before it deletes or records: the text
\* of an old quote since the last listing of the page; the children of an old
\* quote once they were compared, until it is deleted; the children of the
\* candidate between their check and the reading that goes on record.
UnseenText(q) == pc \in {"seal", "retire", "delete"} /\ q # run.cand

UnseenChildren(q) ==
    \/ pc = "delete" /\ q = Head(run.todo).i
    \/ pc \in {"record", "seal"} /\ q = run.cand

\* A person retypes a quote's text, adds a block inside it, adds a quote of
\* their own or removes one.  Edits of recorded quotes are guarded, except
\* the unseen ones.
EditText(q) ==
    /\ q \in Present
    /\ Head(quotes[q]) # Foreign
    /\ quotes' = [quotes EXCEPT ![q] = <<Foreign>> \o Tail(@)]
    /\ guarded' = IF q \in Recorded /\ ~UnseenText(q) THEN guarded \cup {q} ELSE guarded
    /\ UNCHANGED used

EditChildren(q) ==
    /\ q \in Present
    /\ quotes' = [quotes EXCEPT ![q] = Append(@, Foreign)]
    /\ guarded' = IF q \in Recorded /\ ~UnseenChildren(q) THEN guarded \cup {q} ELSE guarded
    /\ UNCHANGED used

AddQuote(q) ==
    /\ q \notin used
    /\ quotes' = [quotes EXCEPT ![q] = <<Foreign>>]
    /\ used' = used \cup {q}
    /\ guarded' = guarded \cup {q}

RemoveQuote(q) ==
    /\ q \in Present
    /\ quotes' = [quotes EXCEPT ![q] = <<>>]
    /\ UNCHANGED <<used, guarded>>

PersonEdits ==
    /\ status # "absent"
    /\ edits < MaxEdits
    /\ edits' = edits + 1
    /\ \E q \in BlockIds : EditText(q) \/ EditChildren(q) \/ AddQuote(q) \/ RemoveQuote(q)
    /\ UNCHANGED <<pageVars, pc, run, outcome, source, faults, changes, shown>>

RunStep ==
    \/ PreflightBlocked \/ ApplyBase \/ DecideSync \/ DecideCurrent
    \/ StageManifest \/ StageRefused
    \/ CandidateFromManifest \/ CandidateFromOldRef \/ CandidateUntracked
    \/ AppendContainer \/ AppendContainerMangled \/ AppendContainerFailed
    \/ FindAppended \/ CheckAppended \/ PersistCandidate \/ RecordPrefix \/ AppendBatch
    \/ VerifyCompleted \/ VerifyFailed \/ SealCandidate
    \/ CheckOld \/ DeleteOld \/ RetiredAll
    \/ CommitItem \/ ReadBack

Next == RunStep \/ Crash \/ SourceChanges \/ PersonEdits

\* Runs are scheduled every twenty minutes and a run that is not stopped
\* goes on; nothing else is promised.
Fairness == WF_vars(RunStep)

Spec == Init /\ [][Next]_vars

FairSpec == Spec /\ Fairness

-----------------------------------------------------------------------------
(* Properties *)

\* A page whose status says committed shows the item's body, the whole of it
\* and nothing else: one quote, which the manifest and BODY_HASH describe.
\* It has to survive every resumed, re-targeted or half-written generation
\* before the commit; a person's edits are out of the run's control.
CommittedIsExact ==
    edits = 0 /\ status = "committed" =>
        /\ manifest.s = "committed"
        /\ manifest.o = <<>>
        /\ bodyHash = BodyOf[operation]
        /\ \E q \in BlockIds :
            /\ Present = {q}
            /\ quotes[q] = bodyHash
            /\ manifest.p = <<[i |-> q, h |-> bodyHash]>>

\* Lost responses, retries and abandoned generations never leave a second
\* quote that no manifest entry accounts for: outside the refs to be deleted
\* there is at most one quote, recorded or not.
OneLiveCandidate ==
    edits = 0 => Cardinality(Present \ Ids(manifest.o)) <= 1

\* README.md:192, scripts/README.md:36: until a new body has been verified the
\* current one stays on the page as it is.
CurrentBodyKept ==
    edits = 0 /\ shown # <<>> => \E q \in BlockIds : quotes[q] = shown

\* No body of the notice is another one with more appended to it.
PrefixFree ==
    \A i, j \in Items : IsPrefix(BodyOf[i], BodyOf[j]) => BodyOf[i] = BodyOf[j]

\* The same promise where the code keeps it: bodies that do not extend each
\* other, so that no old quote is adopted and grown in place.
CurrentBodyKeptUnlessExtended == PrefixFree => CurrentBodyKept

\* No run deletes a quote that holds a person's edit the program had a reading
\* left to find it with, whatever crashed or changed between the edit and the
\* deletion.  Edits that fall between the last reading of a place and the write
\* that rests on it are deleted with their quote: UnseenText and UnseenChildren
\* name these windows (scripts/sync.py:2753, 2823, 2854), nothing else is lost.
GuardedQuotesSurvive ==
    [][RunStep => \A q \in guarded : quotes[q] # <<>> => quotes'[q] # <<>>]_vars

\* Batches are appended once and in order, however often a run was cut between
\* an append and its record, or an append landed without a response: what is
\* not mangled is the beginning of a body.
NoBatchTwice ==
    edits = 0 => \A q \in Present :
        \/ \E k \in DOMAIN quotes[q] : quotes[q][k] = Foreign
        \/ \E i \in Items : IsPrefix(quotes[q], BodyOf[i])

\* What stops a page for good although nobody touched it: an unrecorded quote
\* (blocked), a manifest that would name a block twice (unwritable), an old
\* ref that outgrew its recorded hash (tampered), a candidate that no longer
\* fits the body (held).
Wedged ==
    LET resumed == manifest.s = "pending" /\ manifest.op = source
        old == IF resumed THEN manifest.o ELSE manifest.p \o manifest.o
        part == IF resumed THEN Ids(manifest.p) ELSE {}
    IN  \/ Untracked # {}
        \/ ~Serializable(old)
        \/ \E k \in DOMAIN old :
            /\ old[k].i \in Present \ part
            /\ quotes[old[k].i] # old[k].h
        \/ \E q \in part : ~IsPrefix(quotes[q], BodyOf[source])

\* Every other interruption heals: once the notice stops changing and faults
\* stop, the page ends up committed with the source's item, or wedged in one
\* of the ways above.
Converges == <>[]((status = "committed" /\ operation = source) \/ Wedged)

\* The page as its reader sees it, and the promise about it.
Claimed == IF status = "committed" THEN operation ELSE NoItem

OnDisplay == {BodyOf[i] : i \in Items} \cap {quotes[q] : q \in Present}

Replacement == INSTANCE BodyReplacement WITH claim <- Claimed, display <- OnDisplay

\* The protocol implements make-before-break on pages nobody edits.
ImplementsReplacement == Replacement!Spec
=============================================================================
