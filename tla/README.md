# Verification of the notice-to-Notion synchroniser

The program reads notices from the university's bulletin boards and keeps one
Notion page per notice. A scheduled job runs it every twenty minutes; a job may
be stopped at its deadline, killed, or lose its runner, requests may fail or
take effect without an answer, boards change, and people edit the pages. This
directory holds TLA+ modules of the parts where these things interact, TLC
configurations that check them on small instances, and proofs for instances of
any size. `PROJECT.json` maps every definition to the lines it models and lists
the hazards of the code with the properties that watch them.

## 1. The system

| Component | State it keeps | Operations | What makes it correct |
| --- | --- | --- | --- |
| Body protocol (`sync.py`, `_apply_item` in `sync_engine.py`) | per page: `SYNC_STATUS`, `SYNC_OPERATION`, `BODY_HASH`, the generation manifest, the top-level quotes | stage a manifest, pick or build a candidate quote, append batches, verify, delete old quotes, commit, read back | a committed page shows exactly its body; the old body is not given up before the new one is verified; nothing is appended twice; what people wrote is not deleted; every interruption heals |
| Apply run (`sync_engine.py`, `_apply_report`) | per run: what was read, quarantined sources, observed and held notices | preflight against the pages, quarantine, apply entry by entry, inspect what is still pending | a change of an applied notice needs two consecutive sightings; one failing notice does not stop other sources; nothing pending is forgotten |
| Run state (`run_state.py`) | observed and pending ids, destructive-change candidates, holds, run records, incidents, circuits | load, update from a report, append a record, build and clear incidents | agrees with the pages after any failure; confirmation is measured against the latest run that counts |
| Run lifecycle (`main.py`, `run_lock.py`, `run_control.py`, workflow) | lock, state file, cache | restore, lock, run, checkpoint, persist failure, save | one run at a time; a crash at any point loses no obligation |
| TOP disabling (`sync.py`, `sync_engine.py`) | absence counts, current TOP set | list twice, decide who is eligible, disable one by one | absence confirmed in two runs; limits respected |
| Failure signalling (`run_state.py`, `main.py`) | active incidents | build, mark, clear | a lasting failure is signalled again and again; silence follows a recent signal; a recovery clears it |
| Crawling and fallback (`crawler.py`, `validation.py`) | request budgets, circuits per source and host, the list read so far | read list pages, details twice, list pages again, fall back to HTML, judge completeness, open and close circuits | a list that shifted while it was read is never delivered; a refusal is respected; a circuit never outlives the trouble |
| Refresh policy (`refresh_policy.py`, `main.py`, `run_state.py`) | fingerprint of each row and the time of the last detail reading | choose what is due, with limits; record what was read | no change of a row counts as read that was not; no notice is put off for ever |
| Migration (`migrate_existing_pages.py`) | plan file, attempted pages | plan, two full checks, patch, verify, roll back | a reported success is one; what a failure leaves behind is named; a repeated application ends |
| Notion client (`notion_client.py`) | download budget, host circuits, preflight cache | requests with retries, downloads, uploads | only harmless requests are repeated; limits and refusals are kept; a failed download loses no upload |
| Parsers (`bbs_parser.py`, `utils.py`, `common.py`) | none | HTML to blocks, normalisation | total, stable conversions |
| Settings, logging, TLS | configuration | | |

How they interact: `main` restores the state, asks the crawler for a report,
hands the safe sources to `_apply_report`, which calls `apply_item` per notice;
`apply_item` runs the body protocol and calls back into `main` to checkpoint
the finished notice; at the end `update_state_from_report` folds the counters
into the state, a record is appended, and the workflow saves the state. The
database and the saved state are two memories without a common transaction: most
hard behaviour comes from that.

Hard behaviour, all listed under `hazards`: a request that landed without an
answer; a run that stops between two requests; a notice that changes while its
previous version is half written; quotes listed before and used after they were
edited; sightings that must be consecutive although reruns, dry runs, migrations
and failures come in between; a page that can never be written and what it does
to its neighbours; a state older than the pages; a board that moves while it is
read; two processes on one host; a rollback that fails; a budget that runs out
between two files.

## 2. Modules

| Module | Models | Checked by | Proofs |
| --- | --- | --- | --- |
| `BodyGeneration` | the body protocol on one page, one step per writing request and per reading a later write rests on | `MCBodyGeneration` | `BodyGenerationProofs` |
| `BodyReplacement` | what that protocol promises a reader: replacement is make-before-break | through `BodyGeneration` | `BodyGenerationProofs` |
| `ApplyRun` | consecutive runs over several notices and sources, with the saved state | `MCApplyRun` | `ApplyRunProofs` |
| `ConfirmedChanges` | what those runs promise together: confirmed changes and honest books | through `ApplyRun` | `ApplyRunProofs` |
| `RunLifecycle` | processes on a host: lock, state file, ends of a run, incidents | `MCRunLifecycle` | `RunLifecycleProofs` |
| `SerialRuns` | what those processes promise together: runs that follow one another | through `RunLifecycle` | `RunLifecycleProofs` |
| `TopDisable` | taking the TOP mark of a page away | `MCTopDisable` | `TopDisableProofs` |
| `SourceCrawl` | reading one source while its board changes | `MCSourceCrawl` | `SourceCrawlProofs` |
| `SourceCircuits` | which sources a run may ask, over many runs | `MCSourceCircuits` | `ReadingPolicyProofs` |
| `RefreshPolicy` | which notices a run reads in full, over many runs | `MCRefreshPolicy` | `ReadingPolicyProofs` |
| `MediaTransfer` | downloading files and uploading them into pages | `MCMediaTransfer` | `MediaTransferProofs` |
| `PageMigration` | handing existing pages over to the synchroniser | `MCPageMigration` | `PageMigrationProofs` |

How they fit together. A run is `RunLifecycle` from lock to exit code. In it,
`RefreshPolicy` and `SourceCircuits` decide what is asked of the boards and
`SourceCrawl` reads one of them; `ApplyRun` takes what was read through
preflight, quarantine and confirmation to the pages and back into the state;
`MediaTransfer` is the part of that preflight and application that concerns
files, `BodyGeneration` the writing of one page, and `TopDisable` the end of the
application. Each module keeps of the others what decides its own steps: a
page written by `BodyGeneration` is one step of `ApplyRun` that ends in one of
the states an interrupted write can leave, a run of `RefreshPolicy` applies, notes
or leaves each notice as the environment chooses, a run of `RunLifecycle`
completes some notices and ends well or fails. `MC` modules only give constants
their values.

### BodyGeneration

State: `status`, `operation`, `bodyHash`, `manifest` are the page's properties;
`quotes` maps each block id to the content of the top-level quote, a sequence of
chunks (the quote's text, then one chunk per batch of children); `run` and `pc`
are the locals of `_apply_item` and `sync_page_body_blocks`; `source` is the
item the board serves. `guarded` and `shown` are history variables.

| Code | Actions |
| --- | --- |
| preflight, `untracked_body_recovery_allowed` | `PreflightBlocked`, `ApplyBase` |
| `needs_body_sync` | `DecideSync`, `DecideCurrent` |
| the pending manifest | `StageManifest`, `StageRefused` |
| `candidate_from_manifest`, `candidate_from_old_ref`, untracked candidates | `CandidateFromManifest`, `CandidateFromOldRef`, `CandidateUntracked` |
| appending the container, looking for a lost one | `AppendContainer`, `AppendContainerMangled`, `AppendContainerFailed`, `FindAppended`, `CheckAppended` |
| `persist_candidate` and the batch loop | `PersistCandidate` (check), `RecordPrefix` (read once more and record), `AppendBatch` |
| the last verification, its record | `VerifyCompleted`, `VerifyFailed`, `SealCandidate` |
| comparison of an old quote, its deletion | `CheckOld`, `DeleteOld`, `RetiredAll` |
| commit, `verify_committed_item` | `CommitItem`, `ReadBack` |
| deadline, signal, any other error | `Crash` |
| editors of the board, people on the page | `SourceChanges`, `PersonEdits` |

Abstractions. A hash is the content it is computed from. Generation ids are
dropped: the manifest's operation and state decide whether it is reused. Each
request that writes is a step of its own, and so is each reading a later write
rests on, where a person may come in between: a candidate's children are read to
check them and read again for the hash on record (`run.heads` keeps the text,
which is that of the listing both times), and those of an old quote are read to
compare them before it is deleted. Merged into one step are: the reading that
goes on record and the write of the manifest; preflight, validation and the first
property write; the choice of a candidate and the requests it takes to read the
quotes in question. What a run decides from these it looks at again before it
appends or deletes. Media (see
`MediaTransfer`), attachments, v1 markers, `confirmed_empty` bodies and link
normalisation are not modelled. Manual blocks that are no quotes are never
touched by this code and left out. A page may start absent, or as an older
version of the program left it: pending for its operation, one complete quote,
no manifest.

### ApplyRun

State: `board` is what each board publishes, `page` the status, hash and
resumable draft of each page; `saved`, `disk` and `mem` are the run state in the
Actions cache, in `run-state.json` and in the process; `run` holds the counters
and locals of `main` and `_apply_report`. A version stands for the whole content
of a notice. Writing a page, module `BodyGeneration`, is one step here that
commits the page, leaves it pending (`HoldEntry`), or is cut short by the end of
the run in any of the states an interrupted write can leave (`Interrupted`).

`ConfirmedChanges` says what a reader of the pages and the next run may rely on,
without checkpoints, quarantines, holds, alarms or the three copies of the state: a
page changes to what its board publishes, either from nothing, or because the
latest recorded run noted that change and a run that is not its repetition finds
it again; each noted change is used once; a version counts as read only if it is
shown or its notice is owed another reading; and a notice stops being owed one
only when its page shows what counts. `ImplementsChanges` states that the runs
implement it, with `body` the hashes of the pages, `counted` and `owed` from the
saved state, and `noted` what the latest recorded run saw as long as the page is
as it was then (`Standing`). Every end of a run, with a record, without one, in
the middle of a page or with its state lost, is one step `End`; everything
between two writes of a page is invisible.

| Code | Actions |
| --- | --- |
| `refresh_destination_pending_notice_state` | `StartRun` |
| `collect_report`, `pending_shrink_ids`, refresh policy, `targeted_refresh_missing` | `Collect` |
| `resolve_destination_preflight`, `pending_quarantined_sources` | `Preflight` |
| the entry loop of `_apply_report` with `checkpoint_completed_notice` | `ObserveEntry`, `CompleteEntry`, `HoldEntry` |
| remaining pages, holds, `update_state_from_report`, `append_run_record`, incidents | `FinishRun`, `FinishUnread` |
| `persist_failed_run`, before and after the record | `Fail`, `FailRecorded` |
| a killed process; a runner lost before the cache is saved | `Kill`; `lost` in `EndJob` |
| schema migration, dry run | `SchemaRun`, `DryRun` |
| boards, the confirmation window | `ChangeBoard`, `Expire` |

Abstractions. The code compares the execution and logical ids stored with an
observation to those of the latest run that was no dry run, and never to any
other; so the model keeps the set of observations that carry the latest identity
(`recent`, `heldRecently`) and whether the current run is a rerun of that logical
run. `read` stands for the observed ids and `notice_refresh_state`, whose rows
and times are in `RefreshPolicy`. `alarm` means that an incident is active; a
failed last record always comes with one. A board changes between runs: a run
reads a notice once (two equal readings), so a change during a run is one before
or after. The preservation limits (20 details per run, 1,000 pending notices,
5,000 candidates, 100 records) are not reached; complete list snapshots that
forget old observed ids are left out; circuits and TOP marks are in modules of
their own. An exception inside `update_state_from_report` is taken as one before
or after it. `witness` is a history variable: what the latest recorded run itself
saw.

### RunLifecycle

State: `lock` is the holder of `run.lock`, `disk` the state file, `mem` the state
each process has loaded, `run` and `pc` its locals; `signalled` is a history
variable, the age of the last signal of each cause.

| Code | Actions |
| --- | --- |
| `main` up to the lock, `exclusive_run_lock` | `Start`, `TakeLock`, `LockBusy`, `Release` |
| `load_run_state` | `LoadState` |
| `checkpoint_completed_notice`, `write_run_state_atomic` | `CompleteNotice` |
| the end of a run that went well, `clear_active_incidents` | `Succeed`, `SucceedWithoutSync` (dry run, schema migration) |
| `build_incident`, `should_deduplicate_scheduled_failure_notice`, `mark_failure_signaled` at the end of a run | `ReportFailure`, `SignalFailure` |
| `persist_failed_run` | `Raise`, `RaiseUnrecorded` |
| a stop signal, a lost process; the clock | `Kill`; `Tick` |

Abstractions. What a run does between loading and recording is `ApplyRun`; here
`done` stands for what it has recorded. The clock counts up to the repeat
interval. When 100 incidents are active, `build_incident` raises
(`run_state.py:1771`) inside `persist_failed_run`, so the state is not written at
all: `RaiseUnrecorded`. A second stop signal, the time limit of a run and a state
file that does not parse are left out.

`SerialRuns` has no lock, no copies and no file: one book, and runs on it that follow
one another, complete notices, note a failure, announce it or pass over one that
repeats. `ImplementsSerialRuns` states that the processes implement it, with `book`
the state file and `stage` and `cause` those of the process that holds the lock and
has loaded the state. It is what lets `ApplyRun`, `TopDisable` and the other modules
about consecutive runs have a single process.

### TopDisable

State: `board` says whether each notice is listed with the mark, without it, or
not reached; `marked` and `other` are the pages' TOP mark and their other
fingerprinted properties; `saved` keeps the absences, which of them carry the
latest identity (`fresh`), and a history of what the latest recorded run saw
(`witness`); `run` holds the listings of the source at hand.

| Code | Actions |
| --- | --- |
| crawl, `current_top_notice_ids`; entries with `should_preserve_existing_top` | `StartRun`, `ApplyEntries` |
| the loop at the end of `_apply_report` | `SkipSource`, `FirstListing`, `SecondListing`, `NextSource` |
| `top_disable_eligible_ids`, `validate_top_disable_candidates` | `Eligible`, `TooMany` in `FirstListing` |
| `disable_missing_top`, `verify_top_disabled` | `ThirdListing`, `RetrievePage`, `Unmark`, `VerifyUnmarked` |
| `update_state_from_report`, `persist_failed_run` | `FinishRun`, `Fail` |
| a killed process, other runs, the confirmation window, boards and people | `Kill`, `OtherRun`, `Expire`, `ChangeBoard`, `PersonEdits` |

Abstractions. Every notice has a managed page. A page that changes between two
listings fails the run, as in the code. A source over the limit fails the run as
well (`sync_engine.py:2823`): the sources after it are not treated and their
absences not recorded, so nothing is taken from them while that lasts
(`Overloaded` in `MarksConverge`).

### SourceCrawl

State: `board` is the list, TOP notices first, and `body` the contents, both changing
between any two requests; `setting` is how the site answers and what the crawl
plans; `crawl` holds the locals of the method at work. `crawl.middle` and
`crawl.returned` are history: the board at the end of the first pass, and whether
a page changed and came back since it was read.

| Code | Actions |
| --- | --- |
| `crawl_top_items_api_result`: list pages, an empty page looked at twice, entries | `ReadApiPage`, `ConfirmApiEmpty`, `EndApiPage`, `TakeEntry` |
| `fetch_bbs_detail` twice, `fetch_detail_metadata_with_html_fallback` | `ReadApiDetail`, `ConfirmApiDetail`, `SupplementApiDetail` |
| the second pass over the list pages | `VerifyApiPage`, `VerifyFallbackPage` |
| `crawl_fallback_with_fetchers`, by browser or plain HTTP | `ReadFallbackPage`, `ConfirmFallbackEmpty`, `EndFallbackPage`, `ReadFallbackDetail`, `ConfirmFallbackDetail` |
| failures of a request, refusals, `SourceRequestBudget`; the next method | `ApiListFails`, `BrowserListFails`, `BrowserDetailFails`, `HttpListFails`, `HttpDetailFails`, `ApiDetailRefused`, `BudgetSpent`; `GiveUp` |
| editors | `ChangeBoard`, `ChangeBody` |

Abstractions. Budgets are not counted: they end a crawl at any request. The
refresh policy is always enabled in production, so the endings of an incremental
checkpoint are dead code and left out; `INCLUDE_NON_TOP` is 1 and
`NON_TOP_MAX_PAGES` is 0, as in the workflow. A row is an id, a mark and a title;
a content is missing, a bare text or a full one. The shape checks of rows and the
count collapse check (`validation.py:132`) are left out. What must be read is part
of what is due (`SettingsAssumption`; the code intersects the two,
`crawler.py:2034`). `OneSnapshot` excepts a page that changed and changed back
before it was read again: no client can see that. `RestingBoardIsRead` excepts a
board that lists a notice twice (`ListedOnce`), which the crawl may take for one
that moved.

### SourceCircuits

State: `saved` keeps per source the consecutive fallback failures, the time a
fallback or a source stays closed off and whether that is for the host; `run`
holds the results so far. `banned` and `read` are history.

| Code | Actions |
| --- | --- |
| `crawl_sources` | `StartRun`, `SkipSource`, `AskSource` |
| `SogangSourceAdapter._crawl_active`, `crawl_top_items_playwright_result` | `AskApi`, `AskBrowser`, `AskHttp` |
| `update_state_from_report` | `EndRun` |
| a run that fails after the crawl or is lost | `LoseRun` |

Abstractions. All sources are on one host, as in the configuration. Times are
counted in runs; a hasty run is one within the same hour. A run that fails after the
crawl does not save the circuits it opened. A method may be refused at a first
or at a confirming reading (`confirming`), and `is_host_wide_access_block` knows a
refusal of the host by its error alone. `WordsLost` says where the error is
replaced: the second pass over the API's list pages, the second looks of a
fallback at a list, a detail or an empty page, and plain HTTP after a failed
browser. `Noticed` is what the run then sees: its category stays, so the source
refused, and the host did not (section 4). Those of the API's details are passed on
as they are. A challenge that no parser recognises is an ordinary failure
(`"other"`). `run.refused` is history: a refusal that reached the run in its own
words.

### RefreshPolicy

State: `row` is what the list of one source shows of each notice now, `age` how
old the notice is; `saved` keeps the observed and pending ids, the noted changes
(`shrink_candidates`) and `notice_refresh_state`: the recorded row, whether the
details were read, and the time since; `run` is what a run has read. `shown` and
`astray` are history: the row of the last version applied, and the notices whose
recorded row the state has lost.

| Code | Actions |
| --- | --- |
| the plan in `collect_report`: `pending_notice_ids`, `pending_shrink_ids`, `select_due_notice_ids` | `Targeted`, `Mandatory`, `Due`, `DueEarlier`, `Scheduled` |
| the choice for each row in `crawl_top_items_api_result` | `Changed`, `UnknownTop`, `UnknownRecent` in `Collect` |
| a source that is not read safely | `NotRead` |
| `checkpoint_completed_notice`, `update_state_from_report` with a complete list | `Finish` |
| `pending_quarantined_sources`; `preserve_failed_report_notice_ids`; a kill | `Quarantine`; `Fail`; `Kill` |
| boards and time | `ChangeRow`, `GrowOlder`, `Later` |

Abstractions. One source, with a list of more than one page, so observed ids only
grow. Age only grows, and a change of a date does not make a notice younger.
Which pages are found pending is the environment's choice. The clock, counted in
runs, rests while all timed notices are overdue: time would then change neither
which are due nor their order; `Horizon` is the longest wait, a bound that the
type invariant checks. Recovery ids given by hand and a state lost whole (no
known ids) are left out. What `EveryRowIsRead` excepts is named: `LeftAlone` (new
notices older than a month, `README.md:8`), `Unreadable` (a pending notice off the
list, or an empty list), `Crowded` (noted changes of notices that left the list
are never removed, `run_state.py:1417-1465`, and keep their places in
`pending_shrink_ids`: 20 of them stop all other scheduled refreshes), and
`astray` notices older than a month (section 4).

### MediaTransfer

State: `source` is what each address serves, `page` the uploads and links each
page shows, `wiped` the pages whose body a person deleted; `saved` keeps the
pending notices and the noted changes; `run` holds the download policy (requests
sent, retries left, hosts closed off, time up), the preflight cache, the notices
left to inspect (`todo`, in the order of the list) and to apply, and the plan of
each. `run.sent` (requests per host), `run.again` and `run.refusing` are history.

| Code | Actions |
| --- | --- |
| `_apply_report`, `external_download_run_scope` | `StartRun`, `EndRun` |
| `resolve_destination_preflight`, `inspect_existing_uploaded_media_blocks` | `InspectPage`, `PlanItem` |
| `_download_file_bytes_with_policy` with `ExternalDownloadRunPolicy` | `SkipFile`, `WithholdFile`, `ReceiveFile`, `MissFile`, `RefuseFile`, `FailFile`, `RunOutOfTime` |
| `ValidatedExternalRedirectHandler` | `StayAtRedirect`, `Reachable` |
| two-run confirmation of a changed file | `NoteItem` |
| `_apply_item`, `prepare_body_blocks_for_sync`, `upload_external_file_to_notion` | `ApplyItem`, `AbortRun` |
| `persist_failed_run`, a kill | `FailRun`, `KillRun` |
| file servers and people | `ChangeFile`, `WipeBody` |

Abstractions. Upload ids matter only for equality; whether an upload made earlier
in the run is still there to be used again is a choice. Attachments, deduplicated by
address, take the same path as files of the body. A change counts as confirmed if
the latest run noted it (`seen`); `ApplyRun` has the whole rule. Reading a notice
without need while others must be read costs a fault. A page is written in one
step; quarantine, edits inside managed quotes and failures to write a page are in
the other modules. A file is valid or not. The policy's `open_circuit` is never
called by the program, so the incident summary of external downloads is always
empty; the circuits modelled are those per host. The retry comment at
`notion_client.py:3536` describes a path that can no longer be taken.
Exceptions named in the properties: `Oversized` (a file the workspace does not
take makes every run fail at its notice), `Repeats` (section 4), and in
`UploadsKept` a site that answers 200 with bytes that are no valid file, which
replaces an upload by a link. `UploadsKept` follows an upload to another place of
the page: when a notice shows a file twice, the upload of the second place may be
kept in the first, and the second gets a link. A notice that shows more files than a run may
request is never served; the instance has none.

### PageMigration

State: `page` with content, metadata and trash flag; `scope` says how the database
changed as a whole; `plan` is the plan file; `run` the pages seen, attempted and
named in the error. `written`, `disturbed` and `unseen` are history.

| Code | Actions |
| --- | --- |
| `build_migration_plan` | `MakePlan` |
| `_full_preflight`, twice | `QueryPages`, `CheckEntry`, `Checked` |
| the loop of `apply_migration_plan`: one more look, `_patch_properties`, `_verify_applied` | `LookAgain`, `Patch`, `Verify`, `Finish` |
| `_rollback_properties` | `UndoEntry`, `ClearEntry`, `VerifyCleared`, `Fail` |
| a stop signal; the tool started again | `Kill`; `StartApply` |
| people | `EditPage`, `EditDatabase` |

Abstractions. A request fails before or after it took effect; one that lands
after the tool has moved on is left out. Edits count from the plan on. "All or
nothing" is a matter of one application: a killed one leaves its pages to the
next. A look at a page is several requests and one step here, so `unseen`, which
`DoneMeansApplied` excepts, are the pages edited since the tool's last look at them
began. An edit between the last look and the patch is found by `Verify`. A patch
or a clearing that meets somebody else's metadata overwrites all of it here. The
checks of the schema are one guard (`Scopes`), taken together with the query of
the pages that opens the first preflight; they are not repeated for the second.

## 3. Runs

| Run | Instance | Result |
| --- | --- | --- |
| `body_replacement` | three items (two share a body, three chunks and two chunks), four block ids, two faults, two source changes, no edits | types; `CommittedIsExact`; `OneLiveCandidate`; `CurrentBodyKeptUnlessExtended`; `NoBatchTwice`; the refinement `ImplementsReplacement`; `Converges` |
| `body_edits` | the same with one fault, one source change and two edits | `GuardedQuotesSurvive` |
| `apply_safety` | two notices of one source, one with a version that never reads back; two board changes, two faults | types; `PendingRemembered`; `ConfirmedTwice`; the refinement `ImplementsChanges`, which implies `ReadIsServed` (section 5) |
| `apply_live` | three notices on two sources, one such version, one board change, one fault | `Converges` |
| `lifecycle` | two processes, one notice, three causes, a repeat interval of two ticks, two incidents at most | types; the refinement `ImplementsSerialRuns`, which implies `ProgressKept` (section 5); `QuietOnlyAfterSignal`; `SignalsGoOn` |
| `top_disable` | three notices on two sources, at most one mark per run and half of two or more, one board change, one fault, one edit | types; `LimitRespected`; `AbsentTwiceOrListed`; `MarksConverge` |
| `crawl` | three notices, three boards, three ways of the site and the crawl, at most three pages, two changes, one fault | types; `OneSnapshot`; `ItemsFit`; `RestingBoardIsRead` |
| `circuits` | two sources, two failures to open, cooldown of three runs, five faults | types; `RefusalRespected`; `SourcesComeBack` |
| `refresh` | two notices, two rows one of which is TOP, one place of each kind in a run, intervals of one and two runs, two changes, one fault | types with the longest wait; `RecordedIsShown`; `EveryRowIsRead` |
| `media` | two notices that share a file, a second file behind a redirect to the same host, three requests a run, one retry, one changed file, two faults | types; `WithinBudget`; `RefusalsKept`; `UploadsKept`; `MediaArrive` |
| `migration` | two pages, two contents one of which cannot be handed over, two edits, two faults | types; `LeftoversAreNamed`; `DoneMeansApplied`; `Completes` |
| `shown_twice` | one notice that shows its only file twice, one changed file, no fault | `ChangedMediaApplied` is violated: section 4 |

Bounds. A body of three chunks needs a container request and one more batch,
the least that can be cut in the middle. Two faults allow a lost answer followed
by a crash, or two crashes of the same generation; two source changes allow a
generation to be abandoned twice. Four ids are enough for every behaviour
within these bounds: the ids never run out. In `ApplyRun` every unusual event (failure,
kill, lost runner, rerun, expiry, deferred media, unsafe crawl, migration, dry
run) costs one fault, so two faults cover each ordered pair of them. Two notices
of one source show how one gets in the other's way; the third, on a second
source, shows that it does not get further. In `TopDisable` the limits are scaled
down with the pages, so that one page more or less decides; the second source
shows what the first does to it. In `SourceCrawl` two changes let a page change and
come back, or a row move to a page already read; three notices fill pages of one
and of two rows. Five faults of `SourceCircuits` open a fallback circuit of one
source and a refusal of the host in the same history. In `RefreshPolicy` two
notices compete for one place of every kind; two changes let a notice leave and
come back with another row. A run of `MediaTransfer` that reads both notices would
need four requests and may send three, so it leaves something over. In
`PageMigration` two faults let the rollback of a failed patch fail too.
`CHECK_DEADLOCK` is off for `crawl`, which ends, and `migration`, whose tool is not
started again after a success.

Fairness. Jobs are scheduled for ever (three cron entries in `crawler.yml`) and a
run that is not stopped goes on: `WF(RunStep)` in `BodyGeneration`, `TopDisable`,
`SourceCircuits` and `RefreshPolicy`, `WF(ToolStep)` in `PageMigration` for an
operator who tries again, `WF(Tick)` and `WF(Step(p))` in `RunLifecycle` (time
passes, and a process goes on or is killed). `ApplyRun` assumes in addition, for
each notice, `SF` of a collection that reads everything readable and has this
notice among those due; `MediaTransfer` assumes `WF` of starting a run and the
same `SF` per notice. Both rest on the refresh policy, which picks each notice of
the last month again within a bounded time: that is what `EveryRowIsRead` and the
bound on waiting in run `refresh` show. Nothing is assumed of boards, people, sites
or faults, whose number is bounded.

What convergence leaves out is named in the properties. For a page: `Wedged`, the
states from which no run gets on. For a source: a pending notice taken off its
board (`Stuck`; the crawl then fails with `targeted_refresh_missing`), a notice
that never reads back (`Troubled`), two pending pages at once (`Entangled`). For
TOP marks `Overloaded`, for rows `Unreadable`, `Crowded` and `astray`, for files
`Oversized` and `Repeats`.

## 4. Where the code does not do what is said of it

Run `shown_twice` checks a sentence of the documentation, and TLC finds it
violated. "A change of an applied notice is applied after two consecutive runs
saw it" (`README.md:193`), but not if the notice shows one image twice: the parser
keeps both (`bbs_parser.py:441`), the upload is made once and its id used twice
(`notion_client.py:2857`), the media state records it twice, and the next
inspection takes a repeated id for a broken state (`sync.py:1148`). Every later run
puts the notice off, and no change of it is applied any more.

While the models were written, further behaviours came to light that differ from
what is said of the program. The properties except them by name, so that what they
say of everything else can be checked; no run asserts the sentence itself.

| Source | Said | What happens | Excepted by |
| --- | --- | --- | --- |
| `crawler.py:5491` | a refusal on one source opens the circuit of the host (`tests/test_crawler_regressions.py:1565`) | a refusal that plain HTTP meets after a failed browser gets the browser's error appended, is no longer recognised (`crawler.py:3242`), and the other source is asked in the same run | `WordsLost` in `SourceCircuits` |
| `crawler.py:2753`, `4280`, `4470`, `4624` | the same | a refusal met by a confirming reading of the API's list, or of an empty page, a detail or a list of a fallback, becomes `api_snapshot_changed`, `fallback_empty_confirmation_mismatch`, `fallback_detail_unstable` or `fallback_snapshot_changed`: the same follows | `WordsLost` in `SourceCircuits` |
| `run_state.py:1166` | a notice older than 31 days is read again when its title, date or TOP mark changes (`README.md:9`) | a complete list drops the state of a notice that is not on it; if it comes back changed, the new row is recorded as the known one and never read | `astray` |
| `sync.py:2781` | "the existing body was changed right before replacement" is raised when it was | the length of a batch is recorded after the batch; if the run dies in between and the notice then changes, the quote is an old ref that no longer matches its hash, and every later run raises this on an untouched page | `Wedged` |
| `sync.py:2595` | a waiting notice is checked again by the next run | an old quote adopted as candidate stays among the old refs; if the notice changes again, the next manifest would name it twice and is refused for ever | `Wedged` |
| `sync.py:2862` | a failure before the new body is verified leaves the current body as it is | when the new body extends the current one, a resumed run appends to the current quote | `PrefixFree` |
| `sync.py:2854` | the body is checked again right before it is replaced | the text of an old quote is the one listed before the deletions, and its children are compared by one request and deleted by another (`sync.py:2862`): an edit in between is deleted | `UnseenText`, `UnseenChildren` |
| `sync.py:2753`, `2823` | the same | a candidate's children are read to check them and once more to record their hash: what a person adds in between goes on record as the program's own; if the notice then changes, nothing tells it from an old quote, and it is deleted | `UnseenChildren` |
| `sync_engine.py:2199` | a waiting notice that still waits after the next run marks that run as failed | after a hold the next run asks for a confirmation again, so the reason alternates and no hold is ever a repeated one | `Troubled` |
| `sync_engine.py:2430` | only that notice waits, the others keep being applied | the same alternation quarantines the source in every second run: no other applied notice of the source is seen in two consecutive runs | `Troubled` |
| `sync_engine.py:2534` | a change seen in two consecutive runs is applied | of two pending pages the confirmed one is not noted again while the other waits; its sighting goes stale and the two swap roles in every run | `Entangled` |

The rows from `run_state.py:1166` on were also reproduced with the program's own
functions, on an in-memory double of the database or on a state alone, except for
edits of children that fall between two requests. These and the two rows about
refusals are read from the code.

Two remarks on code that no run reaches: `validate_crawl_result` makes every empty
source a fatal `unexpected_empty_source` (`validation.py:119-131`), so the counting
of consecutive empty runs (`run_state.py:1087-1230`) is never used; and the limits
on active incidents and on preserved ids end a run after its pages were written
(`run_state.py:1771`, `run_state.py:1125`).

## 5. Proofs

All proofs are for any constants that satisfy the named assumptions, so for any
number of notices, pages, processes, sources, bodies, faults, changes and edits.
Each follows the same pattern: an inductive invariant that TLC checked first,
initially true, preserved by every action, and the property from it.

- `BodyGenerationProofs!TypeCorrect`: the types. The inductive invariant adds to
  `TypeOK` that a run beyond `idle` has an item and, from `check` on, a candidate.
- `BodyGenerationProofs!CommittedIsAlwaysExact`. The status alone says nothing about
  the steps that lead to the commit, so the invariant follows a generation:
  while a run writes, the page is pending (`PagePending`); from the verification to
  the commit the candidate is complete and recorded (`CandidateComplete`,
  `CommitRepeats`); a committed manifest and a committed status describe the
  page's only quote (`ManifestExact`, `StatusExact`).
- `BodyGenerationProofs!EditsAreNeverDeleted`. It is about edits the program had a
  reading left to find them with; those in the windows `UnseenText` and
  `UnseenChildren` are excepted. An edited quote is only safe if its
  recorded hash differs from what it shows now. The invariant says so
  (`EditsShow`), and keeps it from being re-recorded: recorded hashes never run
  ahead of the content (`RecordsBehind`), ids are used once (`IdsUsed`), a fresh
  candidate is not edited (`FreshCandidate`), one that was just found to fit can only
  count as edited in its text, which its record then lacks (`CandidateWatched`), edited
  quotes stay listed (`EditsListed`). The old quote that was compared and comes to be deleted is
  not edited (`TodoUnedited`).
- `BodyGenerationProofs!OneQuoteBeside`, `BatchesOnce`, `BodyKept`, for pages
  nobody edits (`MaxEdits = 0`). One invariant carries them: ids are used once
  (`IdsGiven`), the quotes besides the old ones are none or the candidate
  (`NothingBeside`, `OneBeside`), a quote that is about to grow was measured as it is
  (`Measured`), what was verified last is a body (`ShownIsBody`).
- `BodyGenerationProofs!ProtocolReplaces`: the body protocol implements
  `BodyReplacement`, for bodies that do not extend each other (`PrefixFree`). Each
  step publishes, retires, claims or withdraws on the abstract page, or leaves it
  alone.
- `ApplyRunProofs!TypeCorrect`: the types.
- `ApplyRunProofs!ReadIsAlwaysServed`. Three states and the pages move at
  different times, and any of the three may be the one that survives. The
  invariant `RunInv` states the property of each (`Accounted`); it is preserved
  because all three carry the same candidates during a run (`CandidatesAgree`),
  so a page is only rewritten under a candidate that every surviving state
  still remembers. `ReadsAccounted` follows what was read from preflight to the
  record.
- `ApplyRunProofs!ChangesAreConfirmedTwice`, from `SightingsAreTrue` (what can
  confirm is what the latest recorded run saw) and `EntriesCompared` (the change
  noted at preflight is still the change at the write).
- `ApplyRunProofs!PendingAlwaysRemembered`.
- `ApplyRunProofs!RunsImplementChanges`: the runs implement `ConfirmedChanges`. The
  abstract steps relate what was saved before the run to the board, the pages and
  what the run leaves, so the invariant `CInv` says how these belong together: a
  state of the running job forgets, of the pending notices, only those that are
  done, and has read only what was saved or is on the board (`Follows`); what is done
  is on its page and no longer to be written (`DoneWritten`); what was seen is a change
  from a page that differs to what was read, and what was read is the board's
  (`SawChanges`, `ReadFromBoard`); all three states carry the witness of the saved one
  (`WitnessesAgree`). One lemma, `EndOfJob`, covers the five ways a run ends: whatever
  was written of the current entry (`Writes`) and whichever state survives, the books
  stay honest. `PromiseServes` then derives `ReadIsServed` from `ConfirmedChanges`
  alone, so the abstract specification is no weaker than the invariant it replaces
  in the run.
- `RunLifecycleProofs!TypeCorrect`, `NothingDoneIsUndone`, `SilenceFollowsASignal`.
  A write is harmless because only the holder of the lock writes (`HoldsLock`), and
  what it has in memory is what is on disk (`UpToDate`); the ages the file keeps are
  those of the signals that were given (`AgesTrue`).
- `RunLifecycleProofs!ProcessesAreSerial`, from the same invariant: the processes
  implement `SerialRuns`. A run begins where its process loads the state, since
  what is loaded stays what is on disk until that process writes (`UpToDate`); it ends
  with the last write, with a kill, or without a record. `SerialRunsKeepProgress`
  derives `ProgressKept` from `SerialRuns` alone.
- `ReadingPolicyProofs!TypeCorrect`, `RefusalsAreRespected`. A refusal that still
  holds is in the circuit of a source for as long as it lasts (`Remembered`) and so
  blocks the run that follows (`Blocked`, `Unblocked`); each source is done once
  (`Once`), so a refusal whose words reached the run (`WordsLost` names the others)
  stands in its results until they are saved (`Evidence`), and a run under a ban has
  only skipped sources (`Skipped`).
- `TopDisableProofs!TypeCorrect`, `NeverTooMany`, `AbsencesAreConfirmed`. What has
  been taken is a part of what was eligible (`OnlyEligible`), which was within the
  limit of the pages first listed (`WithinLimit`); eligibility is justified by this
  run and the latest recorded one (`EligibleJustified`, `AbsencesSeen`,
  `MissingSeen`), and a source is treated once (`Treated`, `NothingLeft`).
- `ReadingPolicyProofs!NoChangeIsMissed` (`RecordedIsShown` of `RefreshPolicy`).
  What was read was on the list the run saw (`ReadListed`), and whatever counts as
  read in full has a recorded row (`DetailedRecorded`): so a checkpoint, a merge, a
  quarantine and a failure each replace a row only by that of the version they
  apply, or leave the notice pending.
- `PageMigrationProofs!FailureNamesLeftovers`. Metadata the application wrote is on
  pages still among its attempts or already named as failures (`WrittenTracked`); it
  shows there, so a page read without it can be crossed off (`WrittenShows`); and
  nothing is written before the checks (`WrittenLate`).
- `PageMigrationProofs!Types`, `SuccessMeansApplied` (`DoneMeansApplied`). Both need
  that no page is attempted twice: a page leaves those to be treated before it can be
  attempted again (`Attempting`), which also bounds the attempts. A page the tool has
  finished with was seen with its metadata (`Handled`), and without a plan nothing
  succeeds (`Unplanned`).
- `SourceCrawlProofs!Types`. A row is in hand while its details are read
  (`Holding`).
- `SourceCrawlProofs!DeliveredAsItStood` (`OneSnapshot`). During the first pass a
  page that has not changed since it was read is still shown (`Tracked`), and the
  view in hand is one of the board as it is (`InHand`). When the pass ends the board
  is remembered, and the second pass extends, page by page, the pages known to have
  been shown by that one board (`Middle`); at the end these are all, and behind them
  was nothing.
- `SourceCrawlProofs!DeliveredFits` (`ItemsFit`). Each row of a page read is either
  still to come, or has an item, or was left out for good (`Treated`); the limit of
  new notices only gets fuller, so what was left out stays so. Items read in full fit
  their rows (`Fits`) unless the crawl knows that some did not (`Sound`).
- `SourceCrawlProofs!RestIsDelivered` (`RestingBoardIsRead`). While nothing changes
  and nothing fails, and the board can be read (`Readable`), no step leads off the
  track: rows read are treated or come, once each (`Rowwise`); pages are full up to
  the last, behind which an empty one ends the list (`Pagewise`); no detail fails and
  no fallback is needed (`Flawless`). The lemmas are about how the site cuts lists
  into pages: the pages before an empty one show the whole list, no two of them show
  the same unmarked notices, and the totals the API gives agree with what was read.
- `MediaTransferProofs!Types`, `BudgetIsKept`, `RefusingHostIsLeft`, `NoUploadIsLost`.
  One invariant carries all four: a host that refused is closed off, and none is
  asked more often than all (`Counts`); a retry is only left for a host that is open
  (`Where`); a notice left to apply could be looked up and was not put off
  (`Planned`); a file is only withheld once downloads have stopped (`Halted`). That
  a run never asks for a file again while it applies is a matter of counting: for
  each file the cache holds an entry for every place that is still to be written
  (`Stock`). `NoUploadIsLost` rests on a lemma about the operator `Kept`: there
  is an assignment of uploads to places, place after place, in which a place is left
  without one only if no upload of its file is free.

Two proof attempts corrected a model. `UploadsKept` once asked that an upload stay
in its place, which fails for a notice that shows a file twice. `RestingBoardIsRead`
did not except boards that list a notice twice, and left open that a notice must be
read without being due, which the program does not ask. The instances had neither.

Model-checked only. Liveness under fairness is out of the prover's reach: all
convergence properties (`Converges`, `SignalsGoOn`, `MarksConverge`,
`SourcesComeBack`, `EveryRowIsRead`, `MediaArrive`, `Completes`). `TypeOK` of
`RefreshPolicy` says besides the types how long a notice waits at most, and that
depends on the limits and the number of notices of the instance; the types of its
variables are part of the invariant behind `NoChangeIsMissed`. Every other invariant
and action property of a passing run is a theorem.

## 6. Not modelled, and what is left

- Parsers (`bbs_parser.py`, `utils.py`, `common.py`): sequential conversions of
  HTML without state; the models take their results as given.
- Settings, logging, TLS, build scripts: configuration and input or output.
- Notion's own retry loop and rate limit, the destination schema and the property
  conversions; a request here fails, or lands with or without an answer.
- The limits on what a state preserves (100 records, 1,000 and 5,000 ids): an
  instance large enough to reach them is out of TLC's reach.
- The link between `BodyGeneration` and `ApplyRun`: that a run of the body protocol
  changes status, hash and draft of its page as `CompleteEntry`, `HoldEntry` or
  `Interrupted` say is argued in section 2 and not stated as a refinement, because
  `ApplyRun` gives each version a hash of its own and the bodies of two items of
  `BodyGeneration` may be equal.
