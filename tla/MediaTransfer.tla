----------------------------- MODULE MediaTransfer -----------------------------
(***************************************************************************)
(* How the files that notices show get into Notion.  A run first downloads *)
(* every file of every notice it read (resolve_destination_preflight),     *)
(* keeps the bytes in a cache and derives from them what each page should  *)
(* show; then it applies the notices one by one from that cache, keeping   *)
(* an earlier upload of the same bytes or uploading anew (_apply_item).    *)
(* Downloads are limited per run and stop per host.                        *)
(*                                                                         *)
(* A page is its uploaded or linked files; how the body around them is     *)
(* written is BodyGeneration, and how runs follow each other is ApplyRun.  *)
(***************************************************************************)
EXTENDS Naturals, Sequences, FiniteSets, SequencesExt, FiniteSetsExt, Functions

CONSTANTS
    Notices,
    Files,       \* the addresses of the files
    Hosts,       \* the hosts files are downloaded from
    HostOf,      \* the host of a file's address
    ServedBy,    \* the host its address leads to, after a redirect
    Order,       \* the notices as the crawl lists them
    Shows,       \* the files each notice shows, in order
    Versions,    \* contents that are valid files
    Initially,   \* the first content of each file
    Refused,     \* <<file, version>> the workspace does not take, being too large
    Cap,         \* EXTERNAL_DOWNLOAD_MAX_REQUESTS
    MaxRetries,  \* EXTERNAL_FETCH_MAX_RETRIES
    MaxIds,      \* bound on the uploads told apart
    MaxChanges,  \* bound on the changes of files
    MaxFaults    \* bound on failures, edits, and readings without need

ASSUME NoticesAssumption ==
    IsFiniteSet(Notices) /\ Order \in Seq(Notices) /\ Range(Order) = Notices
ASSUME ShowsAssumption == Shows \in [Notices -> Seq(Files)]
ASSUME InitiallyAssumption == Initially \in [Files -> Versions]
ASSUME HostsAssumption == HostOf \in [Files -> Hosts] /\ ServedBy \in [Files -> Hosts]
ASSUME LimitsAssumption == {Cap, MaxRetries, MaxIds, MaxChanges, MaxFaults} \subseteq Nat

VARIABLES
    source,   \* what each address serves
    page,     \* what each notice's page shows
    wiped,    \* pages whose body a person has deleted
    saved,    \* the state kept between runs
    run,
    pc,
    changes,
    faults

vars == <<source, page, wiped, saved, run, pc, changes, faults>>

-----------------------------------------------------------------------------
\* Types

Junk == "junk"          \* bytes that are not a valid file
None == "none"          \* the download failed
Withheld == "withheld"  \* it was not made, or failed, with downloads stopped
Link == "link"          \* the page links to the file instead of holding it
NoPage == <<>>
NoChange == <<>>

ASSUME VersionsAssumption == Versions \cap {Junk, None, Withheld, Link} = {}

Bytes == Versions \cup {Junk}
Shown == Versions \cup {Link}

Uploads == [file : Files, sha : Versions, id : 1..MaxIds]
LinkSlot == [sha |-> Link, id |-> 0]
Slots == [sha : Versions, id : 1..MaxIds] \cup {LinkSlot}

Statuses == {"valid", "drift", "unavailable"}

\* The preflight of one notice.
Plans == [shown : Seq(Shown), status : Statuses, deferred : BOOLEAN]

NoPlan == [shown |-> <<>>, status |-> "none", deferred |-> FALSE]

Saved == [pending : SUBSET Notices,             \* to be read by the next run
          seen : [Notices -> Seq(Shown)]]       \* changes the last run noted

Run == [todo : SUBSET Notices,      \* notices left to inspect
        active : SUBSET Notices,    \* notices left to apply
        status : Statuses,          \* of the page of the notice being inspected
        got : Seq(Bytes \cup {None, Withheld}),
        retries : 0..MaxRetries,
        requests : 0..Cap,          \* actual_requests
        sent : [Hosts -> 0..Cap],   \* ghost: those to each host
        stopped : BOOLEAN,
        open : SUBSET Hosts,        \* host_circuits
        cache : [Files -> Seq(Bytes \cup {None})],
        plan : [Notices -> Plans \cup {NoPlan}],
        noted : [Notices -> Seq(Shown)],
        uploads : SUBSET Uploads,   \* FILE_UPLOAD_CACHE
        again : BOOLEAN,            \* ghost: a file was missing from the cache
        refusing : SUBSET Hosts]    \* ghost: hosts that refused a request

NoRun == [todo |-> {}, active |-> {}, status |-> "valid", got |-> <<>>, retries |-> 0,
          requests |-> 0, sent |-> [h \in Hosts |-> 0], stopped |-> FALSE, open |-> {},
          cache |-> [f \in Files |-> <<>>], plan |-> [n \in Notices |-> NoPlan],
          noted |-> [n \in Notices |-> NoChange], uploads |-> {}, again |-> FALSE,
          refusing |-> {}]

TypeOK ==
    /\ source \in [Files -> Bytes]
    /\ page \in [Notices -> Seq(Slots)]
    /\ \A n \in Notices : page[n] = NoPage \/ Len(page[n]) = Len(Shows[n])
    /\ wiped \in SUBSET Notices
    /\ saved \in Saved
    /\ run \in Run
    /\ pc \in {"idle", "inspect", "download", "apply"}
    /\ changes \in 0..MaxChanges
    /\ faults \in 0..MaxFaults

-----------------------------------------------------------------------------
\* Helpers

Spend(cost) == faults + cost <= MaxFaults /\ faults' = faults + cost

Contents(slots) == [k \in DOMAIN slots |-> slots[k].sha]

Held(slots) == {k \in DOMAIN slots : slots[k] # LinkSlot}

\* Two files of the page are recorded with one upload.
SharedUpload(slots) ==
    \E i, j \in Held(slots) : i # j /\ slots[i].id = slots[j].id

\* What the inspection of the uploads of page n says.
Status(n) ==
    IF Held(page[n]) = {} THEN "valid"
    ELSE IF n \in wiped THEN "drift"
    ELSE IF SharedUpload(page[n]) THEN "unavailable"
    ELSE "valid"

\* Mutant of Keeps: only the same bytes.
KeepsSameBytes(n, got, k, j) ==
    Shows[n][j] = Shows[n][k] /\ got[k] = page[n][j].sha

\* Whether slot k may keep the upload in slot j: the bytes are the same, or
\* there are none.
Keeps(n, got, k, j) ==
    /\ Shows[n][j] = Shows[n][k]
    /\ got[k] \in {None, page[n][j].sha}

(***************************************************************************)
(* For each slot, the slot of the page whose upload it keeps, or 0: the    *)
(* first that fits and that no earlier slot has taken.                     *)
(***************************************************************************)
Free(n, got, status, kept, k) ==
    {j \in IF status = "valid" THEN Held(page[n]) ELSE {} :
        Keeps(n, got, k, j) /\ \A i \in 1..(k - 1) : kept[i] # j}

Kept(n, got, status) ==
    CHOOSE kept \in [DOMAIN got -> 0..Len(page[n])] :
        \A k \in DOMAIN got :
            LET free == Free(n, got, status, kept, k)
            IN  kept[k] = IF free = {} THEN 0 ELSE Min(free)

\* What the page is to show after that.
ToShow(n, got, kept) ==
    [k \in DOMAIN got |->
        IF kept[k] # 0 THEN page[n][kept[k]].sha
        ELSE IF got[k] \in Versions THEN got[k] ELSE Link]

Stopped(r) == r.stopped \/ r.requests >= Cap

\* The notice under way: the first in the order of the list.
Item == Order[Min({i \in DOMAIN Order : Order[i] \in run.todo})]

\* The next file: its address, and the hosts a request to it passes.
Fetching == pc = "download" /\ Len(run.got) < Len(Shows[Item])
Url == Shows[Item][Len(run.got) + 1]
Asked == HostOf[Url]
Server == ServedBy[Url]

\* Mutant of Got: only bytes are kept.
GotBytes(r, g) ==
    IF g = None
    THEN [r EXCEPT !.got = Append(@, IF Stopped(r) THEN Withheld ELSE None), !.retries = 0]
    ELSE [r EXCEPT !.got = Append(@, g), !.retries = 0, !.cache[Url] = Append(@, g)]

\* The download of the file ended with g; the cache keeps failures too.
Got(r, g) ==
    IF g = None /\ Stopped(r)
    THEN [r EXCEPT !.got = Append(@, Withheld), !.retries = 0]
    ELSE [r EXCEPT !.got = Append(@, g), !.retries = 0, !.cache[Url] = Append(@, g)]

\* A request was sent to host h.
Counted(r, h) == [r EXCEPT !.requests = @ + 1, !.sent[h] = @ + 1]

\* Mutant of Opened: the circuit of the host first asked.
OpenedFirst(r, h) == [r EXCEPT !.open = @ \cup {Asked}]

Opened(r, h) == [r EXCEPT !.open = @ \cup {h}]

\* The requests of one attempt that reaches host h.
Attempt(h) ==
    IF h = Asked THEN Counted(run, h) ELSE Counted(Counted(run, Asked), h)

Idle == pc' = "idle" /\ run' = NoRun

\* The notices the next run must read.
Required == saved.pending \cup {n \in Notices : saved.seen[n] # NoChange}

-----------------------------------------------------------------------------
\* The site, and people

Current(n) ==
    /\ page[n] # NoPage /\ n \notin wiped
    /\ \A k \in DOMAIN Shows[n] : LET c == source[Shows[n][k]] IN
          Contents(page[n])[k] = IF c = Junk THEN Link ELSE c

ChangeFile(f) ==
    /\ changes < MaxChanges
    /\ changes' = changes + 1
    /\ \E c \in Bytes \ {source[f]} : source' = [source EXCEPT ![f] = c]
    /\ UNCHANGED <<page, wiped, saved, run, pc, faults>>

WipeBody(n) ==
    /\ page[n] # NoPage
    /\ n \notin wiped
    /\ Spend(1)
    /\ wiped' = wiped \cup {n}
    /\ UNCHANGED <<source, page, saved, run, pc, changes>>

-----------------------------------------------------------------------------
\* A run: what each notice should show

\* due are the notices the refresh policy picks; picking one without need while
\* another must be read has a cost.
StartRun(due) ==
    /\ pc = "idle"
    /\ Required \cup due # {}
    /\ Spend(IF Required # {} /\ ~(due \subseteq Required) THEN 1 ELSE 0)
    /\ run' = [NoRun EXCEPT !.todo = Required \cup due]
    /\ pc' = "inspect"
    /\ UNCHANGED <<source, page, wiped, saved, changes>>

\* The uploads of the page are looked up; reading them may fail.
InspectPage(readable) ==
    /\ pc = "inspect"
    /\ Spend(IF readable THEN 0 ELSE 1)
    /\ run' = [run EXCEPT !.got = <<>>,
                          !.status = IF readable THEN Status(Item) ELSE "unavailable"]
    /\ pc' = "download"
    /\ UNCHANGED <<source, page, wiped, saved, changes>>

\* The circuit of the host is open.
SkipFile ==
    /\ Fetching
    /\ run.retries = 0
    /\ Asked \in run.open
    /\ run' = Got(run, None)
    /\ UNCHANGED <<source, page, wiped, saved, pc, changes, faults>>

\* No request is left.
WithholdFile ==
    /\ Fetching
    /\ run.retries = 0 => Asked \notin run.open
    /\ Stopped(run)
    /\ run' = Got([run EXCEPT !.stopped = TRUE], None)
    /\ UNCHANGED <<source, page, wiped, saved, pc, changes, faults>>

Asking ==
    /\ Fetching
    /\ run.retries = 0 => Asked \notin run.open
    /\ ~Stopped(run)

\* The address leads to a host that may not be asked, or not any more.
StayAtRedirect ==
    /\ Asking
    /\ Server # Asked
    /\ \/ /\ Server \in run.open
          /\ run' = Got(Counted(run, Asked), None)
       \/ /\ Server \notin run.open
          /\ run.requests + 1 >= Cap
          /\ run' = Got([Counted(run, Asked) EXCEPT !.stopped = TRUE], None)
    /\ UNCHANGED <<source, page, wiped, saved, pc, changes, faults>>

\* The hosts the attempt can reach.
Reachable ==
    IF Server # Asked /\ (Server \in run.open \/ run.requests + 1 >= Cap)
    THEN {Asked} ELSE {Asked, Server}

ReceiveFile ==
    /\ Asking
    /\ Server \in Reachable
    /\ run' = Got(Attempt(Server), source[Url])
    /\ UNCHANGED <<source, page, wiped, saved, pc, changes, faults>>

\* There is no such file, or it is larger than EXTERNAL_DOWNLOAD_MAX_BYTES.
MissFile ==
    /\ Asking
    /\ Spend(1)
    /\ \E h \in Reachable : run' = Got(Attempt(h), None)
    /\ UNCHANGED <<source, page, wiped, saved, pc, changes>>

\* Host h answers 403 or 429.
RefuseFile ==
    /\ Asking
    /\ Spend(1)
    /\ \E h \in Reachable :
          run' = Got([Opened(Attempt(h), h) EXCEPT !.refusing = @ \cup {h}], None)
    /\ UNCHANGED <<source, page, wiped, saved, pc, changes>>

\* Mutant of RetryLeft: once too often.
RetryLeftLate == run.retries <= MaxRetries

RetryLeft == run.retries < MaxRetries

\* A failure that may pass.  It is tried again a few times, unless the wait
\* is longer than the time left.
FailFile ==
    /\ Asking
    /\ Spend(1)
    /\ \E h \in Reachable :
          \/ /\ RetryLeft
             /\ run' = [Attempt(h) EXCEPT !.retries = @ + 1]
          \/ run' = Got(Opened(Attempt(h), h), None)
    /\ UNCHANGED <<source, page, wiped, saved, pc, changes>>

\* EXTERNAL_DOWNLOAD_MAX_SECONDS have passed.
RunOutOfTime ==
    /\ Fetching
    /\ ~run.stopped
    /\ Spend(1)
    /\ run' = [run EXCEPT !.stopped = TRUE]
    /\ UNCHANGED <<source, page, wiped, saved, pc, changes>>

\* All files of the notice are through.  A notice some file of which is
\* neither there nor kept is put off if downloads have stopped.
PlanItem ==
    /\ pc = "download"
    /\ ~Fetching
    /\ LET n == Item
           kept == Kept(n, run.got, run.status)
           missing == \E k \in DOMAIN run.got :
                        \/ run.got[k] = Withheld
                        \/ run.got[k] = None /\ kept[k] = 0
           deferred == run.status = "unavailable" \/ (missing /\ Stopped(run))
       IN  run' = [run EXCEPT
                     !.todo = @ \ {n},
                     !.active = IF deferred THEN @ ELSE @ \cup {n},
                     !.plan[n] = [shown |-> ToShow(n, run.got, kept),
                                  status |-> run.status, deferred |-> deferred]]
    /\ pc' = IF run.todo = {Item} THEN "apply" ELSE "inspect"
    /\ UNCHANGED <<source, page, wiped, saved, changes, faults>>

-----------------------------------------------------------------------------
\* A run: applying it

\* The bytes of each file of n, from the cache; it would be downloaded again
\* if it were not there.
Cached(n) ==
    [k \in DOMAIN Shows[n] |->
        LET before == Cardinality({j \in 1..(k - 1) : Shows[n][j] = Shows[n][k]})
            entries == run.cache[Shows[n][k]]
        IN  IF before < Len(entries) THEN entries[before + 1] ELSE Withheld]

\* The cache without the entries of n.
Popped(n) ==
    [f \in Files |->
        LET used == Cardinality({k \in DOMAIN Shows[n] : Shows[n][k] = f})
        IN  SubSeq(run.cache[f], used + 1, Len(run.cache[f]))]

\* The files of n to upload.
Fresh(n, got, kept) ==
    {<<Shows[n][k], got[k]>> : k \in {j \in DOMAIN got : kept[j] = 0 /\ got[j] \in Versions}}

\* Those that no earlier page of the run has uploaded, and ids for them.
New(fresh) == fresh \ {<<u.file, u.sha>> : u \in run.uploads}
NewIds(n, fresh) ==
    LET used == {u.id : u \in run.uploads} \cup {page[n][k].id : k \in Held(page[n])}
    IN  {id \in [New(fresh) -> (1..MaxIds) \ used] : IsInjective(id)}

\* The uploads there are once those files are uploaded, each file once.
Uploaded(n, fresh) ==
    LET id == CHOOSE f \in NewIds(n, fresh) : TRUE
    IN  run.uploads \cup {[file |-> x[1], sha |-> x[2], id |-> id[x]] : x \in New(fresh)}

\* What page n shows with its kept and new uploads.
SlotsOf(n, got, kept, uploads) ==
    [k \in DOMAIN got |->
        IF kept[k] # 0 THEN page[n][kept[k]]
        ELSE IF got[k] \in Versions
             THEN LET u == CHOOSE x \in uploads : x.file = Shows[n][k] /\ x.sha = got[k]
                  IN  [sha |-> u.sha, id |-> u.id]
             ELSE LinkSlot]

\* The change to an existing page that the run sees for the first time.
Unconfirmed(n) ==
    /\ page[n] # NoPage
    /\ run.plan[n].shown # Contents(page[n])
    /\ saved.seen[n] # run.plan[n].shown

\* It is only noted; its files stay in the cache.
NoteItem(n) ==
    /\ pc = "apply"
    /\ n \in run.active
    /\ Unconfirmed(n)
    /\ run' = [run EXCEPT !.active = @ \ {n}, !.noted[n] = run.plan[n].shown]
    /\ UNCHANGED <<source, page, wiped, saved, pc, changes, faults>>

\* What is ready to apply still stands as the preflight found it.
AsPlanned(n, got, kept) ==
    /\ Status(n) = run.plan[n].status
    /\ ToShow(n, got, kept) = run.plan[n].shown

\* The page is written and the saved state knows it (checkpoint).
ApplyItem(n) ==
    /\ pc = "apply"
    /\ n \in run.active
    /\ ~Unconfirmed(n)
    /\ LET got == Cached(n)
           kept == Kept(n, got, Status(n))
           fresh == Fresh(n, got, kept)
           uploads == Uploaded(n, fresh)
       IN  /\ AsPlanned(n, got, kept)
           /\ fresh \cap Refused = {}
           /\ NewIds(n, fresh) # {}
           /\ page' = [page EXCEPT ![n] = SlotsOf(n, got, kept, uploads)]
           /\ run' = [run EXCEPT !.active = @ \ {n}, !.uploads = uploads,
                                 !.cache = Popped(n),
                                 !.again = @ \/ Withheld \in Range(got)]
    /\ wiped' = wiped \ {n}
    /\ saved' = [saved EXCEPT !.pending = @ \ {n}]
    /\ UNCHANGED <<source, pc, changes, faults>>

\* The notices the run read and did not finish.
Unfinished ==
    run.todo \cup run.active \cup
    {n \in Notices : run.noted[n] # NoChange \/ run.plan[n].deferred}

\* What remains of a run that ends with an exception.
Failed == [pending |-> saved.pending \cup Unfinished, seen |-> [n \in Notices |-> NoChange]]

\* What the notice should show changed since the preflight, or a file of it
\* cannot be uploaded: the whole run fails.
AbortRun(n) ==
    /\ pc = "apply"
    /\ n \in run.active
    /\ ~Unconfirmed(n)
    /\ LET got == Cached(n)
           kept == Kept(n, got, Status(n))
           fresh == Fresh(n, got, kept)
       IN  \/ /\ ~AsPlanned(n, got, kept) \/ fresh \cap Refused # {}
              /\ UNCHANGED faults
           \/ /\ fresh # {}
              /\ Spend(1)
    /\ saved' = Failed
    /\ Idle
    /\ UNCHANGED <<source, page, wiped, changes>>

\* Any other exception, between two notices.
FailRun ==
    /\ pc # "idle"
    /\ Spend(1)
    /\ saved' = Failed
    /\ Idle
    /\ UNCHANGED <<source, page, wiped, changes>>

\* The process dies; what it has checkpointed remains.
KillRun ==
    /\ pc # "idle"
    /\ Spend(1)
    /\ Idle
    /\ UNCHANGED <<source, page, wiped, saved, changes>>

\* Mutant of Remaining: a notice put off is forgotten.
RemainingOnly == saved.pending

\* The notices put off are to be read again.
Remaining == saved.pending \cup {n \in Notices : run.plan[n].deferred}

EndRun ==
    /\ pc = "apply"
    /\ run.active = {}
    /\ saved' = [pending |-> Remaining, seen |-> run.noted]
    /\ Idle
    /\ UNCHANGED <<source, page, wiped, changes, faults>>

-----------------------------------------------------------------------------
Init ==
    /\ source = Initially
    /\ page = [n \in Notices |-> NoPage]
    /\ wiped = {}
    /\ saved = [pending |-> {}, seen |-> [n \in Notices |-> NoChange]]
    /\ run = NoRun
    /\ pc = "idle"
    /\ changes = 0
    /\ faults = 0

\* Steps a working program and an answering site take.
RunStep ==
    \/ InspectPage(TRUE)
    \/ SkipFile \/ WithholdFile \/ StayAtRedirect \/ ReceiveFile
    \/ PlanItem
    \/ \E n \in Notices : NoteItem(n) \/ ApplyItem(n) \/ AbortRun(n)
    \/ EndRun

Environment ==
    \/ \E f \in Files : ChangeFile(f)
    \/ \E n \in Notices : WipeBody(n)
    \/ InspectPage(FALSE)
    \/ MissFile \/ RefuseFile \/ FailFile \/ RunOutOfTime
    \/ FailRun \/ KillRun

Next ==
    \/ \E due \in SUBSET Notices : StartRun(due)
    \/ RunStep
    \/ Environment

Spec == Init /\ [][Next]_vars

(***************************************************************************)
(* A started run goes on, runs are started for ever, and no notice is left *)
(* out for ever by the runs that have nothing left over:                   *)
(* select_due_notice_ids picks each notice of the last month again and     *)
(* again.                                                                  *)
(***************************************************************************)
FairSpec ==
    /\ Spec
    /\ WF_vars(RunStep)
    /\ WF_vars(\E due \in SUBSET Notices : StartRun(due))
    /\ \A n \in Notices : SF_vars(\E due \in SUBSET Notices : n \in due /\ StartRun(due))

-----------------------------------------------------------------------------
\* Properties

\* A run sends no more requests than it may, counting those that follow a
\* redirect, and downloads nothing while it applies: each file a notice is
\* written from is one its preflight has downloaded or given up.
WithinBudget == run.requests <= Cap /\ ~run.again

\* A host that has answered 403 or 429 is not asked again in the run, not
\* even through the address of another host.
RefusalsKept ==
    [][pc # "idle" => \A h \in run.refusing :
          run'.sent[h] = run.sent[h] \/ pc' = "idle"]_vars

\* A file that a page holds is not replaced by a link, unless the site served
\* something else that is no file for it in this run, or a person had deleted
\* the body: failed, refused and withheld downloads lose nothing.  The upload
\* may only have moved to another place where the notice shows the file.
UploadsKept ==
    [][\A n \in Notices : page'[n] # page[n] /\ page[n] # NoPage =>
          \A k \in DOMAIN page[n] :
              page[n][k] # LinkSlot /\ page'[n][k] = LinkSlot =>
                  \/ n \in wiped \/ Junk \in Range(run.cache[Shows[n][k]])
                  \/ \E j \in DOMAIN page'[n] : page'[n][j] = page[n][k]]_vars

\* The body of the notice shows a file twice.
Repeats(n) == \E j, k \in DOMAIN Shows[n] : j # k /\ Shows[n][j] = Shows[n][k]

\* A notice shows a file that the workspace does not take.
Oversized == \E n \in Notices, f \in Files : f \in Range(Shows[n]) /\ <<f, source[f]>> \in Refused

\* Once files and people rest and failures stop, every page shows the files
\* its notice shows: what was put off is not forgotten, in spite of the limit.
MediaArrive == <>[](Oversized \/ \A n \in Notices : Current(n) \/ Repeats(n))

\* README.md:193: a change of an applied notice is applied once two
\* consecutive runs saw it.
ChangedMediaApplied == <>[](\A n \in Notices : Current(n))
=============================================================================
