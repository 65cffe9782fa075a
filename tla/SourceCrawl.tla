------------------------------ MODULE SourceCrawl ------------------------------
(***************************************************************************)
(* How crawler.py reads one source (SogangSourceAdapter.crawl): by the     *)
(* API, then, if that gives no result that may be written, by the HTML     *)
(* pages in a browser and at last by plain HTTP.                           *)
(*                                                                         *)
(* The board changes between any two requests, so that no request shows    *)
(* it whole.  A crawl reads every page of the list, with the details it    *)
(* wants on the way, then reads every page again: a result is delivered    *)
(* only if each page still shows what it showed before.                    *)
(***************************************************************************)
EXTENDS Naturals, Sequences, FiniteSets, SequencesExt

CONSTANTS
    Notices,
    Titles,        \* what the list shows of a notice besides its id and mark
    Boards,        \* the boards a crawl may start with
    Bodies,        \* and the contents of the notices
    PageLimit,     \* CRAWL_HARD_PAGE_LIMIT
    Settings,      \* what a crawl may find: the manners of the site, its own plan
    Known,         \* notices that have a page
    Recorded,      \* what the last crawl saw of a known notice
    Old,           \* notices older than a month
    NewLimit,      \* DETAIL_COLLECTION_LIMIT
    ChangeLimit,   \* DETAIL_CHANGE_REFRESH_LIMIT
    MaxChanges,    \* bound on the changes of the board
    MaxFaults      \* bound on the requests that fail

Row == [id : Notices, top : BOOLEAN, title : Titles]

\* Every board lists its TOP notices first.
Board == [tops : Seq({row \in Row : row.top}), others : Seq({row \in Row : ~row.top})]

\* A notice without text, with text alone, with text and attachments.
Contents == {"none", "bare", "full"}

Setting == [size : Nat \ {0},           \* rows of a page
            more : BOOLEAN,             \* the API says whether a page is the last
            total : {"all", "others", "none"},  \* what it counts, TOP notices or not
            repeats : BOOLEAN,          \* every page starts with the TOP notices
            fallback : BOOLEAN,         \* the circuit of the fallback is closed
            incremental : BOOLEAN,
            due : SUBSET Known,         \* notices to be read again in any case
            targeted : SUBSET Known]    \* those that must be read, or the crawl fails

ASSUME BoardsAssumption == Boards \subseteq Board
ASSUME BodiesAssumption == Bodies \subseteq [Notices -> Contents]
ASSUME PagesAssumption == PageLimit \in Nat \ {0}
ASSUME NoticesAssumption == Known \subseteq Notices /\ Old \subseteq Notices
\* What must be read is taken from what is due.
ASSUME SettingsAssumption ==
    Settings \subseteq Setting /\ \A s \in Settings : s.targeted \subseteq s.due
ASSUME LimitsAssumption == NewLimit \in Nat /\ ChangeLimit \in Nat
ASSUME BoundsAssumption == MaxChanges \in Nat /\ MaxFaults \in Nat

VARIABLES
    setting, \* never changes
    board,   \* the list
    body,    \* the content of each notice
    crawl,   \* the locals of the crawl under way
    pc,
    changes, faults

vars == <<setting, board, body, crawl, pc, changes, faults>>

-----------------------------------------------------------------------------
\* The site

Listing(b) == b.tops \o b.others

Cut(rows, k) ==
    SubSeq(rows, (k - 1) * setting.size + 1,
           IF k * setting.size < Len(rows) THEN k * setting.size ELSE Len(rows))

\* Page k of the list.
Rows(b, k) ==
    IF ~setting.repeats THEN Cut(Listing(b), k)
    ELSE IF k > 1 /\ Cut(b.others, k) = <<>> THEN <<>>
    ELSE b.tops \o Cut(b.others, k)

More(b, k) ==
    IF ~setting.more THEN "unknown" ELSE IF Rows(b, k + 1) = <<>> THEN "no" ELSE "yes"

Total(b) ==
    IF setting.total = "all" THEN {Len(Listing(b))}
    ELSE IF setting.total = "others" THEN {Len(b.others)} ELSE {}

\* What a request for page k returns: the HTML pages show the rows alone.
ApiView(b, k) == [rows |-> Rows(b, k), more |-> More(b, k), total |-> Total(b)]
HtmlView(b, k) == [rows |-> Rows(b, k), more |-> "unknown", total |-> {}]

View(method, b, k) == IF method = "api" THEN ApiView(b, k) ELSE HtmlView(b, k)

Ids(rows) == {row.id : row \in rows}
OnBoard(b) == Ids(ToSet(Listing(b)))

Posted(b, row) ==
    IF row.top THEN [b EXCEPT !.tops = <<row>> \o @] ELSE [b EXCEPT !.others = <<row>> \o @]

Withdrawn(b, part, i) == [b EXCEPT ![part] = RemoveAt(@, i)]

\* A notice is posted, withdrawn, marked or unmarked, or given another title.
Neighbours(b) ==
    {Posted(b, row) : row \in {r \in Row : r.id \notin OnBoard(b)}}
    \cup UNION {UNION {{Withdrawn(b, part, i),
                        Posted(Withdrawn(b, part, i), [b[part][i] EXCEPT !.top = ~@])}
                       \cup {[b EXCEPT ![part][i].title = t] : t \in Titles} :
                          i \in DOMAIN b[part]} : part \in DOMAIN b}

-----------------------------------------------------------------------------
\* A crawl

Page == [rows : Seq(Row), more : {"yes", "no", "unknown"}, total : SUBSET Nat]
Item == [id : Notices, top : BOOLEAN, title : Titles, body : Contents]
Reading == [title : Titles, body : Contents \cup {"missing"}]

NoPage == [rows |-> <<>>, more |-> "unknown", total |-> {}]

(***************************************************************************)
(* pages: the pages read so far, but for an empty one (page signatures).   *)
(* detail: the reading to be confirmed; "missing" in it stands for no      *)
(* answer.  left, returned and middle are ghosts: the pages that have      *)
(* changed since they were read, whether one of them was read again with   *)
(* its first content, and the board when the first pass ended.             *)
(***************************************************************************)
Crawl == [method : {"api", "browser", "http"},
          pages : Seq(Page),
          page : Page,               \* the page read last
          queue : Seq(Row),          \* its rows not yet treated
          seen : SUBSET Row,         \* rows treated (notice_observations)
          changed : SUBSET Notices,  \* read again because their row changed
          detail : SUBSET Reading,
          items : SUBSET Item,
          failed : BOOLEAN,          \* some detail was incomplete
          at : Nat,                  \* the page the second pass reads next
          topsVerified : BOOLEAN,    \* first_page_top_verified
          status : {"running", "success", "empty", "failed"},
          left : SUBSET Nat, returned : BOOLEAN, middle : Board]

NewCrawl(method) ==
    [method |-> method, pages |-> <<>>, page |-> NoPage,
     queue |-> <<>>, seen |-> {}, changed |-> {}, detail |-> {}, items |-> {},
     failed |-> FALSE, at |-> 1, topsVerified |-> FALSE, status |-> "running",
     left |-> {}, returned |-> FALSE, middle |-> [tops |-> <<>>, others |-> <<>>]]

TypeOK ==
    /\ setting \in Setting
    /\ board \in Board
    /\ body \in [Notices -> Contents]
    /\ crawl \in Crawl
    /\ pc \in {"page", "empty", "entries", "detail", "confirm", "html", "verify", "done"}
    /\ changes \in 0..MaxChanges
    /\ faults \in 0..MaxFaults

NextPage == Len(crawl.pages) + 1
Current(k) == View(crawl.method, board, k)

Continue(at, next) == crawl' = next /\ pc' = at

\* The method gives no result that may be written: the next one is tried,
\* except after a refusal by the site or while the circuit is open.
GiveUp(category) ==
    IF category = "policy" \/ crawl.method = "http" \/ ~setting.fallback
    THEN Continue("done", [crawl EXCEPT !.status = "failed"])
    ELSE \E next \in IF crawl.method = "api" THEN {"browser", "http"} ELSE {"http"} :
            Continue("page", NewCrawl(next))

Site == UNCHANGED <<setting, board, body, changes>>
Quiet == Site /\ UNCHANGED faults

\* Mutant of EndPass: the second pass reads the first page alone.
EndPassAtOnce(next) ==
    IF next.pages = <<>> THEN Continue("done", [next EXCEPT !.status = "empty"])
    ELSE Continue("verify", [next EXCEPT !.at = Len(next.pages)])

\* Notices that must be read and were not.
Missed == setting.targeted \ Ids(crawl.items)

\* The first pass ends; an empty board needs no second one.
EndPass(next) ==
    IF next.pages # <<>> THEN Continue("verify", next)
    ELSE IF next.method # "api" /\ Missed # {} THEN GiveUp("other")
    ELSE Continue("done", [next EXCEPT !.status = "empty", !.topsVerified = TRUE])

-----------------------------------------------------------------------------
\* The list, by the API

Unmarked(rows) == {row.id : row \in {r \in rows : ~r.top}}
RowsRead == UNION {ToSet(crawl.pages[k].rows) : k \in DOMAIN crawl.pages}

\* The totals of two pages differ, or fewer than were seen.
TotalDisagrees(page) ==
    /\ page.total # {}
    /\ \/ \E k \in DOMAIN crawl.pages : crawl.pages[k].total # page.total
       \/ \E n \in page.total : n < Cardinality(Unmarked(RowsRead \cup ToSet(page.rows)))

TotalSatisfied(page, pages) ==
    LET rows == UNION {ToSet(pages[k].rows) : k \in DOMAIN pages}
    IN  \A n \in page.total : n \in {Cardinality(Ids(crawl.seen)), Cardinality(Unmarked(rows))}

MarksOf(page) == [i \in DOMAIN page.rows |-> <<page.rows[i].id, page.rows[i].top>>]
TitlesOf(page) == [i \in DOMAIN page.rows |-> <<page.rows[i].id, page.rows[i].title>>]

RepeatsMarks(page, count) == \E k \in 1..count : MarksOf(crawl.pages[k]) = MarksOf(page)
RepeatsTitles(page, count) == \E k \in 1..count : TitlesOf(crawl.pages[k]) = TitlesOf(page)

RepeatsEarlier(page) ==
    RepeatsMarks(page, Len(crawl.pages)) \/ RepeatsTitles(page, Len(crawl.pages))

ReadApiPage ==
    /\ pc = "page" /\ crawl.method = "api"
    /\ LET page == Current(NextPage) IN
         IF \/ NextPage > PageLimit \/ TotalDisagrees(page)
            \/ page.rows # <<>> /\ RepeatsEarlier(page)
         THEN GiveUp("other")
         ELSE IF page.rows = <<>> THEN Continue("empty", [crawl EXCEPT !.page = page])
         ELSE Continue("entries", [crawl EXCEPT !.pages = Append(@, page), !.page = page,
                                                !.queue = page.rows])
    /\ Quiet

\* Whether an empty page is taken for the end: the API says so, it is the
\* first page, or the page before it was not full.
EndConfirmed ==
    \/ crawl.page.more = "no"
    \/ crawl.pages = <<>>
    \/ Len(crawl.pages[Len(crawl.pages)].rows) < setting.size

ConfirmApiEmpty ==
    /\ pc = "empty" /\ crawl.method = "api"
    /\ LET page == Current(NextPage) IN
         IF \/ page # crawl.page \/ ~EndConfirmed
            \/ (IF crawl.pages = <<>> THEN page.total \notin {{}, {0}}
                ELSE ~TotalSatisfied(page, crawl.pages))
         THEN GiveUp("other")
         ELSE EndPass([crawl EXCEPT !.middle = board])
    /\ Quiet

EndApiPage ==
    /\ pc = "entries" /\ crawl.method = "api" /\ crawl.queue = <<>>
    /\ IF crawl.page.more # "no" THEN Continue("page", crawl)
       ELSE IF TotalSatisfied(crawl.page, crawl.pages)
       THEN EndPass([crawl EXCEPT !.middle = board])
       ELSE GiveUp("other")
    /\ Quiet

-----------------------------------------------------------------------------
\* The list, by the HTML pages: an empty page alone ends it

ReadFallbackPage ==
    /\ pc = "page" /\ crawl.method # "api"
    /\ LET page == Current(NextPage) IN
         IF NextPage > PageLimit THEN GiveUp("other")
         ELSE IF page.rows = <<>> THEN Continue("empty", [crawl EXCEPT !.page = page])
         ELSE Continue("entries", [crawl EXCEPT !.pages = Append(@, page), !.page = page,
                                                !.queue = page.rows])
    /\ Quiet

ConfirmFallbackEmpty ==
    /\ pc = "empty" /\ crawl.method # "api"
    /\ IF Current(NextPage).rows # <<>> THEN GiveUp("other")
       ELSE EndPass([crawl EXCEPT !.middle = board])
    /\ Quiet

EndFallbackPage ==
    /\ pc = "entries" /\ crawl.method # "api" /\ crawl.queue = <<>>
    /\ IF RepeatsMarks(crawl.page, Len(crawl.pages) - 1) THEN GiveUp("other")
       ELSE Continue("page", crawl)
    /\ Quiet

-----------------------------------------------------------------------------
\* The rows of a page

\* Mutant of Collides: a TOP notice may not be listed twice either.
CollidesAlways(row) == \E r \in crawl.seen : r.id = row.id

\* Only a TOP notice may be listed twice, and then as before.
Collides(row) == \E r \in crawl.seen : r.id = row.id /\ (r # row \/ ~row.top)

NewItems == {item \in crawl.items : item.id \notin Known}

\* A known notice whose row changed is read again, within a limit.
ReadAgain(row) ==
    /\ row.id \in Known \ setting.due
    /\ \E r \in Recorded : r.id = row.id /\ r # row
    /\ Cardinality(crawl.changed) < ChangeLimit

Wanted(row) ==
    IF row.id \in Known
    THEN ~setting.incremental \/ row.id \in setting.due \/ ReadAgain(row)
    ELSE row.top \/ (row.id \notin Old /\ Cardinality(NewItems) < NewLimit)

TakeEntry ==
    /\ pc = "entries" /\ crawl.queue # <<>>
    /\ LET row == Head(crawl.queue)
           next == [crawl EXCEPT
                      !.seen = @ \cup {row},
                      !.changed = IF ReadAgain(row) THEN @ \cup {row.id} ELSE @,
                      !.queue = IF Wanted(row) THEN @ ELSE Tail(@)]
       IN IF Collides(row) THEN GiveUp("other")
          ELSE IF row \in crawl.seen
          THEN Continue("entries", [crawl EXCEPT !.queue = Tail(@)])
          ELSE Continue(IF Wanted(row) THEN "detail" ELSE "entries", next)
    /\ Quiet

-----------------------------------------------------------------------------
\* The details

TitleOf(n, default) ==
    IF n \in OnBoard(board) THEN (CHOOSE row \in ToSet(Listing(board)) : row.id = n).title
    ELSE default

DetailRow == Head(crawl.queue)

\* What the site answers; it may fail to answer at some cost.
Answer == [title |-> TitleOf(DetailRow.id, DetailRow.title),
           body |-> IF DetailRow.id \in OnBoard(board) THEN body[DetailRow.id] ELSE "missing"]
NoAnswer == [title |-> DetailRow.title, body |-> "missing"]

\* Mutant of DeliverApi: the title of the detail is not compared.
DeliverAnything(detail, content) ==
    LET complete == content # "none"
    IN  Continue("entries",
          [crawl EXCEPT !.queue = Tail(@), !.detail = {},
             !.items = @ \cup {[id |-> DetailRow.id, top |-> DetailRow.top,
                                title |-> detail.title, body |-> content]},
             !.failed = @ \/ ~complete])

\* A detail that does not fit its row, or lacks a content, is delivered as
\* partial and spoils the result.
DeliverApi(detail, content) ==
    LET complete == detail.title = DetailRow.title /\ content # "none"
    IN  Continue("entries",
          [crawl EXCEPT !.queue = Tail(@), !.detail = {},
             !.items = @ \cup {[id |-> DetailRow.id, top |-> DetailRow.top,
                                title |-> detail.title, body |-> content]},
             !.failed = @ \/ ~complete])

ReadApiDetail ==
    /\ pc = "detail" /\ crawl.method = "api"
    /\ Site
    /\ \/ /\ Continue("confirm", [crawl EXCEPT !.detail = {Answer}])
          /\ UNCHANGED faults
       \/ /\ faults < MaxFaults /\ faults' = faults + 1
          /\ Continue("confirm", [crawl EXCEPT !.detail = {NoAnswer}])

\* The second reading equals the first; without text the HTML is asked too.
ConfirmApiDetail ==
    /\ pc = "confirm" /\ crawl.method = "api"
    /\ \E second \in {Answer} \cup (crawl.detail \cap {NoAnswer}) :
         IF crawl.detail # {second} THEN GiveUp("other")
         ELSE IF second.body \in {"none", "missing"} THEN Continue("html", crawl)
         ELSE DeliverApi(second, second.body)
    /\ Quiet

\* Mutant of SupplementApiDetail: the content is delivered although it is missing.
SupplementNothing ==
    /\ pc = "html"
    /\ \E detail \in crawl.detail : DeliverApi(detail, detail.body)
    /\ Quiet

\* The HTML of the detail, read twice, can add a text and attachments; it
\* never confirms that there are none.
SupplementApiDetail ==
    /\ pc = "html"
    /\ LET found == IF Answer.body = "full" THEN "full" ELSE "none"
       IN \E detail \in crawl.detail, content \in {found, "none"} : DeliverApi(detail, content)
    /\ Quiet

ReadFallbackDetail ==
    /\ pc = "detail" /\ crawl.method # "api"
    /\ IF Answer.title # DetailRow.title \/ Answer.body = "missing" THEN GiveUp("other")
       ELSE Continue("confirm", [crawl EXCEPT !.detail = {Answer}])
    /\ Quiet

\* The second reading equals the first, and neither text nor attachments are
\* missing: the HTML pages cannot tell that from a page shown in part.
ConfirmFallbackDetail ==
    /\ pc = "confirm" /\ crawl.method # "api"
    /\ IF {Answer} # crawl.detail \/ Answer.body # "full" THEN GiveUp("other")
       ELSE Continue("entries",
              [crawl EXCEPT !.queue = Tail(@), !.detail = {},
                 !.items = @ \cup {[id |-> DetailRow.id, top |-> DetailRow.top,
                                    title |-> DetailRow.title, body |-> "full"]}])
    /\ Quiet

-----------------------------------------------------------------------------
\* The second pass

\* Page number at shows what it showed before: the next one, or the result.
SamePage(finish) ==
    IF Current(crawl.at) # crawl.pages[crawl.at] THEN GiveUp("other")
    ELSE LET next == [crawl EXCEPT !.at = @ + 1,
                        !.topsVerified = @ \/ crawl.at = 1,
                        !.returned = @ \/ crawl.at \in crawl.left]
         IN  IF crawl.at < Len(crawl.pages) THEN Continue("verify", next)
             ELSE IF crawl.at = Len(crawl.pages) /\ finish
             THEN Continue("done", [next EXCEPT !.status = "success"])
             ELSE GiveUp("other")

VerifyApiPage ==
    /\ pc = "verify" /\ crawl.method = "api"
    /\ SamePage(Missed = {} /\ ~crawl.failed)
    /\ Quiet

\* The HTML pages deliver no detail that is incomplete.
VerifyFallbackPage ==
    /\ pc = "verify" /\ crawl.method # "api"
    /\ SamePage(Missed = {})
    /\ Quiet

-----------------------------------------------------------------------------
\* What goes wrong with a request: the site refuses it (category policy), or
\* it fails after its retries

RequestFails(category) ==
    /\ faults < MaxFaults /\ faults' = faults + 1
    /\ GiveUp(category)
    /\ Site

AskingForList == pc \in {"page", "empty", "verify"}
AskingForDetail == pc \in {"detail", "confirm", "html"}

ApiListFails(category) == crawl.method = "api" /\ AskingForList /\ RequestFails(category)

\* A detail the API does not give is a partial one (NoAnswer), unless refused.
ApiDetailRefused == crawl.method = "api" /\ AskingForDetail /\ RequestFails("policy")

BrowserListFails(category) ==
    crawl.method = "browser" /\ AskingForList /\ RequestFails(category)
BrowserDetailFails(category) ==
    crawl.method = "browser" /\ AskingForDetail /\ RequestFails(category)

HttpListFails(category) == crawl.method = "http" /\ AskingForList /\ RequestFails(category)
HttpDetailFails(category) == crawl.method = "http" /\ AskingForDetail /\ RequestFails(category)

\* No request or no time is left for what the crawl wants to ask next.
BudgetSpent == (AskingForList \/ AskingForDetail) /\ RequestFails("other")

\* Meanwhile, on the site.
ChangeBoard(b) ==
    /\ pc # "done"
    /\ changes < MaxChanges
    /\ changes' = changes + 1
    /\ board' = b
    /\ crawl' = [crawl EXCEPT !.left =
                   @ \cup {k \in DOMAIN crawl.pages :
                             View(crawl.method, b, k) # crawl.pages[k]}]
    /\ UNCHANGED <<setting, body, pc, faults>>

ChangeBody(n, content) ==
    /\ pc # "done"
    /\ changes < MaxChanges
    /\ changes' = changes + 1
    /\ body' = [body EXCEPT ![n] = content]
    /\ UNCHANGED <<setting, board, crawl, pc, faults>>

-----------------------------------------------------------------------------
Init ==
    /\ setting \in Settings
    /\ board \in Boards
    /\ body \in Bodies
    /\ crawl = NewCrawl("api")
    /\ pc = "page"
    /\ changes = 0 /\ faults = 0

CrawlStep ==
    \/ ReadApiPage \/ ConfirmApiEmpty \/ EndApiPage
    \/ ReadFallbackPage \/ ConfirmFallbackEmpty \/ EndFallbackPage
    \/ TakeEntry
    \/ ReadApiDetail \/ ConfirmApiDetail \/ SupplementApiDetail
    \/ ReadFallbackDetail \/ ConfirmFallbackDetail
    \/ VerifyApiPage \/ VerifyFallbackPage

Environment ==
    \/ \E b \in Neighbours(board) : ChangeBoard(b)
    \/ \E n \in Notices, content \in Contents : ChangeBody(n, content)
    \/ \E category \in {"policy", "other"} :
          \/ ApiListFails(category)
          \/ BrowserListFails(category) \/ BrowserDetailFails(category)
          \/ HttpListFails(category) \/ HttpDetailFails(category)
    \/ ApiDetailRefused \/ BudgetSpent

Next == CrawlStep \/ Environment

Spec == Init /\ [][Next]_vars

-----------------------------------------------------------------------------
\* Properties

Delivered == pc = "done" /\ crawl.status \in {"success", "empty"}

\* README.md:13: a delivered list is the whole board as it was at one moment,
\* the end of the first pass, although no request shows more than a page of it
\* and it may change between any two: unless a page changed and came back to
\* its first content before it was read again.
OneSnapshot ==
    Delivered /\ ~crawl.returned =>
        \A k \in 1..(PageLimit + 1) :
            IF k \in DOMAIN crawl.pages
            THEN crawl.pages[k].rows = Rows(crawl.middle, k)
            ELSE Rows(crawl.middle, k) = <<>>

\* README.md:9: every delivered notice agrees with its row of the list and has a text; every
\* row the crawl had to read was read, but for new notices above the limit.
ItemsFit ==
    Delivered =>
        /\ \A item \in crawl.items :
              /\ item.body # "none"
              /\ [id |-> item.id, top |-> item.top, title |-> item.title] \in crawl.seen
        /\ \A row \in {r \in crawl.seen : r.id \notin Ids(crawl.items)} :
              IF row.id \in Known THEN setting.incremental /\ row.id \notin setting.due
              ELSE ~row.top /\ (row.id \in Old \/ Cardinality(NewItems) >= NewLimit)

ListedOnce(b) ==
    \A i, j \in DOMAIN Listing(b) : Listing(b)[i].id = Listing(b)[j].id => i = j

\* A board that rests is read, if it lists no notice twice, the notices that
\* must be read are on it and none lacks a text or attachments: the safeguards
\* against a moving board do not refuse one that stands still.
RestingBoardIsRead ==
    pc = "done" /\ changes = 0 /\ faults = 0 =>
        \/ Delivered
        \/ ~ListedOnce(board)
        \/ ~(setting.targeted \subseteq OnBoard(board))
        \/ \E n \in OnBoard(board) : body[n] # "full"
        \/ Rows(board, PageLimit) # <<>>
        \/ ~setting.fallback /\ ~setting.more
=============================================================================
