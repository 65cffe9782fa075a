--------------------------- MODULE SourceCrawlProofs ---------------------------
(***************************************************************************)
(* Proofs about SourceCrawl: a list that is delivered is the board as it   *)
(* was at one moment, whatever changed on it between two requests, what is *)
(* delivered of it fits its rows, and a board that rests is delivered.     *)
(***************************************************************************)
EXTENDS SourceCrawl, SequenceTheorems, FunctionTheorems, FiniteSetTheorems, TLAPS

-----------------------------------------------------------------------------
\* The site

LEMMA SubSeqTyped ==
    ASSUME NEW S, NEW s \in Seq(S), NEW m \in Nat \ {0}, NEW n \in Nat, n <= Len(s)
    PROVE  SubSeq(s, m, n) \in Seq(S)
<1>1. \A i \in m..n : s[i] \in S
  BY ElementOfSeq, LenProperties
<1> QED BY <1>1, SubSeqProperties

\* The first row of page k, less one.
LEMMA Offsets ==
    ASSUME NEW size \in Nat \ {0}, NEW k \in Nat \ {0}
    PROVE  /\ (k - 1) * size \in Nat
           /\ k * size \in Nat
           /\ k * size = (k - 1) * size + size
OBVIOUS

LEMMA OffsetsGrow ==
    ASSUME NEW size \in Nat \ {0}, NEW k \in Nat \ {0}, NEW j \in Nat, k <= j
    PROVE  (k - 1) * size <= (j - 1) * size
<1>1. PICK d \in Nat : j = k + d
  <2>1. j - k \in Nat /\ j = k + (j - k)
    OBVIOUS
  <2> QED BY <2>1
<1>2. (j - 1) * size = (k - 1) * size + d * size
  BY <1>1
<1>3. d * size \in Nat /\ (k - 1) * size \in Nat
  OBVIOUS
<1> QED BY <1>2, <1>3

LEMMA CutTyped ==
    ASSUME setting \in Setting, NEW S, NEW rows \in Seq(S), NEW k \in Nat \ {0}
    PROVE  Cut(rows, k) \in Seq(S)
<1> DEFINE first == (k - 1) * setting.size + 1
           last == IF k * setting.size < Len(rows) THEN k * setting.size ELSE Len(rows)
<1>1. setting.size \in Nat \ {0}
  BY DEF Setting
<1>2. first \in Nat \ {0} /\ last \in Nat /\ last <= Len(rows)
  BY <1>1, Offsets, LenProperties
<1> HIDE DEF first, last
<1>3. SubSeq(rows, first, last) \in Seq(S)
  BY <1>2, SubSeqTyped
<1> QED BY <1>3 DEF Cut, first, last

\* A page is empty exactly when the list ends before it.
LEMMA CutEmpty ==
    ASSUME setting \in Setting, NEW S, NEW rows \in Seq(S), NEW k \in Nat \ {0}
    PROVE  Cut(rows, k) = <<>> <=> Len(rows) <= (k - 1) * setting.size
<1> DEFINE first == (k - 1) * setting.size + 1
           last == IF k * setting.size < Len(rows) THEN k * setting.size ELSE Len(rows)
<1>1. setting.size \in Nat \ {0}
  BY DEF Setting
<1>2. /\ Len(rows) \in Nat
      /\ (k - 1) * setting.size \in Nat
      /\ k * setting.size = (k - 1) * setting.size + setting.size
  BY <1>1, Offsets, LenProperties
<1>3. first \in Nat \ {0} /\ last \in Nat /\ last <= Len(rows)
  BY <1>1, <1>2
<1>4. first <= last <=> ~(Len(rows) <= (k - 1) * setting.size)
  BY <1>1, <1>2
<1>5. \A i \in first..last : rows[i] \in S
  BY <1>3, ElementOfSeq, LenProperties
<1> HIDE DEF first, last
<1>6. /\ SubSeq(rows, first, last) \in Seq(S)
      /\ Len(SubSeq(rows, first, last)) = IF first <= last THEN last - first + 1 ELSE 0
  BY <1>3, <1>5, SubSeqProperties
<1>7. SubSeq(rows, first, last) = <<>> <=> ~(first <= last)
  BY <1>3, <1>6, EmptySeq
<1> QED BY <1>4, <1>7 DEF Cut, first, last

\* Behind an empty page every page is empty.
LEMMA CutStaysEmpty ==
    ASSUME setting \in Setting, NEW S, NEW rows \in Seq(S),
           NEW k \in Nat \ {0}, NEW j \in Nat \ {0}, k <= j, Cut(rows, k) = <<>>
    PROVE  Cut(rows, j) = <<>>
<1>1. setting.size \in Nat \ {0}
  BY DEF Setting
<1>2. Len(rows) <= (k - 1) * setting.size
  BY CutEmpty
<1>3. (k - 1) * setting.size <= (j - 1) * setting.size
  BY <1>1, OffsetsGrow
<1>4. /\ (k - 1) * setting.size \in Nat /\ (j - 1) * setting.size \in Nat
      /\ Len(rows) \in Nat
  BY <1>1, Offsets, LenProperties
<1>5. Len(rows) <= (j - 1) * setting.size
  BY <1>2, <1>3, <1>4
<1> QED BY <1>5, CutEmpty

LEMMA PartsAreRows ==
    ASSUME NEW b \in Board
    PROVE  b.tops \in Seq(Row) /\ b.others \in Seq(Row) /\ Listing(b) \in Seq(Row)
<1>1. b.tops \in Seq(Row) /\ b.others \in Seq(Row)
  <2>1. /\ {row \in Row : row.top} \subseteq Row
        /\ {row \in Row : ~row.top} \subseteq Row
    OBVIOUS
  <2>2. \A S, T : S \subseteq T => Seq(S) \subseteq Seq(T)
    OBVIOUS
  <2> HIDE DEF Row
  <2> QED BY <2>1, <2>2 DEF Board
<1> QED BY <1>1, ConcatProperties DEF Listing

LEMMA RowsTyped ==
    ASSUME setting \in Setting, NEW b \in Board, NEW k \in Nat \ {0}
    PROVE  Rows(b, k) \in Seq(Row)
<1>1. /\ b.tops \in Seq(Row)
      /\ Cut(b.others, k) \in Seq(Row)
      /\ Cut(Listing(b), k) \in Seq(Row)
  BY PartsAreRows, CutTyped
<1>2. b.tops \o Cut(b.others, k) \in Seq(Row)
  BY <1>1, ConcatProperties
<1>3. <<>> \in Seq(Row)
  OBVIOUS
<1> QED BY <1>1, <1>2, <1>3 DEF Rows

LEMMA RowsStayEmpty ==
    ASSUME setting \in Setting, NEW b \in Board,
           NEW k \in Nat \ {0}, NEW j \in Nat \ {0}, k <= j, Rows(b, k) = <<>>
    PROVE  Rows(b, j) = <<>>
<1>1. b.tops \in Seq(Row) /\ b.others \in Seq(Row) /\ Listing(b) \in Seq(Row)
  BY PartsAreRows
<1>2. CASE ~setting.repeats
  BY <1>1, <1>2, CutStaysEmpty DEF Rows
<1>3. CASE setting.repeats /\ k = j
  BY <1>3
<1>4. CASE setting.repeats /\ k # j
  <2>1. j > 1
    BY <1>4
  <2>2. Cut(b.others, k) = <<>>
    <3>1. CASE k > 1 /\ Cut(b.others, k) = <<>>
      BY <3>1
    <3>2. CASE ~(k > 1 /\ Cut(b.others, k) = <<>>)
      <4>1. b.tops \o Cut(b.others, k) = <<>>
        BY <1>4, <3>2 DEF Rows
      <4>2. Cut(b.others, k) \in Seq(Row)
        BY <1>1, CutTyped
      <4> QED BY <1>1, <4>1, <4>2, ConcatEqualIffEmpty, ConcatProperties, EmptySeq
    <3> QED BY <3>1, <3>2
  <2>3. Cut(b.others, j) = <<>>
    BY <1>1, <2>2, CutStaysEmpty
  <2> QED BY <1>4, <2>1, <2>3 DEF Rows
<1> QED BY <1>2, <1>3, <1>4

LEMMA ViewTyped ==
    ASSUME setting \in Setting, NEW b \in Board, NEW k \in Nat \ {0}, NEW method
    PROVE  View(method, b, k) \in Page
<1>1. Rows(b, k) \in Seq(Row)
  BY RowsTyped
<1>2. More(b, k) \in {"yes", "no", "unknown"}
  BY DEF More
<1>3. Total(b) \in SUBSET Nat
  <2>1. Len(Listing(b)) \in Nat /\ Len(b.others) \in Nat
    BY PartsAreRows, LenProperties
  <2> QED BY <2>1 DEF Total
<1> QED BY <1>1, <1>2, <1>3 DEF View, ApiView, HtmlView, Page

LEMMA ViewShowsRows ==
    ASSUME NEW b, NEW k, NEW method
    PROVE  /\ View(method, b, k).rows = Rows(b, k)
           /\ View(method, b, k).more = "no" => Rows(b, k + 1) = <<>>
BY DEF View, ApiView, HtmlView, More

\* The manners of the site never change, so that neither do the views.
LEMMA SameRows ==
    ASSUME setting' = setting
    PROVE  \A b, k : Rows(b, k)' = Rows(b, k)
BY DEF Rows, Cut, Listing

LEMMA SameViews ==
    ASSUME setting' = setting
    PROVE  \A method, b, k : View(method, b, k)' = View(method, b, k)
BY SameRows DEF View, ApiView, HtmlView, More, Total, Listing

\* What a change leaves is a board.

LEMMA RemoveAtTyped ==
    ASSUME NEW S, NEW s \in Seq(S), NEW i \in DOMAIN s
    PROVE  RemoveAt(s, i) \in Seq(S)
<1>1. Len(s) \in Nat /\ i \in 1..Len(s)
  BY LenProperties
<1>2. \A j \in 1..Len(s) : s[j] \in S
  BY ElementOfSeq
<1>3. SubSeq(s, 1, i - 1) \in Seq(S)
  BY <1>1, <1>2, SubSeqProperties
<1>4. SubSeq(s, i + 1, Len(s)) \in Seq(S)
  BY <1>1, <1>2, SubSeqProperties
<1> QED BY <1>3, <1>4, ConcatProperties DEF RemoveAt

TopRow == {row \in Row : row.top}
OtherRow == {row \in Row : ~row.top}

LEMMA BoardFields ==
    /\ Board = [tops : Seq(TopRow), others : Seq(OtherRow)]
    /\ TopRow \subseteq Row /\ OtherRow \subseteq Row
    /\ TopRow \cap OtherRow = {} /\ TopRow \cup OtherRow = Row
BY DEF Board, TopRow, OtherRow

LEMMA PostedTyped ==
    ASSUME NEW b \in Board, NEW row \in Row
    PROVE  Posted(b, row) \in Board
<1>1. b.tops \in Seq(TopRow) /\ b.others \in Seq(OtherRow)
  BY BoardFields
<1>2. CASE row.top
  <2>1. <<row>> \in Seq(TopRow)
    BY <1>2 DEF TopRow
  <2>2. <<row>> \o b.tops \in Seq(TopRow)
    BY <1>1, <2>1, ConcatProperties
  <2> QED BY <1>1, <1>2, <2>2, BoardFields DEF Posted
<1>3. CASE ~row.top
  <2>1. <<row>> \in Seq(OtherRow)
    BY <1>3 DEF OtherRow
  <2>2. <<row>> \o b.others \in Seq(OtherRow)
    BY <1>1, <2>1, ConcatProperties
  <2> QED BY <1>1, <1>3, <2>2, BoardFields DEF Posted
<1> QED BY <1>2, <1>3

LEMMA WithdrawnTyped ==
    ASSUME NEW b \in Board, NEW part \in DOMAIN b, NEW i \in DOMAIN b[part]
    PROVE  Withdrawn(b, part, i) \in Board /\ b[part][i] \in Row
<1>1. b.tops \in Seq(TopRow) /\ b.others \in Seq(OtherRow)
  BY BoardFields
<1>2. part \in {"tops", "others"}
  BY BoardFields
<1>3. CASE part = "tops"
  <2>1. RemoveAt(b.tops, i) \in Seq(TopRow)
    BY <1>1, <1>3, RemoveAtTyped
  <2>2. b.tops[i] \in Row
    BY <1>1, <1>3, ElementOfSeq, LenProperties, BoardFields
  <2> QED BY <1>1, <1>3, <2>1, <2>2, BoardFields DEF Withdrawn
<1>4. CASE part = "others"
  <2>1. RemoveAt(b.others, i) \in Seq(OtherRow)
    BY <1>1, <1>4, RemoveAtTyped
  <2>2. b.others[i] \in Row
    BY <1>1, <1>4, ElementOfSeq, LenProperties, BoardFields
  <2> QED BY <1>1, <1>4, <2>1, <2>2, BoardFields DEF Withdrawn
<1> QED BY <1>2, <1>3, <1>4

LEMMA RetitledTyped ==
    ASSUME NEW b \in Board, NEW part \in DOMAIN b, NEW i \in DOMAIN b[part],
           NEW t \in Titles
    PROVE  [b EXCEPT ![part][i].title = t] \in Board
<1>1. b.tops \in Seq(TopRow) /\ b.others \in Seq(OtherRow)
  BY BoardFields
<1>2. part \in {"tops", "others"}
  BY BoardFields
<1>3. \A row \in TopRow : [row EXCEPT !.title = t] \in TopRow
  BY DEF TopRow, Row
<1>4. \A row \in OtherRow : [row EXCEPT !.title = t] \in OtherRow
  BY DEF OtherRow, Row
<1>5. CASE part = "tops"
  <2>1. i \in 1..Len(b.tops) /\ b.tops[i] \in TopRow
    BY <1>1, <1>5, ElementOfSeq, LenProperties
  <2>2. [b.tops EXCEPT ![i] = [@ EXCEPT !.title = t]] \in Seq(TopRow)
    BY <1>1, <1>3, <2>1, ExceptSeq
  <2> QED BY <1>1, <1>5, <2>2, BoardFields
<1>6. CASE part = "others"
  <2>1. i \in 1..Len(b.others) /\ b.others[i] \in OtherRow
    BY <1>1, <1>6, ElementOfSeq, LenProperties
  <2>2. [b.others EXCEPT ![i] = [@ EXCEPT !.title = t]] \in Seq(OtherRow)
    BY <1>1, <1>4, <2>1, ExceptSeq
  <2> QED BY <1>1, <1>6, <2>2, BoardFields
<1> QED BY <1>2, <1>5, <1>6

LEMMA NeighboursTyped ==
    ASSUME NEW b \in Board
    PROVE  Neighbours(b) \subseteq Board
<1>1. \A row \in {r \in Row : r.id \notin OnBoard(b)} : Posted(b, row) \in Board
  BY PostedTyped
<1>2. ASSUME NEW part \in DOMAIN b, NEW i \in DOMAIN b[part]
      PROVE  /\ Withdrawn(b, part, i) \in Board
             /\ Posted(Withdrawn(b, part, i), [b[part][i] EXCEPT !.top = ~@]) \in Board
             /\ \A t \in Titles : [b EXCEPT ![part][i].title = t] \in Board
  <2>1. Withdrawn(b, part, i) \in Board /\ b[part][i] \in Row
    BY WithdrawnTyped
  <2>2. [b[part][i] EXCEPT !.top = ~@] \in Row
    BY <2>1 DEF Row
  <2> QED BY <2>1, <2>2, PostedTyped, RetitledTyped
<1> DEFINE At(part, i) ==
             {Withdrawn(b, part, i),
              Posted(Withdrawn(b, part, i), [b[part][i] EXCEPT !.top = ~@])}
             \cup {[b EXCEPT ![part][i].title = t] : t \in Titles}
<1>3. \A part \in DOMAIN b : \A i \in DOMAIN b[part] : At(part, i) \subseteq Board
  <2>1. ASSUME NEW part \in DOMAIN b, NEW i \in DOMAIN b[part], NEW c \in At(part, i)
        PROVE  c \in Board
    <3>1. CASE c \in {[b EXCEPT ![part][i].title = t] : t \in Titles}
      <4>1. PICK t \in Titles : c = [b EXCEPT ![part][i].title = t]
        BY <3>1
      <4> QED BY <1>2, <4>1
    <3> QED BY <1>2, <2>1, <3>1
  <2> QED BY <2>1
<1> HIDE DEF At
<1>4. UNION {UNION {At(part, i) : i \in DOMAIN b[part]} : part \in DOMAIN b} \subseteq Board
  BY <1>3
<1>5. Neighbours(b) = {Posted(b, row) : row \in {r \in Row : r.id \notin OnBoard(b)}}
        \cup UNION {UNION {At(part, i) : i \in DOMAIN b[part]} : part \in DOMAIN b}
  BY DEF Neighbours, At
<1> QED BY <1>1, <1>4, <1>5

-----------------------------------------------------------------------------
\* What the steps leave, and what a step never touches

Methods == {"api", "browser", "http"}
FirstPass == {"page", "empty", "entries", "detail", "confirm", "html"}
Reads == {"entries", "detail", "confirm", "html"}
Details == {"detail", "confirm", "html"}
Ends == {"verify", "done"}

\* The rest of the crawl may give up, which leaves nothing of it, or a failure.
GivenUp ==
    \/ crawl' = [crawl EXCEPT !.status = "failed"] /\ pc' = "done"
    \/ \E method \in {"browser", "http"} : crawl' = NewCrawl(method) /\ pc' = "page"

LEMMA GiveUpGivesUp ==
    ASSUME NEW category, GiveUp(category)
    PROVE  GivenUp
BY DEF GiveUp, Continue, GivenUp

LEMMA NewCrawlTyped ==
    ASSUME NEW method \in Methods
    PROVE  NewCrawl(method) \in Crawl
<1>1. [tops |-> <<>>, others |-> <<>>] \in Board
  BY BoardFields
<1>2. NoPage \in Page
  BY DEF NoPage, Page
<1> QED BY <1>1, <1>2 DEF NewCrawl, Crawl, Methods

LEMMA GivenUpTyped ==
    ASSUME crawl \in Crawl, GivenUp
    PROVE  crawl' \in Crawl /\ pc' \in FirstPass \cup Ends
<1>1. CASE crawl' = [crawl EXCEPT !.status = "failed"] /\ pc' = "done"
  BY <1>1 DEF Crawl, Ends
<1>2. CASE \E method \in {"browser", "http"} : crawl' = NewCrawl(method) /\ pc' = "page"
  BY <1>2, NewCrawlTyped DEF Methods, FirstPass
<1> QED BY <1>1, <1>2 DEF GivenUp

LEMMA EndPassEnds ==
    ASSUME crawl \in Crawl, EndPass([crawl EXCEPT !.middle = board])
    PROVE  \/ GivenUp
           \/ /\ crawl.pages # <<>> /\ pc' = "verify"
              /\ crawl' = [crawl EXCEPT !.middle = board]
           \/ /\ crawl.pages = <<>> /\ pc' = "done"
              /\ crawl' = [crawl EXCEPT !.middle = board, !.status = "empty",
                                        !.topsVerified = TRUE]
<1>1. [crawl EXCEPT !.middle = board].pages = crawl.pages
  BY DEF Crawl
<1> QED BY <1>1, GiveUpGivesUp DEF EndPass, Continue

LEMMA EndPassTyped ==
    ASSUME crawl \in Crawl, board \in Board, EndPass([crawl EXCEPT !.middle = board])
    PROVE  crawl' \in Crawl /\ pc' \in FirstPass \cup Ends
<1>1. CASE GivenUp
  BY <1>1, GivenUpTyped
<1>2. CASE pc' = "verify" /\ crawl' = [crawl EXCEPT !.middle = board]
  BY <1>2 DEF Crawl, Ends
<1>3. CASE /\ pc' = "done"
           /\ crawl' = [crawl EXCEPT !.middle = board, !.status = "empty",
                                     !.topsVerified = TRUE]
  BY <1>3 DEF Crawl, Ends
<1> QED BY <1>1, <1>2, <1>3, EndPassEnds

\* The second pass goes on, or delivers, with the page read as before.
NextAt ==
    [crawl EXCEPT !.at = @ + 1, !.topsVerified = @ \/ crawl.at = 1,
                  !.returned = @ \/ crawl.at \in crawl.left]

LEMMA SamePageGoesOn ==
    ASSUME NEW finish, SamePage(finish)
    PROVE  \/ GivenUp
           \/ /\ Current(crawl.at) = crawl.pages[crawl.at]
              /\ \/ crawl.at < Len(crawl.pages) /\ crawl' = NextAt /\ pc' = "verify"
                 \/ /\ crawl.at = Len(crawl.pages) /\ finish /\ pc' = "done"
                    /\ crawl' = [NextAt EXCEPT !.status = "success"]
BY GiveUpGivesUp DEF SamePage, Continue, NextAt

LEMMA SamePageTyped ==
    ASSUME crawl \in Crawl, NEW finish, SamePage(finish)
    PROVE  crawl' \in Crawl /\ pc' \in FirstPass \cup Ends
<1>1. NextAt \in Crawl
  <2> DEFINE next == crawl.at + 1
             verified == crawl.topsVerified \/ crawl.at = 1
             returned == crawl.returned \/ crawl.at \in crawl.left
  <2>1. next \in Nat
    BY DEF Crawl
  <2>2. verified \in BOOLEAN /\ returned \in BOOLEAN
    OBVIOUS
  <2>3. NextAt = [crawl EXCEPT !.at = next, !.topsVerified = verified,
                               !.returned = returned]
    BY DEF NextAt
  <2> HIDE DEF next, verified, returned
  <2>4. [crawl EXCEPT !.at = next, !.topsVerified = verified, !.returned = returned]
          \in Crawl
    BY <2>1, <2>2 DEF Crawl
  <2> QED BY <2>3, <2>4
<1>2. [NextAt EXCEPT !.status = "success"] \in Crawl
  BY <1>1 DEF Crawl
<1> QED BY <1>1, <1>2, SamePageGoesOn, GivenUpTyped DEF Ends

\* What the site answers has the shape of an answer.
LEMMA AnswerTyped ==
    ASSUME board \in Board, body \in [Notices -> Contents],
           crawl \in Crawl, crawl.queue # <<>>
    PROVE  DetailRow \in Row /\ Answer \in Reading /\ NoAnswer \in Reading
<1>1. DetailRow \in Row
  <2>1. crawl.queue \in Seq(Row)
    BY DEF Crawl
  <2> QED BY <2>1, HeadTailProperties DEF DetailRow
<1>2. DetailRow.id \in Notices /\ DetailRow.title \in Titles
  BY <1>1 DEF Row
<1>3. \A n : TitleOf(n, DetailRow.title) \in Titles
  <2>1. ASSUME NEW n, n \in OnBoard(board)
        PROVE  TitleOf(n, DetailRow.title) \in Titles
    <3>1. Listing(board) \in Seq(Row)
      BY PartsAreRows
    <3>2. ToSet(Listing(board)) \subseteq Row
      BY <3>1, ElementOfSeq, LenProperties DEF ToSet
    <3>3. \E row \in ToSet(Listing(board)) : row.id = n
      BY <2>1 DEF OnBoard, Ids
    <3>4. (CHOOSE row \in ToSet(Listing(board)) : row.id = n) \in ToSet(Listing(board))
      BY <3>3
    <3>5. (CHOOSE row \in ToSet(Listing(board)) : row.id = n).title \in Titles
      BY <3>2, <3>4 DEF Row
    <3> QED BY <2>1, <3>5 DEF TitleOf
  <2> QED BY <1>2, <2>1 DEF TitleOf
<1> QED BY <1>1, <1>2, <1>3 DEF Answer, NoAnswer, Reading

-----------------------------------------------------------------------------
\* Types

\* A detail is read for the row at the head of the queue, which counts as seen.
Holding == pc \in Details => crawl.queue # <<>> /\ Head(crawl.queue) \in crawl.seen

CrawlTyped == crawl \in Crawl /\ pc \in FirstPass \cup Ends

\* All steps of the crawl leave the site alone, and only a failure counts.
LEMMA CrawlStepsAreQuiet ==
    ASSUME CrawlStep
    PROVE  Site /\ (UNCHANGED faults \/ (faults < MaxFaults /\ faults' = faults + 1))
BY DEF CrawlStep, ReadApiPage, ConfirmApiEmpty, EndApiPage, ReadFallbackPage,
       ConfirmFallbackEmpty, EndFallbackPage, TakeEntry, ReadApiDetail, ConfirmApiDetail,
       SupplementApiDetail, ReadFallbackDetail, ConfirmFallbackDetail, VerifyApiPage,
       VerifyFallbackPage, Quiet, Site

LEMMA NextPageIsNatural ==
    ASSUME crawl \in Crawl
    PROVE  /\ NextPage \in Nat \ {0} /\ Len(crawl.pages) \in Nat
           /\ DOMAIN crawl.pages \subseteq Nat \ {0}
<1>1. crawl.pages \in Seq(Page)
  BY DEF Crawl
<1> QED BY <1>1, LenProperties DEF NextPage

LEMMA PageAddedTyped ==
    ASSUME crawl \in Crawl, NEW page \in Page,
           Continue("entries", [crawl EXCEPT !.pages = Append(@, page), !.page = page,
                                             !.queue = page.rows])
    PROVE  CrawlTyped'
<1>1. Append(crawl.pages, page) \in Seq(Page)
  BY AppendProperties DEF Crawl
<1>2. page.rows \in Seq(Row)
  BY DEF Page
<1> QED BY <1>1, <1>2 DEF Crawl, CrawlTyped, Continue, FirstPass

LEMMA ListStepTyped ==
    ASSUME TypeOK,
           ReadApiPage \/ ConfirmApiEmpty \/ EndApiPage
             \/ ReadFallbackPage \/ ConfirmFallbackEmpty \/ EndFallbackPage
    PROVE  CrawlTyped' /\ Holding'
<1>0. crawl \in Crawl /\ board \in Board /\ setting \in Setting /\ NextPage \in Nat \ {0}
  BY NextPageIsNatural DEF TypeOK
<1>1. Current(NextPage) \in Page
  BY <1>0, ViewTyped DEF Current
<1>2. \A c : GiveUp(c) => CrawlTyped' /\ Holding'
  BY <1>0, GiveUpGivesUp, GivenUpTyped DEF CrawlTyped, Holding, GivenUp, Details
<1>3. EndPass([crawl EXCEPT !.middle = board]) => CrawlTyped' /\ Holding'
  BY <1>0, EndPassTyped, EndPassEnds DEF CrawlTyped, Holding, GivenUp, Details
<1>4. Continue("page", crawl) => CrawlTyped' /\ Holding'
  BY <1>0 DEF Continue, CrawlTyped, Holding, FirstPass, Details
<1>5. Continue("empty", [crawl EXCEPT !.page = Current(NextPage)]) => CrawlTyped' /\ Holding'
  BY <1>0, <1>1 DEF Continue, CrawlTyped, Holding, FirstPass, Details, Crawl
<1>6. Continue("entries", [crawl EXCEPT !.pages = Append(@, Current(NextPage)),
                                        !.page = Current(NextPage),
                                        !.queue = Current(NextPage).rows])
        => CrawlTyped' /\ Holding'
  BY <1>0, <1>1, PageAddedTyped DEF Continue, Holding, Details
<1>7. CASE ReadApiPage \/ ReadFallbackPage
  BY <1>2, <1>5, <1>6, <1>7 DEF ReadApiPage, ReadFallbackPage
<1>8. CASE ConfirmApiEmpty \/ ConfirmFallbackEmpty
  BY <1>2, <1>3, <1>8 DEF ConfirmApiEmpty, ConfirmFallbackEmpty
<1>9. CASE EndApiPage \/ EndFallbackPage
  BY <1>2, <1>3, <1>4, <1>9 DEF EndApiPage, EndFallbackPage
<1> QED BY <1>7, <1>8, <1>9

\* What is left of the queue behind its first row.
LEMMA TailTyped ==
    ASSUME crawl \in Crawl, crawl.queue # <<>>
    PROVE  Head(crawl.queue) \in Row /\ Tail(crawl.queue) \in Seq(Row)
BY HeadTailProperties DEF Crawl

LEMMA TakeEntryTyped ==
    ASSUME TypeOK, TakeEntry
    PROVE  CrawlTyped' /\ Holding'
<1> DEFINE row == Head(crawl.queue)
           next == [crawl EXCEPT
                      !.seen = @ \cup {row},
                      !.changed = IF ReadAgain(row) THEN @ \cup {row.id} ELSE @,
                      !.queue = IF Wanted(row) THEN @ ELSE Tail(@)]
<1>0. crawl \in Crawl /\ crawl.queue # <<>> /\ row \in Row /\ Tail(crawl.queue) \in Seq(Row)
  BY TailTyped DEF TypeOK, TakeEntry
<1>1. next \in Crawl /\ (Wanted(row) => next.queue = crawl.queue /\ row \in next.seen)
  <2> DEFINE seen == crawl.seen \cup {row}
             changed == IF ReadAgain(row) THEN crawl.changed \cup {row.id} ELSE crawl.changed
             queue == IF Wanted(row) THEN crawl.queue ELSE Tail(crawl.queue)
  <2>1. row.id \in Notices
    BY <1>0 DEF Row
  <2>2. /\ seen \in SUBSET Row /\ changed \in SUBSET Notices /\ queue \in Seq(Row)
        /\ (Wanted(row) => queue = crawl.queue) /\ row \in seen
    <3> HIDE DEF row
    <3> QED BY <1>0, <2>1 DEF Crawl
  <2>3. next = [crawl EXCEPT !.seen = seen, !.changed = changed, !.queue = queue]
    OBVIOUS
  <2> HIDE DEF seen, changed, queue, row, next
  <2> QED BY <1>0, <2>2, <2>3 DEF Crawl
<1>2. CASE GiveUp("other")
  BY <1>0, <1>2, GiveUpGivesUp, GivenUpTyped DEF CrawlTyped, Holding, GivenUp, Details
<1>3. CASE Continue("entries", [crawl EXCEPT !.queue = Tail(@)])
  BY <1>0, <1>3 DEF Continue, CrawlTyped, Holding, FirstPass, Details, Crawl
<1>4. CASE Continue(IF Wanted(row) THEN "detail" ELSE "entries", next)
  <2> HIDE DEF next, row
  <2>1. CASE Wanted(row)
    <3>1. crawl' = next /\ pc' = "detail"
      BY <1>4, <2>1 DEF Continue
    <3> QED BY <1>0, <1>1, <2>1, <3>1 DEF CrawlTyped, Holding, FirstPass, row
  <2>2. CASE ~Wanted(row)
    <3>1. crawl' = next /\ pc' = "entries"
      BY <1>4, <2>2 DEF Continue
    <3> QED BY <1>1, <3>1 DEF CrawlTyped, Holding, FirstPass, Details
  <2> QED BY <2>1, <2>2
<1> QED BY <1>2, <1>3, <1>4 DEF TakeEntry

\* A detail delivered, complete or not.
Delivery(item, failed) ==
    [crawl EXCEPT !.queue = Tail(@), !.detail = {}, !.items = @ \cup {item},
                  !.failed = failed]

LEMMA DeliveryTyped ==
    ASSUME TypeOK, Holding, pc \in Details, NEW item \in Item, NEW failed \in BOOLEAN
    PROVE  Delivery(item, failed) \in Crawl
<1>1. crawl \in Crawl /\ Tail(crawl.queue) \in Seq(Row)
  BY TailTyped DEF TypeOK, Holding
<1> QED BY <1>1 DEF Delivery, Crawl

\* The item delivered for the row in hand.
ItemOf(title, content) ==
    [id |-> DetailRow.id, top |-> DetailRow.top, title |-> title, body |-> content]

LEMMA ItemTyped ==
    ASSUME DetailRow \in Row, NEW title \in Titles, NEW content \in Contents
    PROVE  ItemOf(title, content) \in Item
BY DEF ItemOf, Item, Row

LEMMA ApiDelivers ==
    ASSUME NEW detail, NEW content, DeliverApi(detail, content)
    PROVE  \E failed \in BOOLEAN :
             /\ failed <=> crawl.failed \/ detail.title # DetailRow.title \/ content = "none"
             /\ crawl' = Delivery(ItemOf(detail.title, content), failed)
             /\ pc' = "entries"
<1> DEFINE failed == crawl.failed \/ ~(detail.title = DetailRow.title /\ content # "none")
<1>1. failed \in BOOLEAN
  OBVIOUS
<1>2. crawl' = Delivery(ItemOf(detail.title, content), failed) /\ pc' = "entries"
  BY DEF DeliverApi, Continue, Delivery, ItemOf
<1>3. failed <=> crawl.failed \/ detail.title # DetailRow.title \/ content = "none"
  OBVIOUS
<1> HIDE DEF failed
<1> QED BY <1>1, <1>2, <1>3

LEMMA ApiDeliveryTyped ==
    ASSUME TypeOK, Holding, pc \in Details,
           NEW detail \in Reading, NEW content \in Contents, DeliverApi(detail, content)
    PROVE  CrawlTyped' /\ Holding'
<1>1. DetailRow \in Row
  BY AnswerTyped DEF TypeOK, Holding
<1>2. detail.title \in Titles
  BY DEF Reading
<1>3. ItemOf(detail.title, content) \in Item
  BY <1>1, <1>2, ItemTyped
<1>4. PICK failed \in BOOLEAN :
        crawl' = Delivery(ItemOf(detail.title, content), failed) /\ pc' = "entries"
  BY ApiDelivers
<1>5. crawl' \in Crawl
  BY <1>3, <1>4, DeliveryTyped
<1> QED BY <1>4, <1>5 DEF CrawlTyped, Holding, FirstPass, Details

LEMMA FallbackDeliveryTyped ==
    ASSUME TypeOK, Holding, pc \in Details,
           Continue("entries",
             [crawl EXCEPT !.queue = Tail(@), !.detail = {},
                !.items = @ \cup {[id |-> DetailRow.id, top |-> DetailRow.top,
                                   title |-> DetailRow.title, body |-> "full"]}])
    PROVE  /\ CrawlTyped' /\ Holding'
           /\ crawl' = Delivery(ItemOf(DetailRow.title, "full"), crawl.failed)
<1>1. DetailRow \in Row /\ crawl \in Crawl
  BY AnswerTyped DEF TypeOK, Holding
<1>2. ItemOf(DetailRow.title, "full") \in Item
  BY <1>1, ItemTyped DEF Row, Contents
<1>3. crawl' = Delivery(ItemOf(DetailRow.title, "full"), crawl.failed)
  <2>1. crawl = [crawl EXCEPT !.failed = crawl.failed]
    BY <1>1 DEF Crawl
  <2> QED BY <1>1 DEF Continue, Delivery, ItemOf, Crawl
<1>4. crawl.failed \in BOOLEAN
  BY <1>1 DEF Crawl
<1>5. crawl' \in Crawl /\ pc' = "entries"
  BY <1>2, <1>3, <1>4, DeliveryTyped DEF Continue
<1> QED BY <1>3, <1>5 DEF CrawlTyped, Holding, FirstPass, Details

\* A reading to be confirmed is kept with the row in hand.
LEMMA ReadingKeptTyped ==
    ASSUME TypeOK, Holding, pc \in Details, NEW reading \in Reading,
           Continue("confirm", [crawl EXCEPT !.detail = {reading}])
    PROVE  CrawlTyped' /\ Holding'
<1>1. crawl \in Crawl
  BY DEF TypeOK
<1>2. crawl' \in Crawl /\ crawl'.queue = crawl.queue /\ crawl'.seen = crawl.seen
  <2>1. {reading} \in SUBSET Reading
    OBVIOUS
  <2> QED BY <1>1, <2>1 DEF Continue, Crawl
<1> QED BY <1>2 DEF Continue, CrawlTyped, Holding, FirstPass, Details

LEMMA ApiDetailTyped ==
    ASSUME TypeOK, Holding, ReadApiDetail \/ ConfirmApiDetail \/ SupplementApiDetail
    PROVE  CrawlTyped' /\ Holding'
<1>0. crawl \in Crawl
  BY DEF TypeOK
<1>1. pc \in Details
  BY DEF ReadApiDetail, ConfirmApiDetail, SupplementApiDetail, Details
<1>2. Answer \in Reading /\ NoAnswer \in Reading /\ crawl.detail \subseteq Reading
  BY <1>1, AnswerTyped DEF TypeOK, Holding, Crawl
<1>3. CASE ReadApiDetail
  BY <1>1, <1>2, <1>3, ReadingKeptTyped DEF ReadApiDetail
<1>4. CASE ConfirmApiDetail
  <2>1. PICK second \in {Answer} \cup (crawl.detail \cap {NoAnswer}) :
          IF crawl.detail # {second} THEN GiveUp("other")
          ELSE IF second.body \in {"none", "missing"} THEN Continue("html", crawl)
          ELSE DeliverApi(second, second.body)
    BY <1>4 DEF ConfirmApiDetail
  <2>2. second \in Reading
    BY <1>2
  <2>3. CASE GiveUp("other")
    BY <1>0, <2>3, GiveUpGivesUp, GivenUpTyped DEF CrawlTyped, Holding, GivenUp, Details
  <2>4. CASE Continue("html", crawl)
    BY <1>0, <1>1, <2>4 DEF Continue, CrawlTyped, Holding, FirstPass, Details
  <2>5. CASE second.body \notin {"none", "missing"} /\ DeliverApi(second, second.body)
    <3>1. second.body \in Contents
      BY <2>2, <2>5 DEF Reading
    <3> QED BY <1>1, <2>2, <2>5, <3>1, ApiDeliveryTyped
  <2> QED BY <2>1, <2>3, <2>4, <2>5
<1>5. CASE SupplementApiDetail
  <2> DEFINE found == IF Answer.body = "full" THEN "full" ELSE "none"
  <2>1. PICK detail \in crawl.detail, content \in {found, "none"} : DeliverApi(detail, content)
    BY <1>5 DEF SupplementApiDetail
  <2>2. content \in Contents
    BY DEF Contents
  <2> QED BY <1>1, <1>2, <2>1, <2>2, ApiDeliveryTyped
<1> QED BY <1>3, <1>4, <1>5

LEMMA FallbackDetailTyped ==
    ASSUME TypeOK, Holding, ReadFallbackDetail \/ ConfirmFallbackDetail
    PROVE  CrawlTyped' /\ Holding'
<1>0. crawl \in Crawl
  BY DEF TypeOK
<1>1. pc \in Details
  BY DEF ReadFallbackDetail, ConfirmFallbackDetail, Details
<1>2. Answer \in Reading
  BY <1>1, AnswerTyped DEF TypeOK, Holding
<1>3. \A c : GiveUp(c) => CrawlTyped' /\ Holding'
  BY <1>0, GiveUpGivesUp, GivenUpTyped DEF CrawlTyped, Holding, GivenUp, Details
<1>4. CASE ReadFallbackDetail
  BY <1>1, <1>2, <1>3, <1>4, ReadingKeptTyped DEF ReadFallbackDetail
<1>5. CASE ConfirmFallbackDetail
  BY <1>1, <1>3, <1>5, FallbackDeliveryTyped DEF ConfirmFallbackDetail
<1> QED BY <1>4, <1>5

LEMMA VerifyTyped ==
    ASSUME TypeOK, NEW finish, SamePage(finish)
    PROVE  CrawlTyped' /\ Holding'
<1>1. CrawlTyped'
  BY SamePageTyped DEF TypeOK, CrawlTyped
<1>2. pc' \notin Details
  BY SamePageGoesOn DEF GivenUp, Details
<1> QED BY <1>1, <1>2 DEF Holding

LEMMA RequestFailsTyped ==
    ASSUME TypeOK, NEW category, RequestFails(category)
    PROVE  CrawlTyped' /\ Holding'
<1>1. GivenUp
  BY GiveUpGivesUp DEF RequestFails
<1> QED BY <1>1, GivenUpTyped DEF CrawlTyped, Holding, GivenUp, Details, TypeOK

\* Every failure is one of a request.
LEMMA FailuresAreRequests ==
    ASSUME NEW category,
           \/ ApiListFails(category)
           \/ BrowserListFails(category) \/ BrowserDetailFails(category)
           \/ HttpListFails(category) \/ HttpDetailFails(category)
           \/ ApiDetailRefused \/ BudgetSpent
    PROVE  \E c : RequestFails(c)
BY DEF ApiListFails, BrowserListFails, BrowserDetailFails, HttpListFails, HttpDetailFails,
       ApiDetailRefused, BudgetSpent

LEMMA ChangeBoardTyped ==
    ASSUME TypeOK, Holding, NEW b \in Board, ChangeBoard(b)
    PROVE  CrawlTyped' /\ Holding'
<1>1. crawl \in Crawl /\ DOMAIN crawl.pages \subseteq Nat
  BY NextPageIsNatural DEF TypeOK
<1> DEFINE left == crawl.left \cup {k \in DOMAIN crawl.pages :
                                      View(crawl.method, b, k) # crawl.pages[k]}
<1>2. left \in SUBSET Nat
  BY <1>1 DEF Crawl
<1>3. crawl' = [crawl EXCEPT !.left = left] /\ UNCHANGED pc
  BY DEF ChangeBoard
<1> HIDE DEF left
<1>4. crawl' \in Crawl /\ crawl'.queue = crawl.queue /\ crawl'.seen = crawl.seen
  BY <1>1, <1>2, <1>3 DEF Crawl
<1> QED BY <1>3, <1>4 DEF TypeOK, CrawlTyped, Holding, FirstPass, Ends

\* Each disjunct of the next-state relation, with the failures as one.
LEMMA StepsOfNext ==
    ASSUME Next
    PROVE  \/ ReadApiPage \/ ConfirmApiEmpty \/ EndApiPage
             \/ ReadFallbackPage \/ ConfirmFallbackEmpty \/ EndFallbackPage
           \/ TakeEntry
           \/ ReadApiDetail \/ ConfirmApiDetail \/ SupplementApiDetail
           \/ ReadFallbackDetail \/ ConfirmFallbackDetail
           \/ VerifyApiPage \/ VerifyFallbackPage
           \/ \E category : RequestFails(category)
           \/ \E b \in Neighbours(board) : ChangeBoard(b)
           \/ \E n \in Notices, content \in Contents : ChangeBody(n, content)
BY FailuresAreRequests DEF Next, CrawlStep, Environment

TInv == TypeOK /\ Holding

LEMMA TypesStart == Init => TInv
<1> SUFFICES ASSUME Init PROVE TInv
  OBVIOUS
<1>1. crawl \in Crawl
  BY NewCrawlTyped DEF Init, Methods
<1>2. /\ setting \in Setting /\ board \in Board /\ body \in [Notices -> Contents]
      /\ pc = "page" /\ changes = 0 /\ faults = 0
  BY SettingsAssumption, BoardsAssumption, BodiesAssumption DEF Init
<1> QED BY <1>1, <1>2, BoundsAssumption DEF TInv, TypeOK, Holding, Details

LEMMA TypesKept == TInv /\ [Next]_vars => TInv'
<1> SUFFICES ASSUME TypeOK, Holding, [Next]_vars PROVE TInv'
  BY DEF TInv
<1> DEFINE Rest == /\ setting' \in Setting /\ board' \in Board
                   /\ body' \in [Notices -> Contents]
                   /\ changes' \in 0..MaxChanges /\ faults' \in 0..MaxFaults
<1>1. CrawlTyped' /\ Holding' /\ Rest => TInv'
  BY DEF TInv, TypeOK, CrawlTyped, FirstPass, Ends
<1>2. CASE UNCHANGED vars
  BY <1>2 DEF vars, TInv, TypeOK, Holding
<1>3. ASSUME CrawlStep PROVE Rest
  <2>1. Site /\ (UNCHANGED faults \/ (faults < MaxFaults /\ faults' = faults + 1))
    BY <1>3, CrawlStepsAreQuiet
  <2>2. faults' \in 0..MaxFaults
    BY <2>1, BoundsAssumption DEF TypeOK
  <2> QED BY <2>1, <2>2 DEF Site, TypeOK
<1>4. CASE \/ ReadApiPage \/ ConfirmApiEmpty \/ EndApiPage
           \/ ReadFallbackPage \/ ConfirmFallbackEmpty \/ EndFallbackPage
  BY <1>1, <1>3, <1>4, ListStepTyped DEF CrawlStep
<1>5. CASE TakeEntry
  BY <1>1, <1>3, <1>5, TakeEntryTyped DEF CrawlStep
<1>6. CASE ReadApiDetail \/ ConfirmApiDetail \/ SupplementApiDetail
  BY <1>1, <1>3, <1>6, ApiDetailTyped DEF CrawlStep
<1>7. CASE ReadFallbackDetail \/ ConfirmFallbackDetail
  BY <1>1, <1>3, <1>7, FallbackDetailTyped DEF CrawlStep
<1>8. CASE VerifyApiPage
  <2>1. SamePage(Missed = {} /\ ~crawl.failed)
    BY <1>8 DEF VerifyApiPage
  <2> QED BY <1>1, <1>3, <1>8, <2>1, VerifyTyped DEF CrawlStep
<1>9. CASE VerifyFallbackPage
  <2>1. SamePage(Missed = {})
    BY <1>9 DEF VerifyFallbackPage
  <2> QED BY <1>1, <1>3, <1>9, <2>1, VerifyTyped DEF CrawlStep
<1>10. CASE \E category : RequestFails(category)
  <2>1. PICK category : RequestFails(category)
    BY <1>10
  <2>2. Site /\ faults < MaxFaults /\ faults' = faults + 1
    BY <2>1 DEF RequestFails
  <2>3. faults' \in 0..MaxFaults
    BY <2>2, BoundsAssumption DEF TypeOK
  <2>4. Rest
    BY <2>2, <2>3 DEF Site, TypeOK
  <2> QED BY <1>1, <2>1, <2>4, RequestFailsTyped
<1>11. CASE \E b \in Neighbours(board) : ChangeBoard(b)
  <2>1. PICK b \in Neighbours(board) : ChangeBoard(b)
    BY <1>11
  <2>2. b \in Board
    BY NeighboursTyped DEF TypeOK
  <2>3. changes < MaxChanges /\ changes' = changes + 1 /\ board' = b
        /\ UNCHANGED <<setting, body, pc, faults>>
    BY <2>1 DEF ChangeBoard
  <2>4. changes' \in 0..MaxChanges
    BY <2>3, BoundsAssumption DEF TypeOK
  <2>5. Rest
    BY <2>2, <2>3, <2>4 DEF TypeOK
  <2> QED BY <1>1, <2>1, <2>2, <2>5, ChangeBoardTyped
<1>12. CASE \E n \in Notices, content \in Contents : ChangeBody(n, content)
  <2>1. PICK n \in Notices, content \in Contents : ChangeBody(n, content)
    BY <1>12
  <2>2. /\ changes < MaxChanges /\ changes' = changes + 1
        /\ body' = [body EXCEPT ![n] = content]
        /\ UNCHANGED <<setting, board, crawl, pc, faults>>
    BY <2>1 DEF ChangeBody
  <2>3. changes' \in 0..MaxChanges
    BY <2>2, BoundsAssumption DEF TypeOK
  <2>4. Rest
    BY <2>2, <2>3 DEF TypeOK
  <2>5. CrawlTyped' /\ Holding'
    BY <2>2 DEF TypeOK, CrawlTyped, Holding, FirstPass, Ends
  <2> QED BY <1>1, <2>4, <2>5
<1> HIDE DEF Rest
<1> QED BY <1>2, <1>4, <1>5, <1>6, <1>7, <1>8, <1>9, <1>10, <1>11, <1>12, StepsOfNext

(***************************************************************************)
(* What a crawl keeps of the pages, rows and details it reads, through all *)
(* its methods and changes of the board, stays of its type.                *)
(***************************************************************************)
THEOREM Types == Spec => []TypeOK
<1>1. Init => TInv
  BY TypesStart
<1>2. TInv /\ [Next]_vars => TInv'
  BY TypesKept
<1>3. TInv => TypeOK
  BY DEF TInv
<1> QED BY <1>1, <1>2, <1>3, PTL DEF Spec

-----------------------------------------------------------------------------
\* What is delivered is the board at the end of the first pass

\* Where a crawl is, and what it has in hand there.
InHandOf(c, at) ==
    /\ at \in Reads => c.pages # <<>> /\ c.page = c.pages[Len(c.pages)]
    /\ at = "empty" => c.page.rows = <<>>
    /\ at \in FirstPass => c.at = 1
    /\ at # "done" => c.status = "running"
    /\ at = "verify" => c.pages # <<>> /\ c.at <= Len(c.pages)
    /\ c.status = "success" => c.at = Len(c.pages) + 1
    /\ c.status = "empty" => c.pages = <<>>

InHand == InHandOf(crawl, pc)

\* A page that has not changed since it was read is still shown.
Tracked ==
    \A k \in DOMAIN crawl.pages \ crawl.left : crawl.pages[k] = View(crawl.method, board, k)

\* When the first pass ended the board showed every page that has not changed
\* since it was read, so every page read again without having returned to its
\* first content, and nothing behind the last one.
Middle ==
    pc \in Ends /\ crawl.status # "failed" =>
        /\ \A k \in DOMAIN crawl.pages :
              k \notin crawl.left \/ (k < crawl.at /\ ~crawl.returned) =>
                  crawl.pages[k] = View(crawl.method, crawl.middle, k)
        /\ \/ Rows(crawl.middle, Len(crawl.pages) + 1) = <<>>
           \/ crawl.pages # <<>> /\ crawl.pages[Len(crawl.pages)].more = "no"

SInv == TInv /\ InHand /\ Tracked /\ Middle

LEMMA Unchanged ==
    ASSUME Next
    PROVE  UNCHANGED setting /\ (UNCHANGED board \/ \E b \in Neighbours(board) : ChangeBoard(b))
<1>1. CASE CrawlStep
  BY <1>1, CrawlStepsAreQuiet DEF Site
<1>2. CASE \E category : RequestFails(category)
  BY <1>2 DEF RequestFails, Site
<1>3. CASE \E b \in Neighbours(board) : ChangeBoard(b)
  BY <1>3 DEF ChangeBoard
<1>4. CASE \E n \in Notices, content \in Contents : ChangeBody(n, content)
  BY <1>4 DEF ChangeBody
<1> QED BY <1>1, <1>2, <1>3, <1>4, FailuresAreRequests DEF Next, Environment

\* A new crawl has no page; a failed one has nothing to deliver.
LEMMA GivenUpKeepsPages ==
    ASSUME SInv, GivenUp, setting' = setting, board' = board
    PROVE  InHand' /\ Tracked' /\ Middle'
<1>0. crawl \in Crawl
  BY DEF SInv, TInv, TypeOK
<1>1. CASE crawl' = [crawl EXCEPT !.status = "failed"] /\ pc' = "done"
  <2>1. /\ crawl'.pages = crawl.pages /\ crawl'.method = crawl.method
        /\ crawl'.left = crawl.left /\ crawl'.status = "failed"
    BY <1>0, <1>1 DEF Crawl
  <2>2. Tracked'
    BY <2>1, SameViews DEF SInv, Tracked
  <2>3. InHand' /\ Middle'
    BY <1>1, <2>1 DEF InHand, InHandOf, Middle, Reads, FirstPass
  <2> QED BY <2>2, <2>3
<1>2. CASE \E method \in {"browser", "http"} : crawl' = NewCrawl(method) /\ pc' = "page"
  <2>1. crawl'.pages = <<>> /\ crawl'.at = 1 /\ crawl'.status = "running" /\ pc' = "page"
    BY <1>2 DEF NewCrawl
  <2> QED BY <2>1 DEF InHand, InHandOf, Tracked, Middle, Reads, FirstPass, Ends
<1> QED BY <1>1, <1>2 DEF GivenUp

\* The steps within a page leave the pages alone.
SamePages ==
    /\ crawl'.pages = crawl.pages /\ crawl'.method = crawl.method
    /\ crawl'.left = crawl.left /\ crawl'.at = crawl.at
    /\ crawl'.status = crawl.status

LEMMA WithinPage ==
    ASSUME SInv, setting' = setting, board' = board, SamePages,
           pc \in FirstPass, pc' \in FirstPass,
           pc' \in Reads => pc \in Reads /\ crawl'.page = crawl.page,
           pc' = "empty" => crawl'.page.rows = <<>>
    PROVE  InHand' /\ Tracked' /\ Middle'
<1>1. Tracked'
  BY SameViews DEF SInv, Tracked, SamePages
<1>2. Middle'
  BY DEF Middle, FirstPass, Ends
<1>3. InHand'
  BY DEF SInv, InHand, InHandOf, SamePages, FirstPass, Reads
<1> QED BY <1>1, <1>2, <1>3

LEMMA PageAddedKeepsPages ==
    ASSUME SInv, pc = "page", setting' = setting, board' = board,
           Continue("entries", [crawl EXCEPT !.pages = Append(@, Current(NextPage)),
                                             !.page = Current(NextPage),
                                             !.queue = Current(NextPage).rows])
    PROVE  InHand' /\ Tracked' /\ Middle'
<1> DEFINE page == Current(NextPage)
<1>0. /\ crawl \in Crawl /\ crawl.pages \in Seq(Page) /\ setting \in Setting
      /\ board \in Board /\ NextPage \in Nat \ {0}
  BY NextPageIsNatural DEF SInv, TInv, TypeOK, Crawl
<1>1. page \in Page
  BY <1>0, ViewTyped DEF Current
<1>2. page = View(crawl.method, board, Len(crawl.pages) + 1)
  BY DEF Current, NextPage
<1> HIDE DEF page
<1>3. /\ crawl'.pages = Append(crawl.pages, page) /\ crawl'.page = page
      /\ crawl'.method = crawl.method /\ crawl'.left = crawl.left
      /\ crawl'.at = crawl.at /\ crawl'.status = crawl.status /\ pc' = "entries"
  BY <1>0 DEF Crawl, Continue, page
<1>4. /\ crawl'.pages \in Seq(Page) /\ crawl'.pages # <<>>
      /\ Len(crawl'.pages) = Len(crawl.pages) + 1 /\ Len(crawl.pages) \in Nat
      /\ \A k \in 1..Len(crawl.pages) : crawl'.pages[k] = crawl.pages[k]
      /\ crawl'.pages[Len(crawl.pages) + 1] = page
  BY <1>0, <1>1, <1>3, AppendProperties, LenProperties
<1>5. DOMAIN crawl'.pages = 1..(Len(crawl.pages) + 1) /\ DOMAIN crawl.pages = 1..Len(crawl.pages)
  BY <1>0, <1>4, LenProperties
<1>6. \A k \in DOMAIN crawl'.pages \ crawl'.left :
         crawl'.pages[k] = View(crawl'.method, board, k)
  BY <1>2, <1>3, <1>4, <1>5 DEF SInv, Tracked
<1>7. Tracked'
  BY <1>6, SameViews DEF Tracked
<1>8. Middle'
  BY <1>3 DEF Middle, Ends
<1>9. InHand'
  BY <1>3, <1>4 DEF SInv, InHand, InHandOf, FirstPass, Reads
<1> QED BY <1>7, <1>8, <1>9

\* The first pass ends where the list does.
LEMMA EndPassKeepsPages ==
    ASSUME SInv, pc \in FirstPass, setting' = setting, board' = board,
           EndPass([crawl EXCEPT !.middle = board]),
           \/ Rows(board, Len(crawl.pages) + 1) = <<>>
           \/ crawl.pages # <<>> /\ crawl.pages[Len(crawl.pages)].more = "no"
    PROVE  InHand' /\ Tracked' /\ Middle'
<1>0. crawl \in Crawl /\ crawl.at = 1 /\ crawl.status = "running" /\ crawl.pages \in Seq(Page)
      /\ DOMAIN crawl.pages = 1..Len(crawl.pages) /\ Len(crawl.pages) \in Nat
  BY LenProperties DEF SInv, TInv, TypeOK, InHand, InHandOf, FirstPass, Crawl
<1>1. CASE GivenUp
  BY <1>1, GivenUpKeepsPages
<1>2. CASE \/ /\ crawl.pages # <<>> /\ pc' = "verify"
              /\ crawl' = [crawl EXCEPT !.middle = board]
           \/ /\ crawl.pages = <<>> /\ pc' = "done"
              /\ crawl' = [crawl EXCEPT !.middle = board, !.status = "empty",
                                        !.topsVerified = TRUE]
  <2>1. /\ crawl'.pages = crawl.pages /\ crawl'.method = crawl.method
        /\ crawl'.left = crawl.left /\ crawl'.at = 1 /\ crawl'.middle = board
        /\ crawl'.returned = crawl.returned
    BY <1>0, <1>2 DEF Crawl
  <2>2. Tracked'
    BY <2>1, SameViews DEF SInv, Tracked
  <2>3. \/ crawl.pages # <<>> /\ pc' = "verify" /\ crawl'.status = "running"
        \/ crawl.pages = <<>> /\ pc' = "done" /\ crawl'.status = "empty"
    BY <1>0, <1>2 DEF Crawl
  <2>4. InHand'
    BY <1>0, <2>1, <2>3 DEF InHand, InHandOf, FirstPass, Reads
  <2>5. \A k \in DOMAIN crawl.pages : ~(k < 1)
    BY <1>0
  <2>6. \A k \in DOMAIN crawl.pages :
           k \notin crawl.left => crawl.pages[k] = View(crawl.method, board, k)
    BY DEF SInv, Tracked
  <2>7. Middle'
    BY <2>1, <2>5, <2>6, SameViews, SameRows DEF Middle
  <2> QED BY <2>2, <2>4, <2>7
<1> QED BY <1>0, <1>1, <1>2, EndPassEnds

\* A page read again shows the board as it was when the first pass ended, or
\* it had changed and returned.
LEMMA SamePageKeepsPages ==
    ASSUME SInv, pc = "verify", setting' = setting, board' = board,
           NEW finish, SamePage(finish)
    PROVE  InHand' /\ Tracked' /\ Middle'
<1>0. /\ crawl \in Crawl /\ crawl.pages # <<>> /\ crawl.status = "running"
      /\ crawl.at \in Nat /\ crawl.at <= Len(crawl.pages) /\ crawl.pages \in Seq(Page)
      /\ DOMAIN crawl.pages = 1..Len(crawl.pages) /\ Len(crawl.pages) \in Nat
  BY LenProperties DEF SInv, TInv, TypeOK, InHand, InHandOf, Crawl
<1>1. CASE GivenUp
  BY <1>1, GivenUpKeepsPages
<1>2. CASE /\ Current(crawl.at) = crawl.pages[crawl.at]
           /\ \/ crawl.at < Len(crawl.pages) /\ crawl' = NextAt /\ pc' = "verify"
              \/ /\ crawl.at = Len(crawl.pages) /\ pc' = "done"
                 /\ crawl' = [NextAt EXCEPT !.status = "success"]
  <2>1. /\ NextAt.pages = crawl.pages /\ NextAt.method = crawl.method
        /\ NextAt.left = crawl.left /\ NextAt.middle = crawl.middle
        /\ NextAt.at = crawl.at + 1 /\ NextAt.status = "running"
        /\ NextAt.returned <=> crawl.returned \/ crawl.at \in crawl.left
        /\ [NextAt EXCEPT !.status = "success"].pages = crawl.pages
        /\ [NextAt EXCEPT !.status = "success"].method = crawl.method
        /\ [NextAt EXCEPT !.status = "success"].left = crawl.left
        /\ [NextAt EXCEPT !.status = "success"].middle = crawl.middle
        /\ [NextAt EXCEPT !.status = "success"].at = crawl.at + 1
        /\ [NextAt EXCEPT !.status = "success"].returned = NextAt.returned
        /\ [NextAt EXCEPT !.status = "success"].status = "success"
    BY <1>0 DEF Crawl, NextAt
  <2>2. /\ crawl'.pages = crawl.pages /\ crawl'.method = crawl.method
        /\ crawl'.left = crawl.left /\ crawl'.middle = crawl.middle
        /\ crawl'.at = crawl.at + 1
        /\ crawl'.returned <=> crawl.returned \/ crawl.at \in crawl.left
    BY <1>2, <2>1
  <2>3. \/ crawl.at < Len(crawl.pages) /\ pc' = "verify" /\ crawl'.status = "running"
        \/ crawl.at = Len(crawl.pages) /\ pc' = "done" /\ crawl'.status = "success"
    BY <1>2, <2>1
  <2>4. Tracked'
    BY <2>2, SameViews DEF SInv, Tracked
  <2>5. InHand'
    BY <1>0, <2>2, <2>3 DEF InHand, InHandOf, FirstPass, Reads
  <2>6. /\ \A k \in DOMAIN crawl.pages :
              k \notin crawl.left \/ (k < crawl.at /\ ~crawl.returned) =>
                  crawl.pages[k] = View(crawl.method, crawl.middle, k)
        /\ \/ Rows(crawl.middle, Len(crawl.pages) + 1) = <<>>
           \/ crawl.pages # <<>> /\ crawl.pages[Len(crawl.pages)].more = "no"
    BY <1>0 DEF SInv, Middle, Ends
  <2>7. ASSUME NEW k \in DOMAIN crawl.pages,
               k \notin crawl.left \/ (k < crawl.at + 1 /\ ~crawl'.returned)
        PROVE  crawl.pages[k] = View(crawl.method, crawl.middle, k)
    <3>1. CASE k \notin crawl.left
      BY <2>6, <3>1
    <3>2. CASE k < crawl.at /\ ~crawl.returned
      BY <2>6, <3>2
    <3>3. CASE k = crawl.at /\ ~crawl'.returned
      BY <2>2, <2>6, <3>3
    <3> QED BY <1>0, <2>2, <2>7, <3>1, <3>2, <3>3
  <2>8. Middle'
    BY <2>2, <2>6, <2>7, SameViews, SameRows DEF Middle
  <2> QED BY <2>4, <2>5, <2>8
<1> QED BY <1>1, <1>2, SamePageGoesOn

\* A change of the board marks the pages that no longer show it.
LEMMA ChangeBoardKeepsPages ==
    ASSUME SInv, NEW b, ChangeBoard(b)
    PROVE  InHand' /\ Tracked' /\ Middle'
<1>0. crawl \in Crawl /\ setting' = setting /\ pc' = pc
  BY DEF SInv, TInv, TypeOK, ChangeBoard
<1>1. /\ crawl'.pages = crawl.pages /\ crawl'.page = crawl.page
      /\ crawl'.method = crawl.method /\ crawl'.at = crawl.at
      /\ crawl'.status = crawl.status /\ crawl'.returned = crawl.returned
      /\ crawl'.middle = crawl.middle /\ board' = b
      /\ crawl'.left = crawl.left \cup {k \in DOMAIN crawl.pages :
                                         View(crawl.method, b, k) # crawl.pages[k]}
  BY <1>0 DEF Crawl, ChangeBoard
<1>2. InHand'
  BY <1>0, <1>1 DEF SInv, InHand, InHandOf
<1>3. \A k \in DOMAIN crawl.pages \ crawl'.left : crawl.pages[k] = View(crawl.method, b, k)
  BY <1>1
<1>4. Tracked'
  BY <1>0, <1>1, <1>3, SameViews DEF Tracked
<1>5. crawl.left \subseteq crawl'.left
  BY <1>1
<1>6. Middle'
  <2> SUFFICES ASSUME pc \in Ends, crawl.status # "failed"
               PROVE  Middle'
    BY <1>0, <1>1 DEF Middle
  <2>1. /\ \A k \in DOMAIN crawl.pages :
              k \notin crawl.left \/ (k < crawl.at /\ ~crawl.returned) =>
                  crawl.pages[k] = View(crawl.method, crawl.middle, k)
        /\ \/ Rows(crawl.middle, Len(crawl.pages) + 1) = <<>>
           \/ crawl.pages # <<>> /\ crawl.pages[Len(crawl.pages)].more = "no"
    BY DEF SInv, Middle
  <2>2. \A k \in DOMAIN crawl.pages :
           k \notin crawl'.left \/ (k < crawl.at /\ ~crawl.returned) =>
               crawl.pages[k] = View(crawl.method, crawl.middle, k)
    BY <1>5, <2>1
  <2> QED BY <1>0, <1>1, <2>1, <2>2, SameViews, SameRows DEF Middle
<1> QED BY <1>2, <1>4, <1>6

LEMMA ListStepKeepsPages ==
    ASSUME SInv, setting' = setting, board' = board,
           ReadApiPage \/ ConfirmApiEmpty \/ EndApiPage
             \/ ReadFallbackPage \/ ConfirmFallbackEmpty \/ EndFallbackPage
    PROVE  InHand' /\ Tracked' /\ Middle'
<1>0. crawl \in Crawl
  BY DEF SInv, TInv, TypeOK
<1>1. \A c : GiveUp(c) => InHand' /\ Tracked' /\ Middle'
  BY GiveUpGivesUp, GivenUpKeepsPages
<1>2. CASE ReadApiPage \/ ReadFallbackPage
  <2>1. pc = "page"
    BY <1>2 DEF ReadApiPage, ReadFallbackPage
  <2>2. CASE /\ Current(NextPage).rows = <<>>
             /\ Continue("empty", [crawl EXCEPT !.page = Current(NextPage)])
    <3>1. SamePages /\ crawl'.page = Current(NextPage) /\ pc' = "empty"
      BY <1>0, <2>2 DEF Crawl, Continue, SamePages
    <3> QED BY <2>1, <2>2, <3>1, WithinPage DEF FirstPass, Reads
  <2>3. CASE Continue("entries", [crawl EXCEPT !.pages = Append(@, Current(NextPage)),
                                               !.page = Current(NextPage),
                                               !.queue = Current(NextPage).rows])
    BY <2>1, <2>3, PageAddedKeepsPages
  <2> QED BY <1>1, <1>2, <2>2, <2>3 DEF ReadApiPage, ReadFallbackPage
<1>3. CASE ConfirmApiEmpty \/ ConfirmFallbackEmpty
  <2>1. pc = "empty" /\ crawl.page.rows = <<>>
    BY <1>3 DEF ConfirmApiEmpty, ConfirmFallbackEmpty, SInv, InHand, InHandOf
  <2>2. \/ GiveUp("other")
        \/ /\ Current(NextPage).rows = <<>>
           /\ EndPass([crawl EXCEPT !.middle = board])
    BY <1>3, <2>1 DEF ConfirmApiEmpty, ConfirmFallbackEmpty
  <2>3. Current(NextPage).rows = Rows(board, Len(crawl.pages) + 1)
    BY ViewShowsRows DEF Current, NextPage
  <2> QED BY <1>1, <2>1, <2>2, <2>3, EndPassKeepsPages DEF FirstPass
<1>4. CASE EndApiPage \/ EndFallbackPage
  <2>1. pc = "entries" /\ crawl.pages # <<>> /\ crawl.page = crawl.pages[Len(crawl.pages)]
    BY <1>4 DEF EndApiPage, EndFallbackPage, SInv, InHand, InHandOf, Reads
  <2>2. CASE Continue("page", crawl)
    <3>1. SamePages /\ pc' = "page"
      BY <2>2 DEF Continue, SamePages
    <3> QED BY <2>1, <3>1, WithinPage DEF FirstPass, Reads
  <2>3. CASE crawl.page.more = "no" /\ EndPass([crawl EXCEPT !.middle = board])
    BY <2>1, <2>3, EndPassKeepsPages DEF FirstPass
  <2> QED BY <1>1, <1>4, <2>2, <2>3 DEF EndApiPage, EndFallbackPage
<1> QED BY <1>2, <1>3, <1>4

\* The rows and their details leave the pages alone, or the crawl gives up.
LEMMA RowStepStays ==
    ASSUME TInv,
           TakeEntry \/ ReadApiDetail \/ ConfirmApiDetail \/ SupplementApiDetail
             \/ ReadFallbackDetail \/ ConfirmFallbackDetail
    PROVE  \/ GivenUp
           \/ SamePages /\ crawl'.page = crawl.page /\ pc \in Reads /\ pc' \in Reads
<1>0. crawl \in Crawl
  BY DEF TInv, TypeOK
<1>1. pc \in Reads
  BY DEF TakeEntry, ReadApiDetail, ConfirmApiDetail, SupplementApiDetail,
         ReadFallbackDetail, ConfirmFallbackDetail, Reads
<1>2. ASSUME NEW detail, NEW content, DeliverApi(detail, content)
      PROVE  SamePages /\ crawl'.page = crawl.page /\ pc' \in Reads
  BY <1>0, <1>2, ApiDelivers DEF Delivery, SamePages, Crawl, Reads
<1>3. CASE TakeEntry
  <2> DEFINE row == Head(crawl.queue)
             next == [crawl EXCEPT
                        !.seen = @ \cup {row},
                        !.changed = IF ReadAgain(row) THEN @ \cup {row.id} ELSE @,
                        !.queue = IF Wanted(row) THEN @ ELSE Tail(@)]
  <2>1. \/ GiveUp("other")
        \/ Continue("entries", [crawl EXCEPT !.queue = Tail(@)])
        \/ Continue(IF Wanted(row) THEN "detail" ELSE "entries", next)
    BY <1>3 DEF TakeEntry
  <2>2. /\ next.pages = crawl.pages /\ next.method = crawl.method
        /\ next.left = crawl.left /\ next.at = crawl.at
        /\ next.status = crawl.status /\ next.page = crawl.page
    BY <1>0 DEF Crawl
  <2>3. CASE Continue("entries", [crawl EXCEPT !.queue = Tail(@)])
    BY <1>0, <1>1, <2>3 DEF Continue, SamePages, Crawl, Reads
  <2> HIDE DEF next
  <2>4. CASE Continue(IF Wanted(row) THEN "detail" ELSE "entries", next)
    BY <1>1, <2>2, <2>4 DEF Continue, SamePages, Reads
  <2> QED BY <2>1, <2>3, <2>4, GiveUpGivesUp
<1>4. CASE ReadApiDetail
  BY <1>0, <1>1, <1>4 DEF ReadApiDetail, Continue, SamePages, Crawl, Reads
<1>5. CASE ConfirmApiDetail
  <2>1. PICK second : \/ GiveUp("other") \/ Continue("html", crawl)
                      \/ DeliverApi(second, second.body)
    BY <1>5 DEF ConfirmApiDetail
  <2>2. CASE Continue("html", crawl)
    BY <1>1, <2>2 DEF Continue, SamePages, Reads
  <2> QED BY <1>1, <1>2, <2>1, <2>2, GiveUpGivesUp
<1>6. CASE SupplementApiDetail
  BY <1>1, <1>2, <1>6 DEF SupplementApiDetail
<1>7. CASE ReadFallbackDetail
  <2>1. \/ GiveUp("other") \/ Continue("confirm", [crawl EXCEPT !.detail = {Answer}])
    BY <1>7 DEF ReadFallbackDetail
  <2> QED BY <1>0, <1>1, <2>1, GiveUpGivesUp DEF Continue, SamePages, Crawl, Reads
<1>8. CASE ConfirmFallbackDetail
  <2> DEFINE item == [id |-> DetailRow.id, top |-> DetailRow.top,
                      title |-> DetailRow.title, body |-> "full"]
  <2>1. \/ GiveUp("other")
        \/ Continue("entries", [crawl EXCEPT !.queue = Tail(@), !.detail = {},
                                             !.items = @ \cup {item}])
    BY <1>8 DEF ConfirmFallbackDetail
  <2> HIDE DEF item
  <2> QED BY <1>0, <1>1, <2>1, GiveUpGivesUp DEF Continue, SamePages, Crawl, Reads
<1> QED BY <1>3, <1>4, <1>5, <1>6, <1>7, <1>8

LEMMA PagesStart == Init => SInv
<1> SUFFICES ASSUME Init PROVE SInv
  OBVIOUS
<1>1. crawl.pages = <<>> /\ crawl.at = 1 /\ crawl.status = "running" /\ pc = "page"
  BY DEF Init, NewCrawl
<1> QED BY <1>1, TypesStart DEF SInv, InHand, InHandOf, Tracked, Middle, Reads, FirstPass, Ends

LEMMA PagesKept == SInv /\ [Next]_vars => SInv'
<1> SUFFICES ASSUME SInv, [Next]_vars PROVE SInv'
  OBVIOUS
<1>0. TInv'
  BY TypesKept DEF SInv
<1>1. CASE UNCHANGED vars
  BY <1>0, <1>1, SameViews, SameRows DEF vars, SInv, InHand, Tracked, Middle
<1> SUFFICES ASSUME Next PROVE InHand' /\ Tracked' /\ Middle'
  BY <1>0, <1>1 DEF SInv
<1>2. setting' = setting
  BY Unchanged
<1>3. CASE \/ ReadApiPage \/ ConfirmApiEmpty \/ EndApiPage
           \/ ReadFallbackPage \/ ConfirmFallbackEmpty \/ EndFallbackPage
  <2>1. board' = board
    BY <1>3, CrawlStepsAreQuiet DEF CrawlStep, Site
  <2> QED BY <1>2, <1>3, <2>1, ListStepKeepsPages
<1>4. CASE \/ TakeEntry
           \/ ReadApiDetail \/ ConfirmApiDetail \/ SupplementApiDetail
           \/ ReadFallbackDetail \/ ConfirmFallbackDetail
  <2>1. board' = board
    BY <1>4, CrawlStepsAreQuiet DEF CrawlStep, Site
  <2>2. \/ GivenUp
        \/ SamePages /\ crawl'.page = crawl.page /\ pc \in Reads /\ pc' \in Reads
    BY <1>4, RowStepStays DEF SInv
  <2> QED BY <1>2, <2>1, <2>2, GivenUpKeepsPages, WithinPage DEF FirstPass, Reads
<1>5. CASE VerifyApiPage \/ VerifyFallbackPage
  <2>1. board' = board /\ pc = "verify"
    BY <1>5 DEF VerifyApiPage, VerifyFallbackPage, Quiet, Site
  <2>2. PICK finish : SamePage(finish)
    BY <1>5 DEF VerifyApiPage, VerifyFallbackPage
  <2> QED BY <1>2, <2>1, <2>2, SamePageKeepsPages
<1>6. CASE \E category : RequestFails(category)
  <2>1. GivenUp /\ board' = board
    BY <1>6, GiveUpGivesUp DEF RequestFails, Site
  <2> QED BY <1>2, <2>1, GivenUpKeepsPages
<1>7. CASE \E b \in Neighbours(board) : ChangeBoard(b)
  BY <1>7, ChangeBoardKeepsPages
<1>8. CASE \E n \in Notices, content \in Contents : ChangeBody(n, content)
  <2>1. board' = board /\ crawl' = crawl /\ pc' = pc
    BY <1>8 DEF ChangeBody
  <2> QED BY <1>2, <2>1, SameViews, SameRows DEF SInv, InHand, Tracked, Middle
<1> QED BY <1>3, <1>4, <1>5, <1>6, <1>7, <1>8, StepsOfNext

\* Nothing is behind the last page that was read.
LEMMA BehindTheLast ==
    ASSUME SInv, Delivered, ~crawl.returned, NEW k \in Nat, k > Len(crawl.pages)
    PROVE  Rows(crawl.middle, k) = <<>>
<1> DEFINE length == Len(crawl.pages)
<1>0. /\ setting \in Setting /\ crawl.middle \in Board /\ crawl.pages \in Seq(Page)
      /\ length \in Nat /\ DOMAIN crawl.pages = 1..length
  BY LenProperties DEF SInv, TInv, TypeOK, Crawl
<1>1. Rows(crawl.middle, length + 1) = <<>>
  <2>1. CASE crawl.pages # <<>> /\ crawl.pages[length].more = "no"
    <3>1. length \in DOMAIN crawl.pages
      BY <1>0, <2>1, EmptySeq
    <3>2. length < crawl.at
      BY <1>0, <2>1 DEF SInv, InHand, InHandOf, Delivered
    <3>3. crawl.pages[length] = View(crawl.method, crawl.middle, length)
      BY <3>1, <3>2 DEF SInv, Middle, Delivered, Ends
    <3> QED BY <2>1, <3>3, ViewShowsRows
  <2> QED BY <2>1 DEF SInv, Middle, Delivered, Ends
<1>2. length + 1 \in Nat \ {0} /\ k \in Nat \ {0} /\ length + 1 <= k
  BY <1>0
<1> QED BY <1>0, <1>1, <1>2, RowsStayEmpty

LEMMA PagesSnapshot == SInv => OneSnapshot
<1> SUFFICES ASSUME SInv, Delivered, ~crawl.returned, NEW k \in 1..(PageLimit + 1)
             PROVE  IF k \in DOMAIN crawl.pages
                    THEN crawl.pages[k].rows = Rows(crawl.middle, k)
                    ELSE Rows(crawl.middle, k) = <<>>
  BY DEF OneSnapshot
<1>0. DOMAIN crawl.pages = 1..Len(crawl.pages) /\ Len(crawl.pages) \in Nat /\ k \in Nat
  BY LenProperties, PagesAssumption DEF SInv, TInv, TypeOK, Crawl
<1>1. CASE k \in DOMAIN crawl.pages
  <2>1. crawl.pages # <<>>
    BY <1>0, <1>1
  <2>2. k < crawl.at
    BY <1>0, <1>1, <2>1 DEF SInv, InHand, InHandOf, Delivered
  <2>3. crawl.pages[k] = View(crawl.method, crawl.middle, k)
    BY <1>1, <2>2 DEF SInv, Middle, Delivered, Ends
  <2> QED BY <1>1, <2>3, ViewShowsRows
<1>2. CASE k \notin DOMAIN crawl.pages
  <2>1. k > Len(crawl.pages)
    BY <1>0, <1>2
  <2> QED BY <1>0, <1>2, <2>1, BehindTheLast
<1> QED BY <1>1, <1>2

(***************************************************************************)
(* A list that is delivered is the whole board as it was when the first    *)
(* pass ended, whatever was posted, withdrawn, marked or renamed between   *)
(* two requests, for boards and pages of every size.                       *)
(***************************************************************************)
THEOREM DeliveredAsItStood == Spec => []OneSnapshot
<1>1. Init => SInv
  BY PagesStart
<1>2. SInv /\ [Next]_vars => SInv'
  BY PagesKept
<1>3. SInv => OneSnapshot
  BY PagesSnapshot
<1> QED BY <1>1, <1>2, <1>3, PTL DEF Spec

-----------------------------------------------------------------------------
\* What is delivered fits the rows

\* An item agrees with a row that was treated, and has a text.
Fitting(item) ==
    /\ item.body # "none"
    /\ [id |-> item.id, top |-> item.top, title |-> item.title] \in crawl.seen

\* A row the crawl need not read: a known notice that did not change, an old
\* one, or a new one above the limit.
LeftOut(row) ==
    IF row.id \in Known THEN setting.incremental /\ row.id \notin setting.due
    ELSE ~row.top /\ (row.id \in Old \/ Cardinality(NewItems) >= NewLimit)

RowInWork(row) == pc \in Details /\ row = DetailRow

Fits == crawl.failed \/ \A item \in crawl.items : Fitting(item)

Treated ==
    crawl.status # "failed" =>
        \A row \in crawl.seen : row.id \in Ids(crawl.items) \/ LeftOut(row) \/ RowInWork(row)

\* Details are incomplete only where the API gave them, and never in a result.
Sound ==
    /\ IsFiniteSet(crawl.items)
    /\ crawl.failed => /\ crawl.method = "api" /\ crawl.pages # <<>>
                       /\ crawl.status \notin {"success", "empty"}
    /\ pc = "html" => crawl.method = "api"

JInv == SInv /\ Fits /\ Treated /\ Sound

LEMMA NewItemsGrow ==
    ASSUME IsFiniteSet(crawl.items), IsFiniteSet(crawl.items'), crawl.items \subseteq crawl.items'
    PROVE  /\ Cardinality(NewItems) \in Nat /\ Cardinality(NewItems') \in Nat
           /\ Cardinality(NewItems) <= Cardinality(NewItems')
<1>1. /\ NewItems \subseteq NewItems' /\ NewItems \subseteq crawl.items
      /\ NewItems' \subseteq crawl.items'
  BY DEF NewItems
<1>2. IsFiniteSet(NewItems) /\ IsFiniteSet(NewItems')
  BY <1>1, FS_Subset
<1> QED BY <1>1, <1>2, FS_Subset, FS_CardinalityType

\* A row left out stays so, however many items are added.
LEMMA LeftOutStays ==
    ASSUME setting' = setting, NEW row, LeftOut(row),
           IsFiniteSet(crawl.items), IsFiniteSet(crawl.items'), crawl.items \subseteq crawl.items'
    PROVE  LeftOut(row)'
<1>1. CASE row.id \in Known
  BY <1>1 DEF LeftOut
<1>2. CASE row.id \notin Known
  <2>1. Cardinality(NewItems) >= NewLimit => Cardinality(NewItems') >= NewLimit
    BY NewItemsGrow, LimitsAssumption
  <2> QED BY <1>2, <2>1 DEF LeftOut
<1> QED BY <1>1, <1>2

LEMMA GivenUpKeepsItems ==
    ASSUME JInv, GivenUp
    PROVE  Fits' /\ Treated' /\ Sound'
<1>0. crawl \in Crawl
  BY DEF JInv, SInv, TInv, TypeOK
<1>1. CASE crawl' = [crawl EXCEPT !.status = "failed"] /\ pc' = "done"
  <2>1. /\ crawl'.items = crawl.items /\ crawl'.seen = crawl.seen /\ crawl'.pages = crawl.pages
        /\ crawl'.failed = crawl.failed /\ crawl'.method = crawl.method
        /\ crawl'.status = "failed"
    BY <1>0, <1>1 DEF Crawl
  <2> QED BY <1>1, <2>1 DEF JInv, Fits, Fitting, Treated, Sound
<1>2. CASE \E method \in {"browser", "http"} : crawl' = NewCrawl(method) /\ pc' = "page"
  <2>1. crawl'.items = {} /\ crawl'.seen = {} /\ crawl'.failed = FALSE /\ pc' = "page"
    BY <1>2 DEF NewCrawl
  <2> QED BY <2>1, FS_EmptySet DEF Fits, Treated, Sound
<1> QED BY <1>1, <1>2 DEF GivenUp

\* A step that leaves the rows and the items alone.
SameItems ==
    /\ crawl'.items = crawl.items /\ crawl'.seen = crawl.seen
    /\ crawl'.failed = crawl.failed /\ crawl'.method = crawl.method

LEMMA ItemsStay ==
    ASSUME JInv, setting' = setting, SameItems, pc # "done",
           crawl'.pages = <<>> => crawl.pages = <<>>,
           crawl'.status \in {"success", "empty"} => ~crawl.failed,
           pc' = "html" => crawl.method = "api",
           pc \in Details => pc' \in Details /\ crawl'.queue = crawl.queue
    PROVE  Fits' /\ Treated' /\ Sound'
<1>1. Fits'
  BY DEF JInv, Fits, Fitting, SameItems
<1>2. Sound'
  BY DEF JInv, Sound, SameItems
<1>3. Treated'
  <2>1. \A row \in crawl.seen : row.id \in Ids(crawl.items) \/ LeftOut(row) \/ RowInWork(row)
    BY DEF JInv, SInv, InHand, InHandOf, Treated
  <2>2. ASSUME NEW row \in crawl.seen
        PROVE  (row.id \in Ids(crawl.items) \/ LeftOut(row) \/ RowInWork(row))'
    <3>1. CASE row.id \in Ids(crawl.items)
      BY <3>1 DEF Ids, SameItems
    <3>2. CASE LeftOut(row)
      BY <3>2, LeftOutStays DEF JInv, Sound, SameItems
    <3>3. CASE RowInWork(row)
      BY <3>3 DEF RowInWork, DetailRow
    <3> QED BY <2>1, <3>1, <3>2, <3>3
  <2> QED BY <2>2 DEF Treated, SameItems
<1> QED BY <1>1, <1>2, <1>3

LEMMA TakeEntryKeepsItems ==
    ASSUME JInv, setting' = setting, TakeEntry
    PROVE  Fits' /\ Treated' /\ Sound'
<1> PICK row : row = Head(crawl.queue)
  OBVIOUS
<1> DEFINE changed == IF ReadAgain(row) THEN crawl.changed \cup {row.id} ELSE crawl.changed
           queue == IF Wanted(row) THEN crawl.queue ELSE Tail(crawl.queue)
           next == [crawl EXCEPT !.seen = @ \cup {row}, !.changed = changed, !.queue = queue]
<1>0. crawl \in Crawl /\ pc = "entries"
  BY DEF JInv, SInv, TInv, TypeOK, TakeEntry
<1>1. CASE GiveUp("other")
  BY <1>1, GiveUpGivesUp, GivenUpKeepsItems
<1>2. CASE Continue("entries", [crawl EXCEPT !.queue = Tail(@)])
  <2>1. /\ SameItems /\ crawl'.pages = crawl.pages /\ crawl'.status = crawl.status
        /\ pc' = "entries"
    BY <1>0, <1>2 DEF Crawl, Continue, SameItems
  <2> QED BY <1>0, <2>1, ItemsStay DEF Details, JInv, Sound
<1>3. CASE Continue(IF Wanted(row) THEN "detail" ELSE "entries", next)
  <2> HIDE DEF changed
  <2>1. /\ next.items = crawl.items /\ next.failed = crawl.failed /\ next.method = crawl.method
        /\ next.pages = crawl.pages /\ next.status = crawl.status
        /\ next.seen = crawl.seen \cup {row} /\ next.queue = queue
    BY <1>0 DEF Crawl
  <2> HIDE DEF next
  <2>2. /\ crawl'.items = crawl.items /\ crawl'.failed = crawl.failed
        /\ crawl'.method = crawl.method /\ crawl'.pages = crawl.pages
        /\ crawl'.status = crawl.status /\ crawl'.seen = crawl.seen \cup {row}
        /\ crawl'.queue = queue
    BY <1>3, <2>1 DEF Continue
  <2>3. Fits'
    BY <2>2 DEF JInv, Fits, Fitting
  <2>4. Sound'
    BY <1>3, <2>2 DEF JInv, Sound, Continue
  <2>5. \A r \in crawl.seen : r.id \in Ids(crawl.items) \/ LeftOut(r)
    BY <1>0 DEF JInv, SInv, InHand, InHandOf, Treated, RowInWork, Details
  <2>6. \A r : LeftOut(r) => LeftOut(r)'
    BY <2>2, LeftOutStays DEF JInv, Sound
  <2>7. Wanted(row) => RowInWork(row)'
    BY <1>3, <2>2 DEF Continue, RowInWork, DetailRow, Details
  <2>8. ~Wanted(row) => LeftOut(row)
    <3>1. Cardinality(NewItems) \in Nat
      BY <2>2, NewItemsGrow DEF JInv, Sound
    <3> QED BY <3>1, LimitsAssumption DEF Wanted, LeftOut
  <2>9. Ids(crawl.items') = Ids(crawl.items)
    BY <2>2
  <2>10. ASSUME NEW r \in crawl.seen \cup {row}
         PROVE  (r.id \in Ids(crawl.items) \/ LeftOut(r) \/ RowInWork(r))'
    <3>1. CASE r \in crawl.seen
      BY <2>5, <2>6, <2>9, <3>1
    <3>2. CASE r = row
      BY <2>6, <2>7, <2>8, <3>2
    <3> QED BY <3>1, <3>2
  <2>11. Treated'
    BY <2>2, <2>10 DEF Treated
  <2> QED BY <2>3, <2>4, <2>11
<1> QED BY <1>1, <1>2, <1>3 DEF TakeEntry

\* The row in hand is no longer so: an item of its notice is delivered.
LEMMA DeliveryKeepsItems ==
    ASSUME JInv, setting' = setting, pc \in Details, pc' = "entries",
           NEW title, NEW content, NEW failed \in BOOLEAN,
           crawl' = Delivery(ItemOf(title, content), failed),
           crawl.failed => failed,
           failed => crawl.method = "api",
           failed \/ (title = DetailRow.title /\ content # "none")
    PROVE  Fits' /\ Treated' /\ Sound'
<1>0. /\ crawl \in Crawl /\ crawl.queue # <<>> /\ DetailRow \in Row
      /\ DetailRow \in crawl.seen /\ crawl.pages # <<>> /\ crawl.status = "running"
  BY HeadTailProperties
  DEF JInv, SInv, TInv, TypeOK, Crawl, Holding, InHand, InHandOf, Details, Reads, DetailRow
<1> PICK item : item = ItemOf(title, content)
  OBVIOUS
<1>1. /\ item.id = DetailRow.id /\ item.top = DetailRow.top
      /\ item.title = title /\ item.body = content
  BY DEF ItemOf
<1>2. /\ crawl'.items = crawl.items \cup {item} /\ crawl'.seen = crawl.seen
      /\ crawl'.failed = failed /\ crawl'.method = crawl.method
      /\ crawl'.pages = crawl.pages /\ crawl'.status = "running"
  BY <1>0 DEF Crawl, Delivery
<1>3. Fits'
  <2> SUFFICES ASSUME ~failed, NEW i \in crawl.items \cup {item}
               PROVE  Fitting(i)'
    BY <1>2 DEF Fits
  <2>1. CASE i \in crawl.items
    BY <1>2, <2>1 DEF JInv, Fits, Fitting
  <2>2. CASE i = item
    <3>1. [id |-> DetailRow.id, top |-> DetailRow.top, title |-> DetailRow.title] = DetailRow
      BY <1>0 DEF Row
    <3> QED BY <1>0, <1>1, <1>2, <2>2, <3>1 DEF Fitting
  <2> QED BY <2>1, <2>2
<1>4. IsFiniteSet(crawl.items') /\ IsFiniteSet(crawl.items) /\ crawl.items \subseteq crawl.items'
  BY <1>2, FS_AddElement DEF JInv, Sound
<1>5. Sound'
  BY <1>0, <1>2, <1>4 DEF Sound
<1>6. Treated'
  <2> SUFFICES ASSUME NEW row \in crawl.seen
               PROVE  (row.id \in Ids(crawl.items) \/ LeftOut(row) \/ RowInWork(row))'
    BY <1>2 DEF Treated
  <2>1. row.id \in Ids(crawl.items) \/ LeftOut(row) \/ RowInWork(row)
    BY <1>0 DEF JInv, Treated
  <2>2. CASE row.id \in Ids(crawl.items)
    BY <1>2, <2>2 DEF Ids
  <2>3. CASE LeftOut(row)
    BY <1>4, <2>3, LeftOutStays
  <2>4. CASE RowInWork(row)
    <3>1. row.id = item.id
      BY <1>1, <2>4 DEF RowInWork
    <3> QED BY <1>2, <3>1 DEF Ids
  <2> QED BY <2>1, <2>2, <2>3, <2>4
<1> QED BY <1>3, <1>5, <1>6

LEMMA ApiDeliveryKeepsItems ==
    ASSUME JInv, setting' = setting, pc \in Details, crawl.method = "api",
           NEW detail, NEW content, DeliverApi(detail, content)
    PROVE  Fits' /\ Treated' /\ Sound'
<1>1. PICK failed \in BOOLEAN :
        /\ failed <=> crawl.failed \/ detail.title # DetailRow.title \/ content = "none"
        /\ crawl' = Delivery(ItemOf(detail.title, content), failed)
        /\ pc' = "entries"
  BY ApiDelivers
<1> QED BY <1>1, DeliveryKeepsItems

LEMMA DetailStepKeepsItems ==
    ASSUME JInv, setting' = setting,
           ReadApiDetail \/ ConfirmApiDetail \/ SupplementApiDetail
             \/ ReadFallbackDetail \/ ConfirmFallbackDetail
    PROVE  Fits' /\ Treated' /\ Sound'
<1>0. crawl \in Crawl /\ crawl.status = "running" /\ TypeOK /\ Holding
      /\ (pc = "html" => crawl.method = "api")
  BY DEF JInv, SInv, TInv, TypeOK, InHand, InHandOf, Sound,
         ReadApiDetail, ConfirmApiDetail, SupplementApiDetail,
         ReadFallbackDetail, ConfirmFallbackDetail
<1>1. pc \in Details
  BY DEF ReadApiDetail, ConfirmApiDetail, SupplementApiDetail,
         ReadFallbackDetail, ConfirmFallbackDetail, Details
<1>2. \A c : GiveUp(c) => Fits' /\ Treated' /\ Sound'
  BY GiveUpGivesUp, GivenUpKeepsItems
<1>3. ASSUME NEW reading, Continue("confirm", [crawl EXCEPT !.detail = reading])
      PROVE  Fits' /\ Treated' /\ Sound'
  <2>1. /\ SameItems /\ crawl'.pages = crawl.pages /\ crawl'.status = crawl.status
        /\ crawl'.queue = crawl.queue /\ pc' = "confirm"
    BY <1>0, <1>3 DEF Crawl, Continue, SameItems
  <2> QED BY <1>0, <1>1, <2>1, ItemsStay DEF Details
<1>4. CASE ReadApiDetail
  BY <1>3, <1>4 DEF ReadApiDetail
<1>5. CASE ConfirmApiDetail
  <2>1. PICK second : \/ GiveUp("other") \/ Continue("html", crawl)
                      \/ DeliverApi(second, second.body)
    BY <1>5 DEF ConfirmApiDetail
  <2>2. crawl.method = "api"
    BY <1>5 DEF ConfirmApiDetail
  <2>3. CASE Continue("html", crawl)
    <3>1. SameItems /\ crawl' = crawl /\ pc' = "html"
      BY <2>3 DEF Continue, SameItems
    <3> QED BY <1>0, <1>1, <2>2, <3>1, ItemsStay DEF Details
  <2>4. CASE DeliverApi(second, second.body)
    BY <1>1, <2>2, <2>4, ApiDeliveryKeepsItems
  <2> QED BY <1>2, <2>1, <2>3, <2>4
<1>6. CASE SupplementApiDetail
  <2>1. PICK detail, content : DeliverApi(detail, content)
    BY <1>6 DEF SupplementApiDetail
  <2>2. crawl.method = "api"
    BY <1>0, <1>6 DEF SupplementApiDetail
  <2> QED BY <1>1, <2>1, <2>2, ApiDeliveryKeepsItems
<1>7. CASE ReadFallbackDetail
  BY <1>2, <1>3, <1>7 DEF ReadFallbackDetail
<1>8. CASE ConfirmFallbackDetail
  <2>1. \/ GiveUp("other")
        \/ Continue("entries",
             [crawl EXCEPT !.queue = Tail(@), !.detail = {},
                !.items = @ \cup {[id |-> DetailRow.id, top |-> DetailRow.top,
                                   title |-> DetailRow.title, body |-> "full"]}])
    BY <1>8 DEF ConfirmFallbackDetail
  <2>2. CASE Continue("entries",
             [crawl EXCEPT !.queue = Tail(@), !.detail = {},
                !.items = @ \cup {[id |-> DetailRow.id, top |-> DetailRow.top,
                                   title |-> DetailRow.title, body |-> "full"]}])
    <3>1. crawl' = Delivery(ItemOf(DetailRow.title, "full"), crawl.failed)
      BY <1>0, <1>1, <2>2, FallbackDeliveryTyped
    <3>2. pc' = "entries" /\ crawl.failed \in BOOLEAN
      BY <1>0, <2>2 DEF Continue, Crawl
    <3>3. crawl.failed => crawl.method = "api"
      BY DEF JInv, Sound
    <3> QED BY <1>1, <3>1, <3>2, <3>3, DeliveryKeepsItems
  <2> QED BY <1>2, <2>1, <2>2
<1> QED BY <1>4, <1>5, <1>6, <1>7, <1>8

\* The steps over the list leave the items alone.
LEMMA ListStepKeepsItems ==
    ASSUME JInv, setting' = setting,
           \/ ReadApiPage \/ ConfirmApiEmpty \/ EndApiPage
             \/ ReadFallbackPage \/ ConfirmFallbackEmpty \/ EndFallbackPage
           \/ VerifyApiPage \/ VerifyFallbackPage
    PROVE  Fits' /\ Treated' /\ Sound'
<1>0. crawl \in Crawl /\ pc \notin Details /\ pc # "done" /\ crawl.status = "running"
  BY DEF JInv, SInv, TInv, TypeOK, InHand, InHandOf, Details,
         ReadApiPage, ConfirmApiEmpty, EndApiPage, ReadFallbackPage, ConfirmFallbackEmpty,
         EndFallbackPage, VerifyApiPage, VerifyFallbackPage
<1>1. \A c : GiveUp(c) => Fits' /\ Treated' /\ Sound'
  BY GiveUpGivesUp, GivenUpKeepsItems
<1>2. ASSUME SameItems, crawl'.pages = <<>> => crawl.pages = <<>>,
             crawl'.status \in {"success", "empty"} => ~crawl.failed, pc' # "html"
      PROVE  Fits' /\ Treated' /\ Sound'
  BY <1>0, <1>2, ItemsStay
<1>3. ASSUME EndPass([crawl EXCEPT !.middle = board])
      PROVE  Fits' /\ Treated' /\ Sound'
  <2>1. CASE GivenUp
    BY <2>1, GivenUpKeepsItems
  <2>2. CASE pc' = "verify" /\ crawl' = [crawl EXCEPT !.middle = board]
    <3>1. SameItems /\ crawl'.pages = crawl.pages /\ crawl'.status = "running"
      BY <1>0, <2>2 DEF Crawl, SameItems
    <3> QED BY <1>2, <2>2, <3>1
  <2>3. CASE /\ crawl.pages = <<>> /\ pc' = "done"
             /\ crawl' = [crawl EXCEPT !.middle = board, !.status = "empty",
                                       !.topsVerified = TRUE]
    <3>1. SameItems /\ crawl'.pages = crawl.pages
      BY <1>0, <2>3 DEF Crawl, SameItems
    <3>2. ~crawl.failed
      BY <2>3 DEF JInv, Sound
    <3> QED BY <1>2, <2>3, <3>1, <3>2
  <2> QED BY <1>0, <1>3, <2>1, <2>2, <2>3, EndPassEnds
<1>4. CASE ReadApiPage \/ ReadFallbackPage
  <2>1. ASSUME NEW page, Continue("empty", [crawl EXCEPT !.page = page])
        PROVE  Fits' /\ Treated' /\ Sound'
    <3>1. SameItems /\ crawl'.pages = crawl.pages /\ crawl'.status = "running" /\ pc' = "empty"
      BY <1>0, <2>1 DEF Crawl, SameItems, Continue
    <3> QED BY <1>2, <3>1
  <2>2. CASE Continue("entries", [crawl EXCEPT !.pages = Append(@, Current(NextPage)),
                                               !.page = Current(NextPage),
                                               !.queue = Current(NextPage).rows])
    <3>1. /\ SameItems /\ crawl'.pages = Append(crawl.pages, Current(NextPage))
          /\ crawl'.status = "running" /\ pc' = "entries"
      BY <1>0, <2>2 DEF Crawl, SameItems, Continue
    <3>2. Append(crawl.pages, Current(NextPage)) # <<>>
      <4>1. Current(NextPage) \in Page /\ crawl.pages \in Seq(Page)
        BY <1>0, NextPageIsNatural, ViewTyped DEF JInv, SInv, TInv, TypeOK, Current, Crawl
      <4> QED BY <4>1, AppendProperties
    <3> QED BY <1>2, <3>1, <3>2
  <2> QED BY <1>1, <1>4, <2>1, <2>2 DEF ReadApiPage, ReadFallbackPage
<1>5. CASE ConfirmApiEmpty \/ ConfirmFallbackEmpty
  BY <1>1, <1>3, <1>5 DEF ConfirmApiEmpty, ConfirmFallbackEmpty
<1>6. CASE EndApiPage \/ EndFallbackPage
  <2>1. CASE Continue("page", crawl)
    <3>1. SameItems /\ crawl' = crawl /\ pc' = "page"
      BY <2>1 DEF SameItems, Continue
    <3> QED BY <1>0, <1>2, <3>1
  <2> QED BY <1>1, <1>3, <1>6, <2>1 DEF EndApiPage, EndFallbackPage
<1>7. ASSUME NEW finish, SamePage(finish), finish => ~crawl.failed
      PROVE  Fits' /\ Treated' /\ Sound'
  <2>1. CASE crawl' = NextAt /\ pc' = "verify"
    <3>1. SameItems /\ crawl'.pages = crawl.pages /\ crawl'.status = "running"
      BY <1>0, <2>1 DEF Crawl, SameItems, NextAt
    <3> QED BY <1>2, <2>1, <3>1
  <2>2. CASE finish /\ pc' = "done" /\ crawl' = [NextAt EXCEPT !.status = "success"]
    <3>1. SameItems /\ crawl'.pages = crawl.pages
      BY <1>0, <2>2 DEF Crawl, SameItems, NextAt
    <3> QED BY <1>2, <1>7, <2>2, <3>1
  <2> QED BY <1>7, <2>1, <2>2, SamePageGoesOn, GivenUpKeepsItems
<1>8. CASE VerifyApiPage
  <2>1. SamePage(Missed = {} /\ ~crawl.failed)
    BY <1>8 DEF VerifyApiPage
  <2> QED BY <1>7, <2>1
<1>9. CASE VerifyFallbackPage
  <2>1. SamePage(Missed = {}) /\ ~crawl.failed
    BY <1>9 DEF VerifyFallbackPage, JInv, Sound
  <2> QED BY <1>7, <2>1
<1> QED BY <1>4, <1>5, <1>6, <1>8, <1>9

LEMMA ItemsStart == Init => JInv
<1> SUFFICES ASSUME Init PROVE JInv
  OBVIOUS
<1>1. crawl.items = {} /\ crawl.seen = {} /\ crawl.failed = FALSE /\ pc = "page"
  BY DEF Init, NewCrawl
<1> QED BY <1>1, PagesStart, FS_EmptySet DEF JInv, Fits, Treated, Sound

LEMMA ItemsKept == JInv /\ [Next]_vars => JInv'
<1> SUFFICES ASSUME JInv, [Next]_vars PROVE JInv'
  OBVIOUS
<1>0. SInv'
  BY PagesKept DEF JInv
<1>1. CASE UNCHANGED vars
  BY <1>0, <1>1 DEF vars, JInv, Fits, Fitting, Treated, Sound, LeftOut, NewItems, RowInWork,
     DetailRow
<1> SUFFICES ASSUME Next PROVE Fits' /\ Treated' /\ Sound'
  BY <1>0, <1>1 DEF JInv
<1>2. setting' = setting
  BY Unchanged
<1>3. CASE \/ ReadApiPage \/ ConfirmApiEmpty \/ EndApiPage
             \/ ReadFallbackPage \/ ConfirmFallbackEmpty \/ EndFallbackPage
           \/ VerifyApiPage \/ VerifyFallbackPage
  BY <1>2, <1>3, ListStepKeepsItems
<1>4. CASE TakeEntry
  BY <1>2, <1>4, TakeEntryKeepsItems
<1>5. CASE \/ ReadApiDetail \/ ConfirmApiDetail \/ SupplementApiDetail
           \/ ReadFallbackDetail \/ ConfirmFallbackDetail
  BY <1>2, <1>5, DetailStepKeepsItems
<1>6. CASE \E category : RequestFails(category)
  BY <1>6, GiveUpGivesUp, GivenUpKeepsItems DEF RequestFails
<1>7. ASSUME SameItems, crawl'.pages = crawl.pages, crawl'.status = crawl.status,
             crawl'.queue = crawl.queue, pc' = pc, pc # "done"
      PROVE  Fits' /\ Treated' /\ Sound'
  <2>1. crawl.status = "running" /\ (pc = "html" => crawl.method = "api")
    BY <1>7 DEF JInv, SInv, InHand, InHandOf, Sound
  <2> QED BY <1>2, <1>7, <2>1, ItemsStay
<1>8. CASE \E b \in Neighbours(board) : ChangeBoard(b)
  <2>1. crawl \in Crawl
    BY DEF JInv, SInv, TInv, TypeOK
  <2>2. /\ SameItems /\ crawl'.pages = crawl.pages /\ crawl'.status = crawl.status
        /\ crawl'.queue = crawl.queue /\ pc' = pc /\ pc # "done"
    BY <1>8, <2>1 DEF ChangeBoard, SameItems, Crawl
  <2> QED BY <1>7, <2>2
<1>9. CASE \E n \in Notices, content \in Contents : ChangeBody(n, content)
  BY <1>7, <1>9 DEF ChangeBody, SameItems
<1> QED BY <1>3, <1>4, <1>5, <1>6, <1>8, <1>9, StepsOfNext

(***************************************************************************)
(* Every notice delivered agrees with its row of the list and has a text,  *)
(* and every row that had to be read was: what the readings of a detail,   *)
(* the incomplete ones and the limit leave out never hides in a result.    *)
(***************************************************************************)
THEOREM DeliveredFits == Spec => []ItemsFit
<1>1. Init => JInv
  BY ItemsStart
<1>2. JInv /\ [Next]_vars => JInv'
  BY ItemsKept
<1>3. JInv => ItemsFit
  <2> SUFFICES ASSUME JInv, Delivered PROVE ItemsFit
    BY DEF ItemsFit
  <2>1. ~crawl.failed /\ crawl.status # "failed"
    BY DEF JInv, Sound, Delivered
  <2>2. \A item \in crawl.items : Fitting(item)
    BY <2>1 DEF JInv, Fits
  <2>3. \A row \in crawl.seen : row.id \in Ids(crawl.items) \/ LeftOut(row)
    BY <2>1 DEF JInv, Treated, RowInWork, Delivered, Details
  <2> QED BY <2>2, <2>3 DEF ItemsFit, Fitting, LeftOut
<1> QED BY <1>1, <1>2, <1>3, PTL DEF Spec

-----------------------------------------------------------------------------
\* A board that rests is read

\* Where the rows of a page are in the list.
LEMMA CutRows ==
    ASSUME setting \in Setting, NEW S, NEW rows \in Seq(S), NEW k \in Nat \ {0}
    PROVE  /\ Len(Cut(rows, k)) \in Nat /\ Len(Cut(rows, k)) <= setting.size
           /\ \A i \in 1..Len(Cut(rows, k)) :
                 /\ (k - 1) * setting.size + i \in DOMAIN rows
                 /\ Cut(rows, k)[i] = rows[(k - 1) * setting.size + i]
           /\ \A i \in 1..setting.size :
                 (k - 1) * setting.size + i <= Len(rows) => i <= Len(Cut(rows, k))
<1> DEFINE before == (k - 1) * setting.size
           first == before + 1
           last == IF k * setting.size < Len(rows) THEN k * setting.size ELSE Len(rows)
<1>1. setting.size \in Nat \ {0}
  BY DEF Setting
<1>2. /\ Len(rows) \in Nat /\ DOMAIN rows = 1..Len(rows)
      /\ before \in Nat
      /\ k * setting.size = before + setting.size
  BY <1>1, Offsets, LenProperties
<1>3. /\ first \in Nat \ {0} /\ last \in Nat /\ last <= Len(rows)
      /\ last = IF before + setting.size < Len(rows) THEN before + setting.size ELSE Len(rows)
  BY <1>1, <1>2
<1>4. \A i \in first..last : rows[i] \in S
  BY <1>3, ElementOfSeq, LenProperties
<1>5. Cut(rows, k) = SubSeq(rows, first, last)
  BY DEF Cut
<1> HIDE DEF before, first, last
<1>6. /\ Len(SubSeq(rows, first, last)) = IF first <= last THEN last - first + 1 ELSE 0
      /\ \A i \in 1..(last - first + 1) : SubSeq(rows, first, last)[i] = rows[first + i - 1]
  BY <1>3, <1>4, SubSeqProperties
<1> PICK cut : cut = Cut(rows, k)
  OBVIOUS
<1>7. /\ Len(cut) = IF first <= last THEN last - first + 1 ELSE 0
      /\ \A i \in 1..(last - first + 1) : cut[i] = rows[first + i - 1]
  BY <1>5, <1>6
<1> PICK length : length = Len(cut)
  OBVIOUS
<1>8. /\ length \in Nat /\ length = IF before + 1 <= last THEN last - before ELSE 0
      /\ \A i \in 1..(last - before) : cut[i] = rows[before + i]
  <2>1. first = before + 1
    BY DEF first
  <2>2. before \in Nat /\ last \in Nat
    BY <1>2, <1>3
  <2>3. /\ length = IF before + 1 <= last THEN last - (before + 1) + 1 ELSE 0
        /\ \A i \in 1..(last - (before + 1) + 1) : cut[i] = rows[before + 1 + i - 1]
    BY <1>7, <2>1
  <2>4. last - (before + 1) + 1 = last - before
    BY <2>2
  <2>5. \A i \in 1..(last - before) : before + 1 + i - 1 = before + i
    BY <2>2
  <2> QED BY <2>2, <2>3, <2>4, <2>5
<1>9. ASSUME NEW i \in 1..length
      PROVE  before + i \in DOMAIN rows /\ cut[i] = rows[before + i]
  <2>1. before \in Nat /\ last \in Nat /\ last <= Len(rows) /\ Len(rows) \in Nat
    BY <1>2, <1>3
  <2>2. i \in 1..(last - before)
    BY <1>8, <2>1
  <2>3. before + i \in 1..Len(rows)
    BY <2>1, <2>2
  <2> QED BY <1>2, <1>8, <2>2, <2>3
<1>10. ASSUME NEW i \in 1..setting.size, before + i <= Len(rows)
       PROVE  i <= length
  <2> PICK size : size = setting.size
    OBVIOUS
  <2>1. /\ before \in Nat /\ size \in Nat \ {0} /\ Len(rows) \in Nat /\ i \in 1..size
        /\ last = IF before + size < Len(rows) THEN before + size ELSE Len(rows)
    BY <1>1, <1>2, <1>3
  <2>2. before + i <= last
    BY <1>10, <2>1
  <2> QED BY <1>8, <2>1, <2>2
<1>11. length <= setting.size
  <2> PICK size : size = setting.size
    OBVIOUS
  <2>1. /\ before \in Nat /\ size \in Nat \ {0} /\ Len(rows) \in Nat
        /\ last = IF before + size < Len(rows) THEN before + size ELSE Len(rows)
    BY <1>1, <1>2, <1>3
  <2> QED BY <1>8, <2>1
<1> QED BY <1>8, <1>9, <1>10, <1>11 DEF before

LEMMA PageOfRow ==
    ASSUME NEW size \in Nat \ {0}, NEW i \in Nat \ {0}
    PROVE  \E k \in Nat \ {0}, j \in 1..size : i = (k - 1) * size + j
<1> DEFINE q == (i - 1) \div size
           r == (i - 1) % size
<1>1. q \in Nat /\ r \in 0..(size - 1) /\ i - 1 = size * q + r
  OBVIOUS
<1> HIDE DEF q, r
<1>2. q + 1 \in Nat \ {0} /\ r + 1 \in 1..size /\ (q + 1) - 1 = q
  BY <1>1
<1>3. size * q = q * size
  BY <1>1
<1>4. i = ((q + 1) - 1) * size + (r + 1)
  BY <1>1, <1>2, <1>3
<1> QED BY <1>2, <1>4

\* The pages before an empty one show the whole list.
LEMMA CutsCover ==
    ASSUME setting \in Setting, NEW S, NEW rows \in Seq(S), NEW n \in Nat,
           Cut(rows, n + 1) = <<>>, NEW i \in DOMAIN rows
    PROVE  \E k \in 1..n : rows[i] \in ToSet(Cut(rows, k))
<1>1. setting.size \in Nat \ {0}
  BY DEF Setting
<1>2. Len(rows) \in Nat /\ DOMAIN rows = 1..Len(rows) /\ i \in Nat \ {0}
  BY LenProperties
<1>3. PICK k \in Nat \ {0}, j \in 1..setting.size : i = (k - 1) * setting.size + j
  BY <1>1, <1>2, PageOfRow
<1>4. j <= Len(Cut(rows, k)) /\ Len(Cut(rows, k)) \in Nat
      /\ Cut(rows, k)[j] = rows[i]
  BY <1>2, <1>3, CutRows
<1>5. k <= n
  <2> SUFFICES ASSUME n + 1 <= k PROVE FALSE
    OBVIOUS
  <2>1. Cut(rows, k) = <<>>
    BY CutStaysEmpty
  <2> QED BY <1>4, <2>1
<1>6. Cut(rows, k) \in Seq(S)
  BY CutTyped
<1>7. j \in DOMAIN Cut(rows, k)
  BY <1>4, <1>6, LenProperties
<1> QED BY <1>4, <1>5, <1>7 DEF ToSet

LEMMA ConcatSet ==
    ASSUME NEW S, NEW s \in Seq(S), NEW t \in Seq(S)
    PROVE  ToSet(s \o t) = ToSet(s) \cup ToSet(t)
<1>1. /\ Len(s) \in Nat /\ DOMAIN s = 1..Len(s) /\ Len(t) \in Nat /\ DOMAIN t = 1..Len(t)
      /\ DOMAIN (s \o t) = 1..(Len(s) + Len(t))
  BY LenProperties, ConcatProperties
<1>2. \A i \in 1..(Len(s) + Len(t)) :
         (s \o t)[i] = IF i <= Len(s) THEN s[i] ELSE t[i - Len(s)]
  BY ConcatProperties
<1>3. ASSUME NEW x \in ToSet(s \o t) PROVE x \in ToSet(s) \cup ToSet(t)
  <2>1. PICK i \in 1..(Len(s) + Len(t)) : x = (s \o t)[i]
    BY <1>1 DEF ToSet
  <2>2. CASE i <= Len(s)
    BY <1>1, <1>2, <2>1, <2>2 DEF ToSet
  <2>3. CASE ~(i <= Len(s))
    <3>1. i - Len(s) \in DOMAIN t
      BY <1>1, <2>3
    <3> QED BY <1>2, <2>1, <2>3, <3>1 DEF ToSet
  <2> QED BY <2>2, <2>3
<1>4. ASSUME NEW x \in ToSet(s) PROVE x \in ToSet(s \o t)
  <2>1. PICK i \in 1..Len(s) : x = s[i]
    BY <1>1 DEF ToSet
  <2>2. i \in 1..(Len(s) + Len(t)) /\ (s \o t)[i] = x
    BY <1>1, <1>2, <2>1
  <2> QED BY <1>1, <2>2 DEF ToSet
<1>5. ASSUME NEW x \in ToSet(t) PROVE x \in ToSet(s \o t)
  <2>1. PICK i \in 1..Len(t) : x = t[i]
    BY <1>1 DEF ToSet
  <2>2. Len(s) + i \in 1..(Len(s) + Len(t)) /\ ~(Len(s) + i <= Len(s)) /\ (Len(s) + i) - Len(s) = i
    BY <1>1
  <2>3. (s \o t)[Len(s) + i] = x
    BY <1>2, <2>1, <2>2
  <2> QED BY <1>1, <2>2, <2>3 DEF ToSet
<1> QED BY <1>3, <1>4, <1>5

LEMMA CutSet ==
    ASSUME setting \in Setting, NEW S, NEW rows \in Seq(S), NEW k \in Nat \ {0}
    PROVE  ToSet(Cut(rows, k)) \subseteq ToSet(rows)
<1>1. DOMAIN Cut(rows, k) = 1..Len(Cut(rows, k))
  BY CutTyped, LenProperties
<1> QED BY <1>1, CutRows DEF ToSet

\* A page shows rows of the list.
LEMMA RowsListed ==
    ASSUME setting \in Setting, NEW b \in Board, NEW k \in Nat \ {0}
    PROVE  ToSet(Rows(b, k)) \subseteq ToSet(Listing(b))
<1>1. b.tops \in Seq(Row) /\ b.others \in Seq(Row) /\ Listing(b) \in Seq(Row)
  BY PartsAreRows
<1>2. /\ Cut(b.others, k) \in Seq(Row)
      /\ ToSet(Cut(b.others, k)) \subseteq ToSet(b.others)
      /\ ToSet(Cut(Listing(b), k)) \subseteq ToSet(Listing(b))
  BY <1>1, CutTyped, CutSet
<1>3. /\ ToSet(Listing(b)) = ToSet(b.tops) \cup ToSet(b.others)
      /\ ToSet(b.tops \o Cut(b.others, k)) = ToSet(b.tops) \cup ToSet(Cut(b.others, k))
  BY <1>1, <1>2, ConcatSet DEF Listing
<1>4. ToSet(<<>>) = {}
  BY DEF ToSet
<1> QED BY <1>2, <1>3, <1>4 DEF Rows

LEMMA RowsOfBoth ==
    ASSUME setting \in Setting, NEW b \in Board, NEW k \in Nat \ {0}
    PROVE  setting.repeats =>
           /\ Rows(b, k) = <<>> => Cut(b.others, k) = <<>> /\ (k = 1 => b.tops = <<>>)
           /\ Rows(b, k) # <<>> => Rows(b, k) = b.tops \o Cut(b.others, k)
                                   /\ (k > 1 => Cut(b.others, k) # <<>>)
           /\ Cut(b.others, k) # <<>> => Rows(b, k) # <<>>
           /\ k = 1 /\ b.tops # <<>> => Rows(b, k) # <<>>
<1> HAVE setting.repeats
<1>1. b.tops \in Seq(Row) /\ Cut(b.others, k) \in Seq(Row)
  BY PartsAreRows, CutTyped
<1> PICK both : both = b.tops \o Cut(b.others, k)
  OBVIOUS
<1>2. both = <<>> <=> b.tops = <<>> /\ Cut(b.others, k) = <<>>
  BY <1>1, ConcatEqualIffEmpty, ConcatProperties, EmptySeq
<1>3. Rows(b, k) = IF k > 1 /\ Cut(b.others, k) = <<>> THEN <<>> ELSE both
  BY DEF Rows
<1>4. CASE k > 1
  <2>1. k # 1
    BY <1>4
  <2>2. CASE Cut(b.others, k) = <<>>
    <3>1. Rows(b, k) = <<>>
      BY <1>3, <1>4, <2>2
    <3> QED BY <2>1, <2>2, <3>1
  <2>3. CASE Cut(b.others, k) # <<>>
    <3>1. Rows(b, k) = both /\ both # <<>>
      BY <1>2, <1>3, <2>3
    <3> QED BY <2>3, <3>1
  <2> QED BY <2>2, <2>3
<1>5. CASE ~(k > 1)
  <2>1. Rows(b, k) = both
    BY <1>3, <1>5
  <2> QED BY <1>2, <1>5, <2>1
<1> QED BY <1>4, <1>5

\* The pages before an empty one show every row of the board.
LEMMA RowsCover ==
    ASSUME setting \in Setting, NEW b \in Board, NEW n \in Nat, Rows(b, n + 1) = <<>>,
           NEW row \in ToSet(Listing(b))
    PROVE  \E k \in 1..n : row \in ToSet(Rows(b, k))
<1>1. b.tops \in Seq(Row) /\ b.others \in Seq(Row) /\ Listing(b) \in Seq(Row)
  BY PartsAreRows
<1>2. n + 1 \in Nat \ {0}
  OBVIOUS
<1>3. CASE ~setting.repeats
  <2>1. \A k \in Nat : Rows(b, k) = Cut(Listing(b), k)
    BY <1>3 DEF Rows
  <2>2. PICK i \in DOMAIN Listing(b) : row = Listing(b)[i]
    BY DEF ToSet
  <2>3. \E k \in 1..n : row \in ToSet(Cut(Listing(b), k))
    BY <1>1, <1>2, <2>1, <2>2, CutsCover
  <2> QED BY <2>1, <2>3
<1>4. CASE setting.repeats
  <2>1. Cut(b.others, n + 1) = <<>> /\ (n = 0 => b.tops = <<>>)
    <3> PICK next : next = n + 1
      OBVIOUS
    <3>1. next \in Nat \ {0} /\ (n = 0 => next = 1)
      OBVIOUS
    <3>2. Cut(b.others, next) = <<>> /\ (next = 1 => b.tops = <<>>)
      BY <1>4, <3>1, RowsOfBoth
    <3> QED BY <3>1, <3>2
  <2>2. row \in ToSet(b.tops) \/ row \in ToSet(b.others)
    BY <1>1, ConcatSet DEF Listing
  <2>3. ASSUME NEW k \in 1..n, Rows(b, k) # <<>>
        PROVE  ToSet(Rows(b, k)) = ToSet(b.tops) \cup ToSet(Cut(b.others, k))
    <3>0. k \in Nat \ {0}
      OBVIOUS
    <3>1. Cut(b.others, k) \in Seq(Row)
      BY <1>1, <3>0, CutTyped
    <3>2. Rows(b, k) = b.tops \o Cut(b.others, k)
      BY <1>4, <2>3, <3>0, RowsOfBoth
    <3> QED BY <1>1, <3>1, <3>2, ConcatSet
  <2>4. CASE row \in ToSet(b.tops)
    <3>1. b.tops # <<>>
      BY <2>4 DEF ToSet
    <3>2. 1 \in 1..n
      BY <2>1, <3>1
    <3>3. Rows(b, 1) # <<>>
      <4>1. 1 \in Nat \ {0}
        OBVIOUS
      <4> QED BY <1>4, <3>1, <4>1, RowsOfBoth
    <3> QED BY <2>3, <2>4, <3>2, <3>3
  <2>5. CASE row \in ToSet(b.others)
    <3>1. PICK i \in DOMAIN b.others : row = b.others[i]
      BY <2>5 DEF ToSet
    <3>2. PICK k \in 1..n : row \in ToSet(Cut(b.others, k))
      BY <1>1, <2>1, <3>1, CutsCover
    <3>3. Cut(b.others, k) # <<>>
      BY <3>2 DEF ToSet
    <3>4. Rows(b, k) # <<>>
      <4>1. k \in Nat \ {0}
        OBVIOUS
      <4> QED BY <1>4, <3>3, <4>1, RowsOfBoth
    <3> QED BY <2>3, <3>2, <3>4
  <2> QED BY <2>2, <2>4, <2>5
<1> QED BY <1>3, <1>4

\* The places of the two first rows of a kind on two pages differ.
LEMMA OffsetsDiffer ==
    ASSUME NEW size \in Nat \ {0}, NEW j \in Nat \ {0}, NEW k \in Nat \ {0}, j < k
    PROVE  (j - 1) * size + 1 # (k - 1) * size + 1
<1>1. PICK d \in Nat \ {0} : k = j + d
  <2>1. k - j \in Nat \ {0} /\ k = j + (k - j)
    OBVIOUS
  <2> QED BY <2>1
<1>2. (k - 1) * size = (j - 1) * size + d * size
  BY <1>1
<1>3. d * size \in Nat \ {0} /\ (j - 1) * size \in Nat
  OBVIOUS
<1> QED BY <1>2, <1>3

\* The first rows of two pages of a list are at different places of it.
LEMMA CutsDiffer ==
    ASSUME setting \in Setting, NEW S, NEW rows \in Seq(S),
           NEW j \in Nat \ {0}, NEW k \in Nat \ {0}, j < k, Cut(rows, k) # <<>>
    PROVE  \E p, q \in DOMAIN rows :
             /\ p # q
             /\ 1 \in DOMAIN Cut(rows, j) /\ Cut(rows, j)[1] = rows[p]
             /\ 1 \in DOMAIN Cut(rows, k) /\ Cut(rows, k)[1] = rows[q]
<1>1. setting.size \in Nat \ {0}
  BY DEF Setting
<1>2. Cut(rows, j) # <<>>
  BY CutStaysEmpty
<1>3. /\ 1 \in 1..Len(Cut(rows, j)) /\ DOMAIN Cut(rows, j) = 1..Len(Cut(rows, j))
      /\ 1 \in 1..Len(Cut(rows, k)) /\ DOMAIN Cut(rows, k) = 1..Len(Cut(rows, k))
  <2>1. Cut(rows, j) \in Seq(S) /\ Cut(rows, k) \in Seq(S)
    BY CutTyped
  <2>2. Len(Cut(rows, j)) \in Nat \ {0} /\ Len(Cut(rows, k)) \in Nat \ {0}
    BY <1>2, <2>1, EmptySeq
  <2> QED BY <2>1, <2>2, LenProperties
<1>4. /\ (j - 1) * setting.size + 1 \in DOMAIN rows
      /\ Cut(rows, j)[1] = rows[(j - 1) * setting.size + 1]
      /\ (k - 1) * setting.size + 1 \in DOMAIN rows
      /\ Cut(rows, k)[1] = rows[(k - 1) * setting.size + 1]
  BY <1>3, CutRows
<1>5. (j - 1) * setting.size + 1 # (k - 1) * setting.size + 1
  BY <1>1, OffsetsDiffer
<1> QED BY <1>3, <1>4, <1>5

LEMMA Behind ==
    ASSUME NEW t \in Nat, NEW n \in Nat, NEW i \in 1..n
    PROVE  t + i \in 1..(t + n) /\ ~(t + i <= t) /\ t + i - t = i
OBVIOUS

\* No two pages show the same notices.
LEMMA PagesDiffer ==
    ASSUME setting \in Setting, NEW b \in Board, ListedOnce(b),
           NEW j \in Nat \ {0}, NEW k \in Nat \ {0}, j < k, Rows(b, k) # <<>>
    PROVE  \E i \in DOMAIN Rows(b, j) \cap DOMAIN Rows(b, k) :
              Rows(b, j)[i].id # Rows(b, k)[i].id
<1>1. b.tops \in Seq(Row) /\ b.others \in Seq(Row) /\ Listing(b) \in Seq(Row)
  BY PartsAreRows
<1>2. CASE ~setting.repeats
  <2>1. Rows(b, j) = Cut(Listing(b), j) /\ Rows(b, k) = Cut(Listing(b), k)
    BY <1>2 DEF Rows
  <2>2. PICK p, q \in DOMAIN Listing(b) :
             /\ p # q
             /\ 1 \in DOMAIN Rows(b, j) /\ Rows(b, j)[1] = Listing(b)[p]
             /\ 1 \in DOMAIN Rows(b, k) /\ Rows(b, k)[1] = Listing(b)[q]
    BY <1>1, <2>1, CutsDiffer
  <2>3. Listing(b)[p].id # Listing(b)[q].id
    BY <2>2 DEF ListedOnce
  <2> QED BY <2>2, <2>3
<1>3. CASE setting.repeats
  <2>0. k > 1
    OBVIOUS
  <2>1. Rows(b, k) = b.tops \o Cut(b.others, k) /\ Cut(b.others, k) # <<>>
    BY <1>3, <2>0, RowsOfBoth
  <2>2. PICK p, q \in DOMAIN b.others :
             /\ p # q
             /\ 1 \in DOMAIN Cut(b.others, j) /\ Cut(b.others, j)[1] = b.others[p]
             /\ 1 \in DOMAIN Cut(b.others, k) /\ Cut(b.others, k)[1] = b.others[q]
    BY <1>1, <2>1, CutsDiffer
  <2>3. Cut(b.others, j) # <<>>
    BY <2>2
  <2>4. Rows(b, j) = b.tops \o Cut(b.others, j)
    BY <1>3, <2>3, RowsOfBoth
  <2> PICK t : t = Len(b.tops)
    OBVIOUS
  <2>5. /\ t \in Nat
        /\ Cut(b.others, j) \in Seq(Row) /\ Cut(b.others, k) \in Seq(Row)
        /\ 1 \in 1..Len(Cut(b.others, j)) /\ Len(Cut(b.others, j)) \in Nat
        /\ 1 \in 1..Len(Cut(b.others, k)) /\ Len(Cut(b.others, k)) \in Nat
        /\ Len(b.others) \in Nat /\ DOMAIN b.others = 1..Len(b.others)
    BY <1>1, <2>2, CutTyped, LenProperties
  <2>6. ASSUME NEW s \in Seq(Row), 1 \in 1..Len(s), Len(s) \in Nat
        PROVE  t + 1 \in DOMAIN (b.tops \o s) /\ (b.tops \o s)[t + 1] = s[1]
    <3>1. t + 1 \in 1..(Len(b.tops) + Len(s)) /\ ~(t + 1 <= Len(b.tops)) /\ t + 1 - Len(b.tops) = 1
      BY <2>5, <2>6
    <3>2. /\ DOMAIN (b.tops \o s) = 1..(Len(b.tops) + Len(s))
          /\ (b.tops \o s)[t + 1] = s[t + 1 - Len(b.tops)]
      BY <1>1, <3>1, ConcatProperties, LenProperties
    <3> QED BY <3>1, <3>2
  <2>7. /\ t + 1 \in DOMAIN Rows(b, j) /\ Rows(b, j)[t + 1] = b.others[p]
        /\ t + 1 \in DOMAIN Rows(b, k) /\ Rows(b, k)[t + 1] = b.others[q]
    BY <2>1, <2>2, <2>4, <2>5, <2>6
  <2>8. ASSUME NEW i \in DOMAIN b.others
        PROVE  t + i \in DOMAIN Listing(b) /\ Listing(b)[t + i] = b.others[i]
    <3>1. t + i \in 1..(Len(b.tops) + Len(b.others)) /\ ~(t + i <= Len(b.tops))
          /\ t + i - Len(b.tops) = i
      <4>1. i \in 1..Len(b.others) /\ Len(b.others) \in Nat /\ t \in Nat /\ Len(b.tops) = t
        BY <2>5
      <4>2. t + i \in 1..(t + Len(b.others)) /\ ~(t + i <= t) /\ t + i - t = i
        BY <4>1, Behind
      <4> QED BY <4>1, <4>2
    <3>2. /\ DOMAIN Listing(b) = 1..(Len(b.tops) + Len(b.others))
          /\ Listing(b)[t + i] = b.others[t + i - Len(b.tops)]
      BY <1>1, <3>1, ConcatProperties, LenProperties DEF Listing
    <3> QED BY <3>1, <3>2
  <2>9. b.others[p].id # b.others[q].id
    <3>1. t + p # t + q
      BY <2>2, <2>5
    <3> QED BY <2>2, <2>8, <3>1 DEF ListedOnce
  <2> QED BY <2>7, <2>9
<1> QED BY <1>2, <1>3

\* Marks and titles tell two pages apart.
LEMMA SignaturesDiffer ==
    ASSUME NEW page, NEW other,
           NEW i \in DOMAIN page.rows \cap DOMAIN other.rows,
           page.rows[i].id # other.rows[i].id
    PROVE  MarksOf(page) # MarksOf(other) /\ TitlesOf(page) # TitlesOf(other)
<1>1. /\ MarksOf(page)[i] = <<page.rows[i].id, page.rows[i].top>>
      /\ MarksOf(other)[i] = <<other.rows[i].id, other.rows[i].top>>
  BY DEF MarksOf
<1>2. /\ TitlesOf(page)[i] = <<page.rows[i].id, page.rows[i].title>>
      /\ TitlesOf(other)[i] = <<other.rows[i].id, other.rows[i].title>>
  BY DEF TitlesOf
<1> QED BY <1>1, <1>2

\* A list without repetition shows as many notices as it has rows.
LEMMA NoticesCounted ==
    ASSUME NEW S, NEW s \in Seq(S), \A i, j \in DOMAIN s : s[i].id = s[j].id => i = j
    PROVE  IsFiniteSet(Ids(ToSet(s))) /\ Cardinality(Ids(ToSet(s))) = Len(s)
<1>1. Len(s) \in Nat /\ DOMAIN s = 1..Len(s)
  BY LenProperties
<1> DEFINE f == [i \in 1..Len(s) |-> s[i].id]
<1>2. f \in Bijection(1..Len(s), Ids(ToSet(s)))
  <2>1. \A i \in 1..Len(s) : f[i] \in Ids(ToSet(s))
    BY <1>1 DEF Ids, ToSet
  <2>2. \A x \in Ids(ToSet(s)) : \E i \in 1..Len(s) : f[i] = x
    BY <1>1 DEF Ids, ToSet
  <2>3. \A i, j \in 1..Len(s) : f[i] = f[j] => i = j
    BY <1>1
  <2>4. f \in [1..Len(s) -> Ids(ToSet(s))]
    BY <2>1
  <2> QED BY <2>2, <2>3, <2>4, Fun_IsBij
<1>3. ExistsBijection(1..Len(s), Ids(ToSet(s)))
  BY <1>2 DEF ExistsBijection
<1>4. IsFiniteSet(1..Len(s)) /\ Cardinality(1..Len(s)) = Len(s)
  BY <1>1, FS_Interval
<1> QED BY <1>3, <1>4, FS_Bijection

\* The totals of the API count the notices of the board, and those of them
\* without a mark.
LEMMA TotalsCounted ==
    ASSUME NEW b \in Board, ListedOnce(b)
    PROVE  /\ IsFiniteSet(OnBoard(b)) /\ Cardinality(OnBoard(b)) = Len(Listing(b))
           /\ IsFiniteSet(Unmarked(ToSet(Listing(b))))
           /\ Cardinality(Unmarked(ToSet(Listing(b)))) = Len(b.others)
           /\ Len(b.others) \in Nat /\ Len(Listing(b)) \in Nat
           /\ Len(b.others) <= Len(Listing(b))
<1>1. /\ b.tops \in Seq(Row) /\ b.others \in Seq(Row) /\ Listing(b) \in Seq(Row)
      /\ b.tops \in Seq({row \in Row : row.top}) /\ b.others \in Seq({row \in Row : ~row.top})
  BY PartsAreRows DEF Board
<1>2. /\ Len(b.tops) \in Nat /\ DOMAIN b.tops = 1..Len(b.tops)
      /\ Len(b.others) \in Nat /\ DOMAIN b.others = 1..Len(b.others)
      /\ Len(Listing(b)) = Len(b.tops) + Len(b.others)
      /\ DOMAIN Listing(b) = 1..(Len(b.tops) + Len(b.others))
  BY <1>1, LenProperties, ConcatProperties DEF Listing
<1>3. IsFiniteSet(OnBoard(b)) /\ Cardinality(OnBoard(b)) = Len(Listing(b))
  <2>1. \A i, j \in DOMAIN Listing(b) : Listing(b)[i].id = Listing(b)[j].id => i = j
    BY DEF ListedOnce
  <2> QED BY <1>1, <2>1, NoticesCounted DEF OnBoard
<1>4. \A i \in DOMAIN b.others :
         /\ Len(b.tops) + i \in DOMAIN Listing(b)
         /\ Listing(b)[Len(b.tops) + i] = b.others[i]
  <2> SUFFICES ASSUME NEW i \in 1..Len(b.others)
               PROVE  /\ Len(b.tops) + i \in 1..(Len(b.tops) + Len(b.others))
                      /\ Listing(b)[Len(b.tops) + i] = b.others[i]
    BY <1>2
  <2>1. /\ Len(b.tops) + i \in 1..(Len(b.tops) + Len(b.others))
        /\ ~(Len(b.tops) + i <= Len(b.tops)) /\ Len(b.tops) + i - Len(b.tops) = i
    BY <1>2, Behind
  <2>2. Listing(b)[Len(b.tops) + i] = b.others[Len(b.tops) + i - Len(b.tops)]
    BY <1>1, <2>1, ConcatProperties DEF Listing
  <2> QED BY <2>1, <2>2
<1>5. \A i, j \in DOMAIN b.others : b.others[i].id = b.others[j].id => i = j
  <2> SUFFICES ASSUME NEW i \in DOMAIN b.others, NEW j \in DOMAIN b.others,
                      b.others[i].id = b.others[j].id
               PROVE  i = j
    OBVIOUS
  <2>1. Len(b.tops) + i = Len(b.tops) + j
    BY <1>4 DEF ListedOnce
  <2> QED BY <1>2, <2>1
<1>6. Unmarked(ToSet(Listing(b))) = Ids(ToSet(b.others))
  <2>1. ToSet(Listing(b)) = ToSet(b.tops) \cup ToSet(b.others)
    BY <1>1, ConcatSet DEF Listing
  <2>2. \A row \in ToSet(b.tops) : row.top
    BY <1>1, ElementOfSeq, LenProperties DEF ToSet
  <2>3. \A row \in ToSet(b.others) : ~row.top
    BY <1>1, ElementOfSeq, LenProperties DEF ToSet
  <2>4. {row \in ToSet(Listing(b)) : ~row.top} = ToSet(b.others)
    BY <2>1, <2>2, <2>3
  <2> QED BY <2>4 DEF Unmarked, Ids
<1>7. IsFiniteSet(Ids(ToSet(b.others))) /\ Cardinality(Ids(ToSet(b.others))) = Len(b.others)
  BY <1>1, <1>5, NoticesCounted
<1>8. Len(Listing(b)) \in Nat /\ Len(b.others) <= Len(Listing(b))
  <2>1. \A t, o \in Nat : t + o \in Nat /\ o <= t + o
    OBVIOUS
  <2> QED BY <1>2, <2>1
<1> QED BY <1>2, <1>3, <1>6, <1>7, <1>8

\* What the site answers for a row of a board that rests.
LEMMA RestingAnswer ==
    ASSUME board \in Board, ListedOnce(board), \A n \in OnBoard(board) : body[n] = "full",
           DetailRow \in ToSet(Listing(board))
    PROVE  Answer = [title |-> DetailRow.title, body |-> "full"]
<1>1. DetailRow.id \in OnBoard(board)
  BY DEF OnBoard, Ids
<1>2. \A row \in ToSet(Listing(board)) : row.id = DetailRow.id => row = DetailRow
  BY DEF ListedOnce, ToSet
<1>3. (CHOOSE row \in ToSet(Listing(board)) : row.id = DetailRow.id) = DetailRow
  BY <1>2
<1>4. TitleOf(DetailRow.id, DetailRow.title) = DetailRow.title
  BY <1>1, <1>3 DEF TitleOf
<1> QED BY <1>1, <1>4 DEF Answer

\* The place in the list of row i of page k.
Place(b, k, i) ==
    IF setting.repeats /\ i <= Len(b.tops) THEN i ELSE (k - 1) * setting.size + i

\* The rows of a page that no other page repeats: their number, and what is before them.
Before(b) == IF setting.repeats THEN Len(b.tops) ELSE 0

LEMMA ListingParts ==
    ASSUME NEW b \in Board
    PROVE  /\ Len(b.tops) \in Nat /\ Len(b.others) \in Nat
           /\ DOMAIN b.tops = 1..Len(b.tops) /\ DOMAIN b.others = 1..Len(b.others)
           /\ Listing(b) \in Seq(Row) /\ DOMAIN Listing(b) = 1..(Len(b.tops) + Len(b.others))
           /\ \A i \in 1..Len(b.tops) :
                 i \in DOMAIN Listing(b) /\ Listing(b)[i] = b.tops[i] /\ Listing(b)[i].top
           /\ \A i \in 1..Len(b.others) :
                 /\ Len(b.tops) + i \in DOMAIN Listing(b)
                 /\ Listing(b)[Len(b.tops) + i] = b.others[i]
<1>1. /\ b.tops \in Seq(Row) /\ b.others \in Seq(Row) /\ Listing(b) \in Seq(Row)
      /\ b.tops \in Seq({row \in Row : row.top})
  BY PartsAreRows DEF Board
<1>2. /\ Len(b.tops) \in Nat /\ DOMAIN b.tops = 1..Len(b.tops)
      /\ Len(b.others) \in Nat /\ DOMAIN b.others = 1..Len(b.others)
      /\ DOMAIN Listing(b) = 1..(Len(b.tops) + Len(b.others))
  BY <1>1, LenProperties, ConcatProperties DEF Listing
<1>3. ASSUME NEW i \in 1..Len(b.tops)
      PROVE  i \in DOMAIN Listing(b) /\ Listing(b)[i] = b.tops[i] /\ Listing(b)[i].top
  <2>1. i \in 1..(Len(b.tops) + Len(b.others)) /\ i <= Len(b.tops)
    <3>1. \A m, n \in Nat : \A x \in 1..m : x \in 1..(m + n) /\ x <= m
      OBVIOUS
    <3> QED BY <1>2, <3>1
  <2>2. Listing(b)[i] = b.tops[i]
    BY <1>1, <2>1, ConcatProperties DEF Listing
  <2>3. b.tops[i].top
    BY <1>1, ElementOfSeq
  <2> QED BY <1>2, <2>1, <2>2, <2>3
<1>4. ASSUME NEW i \in 1..Len(b.others)
      PROVE  Len(b.tops) + i \in DOMAIN Listing(b) /\ Listing(b)[Len(b.tops) + i] = b.others[i]
  <2>1. /\ Len(b.tops) + i \in 1..(Len(b.tops) + Len(b.others))
        /\ ~(Len(b.tops) + i <= Len(b.tops)) /\ Len(b.tops) + i - Len(b.tops) = i
    BY <1>2, Behind
  <2>2. Listing(b)[Len(b.tops) + i] = b.others[Len(b.tops) + i - Len(b.tops)]
    BY <1>1, <2>1, ConcatProperties DEF Listing
  <2> QED BY <1>2, <2>1, <2>2
<1> QED BY <1>1, <1>2, <1>3, <1>4

LEMMA RowPlaced ==
    ASSUME setting \in Setting, NEW b \in Board, NEW k \in Nat \ {0}, NEW i \in DOMAIN Rows(b, k)
    PROVE  /\ Place(b, k, i) \in DOMAIN Listing(b)
           /\ Rows(b, k)[i] = Listing(b)[Place(b, k, i)]
           /\ i \in Nat \ {0} /\ i <= Before(b) + setting.size
           /\ ~Rows(b, k)[i].top => i > Before(b) /\ Place(b, k, i) = (k - 1) * setting.size + i
<1>0. setting.size \in Nat \ {0} /\ (k - 1) * setting.size \in Nat
  BY Offsets DEF Setting
<1>1. b.tops \in Seq(Row) /\ b.others \in Seq(Row) /\ Listing(b) \in Seq(Row)
  BY PartsAreRows
<1>2. i \in 1..Len(Rows(b, k)) /\ Len(Rows(b, k)) \in Nat /\ i \in Nat \ {0}
  <2>1. Rows(b, k) \in Seq(Row)
    BY RowsTyped
  <2> QED BY <2>1, LenProperties
<1>3. CASE ~setting.repeats
  <2>1. Rows(b, k) = Cut(Listing(b), k) /\ Before(b) = 0
        /\ Place(b, k, i) = (k - 1) * setting.size + i
    BY <1>3 DEF Rows, Before, Place
  <2>2. /\ (k - 1) * setting.size + i \in DOMAIN Listing(b)
        /\ Rows(b, k)[i] = Listing(b)[(k - 1) * setting.size + i]
        /\ Len(Rows(b, k)) <= setting.size
    BY <1>1, <1>2, <2>1, CutRows
  <2>3. i <= setting.size /\ 0 + setting.size = setting.size
    BY <1>0, <1>2, <2>2
  <2> QED BY <1>2, <2>1, <2>2, <2>3
<1>4. CASE setting.repeats
  <2> PICK cut : cut = Cut(b.others, k)
    OBVIOUS
  <2> PICK t : t = Len(b.tops)
    OBVIOUS
  <2>1. Rows(b, k) = b.tops \o cut
    <3>1. Rows(b, k) # <<>>
      BY <1>2
    <3> QED BY <1>4, <3>1, RowsOfBoth
  <2>2. cut \in Seq(Row) /\ t \in Nat /\ Len(cut) \in Nat
    BY <1>1, CutTyped, LenProperties
  <2>3. /\ i \in 1..(t + Len(cut))
        /\ Rows(b, k)[i] = IF i <= t THEN b.tops[i] ELSE cut[i - t]
    <3>1. /\ DOMAIN (b.tops \o cut) = 1..(Len(b.tops) + Len(cut))
          /\ \A j \in 1..(Len(b.tops) + Len(cut)) :
                (b.tops \o cut)[j] = IF j <= Len(b.tops) THEN b.tops[j] ELSE cut[j - Len(b.tops)]
      <4>1. /\ b.tops \o cut \in Seq(Row) /\ Len(b.tops \o cut) = Len(b.tops) + Len(cut)
            /\ \A j \in 1..(Len(b.tops) + Len(cut)) :
                  (b.tops \o cut)[j] = IF j <= Len(b.tops) THEN b.tops[j] ELSE cut[j - Len(b.tops)]
        BY <1>1, <2>2, ConcatProperties
      <4> QED BY <4>1, LenProperties
    <3> QED BY <1>2, <2>1, <3>1
  <2>4. Before(b) = t
    BY <1>4 DEF Before
  <2>5. CASE i <= t
    <3>1. Place(b, k, i) = i
      BY <1>4, <2>5 DEF Place
    <3>2. i \in 1..Len(b.tops)
      BY <1>2, <2>2, <2>5
    <3>3. i \in DOMAIN Listing(b) /\ Listing(b)[i] = b.tops[i] /\ Listing(b)[i].top
      BY <3>2, ListingParts
    <3>4. i <= t + setting.size
      BY <1>0, <1>2, <2>2, <2>5
    <3> QED BY <1>2, <2>3, <2>4, <2>5, <3>1, <3>3, <3>4
  <2>6. CASE ~(i <= t)
    <3>1. Place(b, k, i) = (k - 1) * setting.size + i
      BY <1>4, <2>6 DEF Place
    <3>2. i - t \in 1..Len(cut) /\ i > t
      <4>1. \A m, n \in Nat : \A x \in 1..(m + n) : ~(x <= m) => x - m \in 1..n /\ x > m
        OBVIOUS
      <4> QED BY <2>2, <2>3, <2>6, <4>1
    <3>3. /\ (k - 1) * setting.size + (i - t) \in DOMAIN b.others
          /\ cut[i - t] = b.others[(k - 1) * setting.size + (i - t)]
          /\ Len(cut) <= setting.size
      BY <1>1, <3>2, CutRows
    <3>4. t + ((k - 1) * setting.size + (i - t)) = (k - 1) * setting.size + i
      <4>1. \A l, m, x \in Nat : m + (l + (x - m)) = l + x
        OBVIOUS
      <4> QED BY <1>0, <1>2, <2>2, <4>1
    <3>5. /\ t + ((k - 1) * setting.size + (i - t)) \in DOMAIN Listing(b)
          /\ Listing(b)[t + ((k - 1) * setting.size + (i - t))]
               = b.others[(k - 1) * setting.size + (i - t)]
      BY <3>3, ListingParts
    <3>6. i <= t + setting.size
      <4>1. \A l, m, n, x \in Nat : x - m \in 1..n /\ n <= l => x <= m + l
        OBVIOUS
      <4> QED BY <1>0, <1>2, <2>2, <3>2, <3>3, <4>1
    <3> QED BY <1>2, <2>3, <2>4, <2>6, <3>1, <3>2, <3>3, <3>4, <3>5, <3>6
  <2> QED BY <2>5, <2>6
<1> QED BY <1>3, <1>4

\* A notice that is not marked is shown once.
LEMMA ShownOnce ==
    ASSUME setting \in Setting, NEW b \in Board, ListedOnce(b),
           NEW j \in Nat \ {0}, NEW k \in Nat \ {0}, j <= k,
           NEW i \in DOMAIN Rows(b, j), NEW h \in DOMAIN Rows(b, k),
           Rows(b, j)[i] = Rows(b, k)[h], ~Rows(b, j)[i].top
    PROVE  j = k /\ i = h
<1> PICK size : size = setting.size
  OBVIOUS
<1> PICK t : t = Before(b)
  OBVIOUS
<1>1. size \in Nat \ {0} /\ t \in Nat
  BY ListingParts DEF Setting, Before
<1>2. /\ Place(b, j, i) \in DOMAIN Listing(b) /\ Rows(b, j)[i] = Listing(b)[Place(b, j, i)]
      /\ i \in Nat \ {0} /\ i <= t + size /\ i > t
      /\ Place(b, j, i) = (j - 1) * size + i
  BY RowPlaced
<1>3. /\ Place(b, k, h) \in DOMAIN Listing(b) /\ Rows(b, k)[h] = Listing(b)[Place(b, k, h)]
      /\ h \in Nat \ {0} /\ h <= t + size /\ h > t
      /\ Place(b, k, h) = (k - 1) * size + h
  BY RowPlaced
<1>4. (j - 1) * size + i = (k - 1) * size + h
  BY <1>2, <1>3 DEF ListedOnce
<1>5. j = k
  <2> SUFFICES ASSUME j < k PROVE FALSE
    OBVIOUS
  <2>1. PICK d \in Nat : k = j + 1 + d
    <3>1. k - (j + 1) \in Nat /\ k = j + 1 + (k - (j + 1))
      OBVIOUS
    <3> QED BY <3>1
  <2>2. (k - 1) * size = (j - 1) * size + size + d * size
    BY <1>1, <2>1
  <2>3. d * size \in Nat /\ (j - 1) * size \in Nat
    BY <1>1
  <2> QED BY <1>1, <1>2, <1>3, <1>4, <2>2, <2>3
<1>6. (k - 1) * size \in Nat
  BY <1>1
<1> QED BY <1>2, <1>3, <1>4, <1>5, <1>6

\* What a board is that a crawl can read.
Resting == changes = 0 /\ faults = 0

Readable ==
    /\ ListedOnce(board)
    /\ setting.targeted \subseteq OnBoard(board)
    /\ \A n \in OnBoard(board) : body[n] = "full"
    /\ Rows(board, PageLimit) = <<>>
    /\ setting.fallback \/ setting.more

TargetsAreDue == setting.targeted \subseteq setting.due

\* The row in hand was read already; the others are still to come.
Coming == IF pc \in Details THEN Tail(crawl.queue) ELSE crawl.queue

\* A row without a mark comes once.
Fresh(rows, seen) ==
    \A i \in DOMAIN rows : ~rows[i].top =>
        rows[i] \notin seen /\ \A j \in DOMAIN rows : rows[i] = rows[j] => i = j

\* All rows of the pages read are treated, or come.
Rowwise ==
    /\ \A k \in DOMAIN crawl.pages : crawl.pages[k].rows # <<>>
    /\ crawl.seen \cup ToSet(crawl.queue) = RowsRead
    /\ Fresh(Coming, crawl.seen)
    /\ pc \in {"page", "empty", "verify"} => crawl.queue = <<>>

\* Where the list ends, if it does.
Pagewise ==
    /\ pc = "empty" => crawl.page = View(crawl.method, board, NextPage)
    /\ pc \in {"empty", "verify"} => Rows(board, NextPage) = <<>>
    /\ crawl.method = "api" /\ setting.more /\ crawl.pages # <<>> =>
          pc # "empty" /\ (pc = "page" => Rows(board, NextPage) # <<>>)

Flawless ==
    /\ crawl.left = {}
    /\ crawl.failed = FALSE
    /\ pc = "confirm" => crawl.detail = {[title |-> DetailRow.title, body |-> "full"]}
    /\ pc # "html"
    /\ pc = "verify" => crawl.at # 0
    /\ pc = "done" => crawl.status \in {"success", "empty"}

OnTrack == Rowwise /\ Pagewise /\ Flawless

RInv == JInv /\ TargetsAreDue /\ (Resting /\ Readable => OnTrack)

Calm == JInv /\ TargetsAreDue /\ Resting /\ Readable /\ OnTrack

LEMMA CalmTypes ==
    ASSUME Calm
    PROVE  /\ setting \in Setting /\ board \in Board /\ crawl \in Crawl /\ TypeOK /\ TInv /\ SInv
           /\ crawl.pages \in Seq(Page) /\ crawl.queue \in Seq(Row) /\ crawl.seen \subseteq Row
           /\ Len(crawl.pages) \in Nat /\ DOMAIN crawl.pages = 1..Len(crawl.pages)
           /\ NextPage = Len(crawl.pages) + 1 /\ NextPage \in Nat \ {0}
           /\ Listing(board) \in Seq(Row)
<1>1. TypeOK /\ TInv /\ SInv /\ crawl \in Crawl /\ board \in Board /\ setting \in Setting
  BY DEF Calm, JInv, SInv, TInv, TypeOK
<1>2. crawl.pages \in Seq(Page) /\ crawl.queue \in Seq(Row) /\ crawl.seen \subseteq Row
  BY <1>1 DEF Crawl
<1> QED BY <1>1, <1>2, LenProperties, NextPageIsNatural, PartsAreRows DEF NextPage

\* Every page read is still shown.
LEMMA CalmPages ==
    ASSUME Calm, NEW k \in DOMAIN crawl.pages
    PROVE  /\ crawl.pages[k] = View(crawl.method, board, k)
           /\ crawl.pages[k].rows = Rows(board, k)
           /\ Rows(board, k) # <<>>
           /\ k \in Nat \ {0} /\ k <= Len(crawl.pages)
<1>1. k \in Nat \ {0} /\ k <= Len(crawl.pages)
  BY CalmTypes
<1>2. crawl.pages[k] = View(crawl.method, board, k)
  BY DEF Calm, OnTrack, Flawless, JInv, SInv, Tracked
<1>3. crawl.pages[k].rows # <<>>
  BY DEF Calm, OnTrack, Rowwise
<1> QED BY <1>1, <1>2, <1>3, ViewShowsRows

LEMMA CalmRows ==
    ASSUME Calm
    PROVE  /\ RowsRead \subseteq ToSet(Listing(board))
           /\ Rows(board, NextPage) = <<>> => RowsRead = ToSet(Listing(board))
           /\ crawl.seen \subseteq ToSet(Listing(board))
           /\ ToSet(crawl.queue) \subseteq ToSet(Listing(board))
<1>1. \A k \in DOMAIN crawl.pages :
         /\ crawl.pages[k].rows = Rows(board, k)
         /\ ToSet(Rows(board, k)) \subseteq ToSet(Listing(board))
  BY CalmTypes, CalmPages, RowsListed
<1>2. RowsRead \subseteq ToSet(Listing(board))
  BY <1>1 DEF RowsRead
<1>3. ASSUME Rows(board, NextPage) = <<>>, NEW row \in ToSet(Listing(board))
      PROVE  row \in RowsRead
  <2>1. \E k \in 1..Len(crawl.pages) : row \in ToSet(Rows(board, k))
    BY <1>3, CalmTypes, RowsCover
  <2> QED BY <1>1, <2>1, CalmTypes DEF RowsRead
<1>4. crawl.seen \subseteq RowsRead /\ ToSet(crawl.queue) \subseteq RowsRead
  BY DEF Calm, OnTrack, Rowwise
<1> QED BY <1>2, <1>3, <1>4

\* The limit of pages is not reached.
LEMMA CalmLimit ==
    ASSUME Calm
    PROVE  ~(NextPage > PageLimit)
<1> SUFFICES ASSUME NextPage > PageLimit PROVE FALSE
  OBVIOUS
<1>1. PageLimit \in DOMAIN crawl.pages /\ PageLimit \in Nat \ {0}
  BY CalmTypes, PagesAssumption
<1>2. Rows(board, PageLimit) # <<>>
  BY <1>1, CalmPages
<1> QED BY <1>2 DEF Calm, Readable

LEMMA SetOfQueue ==
    ASSUME NEW S, NEW s \in Seq(S), s # <<>>
    PROVE  ToSet(s) = {Head(s)} \cup ToSet(Tail(s))
<1>1. /\ Len(s) \in Nat \ {0} /\ DOMAIN s = 1..Len(s) /\ Tail(s) \in Seq(S)
      /\ Head(s) = s[1] /\ Len(Tail(s)) = Len(s) - 1
      /\ DOMAIN Tail(s) = 1..Len(Tail(s))
      /\ \A i \in 1..(Len(s) - 1) : Tail(s)[i] = s[i + 1]
  BY HeadTailProperties, EmptySeq, LenProperties
<1>2. ASSUME NEW x \in ToSet(s) PROVE x \in {Head(s)} \cup ToSet(Tail(s))
  <2>1. PICK i \in 1..Len(s) : x = s[i]
    BY <1>1 DEF ToSet
  <2>2. CASE i = 1
    BY <1>1, <2>1, <2>2
  <2>3. CASE i # 1
    <3>1. i - 1 \in 1..(Len(s) - 1) /\ (i - 1) + 1 = i
      BY <1>1, <2>3
    <3>2. Tail(s)[i - 1] = x /\ i - 1 \in DOMAIN Tail(s)
      BY <1>1, <2>1, <3>1
    <3> QED BY <3>2 DEF ToSet
  <2> QED BY <2>2, <2>3
<1>3. Head(s) \in ToSet(s)
  <2>1. 1 \in DOMAIN s
    BY <1>1
  <2> QED BY <1>1, <2>1 DEF ToSet
<1>4. ASSUME NEW x \in ToSet(Tail(s)) PROVE x \in ToSet(s)
  <2>1. PICK i \in 1..(Len(s) - 1) : x = Tail(s)[i]
    BY <1>1, <1>4 DEF ToSet
  <2>2. i + 1 \in DOMAIN s /\ x = s[i + 1]
    BY <1>1, <2>1
  <2> QED BY <2>2 DEF ToSet
<1> QED BY <1>2, <1>3, <1>4

\* The rows behind a fresh one are fresh, also when it was treated.
LEMMA FreshTail ==
    ASSUME NEW S, NEW s \in Seq(S), s # <<>>, NEW seen, Fresh(s, seen)
    PROVE  Fresh(Tail(s), seen \cup {Head(s)})
<1>1. /\ Len(s) \in Nat \ {0} /\ DOMAIN s = 1..Len(s) /\ Tail(s) \in Seq(S)
      /\ Head(s) = s[1] /\ Len(Tail(s)) = Len(s) - 1
      /\ DOMAIN Tail(s) = 1..Len(Tail(s))
      /\ \A i \in 1..(Len(s) - 1) : Tail(s)[i] = s[i + 1]
  BY HeadTailProperties, EmptySeq, LenProperties
<1>2. DOMAIN Tail(s) = 1..(Len(s) - 1)
  BY <1>1
<1>3. \A i \in 1..(Len(s) - 1) : i + 1 \in DOMAIN s /\ i + 1 # 1 /\ 1 \in DOMAIN s
  BY <1>1
<1> SUFFICES ASSUME NEW i \in 1..(Len(s) - 1), ~Tail(s)[i].top
             PROVE  /\ Tail(s)[i] \notin seen \cup {Head(s)}
                    /\ \A j \in 1..(Len(s) - 1) : Tail(s)[i] = Tail(s)[j] => i = j
  BY <1>2 DEF Fresh
<1>4. Tail(s)[i] = s[i + 1]
  BY <1>1
<1>5. s[i + 1] \notin seen /\ \A j \in DOMAIN s : s[i + 1] = s[j] => i + 1 = j
  BY <1>3, <1>4 DEF Fresh
<1>6. s[i + 1] # s[1]
  BY <1>3, <1>5
<1>7. \A j \in 1..(Len(s) - 1) : s[i + 1] = s[j + 1] => i + 1 = j + 1
  BY <1>3, <1>5
<1> QED BY <1>1, <1>4, <1>5, <1>6, <1>7

\* Only the crawl moves.
Alone == setting' = setting /\ board' = board

LEMMA NewCrawlOnTrack ==
    ASSUME Alone, NEW method, method # "api", crawl' = NewCrawl(method), pc' = "page"
    PROVE  OnTrack'
<1>1. /\ crawl'.method # "api" /\ crawl'.pages = <<>> /\ crawl'.queue = <<>>
      /\ crawl'.seen = {} /\ crawl'.failed = FALSE /\ crawl'.left = {}
  BY DEF NewCrawl
<1>2. RowsRead' = {} /\ ToSet(crawl'.queue) = {}
  BY <1>1 DEF RowsRead, ToSet
<1>3. Rowwise'
  BY <1>1, <1>2 DEF Rowwise, Coming, Fresh, Details
<1>4. Pagewise' /\ Flawless'
  BY <1>1 DEF Pagewise, Flawless
<1> QED BY <1>3, <1>4 DEF OnTrack

\* Where the API does not tell the last page the fallback is open.
LEMMA FallbackOnTrack ==
    ASSUME Calm, Alone, crawl.method = "api", ~setting.more, GiveUp("other")
    PROVE  OnTrack'
<1>1. setting.fallback
  BY DEF Calm, Readable
<1>2. PICK next \in {"browser", "http"} : Continue("page", NewCrawl(next))
  BY <1>1 DEF GiveUp
<1> QED BY <1>2, NewCrawlOnTrack DEF Continue

LEMMA EndPassOnTrack ==
    ASSUME Calm, Alone, crawl.queue = <<>>, pc \in {"empty", "entries"},
           Rows(board, NextPage) = <<>>,
           EndPass([crawl EXCEPT !.middle = board])
    PROVE  OnTrack'
<1> DEFINE next == [crawl EXCEPT !.middle = board]
<1>0. /\ next.at = 1 /\ next.pages = crawl.pages
      /\ next.queue = crawl.queue /\ next.seen = crawl.seen
      /\ next.failed = crawl.failed /\ next.left = crawl.left /\ next.method = crawl.method
  BY CalmTypes DEF Crawl, SInv, InHand, InHandOf, FirstPass
<1> DEFINE last == [next EXCEPT !.status = "empty", !.topsVerified = TRUE]
<1>1. /\ last.pages = crawl.pages /\ last.queue = crawl.queue /\ last.seen = crawl.seen
      /\ last.failed = crawl.failed /\ last.left = crawl.left /\ last.method = crawl.method
      /\ last.status = "empty"
  BY CalmTypes DEF Crawl
<1>2. crawl.pages = <<>> => Missed = {}
  <2> HAVE crawl.pages = <<>>
  <2>1. RowsRead = {}
    BY DEF RowsRead
  <2>2. OnBoard(board) = {}
    BY <2>1, CalmRows DEF OnBoard, Ids
  <2> QED BY <2>2 DEF Missed, Calm, Readable
<1>3. \/ crawl.pages # <<>> /\ pc' = "verify" /\ crawl' = next
      \/ crawl.pages = <<>> /\ pc' = "done" /\ crawl' = last
  BY <1>0, <1>2 DEF EndPass, Continue
<1> HIDE DEF next, last
<1>4. /\ crawl'.pages = crawl.pages /\ crawl'.queue = crawl.queue /\ crawl'.seen = crawl.seen
      /\ crawl'.failed = crawl.failed /\ crawl'.left = crawl.left
      /\ crawl'.method = crawl.method
      /\ pc' = "verify" \/ (pc' = "done" /\ crawl'.status = "empty" /\ crawl.pages = <<>>)
      /\ pc' = "verify" => crawl.pages # <<>> /\ crawl'.at = 1
  BY <1>0, <1>1, <1>3
<1>5. RowsRead' = RowsRead /\ Coming' = Coming
  BY <1>4 DEF RowsRead, Coming, Details
<1>6. Rowwise'
  BY <1>4, <1>5 DEF Calm, OnTrack, Rowwise, Fresh
<1>7. NextPage' = NextPage
  BY <1>4 DEF NextPage
<1>8. Pagewise'
  BY <1>4, <1>7, SameRows DEF Pagewise, Alone
<1>9. Flawless'
  BY <1>4 DEF Calm, OnTrack, Flawless
<1> QED BY <1>6, <1>8, <1>9 DEF OnTrack

LEMMA CalmSeen ==
    ASSUME Calm, crawl.queue = <<>>
    PROVE  crawl.seen = RowsRead
<1>1. crawl.seen \cup ToSet(crawl.queue) = RowsRead
  BY DEF Calm, OnTrack, Rowwise
<1>2. ToSet(crawl.queue) = {}
  BY DEF ToSet
<1> QED BY <1>1, <1>2

\* The next page shows nothing that was seen, but for the marked notices.
LEMMA NextPageFresh ==
    ASSUME Calm, pc = "page"
    PROVE  Fresh(Rows(board, NextPage), crawl.seen)
<1> PICK page : page = NextPage
  OBVIOUS
<1>0. /\ setting \in Setting /\ board \in Board /\ ListedOnce(board)
      /\ page \in Nat \ {0} /\ page = Len(crawl.pages) + 1 /\ Len(crawl.pages) \in Nat
  BY CalmTypes DEF Calm, Readable
<1> SUFFICES ASSUME NEW i \in DOMAIN Rows(board, page), ~Rows(board, page)[i].top
             PROVE  /\ Rows(board, page)[i] \notin crawl.seen
                    /\ \A j \in DOMAIN Rows(board, page) :
                          Rows(board, page)[i] = Rows(board, page)[j] => i = j
  BY DEF Fresh
<1>1. crawl.seen = RowsRead
  BY CalmSeen DEF Calm, OnTrack, Rowwise
<1>2. Rows(board, page)[i] \notin crawl.seen
  <2> SUFFICES ASSUME Rows(board, page)[i] \in RowsRead PROVE FALSE
    BY <1>1
  <2>1. PICK k \in DOMAIN crawl.pages : Rows(board, page)[i] \in ToSet(crawl.pages[k].rows)
    BY DEF RowsRead
  <2>2. crawl.pages[k].rows = Rows(board, k) /\ k \in Nat \ {0} /\ k <= Len(crawl.pages)
    BY CalmPages
  <2>3. PICK h \in DOMAIN Rows(board, k) : Rows(board, k)[h] = Rows(board, page)[i]
    BY <2>1, <2>2 DEF ToSet
  <2>4. k <= page /\ k # page
    BY <1>0, <2>2
  <2> QED BY <1>0, <2>2, <2>3, <2>4, ShownOnce
<1>3. ASSUME NEW j \in DOMAIN Rows(board, page),
             Rows(board, page)[i] = Rows(board, page)[j]
      PROVE  i = j
  <2>1. page <= page
    BY <1>0
  <2> QED BY <1>0, <1>3, <2>1, ShownOnce
<1> QED BY <1>2, <1>3

LEMMA PageAddedOnTrack ==
    ASSUME Calm, Alone, pc = "page", Rows(board, NextPage) # <<>>,
           Continue("entries", [crawl EXCEPT !.pages = Append(@, Current(NextPage)),
                                             !.page = Current(NextPage),
                                             !.queue = Current(NextPage).rows])
    PROVE  OnTrack'
<1> DEFINE page == Current(NextPage)
<1>0. /\ setting \in Setting /\ board \in Board /\ crawl \in Crawl /\ crawl.pages \in Seq(Page)
      /\ NextPage \in Nat \ {0} /\ Len(crawl.pages) \in Nat
      /\ DOMAIN crawl.pages = 1..Len(crawl.pages)
  BY CalmTypes
<1>1. page \in Page /\ page.rows = Rows(board, NextPage)
  BY <1>0, ViewTyped, ViewShowsRows DEF Current
<1> HIDE DEF page
<1>2. /\ crawl'.pages = Append(crawl.pages, page) /\ crawl'.queue = page.rows
      /\ crawl'.seen = crawl.seen /\ crawl'.failed = crawl.failed /\ crawl'.left = crawl.left
      /\ pc' = "entries"
  BY <1>0 DEF Crawl, Continue, page
<1>3. /\ DOMAIN crawl'.pages = 1..(Len(crawl.pages) + 1)
      /\ \A k \in 1..Len(crawl.pages) : crawl'.pages[k] = crawl.pages[k]
      /\ crawl'.pages[Len(crawl.pages) + 1] = page
  <2>1. /\ crawl'.pages \in Seq(Page) /\ Len(crawl'.pages) = Len(crawl.pages) + 1
        /\ \A k \in 1..Len(crawl.pages) : crawl'.pages[k] = crawl.pages[k]
        /\ crawl'.pages[Len(crawl.pages) + 1] = page
    BY <1>0, <1>1, <1>2, AppendProperties
  <2> QED BY <2>1, LenProperties
<1>4. 1..(Len(crawl.pages) + 1) = 1..Len(crawl.pages) \cup {Len(crawl.pages) + 1}
  BY <1>0
<1>5. RowsRead' = RowsRead \cup ToSet(page.rows)
  BY <1>0, <1>3, <1>4 DEF RowsRead
<1>6. crawl.seen = RowsRead
  BY CalmSeen DEF Calm, OnTrack, Rowwise
<1>7. \A k \in DOMAIN crawl'.pages : crawl'.pages[k].rows # <<>>
  BY <1>0, <1>1, <1>3, <1>4 DEF Calm, OnTrack, Rowwise
<1>8. Fresh(Coming, crawl.seen)'
  <2>1. Coming' = Rows(board, NextPage) /\ crawl'.seen = crawl.seen
    BY <1>1, <1>2 DEF Coming, Details
  <2> QED BY <2>1, NextPageFresh DEF Fresh
<1>9. Rowwise'
  <2>1. crawl'.seen \cup ToSet(crawl'.queue) = RowsRead'
    BY <1>2, <1>5, <1>6
  <2>2. pc' \notin {"page", "empty", "verify"}
    BY <1>2
  <2> QED BY <1>7, <1>8, <2>1, <2>2 DEF Rowwise
<1>10. Pagewise' /\ Flawless'
  BY <1>2 DEF Calm, OnTrack, Pagewise, Flawless
<1> QED BY <1>9, <1>10 DEF OnTrack

\* The totals agree with what was read, in part or whole.
LEMMA CalmTotals ==
    ASSUME Calm, NEW n \in Total(board)
    PROVE  /\ \A rows \in SUBSET ToSet(Listing(board)) : ~(n < Cardinality(Unmarked(rows)))
           /\ n \in {Cardinality(OnBoard(board)), Cardinality(Unmarked(ToSet(Listing(board))))}
<1>1. /\ IsFiniteSet(OnBoard(board)) /\ Cardinality(OnBoard(board)) = Len(Listing(board))
      /\ IsFiniteSet(Unmarked(ToSet(Listing(board))))
      /\ Cardinality(Unmarked(ToSet(Listing(board)))) = Len(board.others)
      /\ Len(board.others) \in Nat /\ Len(Listing(board)) \in Nat
      /\ Len(board.others) <= Len(Listing(board))
  BY CalmTypes, TotalsCounted DEF Calm, Readable
<1>2. n = Len(Listing(board)) \/ n = Len(board.others)
  BY DEF Total
<1>3. ASSUME NEW rows \in SUBSET ToSet(Listing(board))
      PROVE  ~(n < Cardinality(Unmarked(rows)))
  <2>1. Unmarked(rows) \subseteq Unmarked(ToSet(Listing(board)))
    BY DEF Unmarked
  <2>2. /\ Cardinality(Unmarked(rows)) \in Nat
        /\ Cardinality(Unmarked(rows)) <= Len(board.others)
    BY <1>1, <2>1, FS_Subset, FS_CardinalityType
  <2> QED BY <1>1, <1>2, <2>2
<1> QED BY <1>1, <1>2, <1>3

LEMMA CalmRepeats ==
    ASSUME Calm, NEW j \in Nat \ {0}, NEW k \in Nat \ {0}, j < k, Rows(board, k) # <<>>,
           NEW page, page.rows = Rows(board, k), NEW other, other.rows = Rows(board, j)
    PROVE  MarksOf(other) # MarksOf(page) /\ TitlesOf(other) # TitlesOf(page)
<1>1. \E i \in DOMAIN Rows(board, j) \cap DOMAIN Rows(board, k) :
         Rows(board, j)[i].id # Rows(board, k)[i].id
  BY CalmTypes, PagesDiffer DEF Calm, Readable
<1> QED BY <1>1, SignaturesDiffer

LEMMA CalmReadApiPage ==
    ASSUME Calm, Alone, ReadApiPage
    PROVE  OnTrack'
<1> DEFINE page == Current(NextPage)
<1>0. page = ApiView(board, NextPage) /\ page.rows = Rows(board, NextPage)
      /\ page.total = Total(board) /\ pc = "page" /\ crawl.method = "api"
  BY DEF ReadApiPage, Current, View, ApiView
<1>1. ~(NextPage > PageLimit)
  BY CalmLimit
<1>2. ~TotalDisagrees(page)
  <2>1. \A k \in DOMAIN crawl.pages : crawl.pages[k].total = page.total
    <3>1. \A k \in DOMAIN crawl.pages : crawl.pages[k] = View(crawl.method, board, k)
      BY CalmPages
    <3>2. \A k : View("api", board, k).total = Total(board)
      BY DEF View, ApiView
    <3> HIDE DEF page
    <3> QED BY <1>0, <3>1, <3>2
  <2>2. RowsRead \cup ToSet(page.rows) \in SUBSET ToSet(Listing(board))
    BY <1>0, CalmTypes, CalmRows, RowsListed
  <2>3. \A n \in Total(board) : ~(n < Cardinality(Unmarked(RowsRead \cup ToSet(page.rows))))
    BY <2>2, CalmTotals
  <2> HIDE DEF page
  <2> QED BY <1>0, <2>1, <2>3 DEF TotalDisagrees
<1>3. page.rows # <<>> => ~RepeatsEarlier(page)
  <2> SUFFICES ASSUME page.rows # <<>>, NEW k \in DOMAIN crawl.pages
               PROVE  /\ MarksOf(crawl.pages[k]) # MarksOf(page)
                      /\ TitlesOf(crawl.pages[k]) # TitlesOf(page)
    BY CalmTypes DEF RepeatsEarlier, RepeatsMarks, RepeatsTitles
  <2>1. k \in Nat \ {0} /\ NextPage \in Nat \ {0} /\ k < NextPage
        /\ crawl.pages[k].rows = Rows(board, k)
    BY CalmTypes, CalmPages
  <2> QED BY <1>0, <2>1, CalmRepeats
<1>4. CASE page.rows = <<>> /\ Continue("empty", [crawl EXCEPT !.page = page])
  <2>1. Rows(board, NextPage) = <<>>
    BY <1>0, <1>4
  <2>2. ~(setting.more /\ crawl.pages # <<>>)
    BY <1>0, <2>1 DEF Calm, OnTrack, Pagewise
  <2> HIDE DEF page
  <2>3. /\ crawl'.pages = crawl.pages /\ crawl'.queue = crawl.queue /\ crawl'.seen = crawl.seen
        /\ crawl'.failed = crawl.failed /\ crawl'.left = crawl.left
        /\ crawl'.method = crawl.method /\ crawl'.page = page /\ pc' = "empty"
    BY <1>4, CalmTypes DEF Crawl, Continue
  <2>4. crawl.queue = <<>>
    BY <1>0 DEF Calm, OnTrack, Rowwise
  <2>5. RowsRead' = RowsRead /\ Coming' = Coming
    BY <1>0, <2>3 DEF RowsRead, Coming, Details
  <2>6. Rowwise'
    BY <2>3, <2>4, <2>5 DEF Calm, OnTrack, Rowwise, Fresh
  <2>7. NextPage' = NextPage
    BY <2>3 DEF NextPage
  <2>8. page = View(crawl.method, board, NextPage)
    BY DEF page, Current
  <2>9. Pagewise'
    BY <2>1, <2>2, <2>3, <2>7, <2>8, SameRows, SameViews DEF Pagewise, Alone
  <2>10. Flawless'
    BY <2>3 DEF Calm, OnTrack, Flawless
  <2> QED BY <2>6, <2>9, <2>10 DEF OnTrack
<1> HIDE DEF page
<1>5. CASE page.rows # <<>>
           /\ Continue("entries", [crawl EXCEPT !.pages = Append(@, page), !.page = page,
                                                !.queue = page.rows])
  BY <1>0, <1>5, PageAddedOnTrack DEF page
<1> QED BY <1>1, <1>2, <1>3, <1>4, <1>5 DEF ReadApiPage, page

LEMMA CalmConfirmApiEmpty ==
    ASSUME Calm, Alone, ConfirmApiEmpty
    PROVE  OnTrack'
<1> DEFINE page == Current(NextPage)
<1>0. /\ pc = "empty" /\ crawl.method = "api" /\ crawl.queue = <<>>
      /\ Rows(board, NextPage) = <<>> /\ crawl.page = page
      /\ page.total = Total(board)
  BY DEF ConfirmApiEmpty, Calm, OnTrack, Pagewise, Rowwise, Current, View, ApiView
<1>1. CASE EndPass([crawl EXCEPT !.middle = board])
  BY <1>0, <1>1, EndPassOnTrack
<1>2. CASE GiveUp("other") /\ ~setting.more
  BY <1>0, <1>2, FallbackOnTrack
<1>3. CASE setting.more
  <2>1. crawl.pages = <<>>
    BY <1>0, <1>3 DEF Calm, OnTrack, Pagewise
  <2>2. EndConfirmed
    BY <2>1 DEF EndConfirmed
  <2>3. page.total \in {{}, {0}}
    <3>1. RowsRead = {}
      BY <2>1 DEF RowsRead
    <3>2. OnBoard(board) = {} /\ Unmarked(ToSet(Listing(board))) = {}
      BY <1>0, <3>1, CalmRows DEF OnBoard, Ids, Unmarked
    <3>3. \A n \in Total(board) : n = 0
      BY <3>2, CalmTotals, FS_EmptySet
    <3> QED BY <1>0, <3>3
  <2> QED BY <1>0, <1>1, <2>1, <2>2, <2>3 DEF ConfirmApiEmpty
<1> QED BY <1>1, <1>2, <1>3 DEF ConfirmApiEmpty

LEMMA PageEndsOnTrack ==
    ASSUME Calm, Alone, pc = "entries", crawl.queue = <<>>, Continue("page", crawl),
           crawl.method = "api" /\ setting.more => Rows(board, NextPage) # <<>>
    PROVE  OnTrack'
<1>1. crawl' = crawl /\ pc' = "page"
  BY DEF Continue
<1>2. RowsRead' = RowsRead /\ Coming' = Coming /\ NextPage' = NextPage
  BY <1>1 DEF RowsRead, Coming, Details, NextPage
<1>3. Rowwise'
  BY <1>1, <1>2 DEF Calm, OnTrack, Rowwise, Fresh
<1>4. Pagewise'
  BY <1>1, <1>2, SameRows DEF Pagewise, Alone
<1>5. Flawless'
  BY <1>1 DEF Calm, OnTrack, Flawless
<1> QED BY <1>3, <1>4, <1>5 DEF OnTrack

LEMMA CalmEndApiPage ==
    ASSUME Calm, Alone, EndApiPage
    PROVE  OnTrack'
<1> DEFINE length == Len(crawl.pages)
<1>0. /\ pc = "entries" /\ crawl.method = "api" /\ crawl.queue = <<>>
      /\ crawl.pages # <<>> /\ crawl.page = crawl.pages[length]
  BY CalmTypes DEF EndApiPage, SInv, InHand, InHandOf, Reads
<1>1. length \in DOMAIN crawl.pages /\ NextPage = length + 1
  BY <1>0, CalmTypes, EmptySeq
<1>2. crawl.page = ApiView(board, length)
  BY <1>0, <1>1, CalmPages DEF View
<1>3. crawl.page.more = More(board, length) /\ crawl.page.total = Total(board)
  BY <1>2 DEF ApiView
<1>4. CASE crawl.page.more # "no"
  <2>1. setting.more => Rows(board, length + 1) # <<>>
    BY <1>3, <1>4 DEF More
  <2>2. Continue("page", crawl)
    BY <1>4 DEF EndApiPage
  <2> QED BY <1>0, <1>1, <2>1, <2>2, PageEndsOnTrack
<1>5. CASE crawl.page.more = "no"
  <2>1. Rows(board, NextPage) = <<>>
    BY <1>1, <1>3, <1>5 DEF More
  <2>2. RowsRead = ToSet(Listing(board)) /\ crawl.seen = RowsRead
    BY <1>0, <2>1, CalmRows, CalmSeen
  <2>3. TotalSatisfied(crawl.page, crawl.pages)
    <3>1. Ids(crawl.seen) = OnBoard(board)
      BY <2>2 DEF OnBoard
    <3> SUFFICES ASSUME NEW n \in Total(board)
                 PROVE  n \in {Cardinality(OnBoard(board)), Cardinality(Unmarked(RowsRead))}
      BY <1>3, <3>1 DEF TotalSatisfied, RowsRead
    <3> QED BY <2>2, CalmTotals
  <2>4. EndPass([crawl EXCEPT !.middle = board])
    BY <1>5, <2>3 DEF EndApiPage
  <2> QED BY <1>0, <2>1, <2>4, EndPassOnTrack
<1> QED BY <1>4, <1>5

LEMMA CalmFallbackList ==
    ASSUME Calm, Alone, ReadFallbackPage \/ ConfirmFallbackEmpty \/ EndFallbackPage
    PROVE  OnTrack'
<1>0. crawl.method # "api"
  BY DEF ReadFallbackPage, ConfirmFallbackEmpty, EndFallbackPage
<1>1. CASE ReadFallbackPage
  <2> DEFINE page == Current(NextPage)
  <2>1. page.rows = Rows(board, NextPage) /\ page = View(crawl.method, board, NextPage)
        /\ pc = "page" /\ ~(NextPage > PageLimit)
    BY <1>1, ViewShowsRows, CalmLimit DEF Current, ReadFallbackPage
  <2> HIDE DEF page
  <2>2. CASE page.rows = <<>> /\ Continue("empty", [crawl EXCEPT !.page = page])
    <3>1. /\ crawl'.pages = crawl.pages /\ crawl'.queue = crawl.queue /\ crawl'.seen = crawl.seen
          /\ crawl'.failed = crawl.failed /\ crawl'.left = crawl.left
          /\ crawl'.method = crawl.method /\ crawl'.page = page /\ pc' = "empty"
      BY <2>2, CalmTypes DEF Crawl, Continue
    <3>2. crawl.queue = <<>>
      BY <2>1 DEF Calm, OnTrack, Rowwise
    <3>3. RowsRead' = RowsRead /\ Coming' = Coming /\ NextPage' = NextPage
      BY <2>1, <3>1 DEF RowsRead, Coming, Details, NextPage
    <3>4. Rowwise'
      BY <3>1, <3>2, <3>3 DEF Calm, OnTrack, Rowwise, Fresh
    <3>5. Pagewise'
      BY <1>0, <2>1, <2>2, <3>1, <3>3, SameRows, SameViews DEF Pagewise, Alone
    <3>6. Flawless'
      BY <3>1 DEF Calm, OnTrack, Flawless
    <3> QED BY <3>4, <3>5, <3>6 DEF OnTrack
  <2>3. CASE page.rows # <<>>
             /\ Continue("entries", [crawl EXCEPT !.pages = Append(@, page), !.page = page,
                                                  !.queue = page.rows])
    BY <2>1, <2>3, PageAddedOnTrack DEF page
  <2> QED BY <1>1, <2>1, <2>2, <2>3 DEF ReadFallbackPage, page
<1>2. CASE ConfirmFallbackEmpty
  <2>1. pc = "empty" /\ crawl.queue = <<>> /\ Rows(board, NextPage) = <<>>
    BY <1>2 DEF ConfirmFallbackEmpty, Calm, OnTrack, Pagewise, Rowwise
  <2>2. Current(NextPage).rows = <<>>
    BY <2>1, ViewShowsRows DEF Current
  <2> QED BY <1>2, <2>1, <2>2, EndPassOnTrack DEF ConfirmFallbackEmpty
<1>3. CASE EndFallbackPage
  <2> DEFINE length == Len(crawl.pages)
  <2>1. /\ pc = "entries" /\ crawl.queue = <<>>
        /\ crawl.pages # <<>> /\ crawl.page = crawl.pages[length]
    BY <1>3, CalmTypes DEF EndFallbackPage, SInv, InHand, InHandOf, Reads
  <2>2. length \in DOMAIN crawl.pages /\ DOMAIN crawl.pages = 1..length /\ length \in Nat
    BY <2>1, CalmTypes, EmptySeq
  <2>3. ~RepeatsMarks(crawl.page, length - 1)
    <3> SUFFICES ASSUME NEW k \in 1..(length - 1)
                 PROVE  MarksOf(crawl.pages[k]) # MarksOf(crawl.page)
      BY DEF RepeatsMarks
    <3>1. k \in DOMAIN crawl.pages /\ k < length
      BY <2>2
    <3>2. /\ k \in Nat \ {0} /\ length \in Nat \ {0}
          /\ crawl.pages[k].rows = Rows(board, k)
          /\ crawl.page.rows = Rows(board, length) /\ Rows(board, length) # <<>>
      BY <2>1, <2>2, <3>1, CalmPages
    <3> QED BY <3>1, <3>2, CalmRepeats
  <2> QED BY <1>0, <1>3, <2>1, <2>3, PageEndsOnTrack DEF EndFallbackPage
<1> QED BY <1>1, <1>2, <1>3

LEMMA CalmTakeEntry ==
    ASSUME Calm, Alone, TakeEntry
    PROVE  OnTrack'
<1> PICK row : row = Head(crawl.queue)
  OBVIOUS
<1> DEFINE changed == IF ReadAgain(row) THEN crawl.changed \cup {row.id} ELSE crawl.changed
           queue == IF Wanted(row) THEN crawl.queue ELSE Tail(crawl.queue)
           next == [crawl EXCEPT !.seen = @ \cup {row}, !.changed = changed, !.queue = queue]
           rest == [crawl EXCEPT !.queue = Tail(@)]
<1>0. /\ crawl \in Crawl /\ pc = "entries" /\ crawl.queue # <<>>
      /\ crawl.queue \in Seq(Row)
      /\ Fresh(crawl.queue, crawl.seen)
  BY CalmTypes DEF TakeEntry, Calm, OnTrack, Rowwise, Coming, Details
<1>1. /\ ToSet(crawl.queue) = {row} \cup ToSet(Tail(crawl.queue))
      /\ Fresh(Tail(crawl.queue), crawl.seen \cup {row})
  BY <1>0, SetOfQueue, FreshTail
<1>2. ~Collides(row)
  <2> SUFFICES ASSUME NEW r \in crawl.seen, r.id = row.id, r # row \/ ~row.top
               PROVE  FALSE
    BY DEF Collides
  <2>1. r \in ToSet(Listing(board)) /\ row \in ToSet(Listing(board))
    BY <1>1, CalmRows
  <2>2. r = row
    BY <2>1 DEF Calm, Readable, ListedOnce, ToSet
  <2>3. 1 \in DOMAIN crawl.queue /\ crawl.queue[1] = row
    BY <1>0, LenProperties, EmptySeq, HeadTailProperties
  <2> QED BY <1>0, <2>2, <2>3 DEF Fresh
<1>3. ASSUME crawl' = rest \/ crawl' = next, crawl'.seen = crawl.seen \cup {row},
             crawl'.queue \in {crawl.queue, Tail(crawl.queue)},
             pc' = IF crawl'.queue = crawl.queue THEN "detail" ELSE "entries",
             Coming' = Tail(crawl.queue)
      PROVE  OnTrack'
  <2>1. /\ crawl'.pages = crawl.pages /\ crawl'.left = crawl.left
        /\ crawl'.failed = crawl.failed
    BY <1>0, <1>3 DEF Crawl
  <2>2. RowsRead' = RowsRead
    BY <2>1 DEF RowsRead
  <2>3. crawl'.seen \cup ToSet(crawl'.queue) = crawl.seen \cup ToSet(crawl.queue)
    BY <1>1, <1>3
  <2>4. Fresh(Coming, crawl.seen)'
    BY <1>1, <1>3 DEF Fresh
  <2>5. pc' \in {"detail", "entries"}
    BY <1>3
  <2>6. Rowwise'
    BY <2>1, <2>2, <2>3, <2>4, <2>5 DEF Calm, OnTrack, Rowwise
  <2>7. Pagewise' /\ Flawless'
    BY <2>1, <2>5 DEF Calm, OnTrack, Pagewise, Flawless
  <2> QED BY <2>6, <2>7 DEF OnTrack
<1>4. Tail(crawl.queue) # crawl.queue
  <2>1. Len(Tail(crawl.queue)) = Len(crawl.queue) - 1 /\ Len(crawl.queue) \in Nat
    BY <1>0, HeadTailProperties, LenProperties
  <2>2. \A n \in Nat : n # n - 1
    OBVIOUS
  <2>3. Len(Tail(crawl.queue)) # Len(crawl.queue)
    BY <2>1, <2>2
  <2> QED BY <2>3
<1>5. CASE row \in crawl.seen /\ Continue("entries", rest)
  <2>1. crawl' = rest /\ pc' = "entries"
    BY <1>5 DEF Continue
  <2>2. crawl'.seen = crawl.seen \cup {row} /\ crawl'.queue = Tail(crawl.queue)
    BY <1>0, <1>5, <2>1 DEF Crawl
  <2>3. Coming' = Tail(crawl.queue)
    BY <2>1, <2>2 DEF Coming, Details
  <2> QED BY <1>3, <1>4, <2>1, <2>2, <2>3
<1>6. CASE Continue(IF Wanted(row) THEN "detail" ELSE "entries", next)
  <2>1. next.seen = crawl.seen \cup {row} /\ next.queue = queue
    <3> HIDE DEF changed, queue
    <3> QED BY <1>0 DEF Crawl
  <2> HIDE DEF next
  <2>2. /\ crawl' = next /\ crawl'.seen = crawl.seen \cup {row}
        /\ crawl'.queue \in {crawl.queue, Tail(crawl.queue)}
        /\ pc' = IF crawl'.queue = crawl.queue THEN "detail" ELSE "entries"
    BY <1>4, <1>6, <2>1 DEF Continue
  <2>3. Coming' = Tail(crawl.queue)
    BY <1>4, <1>6, <2>1, <2>2 DEF Coming, Details
  <2> QED BY <1>3, <2>2, <2>3
<1> QED BY <1>2, <1>5, <1>6 DEF TakeEntry

\* What the site answers for the row in hand.
LEMMA CalmAnswer ==
    ASSUME Calm, pc \in Details
    PROVE  /\ Answer = [title |-> DetailRow.title, body |-> "full"]
           /\ crawl.queue # <<>> /\ DetailRow \in crawl.seen
<1>1. crawl.queue # <<>> /\ DetailRow \in crawl.seen
  BY CalmTypes DEF TInv, Holding, DetailRow
<1>2. DetailRow \in ToSet(Listing(board))
  BY <1>1, CalmRows
<1> QED BY <1>1, <1>2, CalmTypes, RestingAnswer DEF Calm, Readable

LEMMA DeliveryOnTrack ==
    ASSUME Calm, Alone, pc \in Details, NEW item, crawl' = Delivery(item, FALSE), pc' = "entries"
    PROVE  OnTrack'
<1>0. crawl \in Crawl /\ crawl.queue # <<>> /\ Head(crawl.queue) \in crawl.seen
      /\ crawl.queue \in Seq(Row)
  BY CalmTypes, CalmAnswer DEF DetailRow
<1>1. /\ crawl'.pages = crawl.pages /\ crawl'.left = crawl.left /\ crawl'.failed = FALSE
      /\ crawl'.seen = crawl.seen /\ crawl'.queue = Tail(crawl.queue)
  BY <1>0 DEF Delivery, Crawl
<1>2. RowsRead' = RowsRead
  BY <1>1 DEF RowsRead
<1>3. crawl'.seen \cup ToSet(crawl'.queue) = crawl.seen \cup ToSet(crawl.queue)
  <2>1. ToSet(crawl.queue) = {Head(crawl.queue)} \cup ToSet(Tail(crawl.queue))
    BY <1>0, SetOfQueue
  <2> QED BY <1>0, <1>1, <2>1
<1>4. Coming' = Coming
  BY <1>1 DEF Coming, Details
<1>5. Rowwise'
  BY <1>1, <1>2, <1>3, <1>4 DEF Calm, OnTrack, Rowwise, Fresh
<1>6. Pagewise' /\ Flawless'
  BY <1>1 DEF Calm, OnTrack, Pagewise, Flawless
<1> QED BY <1>5, <1>6 DEF OnTrack

LEMMA CalmDetails ==
    ASSUME Calm, Alone, faults' = faults,
           ReadApiDetail \/ ConfirmApiDetail \/ SupplementApiDetail
             \/ ReadFallbackDetail \/ ConfirmFallbackDetail
    PROVE  OnTrack'
<1>0. pc \in Details /\ crawl.failed = FALSE /\ pc # "html"
  BY DEF ReadApiDetail, ConfirmApiDetail, SupplementApiDetail, ReadFallbackDetail,
         ConfirmFallbackDetail, Details, Calm, OnTrack, Flawless
<1>1. Answer = [title |-> DetailRow.title, body |-> "full"]
  BY <1>0, CalmAnswer
<1>2. pc = "confirm" => crawl.detail = {Answer}
  BY <1>1 DEF Calm, OnTrack, Flawless
<1>3. ASSUME Continue("confirm", [crawl EXCEPT !.detail = {Answer}])
      PROVE  OnTrack'
  <2>1. /\ crawl'.pages = crawl.pages /\ crawl'.left = crawl.left
        /\ crawl'.failed = crawl.failed
        /\ crawl'.seen = crawl.seen /\ crawl'.queue = crawl.queue
        /\ crawl'.detail = {Answer} /\ pc' = "confirm"
    BY <1>3, CalmTypes DEF Continue, Crawl
  <2>2. RowsRead' = RowsRead /\ Coming' = Coming /\ DetailRow' = DetailRow
    BY <1>0, <2>1 DEF RowsRead, Coming, Details, DetailRow
  <2>3. Rowwise'
    BY <2>1, <2>2 DEF Calm, OnTrack, Rowwise, Fresh
  <2>4. Pagewise' /\ Flawless'
    BY <1>1, <2>1, <2>2 DEF Calm, OnTrack, Pagewise, Flawless
  <2> QED BY <2>3, <2>4 DEF OnTrack
<1>4. CASE ReadApiDetail
  <2>1. faults # faults + 1
    BY DEF Calm, Resting
  <2> QED BY <1>3, <1>4, <2>1 DEF ReadApiDetail
<1>5. CASE ConfirmApiDetail
  <2>1. DeliverApi(Answer, "full")
    <3>1. crawl.detail = {Answer} /\ Answer.body = "full"
      BY <1>1, <1>2, <1>5 DEF ConfirmApiDetail
    <3>2. PICK second \in {Answer} \cup (crawl.detail \cap {NoAnswer}) :
            IF crawl.detail # {second} THEN GiveUp("other")
            ELSE IF second.body \in {"none", "missing"} THEN Continue("html", crawl)
            ELSE DeliverApi(second, second.body)
      BY <1>5 DEF ConfirmApiDetail
    <3>3. second = Answer
      BY <3>1, <3>2
    <3> QED BY <3>1, <3>2, <3>3
  <2>2. PICK failed \in BOOLEAN :
          /\ failed <=> crawl.failed \/ Answer.title # DetailRow.title \/ "full" = "none"
          /\ crawl' = Delivery(ItemOf(Answer.title, "full"), failed)
          /\ pc' = "entries"
    BY <2>1, ApiDelivers
  <2>3. failed = FALSE
    BY <1>0, <1>1, <2>2
  <2> QED BY <1>0, <2>2, <2>3, DeliveryOnTrack
<1>6. CASE SupplementApiDetail
  BY <1>0, <1>6 DEF SupplementApiDetail
<1>7. CASE ReadFallbackDetail
  BY <1>1, <1>3, <1>7 DEF ReadFallbackDetail
<1>8. CASE ConfirmFallbackDetail
  <2>1. Continue("entries",
          [crawl EXCEPT !.queue = Tail(@), !.detail = {},
             !.items = @ \cup {[id |-> DetailRow.id, top |-> DetailRow.top,
                                title |-> DetailRow.title, body |-> "full"]}])
    BY <1>1, <1>2, <1>8 DEF ConfirmFallbackDetail
  <2>2. crawl' = Delivery(ItemOf(DetailRow.title, "full"), FALSE) /\ pc' = "entries"
    BY <1>0, <2>1, FallbackDeliveryTyped, CalmTypes DEF TInv, Continue
  <2> QED BY <1>0, <2>2, DeliveryOnTrack
<1> QED BY <1>4, <1>5, <1>6, <1>7, <1>8

\* All that must be read was read.
LEMMA CalmMissed ==
    ASSUME Calm, pc = "verify"
    PROVE  Missed = {}
<1>1. crawl.queue = <<>> /\ Rows(board, NextPage) = <<>>
  BY DEF Calm, OnTrack, Rowwise, Pagewise
<1>2. Ids(crawl.seen) = OnBoard(board)
  BY <1>1, CalmRows, CalmSeen DEF OnBoard
<1>3. crawl.status # "failed"
  BY CalmTypes DEF SInv, InHand, InHandOf
<1> SUFFICES ASSUME NEW n \in setting.targeted PROVE n \in Ids(crawl.items)
  BY DEF Missed
<1>4. PICK row \in crawl.seen : row.id = n
  BY <1>2 DEF Calm, Readable, Ids
<1>5. n \in setting.due /\ n \in Known
  BY CalmTypes DEF Calm, TargetsAreDue, Setting
<1>6. row.id \in Ids(crawl.items) \/ LeftOut(row) \/ RowInWork(row)
  BY <1>3 DEF Calm, JInv, Treated
<1> QED BY <1>4, <1>5, <1>6 DEF LeftOut, RowInWork, Details

LEMMA CalmVerify ==
    ASSUME Calm, Alone, VerifyApiPage \/ VerifyFallbackPage
    PROVE  OnTrack'
<1>0. /\ pc = "verify" /\ crawl.queue = <<>> /\ crawl.failed = FALSE /\ crawl.pages # <<>>
      /\ crawl.at <= Len(crawl.pages) /\ crawl.at # 0 /\ crawl.at \in Nat
      /\ crawl \in Crawl /\ crawl.status = "running"
  BY CalmTypes DEF VerifyApiPage, VerifyFallbackPage, Calm, OnTrack, Rowwise, Flawless,
                   SInv, InHand, InHandOf, Crawl
<1>1. crawl.at \in DOMAIN crawl.pages
  BY <1>0, CalmTypes
<1>2. Current(crawl.at) = crawl.pages[crawl.at]
  BY <1>1, CalmPages DEF Current
<1>3. Missed = {} /\ ~crawl.failed
  BY <1>0, CalmMissed
<1> DEFINE success == [NextAt EXCEPT !.status = "success"]
<1>4. \/ crawl' = NextAt /\ pc' = "verify"
      \/ crawl' = success /\ pc' = "done"
  <2>1. SamePage(TRUE)
    BY <1>3 DEF VerifyApiPage, VerifyFallbackPage
  <2>2. crawl.at < Len(crawl.pages) \/ crawl.at = Len(crawl.pages)
    BY <1>0, CalmTypes
  <2> QED BY <1>2, <2>1, <2>2 DEF SamePage, Continue, NextAt
<1>5. /\ NextAt.pages = crawl.pages /\ NextAt.queue = crawl.queue /\ NextAt.seen = crawl.seen
      /\ NextAt.failed = crawl.failed /\ NextAt.left = crawl.left
      /\ NextAt.at = crawl.at + 1
      /\ success.pages = crawl.pages /\ success.queue = crawl.queue
      /\ success.seen = crawl.seen /\ success.failed = crawl.failed
      /\ success.left = crawl.left /\ success.status = "success"
  BY <1>0 DEF NextAt, Crawl
<1> HIDE DEF success
<1>6. /\ crawl'.pages = crawl.pages /\ crawl'.queue = crawl.queue /\ crawl'.seen = crawl.seen
      /\ crawl'.failed = crawl.failed /\ crawl'.left = crawl.left
      /\ pc' = "verify" => crawl'.at = crawl.at + 1
      /\ pc' = "verify" \/ (pc' = "done" /\ crawl'.status = "success")
  BY <1>4, <1>5
<1>7. RowsRead' = RowsRead /\ Coming' = Coming /\ NextPage' = NextPage
  BY <1>0, <1>6 DEF RowsRead, Coming, Details, NextPage
<1>8. Rowwise'
  BY <1>0, <1>6, <1>7 DEF Calm, OnTrack, Rowwise, Fresh
<1>9. Pagewise'
  BY <1>0, <1>6, <1>7, SameRows DEF Calm, OnTrack, Pagewise, Alone
<1>10. Flawless'
  <2>1. crawl.at + 1 # 0
    BY <1>0
  <2> QED BY <1>6, <2>1 DEF Calm, OnTrack, Flawless
<1> QED BY <1>8, <1>9, <1>10 DEF OnTrack

LEMMA RestStarts == Init => RInv
<1> SUFFICES ASSUME Init PROVE RInv
  OBVIOUS
<1>1. JInv
  BY ItemsStart
<1>2. TargetsAreDue
  BY SettingsAssumption DEF Init, TargetsAreDue
<1>3. /\ crawl.pages = <<>> /\ crawl.queue = <<>> /\ crawl.seen = {} /\ crawl.failed = FALSE
      /\ crawl.left = {} /\ pc = "page"
  BY DEF Init, NewCrawl
<1>4. RowsRead = {} /\ ToSet(crawl.queue) = {}
  BY <1>3 DEF RowsRead, ToSet
<1>5. OnTrack
  BY <1>3, <1>4 DEF OnTrack, Rowwise, Pagewise, Flawless, Coming, Fresh, Details
<1> QED BY <1>1, <1>2, <1>5 DEF RInv

LEMMA RestKept == RInv /\ [Next]_vars => RInv'
<1> SUFFICES ASSUME RInv, [Next]_vars PROVE RInv'
  OBVIOUS
<1>0. JInv'
  BY ItemsKept DEF RInv
<1>1. TargetsAreDue'
  <2>1. setting' = setting
    BY Unchanged DEF vars
  <2> QED BY <2>1 DEF RInv, TargetsAreDue
<1>2. CASE Resting' /\ Resting /\ Alone /\ body' = body
  <2>1. Readable' => Readable
    <3>1. ListedOnce(board)' <=> ListedOnce(board)
      BY <1>2 DEF ListedOnce, Listing, Alone
    <3>2. OnBoard(board)' = OnBoard(board)
      BY <1>2 DEF OnBoard, Listing, Ids, ToSet, Alone
    <3>3. Rows(board, PageLimit)' = Rows(board, PageLimit)
      BY <1>2, SameRows DEF Alone
    <3> QED BY <1>2, <3>1, <3>2, <3>3 DEF Readable, Alone
  <2> SUFFICES ASSUME Calm PROVE OnTrack'
    BY <1>0, <1>1, <1>2, <2>1 DEF RInv, Calm
  <2>2. changes' = changes /\ faults' = faults /\ faults # faults + 1 /\ changes # changes + 1
    BY <1>2 DEF Resting
  <2>3. CASE UNCHANGED vars
    <3>1. crawl' = crawl /\ pc' = pc
      BY <2>3 DEF vars
    <3>2. Rowwise'
      BY <3>1 DEF Calm, OnTrack, Rowwise, RowsRead, Coming, Fresh
    <3>3. Pagewise'
      BY <1>2, <3>1, SameRows, SameViews DEF Calm, OnTrack, Pagewise, NextPage, Alone
    <3>4. Flawless'
      BY <3>1 DEF Calm, OnTrack, Flawless, DetailRow
    <3> QED BY <3>2, <3>3, <3>4 DEF OnTrack
  <2>4. CASE \/ ReadApiPage \/ ConfirmApiEmpty \/ EndApiPage
             \/ ReadFallbackPage \/ ConfirmFallbackEmpty \/ EndFallbackPage
    BY <1>2, <2>4, CalmReadApiPage, CalmConfirmApiEmpty, CalmEndApiPage, CalmFallbackList
  <2>5. CASE TakeEntry
    BY <1>2, <2>5, CalmTakeEntry
  <2>6. CASE \/ ReadApiDetail \/ ConfirmApiDetail \/ SupplementApiDetail
             \/ ReadFallbackDetail \/ ConfirmFallbackDetail
    BY <1>2, <2>2, <2>6, CalmDetails
  <2>7. CASE VerifyApiPage \/ VerifyFallbackPage
    BY <1>2, <2>7, CalmVerify
  <2>8. CASE \E category : RequestFails(category)
    BY <2>2, <2>8 DEF RequestFails
  <2>9. CASE \/ \E b \in Neighbours(board) : ChangeBoard(b)
             \/ \E n \in Notices, content \in Contents : ChangeBody(n, content)
    BY <2>2, <2>9 DEF ChangeBoard, ChangeBody
  <2> QED BY <2>3, <2>4, <2>5, <2>6, <2>7, <2>8, <2>9, StepsOfNext
<1>3. Resting' => Resting /\ Alone /\ body' = body
  <2> SUFFICES ASSUME Resting' PROVE Resting /\ Alone /\ body' = body
    OBVIOUS
  <2>1. changes \in Nat /\ faults \in Nat
    BY BoundsAssumption DEF RInv, JInv, SInv, TInv, TypeOK
  <2>2. changes + 1 # 0 /\ faults + 1 # 0
    BY <2>1
  <2>3. CASE UNCHANGED vars
    BY <2>3 DEF vars, Resting, Alone
  <2>4. CASE CrawlStep
    BY <2>2, <2>4, CrawlStepsAreQuiet DEF Site, Resting, Alone
  <2>5. CASE \E category : RequestFails(category)
    BY <2>2, <2>5 DEF RequestFails, Resting
  <2>6. CASE \/ \E b \in Neighbours(board) : ChangeBoard(b)
             \/ \E n \in Notices, content \in Contents : ChangeBody(n, content)
    BY <2>2, <2>6 DEF ChangeBoard, ChangeBody, Resting
  <2> QED BY <2>3, <2>4, <2>5, <2>6, FailuresAreRequests DEF Next, Environment
<1> QED BY <1>0, <1>1, <1>2, <1>3 DEF RInv

(***************************************************************************)
(* The safeguards against a board that moves never refuse one that stands  *)
(* still: if the notices that must be read are on it and none lacks a text *)
(* or attachments, the crawl delivers it, however long the list, whatever  *)
(* the pages are cut to and the totals count.                              *)
(***************************************************************************)
THEOREM RestIsDelivered == Spec => []RestingBoardIsRead
<1>1. Init => RInv
  BY RestStarts
<1>2. RInv /\ [Next]_vars => RInv'
  BY RestKept
<1>3. RInv => RestingBoardIsRead
  BY DEF RInv, Resting, Readable, OnTrack, Flawless, RestingBoardIsRead, Delivered
<1> QED BY <1>1, <1>2, <1>3, PTL DEF Spec

=============================================================================
