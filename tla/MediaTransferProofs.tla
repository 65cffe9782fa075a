-------------------------- MODULE MediaTransferProofs --------------------------
(***************************************************************************)
(* Proofs about MediaTransfer: whatever fails, changes or is edited, a run *)
(* keeps its budget, asks no host again that has refused it, writes its    *)
(* pages from what it has downloaded before, and loses no upload to a      *)
(* download that failed.                                                   *)
(***************************************************************************)
EXTENDS MediaTransfer, SequenceTheorems, FiniteSetTheorems, TLAPS

-----------------------------------------------------------------------------
\* What the helpers choose

LEMMA Least ==
    ASSUME NEW S \in SUBSET Nat, S # {}
    PROVE  \E x \in S : \A y \in S : x <= y
<1> DEFINE T == {1..n : n \in S}
<1>1. T \subseteq FiniteSubsetsOf(Nat) /\ T # {}
    <2>1. ASSUME NEW n \in S PROVE 1..n \in FiniteSubsetsOf(Nat)
        <3>1. 1 \in Int /\ n \in Int /\ 1..n \in SUBSET Nat
            OBVIOUS
        <3>2. IsFiniteSet(1..n)
            BY <3>1, FS_Interval
        <3> QED
            BY <3>1, <3>2 DEF FiniteSubsetsOf
    <2> QED
        BY <2>1
<1>2. PICK t \in T : \A u \in T : <<u, t>> \notin StrictSubsetOrdering(Nat)
    <2>1. IsWellFoundedOn(StrictSubsetOrdering(Nat), FiniteSubsetsOf(Nat))
        BY FS_StrictSubsetOrderingWellFounded
    <2> HIDE DEF T
    <2> QED
        BY <1>1, <2>1, WFMin
<1>3. PICK x \in S : t = 1..x
    OBVIOUS
<1>4. ASSUME NEW y \in S, ~(x <= y) PROVE FALSE
    <2>1. x \in 1..x /\ x \notin 1..y
        BY <1>4
    <2>2. 1..y \subseteq 1..x /\ 1..y # 1..x /\ 1..y \in SUBSET Nat /\ 1..x \in SUBSET Nat
        BY <1>4, <2>1
    <2>3. <<1..y, t>> \in StrictSubsetOrdering(Nat)
        BY <1>3, <2>2 DEF StrictSubsetOrdering
    <2> QED
        BY <1>2, <2>3
<1> QED
    BY <1>4

LEMMA MinIsLeast ==
    ASSUME NEW S \in SUBSET Nat, S # {}
    PROVE  Min(S) \in S /\ \A y \in S : Min(S) <= y
<1>1. \E x \in S : \A y \in S : x <= y
  BY Least
<1> QED BY <1>1 DEF Min

\* The notice under way is one of those left.
LEMMA ItemIsLeft ==
    ASSUME run.todo \subseteq Notices, run.todo # {}
    PROVE  Item \in run.todo
<1> DEFINE I == {i \in DOMAIN Order : Order[i] \in run.todo}
<1>1. DOMAIN Order = 1..Len(Order) /\ Len(Order) \in Nat
  BY NoticesAssumption, LenProperties
<1>2. I \in SUBSET Nat /\ I # {}
  BY <1>1, NoticesAssumption DEF Range
<1>3. Min(I) \in I
  BY <1>2, MinIsLeast
<1> QED BY <1>3 DEF Item

\* What Kept chooses for slot k after the slots before it.
Choice(n, got, status, kept, k) ==
    LET free == Free(n, got, status, kept, k) IN IF free = {} THEN 0 ELSE Min(free)

LEMMA FreeBefore ==
    ASSUME NEW n, NEW got, NEW status, NEW f, NEW g, NEW k \in Nat,
           \A i \in 1..(k - 1) : f[i] = g[i]
    PROVE  /\ Free(n, got, status, f, k) = Free(n, got, status, g, k)
           /\ Choice(n, got, status, f, k) = Choice(n, got, status, g, k)
<1>1. Free(n, got, status, f, k) = Free(n, got, status, g, k)
  BY DEF Free
<1> QED BY <1>1 DEF Choice

LEMMA ChoiceIsSlot ==
    ASSUME NEW n, NEW got, NEW status, NEW f, NEW k, page[n] \in Seq(Slots)
    PROVE  /\ Choice(n, got, status, f, k) \in 0..Len(page[n])
           /\ Choice(n, got, status, f, k) # 0 =>
                Choice(n, got, status, f, k) \in Free(n, got, status, f, k)
           /\ Choice(n, got, status, f, k) = 0 => Free(n, got, status, f, k) = {}
<1> DEFINE free == Free(n, got, status, f, k)
<1>1. DOMAIN page[n] = 1..Len(page[n]) /\ Len(page[n]) \in Nat
  BY LenProperties
<1>2. free \subseteq 1..Len(page[n])
  BY <1>1 DEF Free, Held
<1>3. free # {} => Min(free) \in free
  BY <1>1, <1>2, MinIsLeast
<1> HIDE DEF free
<1>4. Choice(n, got, status, f, k) = IF free = {} THEN 0 ELSE Min(free)
  BY DEF Choice, free
<1>5. 0 \in 0..Len(page[n]) /\ 1..Len(page[n]) \subseteq 0..Len(page[n])
      /\ 0 \notin 1..Len(page[n])
  BY <1>1
<1> QED BY <1>2, <1>3, <1>4, <1>5 DEF free

\* There is such an assignment of uploads to slots, slot after slot.
LEMMA KeptExists ==
    ASSUME NEW n, NEW got, NEW status, page[n] \in Seq(Slots), NEW m \in Nat
    PROVE  \E kept \in [1..m -> 0..Len(page[n])] :
              \A k \in 1..m : kept[k] = Choice(n, got, status, kept, k)
<1> DEFINE P == 0..Len(page[n])
           Fit(i, kept) == /\ kept \in [1..i -> P]
                           /\ \A k \in 1..i : kept[k] = Choice(n, got, status, kept, k)
           Bad == {i \in Nat : ~\E kept : Fit(i, kept)}
<1>1. ASSUME Bad # {} PROVE FALSE
  <2>1. PICK i \in Bad : \A j \in Bad : i <= j
    BY <1>1, Least
  <2>2. i # 0
    <3>1. [k \in 1..0 |-> 0] \in [1..0 -> P]
      OBVIOUS
    <3>2. Fit(0, [k \in 1..0 |-> 0])
      BY <3>1
    <3> QED BY <3>2
  <2>3. i \in Nat /\ i - 1 \in Nat /\ i - 1 \notin Bad
    <3>1. i \in Nat /\ i - 1 \in Nat /\ ~(i <= i - 1)
      BY <2>1, <2>2
    <3> HIDE DEF Bad
    <3> QED BY <2>1, <3>1
  <2>4. PICK kept : Fit(i - 1, kept)
    BY <2>3
  <2> DEFINE last == Choice(n, got, status, kept, i)
             next == [k \in 1..i |-> IF k < i THEN kept[k] ELSE last]
  <2>5. last \in P
    BY ChoiceIsSlot
  <2> HIDE DEF P, last
  <2>6. next \in [1..i -> P]
    <3>1. \A k \in 1..i : k < i => k \in 1..(i - 1)
      BY <2>1
    <3> QED BY <2>4, <2>5, <3>1
  <2>7. \A j \in 1..(i - 1) : next[j] = kept[j]
    BY <2>1
  <2>8. next[i] = last
    BY <2>1, <2>2
  <2> HIDE DEF next
  <2>9. ASSUME NEW k \in 1..i
        PROVE  next[k] = Choice(n, got, status, next, k)
    <3>1. k \in Nat /\ \A j \in 1..(k - 1) : next[j] = kept[j]
      BY <2>1, <2>7
    <3>2. Choice(n, got, status, next, k) = Choice(n, got, status, kept, k)
      BY <3>1, FreeBefore
    <3>3. CASE k = i
      BY <2>8, <3>2, <3>3 DEF last
    <3>4. CASE k # i
      <4>1. k \in 1..(i - 1)
        BY <2>1, <3>4
      <4> QED BY <2>4, <2>7, <3>2, <4>1
    <3> QED BY <3>3, <3>4
  <2> QED BY <2>1, <2>6, <2>9
<1> QED BY <1>1

\* A slot keeps an upload of the page that fits and that no slot before has
\* taken; it keeps none only where there is no such upload.
LEMMA KeptFits ==
    ASSUME NEW n, NEW S, NEW got \in Seq(S), NEW status, page[n] \in Seq(Slots)
    PROVE  /\ Kept(n, got, status) \in [DOMAIN got -> 0..Len(page[n])]
           /\ \A k \in DOMAIN got :
                LET j == Kept(n, got, status)[k]
                    free == Free(n, got, status, Kept(n, got, status), k)
                IN  (j # 0 => j \in free) /\ (j = 0 => free = {})
<1> DEFINE Fit(kept) == \A k \in DOMAIN got : kept[k] = Choice(n, got, status, kept, k)
<1>1. DOMAIN got = 1..Len(got) /\ Len(got) \in Nat
  BY LenProperties
<1>2. \E kept \in [DOMAIN got -> 0..Len(page[n])] : Fit(kept)
  <2>1. \E kept \in [1..Len(got) -> 0..Len(page[n])] :
           \A k \in 1..Len(got) : kept[k] = Choice(n, got, status, kept, k)
    BY <1>1, KeptExists
  <2> QED BY <1>1, <2>1
<1>3. Kept(n, got, status) = CHOOSE kept \in [DOMAIN got -> 0..Len(page[n])] : Fit(kept)
  BY DEF Kept, Choice
<1> HIDE DEF Fit
<1>4. Kept(n, got, status) \in [DOMAIN got -> 0..Len(page[n])] /\ Fit(Kept(n, got, status))
  BY <1>2, <1>3
<1> QED BY <1>4, ChoiceIsSlot DEF Fit

-----------------------------------------------------------------------------
\* The inductive invariant

\* Where a run is: a notice is under way, it is not yet to be applied, and an
\* address is tried again only while its host has not been given up.
Where ==
    /\ pc \in {"inspect", "download"} => run.todo # {}
    /\ run.todo \cap run.active = {}
    /\ pc = "download" => Len(run.got) <= Len(Shows[Item])
    /\ run.retries # 0 => Fetching /\ Asked \notin run.open

\* A host that refused is one that is not asked; no host is asked more often
\* than all of them.
Counts == run.refusing \subseteq run.open /\ \A h \in Hosts : run.sent[h] <= run.requests

\* What is left to apply was neither put off nor impossible to look up.
Planned == \A n \in run.active : run.plan[n].status # "unavailable" /\ ~run.plan[n].deferred

\* A file is withheld only while downloads have stopped.
Halted == pc = "download" /\ Withheld \in Range(run.got) => Stopped(run)

\* The places where notice n shows file f.
Places(n, f) == {k \in DOMAIN Shows[n] : Shows[n][k] = f}

\* The places of f that are still to be written from the cache, and those of
\* the notice under way that have got something.
Owed(f) == {x \in Notices \X Nat : x[1] \in run.active /\ x[2] \in Places(x[1], f)}
InHand(f) ==
    IF pc = "download"
    THEN {k \in DOMAIN run.got : Shows[Item][k] = f /\ run.got[k] # Withheld}
    ELSE {}

\* The cache has an entry for each of them.
Stock ==
    \A f \in Files : /\ IsFiniteSet(Owed(f))
                     /\ Cardinality(Owed(f)) + Cardinality(InHand(f)) <= Len(run.cache[f])

MInv == TypeOK /\ Where /\ Counts /\ Planned /\ Halted /\ Stock /\ ~run.again

-----------------------------------------------------------------------------
\* Types of what the notices show

LEMMA ShowsTyped ==
    ASSUME NEW n \in Notices
    PROVE  /\ Shows[n] \in Seq(Files) /\ DOMAIN Shows[n] = 1..Len(Shows[n])
           /\ Len(Shows[n]) \in Nat
           /\ \A k \in 1..Len(Shows[n]) : Shows[n][k] \in Files
BY ShowsAssumption, LenProperties, ElementOfSeq

\* The fields of a run a download never touches.
SameNotices(r, s) ==
    /\ s.todo = r.todo /\ s.active = r.active /\ s.plan = r.plan /\ s.again = r.again

\* A run that has sent some of the requests of a download, or has stopped.
Sending(r, s) ==
    /\ s \in Run /\ SameNotices(r, s) /\ s.got = r.got /\ s.cache = r.cache
    /\ s.retries = r.retries
    /\ s.refusing \subseteq s.open /\ \A h \in Hosts : s.sent[h] <= s.requests
    /\ Stopped(r) => Stopped(s)

LEMMA SendsNothing ==
    ASSUME TypeOK, Counts
    PROVE  Sending(run, run)
BY DEF TypeOK, Counts, Sending, SameNotices

LEMMA CountedSends ==
    ASSUME NEW r, NEW s, Sending(r, s), NEW h \in Hosts, s.requests < Cap
    PROVE  /\ Sending(r, Counted(s, h)) /\ Counted(s, h).open = s.open
           /\ Counted(s, h).requests = s.requests + 1
           /\ Counted(s, h).stopped = s.stopped
           /\ Counted(s, h).refusing = s.refusing
           /\ \A g \in Hosts : g # h => Counted(s, h).sent[g] = s.sent[g]
<1> DEFINE requests == s.requests + 1
           sent == [s.sent EXCEPT ![h] = @ + 1]
<1>0. s \in Run /\ s.sent \in [Hosts -> 0..Cap] /\ s.requests \in 0..Cap
  BY DEF Sending, Run
<1>1. requests \in 0..Cap
  BY <1>0, LimitsAssumption
<1>2. /\ sent \in [Hosts -> 0..Cap] /\ \A g \in Hosts : sent[g] <= requests
      /\ \A g \in Hosts : g # h => sent[g] = s.sent[g]
  <2>1. s.sent[h] + 1 \in 0..Cap /\ s.sent[h] + 1 <= requests
    BY <1>0, <1>1, LimitsAssumption DEF Sending
  <2>2. \A g \in Hosts : sent[g] = IF g = h THEN s.sent[h] + 1 ELSE s.sent[g]
    BY <1>0
  <2> QED BY <1>0, <2>1, <2>2 DEF Sending
<1>3. Counted(s, h) = [s EXCEPT !.requests = requests, !.sent = sent]
  BY DEF Counted
<1>4. requests >= s.requests
  BY <1>0
<1> HIDE DEF requests, sent
<1>5. /\ Counted(s, h) \in Run /\ SameNotices(s, Counted(s, h))
      /\ Counted(s, h).got = s.got /\ Counted(s, h).cache = s.cache
      /\ Counted(s, h).retries = s.retries /\ Counted(s, h).refusing = s.refusing
      /\ Counted(s, h).open = s.open /\ Counted(s, h).stopped = s.stopped
      /\ Counted(s, h).requests = requests /\ Counted(s, h).sent = sent
  BY <1>0, <1>1, <1>2, <1>3 DEF Run, SameNotices
<1>6. Stopped(s) => Stopped(Counted(s, h))
  BY <1>0, <1>1, <1>4, <1>5, LimitsAssumption DEF Stopped
<1> QED BY <1>2, <1>5, <1>6 DEF Sending, SameNotices, requests

LEMMA StopSends ==
    ASSUME NEW r, NEW s, Sending(r, s)
    PROVE  Sending(r, [s EXCEPT !.stopped = TRUE]) /\ Stopped([s EXCEPT !.stopped = TRUE])
<1>1. s \in Run
  BY DEF Sending
<1>2. /\ [s EXCEPT !.stopped = TRUE] \in Run /\ [s EXCEPT !.stopped = TRUE].stopped
      /\ SameNotices(s, [s EXCEPT !.stopped = TRUE])
      /\ [s EXCEPT !.stopped = TRUE].got = s.got /\ [s EXCEPT !.stopped = TRUE].cache = s.cache
      /\ [s EXCEPT !.stopped = TRUE].retries = s.retries
      /\ [s EXCEPT !.stopped = TRUE].refusing = s.refusing
      /\ [s EXCEPT !.stopped = TRUE].open = s.open
      /\ [s EXCEPT !.stopped = TRUE].sent = s.sent
      /\ [s EXCEPT !.stopped = TRUE].requests = s.requests
  BY <1>1 DEF Run, SameNotices
<1> QED BY <1>2 DEF Sending, SameNotices, Stopped

\* A circuit is opened, by a refusal or not.
LEMMA OpenSends ==
    ASSUME NEW r, NEW s, Sending(r, s), NEW h \in Hosts
    PROVE  /\ Sending(r, Opened(s, h))
           /\ Sending(r, [Opened(s, h) EXCEPT !.refusing = @ \cup {h}])
           /\ Opened(s, h).sent = s.sent
           /\ [Opened(s, h) EXCEPT !.refusing = @ \cup {h}].sent = s.sent
<1> DEFINE o == Opened(s, h)
           q == [o EXCEPT !.refusing = @ \cup {h}]
<1>1. s \in Run
  BY DEF Sending
<1>2. /\ o \in Run /\ SameNotices(s, o) /\ o.got = s.got /\ o.cache = s.cache
      /\ o.retries = s.retries /\ o.refusing = s.refusing /\ o.open = s.open \cup {h}
      /\ o.sent = s.sent /\ o.requests = s.requests /\ o.stopped = s.stopped
  BY <1>1 DEF Run, SameNotices, Opened
<1> HIDE DEF o
<1>3. /\ q \in Run /\ SameNotices(o, q) /\ q.got = o.got /\ q.cache = o.cache
      /\ q.retries = o.retries /\ q.refusing = o.refusing \cup {h} /\ q.open = o.open
      /\ q.sent = o.sent /\ q.requests = o.requests /\ q.stopped = o.stopped
  BY <1>2 DEF Run, SameNotices
<1> HIDE DEF q
<1>4. Sending(r, o)
  BY <1>2 DEF Sending, SameNotices, Stopped
<1>5. Sending(r, q)
  BY <1>2, <1>3 DEF Sending, SameNotices, Stopped
<1> QED BY <1>2, <1>3, <1>4, <1>5 DEF o, q

\* A file is under way.
LEMMA UrlTyped ==
    ASSUME TypeOK, Where, Fetching
    PROVE  /\ Item \in Notices /\ Len(run.got) \in Nat
           /\ run.got \in Seq(Bytes \cup {None, Withheld})
           /\ Len(run.got) + 1 \in 1..Len(Shows[Item]) /\ Url \in Files
           /\ Asked \in Hosts /\ Server \in Hosts
<1>1. run.todo \subseteq Notices /\ run.got \in Seq(Bytes \cup {None, Withheld})
  BY DEF TypeOK, Run
<1>2. Item \in Notices
  BY <1>1, ItemIsLeft DEF Where, Fetching
<1>3. Len(run.got) \in Nat
  BY <1>1, LenProperties
<1>4. Len(run.got) + 1 \in 1..Len(Shows[Item])
  BY <1>2, <1>3, ShowsTyped DEF Fetching
<1>5. Url \in Files
  BY <1>2, <1>4, ShowsTyped DEF Url
<1> QED BY <1>1, <1>2, <1>3, <1>4, <1>5, HostsAssumption DEF Asked, Server

\* Requests go to hosts that have not been given up.
Careful(s) == \A h \in Hosts : s.sent[h] # run.sent[h] => h \notin run.open

LEMMA AskedIsNotGivenUp ==
    ASSUME Where, Asking
    PROVE  Asked \notin run.open
BY DEF Where, Asking

LEMMA AskedSends ==
    ASSUME TypeOK, Where, Counts, Asking
    PROVE  /\ Sending(run, Counted(run, Asked)) /\ Careful(Counted(run, Asked))
           /\ Counted(run, Asked).requests = run.requests + 1
           /\ Counted(run, Asked).open = run.open
<1>1. Asked \in Hosts /\ run.requests < Cap
  <2>1. run.requests \in 0..Cap
    BY DEF TypeOK, Run
  <2> QED BY <2>1, UrlTyped, LimitsAssumption DEF Asking, Stopped
<1>2. /\ Sending(run, Counted(run, Asked))
      /\ \A g \in Hosts : g # Asked => Counted(run, Asked).sent[g] = run.sent[g]
      /\ Counted(run, Asked).requests = run.requests + 1
      /\ Counted(run, Asked).open = run.open
  BY <1>1, SendsNothing, CountedSends
<1> QED BY <1>2, AskedIsNotGivenUp DEF Careful

LEMMA AttemptSends ==
    ASSUME TypeOK, Where, Counts, Asking, NEW h \in Reachable
    PROVE  /\ h \in Hosts /\ Sending(run, Attempt(h)) /\ Careful(Attempt(h))
           /\ Attempt(h).open = run.open
<1> PICK first : first = Counted(run, Asked)
  OBVIOUS
<1>0. Asked \in Hosts /\ Server \in Hosts
  BY UrlTyped DEF Asking
<1>1. /\ Sending(run, first) /\ Careful(first) /\ first.requests = run.requests + 1
      /\ first.open = run.open
  BY AskedSends
<1>2. h \in Hosts
  BY <1>0 DEF Reachable
<1>3. CASE h = Asked
  BY <1>1, <1>2, <1>3 DEF Attempt
<1>4. CASE h # Asked
  <2>1. h = Server /\ Server # Asked /\ Server \notin run.open /\ ~(run.requests + 1 >= Cap)
    BY <1>4 DEF Reachable
  <2>2. first.requests < Cap
    <3>1. run.requests \in 0..Cap
      BY DEF TypeOK, Run
    <3> QED BY <1>1, <2>1, <3>1, LimitsAssumption
  <2>3. /\ Sending(run, Counted(first, h)) /\ Counted(first, h).open = first.open
        /\ \A g \in Hosts : g # h => Counted(first, h).sent[g] = first.sent[g]
    BY <1>1, <1>2, <2>2, CountedSends
  <2>4. Careful(Counted(first, h))
    BY <1>1, <2>1, <2>3 DEF Careful
  <2>5. Attempt(h) = Counted(first, h)
    BY <1>4 DEF Attempt
  <2> QED BY <1>1, <1>2, <2>3, <2>4, <2>5
<1> QED BY <1>3, <1>4

\* The download of a file ends with what it got, or without an entry.
LEMMA GotEnds ==
    ASSUME TypeOK, Where, Fetching, NEW s, Sending(run, s), NEW g \in Bytes \cup {None}
    PROVE  /\ Got(s, g) \in Run /\ SameNotices(run, Got(s, g)) /\ Got(s, g).retries = 0
           /\ Got(s, g).open = s.open /\ Got(s, g).refusing = s.refusing
           /\ Got(s, g).sent = s.sent /\ Got(s, g).requests = s.requests
           /\ Got(s, g).stopped = s.stopped
           /\ \/ /\ Got(s, g).got = Append(run.got, Withheld)
                 /\ Got(s, g).cache = run.cache /\ Stopped(s)
              \/ /\ Got(s, g).got = Append(run.got, g) /\ g # Withheld
                 /\ Got(s, g).cache = [run.cache EXCEPT ![Url] = Append(@, g)]
<1> PICK url : url = Url
  OBVIOUS
<1>0. /\ s \in Run /\ url \in Files /\ s.got = run.got /\ s.cache = run.cache
      /\ SameNotices(run, s) /\ 0 \in 0..MaxRetries
  BY UrlTyped, LimitsAssumption DEF Sending
<1>1. CASE g = None /\ Stopped(s)
  <2> DEFINE got == Append(s.got, Withheld)
  <2>1. got \in Seq(Bytes \cup {None, Withheld})
    BY <1>0, AppendProperties DEF Run
  <2>2. Got(s, g) = [s EXCEPT !.got = got, !.retries = 0]
    BY <1>1 DEF Got
  <2> HIDE DEF got
  <2>3. /\ Got(s, g) \in Run /\ SameNotices(s, Got(s, g)) /\ Got(s, g).retries = 0
        /\ Got(s, g).open = s.open /\ Got(s, g).refusing = s.refusing
        /\ Got(s, g).sent = s.sent /\ Got(s, g).requests = s.requests
        /\ Got(s, g).stopped = s.stopped /\ Got(s, g).got = got /\ Got(s, g).cache = s.cache
    BY <1>0, <2>1, <2>2 DEF Run, SameNotices
  <2> QED BY <1>0, <1>1, <2>3 DEF got, SameNotices
<1>2. CASE ~(g = None /\ Stopped(s))
  <2> DEFINE got == Append(s.got, g)
             cache == [s.cache EXCEPT ![url] = Append(@, g)]
  <2>1. got \in Seq(Bytes \cup {None, Withheld})
    BY <1>0, AppendProperties DEF Run
  <2>2. cache \in [Files -> Seq(Bytes \cup {None})]
    <3>1. s.cache \in [Files -> Seq(Bytes \cup {None})]
      BY <1>0 DEF Run
    <3>2. Append(s.cache[url], g) \in Seq(Bytes \cup {None})
      BY <1>0, <3>1, AppendProperties
    <3> QED BY <3>1, <3>2
  <2>3. Got(s, g) = [s EXCEPT !.got = got, !.retries = 0, !.cache = cache]
    BY <1>2 DEF Got
  <2> HIDE DEF got, cache
  <2>4. /\ Got(s, g) \in Run /\ SameNotices(s, Got(s, g)) /\ Got(s, g).retries = 0
        /\ Got(s, g).open = s.open /\ Got(s, g).refusing = s.refusing
        /\ Got(s, g).sent = s.sent /\ Got(s, g).requests = s.requests
        /\ Got(s, g).stopped = s.stopped /\ Got(s, g).got = got /\ Got(s, g).cache = cache
    BY <1>0, <2>1, <2>2, <2>3 DEF Run, SameNotices
  <2>5. g # Withheld
    BY VersionsAssumption DEF Bytes, Junk, None, Withheld
  <2> QED BY <1>0, <2>4, <2>5 DEF got, cache, SameNotices
<1> QED BY <1>1, <1>2

-----------------------------------------------------------------------------
\* The steps of a download

LEMMA HandIsFinite ==
    ASSUME TypeOK, NEW f
    PROVE  IsFiniteSet(InHand(f)) /\ Cardinality(InHand(f)) \in Nat
<1>1. DOMAIN run.got = 1..Len(run.got) /\ Len(run.got) \in Nat
  BY LenProperties DEF TypeOK, Run
<1>2. IsFiniteSet(1..Len(run.got))
  BY <1>1, FS_Interval
<1>3. InHand(f) \subseteq 1..Len(run.got)
  BY <1>1 DEF InHand
<1> QED BY <1>2, <1>3, FS_Subset, FS_CardinalityType

\* What changes only for a download and what it leaves alone.
Rest == <<source, page, wiped, saved, changes>>

LEMMA RestTyped ==
    ASSUME TypeOK, UNCHANGED Rest, run' \in Run, faults' \in 0..MaxFaults,
           pc' \in {"idle", "inspect", "download", "apply"}
    PROVE  TypeOK'
BY DEF TypeOK, Rest

LEMMA DownloadKeeps ==
    ASSUME MInv, Fetching, NEW s, Sending(run, s), NEW g \in Bytes \cup {None},
           run' = Got(s, g), UNCHANGED Rest, UNCHANGED pc, faults' \in 0..MaxFaults
    PROVE  MInv'
<1> PICK url : url = Url
  OBVIOUS
<1> PICK item : item = Item
  OBVIOUS
<1> PICK length : length = Len(run.got)
  OBVIOUS
<1>0. /\ TypeOK /\ Where /\ pc = "download" /\ item \in Notices /\ url \in Files
      /\ length \in Nat /\ length + 1 \in 1..Len(Shows[item]) /\ url = Shows[item][length + 1]
      /\ run.got \in Seq(Bytes \cup {None, Withheld})
  BY UrlTyped DEF MInv, Url, Fetching
<1>1. /\ run' \in Run /\ SameNotices(run, run') /\ run'.retries = 0 /\ run'.open = s.open
      /\ run'.refusing = s.refusing /\ run'.sent = s.sent /\ run'.requests = s.requests
      /\ run'.stopped = s.stopped
  BY <1>0, GotEnds
<1>2. \/ /\ run'.got = Append(run.got, Withheld) /\ run'.cache = run.cache /\ Stopped(run')
      \/ /\ run'.got = Append(run.got, g) /\ g # Withheld
         /\ run'.cache = [run.cache EXCEPT ![url] = Append(@, g)]
  <2>1. \/ /\ Got(s, g).got = Append(run.got, Withheld)
           /\ Got(s, g).cache = run.cache /\ Stopped(s)
        \/ /\ Got(s, g).got = Append(run.got, g) /\ g # Withheld
           /\ Got(s, g).cache = [run.cache EXCEPT ![Url] = Append(@, g)]
    BY <1>0, GotEnds
  <2>2. Stopped(s) => Stopped(run')
    BY <1>1 DEF Stopped
  <2> QED BY <2>1, <2>2
<1>3. PICK last : /\ last \in Bytes \cup {None, Withheld} /\ run'.got = Append(run.got, last)
                  /\ last = Withheld => Stopped(run')
  BY <1>2
<1>4. /\ Len(run'.got) = length + 1 /\ DOMAIN run'.got = 1..(length + 1)
      /\ DOMAIN run.got = 1..length
      /\ \A k \in 1..length : run'.got[k] = run.got[k]
      /\ run'.got[length + 1] = last
  <2>1. run'.got \in Seq(Bytes \cup {None, Withheld})
    BY <1>1 DEF Run
  <2> QED BY <1>0, <1>3, <2>1, AppendProperties, LenProperties
<1>5. Item' = item
  BY <1>1 DEF SameNotices, Item
<1>6. TypeOK'
  BY <1>0, <1>1, RestTyped
<1>7. Where'
  BY <1>0, <1>1, <1>4, <1>5, ShowsTyped DEF Where, SameNotices
<1>8. Counts'
  BY <1>1 DEF Counts, Sending
<1>9. Planned' /\ ~run'.again
  BY <1>1 DEF MInv, Planned, SameNotices
<1>10. Halted'
  <2>1. CASE Withheld \in Range(run.got)
    <3>1. Stopped(s)
      BY <1>0, <2>1 DEF MInv, Halted, Sending
    <3> QED BY <1>1, <3>1 DEF Halted, Stopped
  <2>2. CASE Withheld \notin Range(run.got)
    <3>1. Withheld \in Range(run'.got) => last = Withheld
      BY <1>0, <1>4, <2>2 DEF Range
    <3> QED BY <1>3, <3>1 DEF Halted
  <2> QED BY <2>1, <2>2
<1>11. Stock'
  <2> SUFFICES ASSUME NEW f \in Files
               PROVE  /\ IsFiniteSet(Owed(f)')
                      /\ Cardinality(Owed(f)') + Cardinality(InHand(f)') <= Len(run'.cache[f])
    BY DEF Stock
  <2>1. Owed(f)' = Owed(f)
    BY <1>1 DEF Owed, SameNotices
  <2>2. /\ IsFiniteSet(Owed(f))
        /\ Cardinality(Owed(f)) + Cardinality(InHand(f)) <= Len(run.cache[f])
    BY DEF MInv, Stock
  <2>3. /\ IsFiniteSet(InHand(f)) /\ Cardinality(InHand(f)) \in Nat
        /\ Cardinality(Owed(f)) \in Nat
    BY <1>0, <2>2, HandIsFinite, FS_CardinalityType
  <2>4. run.cache[f] \in Seq(Bytes \cup {None}) /\ Len(run.cache[f]) \in Nat
    BY <1>0, LenProperties DEF TypeOK, Run
  <2>5. InHand(f) = {k \in 1..length : Shows[item][k] = f /\ run.got[k] # Withheld}
    BY <1>0, <1>4 DEF InHand
  <2>6. InHand(f)' = {k \in 1..(length + 1) : Shows[item][k] = f /\ run'.got[k] # Withheld}
    BY <1>0, <1>4, <1>5 DEF InHand
  <2>7. CASE url = f /\ last # Withheld
    <3>0. length + 1 \notin 1..length /\ 1..(length + 1) = (1..length) \cup {length + 1}
      BY <1>0
    <3>1. InHand(f)' = InHand(f) \cup {length + 1} /\ length + 1 \notin InHand(f)
      <4>1. length + 1 \notin InHand(f)
        BY <2>5, <3>0
      <4>2. length + 1 \in InHand(f)'
        BY <1>0, <1>4, <2>6, <2>7, <3>0
      <4>3. ASSUME NEW k \in 1..length PROVE k \in InHand(f)' <=> k \in InHand(f)
        BY <1>4, <2>5, <2>6, <3>0
      <4> QED BY <2>5, <2>6, <3>0, <4>1, <4>2, <4>3
    <3>2. Cardinality(InHand(f)') = Cardinality(InHand(f)) + 1
      BY <2>3, <3>1, FS_AddElement
    <3>3. Len(run'.cache[f]) = Len(run.cache[f]) + 1
      <4>1. run'.got[length + 1] # Withheld
        BY <1>4, <2>7
      <4>2. run'.got # Append(run.got, Withheld)
        BY <1>0, <4>1, AppendProperties
      <4>3. run'.cache = [run.cache EXCEPT ![url] = Append(@, g)]
        BY <1>2, <4>2
      <4>4. run'.cache[f] = Append(run.cache[f], g)
        BY <1>0, <2>7, <4>3 DEF TypeOK, Run
      <4> QED BY <2>4, <4>4, AppendProperties
    <3> QED BY <2>1, <2>2, <2>3, <2>4, <3>2, <3>3
  <2>8. CASE ~(url = f /\ last # Withheld)
    <3>1. InHand(f)' = InHand(f)
      BY <1>0, <1>4, <2>5, <2>6, <2>8
    <3>2. Len(run'.cache[f]) >= Len(run.cache[f])
      <4>1. run'.cache[f] = run.cache[f] \/ run'.cache[f] = Append(run.cache[f], g)
        BY <1>0, <1>2 DEF TypeOK, Run
      <4> QED BY <2>4, <4>1, AppendProperties
    <3>3. Len(run'.cache[f]) \in Nat
      BY <1>1, LenProperties DEF Run
    <3> QED BY <2>1, <2>2, <2>3, <2>4, <3>1, <3>2, <3>3
  <2> QED BY <2>7, <2>8
<1> QED BY <1>6, <1>7, <1>8, <1>9, <1>10, <1>11 DEF MInv

LEMMA SpendTyped ==
    ASSUME TypeOK, NEW c \in Nat, Spend(c)
    PROVE  faults' \in 0..MaxFaults
BY LimitsAssumption DEF TypeOK, Spend

LEMMA DownloadEnds ==
    ASSUME MInv, Fetching, NEW s, Sending(run, s), Careful(s), NEW g \in Bytes \cup {None},
           run' = Got(s, g), UNCHANGED Rest, UNCHANGED pc, faults' \in 0..MaxFaults
    PROVE  MInv' /\ Careful(run')
<1>1. MInv'
  BY DownloadKeeps
<1>2. run'.sent = s.sent
  BY GotEnds DEF MInv
<1> QED BY <1>1, <1>2 DEF Careful

\* A failed request is tried again.
LEMMA RetryKeeps ==
    ASSUME MInv, Asking, RetryLeft, NEW h \in Reachable,
           run' = [Attempt(h) EXCEPT !.retries = @ + 1],
           UNCHANGED Rest, UNCHANGED pc, faults' \in 0..MaxFaults
    PROVE  MInv' /\ Careful(run')
<1> PICK s : s = Attempt(h)
  OBVIOUS
<1>0. TypeOK /\ Where /\ Counts /\ Fetching /\ Asked \notin run.open
  BY AskedIsNotGivenUp DEF MInv, Asking
<1>1. Sending(run, s) /\ Careful(s) /\ s.open = run.open
  BY <1>0, AttemptSends
<1>2. run.retries + 1 \in 0..MaxRetries
  BY <1>0, LimitsAssumption DEF RetryLeft, TypeOK, Run
<1>3. run' = [s EXCEPT !.retries = run.retries + 1]
  BY <1>1 DEF Sending
<1>4. /\ run' \in Run /\ SameNotices(s, run') /\ run'.got = s.got /\ run'.cache = s.cache
      /\ run'.open = s.open /\ run'.refusing = s.refusing /\ run'.sent = s.sent
      /\ run'.requests = s.requests /\ run'.stopped = s.stopped
  BY <1>1, <1>2, <1>3 DEF Run, SameNotices, Sending
<1>5. /\ SameNotices(run, run') /\ run'.got = run.got /\ run'.cache = run.cache
      /\ run'.open = run.open /\ (Stopped(run) => Stopped(run'))
  BY <1>1, <1>4 DEF SameNotices, Sending, Stopped
<1>6. TypeOK'
  <2>1. pc' \in {"idle", "inspect", "download", "apply"}
    BY <1>0 DEF Fetching
  <2> QED BY <1>0, <1>4, <2>1, RestTyped
<1>7. Item' = Item /\ Url' = Url /\ Asked' = Asked /\ (Fetching <=> Fetching')
  <2>1. Item' = Item
    BY <1>5 DEF Item, SameNotices
  <2> QED BY <1>5, <2>1 DEF Fetching, Url, Asked
<1>8. Where'
  BY <1>0, <1>5, <1>7 DEF Where, SameNotices
<1>9. Counts'
  BY <1>1, <1>4 DEF Counts, Sending
<1>10. Planned' /\ Halted' /\ ~run'.again
  BY <1>5 DEF MInv, Planned, Halted, SameNotices
<1>11. Stock'
  <2>1. ASSUME NEW f PROVE Owed(f)' = Owed(f) /\ InHand(f)' = InHand(f)
    BY <1>5, <1>7 DEF Owed, InHand, SameNotices
  <2> QED BY <1>5, <2>1 DEF MInv, Stock
<1>12. Careful(run')
  BY <1>1, <1>4 DEF Careful
<1> QED BY <1>6, <1>8, <1>9, <1>10, <1>11, <1>12 DEF MInv

DownloadStep ==
    SkipFile \/ WithholdFile \/ StayAtRedirect \/ ReceiveFile \/ MissFile \/ RefuseFile \/ FailFile

\* A step of a download keeps the invariant, and sends nothing to a host that
\* has been given up.
LEMMA DownloadStepKeeps ==
    ASSUME MInv, DownloadStep
    PROVE  MInv' /\ Careful(run') /\ pc = "download" /\ UNCHANGED Rest
<1>0. TypeOK /\ Where /\ Counts /\ None \in Bytes \cup {None} /\ faults \in 0..MaxFaults
  BY DEF MInv, TypeOK
<1>1. Sending(run, run) /\ Careful(run)
  BY <1>0, SendsNothing DEF Careful
<1>2. CASE SkipFile
  <2>1. Fetching /\ run' = Got(run, None) /\ UNCHANGED Rest /\ UNCHANGED pc /\ UNCHANGED faults
    BY <1>2 DEF SkipFile, Rest
  <2> QED BY <1>0, <1>1, <2>1, DownloadEnds DEF Fetching
<1>3. CASE WithholdFile
  <2> PICK s : s = [run EXCEPT !.stopped = TRUE]
    OBVIOUS
  <2>1. Fetching /\ run' = Got(s, None) /\ UNCHANGED Rest /\ UNCHANGED pc /\ UNCHANGED faults
    BY <1>3 DEF WithholdFile, Rest
  <2>2. Sending(run, s)
    BY <1>1, StopSends
  <2>3. Careful(s)
    BY DEF Careful
  <2> QED BY <1>0, <2>1, <2>2, <2>3, DownloadEnds DEF Fetching
<1>4. CASE StayAtRedirect
  <2> PICK s : s = Counted(run, Asked)
    OBVIOUS
  <2> PICK t : t = [s EXCEPT !.stopped = TRUE]
    OBVIOUS
  <2>1. /\ Asking /\ Fetching /\ (run' = Got(s, None) \/ run' = Got(t, None))
        /\ UNCHANGED Rest /\ UNCHANGED pc /\ UNCHANGED faults
    BY <1>4 DEF StayAtRedirect, Asking, Rest
  <2>2. Sending(run, s) /\ Careful(s)
    BY <1>0, <2>1, AskedSends
  <2>3. Sending(run, t) /\ Careful(t)
    BY <2>2, StopSends DEF Careful
  <2>4. CASE run' = Got(s, None)
    BY <1>0, <2>1, <2>2, <2>4, DownloadEnds DEF Fetching
  <2>5. CASE run' = Got(t, None)
    BY <1>0, <2>1, <2>3, <2>5, DownloadEnds DEF Fetching
  <2> QED BY <2>1, <2>4, <2>5
<1>5. CASE ReceiveFile
  <2> PICK s : s = Attempt(Server)
    OBVIOUS
  <2> PICK g : g = source[Url]
    OBVIOUS
  <2>1. /\ Asking /\ Fetching /\ Server \in Reachable /\ run' = Got(s, g)
        /\ UNCHANGED Rest /\ UNCHANGED pc /\ UNCHANGED faults
    BY <1>5 DEF ReceiveFile, Asking, Rest
  <2>2. Sending(run, s) /\ Careful(s)
    BY <1>0, <2>1, AttemptSends
  <2>3. g \in Bytes \cup {None}
    BY <1>0, <2>1, UrlTyped DEF TypeOK
  <2> QED BY <1>0, <2>1, <2>2, <2>3, DownloadEnds DEF Fetching
<1>6. CASE MissFile
  <2>1. PICK h \in Reachable : run' = Got(Attempt(h), None)
    BY <1>6 DEF MissFile
  <2> PICK s : s = Attempt(h)
    OBVIOUS
  <2>2. Asking /\ Fetching /\ UNCHANGED Rest /\ UNCHANGED pc /\ Spend(1)
    BY <1>6 DEF MissFile, Asking, Rest
  <2>3. Sending(run, s) /\ Careful(s)
    BY <1>0, <2>2, AttemptSends
  <2>4. faults' \in 0..MaxFaults
    BY <1>0, <2>2, SpendTyped
  <2> QED BY <1>0, <2>1, <2>2, <2>3, <2>4, DownloadEnds DEF Fetching
<1>7. CASE RefuseFile
  <2>1. PICK h \in Reachable :
           run' = Got([Opened(Attempt(h), h) EXCEPT !.refusing = @ \cup {h}], None)
    BY <1>7 DEF RefuseFile
  <2> PICK a : a = Attempt(h)
    OBVIOUS
  <2> PICK s : s = [Opened(a, h) EXCEPT !.refusing = @ \cup {h}]
    OBVIOUS
  <2>2. Asking /\ Fetching /\ UNCHANGED Rest /\ UNCHANGED pc /\ Spend(1)
    BY <1>7 DEF RefuseFile, Asking, Rest
  <2>3. h \in Hosts /\ Sending(run, a) /\ Careful(a)
    BY <1>0, <2>2, AttemptSends
  <2>4. Sending(run, s) /\ s.sent = a.sent
    BY <2>3, OpenSends
  <2>5. Careful(s)
    BY <2>3, <2>4 DEF Careful
  <2>6. faults' \in 0..MaxFaults
    BY <1>0, <2>2, SpendTyped
  <2> QED BY <1>0, <2>1, <2>2, <2>4, <2>5, <2>6, DownloadEnds DEF Fetching
<1>8. CASE FailFile
  <2>1. PICK h \in Reachable :
           \/ RetryLeft /\ run' = [Attempt(h) EXCEPT !.retries = @ + 1]
           \/ run' = Got(Opened(Attempt(h), h), None)
    BY <1>8 DEF FailFile
  <2> PICK a : a = Attempt(h)
    OBVIOUS
  <2> PICK s : s = Opened(a, h)
    OBVIOUS
  <2>2. Asking /\ Fetching /\ UNCHANGED Rest /\ UNCHANGED pc /\ Spend(1)
    BY <1>8 DEF FailFile, Asking, Rest
  <2>3. h \in Hosts /\ Sending(run, a) /\ Careful(a)
    BY <1>0, <2>2, AttemptSends
  <2>4. Sending(run, s) /\ s.sent = a.sent
    BY <2>3, OpenSends
  <2>5. Careful(s)
    BY <2>3, <2>4 DEF Careful
  <2>6. faults' \in 0..MaxFaults
    BY <1>0, <2>2, SpendTyped
  <2>7. CASE run' = Got(s, None)
    BY <1>0, <2>2, <2>4, <2>5, <2>6, <2>7, DownloadEnds DEF Fetching
  <2>8. CASE RetryLeft /\ run' = [Attempt(h) EXCEPT !.retries = @ + 1]
    BY <2>2, <2>6, <2>8, RetryKeeps DEF Fetching
  <2> QED BY <2>1, <2>7, <2>8
<1> QED BY <1>2, <1>3, <1>4, <1>5, <1>6, <1>7, <1>8 DEF DownloadStep

\* The time for downloads is up.
LEMMA RunOutOfTimeKeeps ==
    ASSUME MInv, RunOutOfTime
    PROVE  MInv'
<1>0. /\ TypeOK /\ Where /\ Counts /\ Fetching /\ run' = [run EXCEPT !.stopped = TRUE]
      /\ UNCHANGED Rest /\ UNCHANGED pc /\ Spend(1)
  BY DEF MInv, RunOutOfTime, Rest
<1>1. Sending(run, run') /\ Stopped(run')
  BY <1>0, SendsNothing, StopSends
<1>2. run'.open = run.open
  BY <1>0 DEF TypeOK, Run
<1>3. /\ SameNotices(run, run') /\ run'.got = run.got /\ run'.cache = run.cache
      /\ run'.retries = run.retries /\ run' \in Run
  BY <1>1 DEF Sending
<1>4. TypeOK'
  <2>1. pc' \in {"idle", "inspect", "download", "apply"} /\ faults' \in 0..MaxFaults
    BY <1>0, SpendTyped DEF Fetching
  <2> QED BY <1>0, <1>3, <2>1, RestTyped
<1>5. Item' = Item /\ Url' = Url /\ Asked' = Asked /\ (Fetching <=> Fetching')
  <2>1. Item' = Item
    BY <1>3 DEF Item, SameNotices
  <2> QED BY <1>0, <1>3, <2>1 DEF Fetching, Url, Asked
<1>6. Where'
  BY <1>0, <1>2, <1>3, <1>5 DEF Where, SameNotices
<1>7. Counts' /\ Planned' /\ Halted' /\ ~run'.again
  BY <1>1, <1>3 DEF MInv, Counts, Planned, Halted, Sending, SameNotices
<1>8. Stock'
  <2>1. ASSUME NEW f PROVE Owed(f)' = Owed(f) /\ InHand(f)' = InHand(f)
    BY <1>0, <1>3, <1>5 DEF Owed, InHand, SameNotices
  <2> QED BY <1>3, <2>1 DEF MInv, Stock
<1> QED BY <1>4, <1>6, <1>7, <1>8 DEF MInv

-----------------------------------------------------------------------------
\* The steps of a run between its downloads

LEMMA EmptyRun ==
    /\ NoRun \in Run
    /\ \A T \in SUBSET Notices : [NoRun EXCEPT !.todo = T] \in Run
    /\ NoRun.sent = [h \in Hosts |-> 0] /\ NoRun.cache = [f \in Files |-> <<>>]
<1> DEFINE plan == [n \in Notices |-> NoPlan]
           noted == [n \in Notices |-> NoChange]
           cache == [f \in Files |-> <<>>]
           sent == [h \in Hosts |-> 0]
<1>1. plan \in [Notices -> Plans \cup {NoPlan}]
  OBVIOUS
<1>2. noted \in [Notices -> Seq(Shown)] /\ cache \in [Files -> Seq(Bytes \cup {None})]
  BY EmptySeq DEF NoChange
<1>3. 0 \in 0..Cap /\ 0 \in 0..MaxRetries
  BY LimitsAssumption
<1>4. sent \in [Hosts -> 0..Cap]
  BY <1>3
<1>5. NoRun = [todo |-> {}, active |-> {}, status |-> "valid", got |-> <<>>, retries |-> 0,
          requests |-> 0, sent |-> sent, stopped |-> FALSE, open |-> {},
          cache |-> cache, plan |-> plan, noted |-> noted, uploads |-> {}, again |-> FALSE,
          refusing |-> {}]
  BY DEF NoRun
<1> HIDE DEF plan, noted, cache, sent
<1>6. <<>> \in Seq(Bytes \cup {None, Withheld}) /\ "valid" \in Statuses
  BY EmptySeq DEF Statuses
<1>7. NoRun \in Run /\ \A T \in SUBSET Notices : [NoRun EXCEPT !.todo = T] \in Run
  BY <1>1, <1>2, <1>3, <1>4, <1>5, <1>6 DEF Run
<1> QED BY <1>5, <1>7 DEF sent, cache

\* With nothing to apply and no download under way, no entry is needed.
LEMMA NothingOwed ==
    ASSUME run.active = {}, pc # "download", run \in Run
    PROVE  Stock
<1> SUFFICES ASSUME NEW f \in Files
             PROVE  /\ IsFiniteSet(Owed(f))
                    /\ Cardinality(Owed(f)) + Cardinality(InHand(f)) <= Len(run.cache[f])
  BY DEF Stock
<1>1. Owed(f) = {} /\ InHand(f) = {}
  BY DEF Owed, InHand
<1>2. Len(run.cache[f]) \in Nat
  BY LenProperties DEF Run
<1> QED BY <1>1, <1>2, FS_EmptySet

LEMMA NothingOwedNext ==
    ASSUME run'.active = {}, pc' # "download", run' \in Run
    PROVE  Stock'
<1> SUFFICES ASSUME NEW f \in Files
             PROVE  /\ IsFiniteSet(Owed(f)')
                    /\ Cardinality(Owed(f)') + Cardinality(InHand(f)') <= Len(run'.cache[f])
  BY DEF Stock
<1>1. Owed(f)' = {} /\ InHand(f)' = {}
  BY DEF Owed, InHand
<1>2. Len(run'.cache[f]) \in Nat
  BY LenProperties DEF Run
<1> QED BY <1>1, <1>2, FS_EmptySet

LEMMA InitHolds ==
    ASSUME Init
    PROVE  MInv
<1>1. run \in Run /\ pc = "idle" /\ run = NoRun
  BY EmptyRun DEF Init
<1>2. TypeOK
  <2>1. source \in [Files -> Bytes]
    BY InitiallyAssumption DEF Init, Bytes
  <2>2. page \in [Notices -> Seq(Slots)] /\ \A n \in Notices : page[n] = NoPage
    BY EmptySeq DEF Init, NoPage
  <2>3. saved \in Saved
    BY EmptySeq DEF Init, Saved, NoChange
  <2>4. changes \in 0..MaxChanges /\ faults \in 0..MaxFaults /\ wiped \in SUBSET Notices
    BY LimitsAssumption DEF Init
  <2> QED BY <1>1, <2>1, <2>2, <2>3, <2>4 DEF TypeOK
<1>3. /\ run.active = {} /\ run.todo = {} /\ run.retries = 0 /\ run.refusing = {} /\ ~run.again
      /\ run.requests = 0 /\ \A h \in Hosts : run.sent[h] = 0
  BY <1>1, EmptyRun DEF NoRun
<1>4. Stock
  BY <1>1, <1>3, NothingOwed
<1> QED BY <1>1, <1>2, <1>3, <1>4 DEF MInv, Where, Counts, Planned, Halted

\* A run that ends leaves a state in which none is under way.
LEMMA IdleKeeps ==
    ASSUME MInv, Idle, UNCHANGED <<source, page, wiped, changes>>, saved' \in Saved,
           faults' \in 0..MaxFaults
    PROVE  MInv'
<1>1. run' \in Run /\ pc' = "idle" /\ run' = NoRun
  BY EmptyRun DEF Idle
<1>2. TypeOK'
  BY <1>1 DEF MInv, TypeOK
<1>3. /\ run'.active = {} /\ run'.todo = {} /\ run'.retries = 0 /\ run'.refusing = {}
      /\ ~run'.again /\ run'.requests = 0 /\ \A h \in Hosts : run'.sent[h] = 0
  BY <1>1, EmptyRun DEF NoRun
<1>4. Stock'
  BY <1>1, <1>3, NothingOwedNext
<1> QED BY <1>1, <1>2, <1>3, <1>4 DEF MInv, Where, Counts, Planned, Halted

LEMMA EndsKeep ==
    ASSUME MInv, FailRun \/ KillRun \/ EndRun \/ \E n \in Notices : AbortRun(n)
    PROVE  MInv' /\ Idle
<1>0. TypeOK /\ faults \in 0..MaxFaults /\ saved \in Saved /\ run \in Run
  BY DEF MInv, TypeOK
<1>1. Failed \in Saved
  <2>1. Unfinished \subseteq Notices
    BY <1>0 DEF Unfinished, Run
  <2> QED BY <1>0, <2>1, EmptySeq DEF Failed, Saved, NoChange
<1>2. [pending |-> Remaining, seen |-> run.noted] \in Saved
  BY <1>0 DEF Remaining, Saved, Run
<1>3. /\ Idle /\ UNCHANGED <<source, page, wiped, changes>>
      /\ saved' \in {Failed, saved, [pending |-> Remaining, seen |-> run.noted]}
      /\ Spend(1) \/ UNCHANGED faults
  BY DEF FailRun, KillRun, EndRun, AbortRun
<1>4. faults' \in 0..MaxFaults
  BY <1>0, <1>3, SpendTyped
<1> QED BY <1>0, <1>1, <1>2, <1>3, <1>4, IdleKeeps

LEMMA StartRunKeeps ==
    ASSUME MInv, NEW due \in SUBSET Notices, StartRun(due)
    PROVE  MInv'
<1> PICK T : T = Required \cup due
  OBVIOUS
<1>0. TypeOK /\ saved \in Saved
  BY DEF MInv, TypeOK
<1>1. T \in SUBSET Notices /\ T # {} /\ run' = [NoRun EXCEPT !.todo = T] /\ pc' = "inspect"
      /\ UNCHANGED Rest
  BY <1>0 DEF StartRun, Required, Saved, Rest
<1>2. run' \in Run
  BY <1>1, EmptyRun
<1>3. faults' \in 0..MaxFaults
  <2>1. CASE Required # {} /\ ~(due \subseteq Required)
    BY <1>0, <2>1, SpendTyped DEF StartRun
  <2>2. CASE ~(Required # {} /\ ~(due \subseteq Required))
    BY <1>0, <2>2, SpendTyped DEF StartRun
  <2> QED BY <2>1, <2>2
<1>4. TypeOK'
  BY <1>0, <1>1, <1>2, <1>3, RestTyped
<1>5. /\ run'.active = {} /\ run'.todo = T /\ run'.retries = 0 /\ run'.refusing = {}
      /\ ~run'.again /\ run'.requests = 0 /\ run'.sent = NoRun.sent
  BY <1>1 DEF NoRun
<1>6. \A h \in Hosts : run'.sent[h] = 0
  BY <1>5, EmptyRun
<1>7. Stock'
  BY <1>1, <1>2, <1>5, NothingOwedNext
<1> QED BY <1>1, <1>4, <1>5, <1>6, <1>7 DEF MInv, Where, Counts, Planned, Halted

LEMMA InspectPageKeeps ==
    ASSUME MInv, NEW readable \in BOOLEAN, InspectPage(readable)
    PROVE  MInv'
<1> PICK status : status = IF readable THEN Status(Item) ELSE "unavailable"
  OBVIOUS
<1>0. TypeOK /\ run \in Run /\ run.todo \subseteq Notices /\ pc = "inspect"
  BY DEF MInv, TypeOK, Run, InspectPage
<1>1. status \in Statuses
  BY DEF Status, Statuses
<1>2. /\ run' = [run EXCEPT !.got = <<>>, !.status = status] /\ pc' = "download"
      /\ UNCHANGED Rest /\ faults' \in 0..MaxFaults
  <2>1. CASE readable
    BY <1>0, <2>1, SpendTyped DEF InspectPage, Rest
  <2>2. CASE ~readable
    BY <1>0, <2>2, SpendTyped DEF InspectPage, Rest
  <2> QED BY <2>1, <2>2
<1>3. <<>> \in Seq(Bytes \cup {None, Withheld})
  BY EmptySeq
<1>4. /\ run' \in Run /\ SameNotices(run, run') /\ run'.got = <<>> /\ run'.retries = run.retries
      /\ run'.requests = run.requests /\ run'.sent = run.sent /\ run'.open = run.open
      /\ run'.refusing = run.refusing /\ run'.cache = run.cache
  BY <1>0, <1>1, <1>2, <1>3 DEF Run, SameNotices
<1>5. TypeOK'
  BY <1>0, <1>2, <1>4, RestTyped
<1>6. Item' = Item /\ Item \in Notices /\ run.retries = 0
  BY <1>0, <1>4, ItemIsLeft DEF Item, SameNotices, MInv, Where, Fetching
<1>7. Where'
  <2>1. Len(Shows[Item]) \in Nat
    BY <1>6, ShowsTyped
  <2> QED BY <1>0, <1>2, <1>4, <1>6, <2>1 DEF MInv, Where, SameNotices
<1>8. Counts' /\ Planned' /\ ~run'.again
  BY <1>4 DEF MInv, Counts, Planned, SameNotices
<1>9. Halted'
  BY <1>4 DEF Halted, Range
<1>10. Stock'
  <2>1. ASSUME NEW f PROVE Owed(f)' = Owed(f) /\ InHand(f)' = {} /\ InHand(f) = {}
    BY <1>0, <1>2, <1>4 DEF Owed, InHand, SameNotices
  <2> QED BY <1>4, <2>1 DEF MInv, Stock
<1> QED BY <1>5, <1>7, <1>8, <1>9, <1>10 DEF MInv

\* What a notice is to show, and the slots it shows it in.
LEMMA ShownTyped ==
    ASSUME TypeOK, NEW n \in Notices, NEW got \in Seq(Bytes \cup {None, Withheld}), NEW status
    PROVE  ToShow(n, got, Kept(n, got, status)) \in Seq(Shown)
<1> PICK kept : kept = Kept(n, got, status)
  OBVIOUS
<1>1. page[n] \in Seq(Slots)
  BY DEF TypeOK
<1>2. kept \in [DOMAIN got -> 0..Len(page[n])]
  BY <1>1, KeptFits
<1>3. DOMAIN got = 1..Len(got) /\ Len(got) \in Nat
  BY LenProperties
<1>4. ASSUME NEW k \in DOMAIN got
      PROVE  (IF kept[k] # 0 THEN page[n][kept[k]].sha
              ELSE IF got[k] \in Versions THEN got[k] ELSE Link) \in Shown
  <2>1. CASE kept[k] # 0
    <3>1. kept[k] \in 1..Len(page[n])
      BY <1>1, <1>2, <2>1, LenProperties
    <3>2. page[n][kept[k]] \in Slots
      BY <1>1, <3>1, ElementOfSeq
    <3> QED BY <2>1, <3>2 DEF Slots, LinkSlot, Shown
  <2>2. CASE kept[k] = 0
    BY <2>2 DEF Shown
  <2> QED BY <2>1, <2>2
<1> DEFINE shown == ToShow(n, got, kept)
<1>5. shown \in [1..Len(got) -> Shown]
  BY <1>3, <1>4 DEF ToShow
<1> HIDE DEF shown
<1>6. shown \in Seq(Shown)
  BY <1>3, <1>5, SeqDef
<1> QED BY <1>6 DEF shown

\* A set of places of one notice counts as much as the places alone.
LEMMA PairsCount ==
    ASSUME NEW n \in Notices, NEW f
    PROVE  /\ IsFiniteSet(Places(n, f)) /\ Cardinality(Places(n, f)) \in Nat
           /\ IsFiniteSet({n} \X Places(n, f))
           /\ Cardinality({n} \X Places(n, f)) = Cardinality(Places(n, f))
<1>1. IsFiniteSet(1..Len(Shows[n])) /\ Places(n, f) \subseteq 1..Len(Shows[n])
  <2>1. Len(Shows[n]) \in Int /\ 1 \in Int /\ DOMAIN Shows[n] = 1..Len(Shows[n])
    BY ShowsTyped
  <2>2. IsFiniteSet(1..Len(Shows[n]))
    BY <2>1, FS_Interval
  <2> QED BY <2>1, <2>2 DEF Places
<1>2. IsFiniteSet(Places(n, f)) /\ Cardinality(Places(n, f)) \in Nat
  BY <1>1, FS_Subset, FS_CardinalityType
<1>3. IsFiniteSet({n}) /\ Cardinality({n}) = 1
  BY FS_Singleton
<1>4. /\ IsFiniteSet({n} \X Places(n, f))
      /\ Cardinality({n} \X Places(n, f)) = 1 * Cardinality(Places(n, f))
  BY <1>2, <1>3, FS_Product
<1> QED BY <1>2, <1>4

\* The files of a notice are through.
LEMMA PlanItemKeeps ==
    ASSUME MInv, PlanItem
    PROVE  MInv'
<1> PICK n : n = Item
  OBVIOUS
<1> PICK kept : kept = Kept(n, run.got, run.status)
  OBVIOUS
<1> PICK missing \in BOOLEAN :
           missing <=> \E k \in DOMAIN run.got :
                          \/ run.got[k] = Withheld
                          \/ run.got[k] = None /\ kept[k] = 0
  OBVIOUS
<1> PICK deferred \in BOOLEAN :
           deferred <=> run.status = "unavailable" \/ (missing /\ Stopped(run))
  OBVIOUS
<1> PICK shown : shown = ToShow(n, run.got, kept)
  OBVIOUS
<1> PICK plan : plan = [run.plan EXCEPT ![n] =
                          [shown |-> shown, status |-> run.status, deferred |-> deferred]]
  OBVIOUS
<1>0. /\ TypeOK /\ Where /\ pc = "download" /\ ~Fetching /\ run \in Run
      /\ run.todo \subseteq Notices /\ run.active \subseteq Notices /\ run.status \in Statuses
      /\ run.got \in Seq(Bytes \cup {None, Withheld})
      /\ run.plan \in [Notices -> Plans \cup {NoPlan}]
  BY DEF MInv, TypeOK, Run, PlanItem
<1>1. n \in run.todo /\ n \in Notices /\ n \notin run.active
  BY <1>0, ItemIsLeft DEF Where
<1>2. shown \in Seq(Shown)
  BY <1>0, <1>1, ShownTyped
<1>3. plan \in [Notices -> Plans \cup {NoPlan}]
  <2>1. [shown |-> shown, status |-> run.status, deferred |-> deferred] \in Plans
    BY <1>0, <1>2 DEF Plans
  <2> QED BY <1>0, <1>1, <2>1
<1>4. /\ run' = [run EXCEPT !.todo = run.todo \ {n},
                            !.active = IF deferred THEN run.active ELSE run.active \cup {n},
                            !.plan = plan]
      /\ pc' = IF run.todo = {n} THEN "apply" ELSE "inspect"
      /\ UNCHANGED Rest /\ UNCHANGED faults
  <2>1. deferred = (run.status = "unavailable" \/
                      ((\E k \in DOMAIN run.got :
                          \/ run.got[k] = Withheld
                          \/ run.got[k] = None /\ kept[k] = 0) /\ Stopped(run)))
    OBVIOUS
  <2> QED BY <2>1 DEF PlanItem, Rest
<1>5. /\ run'.todo = run.todo \ {n}
      /\ run'.active = IF deferred THEN run.active ELSE run.active \cup {n}
      /\ run'.plan = plan /\ run'.again = run.again /\ run'.retries = run.retries
      /\ run'.requests = run.requests /\ run'.sent = run.sent /\ run'.open = run.open
      /\ run'.refusing = run.refusing /\ run'.cache = run.cache
  BY <1>0, <1>4 DEF Run
<1>6. run' \in Run
  <2>1. run'.todo \in SUBSET Notices /\ run'.active \in SUBSET Notices
    BY <1>0, <1>1, <1>5
  <2> HIDE <1>5
  <2> QED BY <1>0, <1>3, <1>4, <1>1 DEF Run
<1>7. TypeOK'
  <2>1. pc' \in {"idle", "inspect", "download", "apply"} /\ faults' \in 0..MaxFaults
    BY <1>0, <1>4 DEF TypeOK
  <2> QED BY <1>0, <1>4, <1>6, <2>1, RestTyped
<1>8. Where'
  <2>1. run.retries = 0
    BY <1>0 DEF Where
  <2>2. pc' = "inspect" => run'.todo # {}
    BY <1>1, <1>4, <1>5
  <2> QED BY <1>0, <1>4, <1>5, <2>1, <2>2 DEF Where
<1>9. Counts' /\ ~run'.again
  BY <1>5 DEF MInv, Counts
<1>10. Halted'
  BY <1>4 DEF Halted
<1>11. Planned'
  <2> SUFFICES ASSUME NEW m \in run'.active
               PROVE  plan[m].status # "unavailable" /\ ~plan[m].deferred
    BY <1>5 DEF Planned
  <2>1. CASE m = n
    <3>1. ~deferred
      BY <1>1, <1>5, <2>1
    <3> QED BY <1>0, <1>1, <2>1, <3>1
  <2>2. CASE m # n
    <3>1. m \in run.active /\ plan[m] = run.plan[m]
      BY <1>0, <1>5, <2>2
    <3> QED BY <3>1 DEF MInv, Planned
  <2> QED BY <2>1, <2>2
<1>12. Stock'
  <2> SUFFICES ASSUME NEW f \in Files
               PROVE  /\ IsFiniteSet(Owed(f)')
                      /\ Cardinality(Owed(f)') + Cardinality(InHand(f)') <= Len(run.cache[f])
    BY <1>5 DEF Stock
  <2>1. InHand(f)' = {} /\ Cardinality({}) = 0
    BY <1>4, FS_EmptySet DEF InHand
  <2>2. /\ IsFiniteSet(Owed(f))
        /\ Cardinality(Owed(f)) + Cardinality(InHand(f)) <= Len(run.cache[f])
    BY DEF MInv, Stock
  <2>3. /\ IsFiniteSet(InHand(f)) /\ Cardinality(InHand(f)) \in Nat
        /\ Cardinality(Owed(f)) \in Nat /\ Len(run.cache[f]) \in Nat
    BY <1>0, <2>2, HandIsFinite, FS_CardinalityType, LenProperties DEF Run
  <2>4. CASE deferred
    <3>1. Owed(f)' = Owed(f)
      BY <1>5, <2>4 DEF Owed
    <3> QED BY <2>1, <2>2, <2>3, <3>1
  <2>5. CASE ~deferred
    <3>1. Withheld \notin Range(run.got)
      <4>1. ~(missing /\ Stopped(run))
        BY <2>5
      <4>2. Withheld \in Range(run.got) => missing
        BY DEF Range
      <4> QED BY <1>0, <4>1, <4>2 DEF MInv, Halted
    <3>2. DOMAIN run.got = DOMAIN Shows[n]
      <4>1. Len(run.got) \in Nat /\ Len(Shows[n]) \in Nat
            /\ DOMAIN run.got = 1..Len(run.got) /\ DOMAIN Shows[n] = 1..Len(Shows[n])
        BY <1>0, <1>1, LenProperties, ShowsTyped
      <4>2. Len(run.got) = Len(Shows[n])
        BY <1>0, <4>1 DEF Where, Fetching
      <4> QED BY <4>1, <4>2
    <3>3. InHand(f) = Places(n, f)
      BY <1>0, <3>1, <3>2 DEF InHand, Places, Range
    <3>4. Owed(f)' = Owed(f) \cup ({n} \X Places(n, f))
      <4>1. Places(n, f) \subseteq Nat
        BY <1>1, ShowsTyped DEF Places
      <4>2. ASSUME NEW x \in Notices \X Nat
            PROVE  x \in Owed(f)' <=> x \in Owed(f) \/ x \in {n} \X Places(n, f)
        BY <1>5, <2>5 DEF Owed
      <4>3. Owed(f)' \subseteq Notices \X Nat /\ Owed(f) \subseteq Notices \X Nat
            /\ {n} \X Places(n, f) \subseteq Notices \X Nat
        BY <1>1, <4>1 DEF Owed
      <4> QED BY <4>2, <4>3
    <3>5. Owed(f) \cap ({n} \X Places(n, f)) = {}
      BY <1>1 DEF Owed
    <3>6. /\ IsFiniteSet({n} \X Places(n, f))
          /\ Cardinality({n} \X Places(n, f)) = Cardinality(InHand(f))
      BY <1>1, <3>3, PairsCount
    <3>7. /\ IsFiniteSet(Owed(f)')
          /\ Cardinality(Owed(f)') = Cardinality(Owed(f)) + Cardinality(InHand(f)) - 0
      <4> PICK owed : owed = Owed(f)
        OBVIOUS
      <4> PICK pairs : pairs = {n} \X Places(n, f)
        OBVIOUS
      <4>1. /\ IsFiniteSet(owed) /\ IsFiniteSet(pairs) /\ owed \cap pairs = {}
            /\ Cardinality(pairs) = Cardinality(InHand(f))
        BY <2>2, <3>5, <3>6
      <4>2. /\ IsFiniteSet(owed \cup pairs)
            /\ Cardinality(owed \cup pairs)
                 = Cardinality(owed) + Cardinality(pairs) - Cardinality({})
        BY <4>1, FS_Union
      <4>3. Owed(f)' = owed \cup pairs
        BY <3>4
      <4> QED BY <2>1, <4>1, <4>2, <4>3
    <3> QED BY <2>1, <2>2, <2>3, <3>7
  <2> QED BY <2>4, <2>5
<1> QED BY <1>7, <1>8, <1>9, <1>10, <1>11, <1>12 DEF MInv

LEMMA NoteItemKeeps ==
    ASSUME MInv, NEW n \in Notices, NoteItem(n)
    PROVE  MInv'
<1> PICK noted : noted = [run.noted EXCEPT ![n] = run.plan[n].shown]
  OBVIOUS
<1>0. /\ TypeOK /\ Where /\ pc = "apply" /\ pc' = "apply" /\ run \in Run
      /\ UNCHANGED Rest /\ UNCHANGED faults /\ n \in run.active
      /\ run' = [run EXCEPT !.active = run.active \ {n}, !.noted = noted]
  BY DEF MInv, TypeOK, NoteItem, Rest
<1>1. noted \in [Notices -> Seq(Shown)]
  <2>1. run.plan[n] \in Plans \cup {NoPlan} /\ run.noted \in [Notices -> Seq(Shown)]
    BY <1>0 DEF Run
  <2>2. run.plan[n].shown \in Seq(Shown)
    <3>1. <<>> \in Seq(Shown)
      BY EmptySeq
    <3> PICK p : p = run.plan[n]
      OBVIOUS
    <3>2. CASE p \in Plans
      <4>1. p.shown \in Seq(Shown)
        BY <3>2 DEF Plans
      <4> QED BY <4>1
    <3>3. CASE p = NoPlan
      <4>1. p.shown = <<>>
        BY <3>3 DEF NoPlan
      <4> QED BY <3>1, <4>1
    <3> QED BY <2>1, <3>2, <3>3
  <2> QED BY <2>1, <2>2
<1>2. /\ run' \in Run /\ run'.active = run.active \ {n} /\ run'.todo = run.todo
      /\ run'.plan = run.plan /\ run'.again = run.again /\ run'.retries = run.retries
      /\ run'.requests = run.requests /\ run'.sent = run.sent /\ run'.open = run.open
      /\ run'.refusing = run.refusing /\ run'.cache = run.cache
  BY <1>0, <1>1 DEF Run
<1>3. TypeOK'
  <2>1. faults' \in 0..MaxFaults
    BY <1>0 DEF TypeOK
  <2> QED BY <1>0, <1>2, <2>1, RestTyped
<1>4. Where' /\ Counts' /\ Planned' /\ Halted' /\ ~run'.again
  BY <1>0, <1>2 DEF MInv, Where, Counts, Planned, Halted, Fetching
<1>5. Stock'
  <2> SUFFICES ASSUME NEW f \in Files
               PROVE  /\ IsFiniteSet(Owed(f)')
                      /\ Cardinality(Owed(f)') + Cardinality(InHand(f)') <= Len(run.cache[f])
    BY <1>2 DEF Stock
  <2>1. InHand(f)' = InHand(f) /\ Owed(f)' \subseteq Owed(f)
    BY <1>0, <1>2 DEF InHand, Owed
  <2>2. /\ IsFiniteSet(Owed(f))
        /\ Cardinality(Owed(f)) + Cardinality(InHand(f)) <= Len(run.cache[f])
    BY DEF MInv, Stock
  <2>3. IsFiniteSet(Owed(f)') /\ Cardinality(Owed(f)') <= Cardinality(Owed(f))
    BY <2>1, <2>2, FS_Subset
  <2>4. /\ Cardinality(InHand(f)) \in Nat /\ Cardinality(Owed(f)) \in Nat
        /\ Cardinality(Owed(f)') \in Nat /\ Len(run.cache[f]) \in Nat
    BY <1>0, <2>2, <2>3, HandIsFinite, FS_CardinalityType, LenProperties DEF Run
  <2> QED BY <2>1, <2>2, <2>3, <2>4
<1> QED BY <1>3, <1>4, <1>5 DEF MInv

\* Changes of files and of pages leave the run alone, as does a stutter.
LEMMA OthersKeep ==
    ASSUME MInv, \/ \E f \in Files : ChangeFile(f)
                 \/ \E n \in Notices : WipeBody(n)
                 \/ UNCHANGED vars
    PROVE  MInv' /\ UNCHANGED <<page, run, pc>>
<1>0. TypeOK /\ UNCHANGED <<page, run, pc>>
  BY DEF MInv, ChangeFile, WipeBody, vars
<1>1. ASSUME \E f \in Files : ChangeFile(f) PROVE TypeOK'
  <2>1. changes' \in 0..MaxChanges
    BY <1>0, <1>1, LimitsAssumption DEF TypeOK, ChangeFile
  <2>2. source' \in [Files -> Bytes]
    BY <1>0, <1>1 DEF TypeOK, ChangeFile
  <2> QED BY <1>0, <1>1, <2>1, <2>2 DEF TypeOK, ChangeFile
<1>2. ASSUME \E n \in Notices : WipeBody(n) PROVE TypeOK'
  <2>1. faults' \in 0..MaxFaults
    BY <1>0, <1>2, SpendTyped DEF WipeBody
  <2> QED BY <1>0, <1>2, <2>1 DEF TypeOK, WipeBody
<1>3. ASSUME UNCHANGED vars PROVE TypeOK'
  BY <1>0, <1>3 DEF TypeOK, vars
<1>4. TypeOK'
  BY <1>1, <1>2, <1>3
<1>5. ASSUME NEW f PROVE Owed(f)' = Owed(f) /\ InHand(f)' = InHand(f)
  BY <1>0 DEF Owed, InHand, Item
<1>6. Stock'
  BY <1>0, <1>5 DEF MInv, Stock
<1>7. Where' /\ Counts' /\ Planned' /\ Halted' /\ ~run'.again
  BY <1>0 DEF MInv, Where, Counts, Planned, Halted, Fetching, Asked, Url, Item, Stopped
<1> QED BY <1>0, <1>4, <1>6, <1>7 DEF MInv

-----------------------------------------------------------------------------
\* A notice is applied

\* The cache has what the preflight of the notice downloaded, or gave up.
LEMMA CachedIsThere ==
    ASSUME MInv, NEW n \in Notices, n \in run.active
    PROVE  /\ Cached(n) \in Seq(Bytes \cup {None}) /\ DOMAIN Cached(n) = 1..Len(Shows[n])
           /\ \A k \in DOMAIN Shows[n] : Cached(n)[k] \in Range(run.cache[Shows[n][k]])
<1>0. /\ TypeOK /\ DOMAIN Shows[n] = 1..Len(Shows[n]) /\ Len(Shows[n]) \in Nat
      /\ run.cache \in [Files -> Seq(Bytes \cup {None})]
  BY ShowsTyped DEF MInv, TypeOK, Run
<1>1. ASSUME NEW k \in DOMAIN Shows[n]
      PROVE  Cached(n)[k] \in Bytes \cup {None} /\ Cached(n)[k] \in Range(run.cache[Shows[n][k]])
  <2> PICK f : f = Shows[n][k]
    OBVIOUS
  <2> PICK earlier : earlier = {j \in 1..(k - 1) : Shows[n][j] = f}
    OBVIOUS
  <2> PICK entries : entries = run.cache[f]
    OBVIOUS
  <2>1. f \in Files /\ entries \in Seq(Bytes \cup {None}) /\ Len(entries) \in Nat
        /\ DOMAIN entries = 1..Len(entries)
    BY <1>0, ShowsTyped, LenProperties
  <2>2. earlier \subseteq Places(n, f) /\ k \in Places(n, f) \ earlier
    BY <1>0 DEF Places
  <2>3. /\ IsFiniteSet(earlier) /\ Cardinality(earlier) \in Nat
        /\ Cardinality(earlier) < Cardinality(Places(n, f))
    <3>1. IsFiniteSet(Places(n, f)) /\ Cardinality(Places(n, f)) \in Nat
      BY PairsCount
    <3>2. /\ IsFiniteSet(earlier) /\ Cardinality(earlier) <= Cardinality(Places(n, f))
          /\ Cardinality(earlier) # Cardinality(Places(n, f))
      BY <2>2, <3>1, FS_Subset
    <3>3. Cardinality(earlier) \in Nat
      BY <3>2, FS_CardinalityType
    <3> QED BY <3>1, <3>2, <3>3
  <2>4. Cardinality(Places(n, f)) <= Len(entries)
    <3>1. {n} \X Places(n, f) \subseteq Owed(f)
      BY <1>0 DEF Owed, Places
    <3>2. IsFiniteSet(Owed(f)) /\ Cardinality(Owed(f)) + Cardinality(InHand(f)) <= Len(entries)
      BY <2>1 DEF MInv, Stock
    <3>3. Cardinality(Places(n, f)) <= Cardinality(Owed(f))
      BY <3>1, <3>2, FS_Subset, PairsCount
    <3>4. /\ Cardinality(InHand(f)) \in Nat /\ Cardinality(Owed(f)) \in Nat
          /\ Cardinality(Places(n, f)) \in Nat
      BY <1>0, <3>2, HandIsFinite, PairsCount, FS_CardinalityType
    <3> QED BY <2>1, <3>2, <3>3, <3>4
  <2>5. /\ Cardinality(earlier) < Len(entries)
        /\ Cardinality(earlier) + 1 \in DOMAIN entries
    <3>1. Cardinality(Places(n, f)) \in Nat
      BY PairsCount
    <3> QED BY <2>1, <2>3, <2>4, <3>1
  <2>6. Cached(n)[k] = entries[Cardinality(earlier) + 1]
    BY <2>5 DEF Cached
  <2>7. entries[Cardinality(earlier) + 1] \in Bytes \cup {None}
    BY <2>1, <2>5, ElementOfSeq
  <2> QED BY <2>5, <2>6, <2>7 DEF Range
<1>2. Cached(n) \in [1..Len(Shows[n]) -> Bytes \cup {None}]
  <2>1. Cached(n) = [k \in 1..Len(Shows[n]) |-> Cached(n)[k]]
    BY <1>0 DEF Cached
  <2> QED BY <1>0, <1>1, <2>1
<1>3. Cached(n) \in Seq(Bytes \cup {None})
  BY <1>0, <1>2, SeqDef
<1> QED BY <1>0, <1>1, <1>2, <1>3

\* Each valid file that keeps no upload has one among the given.
HasUploads(n, got, kept, uploads) ==
    /\ uploads \subseteq Uploads
    /\ \A k \in DOMAIN got : kept[k] = 0 /\ got[k] \in Versions =>
          \E u \in uploads : u.file = Shows[n][k] /\ u.sha = got[k]

\* Each slot has the upload it keeps, and a link only where there is neither
\* an upload to keep nor a valid file.
Fitting(n, got, kept, slots) ==
    /\ slots \in Seq(Slots) /\ DOMAIN slots = DOMAIN got /\ Len(slots) = Len(Shows[n])
    /\ \A k \in DOMAIN got :
          /\ kept[k] # 0 => slots[k] = page[n][kept[k]]
          /\ kept[k] = 0 /\ got[k] \in Versions => slots[k] # LinkSlot

\* The files to upload are uploaded.
LEMMA UploadedHas ==
    ASSUME TypeOK, NEW n \in Notices, NEW got \in Seq(Bytes \cup {None}),
           DOMAIN got = 1..Len(Shows[n]), NEW kept,
           NEW fresh, fresh = Fresh(n, got, kept), NewIds(n, fresh) # {}
    PROVE  HasUploads(n, got, kept, Uploaded(n, fresh))
<1> PICK id : id = CHOOSE i \in NewIds(n, fresh) : TRUE
  OBVIOUS
<1>1. id \in NewIds(n, fresh)
  OBVIOUS
<1>2. id \in [New(fresh) -> 1..MaxIds]
  BY <1>1 DEF NewIds
<1>3. \A k \in DOMAIN got : Shows[n][k] \in Files
  BY ShowsTyped
<1>4. ASSUME NEW x \in fresh PROVE x = <<x[1], x[2]>> /\ x[1] \in Files /\ x[2] \in Versions
  BY <1>3 DEF Fresh
<1>5. run.uploads \subseteq Uploads
  BY DEF TypeOK, Run
<1> DEFINE added == {[file |-> x[1], sha |-> x[2], id |-> id[x]] : x \in New(fresh)}
<1>6. Uploaded(n, fresh) = run.uploads \cup added
  BY DEF Uploaded
<1>7. added \subseteq Uploads
  <2>1. ASSUME NEW x \in New(fresh)
        PROVE  [file |-> x[1], sha |-> x[2], id |-> id[x]] \in Uploads
    <3>1. x \in fresh /\ id[x] \in 1..MaxIds
      BY <1>2 DEF New
    <3> QED BY <1>4, <3>1 DEF Uploads
  <2> QED BY <2>1
<1>8. ASSUME NEW k \in DOMAIN got, kept[k] = 0, got[k] \in Versions
      PROVE  \E u \in run.uploads \cup added : u.file = Shows[n][k] /\ u.sha = got[k]
  <2> PICK x : x = <<Shows[n][k], got[k]>>
    OBVIOUS
  <2>1. x \in fresh
    BY <1>8 DEF Fresh
  <2>2. CASE x \in New(fresh)
    <3> PICK u : u = [file |-> x[1], sha |-> x[2], id |-> id[x]]
      OBVIOUS
    <3>1. u \in added
      BY <2>2
    <3>2. u.file = Shows[n][k] /\ u.sha = got[k]
      OBVIOUS
    <3> HIDE DEF added
    <3> QED BY <3>1, <3>2
  <2>3. CASE x \notin New(fresh)
    <3>1. x \in {<<u.file, u.sha>> : u \in run.uploads}
      BY <2>1, <2>3 DEF New
    <3>2. PICK u \in run.uploads : x = <<u.file, u.sha>>
      BY <3>1
    <3>3. u.file = Shows[n][k] /\ u.sha = got[k]
      BY <3>2
    <3> QED BY <3>3
  <2> QED BY <2>2, <2>3
<1> HIDE DEF added
<1> QED BY <1>5, <1>6, <1>7, <1>8 DEF HasUploads

\* What the page shows then.
LEMMA SlotsTyped ==
    ASSUME TypeOK, NEW n \in Notices, NEW got \in Seq(Bytes \cup {None}),
           DOMAIN got = 1..Len(Shows[n]), NEW kept \in [DOMAIN got -> 0..Len(page[n])],
           NEW uploads, HasUploads(n, got, kept, uploads)
    PROVE  Fitting(n, got, kept, SlotsOf(n, got, kept, uploads))
<1> PICK slots : slots = SlotsOf(n, got, kept, uploads)
  OBVIOUS
<1>0. Len(Shows[n]) \in Nat /\ page[n] \in Seq(Slots)
  BY ShowsTyped DEF TypeOK
<1>1. ASSUME NEW k \in DOMAIN got
      PROVE  /\ slots[k] \in Slots /\ (kept[k] # 0 => slots[k] = page[n][kept[k]])
             /\ kept[k] = 0 /\ got[k] \in Versions => slots[k] # LinkSlot
  <2>1. CASE kept[k] # 0
    <3>1. slots[k] = page[n][kept[k]]
      BY <2>1 DEF SlotsOf
    <3>2. kept[k] \in 1..Len(page[n])
      BY <1>0, <2>1, LenProperties
    <3>3. page[n][kept[k]] \in Slots
      BY <1>0, <3>2, ElementOfSeq
    <3> QED BY <2>1, <3>1, <3>3
  <2>2. CASE kept[k] = 0 /\ got[k] \in Versions
    <3> PICK u : u = CHOOSE x \in uploads : x.file = Shows[n][k] /\ x.sha = got[k]
      OBVIOUS
    <3>1. u \in Uploads
      BY <2>2 DEF HasUploads
    <3>2. slots[k] = [sha |-> u.sha, id |-> u.id]
      BY <2>2 DEF SlotsOf
    <3>3. u.sha \in Versions /\ u.id \in 1..MaxIds
      BY <3>1 DEF Uploads
    <3>4. slots[k] \in Slots /\ slots[k] # LinkSlot
      <4>1. slots[k].id # 0
        BY <3>2, <3>3
      <4>2. LinkSlot.id = 0
        BY DEF LinkSlot
      <4> QED BY <3>2, <3>3, <4>1, <4>2 DEF Slots
    <3> QED BY <2>2, <3>4
  <2>3. CASE kept[k] = 0 /\ got[k] \notin Versions
    BY <2>3 DEF SlotsOf, Slots
  <2> QED BY <2>1, <2>2, <2>3
<1>2. slots = [k \in 1..Len(Shows[n]) |-> slots[k]]
  BY DEF SlotsOf
<1>3. slots \in [1..Len(Shows[n]) -> Slots]
  BY <1>1, <1>2
<1>4. slots \in Seq(Slots)
  BY <1>0, <1>3, SeqDef
<1>5. Len(slots) = Len(Shows[n])
  BY <1>0, <1>3, <1>4, LenProperties
<1> QED BY <1>1, <1>3, <1>4, <1>5 DEF Fitting

\* The entries of the notice are taken from the cache, each once.
LEMMA PoppedLeaves ==
    ASSUME MInv, NEW n \in Notices, n \in run.active
    PROVE  /\ Popped(n) \in [Files -> Seq(Bytes \cup {None})]
           /\ \A f \in Files :
                 /\ Cardinality(Places(n, f)) <= Len(run.cache[f])
                 /\ Len(Popped(n)[f]) = Len(run.cache[f]) - Cardinality(Places(n, f))
<1>0. TypeOK /\ run.cache \in [Files -> Seq(Bytes \cup {None})] /\ pc = pc
      /\ DOMAIN Shows[n] = 1..Len(Shows[n]) /\ Len(Shows[n]) \in Nat
  BY ShowsTyped DEF MInv, TypeOK, Run
<1>1. ASSUME NEW f \in Files
      PROVE  /\ Popped(n)[f] \in Seq(Bytes \cup {None})
             /\ Cardinality(Places(n, f)) <= Len(run.cache[f])
             /\ Len(Popped(n)[f]) = Len(run.cache[f]) - Cardinality(Places(n, f))
  <2> PICK entries : entries = run.cache[f]
    OBVIOUS
  <2> PICK used : used = Cardinality(Places(n, f))
    OBVIOUS
  <2>1. entries \in Seq(Bytes \cup {None}) /\ Len(entries) \in Nat
    BY <1>0, LenProperties
  <2>2. used \in Nat
    BY PairsCount
  <2>3. used <= Len(entries)
    <3>1. {n} \X Places(n, f) \subseteq Owed(f)
      BY <1>0 DEF Owed, Places
    <3>2. IsFiniteSet(Owed(f)) /\ Cardinality(Owed(f)) + Cardinality(InHand(f)) <= Len(entries)
      BY DEF MInv, Stock
    <3>3. used <= Cardinality(Owed(f))
      <4>1. Cardinality({n} \X Places(n, f)) <= Cardinality(Owed(f))
        BY <3>1, <3>2, FS_Subset
      <4>2. Cardinality({n} \X Places(n, f)) = used
        BY PairsCount
      <4> QED BY <4>1, <4>2
    <3>4. Cardinality(InHand(f)) \in Nat /\ Cardinality(Owed(f)) \in Nat
      BY <1>0, <3>2, HandIsFinite, FS_CardinalityType
    <3> QED BY <2>1, <2>2, <3>2, <3>3, <3>4
  <2>4. Popped(n)[f] = SubSeq(entries, used + 1, Len(entries))
    BY DEF Popped, Places
  <2>5. \A i \in (used + 1)..Len(entries) : entries[i] \in Bytes \cup {None}
    BY <2>1, <2>2, ElementOfSeq
  <2>6. /\ SubSeq(entries, used + 1, Len(entries)) \in Seq(Bytes \cup {None})
        /\ Len(SubSeq(entries, used + 1, Len(entries)))
             = IF used + 1 <= Len(entries) THEN Len(entries) - (used + 1) + 1 ELSE 0
    <3>1. used + 1 \in Int /\ Len(entries) \in Int
      BY <2>1, <2>2
    <3> QED BY <2>5, <3>1, SubSeqProperties
  <2> PICK rest : rest = SubSeq(entries, used + 1, Len(entries))
    OBVIOUS
  <2>7. rest \in Seq(Bytes \cup {None}) /\ Len(rest) = Len(entries) - used
    <3>1. Len(rest) = IF used + 1 <= Len(entries) THEN Len(entries) - (used + 1) + 1 ELSE 0
      BY <2>6
    <3> QED BY <2>1, <2>2, <2>3, <2>6, <3>1
  <2>8. Popped(n)[f] = rest
    BY <2>4
  <2> QED BY <2>3, <2>7, <2>8
<1>2. Popped(n) = [f \in Files |-> Popped(n)[f]]
  BY DEF Popped
<1> QED BY <1>1, <1>2

LEMMA ApplyItemKeeps ==
    ASSUME MInv, NEW n \in Notices, ApplyItem(n)
    PROVE  MInv'
<1> PICK got : got = Cached(n)
  OBVIOUS
<1> PICK kept : kept = Kept(n, got, Status(n))
  OBVIOUS
<1> PICK fresh : fresh = Fresh(n, got, kept)
  OBVIOUS
<1> PICK uploads : uploads = Uploaded(n, fresh)
  OBVIOUS
<1> PICK slots : slots = SlotsOf(n, got, kept, uploads)
  OBVIOUS
<1> PICK cache : cache = Popped(n)
  OBVIOUS
<1>0. /\ TypeOK /\ Where /\ pc = "apply" /\ pc' = "apply" /\ run \in Run /\ n \in run.active
      /\ page[n] \in Seq(Slots) /\ saved \in Saved /\ wiped \subseteq Notices
      /\ DOMAIN Shows[n] = 1..Len(Shows[n])
  BY ShowsTyped DEF MInv, TypeOK, ApplyItem
<1>1. /\ NewIds(n, fresh) # {} /\ page' = [page EXCEPT ![n] = slots]
      /\ run' = [run EXCEPT !.active = run.active \ {n}, !.uploads = uploads, !.cache = cache,
                            !.again = run.again \/ Withheld \in Range(got)]
      /\ wiped' = wiped \ {n} /\ saved' = [saved EXCEPT !.pending = saved.pending \ {n}]
      /\ UNCHANGED <<source, pc, changes, faults>>
  BY DEF ApplyItem
<1>2. got \in Seq(Bytes \cup {None}) /\ DOMAIN got = 1..Len(Shows[n])
  BY <1>0, CachedIsThere
<1>3. kept \in [DOMAIN got -> 0..Len(page[n])]
  BY <1>0, <1>2, KeptFits
<1>4. HasUploads(n, got, kept, uploads) /\ uploads \subseteq Uploads
  BY <1>0, <1>1, <1>2, UploadedHas DEF HasUploads
<1>5. slots \in Seq(Slots) /\ Len(slots) = Len(Shows[n])
  <2>1. Fitting(n, got, kept, slots)
    BY <1>0, <1>2, <1>3, <1>4, SlotsTyped
  <2> QED BY <2>1 DEF Fitting
<1>6. /\ cache \in [Files -> Seq(Bytes \cup {None})]
      /\ \A f \in Files :
            /\ Cardinality(Places(n, f)) <= Len(run.cache[f])
            /\ Len(cache[f]) = Len(run.cache[f]) - Cardinality(Places(n, f))
  BY <1>0, PoppedLeaves
<1>7. ~(run.again \/ Withheld \in Range(got))
  <2>1. Withheld \notin Bytes \cup {None}
    BY VersionsAssumption DEF Bytes, Junk, None, Withheld
  <2>2. \A k \in DOMAIN got : got[k] \in Bytes \cup {None}
    BY <1>2, ElementOfSeq, LenProperties
  <2> QED BY <2>1, <2>2 DEF MInv, Range
<1>8. /\ run' \in Run /\ run'.active = run.active \ {n} /\ run'.cache = cache
      /\ run'.again = FALSE /\ run'.todo = run.todo /\ run'.retries = run.retries
      /\ run'.plan = run.plan /\ run'.requests = run.requests /\ run'.sent = run.sent
      /\ run'.open = run.open /\ run'.refusing = run.refusing
  <2>1. run' = [run EXCEPT !.active = run.active \ {n}, !.uploads = uploads, !.cache = cache,
                           !.again = FALSE]
    <3>1. (run.again \/ Withheld \in Range(got)) = FALSE
      BY <1>7
    <3> QED BY <1>1, <3>1
  <2>2. run.active \ {n} \in SUBSET Notices
    BY <1>0 DEF Run
  <2> QED BY <1>0, <1>4, <1>6, <2>1, <2>2 DEF Run
<1>9. TypeOK'
  <2>1. page' \in [Notices -> Seq(Slots)]
    BY <1>0, <1>1, <1>5 DEF TypeOK
  <2>2. \A m \in Notices : page'[m] = NoPage \/ Len(page'[m]) = Len(Shows[m])
    BY <1>0, <1>1, <1>5 DEF TypeOK
  <2>3. saved' \in Saved
    BY <1>0, <1>1 DEF Saved
  <2> QED BY <1>0, <1>1, <1>8, <2>1, <2>2, <2>3 DEF TypeOK
<1>10. Where' /\ Counts' /\ Planned' /\ Halted' /\ ~run'.again
  BY <1>0, <1>8 DEF MInv, Where, Counts, Planned, Halted, Fetching
<1>11. Stock'
  <2> SUFFICES ASSUME NEW f \in Files
               PROVE  /\ IsFiniteSet(Owed(f)')
                      /\ Cardinality(Owed(f)') + Cardinality(InHand(f)') <= Len(cache[f])
    BY <1>8 DEF Stock
  <2> PICK owed : owed = Owed(f)
    OBVIOUS
  <2> PICK pairs : pairs = {n} \X Places(n, f)
    OBVIOUS
  <2>1. InHand(f)' = {} /\ InHand(f) = {} /\ Cardinality({}) = 0
    BY <1>0, FS_EmptySet DEF InHand
  <2>2. /\ IsFiniteSet(owed) /\ Cardinality(owed) + Cardinality(InHand(f)) <= Len(run.cache[f])
    BY DEF MInv, Stock
  <2>3. owed \cap pairs = pairs
    <3>1. Places(n, f) \subseteq Nat
      BY <1>0 DEF Places
    <3> QED BY <1>0, <3>1 DEF Owed
  <2>4. Owed(f)' = owed \ pairs
    <3>1. ASSUME NEW x \in Notices \X Nat
          PROVE  x \in Owed(f)' <=> x \in owed /\ x \notin pairs
      BY <1>8 DEF Owed
    <3>2. Owed(f)' \subseteq Notices \X Nat /\ owed \subseteq Notices \X Nat
      BY DEF Owed
    <3> QED BY <3>1, <3>2
  <2>5. IsFiniteSet(owed \ pairs)
        /\ Cardinality(owed \ pairs) = Cardinality(owed) - Cardinality(pairs)
    <3>1. /\ IsFiniteSet(owed \ pairs)
          /\ Cardinality(owed \ pairs) = Cardinality(owed) - Cardinality(owed \cap pairs)
      BY <2>2, FS_Difference
    <3> QED BY <2>3, <3>1
  <2>6. Cardinality(pairs) = Cardinality(Places(n, f)) /\ Cardinality(Places(n, f)) \in Nat
    BY PairsCount
  <2>7. Cardinality(owed) \in Nat /\ Len(run.cache[f]) \in Nat
    BY <1>0, <2>2, FS_CardinalityType, LenProperties DEF Run
  <2> QED BY <1>6, <2>1, <2>2, <2>4, <2>5, <2>6, <2>7
<1> QED BY <1>9, <1>10, <1>11 DEF MInv

-----------------------------------------------------------------------------
\* The steps, and the theorems

LEMMA NextKeeps ==
    ASSUME MInv, [Next]_vars
    PROVE  MInv'
<1>1. CASE \E due \in SUBSET Notices : StartRun(due)
  BY <1>1, StartRunKeeps
<1>2. CASE \E readable \in BOOLEAN : InspectPage(readable)
  BY <1>2, InspectPageKeeps
<1>3. CASE DownloadStep
  BY <1>3, DownloadStepKeeps
<1>4. CASE RunOutOfTime
  BY <1>4, RunOutOfTimeKeeps
<1>5. CASE PlanItem
  BY <1>5, PlanItemKeeps
<1>6. CASE \E n \in Notices : NoteItem(n) \/ ApplyItem(n)
  BY <1>6, NoteItemKeeps, ApplyItemKeeps
<1>7. CASE FailRun \/ KillRun \/ EndRun \/ \E n \in Notices : AbortRun(n)
  BY <1>7, EndsKeep
<1>8. CASE \/ \E f \in Files : ChangeFile(f)
           \/ \E n \in Notices : WipeBody(n)
           \/ UNCHANGED vars
  BY <1>8, OthersKeep
<1> QED
  BY <1>1, <1>2, <1>3, <1>4, <1>5, <1>6, <1>7, <1>8
  DEF Next, RunStep, Environment, DownloadStep

LEMMA MInvHolds == Spec => []MInv
<1>1. Init => MInv
  BY InitHolds
<1>2. MInv /\ [Next]_vars => MInv'
  BY NextKeeps
<1> QED BY <1>1, <1>2, PTL DEF Spec

\* The parts keep their types: the page has a slot for each file its notice
\* shows, the totals stay within their limits, and each cached download is
\* bytes or a failure.
THEOREM Types == Spec => []TypeOK
<1>1. MInv => TypeOK
  BY DEF MInv
<1> QED BY <1>1, MInvHolds, PTL

\* A run sends no more requests than it may, redirects counted, and a notice
\* is written without any download: the cache has an entry for each place in
\* which a notice left to apply shows a file.
THEOREM BudgetIsKept == Spec => []WithinBudget
<1>1. MInv => WithinBudget
  <2>1. MInv => run.requests \in 0..Cap
    BY DEF MInv, TypeOK, Run
  <2> QED BY <2>1, LimitsAssumption DEF MInv, WithinBudget
<1> QED BY <1>1, MInvHolds, PTL

LEMMA OthersSendNothing ==
    ASSUME run \in Run,
           \/ \E readable \in BOOLEAN : InspectPage(readable)
           \/ RunOutOfTime \/ PlanItem
           \/ \E n \in Notices : NoteItem(n) \/ ApplyItem(n)
    PROVE  run'.sent = run.sent
<1>1. ASSUME NEW readable \in BOOLEAN, InspectPage(readable) PROVE run'.sent = run.sent
  BY <1>1 DEF InspectPage, Run
<1>2. CASE RunOutOfTime
  BY <1>2 DEF RunOutOfTime, Run
<1>3. CASE PlanItem
  BY <1>3 DEF PlanItem, Run
<1>4. ASSUME NEW n \in Notices, NoteItem(n) PROVE run'.sent = run.sent
  BY <1>4 DEF NoteItem, Run
<1>5. ASSUME NEW n \in Notices, ApplyItem(n) PROVE run'.sent = run.sent
  BY <1>5 DEF ApplyItem, Run
<1> QED BY <1>1, <1>2, <1>3, <1>4, <1>5

\* A host that has refused a request gets no other in the same run, whichever
\* address leads to it, through retries, redirects and the files of later
\* notices.
THEOREM RefusingHostIsLeft == Spec => RefusalsKept
<1>1. MInv /\ [Next]_vars =>
        [pc # "idle" => \A h \in run.refusing :
            run'.sent[h] = run.sent[h] \/ pc' = "idle"]_vars
  <2> SUFFICES ASSUME MInv, Next, pc # "idle", NEW h \in run.refusing
               PROVE  run'.sent[h] = run.sent[h] \/ pc' = "idle"
    OBVIOUS
  <2>0. run \in Run /\ run.refusing \subseteq run.open /\ run.open \subseteq Hosts
    BY DEF MInv, TypeOK, Counts, Run
  <2>1. CASE \E due \in SUBSET Notices : StartRun(due)
    BY <2>1 DEF StartRun
  <2>2. CASE DownloadStep
    BY <2>0, <2>2, DownloadStepKeeps DEF Careful
  <2>3. CASE \/ \E readable \in BOOLEAN : InspectPage(readable)
             \/ RunOutOfTime \/ PlanItem
             \/ \E n \in Notices : NoteItem(n) \/ ApplyItem(n)
    BY <2>0, <2>3, OthersSendNothing
  <2>4. CASE FailRun \/ KillRun \/ EndRun \/ \E n \in Notices : AbortRun(n)
    BY <2>4, EndsKeep DEF Idle
  <2>5. CASE (\E f \in Files : ChangeFile(f)) \/ \E n \in Notices : WipeBody(n)
    BY <2>5, OthersKeep
  <2> QED
    BY <2>1, <2>2, <2>3, <2>4, <2>5 DEF Next, RunStep, Environment, DownloadStep
<1>2. Spec => [][Next]_vars
  BY DEF Spec
<1> QED BY <1>1, <1>2, MInvHolds, PTL DEF RefusalsKept

\* What a page held is replaced by a link only where it may be.
LEMMA LinkReplaces ==
    ASSUME MInv, NEW n \in Notices, ApplyItem(n), NEW k \in DOMAIN page[n],
           page[n] # NoPage, page[n][k] # LinkSlot, page'[n][k] = LinkSlot,
           n \notin wiped, Junk \notin Range(run.cache[Shows[n][k]])
    PROVE  \E j \in DOMAIN page'[n] : page'[n][j] = page[n][k]
<1> PICK got : got = Cached(n)
  OBVIOUS
<1> PICK status : status = Status(n)
  OBVIOUS
<1> PICK kept : kept = Kept(n, got, status)
  OBVIOUS
<1> PICK fresh : fresh = Fresh(n, got, kept)
  OBVIOUS
<1> PICK uploads : uploads = Uploaded(n, fresh)
  OBVIOUS
<1> PICK slots : slots = SlotsOf(n, got, kept, uploads)
  OBVIOUS
<1>0. /\ TypeOK /\ n \in run.active /\ page[n] \in Seq(Slots) /\ page \in [Notices -> Seq(Slots)]
      /\ Len(page[n]) = Len(Shows[n]) /\ Len(Shows[n]) \in Nat
      /\ DOMAIN Shows[n] = 1..Len(Shows[n]) /\ DOMAIN page[n] = 1..Len(Shows[n])
      /\ k \in 1..Len(Shows[n])
  BY ShowsTyped, LenProperties DEF MInv, TypeOK, ApplyItem
<1>1. /\ NewIds(n, fresh) # {} /\ page' = [page EXCEPT ![n] = slots]
      /\ status = run.plan[n].status
  BY DEF ApplyItem, AsPlanned
<1>2. /\ got \in Seq(Bytes \cup {None}) /\ DOMAIN got = 1..Len(Shows[n])
      /\ got[k] \in Range(run.cache[Shows[n][k]])
  BY <1>0, CachedIsThere
<1>3. /\ kept \in [DOMAIN got -> 0..Len(page[n])]
      /\ \A i \in DOMAIN got :
            (kept[i] # 0 => kept[i] \in Free(n, got, status, kept, i))
            /\ (kept[i] = 0 => Free(n, got, status, kept, i) = {})
  BY <1>0, <1>2, KeptFits
<1>4. HasUploads(n, got, kept, uploads)
  BY <1>0, <1>1, <1>2, UploadedHas
<1>5. /\ DOMAIN slots = DOMAIN got
      /\ \A i \in DOMAIN got :
            /\ kept[i] # 0 => slots[i] = page[n][kept[i]]
            /\ kept[i] = 0 /\ got[i] \in Versions => slots[i] # LinkSlot
  <2>1. Fitting(n, got, kept, slots)
    BY <1>0, <1>2, <1>3, <1>4, SlotsTyped
  <2> QED BY <2>1 DEF Fitting
<1>6. page'[n] = slots /\ slots[k] = LinkSlot
  BY <1>0, <1>1
<1>7. k \in Held(page[n]) /\ Held(page[n]) # {}
  BY DEF Held
<1>8. status = "valid"
  <2>1. status # "unavailable"
    BY <1>0, <1>1 DEF MInv, Planned
  <2> QED BY <1>7, <2>1 DEF Status
<1>9. kept[k] = 0
  <2>1. CASE kept[k] # 0
    <3>1. kept[k] \in Held(page[n])
      BY <1>0, <1>2, <1>3, <1>8, <2>1 DEF Free
    <3> QED BY <1>0, <1>2, <1>5, <1>6, <2>1, <3>1 DEF Held
  <2> QED BY <2>1
<1>10. got[k] = None
  <2>1. got[k] \in Bytes \cup {None}
    BY <1>0, <1>2, ElementOfSeq, LenProperties
  <2> QED BY <1>0, <1>2, <1>5, <1>6, <1>9, <2>1 DEF Bytes
<1>11. PICK i \in 1..(k - 1) : kept[i] = k
  <2>1. Free(n, got, status, kept, k) = {}
    BY <1>0, <1>2, <1>3, <1>9
  <2>2. Keeps(n, got, k, k)
    BY <1>10 DEF Keeps
  <2> QED BY <1>7, <1>8, <2>1, <2>2 DEF Free
<1>12. i \in DOMAIN got /\ slots[i] = page[n][k]
  <2>1. i \in DOMAIN got /\ kept[i] # 0
    BY <1>0, <1>2, <1>11
  <2> QED BY <1>5, <1>11, <2>1
<1> QED BY <1>5, <1>6, <1>12

\* Whatever was refused, failed or withheld, a page loses an uploaded file to
\* a link only if the site served something that is no file for it, or if a
\* person had deleted the body; else the upload is still on the page.
THEOREM NoUploadIsLost == Spec => UploadsKept
<1> DEFINE Kind == \A n \in Notices : page'[n] # page[n] /\ page[n] # NoPage =>
          \A k \in DOMAIN page[n] :
              page[n][k] # LinkSlot /\ page'[n][k] = LinkSlot =>
                  \/ n \in wiped \/ Junk \in Range(run.cache[Shows[n][k]])
                  \/ \E j \in DOMAIN page'[n] : page'[n][j] = page[n][k]
<1>1. MInv /\ [Next]_vars => [Kind]_vars
  <2> SUFFICES ASSUME MInv, Next, NEW n \in Notices, page'[n] # page[n], page[n] # NoPage,
                      NEW k \in DOMAIN page[n], page[n][k] # LinkSlot, page'[n][k] = LinkSlot,
                      n \notin wiped, Junk \notin Range(run.cache[Shows[n][k]])
               PROVE  \E j \in DOMAIN page'[n] : page'[n][j] = page[n][k]
    OBVIOUS
  <2>1. PICK m \in Notices : ApplyItem(m)
    <3>1. UNCHANGED page \/ \E m \in Notices : ApplyItem(m)
      <4>1. DownloadStep => UNCHANGED page
        BY DownloadStepKeeps DEF Rest
      <4>2. (\E due \in SUBSET Notices : StartRun(due)) => UNCHANGED page
        BY DEF StartRun
      <4>3. ASSUME \/ \E readable \in BOOLEAN : InspectPage(readable)
                   \/ RunOutOfTime \/ PlanItem \/ \E l \in Notices : NoteItem(l)
            PROVE  UNCHANGED page
        BY <4>3 DEF InspectPage, RunOutOfTime, PlanItem, NoteItem
      <4>4. ASSUME FailRun \/ KillRun \/ EndRun \/ \E l \in Notices : AbortRun(l)
            PROVE  UNCHANGED page
        BY <4>4 DEF FailRun, KillRun, EndRun, AbortRun
      <4>5. ASSUME (\E f \in Files : ChangeFile(f)) \/ \E l \in Notices : WipeBody(l)
            PROVE  UNCHANGED page
        BY <4>5 DEF ChangeFile, WipeBody
      <4> QED
        BY <4>1, <4>2, <4>3, <4>4, <4>5 DEF Next, RunStep, Environment, DownloadStep
    <3> QED BY <3>1
  <2>2. m = n
    BY <2>1 DEF MInv, TypeOK, ApplyItem
  <2> QED BY <2>1, <2>2, LinkReplaces
<1>2. Spec => [][Next]_vars
  BY DEF Spec
<1> QED BY <1>1, <1>2, MInvHolds, PTL DEF UploadsKept

=============================================================================
