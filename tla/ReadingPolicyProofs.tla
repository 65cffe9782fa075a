--------------------------- MODULE ReadingPolicyProofs ---------------------------
(***************************************************************************)
(* Proofs about what a run reads.  For SourceCircuits, with any sources,   *)
(* threshold, cooldown and number of faults: the types, and that a refusal *)
(* of the host that came in so many words keeps all its sources from being *)
(* asked.                                                                  *)
(* For RefreshPolicy, with any notices, rows and limits: a row counts as   *)
(* read only if its version was applied.                                   *)
(***************************************************************************)
EXTENDS SourceCircuits, FiniteSetTheorems, SequenceTheorems, TLAPS

-----------------------------------------------------------------------------
\* The inductive invariant

\* While the host is banned, or has refused this run, the run is blocked.
Blocked == pc # "idle" /\ (banned > 0 \/ run.refused) => run.blocked

\* A source is only asked by a run that is not blocked, and is still to do.
Unblocked == Asking => ~run.blocked /\ run.todo # <<>>

\* Each source is to be done once.
Once == \A i, j \in 1..Len(run.todo) : run.todo[i] = run.todo[j] => i = j

\* A refusal the run has recognised is the result of a source it is done with.
Evidence ==
    run.refused =>
        \E s \in Sources :
            /\ run.results[s].answer = "hostWide"
            /\ run.results[s].method # "circuit_open"
            /\ \A i \in 1..Len(run.todo) : run.todo[i] # s

\* A ban is in the circuit of a source, for as long as it lasts.
Remembered ==
    banned > 0 => \E s \in Sources : saved[s].hostWide /\ saved[s].sourceLeft >= banned

\* A run under a ban has only skipped sources.
Skipped ==
    banned > 0 => \A s \in Sources :
        run.results[s] \in {NoResult, [method |-> "circuit_open", answer |-> "local"]}

IInv == TypeOK /\ Blocked /\ Unblocked /\ Once /\ Evidence /\ Remembered /\ Skipped

-----------------------------------------------------------------------------
\* What is remembered

LEMMA OneLessType ==
    ASSUME NEW bound \in Nat, NEW n \in 0..bound
    PROVE  OneLess(n) \in 0..bound /\ OneLess(n) \in Nat /\ OneLess(n) <= n
           /\ \A k \in 0..bound : k >= n => OneLess(k) >= OneLess(n)
           /\ (n > 0 <=> n # 0)
BY DEF OneLess

LEMMA WaitType ==
    ASSUME saved \in [Sources -> Circuits], NEW s \in Sources
    PROVE  /\ Wait(s) \in Circuits
           /\ Wait(s).hostWide = saved[s].hostWide
           /\ Wait(s).sourceLeft = OneLess(saved[s].sourceLeft)
<1>1. saved[s] \in Circuits /\ Cooldown \in Nat
    BY LimitsAssumption
<1>2. OneLess(saved[s].fallbackLeft) \in 0..Cooldown
      /\ OneLess(saved[s].sourceLeft) \in 0..Cooldown
    BY <1>1, OneLessType DEF Circuits
<1> QED
    BY <1>1, <1>2 DEF Wait, Circuits

LEMMA ClosedType == Closed \in Circuits /\ NoRun \in Run
<1>1. <<>> \in Seq(Sources)
    BY EmptySeq
<1> QED
    BY <1>1, LimitsAssumption DEF Closed, Circuits, NoRun, Run, Results

LEMMA AfterFailureType ==
    ASSUME NEW circuits \in Circuits, NEW result \in Results
    PROVE  AfterFailure(circuits, result) \in Circuits
<1>1. Threshold \in Nat /\ Cooldown \in Nat /\ 0 <= Cooldown
    BY LimitsAssumption
<1>2. HostWide(result) \in BOOLEAN
    BY DEF HostWide
<1>3. /\ circuits.failures \in 0..Threshold /\ circuits.fallbackLeft \in 0..Cooldown
      /\ circuits.sourceLeft \in 0..Cooldown /\ circuits.hostWide \in BOOLEAN
    BY DEF Circuits
<1> DEFINE failures == IF result.method = "fallback" /\ circuits.failures < Threshold
                       THEN circuits.failures + 1 ELSE circuits.failures
           refusal == result.answer \in {"hostWide", "local"} /\ result.method # "circuit_open"
           fallback == IF result.method = "fallback" /\ failures = Threshold
                       THEN Cooldown ELSE circuits.fallbackLeft
           left == IF refusal THEN Cooldown ELSE circuits.sourceLeft
           wide == IF refusal THEN HostWide(result) ELSE circuits.hostWide
<1>4. failures \in 0..Threshold /\ fallback \in 0..Cooldown /\ left \in 0..Cooldown
    BY <1>1, <1>3
<1>5. wide \in BOOLEAN
    BY <1>2, <1>3
<1>6. AfterFailure(circuits, result) =
        [circuits EXCEPT !.failures = failures, !.fallbackLeft = fallback,
                         !.sourceLeft = left, !.hostWide = wide]
    BY DEF AfterFailure
<1> HIDE DEF failures, refusal, fallback, left, wide
<1> QED
    BY <1>4, <1>5, <1>6 DEF Circuits

\* A refusal of the host opens the circuit for the host, and a result of an
\* open circuit leaves the circuit as it is.
LEMMA AfterRefusal ==
    ASSUME NEW circuits \in Circuits, NEW result \in Results
    PROVE  /\ result.answer = "hostWide" /\ result.method # "circuit_open" =>
                /\ AfterFailure(circuits, result).hostWide = TRUE
                /\ AfterFailure(circuits, result).sourceLeft = Cooldown
           /\ result \in {NoResult, [method |-> "circuit_open", answer |-> "local"]} =>
                /\ AfterFailure(circuits, result).hostWide = circuits.hostWide
                /\ AfterFailure(circuits, result).sourceLeft = circuits.sourceLeft
<1> DEFINE after == AfterFailure(circuits, result)
<1>1. CASE result.answer = "hostWide" /\ result.method # "circuit_open"
    <2>1. after.hostWide = (result.answer = "hostWide") /\ after.sourceLeft = Cooldown
        BY <1>1 DEF AfterFailure, HostWide, Circuits
    <2>2. result \notin {NoResult, [method |-> "circuit_open", answer |-> "local"]}
        BY <1>1 DEF NoResult
    <2> QED
        BY <1>1, <2>1, <2>2
<1>2. CASE result \in {NoResult, [method |-> "circuit_open", answer |-> "local"]}
    <2>1. result.answer # "hostWide"
          /\ ~(result.answer \in {"hostWide", "local"} /\ result.method # "circuit_open")
        BY <1>2 DEF NoResult
    <2>2. after.hostWide = circuits.hostWide /\ after.sourceLeft = circuits.sourceLeft
        BY <2>1 DEF AfterFailure, Circuits
    <2> QED
        BY <2>1, <2>2
<1> QED
    BY <1>1, <1>2

\* An order of the sources has each of them once.
LEMMA OrderType ==
    ASSUME NEW order \in Orders
    PROVE  /\ order \in Seq(Sources)
           /\ \A i, j \in 1..Len(order) : order[i] = order[j] => i = j
<1> DEFINE n == Cardinality(Sources)
<1>1. n \in Nat
    BY SourcesAssumption, FS_CardinalityType
<1>2. order \in [1..n -> Sources] /\ ToSet(order) = Sources
    BY DEF Orders
<1> HIDE DEF n
<1>3. order \in Seq(Sources) /\ Len(order) = n /\ DOMAIN order = 1..n
    <2>1. order \in Seq(Sources)
        BY <1>1, <1>2, SeqDef
    <2>2. DOMAIN order = 1..n
        BY <1>2
    <2> QED
        BY <1>1, <2>1, <2>2
<1>4. order \in Surjection(1..n, Sources)
    BY <1>2, <1>3 DEF Surjection, ToSet
<1>5. IsFiniteSet(1..n) /\ Cardinality(1..n) = Cardinality(Sources)
    <2>1. IsFiniteSet(1..n) /\ Cardinality(1..n) = n
        BY <1>1, FS_Interval
    <2> QED
        BY <2>1 DEF n
<1>6. order \in Injection(1..n, Sources)
    BY <1>4, <1>5, SourcesAssumption, FS_SurjSameCardinalityImpliesInj
<1> QED
    BY <1>3, <1>6 DEF Injection, IsInjective

-----------------------------------------------------------------------------
\* The actions

LEMMA StartRunStep ==
    ASSUME IInv, NEW order \in Orders, NEW hasty \in BOOLEAN, StartRun(order, hasty)
    PROVE  IInv'
<1> USE DEF IInv, TypeOK
<1>1. run' = [NoRun EXCEPT !.todo = order, !.blocked = HostBlocked(saved')]
      /\ pc' = "next" /\ UNCHANGED <<apiWorks, read>>
    BY DEF StartRun
<1>2. faults' \in 0..MaxFaults
    BY BoundsAssumption DEF StartRun
<1>3. order \in Seq(Sources) /\ \A i, j \in 1..Len(order) : order[i] = order[j] => i = j
    BY OrderType
<1>4. HostBlocked(saved') \in BOOLEAN
    BY DEF HostBlocked
<1>5. run' \in Run /\ run'.todo = order /\ run'.blocked = HostBlocked(saved')
      /\ run'.results = [s \in Sources |-> NoResult] /\ run'.refused = FALSE
    BY <1>1, <1>3, <1>4, ClosedType DEF NoRun, Run
<1>6. /\ saved' \in [Sources -> Circuits]
      /\ banned' \in 0..Cooldown
      /\ Remembered'
    <2>1. CASE hasty
        BY <2>1 DEF StartRun, Remembered
    <2>2. CASE ~hasty
        <3>1. saved' = [s \in Sources |-> Wait(s)] /\ banned' = OneLess(banned)
            BY <2>2 DEF StartRun
        <3>2. Cooldown \in Nat
            BY LimitsAssumption
        <3>3. banned' \in 0..Cooldown /\ (banned' > 0 => banned > 0)
            BY <3>1, <3>2, OneLessType
        <3>4. ASSUME banned' > 0
              PROVE  \E s \in Sources : saved'[s].hostWide /\ saved'[s].sourceLeft >= banned'
            <4>1. PICK s \in Sources : saved[s].hostWide /\ saved[s].sourceLeft >= banned
                BY <3>3, <3>4 DEF Remembered
            <4>2. saved[s].sourceLeft \in 0..Cooldown
                BY DEF Circuits
            <4>3. OneLess(saved[s].sourceLeft) >= OneLess(banned)
                BY <3>2, <4>1, <4>2, OneLessType
            <4> QED
                BY <3>1, <4>1, <4>3, WaitType
        <3> QED
            BY <3>1, <3>3, <3>4, WaitType DEF Remembered
    <2> QED
        BY <2>1, <2>2
<1>7. TypeOK'
    BY <1>1, <1>2, <1>5, <1>6
<1>8. Blocked'
    <2>1. ASSUME banned' > 0
          PROVE  HostBlocked(saved')
        <3>1. PICK s \in Sources : saved'[s].hostWide /\ saved'[s].sourceLeft >= banned'
            BY <1>6, <2>1 DEF Remembered
        <3>2. saved'[s].sourceLeft \in Nat /\ banned' \in Nat
            BY <1>6 DEF Circuits
        <3>3. saved'[s].sourceLeft > 0
            BY <2>1, <3>1, <3>2
        <3> QED
            BY <3>1, <3>3 DEF HostBlocked
    <2> QED
        BY <2>1, <1>5 DEF Blocked
<1>9. Unblocked' /\ Once' /\ Evidence' /\ Skipped'
    BY <1>1, <1>3, <1>5 DEF Unblocked, Asking, Once, Evidence, Skipped
<1> QED
    BY <1>6, <1>7, <1>8, <1>9

\* What is left to do once the next source is done.
LEMMA OneDone ==
    ASSUME TypeOK, Once, run.todo # <<>>
    PROVE  /\ This \in Sources
           /\ Tail(run.todo) \in Seq(Sources)
           /\ Len(Tail(run.todo)) \in Nat
           /\ Len(run.todo) = Len(Tail(run.todo)) + 1
           /\ \A i \in 1..Len(Tail(run.todo)) :
                 /\ Tail(run.todo)[i] = run.todo[i + 1]
                 /\ Tail(run.todo)[i] # This
           /\ \A i, j \in 1..Len(Tail(run.todo)) : Tail(run.todo)[i] = Tail(run.todo)[j] => i = j
<1>1. run.todo \in Seq(Sources)
    BY DEF TypeOK, Run
<1>2. This = run.todo[1]
    BY <1>1 DEF This
<1>3. This \in Sources /\ Tail(run.todo) \in Seq(Sources)
      /\ Len(Tail(run.todo)) = Len(run.todo) - 1
      /\ \A i \in 1..Len(Tail(run.todo)) : Tail(run.todo)[i] = run.todo[i + 1]
    BY <1>1, HeadTailProperties DEF This
<1>4. Len(run.todo) \in Nat /\ Len(Tail(run.todo)) \in Nat
    BY <1>1, <1>3
<1>5. \A i \in 1..Len(Tail(run.todo)) : i + 1 \in 1..Len(run.todo) /\ i + 1 # 1 /\ 1 \in 1..Len(run.todo)
    BY <1>3, <1>4
<1> QED
    BY <1>2, <1>3, <1>4, <1>5 DEF Once

LEMMA SkipSourceStep ==
    ASSUME IInv, SkipSource
    PROVE  IInv'
<1> USE DEF IInv, TypeOK
<1> DEFINE skip == [method |-> "circuit_open", answer |-> "local"]
<1>1. /\ pc = "next" /\ pc' = "next" /\ run.todo # <<>>
      /\ run' = [run EXCEPT !.todo = Tail(run.todo), !.results = [run.results EXCEPT ![This] = skip]]
      /\ UNCHANGED <<saved, apiWorks, banned, read, faults>>
    BY DEF SkipSource, Rest
<1>2. skip \in Results
    BY DEF Results, Methods, Answers
<1>3. /\ This \in Sources /\ Tail(run.todo) \in Seq(Sources)
      /\ \A i \in 1..Len(Tail(run.todo)) : Tail(run.todo)[i] = run.todo[i + 1]
      /\ Len(Tail(run.todo)) \in Nat
      /\ Len(run.todo) = Len(Tail(run.todo)) + 1
    BY <1>1, OneDone
<1>4. \A i, j \in 1..Len(Tail(run.todo)) : Tail(run.todo)[i] = Tail(run.todo)[j] => i = j
    BY <1>1, OneDone
<1>5. /\ run' \in Run /\ run'.todo = Tail(run.todo) /\ run'.blocked = run.blocked
      /\ run'.refused = run.refused
      /\ run'.results = [run.results EXCEPT ![This] = skip]
    BY <1>1, <1>2, <1>3 DEF Run
<1>6. TypeOK'
    BY <1>1, <1>5
<1>7. Blocked' /\ Unblocked' /\ Remembered'
    BY <1>1, <1>5 DEF Blocked, Unblocked, Asking, Remembered
<1>8. Once'
    BY <1>4, <1>5 DEF Once
<1>9. Evidence'
    <2> SUFFICES ASSUME run.refused PROVE Evidence'
        BY <1>5 DEF Evidence
    <2>1. PICK s \in Sources :
            /\ run.results[s].answer = "hostWide"
            /\ run.results[s].method # "circuit_open"
            /\ \A i \in 1..Len(run.todo) : run.todo[i] # s
        BY DEF Evidence
    <2>2. s # This
        BY <1>1, <1>3, <2>1 DEF This
    <2>3. \A i \in 1..Len(Tail(run.todo)) : Tail(run.todo)[i] # s
        BY <1>3, <2>1
    <2>4. run'.results[s] = run.results[s]
        BY <1>5, <2>2 DEF Run
    <2> QED
        BY <1>5, <2>1, <2>3, <2>4 DEF Evidence
<1>10. Skipped'
    BY <1>1, <1>5 DEF Skipped, Run
<1> QED
    BY <1>6, <1>7, <1>8, <1>9, <1>10

LEMMA AskSourceStep ==
    ASSUME IInv, AskSource
    PROVE  IInv'
BY DEF IInv, TypeOK, AskSource, Rest, Blocked, Unblocked, Asking, Once, Evidence, Remembered,
       Skipped

LEMMA DeliverStep ==
    ASSUME IInv, Asking,
           NEW method \in {"api", "api_fallback_circuit_open", "fallback"},
           NEW answer \in Answers, NEW confirming \in BOOLEAN,
           Deliver(method, answer, confirming), Rest, faults' \in 0..MaxFaults
    PROVE  IInv'
<1> USE DEF IInv, TypeOK
<1> DEFINE noticed == Noticed(answer, confirming)
           result == [method |-> method, answer |-> noticed]
           refused == run.refused \/ (answer = "hostWide" /\ ~WordsLost(confirming))
           blocked == run.blocked \/ noticed = "hostWide"
<1>1. /\ pc # "idle" /\ pc' = "next" /\ run.todo # <<>> /\ ~run.blocked
      /\ UNCHANGED <<saved, apiWorks, banned, read>>
      /\ run' = [run EXCEPT !.todo = Tail(run.todo), !.browserFailed = FALSE,
                            !.blocked = blocked,
                            !.results = [run.results EXCEPT ![This] = result],
                            !.refused = refused]
    BY DEF Deliver, Rest, Unblocked, Asking
<1>2. banned = 0 /\ ~run.refused
    BY <1>1 DEF Blocked
<1>3. /\ This \in Sources /\ Tail(run.todo) \in Seq(Sources)
      /\ \A i \in 1..Len(Tail(run.todo)) : Tail(run.todo)[i] # This
    BY <1>1, OneDone
<1>4. \A i, j \in 1..Len(Tail(run.todo)) : Tail(run.todo)[i] = Tail(run.todo)[j] => i = j
    BY <1>1, OneDone
<1>5. result \in Results /\ refused \in BOOLEAN /\ blocked \in BOOLEAN
    BY DEF Results, Methods, Run, Noticed, Answers
<1>6. /\ refused => noticed = "hostWide"
      /\ noticed = "hostWide" => blocked
      /\ result.method # "circuit_open" /\ result.answer = noticed
    BY <1>2 DEF Noticed
<1> HIDE DEF noticed, result, refused, blocked
<1>7. /\ run' \in Run /\ run'.todo = Tail(run.todo) /\ run'.blocked = blocked
      /\ run'.refused = refused /\ run'.results[This] = result
    BY <1>1, <1>3, <1>5 DEF Run
<1>8. TypeOK'
    BY <1>1, <1>7
<1>9. Blocked' /\ Unblocked' /\ Remembered' /\ Skipped'
    BY <1>1, <1>2, <1>6, <1>7 DEF Blocked, Unblocked, Asking, Remembered, Skipped
<1>10. Once'
    BY <1>4, <1>7 DEF Once
<1>11. Evidence'
    BY <1>3, <1>6, <1>7 DEF Evidence
<1> QED
    BY <1>8, <1>9, <1>10, <1>11

LEMMA CostsType ==
    ASSUME TypeOK, NEW answer, NEW usual, Costs(answer, usual)
    PROVE  faults' \in 0..MaxFaults
BY BoundsAssumption DEF TypeOK, Costs

\* A method that gives way to the next one.
LEMMA HandOver ==
    ASSUME IInv, Asking, pc' \in {"browser", "http"}, faults' \in 0..MaxFaults, Rest,
           UNCHANGED run \/ run' = [run EXCEPT !.browserFailed = TRUE]
    PROVE  IInv'
<1> USE DEF IInv, TypeOK
<1>1. UNCHANGED <<saved, apiWorks, banned, read>> /\ pc # "idle"
    BY DEF Rest, Asking
<1>2. /\ run' \in Run /\ run'.todo = run.todo /\ run'.blocked = run.blocked
      /\ run'.refused = run.refused /\ run'.results = run.results
    BY DEF Run
<1> QED
    BY <1>1, <1>2 DEF Blocked, Unblocked, Asking, Once, Evidence, Remembered, Skipped

LEMMA AskStep ==
    ASSUME IInv, NEW answer \in Answers, NEW confirming \in BOOLEAN,
           \/ AskApi(answer, confirming)
           \/ AskBrowser(answer, confirming)
           \/ AskHttp(answer, confirming)
    PROVE  IInv'
<1>1. Asking /\ Rest
    BY DEF AskApi, AskBrowser, AskHttp, Asking
<1>2. faults' \in 0..MaxFaults
    BY CostsType DEF AskApi, AskBrowser, AskHttp, IInv
<1>3. CASE AskApi(answer, confirming)
    <2>1. CASE answer # "other"
        BY <1>1, <1>2, <1>3, <2>1, DeliverStep DEF AskApi
    <2>2. CASE answer = "other" /\ FallbackOpen(This)
        BY <1>1, <1>2, <1>3, <2>2, DeliverStep DEF AskApi
    <2>3. CASE answer = "other" /\ ~FallbackOpen(This)
        BY <1>1, <1>2, <1>3, <2>3, HandOver DEF AskApi
    <2> QED
        BY <2>1, <2>2, <2>3
<1>4. CASE AskBrowser(answer, confirming)
    <2>1. CASE answer # "other"
        BY <1>1, <1>2, <1>4, <2>1, DeliverStep DEF AskBrowser
    <2>2. CASE answer = "other"
        BY <1>1, <1>2, <1>4, <2>2, HandOver DEF AskBrowser
    <2> QED
        BY <2>1, <2>2
<1>5. CASE AskHttp(answer, confirming)
    BY <1>1, <1>2, <1>5, DeliverStep DEF AskHttp
<1> QED
    BY <1>3, <1>4, <1>5

LEMMA NothingRun ==
    ASSUME TypeOK', pc' = "idle", run' = NoRun, Remembered'
    PROVE  IInv'
<1>1. Blocked' /\ Unblocked' /\ Evidence' /\ Skipped'
    BY DEF Blocked, Unblocked, Asking, Evidence, Skipped, NoRun
<1>2. Len(<<>>) = 0
    BY EmptySeq
<1>3. Once'
    BY <1>2 DEF Once, NoRun
<1> QED
    BY <1>1, <1>3 DEF IInv

LEMMA EndRunStep ==
    ASSUME IInv, EndRun
    PROVE  IInv'
<1> USE DEF IInv, TypeOK
<1>1. /\ saved' = [s \in Sources |-> Updated(s)]
      /\ banned' = IF run.refused THEN Cooldown ELSE banned
      /\ read' = {s \in Sources : run.results[s].answer = "ok"}
      /\ run' = NoRun /\ pc' = "idle" /\ UNCHANGED <<apiWorks, faults>>
    BY DEF EndRun
<1>2. \A s \in Sources : saved[s] \in Circuits /\ run.results[s] \in Results
    BY DEF Run
<1>3. saved' \in [Sources -> Circuits]
    BY <1>1, <1>2, ClosedType, AfterFailureType DEF Updated
<1>4. TypeOK'
    BY <1>1, <1>3, ClosedType, LimitsAssumption
<1>5. Remembered'
    <2>1. CASE run.refused
        <3>1. PICK s \in Sources : run.results[s].answer = "hostWide"
                                   /\ run.results[s].method # "circuit_open"
            BY <2>1 DEF Evidence
        <3>2. saved'[s] = AfterFailure(saved[s], run.results[s])
            BY <1>1, <3>1 DEF Updated
        <3>3. saved'[s].hostWide = TRUE /\ saved'[s].sourceLeft = Cooldown
            <4>1. saved[s] \in Circuits /\ run.results[s] \in Results
                BY <1>2, <3>1
            <4>2. /\ AfterFailure(saved[s], run.results[s]).hostWide = TRUE
                  /\ AfterFailure(saved[s], run.results[s]).sourceLeft = Cooldown
                BY ONLY <3>1, <4>1, AfterRefusal
            <4> QED
                BY ONLY <3>2, <4>2
        <3>4. banned' = Cooldown /\ Cooldown \in Nat /\ Cooldown >= Cooldown
            BY <1>1, <2>1, LimitsAssumption
        <3>5. saved'[s].hostWide /\ saved'[s].sourceLeft >= banned'
            BY <3>3, <3>4
        <3> QED
            BY <3>5 DEF Remembered
    <2>2. CASE ~run.refused /\ banned > 0
        <3>1. PICK s \in Sources : saved[s].hostWide /\ saved[s].sourceLeft >= banned
            BY <2>2 DEF Remembered
        <3>2. run.results[s] \in {NoResult, [method |-> "circuit_open", answer |-> "local"]}
            BY <2>2 DEF Skipped
        <3>3. saved'[s] = AfterFailure(saved[s], run.results[s])
            BY <1>1, <3>2 DEF Updated, NoResult
        <3>4. saved'[s].hostWide = saved[s].hostWide
              /\ saved'[s].sourceLeft = saved[s].sourceLeft
            <4>1. saved[s] \in Circuits /\ run.results[s] \in Results
                BY <1>2, <3>1
            <4>2. /\ AfterFailure(saved[s], run.results[s]).hostWide = saved[s].hostWide
                  /\ AfterFailure(saved[s], run.results[s]).sourceLeft = saved[s].sourceLeft
                BY ONLY <3>2, <4>1, AfterRefusal
            <4> QED
                BY ONLY <3>3, <4>2
        <3>5. banned' = banned
            BY <1>1, <2>2
        <3>6. saved'[s].hostWide /\ saved'[s].sourceLeft >= banned'
            BY <3>1, <3>4, <3>5
        <3> QED
            BY <3>6 DEF Remembered
    <2>3. CASE ~run.refused /\ ~(banned > 0)
        BY <1>1, <2>3 DEF Remembered
    <2> QED
        BY <2>1, <2>2, <2>3
<1> QED
    BY <1>1, <1>4, <1>5, NothingRun

LEMMA LoseRunStep ==
    ASSUME IInv, LoseRun
    PROVE  IInv'
<1>1. TypeOK' /\ Remembered'
    BY ClosedType, BoundsAssumption DEF LoseRun, IInv, TypeOK, Remembered
<1> QED
    BY <1>1, NothingRun DEF LoseRun

-----------------------------------------------------------------------------
\* The invariant

LEMMA Initially == Init => IInv
<1> SUFFICES ASSUME Init PROVE IInv
    OBVIOUS
<1>1. TypeOK
    BY ClosedType, LimitsAssumption, BoundsAssumption DEF Init, TypeOK
<1>2. Blocked /\ Unblocked /\ Evidence /\ Skipped /\ Remembered
    BY DEF Init, Blocked, Unblocked, Asking, Evidence, Skipped, Remembered, NoRun
<1>3. Len(<<>>) = 0
    BY EmptySeq
<1>4. Once
    BY <1>3 DEF Init, Once, NoRun
<1> QED
    BY <1>1, <1>2, <1>4 DEF IInv

LEMMA Kept ==
    ASSUME IInv, [Next]_vars
    PROVE  IInv'
<1>1. CASE RunStep
    <2>1. CASE \E order \in Orders, hasty \in BOOLEAN : StartRun(order, hasty)
        BY <2>1, StartRunStep
    <2>2. CASE SkipSource
        BY <2>2, SkipSourceStep
    <2>3. CASE AskSource
        BY <2>3, AskSourceStep
    <2>4. CASE \E answer \in Answers, confirming \in BOOLEAN :
                 \/ AskApi(answer, confirming)
                 \/ AskBrowser(answer, confirming)
                 \/ AskHttp(answer, confirming)
        BY <2>4, AskStep
    <2>5. CASE EndRun
        BY <2>5, EndRunStep
    <2> QED
        BY <1>1, <2>1, <2>2, <2>3, <2>4, <2>5 DEF RunStep
<1>2. CASE LoseRun
    BY <1>2, LoseRunStep
<1>3. CASE UNCHANGED vars
    BY <1>3 DEF vars, IInv, TypeOK, Blocked, Unblocked, Asking, Once, Evidence, Remembered,
        Skipped
<1> QED
    BY <1>1, <1>2, <1>3 DEF Next

LEMMA InvariantHolds == Spec => []IInv
BY Initially, Kept, PTL DEF Spec

\* The circuits kept between runs, and the results of a run, keep their types.
THEOREM TypeCorrect == Spec => []TypeOK
<1>1. IInv => TypeOK
    BY DEF IInv
<1> QED
    BY <1>1, InvariantHolds, PTL

\* After a refusal of the host, no source of the host is asked for the rest of
\* the run, nor in the runs of the cooldown, whatever the order of the sources
\* and whichever runs are hasty or lost.  It holds of a refusal whose words
\* reached is_host_wide_access_block (crawler.py:3242): one met by a confirming
\* reading, or after a failed browser, is excepted (WordsLost).
THEOREM RefusalsAreRespected == Spec => []RefusalRespected
<1>1. IInv => RefusalRespected
    <2> SUFFICES ASSUME IInv, Asking PROVE banned = 0 /\ ~run.refused
        BY DEF RefusalRespected
    <2>1. ~run.blocked /\ pc # "idle"
        BY DEF IInv, Unblocked, Asking
    <2>2. banned \in Nat
        BY DEF IInv, TypeOK
    <2> QED
        BY <2>1, <2>2 DEF IInv, Blocked
<1> QED
    BY <1>1, InvariantHolds, PTL

-----------------------------------------------------------------------------
(***************************************************************************)
(* The notices a run reads: RefreshPolicy, over variables of its own.      *)
(***************************************************************************)
CONSTANTS Notices, Rows, TopRows, NoRow, RefreshLimit, ChangeLimit, NewLimit,
          Hourly, Daily, Horizon, MaxChanges, MaxMishaps

VARIABLES row, age, memory, reading, phase, shown, astray, changes, mishaps

Refresh == INSTANCE RefreshPolicy WITH
    saved <- memory, run <- reading, pc <- phase, faults <- mishaps, MaxFaults <- MaxMishaps

\* The types without the longest wait, which depends on the limits and on the
\* number of notices.
Stored == [observed : SUBSET Notices, pending : SUBSET Notices, candidates : SUBSET Notices,
           recorded : [Notices -> Rows \cup {NoRow}], detailed : SUBSET Notices,
           since : [Notices -> Nat]]

RowsTyped == /\ memory \in Stored /\ reading \in Refresh!Run /\ row \in [Notices -> Rows \cup {NoRow}]
        /\ phase \in {"idle", "apply"}

\* What is read was on the list it saw.
ReadListed == \A n \in reading.read : reading.row[n] # NoRow

\* What was read in full has a recorded row.
DetailedRecorded == \A n \in memory.detailed : memory.recorded[n] # NoRow

ReadInv == RowsTyped /\ ReadListed /\ DetailedRecorded /\ Refresh!RecordedIsShown

\* Waiting one more run changes the counts alone.
LEMMA LaterKeeps ==
    ASSUME NEW s \in Stored
    PROVE  /\ Refresh!Later(s) \in Stored /\ Refresh!Later(s).pending = s.pending
           /\ Refresh!Later(s).candidates = s.candidates /\ Refresh!Later(s).recorded = s.recorded
           /\ Refresh!Later(s).detailed = s.detailed
<1> PICK step \in Nat : step = IF \A n \in Refresh!Timed(s) : s.since[n] > Daily THEN 0 ELSE 1
  OBVIOUS
<1> PICK since : since = [n \in Notices |-> IF n \in Refresh!Timed(s) THEN s.since[n] + step ELSE 0]
  OBVIOUS
<1>1. since \in [Notices -> Nat]
  BY DEF Stored
<1>2. Refresh!Later(s) = [s EXCEPT !.since = since]
  BY DEF Refresh!Later, Stored
<1> QED BY <1>1, <1>2 DEF Stored

\* A checkpoint takes over the rows of the notices that were applied.
LEMMA CheckpointedKeeps ==
    ASSUME RowsTyped, NEW s \in Stored, NEW done \in SUBSET Notices
    PROVE  /\ Refresh!Checkpointed(s, done) \in Stored
           /\ Refresh!Checkpointed(s, done).pending = s.pending \ done
           /\ Refresh!Checkpointed(s, done).candidates = s.candidates
           /\ Refresh!Checkpointed(s, done).detailed = s.detailed \cup done
           /\ Refresh!Checkpointed(s, done).recorded
                = [n \in Notices |-> IF n \in done THEN reading.row[n] ELSE s.recorded[n]]
<1> PICK recorded : recorded = [n \in Notices |-> IF n \in done THEN reading.row[n] ELSE s.recorded[n]]
  OBVIOUS
<1> PICK since : since = [n \in Notices |-> IF n \in done THEN 0 ELSE s.since[n]]
  OBVIOUS
<1>1. recorded \in [Notices -> Rows \cup {NoRow}] /\ since \in [Notices -> Nat]
  BY DEF Stored, RowsTyped, Refresh!Run
<1>2. Refresh!Checkpointed(s, done) = [s EXCEPT !.recorded = recorded, !.since = since,
           !.detailed = s.detailed \cup done, !.observed = s.observed \cup done,
           !.pending = s.pending \ done]
  BY DEF Refresh!Checkpointed, Stored
<1>3. /\ s.detailed \cup done \in SUBSET Notices /\ s.observed \cup done \in SUBSET Notices
      /\ s.pending \ done \in SUBSET Notices
  BY DEF Stored
<1>4. /\ Refresh!Checkpointed(s, done) \in Stored
      /\ Refresh!Checkpointed(s, done).pending = s.pending \ done
      /\ Refresh!Checkpointed(s, done).candidates = s.candidates
      /\ Refresh!Checkpointed(s, done).detailed = s.detailed \cup done
      /\ Refresh!Checkpointed(s, done).recorded = recorded
  BY <1>1, <1>2, <1>3 DEF Stored
<1> QED BY <1>4

\* The merge at the end takes over the row of every notice that was listed.
LEMMA MergedKeeps ==
    ASSUME RowsTyped, NEW s \in Stored
    PROVE  /\ Refresh!Merged(s) \in Stored
           /\ Refresh!Merged(s).pending = s.pending /\ Refresh!Merged(s).candidates = s.candidates
           /\ Refresh!Merged(s).detailed
                = (memory.detailed \cup reading.read) \cap {n \in Notices : reading.row[n] # NoRow}
           /\ Refresh!Merged(s).recorded
                = [n \in Notices |-> IF reading.row[n] # NoRow THEN Refresh!RowKept(n) ELSE NoRow]
<1> PICK listed : listed = {n \in Notices : reading.row[n] # NoRow}
  OBVIOUS
<1> PICK fresh : fresh = reading.read \cup {n \in Notices : memory.recorded[n] = NoRow}
  OBVIOUS
<1> PICK recorded : recorded = [n \in Notices |-> IF n \in listed THEN Refresh!RowKept(n) ELSE NoRow]
  OBVIOUS
<1> PICK since : since = [n \in Notices |-> IF n \in listed \ fresh THEN memory.since[n] ELSE 0]
  OBVIOUS
<1>0. /\ reading.read \subseteq Notices /\ reading.known \subseteq Notices
      /\ reading.row \in [Notices -> Rows \cup {NoRow}] /\ memory \in Stored
  BY DEF RowsTyped, Refresh!Run
<1>1. recorded \in [Notices -> Rows \cup {NoRow}] /\ since \in [Notices -> Nat]
  BY <1>0 DEF Stored, Refresh!RowKept
<1>2. Refresh!Merged(s) = [s EXCEPT !.recorded = recorded, !.since = since,
           !.detailed = (memory.detailed \cup reading.read) \cap listed,
           !.observed = s.observed \cup reading.read \cup (reading.known \cap listed)]
  BY DEF Refresh!Merged, Stored
<1>3. recorded = [n \in Notices |-> IF reading.row[n] # NoRow THEN Refresh!RowKept(n) ELSE NoRow]
  OBVIOUS
<1>4. /\ (memory.detailed \cup reading.read) \cap listed \subseteq Notices
      /\ s.observed \cup reading.read \cup (reading.known \cap listed) \subseteq Notices
  BY <1>0 DEF Stored
<1>5. /\ Refresh!Merged(s) \in Stored
      /\ Refresh!Merged(s).pending = s.pending /\ Refresh!Merged(s).candidates = s.candidates
      /\ Refresh!Merged(s).detailed = (memory.detailed \cup reading.read) \cap listed
      /\ Refresh!Merged(s).recorded = recorded
  BY <1>1, <1>2, <1>4 DEF Stored
<1> QED BY <1>3, <1>5

\* Between runs nothing is read.
LEMMA IdleRun ==
    /\ Refresh!NoRun \in Refresh!Run /\ Refresh!NoRun.read = {}
<1>1. [n \in Notices |-> NoRow] \in [Notices -> Rows \cup {NoRow}]
  OBVIOUS
<1> QED BY <1>1 DEF Refresh!NoRun, Refresh!Run

\* Nothing has been read before the first run.
LEMMA InitKept ==
    ASSUME Refresh!Init
    PROVE  ReadInv
<1>1. memory \in Stored
  BY DEF Refresh!Init, Refresh!EmptyState, Stored
<1>2. memory.detailed = {}
  BY DEF Refresh!Init, Refresh!EmptyState
<1> QED BY <1>1, <1>2, IdleRun
        DEF Refresh!Init, ReadInv, RowsTyped, ReadListed, DetailedRecorded, Refresh!RecordedIsShown

\* A run chooses what it reads among what it lists.
LEMMA CollectKeeps ==
    ASSUME ReadInv, NEW changed, NEW new, Refresh!Collect(changed, new)
    PROVE  ReadInv'
<1> PICK chosen : chosen = ((Refresh!Mandatory \cup Refresh!Scheduled) \cap Refresh!Listed)
                             \cup changed \cup new \cup Refresh!UnknownTop
  OBVIOUS
<1> PICK known : known = Refresh!Known
  OBVIOUS
<1>1. /\ reading' = [read |-> chosen, row |-> row, known |-> known] /\ phase' = "apply"
      /\ UNCHANGED <<row, memory, shown, astray>>
  BY DEF Refresh!Collect
<1>2. chosen \subseteq Refresh!Listed
  BY DEF Refresh!Collect, Refresh!Changed, Refresh!UnknownRecent, Refresh!UnknownTop
<1>3. known \subseteq Notices
  BY DEF Refresh!Known, ReadInv, RowsTyped, Stored
<1>4. reading' \in Refresh!Run /\ reading'.read = chosen /\ reading'.row = row
  BY <1>1, <1>2, <1>3 DEF Refresh!Run, ReadInv, RowsTyped, Refresh!Listed
<1>5. ReadListed'
  BY <1>2, <1>4 DEF ReadListed, Refresh!Listed
<1> QED BY <1>1, <1>4, <1>5 DEF ReadInv, RowsTyped, DetailedRecorded, Refresh!RecordedIsShown

\* The state of a run that took over the rows of the notices in kept alone,
\* of those in done that it had applied.
LEMMA PartlyKept ==
    ASSUME ReadInv, NEW done \in SUBSET reading.read, NEW kept \in SUBSET done,
           NEW state \in Stored,
           state.detailed = memory.detailed \cup kept,
           state.recorded = [n \in Notices |-> IF n \in kept THEN reading.row[n] ELSE memory.recorded[n]],
           memory.pending \ kept \subseteq state.pending,
           memory.candidates \ kept \subseteq state.candidates,
           memory' = Refresh!Later(state), UNCHANGED row,
           astray' = (astray \cup done) \ kept \/ (done = kept /\ astray' = astray \ kept),
           Refresh!Complete(done)
    PROVE  ReadInv'
<1>0. /\ RowsTyped /\ ReadListed /\ DetailedRecorded /\ Refresh!RecordedIsShown
      /\ reading.read \subseteq Notices /\ memory \in Stored /\ memory.detailed \subseteq Notices
  BY DEF ReadInv, RowsTyped, Refresh!Run, Stored
<1>1. /\ memory' \in Stored /\ memory'.pending = state.pending
      /\ memory'.candidates = state.candidates /\ memory'.recorded = state.recorded
      /\ memory'.detailed = state.detailed
  BY LaterKeeps
<1>2. /\ reading' \in Refresh!Run /\ reading'.read = {} /\ phase' = "idle"
      /\ shown' = [n \in Notices |-> IF n \in done THEN reading.row[n] ELSE shown[n]]
  BY IdleRun DEF Refresh!Complete
<1>3. RowsTyped' /\ ReadListed'
  BY <1>0, <1>1, <1>2 DEF RowsTyped, ReadListed
<1>4. DetailedRecorded'
  <2> SUFFICES ASSUME NEW n \in memory.detailed \cup kept PROVE state.recorded[n] # NoRow
    BY <1>1 DEF DetailedRecorded
  <2> QED BY <1>0 DEF ReadListed, DetailedRecorded
<1>5. Refresh!RecordedIsShown'
  <2> SUFFICES ASSUME NEW n \in memory.detailed \cup kept, n \notin astray'
               PROVE  state.recorded[n] = shown'[n] \/ n \in state.pending \cup state.candidates
    BY <1>1 DEF Refresh!RecordedIsShown
  <2>1. CASE n \in kept
    BY <1>0, <1>2, <2>1
  <2>2. CASE n \notin kept
    <3>1. n \in memory.detailed \ astray /\ n \notin done
      BY <2>2
    <3>2. memory.recorded[n] = shown[n] \/ n \in memory.pending \cup memory.candidates
      BY <1>0, <3>1 DEF Refresh!RecordedIsShown
    <3>3. state.recorded[n] = memory.recorded[n] /\ shown'[n] = shown[n]
      BY <1>0, <1>2, <2>2, <3>1
    <3> QED BY <2>2, <3>2, <3>3
  <2> QED BY <2>1, <2>2
<1> QED BY <1>3, <1>4, <1>5 DEF ReadInv

\* A run that sets notices aside, one that fails and one that is killed take
\* over the rows of the notices they had applied, or of fewer.
LEMMA QuarantineKeeps ==
    ASSUME ReadInv, NEW done \in SUBSET Notices, NEW held \in SUBSET Notices,
           NEW noted \in SUBSET Notices,
           Refresh!Quarantine(done, held, noted)
    PROVE  ReadInv'
<1> PICK s : s = Refresh!Checkpointed(memory, done)
  OBVIOUS
<1> PICK state : state = [s EXCEPT !.pending = s.pending \cup held,
                                   !.candidates = (s.candidates \ done) \cup noted]
  OBVIOUS
<1>1. /\ s \in Stored /\ s.pending = memory.pending \ done /\ s.candidates = memory.candidates
      /\ s.detailed = memory.detailed \cup done
      /\ s.recorded = [n \in Notices |-> IF n \in done THEN reading.row[n] ELSE memory.recorded[n]]
  BY CheckpointedKeeps DEF ReadInv, RowsTyped
<1>2. /\ state \in Stored /\ state.pending = s.pending \cup held
      /\ state.candidates = (s.candidates \ done) \cup noted
      /\ state.detailed = s.detailed /\ state.recorded = s.recorded
  BY <1>1 DEF Stored
<1>3. /\ done \subseteq reading.read /\ memory' = Refresh!Later(state) /\ astray' = astray \ done
      /\ Refresh!Complete(done) /\ UNCHANGED row
  BY DEF Refresh!Quarantine, Refresh!Complete
<1> QED BY <1>1, <1>2, <1>3, PartlyKept

LEMMA FailKeeps ==
    ASSUME ReadInv, NEW done \in SUBSET Notices, Refresh!Fail(done)
    PROVE  ReadInv'
<1> PICK s : s = Refresh!Checkpointed(memory, done)
  OBVIOUS
<1> PICK state : state = [s EXCEPT !.pending = s.pending \cup (reading.read \ done)]
  OBVIOUS
<1>1. /\ s \in Stored /\ s.pending = memory.pending \ done /\ s.candidates = memory.candidates
      /\ s.detailed = memory.detailed \cup done
      /\ s.recorded = [n \in Notices |-> IF n \in done THEN reading.row[n] ELSE memory.recorded[n]]
  BY CheckpointedKeeps DEF ReadInv, RowsTyped
<1>2. /\ state \in Stored /\ state.pending = s.pending \cup (reading.read \ done)
      /\ state.candidates = s.candidates
      /\ state.detailed = s.detailed /\ state.recorded = s.recorded
  BY <1>1 DEF Stored, ReadInv, RowsTyped, Refresh!Run
<1>3. /\ done \subseteq reading.read /\ memory' = Refresh!Later(state) /\ astray' = astray \ done
      /\ Refresh!Complete(done) /\ UNCHANGED row
  BY DEF Refresh!Fail, Refresh!Complete
<1> QED BY <1>1, <1>2, <1>3, PartlyKept

LEMMA KillKeeps ==
    ASSUME ReadInv, NEW done \in SUBSET Notices, NEW kept \in SUBSET Notices,
           Refresh!Kill(done, kept)
    PROVE  ReadInv'
<1> PICK s : s = Refresh!Checkpointed(memory, kept)
  OBVIOUS
<1>1. /\ s \in Stored /\ s.pending = memory.pending \ kept /\ s.candidates = memory.candidates
      /\ s.detailed = memory.detailed \cup kept
      /\ s.recorded = [n \in Notices |-> IF n \in kept THEN reading.row[n] ELSE memory.recorded[n]]
  BY CheckpointedKeeps DEF ReadInv, RowsTyped
<1>2. /\ done \subseteq reading.read /\ kept \subseteq done /\ memory' = Refresh!Later(s)
      /\ astray' = (astray \cup done) \ kept /\ Refresh!Complete(done) /\ UNCHANGED row
  BY DEF Refresh!Kill, Refresh!Complete
<1> QED BY <1>1, <1>2, PartlyKept

\* A run that takes over every row it saw.
LEMMA FinishKeeps ==
    ASSUME ReadInv, NEW noted \in SUBSET Notices, NEW deferred \in SUBSET Notices,
           Refresh!Finish(noted, deferred)
    PROVE  ReadInv'
<1> PICK done : done = reading.read \ (noted \cup deferred)
  OBVIOUS
<1> PICK dropped : dropped = {n \in Notices : memory.recorded[n] # NoRow /\ reading.row[n] = NoRow}
  OBVIOUS
<1> PICK s : s = Refresh!Checkpointed(memory, done)
  OBVIOUS
<1> PICK m : m = Refresh!Merged(s)
  OBVIOUS
<1> PICK state : state = [m EXCEPT !.pending = m.pending \cup deferred,
                                   !.candidates = (m.candidates \ done) \cup noted]
  OBVIOUS
<1>0. /\ RowsTyped /\ ReadListed /\ DetailedRecorded /\ Refresh!RecordedIsShown
      /\ reading.read \subseteq Notices /\ memory \in Stored /\ memory.detailed \subseteq Notices
      /\ done \in SUBSET Notices
  BY DEF ReadInv, RowsTyped, Refresh!Run, Stored
<1>1. s \in Stored /\ s.pending = memory.pending \ done /\ s.candidates = memory.candidates
  BY <1>0, CheckpointedKeeps
<1>2. /\ m \in Stored /\ m.pending = s.pending /\ m.candidates = s.candidates
      /\ m.detailed = (memory.detailed \cup reading.read) \cap {n \in Notices : reading.row[n] # NoRow}
      /\ m.recorded = [n \in Notices |-> IF reading.row[n] # NoRow THEN Refresh!RowKept(n) ELSE NoRow]
  BY <1>0, <1>1, MergedKeeps
<1>3. /\ state \in Stored /\ state.pending = m.pending \cup deferred
      /\ state.candidates = (m.candidates \ done) \cup noted
      /\ state.detailed = m.detailed /\ state.recorded = m.recorded
  BY <1>2 DEF Stored
<1>4. /\ noted \cup deferred \subseteq reading.read /\ memory' = Refresh!Later(state)
      /\ astray' = (astray \cup dropped) \ done /\ Refresh!Complete(done) /\ UNCHANGED row
  BY DEF Refresh!Finish, Refresh!Complete
<1>5. /\ memory' \in Stored /\ memory'.pending = state.pending
      /\ memory'.candidates = state.candidates /\ memory'.recorded = state.recorded
      /\ memory'.detailed = state.detailed
  BY <1>3, <1>4, LaterKeeps
<1>6. /\ reading' \in Refresh!Run /\ reading'.read = {} /\ phase' = "idle"
      /\ shown' = [n \in Notices |-> IF n \in done THEN reading.row[n] ELSE shown[n]]
  BY <1>4, IdleRun DEF Refresh!Complete
<1>7. RowsTyped' /\ ReadListed'
  BY <1>0, <1>4, <1>5, <1>6 DEF RowsTyped, ReadListed
<1>8. ASSUME NEW n \in memory'.detailed
      PROVE  /\ n \in Notices /\ reading.row[n] # NoRow /\ n \in memory.detailed \cup reading.read
             /\ memory'.recorded[n] = Refresh!RowKept(n)
  BY <1>2, <1>3, <1>5
<1>9. DetailedRecorded'
  BY <1>8 DEF DetailedRecorded, Refresh!RowKept
<1>10. Refresh!RecordedIsShown'
  <2> SUFFICES ASSUME NEW n \in memory'.detailed, n \notin astray'
               PROVE  memory'.recorded[n] = shown'[n] \/ n \in memory'.pending \cup memory'.candidates
    BY DEF Refresh!RecordedIsShown
  <2>1. CASE n \in reading.read
    BY <1>3, <1>5, <1>6, <1>8, <2>1 DEF Refresh!RowKept
  <2>2. CASE n \notin reading.read
    <3>1. n \in memory.detailed \ astray /\ n \notin done /\ memory.recorded[n] # NoRow
      BY <1>0, <1>4, <1>8, <2>2 DEF DetailedRecorded
    <3>2. memory.recorded[n] = shown[n] \/ n \in memory.pending \cup memory.candidates
      BY <1>0, <3>1 DEF Refresh!RecordedIsShown
    <3>3. memory'.recorded[n] = memory.recorded[n] /\ shown'[n] = shown[n]
      BY <1>6, <1>8, <2>2, <3>1 DEF Refresh!RowKept
    <3> QED BY <1>1, <1>2, <1>3, <1>5, <3>1, <3>2, <3>3
  <2> QED BY <2>1, <2>2
<1> QED BY <1>7, <1>9, <1>10 DEF ReadInv

\* A run that reads nothing, and what happens to the board between runs.
LEMMA OthersKeep ==
    ASSUME ReadInv,
           \/ Refresh!NotRead
           \/ \E n \in Notices : Refresh!ChangeRow(n) \/ Refresh!GrowOlder(n)
           \/ UNCHANGED Refresh!vars
    PROVE  ReadInv'
<1>1. CASE Refresh!NotRead
  <2>1. /\ memory' = Refresh!Later(memory) /\ memory \in Stored
        /\ UNCHANGED <<row, reading, phase, shown, astray>>
    BY <1>1 DEF Refresh!NotRead, ReadInv, RowsTyped
  <2>2. /\ memory' \in Stored /\ memory'.pending = memory.pending
        /\ memory'.candidates = memory.candidates /\ memory'.recorded = memory.recorded
        /\ memory'.detailed = memory.detailed
    BY <2>1, LaterKeeps
  <2> QED BY <2>1, <2>2 DEF ReadInv, RowsTyped, ReadListed, DetailedRecorded, Refresh!RecordedIsShown
<1>2. ASSUME NEW n \in Notices, Refresh!ChangeRow(n) PROVE ReadInv'
  <2>1. row' \in [Notices -> Rows \cup {NoRow}] /\ UNCHANGED <<memory, reading, phase, shown, astray>>
    BY <1>2 DEF Refresh!ChangeRow, ReadInv, RowsTyped
  <2> QED BY <2>1 DEF ReadInv, RowsTyped, ReadListed, DetailedRecorded, Refresh!RecordedIsShown
<1>3. ASSUME NEW n \in Notices, Refresh!GrowOlder(n) PROVE ReadInv'
  BY <1>3 DEF Refresh!GrowOlder, ReadInv, RowsTyped, ReadListed, DetailedRecorded, Refresh!RecordedIsShown
<1>4. CASE UNCHANGED Refresh!vars
  BY <1>4 DEF Refresh!vars, ReadInv, RowsTyped, ReadListed, DetailedRecorded, Refresh!RecordedIsShown
<1> QED BY <1>1, <1>2, <1>3, <1>4

\* A notice that counts as read with a certain row is shown in the version of
\* that row, or is waiting to be read again, unless the state lost sight of the
\* row, because a run was killed or a complete list dropped it (RecordedIsShown):
\* a change of its row is then seen by the comparison with what is recorded
\* (crawler.py, sync_engine.py and run_state.py).
THEOREM NoChangeIsMissed == Refresh!Spec => []Refresh!RecordedIsShown
<1>1. ReadInv /\ [Refresh!Next]_(Refresh!vars) => ReadInv'
  BY CollectKeeps, FinishKeeps, QuarantineKeeps, FailKeeps, KillKeeps, OthersKeep
  DEF Refresh!Next, Refresh!RunStep, Refresh!Environment
<1>2. ReadInv => Refresh!RecordedIsShown
  BY DEF ReadInv
<1> QED BY <1>1, <1>2, InitKept, PTL DEF Refresh!Spec

=============================================================================
