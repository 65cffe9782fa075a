--------------------------- MODULE RunLifecycleProofs ---------------------------
(***************************************************************************)
(* Proofs about RunLifecycle for any processes, notices, causes, interval  *)
(* and limit: the types, two action properties (what is done stays done,   *)
(* silence follows a signal), and that the processes implement SerialRuns. *)
(***************************************************************************)
EXTENDS RunLifecycle, FiniteSetTheorems, TLAPS

-----------------------------------------------------------------------------
\* The inductive invariant

\* A process past the lock holds it, so no two are.
HoldsLock ==
    \A p \in Procs : pc[p] \in {"locked", "loaded", "incident", "exit"} => lock = p

\* What such a process has in memory is what is on disk.
UpToDate ==
    \A p \in Procs : pc[p] \in {"loaded", "incident"} => mem[p] = disk

\* The ages the state file keeps are those of the signals that were given.
AgesTrue == disk.age = signalled

IInv == TypeOK /\ HoldsLock /\ UpToDate /\ AgesTrue

-----------------------------------------------------------------------------
\* Types

LEMMA EmptyStateType == EmptyState \in State /\ NoRun \in Run
BY LimitsAssumption DEF EmptyState, State, Ages, NoRun, Run, Kinds

LEMMA OlderType ==
    ASSUME NEW age \in [Causes -> Ages]
    PROVE  Older(age) \in [Causes -> Ages]
BY LimitsAssumption DEF Older, Ages

LEMMA WithIncidentType ==
    ASSUME NEW s \in State, NEW c \in Causes
    PROVE  WithIncident(s, c) \in State /\ WithIncident(s, c).age = s.age
           /\ WithIncident(s, c).done = s.done
           /\ WithIncident(s, c).active = s.active \cup {c}
BY DEF WithIncident, State

LEMMA SignalledType ==
    ASSUME NEW s \in State, NEW c, NEW quiet \in BOOLEAN
    PROVE  /\ Signalled(s, c, quiet) \in State
           /\ Signalled(s, c, quiet).done = s.done
           /\ Signalled(s, c, quiet).active = s.active
           /\ Signalled(s, c, quiet).age = IF quiet THEN s.age ELSE [s.age EXCEPT ![c] = 0]
<1>1. 0 \in Ages
    BY LimitsAssumption DEF Ages
<1> QED
    BY <1>1 DEF Signalled, State

LEMMA ClearedType ==
    ASSUME NEW s \in State
    PROVE  /\ Cleared(s) \in State
           /\ Cleared(s).done = s.done
           /\ Cleared(s).active = {}
           /\ Cleared(s).age = [c \in Causes |-> Repeat]
<1>1. Repeat \in Ages
    BY LimitsAssumption DEF Ages
<1> QED
    BY <1>1 DEF Cleared, State

\* A set of causes that does not overflow fits.
LEMMA Fits ==
    ASSUME NEW s \in State, NEW c \in Causes, ~Overflow(s, c)
    PROVE  Cardinality(s.active \cup {c}) <= MaxIncidents
<1>1. IsFiniteSet(s.active \cup {c})
    BY CausesAssumption, FS_Subset DEF State
<1>2. Cardinality(s.active \cup {c}) \in Nat
    BY <1>1, FS_CardinalityType
<1> QED
    BY <1>2, LimitsAssumption DEF Overflow

LEMMA NoneFits == Cardinality({}) <= MaxIncidents
BY FS_EmptySet, LimitsAssumption

LEMMA DeduplicatedType ==
    ASSUME NEW p \in Procs, NEW c \in Causes
    PROVE  Deduplicated(p, c) \in BOOLEAN
BY DEF Deduplicated

-----------------------------------------------------------------------------
\* The actions that write the state file: a process that has loaded the state
\* replaces it by another state.

LEMMA Written ==
    ASSUME IInv, NEW p \in Procs, pc[p] \in {"loaded", "incident"},
           NEW s \in State, Cardinality(s.active) <= MaxIncidents, Write(p, s),
           UNCHANGED lock,
           NEW next \in {"loaded", "incident", "exit"}, pc' = [pc EXCEPT ![p] = next],
           run' \in [Procs -> Run],
           signalled' = s.age
    PROVE  IInv'
<1> USE DEF IInv, TypeOK
<1>1. disk' = s /\ mem' = [mem EXCEPT ![p] = s]
    BY DEF Write
<1>2. TypeOK'
    BY <1>1 DEF State
<1>3. HoldsLock'
    BY DEF HoldsLock
<1>4. UpToDate'
    <2> SUFFICES ASSUME NEW q \in Procs, pc'[q] \in {"loaded", "incident"}
                 PROVE  mem'[q] = disk'
        BY DEF UpToDate
    <2>1. CASE q = p
        BY <1>1, <2>1
    <2>2. CASE q # p
        <3>1. pc[q] \in {"loaded", "incident"}
            BY <2>2
        <3>2. lock = q /\ lock = p
            BY <3>1 DEF HoldsLock
        <3> QED
            BY <3>2, <2>2
    <2> QED
        BY <2>1, <2>2
<1>5. AgesTrue'
    BY <1>1 DEF AgesTrue
<1> QED
    BY <1>2, <1>3, <1>4, <1>5

\* What a process has loaded is the state on disk, with the true ages.
LEMMA Loaded ==
    ASSUME IInv, NEW p \in Procs, pc[p] \in {"loaded", "incident"}
    PROVE  /\ mem[p] = disk /\ mem[p] \in State
           /\ mem[p].age = signalled
           /\ Cardinality(mem[p].active) <= MaxIncidents
BY DEF IInv, TypeOK, UpToDate, AgesTrue

LEMMA CompleteNoticeStep ==
    ASSUME IInv, NEW p \in Procs, NEW n \in Notices, CompleteNotice(p, n)
    PROVE  IInv' /\ disk.done \subseteq disk'.done
<1> DEFINE s == [mem[p] EXCEPT !.done = @ \cup {n}]
<1>1. pc[p] = "loaded" /\ Write(p, s) /\ UNCHANGED <<lock, run, pc, signalled>>
    BY DEF CompleteNotice
<1>2. mem[p] = disk /\ mem[p] \in State /\ mem[p].age = signalled
      /\ Cardinality(mem[p].active) <= MaxIncidents
    BY <1>1, Loaded
<1>3. s \in State /\ s.active = mem[p].active /\ s.age = mem[p].age
      /\ mem[p].done \subseteq s.done
    BY <1>2 DEF State
<1>4. pc' = [pc EXCEPT ![p] = "loaded"] /\ run' \in [Procs -> Run]
    BY <1>1 DEF IInv, TypeOK
<1> HIDE DEF s
<1>5. IInv'
    BY <1>1, <1>2, <1>3, <1>4, Written
<1> QED
    BY <1>1, <1>2, <1>3, <1>5 DEF Write

LEMMA SucceedStep ==
    ASSUME IInv, NEW p \in Procs, Succeed(p)
    PROVE  IInv' /\ disk.done \subseteq disk'.done
<1>1. pc[p] = "loaded" /\ Write(p, Cleared(mem[p])) /\ UNCHANGED <<lock, run>>
      /\ signalled' = [c \in Causes |-> Repeat] /\ pc' = [pc EXCEPT ![p] = "exit"]
    BY DEF Succeed, Exit
<1>2. mem[p] = disk /\ mem[p] \in State
    BY <1>1, Loaded
<1>3. run' \in [Procs -> Run]
    BY <1>1 DEF IInv, TypeOK
<1>4. IInv'
    BY <1>1, <1>2, <1>3, ClearedType, NoneFits, Written
<1> QED
    BY <1>1, <1>2, <1>4, ClearedType DEF Write

LEMMA SucceedWithoutSyncStep ==
    ASSUME IInv, NEW p \in Procs, SucceedWithoutSync(p)
    PROVE  IInv' /\ disk.done \subseteq disk'.done
<1>1. pc[p] = "loaded" /\ Write(p, mem[p]) /\ UNCHANGED <<lock, run, signalled>>
      /\ pc' = [pc EXCEPT ![p] = "exit"]
    BY DEF SucceedWithoutSync, Exit
<1>2. mem[p] = disk /\ mem[p] \in State /\ mem[p].age = signalled
      /\ Cardinality(mem[p].active) <= MaxIncidents
    BY <1>1, Loaded
<1>3. run' \in [Procs -> Run]
    BY <1>1 DEF IInv, TypeOK
<1>4. IInv'
    BY <1>1, <1>2, <1>3, Written
<1> QED
    BY <1>1, <1>2, <1>4 DEF Write

LEMMA ReportFailureStep ==
    ASSUME IInv, NEW p \in Procs, NEW c \in Causes, ReportFailure(p, c)
    PROVE  IInv' /\ disk.done \subseteq disk'.done
<1> DEFINE s == WithIncident(mem[p], c)
<1>1. pc[p] = "loaded" /\ ~Overflow(mem[p], c) /\ Write(p, s) /\ UNCHANGED <<lock, signalled>>
      /\ run' = [run EXCEPT ![p].cause = c, ![p].quiet = Deduplicated(p, c)]
      /\ pc' = [pc EXCEPT ![p] = "incident"]
    BY DEF ReportFailure
<1>2. mem[p] = disk /\ mem[p] \in State /\ mem[p].age = signalled
    BY <1>1, Loaded
<1>3. s \in State /\ s.age = mem[p].age /\ s.done = mem[p].done
      /\ Cardinality(s.active) <= MaxIncidents
    BY <1>1, <1>2, WithIncidentType, Fits
<1>4. run' \in [Procs -> Run]
    BY <1>1, DeduplicatedType DEF IInv, TypeOK, Run
<1> HIDE DEF s
<1>5. IInv'
    BY <1>1, <1>2, <1>3, <1>4, Written
<1> QED
    BY <1>1, <1>2, <1>3, <1>5 DEF Write

LEMMA SignalFailureStep ==
    ASSUME IInv, NEW p \in Procs, SignalFailure(p)
    PROVE  IInv' /\ disk.done \subseteq disk'.done
<1> DEFINE s == Signalled(mem[p], run[p].cause, run[p].quiet)
<1>1. pc[p] = "incident" /\ Write(p, s) /\ Mark(run[p].cause, run[p].quiet)
      /\ run' = [run EXCEPT ![p].failed = TRUE] /\ UNCHANGED lock
      /\ pc' = [pc EXCEPT ![p] = "exit"]
    BY DEF SignalFailure, Exit
<1>2. mem[p] = disk /\ mem[p] \in State /\ mem[p].age = signalled
      /\ Cardinality(mem[p].active) <= MaxIncidents
    BY <1>1, Loaded
<1>3. run[p].quiet \in BOOLEAN /\ run' \in [Procs -> Run]
    BY <1>1 DEF IInv, TypeOK, Run
<1>4. s \in State /\ s.active = mem[p].active /\ s.done = mem[p].done
      /\ s.age = signalled'
    BY <1>1, <1>2, <1>3, SignalledType DEF Mark
<1> HIDE DEF s
<1>5. IInv'
    BY <1>1, <1>2, <1>3, <1>4, Written
<1> QED
    BY <1>1, <1>2, <1>4, <1>5 DEF Write

LEMMA RaiseStep ==
    ASSUME IInv, NEW p \in Procs, NEW c \in Causes, Raise(p, c)
    PROVE  IInv' /\ disk.done \subseteq disk'.done
<1> DEFINE quiet == Deduplicated(p, c)
           t == WithIncident(mem[p], c)
           s == Signalled(t, c, quiet)
<1>1. pc[p] \in {"loaded", "incident"} /\ ~Overflow(mem[p], c) /\ Write(p, s)
      /\ Mark(c, quiet) /\ UNCHANGED lock
      /\ run' = [run EXCEPT ![p].cause = c, ![p].quiet = quiet, ![p].failed = TRUE]
      /\ pc' = [pc EXCEPT ![p] = "exit"]
    BY DEF Raise, Exit
<1>2. mem[p] = disk /\ mem[p] \in State /\ mem[p].age = signalled
    BY <1>1, Loaded
<1>3. quiet \in BOOLEAN
    BY DeduplicatedType
<1>4. t \in State /\ t.age = mem[p].age /\ t.done = mem[p].done
      /\ Cardinality(t.active) <= MaxIncidents
    BY <1>1, <1>2, WithIncidentType, Fits
<1> HIDE DEF t, quiet
<1>5. s \in State /\ s.active = t.active /\ s.done = t.done /\ s.age = signalled'
    <2>1. s \in State /\ s.active = t.active /\ s.done = t.done
          /\ s.age = IF quiet THEN t.age ELSE [t.age EXCEPT ![c] = 0]
        BY <1>3, <1>4, SignalledType
    <2>2. signalled' = IF quiet THEN signalled ELSE [signalled EXCEPT ![c] = 0]
        BY <1>1 DEF Mark
    <2>3. t.age = signalled
        BY <1>2, <1>4
    <2> HIDE DEF s
    <2> QED
        BY <2>1, <2>2, <2>3
<1>6. run' \in [Procs -> Run]
    BY <1>1, <1>3 DEF IInv, TypeOK, Run
<1> HIDE DEF s
<1>7. IInv'
    BY <1>1, <1>4, <1>5, <1>6, Written
<1> QED
    BY <1>1, <1>2, <1>4, <1>5, <1>7 DEF Write

-----------------------------------------------------------------------------
\* The other actions

LEMMA QuietSteps ==
    ASSUME IInv, NEW p \in Procs,
           \/ \E kind \in Kinds : Start(p, kind)
           \/ TakeLock(p) \/ LockBusy(p) \/ LoadState(p) \/ Release(p) \/ Kill(p)
           \/ \E c \in Causes : RaiseUnrecorded(p, c)
    PROVE  IInv' /\ disk' = disk
<1> USE DEF IInv, TypeOK
<1>1. CASE \E kind \in Kinds : Start(p, kind)
    <2>1. PICK kind \in Kinds : Start(p, kind)
        BY <1>1
    <2>2. [NoRun EXCEPT !.kind = kind] \in Run
        BY EmptyStateType DEF Run
    <2> QED
        BY <2>1, <2>2 DEF Start, HoldsLock, UpToDate, AgesTrue
<1>2. CASE TakeLock(p)
    BY <1>2, FreeAssumption DEF TakeLock, LockTaken, HoldsLock, UpToDate, AgesTrue
<1>3. CASE LockBusy(p)
    BY <1>3, EmptyStateType DEF LockBusy, HoldsLock, UpToDate, AgesTrue
<1>4. CASE LoadState(p)
    BY <1>4 DEF LoadState, HoldsLock, UpToDate, AgesTrue
<1>5. CASE Release(p) \/ Kill(p)
    <2>1. /\ lock' = IF lock = p THEN Free ELSE lock
          /\ run' = [run EXCEPT ![p] = NoRun]
          /\ mem' = [mem EXCEPT ![p] = EmptyState]
          /\ pc' = [pc EXCEPT ![p] = "out"]
          /\ UNCHANGED <<disk, signalled>>
        BY <1>5 DEF Release, Kill
    <2>2. TypeOK'
        BY <2>1, EmptyStateType
    <2>3. HoldsLock' /\ UpToDate' /\ AgesTrue'
        BY <2>1 DEF HoldsLock, UpToDate, AgesTrue
    <2> QED
        BY <2>1, <2>2, <2>3
<1>6. CASE \E c \in Causes : RaiseUnrecorded(p, c)
    <2>1. PICK c \in Causes :
            /\ pc[p] \in {"loaded", "incident"}
            /\ run' = [run EXCEPT ![p].cause = c, ![p].quiet = FALSE, ![p].failed = TRUE]
            /\ pc' = [pc EXCEPT ![p] = "exit"]
            /\ UNCHANGED <<lock, disk, mem, signalled>>
        BY <1>6 DEF RaiseUnrecorded, Exit
    <2>2. run' \in [Procs -> Run]
        BY <2>1 DEF Run
    <2>3. TypeOK'
        BY <2>1, <2>2
    <2>4. HoldsLock' /\ UpToDate' /\ AgesTrue'
        BY <2>1 DEF HoldsLock, UpToDate, AgesTrue
    <2> QED
        BY <2>1, <2>3, <2>4
<1> QED
    BY <1>1, <1>2, <1>3, <1>4, <1>5, <1>6

LEMMA TickStep ==
    ASSUME IInv, Tick
    PROVE  IInv' /\ disk'.done = disk.done
<1> USE DEF IInv, TypeOK
<1>1. /\ disk' = [disk EXCEPT !.age = Older(disk.age)]
      /\ mem' = [p \in Procs |-> [mem[p] EXCEPT !.age = Older(mem[p].age)]]
      /\ signalled' = Older(signalled)
      /\ UNCHANGED <<lock, run, pc>>
    BY DEF Tick
<1>2. \A s \in State : /\ [s EXCEPT !.age = Older(s.age)] \in State
                       /\ [s EXCEPT !.age = Older(s.age)].active = s.active
                       /\ [s EXCEPT !.age = Older(s.age)].done = s.done
                       /\ [s EXCEPT !.age = Older(s.age)].age = Older(s.age)
    BY OlderType DEF State
<1>3. disk' \in State /\ disk'.active = disk.active /\ disk'.done = disk.done
      /\ disk'.age = Older(disk.age)
    BY <1>1, <1>2
<1>4. mem' \in [Procs -> State]
    BY <1>1, <1>2
<1>5. signalled' \in [Causes -> Ages]
    BY <1>1, OlderType
<1>6. TypeOK'
    BY <1>1, <1>3, <1>4, <1>5
<1>7. HoldsLock' /\ UpToDate' /\ AgesTrue'
    BY <1>1, <1>3 DEF HoldsLock, UpToDate, AgesTrue
<1> QED
    BY <1>3, <1>6, <1>7

-----------------------------------------------------------------------------
\* The invariant

LEMMA Initially == Init => IInv
<1> SUFFICES ASSUME Init PROVE IInv
    OBVIOUS
<1>1. Repeat \in Ages
    BY LimitsAssumption DEF Ages
<1>2. TypeOK
    BY <1>1, EmptyStateType, NoneFits DEF Init, TypeOK, EmptyState
<1> QED
    BY <1>2 DEF Init, IInv, HoldsLock, UpToDate, AgesTrue, EmptyState

\* Every step keeps the invariant, and what is done on disk.
LEMMA Kept ==
    ASSUME IInv, [Next]_vars
    PROVE  IInv' /\ disk.done \subseteq disk'.done
<1>1. CASE Tick
    BY <1>1, TickStep
<1>2. CASE \E p \in Procs : Step(p)
    <2>1. PICK p \in Procs : Step(p)
        BY <1>2
    <2>2. CASE \E n \in Notices : CompleteNotice(p, n)
        BY <2>2, CompleteNoticeStep
    <2>3. CASE Succeed(p)
        BY <2>3, SucceedStep
    <2>4. CASE SucceedWithoutSync(p)
        BY <2>4, SucceedWithoutSyncStep
    <2>5. CASE \E c \in Causes : ReportFailure(p, c)
        BY <2>5, ReportFailureStep
    <2>6. CASE \E c \in Causes : Raise(p, c)
        BY <2>6, RaiseStep
    <2>7. CASE SignalFailure(p)
        BY <2>7, SignalFailureStep
    <2>8. CASE \/ \E kind \in Kinds : Start(p, kind)
               \/ TakeLock(p) \/ LockBusy(p) \/ LoadState(p) \/ Release(p) \/ Kill(p)
               \/ \E c \in Causes : RaiseUnrecorded(p, c)
        <3>1. IInv' /\ disk' = disk
            BY <2>8, QuietSteps
        <3> QED
            BY <3>1
    <2> QED
        BY <2>1, <2>2, <2>3, <2>4, <2>5, <2>6, <2>7, <2>8 DEF Step
<1>3. CASE UNCHANGED vars
    BY <1>3 DEF vars, IInv, TypeOK, HoldsLock, UpToDate, AgesTrue
<1> QED
    BY <1>1, <1>2, <1>3 DEF Next

LEMMA InvariantHolds == Spec => []IInv
BY Initially, Kept, PTL DEF Spec

\* The state on disk, in memory and the locals keep their types, and no more
\* incidents are active than the program keeps.
THEOREM TypeCorrect == Spec => []TypeOK
<1>1. IInv => TypeOK
    BY DEF IInv
<1> QED
    BY <1>1, InvariantHolds, PTL

-----------------------------------------------------------------------------
\* The action properties

\* Whatever other processes of the host do and wherever one is killed, a
\* notice recorded as done stays so.
THEOREM NothingDoneIsUndone == Spec => ProgressKept
<1>1. IInv /\ [Next]_vars => [disk.done \subseteq disk'.done]_vars
    BY Kept
<1> QED
    BY <1>1, InvariantHolds, PTL DEF Spec, ProgressKept

\* A failure that is passed over was signalled less than the interval ago.
LEMMA PassedOver ==
    ASSUME IInv, NEW p \in Procs, pc[p] \in {"loaded", "incident"}, NEW c \in Causes,
           Deduplicated(p, c)
    PROVE  signalled[c] < Repeat
<1>1. mem[p].age = signalled
    BY Loaded
<1>2. mem[p].age[c] # Repeat
    BY DEF Deduplicated, ShouldSignal
<1>3. signalled[c] \in 0..Repeat
    BY DEF IInv, TypeOK, Ages
<1> QED
    BY <1>1, <1>2, <1>3, LimitsAssumption

\* A process only begins to be quiet in the step that decides so.
LEMMA BeginsQuiet ==
    ASSUME IInv, Next, NEW p \in Procs, run'[p].quiet, ~run[p].quiet
    PROVE  signalled[run'[p].cause] < Repeat
<1> USE DEF IInv, TypeOK
<1>1. \A q \in Procs : run[q] \in Run
    OBVIOUS
<1>2. PICK q \in Procs : Step(q)
    BY DEF Next, Tick
<1>3. \E c \in Causes : ReportFailure(q, c) \/ Raise(q, c)
    <2> SUFFICES ASSUME ~\E c \in Causes : ReportFailure(q, c) \/ Raise(q, c)
                 PROVE  FALSE
        OBVIOUS
    <2>1. CASE UNCHANGED run
        BY <2>1
    <2>2. CASE \E r \in Run : r.quiet = FALSE /\ run' = [run EXCEPT ![q] = r]
        BY <2>2
    <2>3. CASE SignalFailure(q)
        BY <2>3, <1>1 DEF SignalFailure, Run
    <2>4. CASE \E c \in Causes : RaiseUnrecorded(q, c)
        BY <2>4, <1>1 DEF RaiseUnrecorded, Run
    <2>5. NoRun \in Run /\ NoRun.quiet = FALSE
        BY EmptyStateType DEF NoRun
    <2>6. CASE \E kind \in Kinds : Start(q, kind)
        <3>1. PICK kind \in Kinds : Start(q, kind)
            BY <2>6
        <3> DEFINE r == [NoRun EXCEPT !.kind = kind]
        <3>2. r \in Run /\ r.quiet = FALSE
            BY DEF NoRun, Run
        <3>3. run' = [run EXCEPT ![q] = r]
            BY <3>1 DEF Start
        <3> QED
            BY <3>2, <3>3, <2>2
    <2>7. CASE LockBusy(q) \/ Release(q) \/ Kill(q)
        BY <2>7, <2>5, <2>2 DEF LockBusy, Release, Kill
    <2>8. CASE TakeLock(q) \/ LoadState(q) \/ Succeed(q) \/ SucceedWithoutSync(q)
               \/ \E n \in Notices : CompleteNotice(q, n)
        BY <2>8, <2>1 DEF TakeLock, LoadState, Succeed, SucceedWithoutSync, CompleteNotice
    <2> QED
        BY <1>2, <2>3, <2>4, <2>6, <2>7, <2>8 DEF Step
<1>4. PICK c \in Causes : ReportFailure(q, c) \/ Raise(q, c)
    BY <1>3
<1>5. run'[p].cause = c /\ Deduplicated(q, c) /\ pc[q] \in {"loaded", "incident"}
    BY <1>1, <1>4 DEF ReportFailure, Raise, Run
<1> QED
    BY <1>5, PassedOver

\* No failure is passed over without a signal for the same failure less than
\* the interval ago and since the last run that went well.
THEOREM SilenceFollowsASignal == Spec => QuietOnlyAfterSignal
<1>1. IInv /\ [Next]_vars =>
        [\A p \in Procs : run'[p].quiet /\ ~run[p].quiet
              => signalled[run'[p].cause] < Repeat]_vars
    BY BeginsQuiet DEF vars
<1> QED
    BY <1>1, InvariantHolds, PTL DEF Spec, QuietOnlyAfterSignal

-----------------------------------------------------------------------------
\* The processes implement SerialRuns.

\* The run under way is that of a process past loading, and of no other.
LEMMA UnderWay ==
    ASSUME IInv, NEW p \in Procs, pc[p] \in {"loaded", "incident"}
    PROVE  /\ lock = p
           /\ Stage = IF pc[p] = "loaded" THEN "open"
                      ELSE IF run[p].quiet THEN "silent" ELSE "telling"
           /\ Cause = IF pc[p] = "loaded" THEN NoCause ELSE run[p].cause
<1>1. lock = p /\ p # Free
    BY FreeAssumption DEF IInv, HoldsLock
<1> QED
    BY <1>1 DEF Stage, Cause

\* Such a process goes on to another step, or its run is over.
LEMMA GoesOn ==
    ASSUME NEW p \in Procs, lock' = p
    PROVE  /\ pc'[p] = "loaded" => Stage' = "open" /\ Cause' = NoCause
           /\ pc'[p] = "incident" =>
                 /\ Stage' = IF run'[p].quiet THEN "silent" ELSE "telling"
                 /\ Cause' = run'[p].cause
           /\ pc'[p] \notin {"loaded", "incident"} => Stage' = "none" /\ Cause' = NoCause
BY FreeAssumption DEF Stage, Cause

LEMMA NoRunUnderWay ==
    ASSUME lock' = Free
    PROVE  Stage' = "none" /\ Cause' = NoCause
BY DEF Stage, Cause

\* A failure that is passed over is one of SerialRuns' repeated ones.
LEMMA DeduplicatedIsRepeated ==
    ASSUME IInv, NEW p \in Procs, pc[p] \in {"loaded", "incident"}, NEW c \in Causes,
           Deduplicated(p, c)
    PROVE  Serial!Repeated(c) /\ disk.active \cup {c} = disk.active
<1>1. mem[p] = disk
    BY Loaded
<1>2. c \in disk.active /\ disk.age[c] # Repeat
    BY <1>1 DEF Deduplicated, ShouldSignal
<1>3. disk.age[c] \in 0..Repeat
    BY DEF IInv, TypeOK, State, Ages
<1>4. disk.age[c] < Repeat
    BY <1>2, <1>3, LimitsAssumption
<1> QED
    BY <1>2, <1>4 DEF Serial!Repeated

LEMMA HasRoomIs ==
    ASSUME NEW c \in Causes, ~Overflow(disk, c), disk \in State
    PROVE  Serial!HasRoom(c)
BY Fits DEF Serial!HasRoom, Serial!Cardinality, Cardinality

LEMMA CompleteSerial ==
    ASSUME IInv, NEW p \in Procs, NEW n \in Notices, CompleteNotice(p, n)
    PROVE  Serial!Complete
<1>1. pc[p] = "loaded" /\ UNCHANGED <<lock, run, pc>> /\ mem[p] = disk
    BY Loaded DEF CompleteNotice
<1>2. disk' = [disk EXCEPT !.done = @ \cup {n}]
    BY <1>1 DEF CompleteNotice, Write
<1>3. Stage = "open" /\ Stage' = Stage /\ Cause' = Cause
    BY <1>1, UnderWay DEF Stage, Cause
<1> QED
    BY <1>2, <1>3 DEF Serial!Complete

LEMMA SucceedSerial ==
    ASSUME IInv, NEW p \in Procs, Succeed(p)
    PROVE  Serial!EndWell
<1>1. pc[p] = "loaded" /\ lock' = lock /\ mem[p] = disk /\ pc'[p] = "exit"
    BY Loaded DEF Succeed, Exit, IInv, TypeOK
<1>2. disk' = [disk EXCEPT !.active = {}, !.age = [c \in Causes |-> Repeat]]
    BY <1>1 DEF Succeed, Write, Cleared
<1>3. Stage = "open" /\ Stage' = "none" /\ Cause' = NoCause
    BY <1>1, UnderWay, GoesOn
<1> QED
    BY <1>2, <1>3 DEF Serial!EndWell, Serial!Close, Serial!Never

LEMMA ReportSerial ==
    ASSUME IInv, NEW p \in Procs, NEW c \in Causes, ReportFailure(p, c)
    PROVE  Serial!Note
<1>1. /\ pc[p] = "loaded" /\ lock' = lock /\ mem[p] = disk /\ disk \in State
      /\ ~Overflow(disk, c) /\ pc'[p] = "incident"
    BY Loaded DEF ReportFailure, IInv, TypeOK
<1>2. disk' = [disk EXCEPT !.active = @ \cup {c}]
    BY <1>1 DEF ReportFailure, Write, WithIncident
<1>3. run'[p].cause = c /\ run'[p].quiet = Deduplicated(p, c)
    BY DEF ReportFailure, IInv, TypeOK, Run
<1>4. /\ Stage = "open" /\ Cause' = c
      /\ Stage' = IF Deduplicated(p, c) THEN "silent" ELSE "telling"
    BY <1>1, <1>3, UnderWay, GoesOn
<1>5. Serial!HasRoom(c) /\ (Deduplicated(p, c) => Serial!Repeated(c))
    BY <1>1, HasRoomIs, DeduplicatedIsRepeated
<1> QED
    BY <1>2, <1>4, <1>5 DEF Serial!Note

LEMMA SignalSerial ==
    ASSUME IInv, NEW p \in Procs, SignalFailure(p)
    PROVE  Serial!EndFailed
<1>1. pc[p] = "incident" /\ lock' = lock /\ mem[p] = disk /\ pc'[p] = "exit"
    BY Loaded DEF SignalFailure, Exit, IInv, TypeOK
<1>2. disk' = IF run[p].quiet THEN disk ELSE [disk EXCEPT !.age[run[p].cause] = 0]
    BY <1>1 DEF SignalFailure, Write, Signalled
<1>3. /\ Stage = (IF run[p].quiet THEN "silent" ELSE "telling") /\ Cause = run[p].cause
      /\ Stage' = "none" /\ Cause' = NoCause
    BY <1>1, UnderWay, GoesOn
<1> QED
    BY <1>2, <1>3 DEF Serial!EndFailed, Serial!Close

LEMMA RaiseSerial ==
    ASSUME IInv, NEW p \in Procs, NEW c \in Causes, Raise(p, c)
    PROVE  Serial!BreakOff
<1>1. /\ pc[p] \in {"loaded", "incident"} /\ lock' = lock /\ mem[p] = disk
      /\ disk \in State /\ ~Overflow(disk, c) /\ pc'[p] = "exit"
    BY Loaded DEF Raise, Exit, IInv, TypeOK
<1>2. Stage # "none" /\ Stage' = "none" /\ Cause' = NoCause
    BY <1>1, UnderWay, GoesOn
<1>3. Serial!HasRoom(c)
    BY <1>1, HasRoomIs
<1>4. disk' = Signalled(WithIncident(disk, c), c, Deduplicated(p, c))
    BY <1>1 DEF Raise, Write
<1>5. CASE Deduplicated(p, c)
    <2>1. disk' = [disk EXCEPT !.active = @ \cup {c}]
        BY <1>4, <1>5 DEF Signalled, WithIncident
    <2>2. Serial!Repeated(c) /\ disk' = disk
        BY <1>1, <1>5, <2>1, DeduplicatedIsRepeated DEF State
    <2> QED
        BY <1>2, <1>3, <2>2 DEF Serial!BreakOff, Serial!Close
<1>6. CASE ~Deduplicated(p, c)
    <2>1. disk' = [[disk EXCEPT !.active = @ \cup {c}] EXCEPT !.age[c] = 0]
        BY <1>4, <1>6 DEF Signalled, WithIncident
    <2>2. disk' = [disk EXCEPT !.active = @ \cup {c}, !.age[c] = 0]
        BY <1>1, <2>1 DEF State
    <2> QED
        BY <1>2, <1>3, <2>2 DEF Serial!BreakOff, Serial!Close
<1> QED
    BY <1>5, <1>6

\* Loading is where a run begins; a process that ends without a record, is
\* killed or only waits for the lock ends a run or changes nothing.
LEMMA QuietSerial ==
    ASSUME IInv, NEW p \in Procs,
           \/ \E kind \in Kinds : Start(p, kind)
           \/ TakeLock(p) \/ LockBusy(p) \/ LoadState(p) \/ Release(p) \/ Kill(p)
           \/ \E c \in Causes : RaiseUnrecorded(p, c)
           \/ SucceedWithoutSync(p)
    PROVE  Serial!Next \/ UNCHANGED Serial!vars
<1> USE DEF IInv, TypeOK
<1>1. CASE LoadState(p)
    <2>1. pc[p] = "locked" /\ lock = p /\ p # Free /\ UNCHANGED <<lock, disk>>
          /\ pc'[p] = "loaded"
        BY <1>1, FreeAssumption DEF LoadState, HoldsLock
    <2>2. Stage = "none" /\ Cause = NoCause /\ Stage' = "open" /\ Cause' = NoCause
        BY <2>1, GoesOn DEF Stage, Cause
    <2> QED
        BY <2>1, <2>2 DEF Serial!Begin, Serial!Next
<1>2. CASE SucceedWithoutSync(p) \/ \E c \in Causes : RaiseUnrecorded(p, c)
    <2>1. pc[p] \in {"loaded", "incident"} /\ lock' = lock /\ pc'[p] = "exit"
          /\ disk' = disk
        BY <1>2, Loaded DEF SucceedWithoutSync, RaiseUnrecorded, Exit, Write
    <2>2. Stage # "none" /\ Stage' = "none" /\ Cause' = NoCause
        BY <2>1, UnderWay, GoesOn
    <2> QED
        BY <2>1, <2>2 DEF Serial!Vanish, Serial!Close, Serial!Next
<1>3. CASE Release(p) \/ Kill(p)
    <2>1. /\ lock' = IF lock = p THEN Free ELSE lock
          /\ disk' = disk
          /\ \A q \in Procs \ {p} : pc'[q] = pc[q] /\ run'[q] = run[q]
        BY <1>3 DEF Release, Kill
    <2>2. CASE lock = p
        <3>1. Stage' = "none" /\ Cause' = NoCause
            BY <2>1, <2>2, NoRunUnderWay
        <3>2. Stage = "none" => Cause = NoCause
            BY DEF Cause
        <3> QED
            BY <2>1, <3>1, <3>2 DEF Serial!Vanish, Serial!Close, Serial!Next, Serial!vars
    <2>3. CASE lock # p
        BY <2>1, <2>3 DEF Stage, Cause, Serial!vars
    <2> QED
        BY <2>2, <2>3
<1>4. CASE TakeLock(p)
    <2>1. lock = Free /\ lock' = p /\ pc'[p] = "locked" /\ disk' = disk
        BY <1>4 DEF TakeLock, LockTaken
    <2>2. Stage' = Stage /\ Cause' = Cause
        BY <2>1, GoesOn DEF Stage, Cause
    <2> QED
        BY <2>1, <2>2 DEF Serial!vars
<1>5. CASE LockBusy(p) \/ \E kind \in Kinds : Start(p, kind)
    <2>1. /\ pc[p] \in {"out", "started"} /\ pc'[p] \in {"out", "started"}
          /\ UNCHANGED <<lock, disk>>
          /\ \A q \in Procs \ {p} : pc'[q] = pc[q] /\ run'[q] = run[q]
        BY <1>5 DEF LockBusy, Start
    <2>2. Stage' = Stage /\ Cause' = Cause
        BY <2>1 DEF Stage, Cause
    <2> QED
        BY <2>1, <2>2 DEF Serial!vars
<1> QED
    BY <1>1, <1>2, <1>3, <1>4, <1>5

LEMMA TickSerial == Tick => Serial!Tick
<1> SUFFICES ASSUME Tick PROVE Serial!Tick
    OBVIOUS
<1>1. disk' = [disk EXCEPT !.age = [c \in Causes |-> IF @[c] < Repeat THEN @[c] + 1 ELSE Repeat]]
    BY DEF Tick, Older
<1>2. Stage' = Stage /\ Cause' = Cause
    BY DEF Tick, Stage, Cause
<1> QED
    BY <1>1, <1>2 DEF Serial!Tick

LEMMA SerialInit == Init => Serial!Init
BY DEF Init, Serial!Init, EmptyState, Serial!Never, Stage, Cause

LEMMA SerialStep ==
    ASSUME IInv, [Next]_vars
    PROVE  [Serial!Next]_(Serial!vars)
<1>1. CASE Tick
    BY <1>1, TickSerial DEF Serial!Next
<1>2. CASE \E p \in Procs : Step(p)
    <2>1. PICK p \in Procs : Step(p)
        BY <1>2
    <2> QED
        BY <2>1, CompleteSerial, SucceedSerial, ReportSerial, SignalSerial, RaiseSerial,
           QuietSerial DEF Step, Serial!Next
<1>3. CASE UNCHANGED vars
    BY <1>3 DEF vars, Serial!vars, Stage, Cause
<1> QED
    BY <1>1, <1>2, <1>3 DEF Next

\* Any number of processes that overlap, wait for the lock or are killed
\* anywhere leave the state file that runs one after the other would leave.
THEOREM ProcessesAreSerial == Spec => ImplementsSerialRuns
<1>1. IInv /\ [Next]_vars => [Serial!Next]_(Serial!vars)
    BY SerialStep
<1> QED
    BY <1>1, InvariantHolds, SerialInit, PTL DEF Spec, ImplementsSerialRuns, Serial!Spec

\* The promise keeps what is done: whoever behaves like runs that follow one
\* another undoes no notice that one of them recorded.
THEOREM SerialRunsKeepProgress == ImplementsSerialRuns => ProgressKept
<1> DEFINE Typed == disk \in [active : SUBSET Causes, age : [Causes -> Nat], done : SUBSET Notices]
<1>1. Serial!Init => Typed
    BY LimitsAssumption DEF Serial!Init, Serial!Never
<1>2. Typed /\ [Serial!Next]_(Serial!vars) => Typed' /\ disk.done \subseteq disk'.done
    <2> SUFFICES ASSUME Typed, [Serial!Next]_(Serial!vars)
                 PROVE  Typed' /\ disk.done \subseteq disk'.done
        OBVIOUS
    <2>1. CASE UNCHANGED disk
        BY <2>1
    <2>2. CASE Serial!Complete
        BY <2>2 DEF Serial!Complete
    <2>3. CASE Serial!EndWell
        BY <2>3, LimitsAssumption DEF Serial!EndWell, Serial!Never
    <2>4. CASE Serial!Note
        BY <2>4 DEF Serial!Note
    <2>5. CASE Serial!EndFailed
        BY <2>5 DEF Serial!EndFailed
    <2>6. CASE Serial!BreakOff
        <3>1. CASE \E c \in Causes : disk' = [disk EXCEPT !.active = @ \cup {c}, !.age[c] = 0]
            <4>1. PICK c \in Causes : disk' = [disk EXCEPT !.active = @ \cup {c}, !.age[c] = 0]
                BY <3>1
            <4>2. [disk.age EXCEPT ![c] = 0] \in [Causes -> Nat]
                OBVIOUS
            <4>3. disk' = [active |-> disk.active \cup {c},
                           age |-> [disk.age EXCEPT ![c] = 0], done |-> disk.done]
                BY <4>1
            <4> QED
                BY <4>2, <4>3
        <3> QED
            BY <2>1, <2>6, <3>1 DEF Serial!BreakOff
    <2>7. CASE Serial!Tick
        <3>1. [c \in Causes |-> IF disk.age[c] < Repeat THEN disk.age[c] + 1 ELSE Repeat]
                \in [Causes -> Nat]
            BY LimitsAssumption
        <3> QED
            BY <2>7, <3>1 DEF Serial!Tick
    <2> QED
        BY <2>1, <2>2, <2>3, <2>4, <2>5, <2>6, <2>7
        DEF Serial!Next, Serial!vars, Serial!Begin, Serial!Vanish
<1> HIDE DEF Typed
<1>3. ImplementsSerialRuns => [](Typed)
    BY <1>1, <1>2, PTL DEF ImplementsSerialRuns, Serial!Spec
<1>4. Typed /\ [Serial!Next]_(Serial!vars) => [disk.done \subseteq disk'.done]_vars
    BY <1>2
<1> QED
    BY <1>3, <1>4, PTL DEF ImplementsSerialRuns, Serial!Spec, ProgressKept
=============================================================================
