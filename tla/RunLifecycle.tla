------------------------------ MODULE RunLifecycle ------------------------------
(***************************************************************************)
(* One execution of the program from its lock to its exit code (main.main, *)
(* run_lock.exclusive_run_lock, the state file of run_state), and which    *)
(* failures it signals (build_incident, apply_failure_signal_policy).      *)
(* Several processes may run on one host; each may be killed at any step.  *)
(*                                                                         *)
(* What a run does between loading and recording is module ApplyRun: here  *)
(* it completes some notices and then ends well or fails for some cause.   *)
(***************************************************************************)
EXTENDS Naturals, FiniteSets

CONSTANTS
    Procs,
    Free,          \* nobody holds the lock
    Notices,
    Causes,        \* fingerprints of failures
    NoCause,
    Repeat,        \* FAILURE_REPEAT_SECONDS, in ticks of the clock
    MaxIncidents   \* active incidents that are kept at most

ASSUME FreeAssumption == Free \notin Procs
ASSUME CausesAssumption == IsFiniteSet(Causes) /\ NoCause \notin Causes
ASSUME LimitsAssumption == Repeat \in Nat \ {0} /\ MaxIncidents \in Nat \ {0}

VARIABLES
    lock,       \* the process that holds run.lock
    disk,       \* run-state.json
    mem,        \* the state each process has loaded
    run,        \* the locals of each process
    pc,
    signalled   \* ghost: age of the last signal of each cause since a recovery

vars == <<lock, disk, mem, run, pc, signalled>>

-----------------------------------------------------------------------------
\* Types

Ages == 0..Repeat   \* Repeat stands for every age from there on, and for never

\* active: fingerprints of the active incidents; age: of their signals.
State == [active : SUBSET Causes, age : [Causes -> Ages], done : SUBSET Notices]

EmptyState == [active |-> {}, age |-> [c \in Causes |-> Repeat], done |-> {}]

\* How the program was started: on schedule, again by hand for the same run,
\* by hand, by hand as a dry run, or to migrate the schema.
Kinds == {"schedule", "rerun", "manual", "dry", "schema"}

Run == [kind : Kinds, cause : Causes \cup {NoCause}, quiet : BOOLEAN, failed : BOOLEAN]

NoRun == [kind |-> "schedule", cause |-> NoCause, quiet |-> FALSE, failed |-> FALSE]

TypeOK ==
    /\ lock \in Procs \cup {Free}
    /\ disk \in State
    /\ mem \in [Procs -> State]
    /\ run \in [Procs -> Run]
    /\ pc \in [Procs -> {"out", "started", "locked", "loaded", "incident", "exit"}]
    /\ signalled \in [Causes -> Ages]
    /\ Cardinality(disk.active) <= MaxIncidents

-----------------------------------------------------------------------------
\* Incidents

Older(age) == [c \in Causes |-> IF age[c] < Repeat THEN age[c] + 1 ELSE Repeat]

\* Mutant of Overflow: the limit is looked at before the incident is added.
OverflowLate(state, c) == Cardinality(state.active) > MaxIncidents

\* There is no room for one more active incident: build_incident raises.
Overflow(state, c) == Cardinality(state.active \cup {c}) > MaxIncidents

\* build_incident.
WithIncident(state, c) == [state EXCEPT !.active = @ \cup {c}]

\* Mutant of ShouldSignal: an active incident is never signalled again.
ShouldSignalOnce(state, c) == c \notin state.active

\* The first failure of its kind, or the last signal is too long ago.
ShouldSignal(state, c) == c \notin state.active \/ state.age[c] = Repeat

\* should_deduplicate_scheduled_failure_notice.
Deduplicated(p, c) == run[p].kind = "schedule" /\ ~ShouldSignal(mem[p], c)

\* apply_failure_signal_policy: a failure that is not a repetition is marked.
Signalled(state, c, quiet) == IF quiet THEN state ELSE [state EXCEPT !.age[c] = 0]

\* Mutant of Cleared: the incidents stay.
ClearedNever(state) == state

\* clear_active_incidents.
Cleared(state) == [state EXCEPT !.active = {}, !.age = [c \in Causes |-> Repeat]]

-----------------------------------------------------------------------------
\* The lock and the state file

\* Writing the state file replaces all of it.
Write(p, state) == disk' = state /\ mem' = [mem EXCEPT ![p] = state]

Exit(p) == pc' = [pc EXCEPT ![p] = "exit"]

Start(p, kind) ==
    /\ pc[p] = "out"
    /\ run' = [run EXCEPT ![p] = [NoRun EXCEPT !.kind = kind]]
    /\ pc' = [pc EXCEPT ![p] = "started"]
    /\ UNCHANGED <<lock, disk, mem, signalled>>

\* Mutant of LockTaken: the lock is not waited for and not needed.
LockAnyway(p) == pc[p] = "started"

LockTaken(p) == pc[p] = "started" /\ lock = Free

TakeLock(p) ==
    /\ LockTaken(p)
    /\ lock' = p
    /\ pc' = [pc EXCEPT ![p] = "locked"]
    /\ UNCHANGED <<disk, mem, run, signalled>>

\* Another process runs: this one fails before it reads anything.
LockBusy(p) ==
    /\ pc[p] = "started" /\ lock # Free
    /\ run' = [run EXCEPT ![p] = NoRun]
    /\ pc' = [pc EXCEPT ![p] = "out"]
    /\ UNCHANGED <<lock, disk, mem, signalled>>

LoadState(p) ==
    /\ pc[p] = "locked"
    /\ mem' = [mem EXCEPT ![p] = disk]
    /\ pc' = [pc EXCEPT ![p] = "loaded"]
    /\ UNCHANGED <<lock, disk, run, signalled>>

Release(p) ==
    /\ pc[p] = "exit"
    /\ lock' = IF lock = p THEN Free ELSE lock
    /\ run' = [run EXCEPT ![p] = NoRun]
    /\ mem' = [mem EXCEPT ![p] = EmptyState]
    /\ pc' = [pc EXCEPT ![p] = "out"]
    /\ UNCHANGED <<disk, signalled>>

\* The kernel releases the lock of a killed process.
Kill(p) ==
    /\ pc[p] # "out"
    /\ lock' = IF lock = p THEN Free ELSE lock
    /\ run' = [run EXCEPT ![p] = NoRun]
    /\ mem' = [mem EXCEPT ![p] = EmptyState]
    /\ pc' = [pc EXCEPT ![p] = "out"]
    /\ UNCHANGED <<disk, signalled>>

-----------------------------------------------------------------------------
\* A run

Synchronises(p) == run[p].kind \in {"schedule", "rerun", "manual"}

\* checkpoint_completed_notice: the page is written, and the state with it.
CompleteNotice(p, n) ==
    /\ pc[p] = "loaded" /\ Synchronises(p)
    /\ Write(p, [mem[p] EXCEPT !.done = @ \cup {n}])
    /\ UNCHANGED <<lock, run, pc, signalled>>

\* A run without any failure to report ends all incidents.
Succeed(p) ==
    /\ pc[p] = "loaded" /\ Synchronises(p)
    /\ Write(p, Cleared(mem[p]))
    /\ signalled' = [c \in Causes |-> Repeat]
    /\ Exit(p)
    /\ UNCHANGED <<lock, run>>

\* A dry run and a migration of the schema record themselves and nothing else.
SucceedWithoutSync(p) ==
    /\ pc[p] = "loaded" /\ ~Synchronises(p)
    /\ Write(p, mem[p])
    /\ Exit(p)
    /\ UNCHANGED <<lock, run, signalled>>

Mark(c, quiet) ==
    signalled' = IF quiet THEN signalled ELSE [signalled EXCEPT ![c] = 0]

\* The run went through and reports a failure: a source that could not be read
\* safely, a blocked download, a page held again.
ReportFailure(p, c) ==
    /\ pc[p] = "loaded" /\ run[p].kind # "schema"
    /\ ~Overflow(mem[p], c)
    /\ Write(p, WithIncident(mem[p], c))
    /\ run' = [run EXCEPT ![p].cause = c, ![p].quiet = Deduplicated(p, c)]
    /\ pc' = [pc EXCEPT ![p] = "incident"]
    /\ UNCHANGED <<lock, signalled>>

SignalFailure(p) ==
    /\ pc[p] = "incident"
    /\ Write(p, Signalled(mem[p], run[p].cause, run[p].quiet))
    /\ Mark(run[p].cause, run[p].quiet)
    /\ run' = [run EXCEPT ![p].failed = TRUE]
    /\ Exit(p)
    /\ UNCHANGED lock

\* An exception anywhere in the run (persist_failed_run).
Raise(p, c) ==
    /\ pc[p] \in {"loaded", "incident"}
    /\ ~Overflow(mem[p], c)
    /\ Write(p, Signalled(WithIncident(mem[p], c), c, Deduplicated(p, c)))
    /\ Mark(c, Deduplicated(p, c))
    /\ run' = [run EXCEPT ![p].cause = c, ![p].quiet = Deduplicated(p, c),
                          ![p].failed = TRUE]
    /\ Exit(p)
    /\ UNCHANGED lock

\* The incident of the failure does not fit: the run fails without a trace.
RaiseUnrecorded(p, c) ==
    /\ pc[p] \in {"loaded", "incident"}
    /\ Overflow(mem[p], c)
    /\ run' = [run EXCEPT ![p].cause = c, ![p].quiet = FALSE, ![p].failed = TRUE]
    /\ Exit(p)
    /\ UNCHANGED <<lock, disk, mem, signalled>>

Tick ==
    /\ disk' = [disk EXCEPT !.age = Older(@)]
    /\ mem' = [p \in Procs |-> [mem[p] EXCEPT !.age = Older(@)]]
    /\ signalled' = Older(signalled)
    /\ UNCHANGED <<lock, run, pc>>

-----------------------------------------------------------------------------
Init ==
    /\ lock = Free
    /\ disk = EmptyState
    /\ mem = [p \in Procs |-> EmptyState]
    /\ run = [p \in Procs |-> NoRun]
    /\ pc = [p \in Procs |-> "out"]
    /\ signalled = [c \in Causes |-> Repeat]

Step(p) ==
    \/ \E kind \in Kinds : Start(p, kind)
    \/ TakeLock(p) \/ LockBusy(p) \/ LoadState(p) \/ Release(p) \/ Kill(p)
    \/ \E n \in Notices : CompleteNotice(p, n)
    \/ Succeed(p) \/ SucceedWithoutSync(p)
    \/ \E c \in Causes : ReportFailure(p, c) \/ Raise(p, c) \/ RaiseUnrecorded(p, c)
    \/ SignalFailure(p)

Next == Tick \/ \E p \in Procs : Step(p)

Spec == Init /\ [][Next]_vars

\* Time passes, and no process stands still: it goes on or is killed.
FairSpec == Spec /\ WF_vars(Tick) /\ \A p \in Procs : WF_vars(Step(p))

-----------------------------------------------------------------------------
\* Properties

\* run_lock.py:26: two processes that start together do not undo each other's
\* work: what one has recorded as done stays recorded.
ProgressKept == [][disk.done \subseteq disk'.done]_vars

\* The run under way as SerialRuns sees it: that of the process that holds the
\* lock and has loaded the state.
Stage ==
    IF lock = Free THEN "none"
    ELSE IF pc[lock] = "loaded" THEN "open"
    ELSE IF pc[lock] = "incident" THEN (IF run[lock].quiet THEN "silent" ELSE "telling")
    ELSE "none"

Cause == IF Stage \in {"silent", "telling"} THEN run[lock].cause ELSE NoCause

Serial == INSTANCE SerialRuns WITH book <- disk, stage <- Stage, cause <- Cause

\* run_lock.py:26: however the processes of a host overlap and wherever one is
\* killed, the state file is that of runs that followed one another: each
\* starts from all the others recorded, and adds to it.
ImplementsSerialRuns == Serial!Spec

\* main.py:790: a scheduled run passes over a failure only if the same failure
\* was signalled less than the interval ago and no run has gone well since.
QuietOnlyAfterSignal ==
    [][\A p \in Procs : run'[p].quiet /\ ~run[p].quiet
                           => signalled[run'[p].cause] < Repeat]_vars

Fails(c) == \E p \in Procs : run[p].failed /\ run[p].cause = c
FailsLoudly(c) == \E p \in Procs : run[p].failed /\ run[p].cause = c /\ ~run[p].quiet

\* run_state.py:1715: a failure that goes on is signalled again and again.
SignalsGoOn == \A c \in Causes : []<>Fails(c) => []<>FailsLoudly(c)
=============================================================================
