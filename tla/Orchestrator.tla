---------------------------- MODULE Orchestrator ----------------------------
(***************************************************************************)
(* The CLI side: Orchestrator.Run and revertAtTTL                          *)
(* (pkg/orchestrator/lifecycle.go) under `run' and `suite'                 *)
(* (internal/cli/run.go, suite.go), with the in-process lock               *)
(* (pkg/safety/mutex.go) or, with --distributed-lock, with Leases.         *)
(*                                                                         *)
(* Every blocking call and every wait is a step.  Time is discrete.  A     *)
(* wait ends when its timer fires or its context is done; a call takes     *)
(* from no time up to a bound (Latency, CleanupTimeout), and ends at once  *)
(* when its context is done.  `lock' abstracts a Lease to its holder and   *)
(* its end, which LeaseLock justifies; the in-process lock is modelled as  *)
(* it is.                                                                  *)
(***************************************************************************)
EXTENDS Integers, FiniteSets

CONSTANTS NumRuns,      \* experiment files, in the order of the suite
          Parallel,     \* --parallel; 1 is sequential
          Cooldown,     \* --cooldown
          Names, NameOf,
          Operators, OperatorOf,
          TTL,          \* spec.injection.ttl, 0 when unset
          RecoveryTimeout,
          Timeout,      \* --timeout
          Distributed,  \* --distributed-lock
          Free,         \* no holder
          DefaultLeaseDuration, CleanupTimeout, RetryInterval, RetryAllowance,
          Latency,      \* bound of a call
          LastStart,    \* from then on a run whose turn it is begins at once
          MaxTime,      \* bound of the clock
          MaxFailures   \* bound of failing calls and killed processes

Runs == 1..NumRuns

ASSUME OrchestratorAssumption ==
    /\ NumRuns \in Nat /\ Parallel \in Nat \ {0} /\ Cooldown \in Nat
    /\ NameOf \in [Runs -> Names] /\ OperatorOf \in [Runs -> Operators]
    /\ TTL \in [Runs -> Nat] /\ RecoveryTimeout \in [Runs -> Nat \ {0}]
    /\ Timeout \in Nat /\ Distributed \in BOOLEAN /\ Free \notin Names
    /\ DefaultLeaseDuration \in Nat /\ CleanupTimeout \in Nat
    /\ RetryInterval \in Nat /\ RetryAllowance \in Nat /\ Latency \in Nat
    /\ LastStart \in Nat /\ MaxTime \in Nat /\ MaxFailures \in Nat

VARIABLES now,         \* the clock
          run,         \* the progress of each run
          lock,        \* the lock of each operator
          faults,      \* the runs whose injection is in place
          interrupted, \* SIGINT or SIGTERM cancelled the command's context
          budget       \* failures left

vars == <<now, run, lock, faults, interrupted, budget>>

-----------------------------------------------------------------------------
Waits == {"ttl", "retry", "recover", "observe"}
Calls == {"validate", "acquire", "precheck", "inject", "cleanup", "renew_retry",
          "renew_reverted", "postcheck", "deferred_cleanup", "release"}
Ended == {"done", "killed"}
Steps == {"queued"} \cup Waits \cup Calls \cup Ended

Progress == [pc : Steps,
             since : Nat,           \* when the step began
             began : Nat,           \* when the run's context was created
             armed : BOOLEAN,       \* the deferred cleanup has something to do
             cleared : Nat,         \* when revertAtTTL removed the fault
             cleanups : Nat,        \* how often cleanup succeeded
             outcome : {"none", "skip", "fail", "verdict", "dropped"},
             cleanupError : BOOLEAN,
             partial : BOOLEAN]     \* InjectFault failed after taking effect

Locks == [holder : Names \cup {Free}, dur : Nat, until : Nat]
Unlocked == [holder |-> Free, dur |-> 0, until |-> 0]

TypeOK ==
    /\ now \in Nat
    /\ run \in [Runs -> Progress]
    /\ lock \in [Operators -> Locks]
    /\ faults \subseteq Runs
    /\ interrupted \in BOOLEAN
    /\ budget \in Nat

pc(r) == run[r].pc
Op(r) == OperatorOf[r]

\* Definitions named after a slip are faulty variants of the one that follows.
\* The run's context: it is derived from the command's and has a deadline.
CtxDone(r) == interrupted \/ now >= run[r].began + Timeout

\* The steps whose call or wait the run's context ends.
UnderCtx == Waits \cup {"validate", "acquire", "precheck", "inject", "cleanup",
                        "renew_retry", "renew_reverted", "postcheck"}

Elapsed(r, d) == now >= run[r].since + d

Goto(r, step) == run' = [run EXCEPT ![r] = [@ EXCEPT !.pc = step, !.since = now]]

Spend == budget > 0 /\ budget' = budget - 1

\* A call fails because its context is done, or for a reason of its own.
Fails(r) == \/ CtxDone(r) /\ UNCHANGED budget
            \/ Spend

Init ==
    /\ now = 0
    /\ run = [r \in Runs |->
                [pc |-> "queued", since |-> 0, began |-> 0, armed |-> FALSE,
                 cleared |-> 0, cleanups |-> 0, outcome |-> "none",
                 cleanupError |-> FALSE, partial |-> FALSE]]
    /\ lock = [op \in Operators |-> Unlocked]
    /\ faults = {}
    /\ interrupted = FALSE
    /\ budget = MaxFailures

-----------------------------------------------------------------------------
(* runSequential, runParallel and runSingleExperiment up to Run *)

Running == {r \in Runs : pc(r) \notin {"queued"} \cup Ended}

\* runSequential takes the files in order, with a cooldown after each one that
\* was not skipped; runParallel has a semaphore.
Turn(r) ==
    IF Parallel = 1
    THEN /\ \A s \in 1..(r - 1) : pc(s) \in Ended
         /\ r > 1 => \/ run[r - 1].outcome = "skip"
                     \/ run[r - 1].outcome # "dropped" /\ Elapsed(r - 1, Cooldown)
    ELSE Cardinality(Running) < Parallel

\* validateRunDuration: TTL, recovery window and post-check have to fit.
FitsTimeoutNoAllowance(r) == TTL[r] + 2 * RecoveryTimeout[r] < Timeout
FitsTimeout(r) ==
    TTL[r] + 2 * RecoveryTimeout[r] + (IF TTL[r] > 0 THEN RetryAllowance ELSE 0) < Timeout

Close(r, outcome) ==
    run' = [run EXCEPT ![r] = [@ EXCEPT !.pc = "done", !.since = now, !.outcome = outcome]]

\* The file is not loadable or not valid, its tier is too high, it is a dry
\* run (which need not fit the timeout), or it does not fit the timeout.
Reject(r) ==
    /\ pc(r) = "queued"
    /\ Turn(r)
    /\ \/ Close(r, "skip")
       \/ ~FitsTimeout(r) /\ Close(r, "fail")
    /\ UNCHANGED <<now, lock, faults, interrupted, budget>>

Begin(r) ==
    /\ pc(r) = "queued"
    /\ Turn(r)
    /\ FitsTimeout(r)
    /\ run' = [run EXCEPT ![r] = [@ EXCEPT !.pc = "validate", !.since = now, !.began = now]]
    /\ UNCHANGED <<now, lock, faults, interrupted, budget>>

\* An interrupt during the cooldown drops the remaining files.
Drop(r) ==
    /\ pc(r) = "queued"
    /\ Parallel = 1 /\ r > 1
    /\ interrupted
    /\ \/ run[r - 1].outcome = "dropped"
       \/ pc(r - 1) \in Ended /\ run[r - 1].outcome # "skip" /\ Cooldown > 0
    /\ Close(r, "dropped")
    /\ UNCHANGED <<now, lock, faults, interrupted, budget>>

-----------------------------------------------------------------------------
(* Run up to the injection *)

Validated(r) ==
    /\ pc(r) = "validate"
    /\ Goto(r, "acquire")
    /\ UNCHANGED <<now, lock, faults, interrupted, budget>>

\* Validation fails, or the manifest asks for a dry run, which is counted as
\* skipped.
ValidationFailed(r) ==
    /\ pc(r) = "validate"
    /\ Close(r, "fail") \/ Close(r, "skip")
    /\ UNCHANGED <<now, lock, faults, interrupted, budget>>

LeaseDurationNoTTL(r) ==
    LET d == 2 * RecoveryTimeout[r]
    IN  IF d > DefaultLeaseDuration THEN d ELSE DefaultLeaseDuration

\* The lease has to outlast the TTL and twice the recovery timeout.
LeaseDuration(r) ==
    LET d == TTL[r] + 2 * RecoveryTimeout[r]
    IN  IF d > DefaultLeaseDuration THEN d ELSE DefaultLeaseDuration

\* The in-process lock has no expiry and ignores the context.
Expired(op) == Distributed /\ now > lock[op].until
LockAnswers(r) == Distributed => ~CtxDone(r)

AcquiredByAnyone(r) ==
    /\ pc(r) = "acquire"
    /\ LockAnswers(r)
    /\ lock' = [lock EXCEPT ![Op(r)] = [holder |-> NameOf[r], dur |-> LeaseDuration(r),
                                        until |-> now + LeaseDuration(r)]]
    /\ Goto(r, "precheck")
    /\ UNCHANGED <<now, faults, interrupted, budget>>

Acquired(r) ==
    /\ pc(r) = "acquire"
    /\ LockAnswers(r)
    /\ \/ /\ lock[Op(r)].holder = NameOf[r]
          /\ UNCHANGED lock
       \/ /\ lock[Op(r)].holder # NameOf[r]
          /\ lock[Op(r)].holder = Free \/ Expired(Op(r))
          /\ lock' = [lock EXCEPT ![Op(r)] = [holder |-> NameOf[r], dur |-> LeaseDuration(r),
                                              until |-> now + LeaseDuration(r)]]
    /\ Goto(r, "precheck")
    /\ UNCHANGED <<now, faults, interrupted, budget>>

\* The run gives up; it does not wait for the lock.
AcquireFailed(r) ==
    /\ pc(r) = "acquire"
    /\ \/ /\ lock[Op(r)].holder \notin {Free, NameOf[r]}
          /\ ~Expired(Op(r))
          /\ UNCHANGED budget
       \/ Distributed /\ Fails(r)
    /\ Close(r, "fail")
    /\ UNCHANGED <<now, lock, faults, interrupted>>

\* An experiment without checks passes even if its context is done.
PreCheckPassed(r) ==
    /\ pc(r) = "precheck"
    /\ Goto(r, "inject")
    /\ UNCHANGED <<now, lock, faults, interrupted, budget>>

\* Every return after Acquire runs the deferred functions.
Abort(r) == run' = [run EXCEPT ![r] = [@ EXCEPT !.pc = "deferred_cleanup", !.since = now,
                                               !.outcome = "fail"]]
PreCheckFailed(r) ==
    /\ pc(r) = "precheck"
    /\ Abort(r)
    /\ UNCHANGED <<now, lock, faults, interrupted, budget>>

Injected(r) ==
    /\ pc(r) = "inject"
    /\ faults' = faults \cup {r}
    /\ run' = [run EXCEPT ![r] = [@ EXCEPT !.pc = IF TTL[r] > 0 THEN "ttl" ELSE "observe",
                                           !.since = now, !.armed = TRUE]]
    /\ UNCHANGED <<now, lock, interrupted, budget>>

\* A failing injection may have taken effect, in part or with its answer lost;
\* there is no cleanup for it.
InjectFailed(r) ==
    /\ pc(r) = "inject"
    /\ Fails(r)
    /\ \E effect \in BOOLEAN :
         /\ faults' = IF effect THEN faults \cup {r} ELSE faults
         /\ run' = [run EXCEPT ![r] = [@ EXCEPT !.pc = "deferred_cleanup", !.since = now,
                                                !.outcome = "fail", !.partial = effect]]
    /\ UNCHANGED <<now, lock, interrupted>>

-----------------------------------------------------------------------------
(* revertAtTTL *)

TTLElapsed(r) ==
    /\ pc(r) = "ttl"
    /\ Elapsed(r, TTL[r])
    /\ Goto(r, "cleanup")
    /\ UNCHANGED <<now, lock, faults, interrupted, budget>>

\* ctx.Done in a select; it may be chosen although the timer has fired too.
WaitCancelled(r) ==
    /\ pc(r) \in Waits
    /\ CtxDone(r)
    /\ Abort(r)
    /\ UNCHANGED <<now, lock, faults, interrupted, budget>>

\* The cleanup is consumed: the deferred one has nothing to do.  Some cleanups
\* do not look at their context.
Reverted(r) ==
    /\ pc(r) = "cleanup"
    /\ faults' = faults \ {r}
    /\ run' = [run EXCEPT ![r] = [@ EXCEPT !.pc = "renew_reverted", !.since = now,
                                           !.cleared = now, !.cleanups = run[r].cleanups + 1,
                                           !.armed = FALSE]]
    /\ UNCHANGED <<now, lock, interrupted, budget>>

RevertFailedIgnored(r) ==
    /\ pc(r) = "cleanup"
    /\ Fails(r)
    /\ faults' \in {faults, faults \ {r}}
    /\ Goto(r, "renew_reverted")
    /\ UNCHANGED <<now, lock, interrupted>>

RevertFailed(r) ==
    /\ pc(r) = "cleanup"
    /\ Fails(r)
    /\ faults' \in {faults, faults \ {r}}
    /\ Goto(r, "renew_retry")
    /\ UNCHANGED <<now, lock, interrupted>>

Owns(r) == lock[Op(r)].holder = NameOf[r]

RenewNextNoWindow(r) == IF pc(r) = "renew_retry" THEN "retry" ELSE "postcheck"

\* The renewal after the revert is best effort, the one before a retry is not.
RenewNext(r) == IF pc(r) = "renew_retry" THEN "retry" ELSE "recover"

Renewed(r) ==
    /\ pc(r) \in {"renew_retry", "renew_reverted"}
    /\ LockAnswers(r)
    /\ Owns(r)
    /\ lock' = [lock EXCEPT ![Op(r)].until = IF Distributed THEN now + lock[Op(r)].dur ELSE @]
    /\ Goto(r, RenewNext(r))
    /\ UNCHANGED <<now, faults, interrupted, budget>>

RenewFailed(r) ==
    /\ pc(r) \in {"renew_retry", "renew_reverted"}
    /\ \/ ~Owns(r) /\ UNCHANGED budget
       \/ Distributed /\ Fails(r)
    /\ IF pc(r) = "renew_retry" THEN Abort(r) ELSE Goto(r, "recover")
    /\ UNCHANGED <<now, lock, faults, interrupted>>

RetryElapsed(r) ==
    /\ pc(r) = "retry"
    /\ Elapsed(r, RetryInterval)
    /\ Goto(r, "cleanup")
    /\ UNCHANGED <<now, lock, faults, interrupted, budget>>

-----------------------------------------------------------------------------
(* Run after the observation *)

\* With a TTL the recovery window begins with the revert, without one it
\* begins with the injection.
RecoveryElapsed(r) ==
    /\ pc(r) \in {"recover", "observe"}
    /\ Elapsed(r, RecoveryTimeout[r])
    /\ Goto(r, "postcheck")
    /\ UNCHANGED <<now, lock, faults, interrupted, budget>>

\* RunPostCheck polls for up to the recovery timeout and never fails, also
\* when its context is done; evaluation and reports follow.
Judged(r) ==
    /\ pc(r) = "postcheck"
    /\ run' = [run EXCEPT ![r] = [@ EXCEPT !.pc = "deferred_cleanup", !.since = now,
                                           !.outcome = "verdict"]]
    /\ UNCHANGED <<now, lock, faults, interrupted, budget>>

\* The deferred cleanup has a context of its own.
DeferredCleanup(r) ==
    /\ pc(r) = "deferred_cleanup"
    /\ run[r].armed
    /\ \/ /\ faults' = faults \ {r}
          /\ run' = [run EXCEPT ![r] = [@ EXCEPT !.pc = "release", !.since = now,
                                                 !.cleanups = run[r].cleanups + 1]]
          /\ UNCHANGED budget
       \/ /\ Spend
          /\ faults' \in {faults, faults \ {r}}
          /\ run' = [run EXCEPT ![r] = [@ EXCEPT !.pc = "release", !.since = now,
                                                 !.cleanupError = TRUE]]
    /\ UNCHANGED <<now, lock, interrupted>>

NothingToCleanUnchecked(r) ==
    /\ pc(r) = "deferred_cleanup"
    /\ Goto(r, "release")
    /\ UNCHANGED <<now, lock, faults, interrupted, budget>>

NothingToClean(r) ==
    /\ pc(r) = "deferred_cleanup"
    /\ ~run[r].armed
    /\ Goto(r, "release")
    /\ UNCHANGED <<now, lock, faults, interrupted, budget>>

ReleasedNotDeferred(r) ==
    /\ pc(r) = "release"
    /\ lock' = IF Owns(r) /\ run[r].outcome = "verdict"
               THEN [lock EXCEPT ![Op(r)] = Unlocked] ELSE lock
    /\ Close(r, run[r].outcome)
    /\ UNCHANGED <<now, faults, interrupted, budget>>

\* The deferred Release, which only removes the run's own lock.
Released(r) ==
    /\ pc(r) = "release"
    /\ \/ /\ lock' = IF Owns(r) THEN [lock EXCEPT ![Op(r)] = Unlocked] ELSE lock
          /\ UNCHANGED budget
       \/ /\ Distributed /\ Spend
          /\ UNCHANGED lock
    /\ Close(r, run[r].outcome)
    /\ UNCHANGED <<now, faults, interrupted>>

-----------------------------------------------------------------------------
(* Environment *)

Interrupt ==
    /\ ~interrupted
    /\ interrupted' = TRUE
    /\ UNCHANGED <<now, run, lock, faults, budget>>

\* The process of r is killed; runs that share Leases are processes of
\* their own.
Kill(r) ==
    /\ Distributed
    /\ r \in Running
    /\ Spend
    /\ Goto(r, "killed")
    /\ UNCHANGED <<now, lock, faults, interrupted>>

\* How long the step of r can last.
Longest(r) ==
    CASE pc(r) = "ttl" -> TTL[r]
      [] pc(r) = "retry" -> RetryInterval
      [] pc(r) \in {"recover", "observe"} -> RecoveryTimeout[r]
      [] pc(r) = "postcheck" -> RecoveryTimeout[r]
      [] pc(r) \in {"cleanup", "deferred_cleanup"} -> CleanupTimeout
      [] OTHER -> Latency

Tick ==
    /\ now < MaxTime
    /\ \E r \in Runs : pc(r) \notin Ended
    /\ \A r \in Running : /\ ~Elapsed(r, Longest(r))
                          /\ ~(pc(r) \in UnderCtx /\ CtxDone(r))
    /\ now >= LastStart => \A r \in Runs : pc(r) = "queued" => ~Turn(r)
    /\ now' = now + 1
    /\ UNCHANGED <<run, lock, faults, interrupted, budget>>

Step(r) ==
    \/ Reject(r) \/ Begin(r) \/ Drop(r)
    \/ Validated(r) \/ ValidationFailed(r) \/ Acquired(r) \/ AcquireFailed(r)
    \/ PreCheckPassed(r) \/ PreCheckFailed(r) \/ Injected(r) \/ InjectFailed(r)
    \/ TTLElapsed(r) \/ WaitCancelled(r) \/ Reverted(r) \/ RevertFailed(r)
    \/ Renewed(r) \/ RenewFailed(r) \/ RetryElapsed(r)
    \/ RecoveryElapsed(r) \/ Judged(r)
    \/ DeferredCleanup(r) \/ NothingToClean(r) \/ Released(r)

Next ==
    \/ \E r \in Runs : Step(r) \/ Kill(r)
    \/ Interrupt
    \/ Tick

Spec == Init /\ [][Next]_vars

\* Goroutines that can run do, and time passes.
FairSpec == Spec /\ WF_vars(Tick) /\ \A r \in Runs : WF_vars(Step(r))

-----------------------------------------------------------------------------
(* Properties *)

Covered(r) == Owns(r) /\ ~Expired(Op(r))

\* Steps between Acquire and Release; those before and after the fault.
Holding == {"precheck", "inject", "release", "deferred_cleanup"} \cup Waits \cup
           {"cleanup", "renew_retry", "renew_reverted", "postcheck"}
Faulty == {"ttl", "cleanup", "renew_retry", "retry", "observe"}
Clear == {"renew_reverted", "recover"}

\* The inductive invariant of a run: the cleanup is armed exactly as long as
\* the fault may be in place, a fault that outlives the deferred cleanup is
\* accounted for, and after the revert the clock of the recovery window runs.
Accounted(r) ==
    LET p == run[r]
    IN  /\ p.pc \in Faulty => p.armed /\ p.cleanups = 0
        /\ p.pc \in Clear => ~p.armed /\ p.cleared <= p.since
        /\ p.pc \in {"queued", "validate", "acquire", "precheck", "inject"} =>
              ~p.armed /\ p.cleanups = 0
        /\ p.pc = "observe" => TTL[r] = 0
        /\ p.pc \in {"postcheck", "deferred_cleanup"} =>
              IF p.armed THEN p.cleanups = 0 ELSE p.cleanups <= 1
        /\ p.pc = "postcheck" /\ TTL[r] > 0 =>
              ~p.armed /\ p.since >= p.cleared + RecoveryTimeout[r]
        /\ p.cleanups <= 1
        /\ p.since <= now
        /\ r \in faults => \/ p.pc = "killed"
                           \/ p.pc \in Faulty \cup {"postcheck", "deferred_cleanup"} /\ p.armed
                           \/ p.pc = "deferred_cleanup" /\ p.partial
                           \/ p.pc \in {"release", "done"} /\ (p.cleanupError \/ p.partial)
RunInv == TypeOK /\ \A r \in Runs : Accounted(r)

\* The in-process lock belongs to every run between its Acquire and its
\* Release.
LocalHeld == \A r \in Runs : pc(r) \in Holding => Owns(r)

DistinctNames == \A r, s \in Runs : NameOf[r] = NameOf[s] => r = s

\* "A lease of only 2x recoveryTimeout would expire mid-run": as long as the
\* fault of a run that is under way is in place, its operator is locked for
\* it, through failing reverts, cancelled contexts and failing renewals.
FaultUnderLock == \A r \in faults : pc(r) \notin Ended => Covered(r)

\* No two runs have faults in one operator at the same time (mutex.go:
\* "prevents concurrent experiments from running against the same operator").
OneFaultPerOperator ==
    \A r, s \in faults \cap Running : Op(r) = Op(s) => r = s

\* A run that has returned has removed its fault, or says so (CleanupError),
\* or had its injection fail.
CleanedUp == \A r \in faults : pc(r) = "done" => run[r].cleanupError \/ run[r].partial

\* "The deferred cleanup must not run a second time."
CleanedOnce == \A r \in Runs : run[r].cleanups <= 1

\* A TTL-bearing fault is gone, and has been for a full recovery window, when
\* the post-check begins; no verdict is passed on any other terms.
JudgedRecovered ==
    \A r \in Runs : TTL[r] > 0 /\ pc(r) = "postcheck" =>
        /\ r \notin faults
        /\ run[r].since >= run[r].cleared + RecoveryTimeout[r]

\* A run that validateRunDuration let through does not run into its timeout
\* before its verdict, if no call failed, calls take no time to speak of and
\* nobody interrupts it.
TimeoutSuffices ==
    \A r \in Running : ~interrupted /\ budget = MaxFailures /\ pc(r) \in UnderCtx
                        => ~CtxDone(r)

\* The lock of an operator as its runs see it: they rely on it from Acquire to
\* Release, as long as it is live.
Inside(op) == {r \in Running : /\ Op(r) = op
                               /\ pc(r) \notin {"validate", "acquire"}
                               /\ Covered(r)}
LockOf(op) == INSTANCE ExperimentLock
                  WITH owner <- IF Expired(op) THEN Free ELSE lock[op].holder,
                       inside <- Inside(op)

\* Both locks, as Run uses them, keep the promise of ExperimentLock.
LocksKept ==
    /\ \A op \in Operators : LockOf(op)!LockInit
    /\ [][\A op \in Operators :
            LockOf(op)!LockNext \/ UNCHANGED LockOf(op)!lockVars]_vars

\* Every run returns (or is killed), and the in-process lock ends up free.
AllReturn == <>[](/\ \A r \in Runs : pc(r) \in Ended
                  /\ ~Distributed => \A op \in Operators : lock[op] = Unlocked)
=============================================================================
