------------------------- MODULE OrchestratorProofs -------------------------
(***************************************************************************)
(* Proofs about Orchestrator, for any number of runs, any durations and    *)
(* either lock: a run accounts for its fault at every step (RunInv); with  *)
(* distinct names a fault is always under its lock, the in-process one or  *)
(* a Lease that is long enough (LeaseInv); a run whose duration was        *)
(* validated does not time out (TimeInv); and the locks of the operators   *)
(* implement ExperimentLock.                                               *)
(***************************************************************************)
EXTENDS Orchestrator, TLAPS

USE DEF Runs

LEMMA InitInv == Init => RunInv
<1>. SUFFICES ASSUME Init PROVE RunInv
  OBVIOUS
<1>1. TypeOK
  <2>1. run \in [Runs -> Progress]
    BY DEF Init, Progress, Steps
  <2>2. lock \in [Operators -> Locks]
    BY DEF Init, Locks, Unlocked
  <2>. QED BY <2>1, <2>2, OrchestratorAssumption DEF Init, TypeOK
<1>2. ASSUME NEW r \in Runs PROVE Accounted(r)
  <2>1. /\ run[r].pc = "queued" /\ run[r].since = 0 /\ run[r].armed = FALSE
        /\ run[r].cleanups = 0 /\ now = 0 /\ faults = {}
    BY DEF Init
  <2>. QED BY <2>1 DEF Accounted, Faulty, Clear
<1>. QED BY <1>1, <1>2 DEF RunInv

LEMMA Typed ==
  ASSUME RunInv, NEW r \in Runs
  PROVE  /\ now \in Nat /\ run[r] \in Progress
         /\ run[r].pc \in Steps /\ run[r].since \in Nat /\ run[r].armed \in BOOLEAN
         /\ run[r].cleared \in Nat /\ run[r].cleanups \in Nat
         /\ run[r].cleanupError \in BOOLEAN /\ run[r].partial \in BOOLEAN
         /\ run[r].since <= now /\ run[r].cleanups <= 1
  BY DEF RunInv, TypeOK, Progress, Accounted

LEMMA SpendType == ASSUME RunInv, Spend PROVE budget' \in Nat
  BY DEF RunInv, TypeOK, Spend

LEMMA FailsType == ASSUME RunInv, NEW r \in Runs, Fails(r) PROVE budget' \in Nat
  BY SpendType DEF Fails, RunInv, TypeOK

\* What is left to show of a run that has its fault in place, is about to be
\* judged, or is about to return.
LEMMA FaultyAccounted ==
  ASSUME NEW r \in Runs, run'[r].pc \in Faulty, run'[r].pc = "observe" => TTL[r] = 0,
         run'[r].armed, run'[r].cleanups = 0, run'[r].since <= now'
  PROVE  Accounted(r)'
  BY DEF Accounted, Faulty, Clear

LEMMA PostCheckAccounted ==
  ASSUME NEW r \in Runs, run'[r].pc = "postcheck", run'[r].since <= now',
         run'[r].cleanups <= 1, run'[r].armed => run'[r].cleanups = 0,
         r \in faults' => run'[r].armed,
         TTL[r] > 0 => ~run'[r].armed /\ run'[r].since >= run'[r].cleared + RecoveryTimeout[r]
  PROVE  Accounted(r)'
  BY DEF Accounted, Faulty, Clear

LEMMA DeferredAccounted ==
  ASSUME NEW r \in Runs, run'[r].pc = "deferred_cleanup", run'[r].since <= now',
         run'[r].cleanups <= 1, run'[r].armed => run'[r].cleanups = 0,
         r \in faults' => run'[r].armed \/ run'[r].partial
  PROVE  Accounted(r)'
  BY DEF Accounted, Faulty, Clear

LEMMA ClearAccounted ==
  ASSUME NEW r \in Runs, run'[r].pc \in Clear, run'[r].since <= now',
         run'[r].cleanups <= 1, ~run'[r].armed, run'[r].cleared <= run'[r].since,
         r \notin faults'
  PROVE  Accounted(r)'
  BY DEF Accounted, Faulty, Clear

-----------------------------------------------------------------------------
(* A step of one run *)

\* The step is one of r, of the right type.
Moved(r) == /\ run' \in [Runs -> Progress]
            /\ \A s \in Runs : s # r => run'[s] = run[s]

\* It brings r to `step' and leaves alone what the invariant is about.
Keeps(r, step) ==
    /\ Moved(r)
    /\ run'[r].pc = step /\ run'[r].since = now
    /\ run'[r].armed = run[r].armed /\ run'[r].cleared = run[r].cleared
    /\ run'[r].cleanups = run[r].cleanups
    /\ run'[r].cleanupError = run[r].cleanupError /\ run'[r].partial = run[r].partial

LEMMA OneRun ==
  ASSUME RunInv, NEW r \in Runs, Moved(r),
         lock' \in [Operators -> Locks],
         faults' \subseteq Runs,
         \A s \in Runs : s # r => (s \in faults' <=> s \in faults),
         now' = now, interrupted' \in BOOLEAN, budget' \in Nat,
         Accounted(r)'
  PROVE  RunInv'
<1>1. TypeOK'
  BY DEF RunInv, TypeOK, Moved
<1>2. ASSUME NEW s \in Runs, s # r PROVE Accounted(s)'
  <2>1. run'[s] = run[s]
    BY <1>2 DEF Moved
  <2>2. Accounted(s)
    BY DEF RunInv
  <2>. QED BY <2>1, <2>2, <1>2 DEF Accounted
<1>. QED BY <1>1, <1>2 DEF RunInv

LEMMA MovedTo ==
  ASSUME RunInv, NEW r \in Runs, NEW p \in Progress, run' = [run EXCEPT ![r] = p]
  PROVE  Moved(r) /\ run'[r] = p
  BY DEF RunInv, TypeOK, Moved

LEMMA GotoKeeps ==
  ASSUME RunInv, NEW r \in Runs, NEW step \in Steps, Goto(r, step)
  PROVE  Keeps(r, step)
<1>. DEFINE p == [run[r] EXCEPT !.pc = step, !.since = now]
<1>1. p \in Progress
  BY Typed DEF Progress, Steps, Calls, Ended
<1>2. run' = [run EXCEPT ![r] = p]
  BY DEF Goto
<1>3. Moved(r) /\ run'[r] = p
  BY <1>1, <1>2, MovedTo
<1>. QED BY <1>3, Typed DEF Keeps, Progress

LEMMA CloseKeeps ==
  ASSUME RunInv, NEW r \in Runs, 
         NEW outcome \in {"none", "skip", "fail", "verdict", "dropped"}, Close(r, outcome)
  PROVE  Keeps(r, "done")
<1>. DEFINE p == [run[r] EXCEPT !.pc = "done", !.since = now, !.outcome = outcome]
<1>1. p \in Progress
  BY Typed DEF Progress, Steps, Calls, Ended
<1>2. run' = [run EXCEPT ![r] = p]
  BY DEF Close
<1>3. Moved(r) /\ run'[r] = p
  BY <1>1, <1>2, MovedTo
<1>. QED BY <1>3, Typed DEF Keeps, Progress

LEMMA AbortKeeps ==
  ASSUME RunInv, NEW r \in Runs, Abort(r)
  PROVE  Keeps(r, "deferred_cleanup")
<1>. DEFINE p == [run[r] EXCEPT !.pc = "deferred_cleanup", !.since = now, !.outcome = "fail"]
<1>1. p \in Progress
  BY Typed DEF Progress, Steps, Calls, Ended
<1>2. run' = [run EXCEPT ![r] = p]
  BY DEF Abort
<1>3. Moved(r) /\ run'[r] = p
  BY <1>1, <1>2, MovedTo
<1>. QED BY <1>3, Typed DEF Keeps, Progress

\* A lock that Acquire writes is one.
LEMMA LeaseType ==
  ASSUME RunInv, NEW r \in Runs
  PROVE  /\ [holder |-> NameOf[r], dur |-> LeaseDuration(r),
             until |-> now + LeaseDuration(r)] \in Locks
         /\ Op(r) \in Operators
<1>1. LeaseDuration(r) \in Nat
  <2>1. TTL[r] \in Nat /\ RecoveryTimeout[r] \in Nat /\ DefaultLeaseDuration \in Nat
    BY OrchestratorAssumption
  <2>. QED BY <2>1 DEF LeaseDuration
<1>2. NameOf[r] \in Names /\ Op(r) \in Operators
  BY OrchestratorAssumption DEF Op
<1>. QED BY <1>1, <1>2, Typed DEF Locks

LEMMA RetryAccounted ==
  ASSUME RunInv, NEW r \in Runs, Keeps(r, "retry"), run[r].pc = "renew_retry", now' = now
  PROVE  Accounted(r)'
<1>1. run[r].armed /\ run[r].cleanups = 0
  BY Typed DEF RunInv, Accounted, Faulty
<1>2. run'[r].pc \in Faulty /\ run'[r].pc # "observe"
  BY DEF Keeps, Faulty
<1>3. run'[r].armed /\ run'[r].cleanups = 0 /\ run'[r].since <= now'
  BY <1>1, Typed DEF Keeps
<1>. QED BY <1>2, <1>3, FaultyAccounted

LEMMA RecoverAccounted ==
  ASSUME RunInv, NEW r \in Runs, Keeps(r, "recover"), run[r].pc = "renew_reverted",
         now' = now, faults' = faults
  PROVE  Accounted(r)'
<1>1. ~run[r].armed /\ run[r].cleared <= run[r].since /\ r \notin faults
  BY Typed DEF RunInv, Accounted, Faulty, Clear
<1>. QED BY <1>1, Typed, ClearAccounted DEF Keeps, Clear

-----------------------------------------------------------------------------
(* One lemma per action *)

LEMMA RejectInv == ASSUME RunInv, NEW r \in Runs, Reject(r) PROVE RunInv'
<1>1. Keeps(r, "done")
  BY CloseKeeps DEF Reject
<1>2. run[r].pc = "queued" /\ now' = now /\ faults' = faults
  BY DEF Reject, pc
<1>3. ~run[r].armed /\ run[r].cleanups = 0 /\ r \notin faults
  BY <1>2, Typed DEF RunInv, Accounted, Faulty, Clear, Waits
<1>4. Accounted(r)'
  BY <1>1, <1>2, <1>3, Typed DEF Keeps, Accounted, Faulty, Clear
<1>. QED BY <1>1, <1>2, <1>4, OneRun DEF Reject, RunInv, TypeOK, Keeps

LEMMA BeginInv == ASSUME RunInv, NEW r \in Runs, Begin(r) PROVE RunInv'
<1>. DEFINE p == [run[r] EXCEPT !.pc = "validate", !.since = now, !.began = now]
<1>a. p \in Progress /\ run' = [run EXCEPT ![r] = p]
  BY Typed DEF Begin, Progress, Steps, Calls
<1>b. Moved(r) /\ run'[r] = p
  BY <1>a, MovedTo
<1>1. Keeps(r, "validate")
  BY <1>b, Typed DEF Keeps, Progress
<1>. HIDE DEF p
<1>2. run[r].pc = "queued" /\ now' = now /\ faults' = faults
  BY DEF Begin, pc
<1>3. ~run[r].armed /\ run[r].cleanups = 0 /\ r \notin faults
  BY <1>2, Typed DEF RunInv, Accounted, Faulty, Clear
<1>4. Accounted(r)'
  BY <1>1, <1>2, <1>3, Typed DEF Keeps, Accounted, Faulty, Clear
<1>. QED BY <1>1, <1>2, <1>4, OneRun DEF Begin, RunInv, TypeOK, Keeps

LEMMA DropInv == ASSUME RunInv, NEW r \in Runs, Drop(r) PROVE RunInv'
<1>1. Keeps(r, "done")
  BY CloseKeeps DEF Drop
<1>2. run[r].pc = "queued" /\ now' = now /\ faults' = faults
  BY DEF Drop, pc
<1>3. ~run[r].armed /\ run[r].cleanups = 0 /\ r \notin faults
  BY <1>2, Typed DEF RunInv, Accounted, Faulty, Clear, Waits
<1>4. Accounted(r)'
  BY <1>1, <1>2, <1>3, Typed DEF Keeps, Accounted, Faulty, Clear
<1>. QED BY <1>1, <1>2, <1>4, OneRun DEF Drop, RunInv, TypeOK, Keeps

LEMMA ValidatedInv == ASSUME RunInv, NEW r \in Runs, Validated(r) PROVE RunInv'
<1>1. Keeps(r, "acquire")
  BY GotoKeeps DEF Validated, Steps, Calls
<1>2. run[r].pc = "validate" /\ now' = now /\ faults' = faults
  BY DEF Validated, pc
<1>3. ~run[r].armed /\ run[r].cleanups = 0 /\ r \notin faults
  BY <1>2, Typed DEF RunInv, Accounted, Faulty, Clear, Waits
<1>4. Accounted(r)'
  BY <1>1, <1>2, <1>3, Typed DEF Keeps, Accounted, Faulty, Clear
<1>. QED BY <1>1, <1>2, <1>4, OneRun DEF Validated, RunInv, TypeOK, Keeps

LEMMA ValidationFailedInv == ASSUME RunInv, NEW r \in Runs, ValidationFailed(r) PROVE RunInv'
<1>1. Keeps(r, "done")
  BY CloseKeeps DEF ValidationFailed
<1>2. run[r].pc = "validate" /\ now' = now /\ faults' = faults
  BY DEF ValidationFailed, pc
<1>3. ~run[r].armed /\ run[r].cleanups = 0 /\ r \notin faults
  BY <1>2, Typed DEF RunInv, Accounted, Faulty, Clear, Waits
<1>4. Accounted(r)'
  BY <1>1, <1>2, <1>3, Typed DEF Keeps, Accounted, Faulty, Clear
<1>. QED BY <1>1, <1>2, <1>4, OneRun DEF ValidationFailed, RunInv, TypeOK, Keeps

LEMMA AcquiredInv == ASSUME RunInv, NEW r \in Runs, Acquired(r) PROVE RunInv'
<1>1. Keeps(r, "precheck")
  BY GotoKeeps DEF Acquired, Steps, Calls
<1>2. run[r].pc = "acquire" /\ now' = now /\ faults' = faults
  BY DEF Acquired, pc
<1>3. ~run[r].armed /\ run[r].cleanups = 0 /\ r \notin faults
  BY <1>2, Typed DEF RunInv, Accounted, Faulty, Clear, Waits
<1>5. lock' \in [Operators -> Locks]
  BY LeaseType DEF Acquired, RunInv, TypeOK
<1>4. Accounted(r)'
  BY <1>1, <1>2, <1>3, Typed DEF Keeps, Accounted, Faulty, Clear
<1>. QED BY <1>1, <1>2, <1>4, <1>5, OneRun DEF Acquired, RunInv, TypeOK, Keeps

LEMMA AcquireFailedInv == ASSUME RunInv, NEW r \in Runs, AcquireFailed(r) PROVE RunInv'
<1>1. Keeps(r, "done")
  BY CloseKeeps DEF AcquireFailed
<1>2. run[r].pc = "acquire" /\ now' = now /\ faults' = faults
  BY DEF AcquireFailed, pc
<1>3. ~run[r].armed /\ run[r].cleanups = 0 /\ r \notin faults
  BY <1>2, Typed DEF RunInv, Accounted, Faulty, Clear, Waits
<1>5. budget' \in Nat
  BY FailsType DEF AcquireFailed, RunInv, TypeOK
<1>4. Accounted(r)'
  BY <1>1, <1>2, <1>3, Typed DEF Keeps, Accounted, Faulty, Clear
<1>. QED BY <1>1, <1>2, <1>4, <1>5, OneRun DEF AcquireFailed, RunInv, TypeOK, Keeps

LEMMA PreCheckPassedInv == ASSUME RunInv, NEW r \in Runs, PreCheckPassed(r) PROVE RunInv'
<1>1. Keeps(r, "inject")
  BY GotoKeeps DEF PreCheckPassed, Steps, Calls
<1>2. run[r].pc = "precheck" /\ now' = now /\ faults' = faults
  BY DEF PreCheckPassed, pc
<1>3. ~run[r].armed /\ run[r].cleanups = 0 /\ r \notin faults
  BY <1>2, Typed DEF RunInv, Accounted, Faulty, Clear, Waits
<1>4. Accounted(r)'
  BY <1>1, <1>2, <1>3, Typed DEF Keeps, Accounted, Faulty, Clear
<1>. QED BY <1>1, <1>2, <1>4, OneRun DEF PreCheckPassed, RunInv, TypeOK, Keeps

LEMMA PreCheckFailedInv == ASSUME RunInv, NEW r \in Runs, PreCheckFailed(r) PROVE RunInv'
<1>1. Keeps(r, "deferred_cleanup")
  BY AbortKeeps DEF PreCheckFailed
<1>2. run[r].pc = "precheck" /\ now' = now /\ faults' = faults
  BY DEF PreCheckFailed, pc
<1>3. ~run[r].armed /\ run[r].cleanups = 0 /\ r \notin faults
  BY <1>2, Typed DEF RunInv, Accounted, Faulty, Clear, Waits
<1>4. Accounted(r)'
  BY <1>1, <1>2, <1>3, Typed DEF Keeps, Accounted, Faulty, Clear
<1>. QED BY <1>1, <1>2, <1>4, OneRun DEF PreCheckFailed, RunInv, TypeOK, Keeps

LEMMA InjectedInv == ASSUME RunInv, NEW r \in Runs, Injected(r) PROVE RunInv'
<1>. DEFINE step == IF TTL[r] > 0 THEN "ttl" ELSE "observe"
            p == [run[r] EXCEPT !.pc = step, !.since = now, !.armed = TRUE]
<1>1. step \in {"ttl", "observe"} /\ (step = "observe" => TTL[r] = 0)
  BY OrchestratorAssumption
<1>2. run' = [run EXCEPT ![r] = p] /\ now' = now /\ run[r].pc = "inject"
  BY DEF Injected, pc
<1>. HIDE DEF step
<1>3. p \in Progress
  BY <1>1, Typed DEF Progress, Steps, Waits
<1>4. Moved(r) /\ run'[r] = p
  BY <1>2, <1>3, MovedTo
<1>5. /\ run'[r].pc = step /\ run'[r].since = now /\ run'[r].armed = TRUE
      /\ run'[r].cleanups = run[r].cleanups
  BY <1>4, Typed DEF Progress
<1>6. run[r].cleanups = 0
  BY <1>2, Typed DEF RunInv, Accounted
<1>7. Accounted(r)'
  <2>1. run'[r].pc \in Faulty /\ (run'[r].pc = "observe" => TTL[r] = 0)
    BY <1>1, <1>5 DEF Faulty
  <2>2. run'[r].armed /\ run'[r].cleanups = 0 /\ run'[r].since <= now'
    BY <1>2, <1>5, <1>6, Typed
  <2>. QED BY <2>1, <2>2, FaultyAccounted
<1>. QED BY <1>2, <1>4, <1>7, OneRun DEF Injected, RunInv, TypeOK

LEMMA InjectFailedInv == ASSUME RunInv, NEW r \in Runs, InjectFailed(r) PROVE RunInv'
<1>1. PICK effect \in BOOLEAN :
         /\ faults' = IF effect THEN faults \cup {r} ELSE faults
         /\ run' = [run EXCEPT ![r] = [@ EXCEPT !.pc = "deferred_cleanup", !.since = now,
                                                !.outcome = "fail", !.partial = effect]]
  BY DEF InjectFailed
<1>. DEFINE p == [run[r] EXCEPT !.pc = "deferred_cleanup", !.since = now,
                               !.outcome = "fail", !.partial = effect]
<1>2. p \in Progress /\ run' = [run EXCEPT ![r] = p]
  BY <1>1, Typed DEF Progress, Steps, Calls
<1>3. Moved(r) /\ run'[r] = p
  BY <1>2, MovedTo
<1>4. /\ run'[r].pc = "deferred_cleanup" /\ run'[r].since = now
      /\ run'[r].armed = run[r].armed /\ run'[r].cleanups = run[r].cleanups
      /\ run'[r].partial = effect
  BY <1>3, Typed DEF Progress
<1>. HIDE DEF p
<1>5. now' = now /\ run[r].pc = "inject"
  BY DEF InjectFailed, pc
<1>6. ~run[r].armed /\ run[r].cleanups = 0 /\ r \notin faults
  BY <1>5, Typed DEF RunInv, Accounted, Faulty, Clear
<1>7. r \in faults' => run'[r].partial
  BY <1>1, <1>4, <1>6
<1>8. Accounted(r)'
  BY <1>4, <1>5, <1>6, <1>7, Typed, DeferredAccounted
<1>9. /\ budget' \in Nat /\ faults' \subseteq Runs
      /\ \A s \in Runs : s # r => (s \in faults' <=> s \in faults)
  <2>1. budget' \in Nat
    BY FailsType DEF InjectFailed
  <2>. QED BY <2>1, <1>1 DEF RunInv, TypeOK
<1>. QED BY <1>3, <1>5, <1>8, <1>9, OneRun DEF InjectFailed, RunInv, TypeOK

LEMMA TTLElapsedInv == ASSUME RunInv, NEW r \in Runs, TTLElapsed(r) PROVE RunInv'
<1>1. Keeps(r, "cleanup")
  BY GotoKeeps DEF TTLElapsed, Steps, Calls
<1>2. run[r].pc = "ttl" /\ now' = now
  BY DEF TTLElapsed, pc
<1>3. run[r].armed /\ run[r].cleanups = 0
  BY <1>2, Typed DEF RunInv, Accounted, Faulty
<1>4. Accounted(r)'
  <2>1. run'[r].pc \in Faulty /\ run'[r].pc # "observe"
    BY <1>1 DEF Keeps, Faulty
  <2>2. run'[r].armed /\ run'[r].cleanups = 0 /\ run'[r].since <= now'
    BY <1>1, <1>2, <1>3, Typed DEF Keeps
  <2>. QED BY <2>1, <2>2, FaultyAccounted
<1>. QED BY <1>1, <1>2, <1>4, OneRun DEF TTLElapsed, RunInv, TypeOK, Keeps

LEMMA RetryElapsedInv == ASSUME RunInv, NEW r \in Runs, RetryElapsed(r) PROVE RunInv'
<1>1. Keeps(r, "cleanup")
  BY GotoKeeps DEF RetryElapsed, Steps, Calls
<1>2. run[r].pc = "retry" /\ now' = now
  BY DEF RetryElapsed, pc
<1>3. run[r].armed /\ run[r].cleanups = 0
  BY <1>2, Typed DEF RunInv, Accounted, Faulty
<1>4. Accounted(r)'
  <2>1. run'[r].pc \in Faulty /\ run'[r].pc # "observe"
    BY <1>1 DEF Keeps, Faulty
  <2>2. run'[r].armed /\ run'[r].cleanups = 0 /\ run'[r].since <= now'
    BY <1>1, <1>2, <1>3, Typed DEF Keeps
  <2>. QED BY <2>1, <2>2, FaultyAccounted
<1>. QED BY <1>1, <1>2, <1>4, OneRun DEF RetryElapsed, RunInv, TypeOK, Keeps

LEMMA RevertFailedInv == ASSUME RunInv, NEW r \in Runs, RevertFailed(r) PROVE RunInv'
<1>1. Keeps(r, "renew_retry")
  BY GotoKeeps DEF RevertFailed, Steps, Calls
<1>2. run[r].pc = "cleanup" /\ now' = now
  BY DEF RevertFailed, pc
<1>3. run[r].armed /\ run[r].cleanups = 0
  BY <1>2, Typed DEF RunInv, Accounted, Faulty
<1>4. Accounted(r)'
  <2>1. run'[r].pc \in Faulty /\ run'[r].pc # "observe"
    BY <1>1 DEF Keeps, Faulty
  <2>2. run'[r].armed /\ run'[r].cleanups = 0 /\ run'[r].since <= now'
    BY <1>1, <1>2, <1>3, Typed DEF Keeps
  <2>. QED BY <2>1, <2>2, FaultyAccounted
<1>5. /\ budget' \in Nat /\ faults' \subseteq Runs
      /\ \A s \in Runs : s # r => (s \in faults' <=> s \in faults)
  BY FailsType DEF RevertFailed, RunInv, TypeOK
<1>. QED BY <1>1, <1>2, <1>4, <1>5, OneRun DEF RevertFailed, RunInv, TypeOK, Keeps

LEMMA RevertedInv == ASSUME RunInv, NEW r \in Runs, Reverted(r) PROVE RunInv'
<1>. DEFINE q == [run[r] EXCEPT !.pc = "renew_reverted", !.since = now, !.cleared = now,
                               !.cleanups = run[r].cleanups + 1, !.armed = FALSE]
            p == [run[r] EXCEPT !.pc = "renew_reverted", !.since = now, !.cleared = now,
                               !.cleanups = 1, !.armed = FALSE]
<1>1. now' = now /\ run[r].pc = "cleanup" /\ faults' = faults \ {r}
  BY DEF Reverted, pc
<1>2. run' = [run EXCEPT ![r] = q]
  BY DEF Reverted
<1>3. run[r].cleanups = 0
  BY <1>1, Typed DEF RunInv, Accounted, Faulty
<1>4. q = p
  BY <1>3
<1>. HIDE DEF q
<1>5. p \in Progress
  BY Typed DEF Progress, Steps, Calls
<1>6. Moved(r) /\ run'[r] = p
  <2>. HIDE DEF p
  <2>. QED BY <1>2, <1>4, <1>5, MovedTo
<1>7. /\ run'[r].pc = "renew_reverted" /\ run'[r].since = now /\ run'[r].cleared = now
      /\ run'[r].cleanups = 1 /\ run'[r].armed = FALSE
  BY <1>6, Typed DEF Progress
<1>. HIDE DEF p
<1>8. Accounted(r)'
  BY <1>1, <1>7, Typed, ClearAccounted DEF Clear
<1>. QED BY <1>1, <1>6, <1>8, OneRun DEF Reverted, RunInv, TypeOK

LEMMA WaitCancelledInv == ASSUME RunInv, NEW r \in Runs, WaitCancelled(r) PROVE RunInv'
<1>1. Keeps(r, "deferred_cleanup")
  BY AbortKeeps DEF WaitCancelled
<1>2. run[r].pc \in Waits /\ now' = now /\ faults' = faults
  BY DEF WaitCancelled, pc
<1>3. /\ run[r].armed => run[r].cleanups = 0
      /\ r \in faults => run[r].armed
  BY <1>2, Typed DEF RunInv, Accounted, Faulty, Clear, Waits
<1>4. Accounted(r)'
  BY <1>1, <1>2, <1>3, Typed, DeferredAccounted DEF Keeps, Faulty, Clear
<1>. QED BY <1>1, <1>2, <1>4, OneRun DEF WaitCancelled, RunInv, TypeOK, Keeps

LEMMA RenewedInv == ASSUME RunInv, NEW r \in Runs, Renewed(r) PROVE RunInv'
<1>1. /\ run[r].pc \in {"renew_retry", "renew_reverted"} /\ now' = now /\ faults' = faults
      /\ Goto(r, IF run[r].pc = "renew_retry" THEN "retry" ELSE "recover")
  BY DEF Renewed, RenewNext, pc
<1>2. lock' \in [Operators -> Locks]
  <2>1. Op(r) \in Operators /\ lock[Op(r)] \in Locks /\ now \in Nat
    BY LeaseType, Typed DEF RunInv, TypeOK
  <2>2. \A t \in Nat : [lock[Op(r)] EXCEPT !.until = t] \in Locks
    BY <2>1 DEF Locks
  <2>3. lock[Op(r)].until \in Nat /\ now + lock[Op(r)].dur \in Nat
    BY <2>1 DEF Locks
  <2>4. PICK t \in Nat : lock' = [lock EXCEPT ![Op(r)] = [@ EXCEPT !.until = t]]
    BY <2>3 DEF Renewed
  <2>. QED BY <2>1, <2>2, <2>4 DEF RunInv, TypeOK
<1>3. CASE run[r].pc = "renew_retry"
  <2>1. Keeps(r, "retry")
    BY <1>1, <1>3, GotoKeeps DEF Steps, Waits
  <2>2. Accounted(r)'
    BY <2>1, <1>1, <1>3, RetryAccounted
  <2>. QED BY <1>1, <1>2, <2>1, <2>2, OneRun DEF Renewed, RunInv, TypeOK, Keeps
<1>4. CASE run[r].pc = "renew_reverted"
  <2>1. Keeps(r, "recover")
    BY <1>1, <1>4, GotoKeeps DEF Steps, Waits
  <2>2. Accounted(r)'
    BY <2>1, <1>1, <1>4, RecoverAccounted
  <2>. QED BY <1>1, <1>2, <2>1, <2>2, OneRun DEF Renewed, RunInv, TypeOK, Keeps
<1>. QED BY <1>1, <1>3, <1>4

LEMMA RenewFailedInv == ASSUME RunInv, NEW r \in Runs, RenewFailed(r) PROVE RunInv'
<1>1. /\ run[r].pc \in {"renew_retry", "renew_reverted"} /\ now' = now /\ faults' = faults
      /\ IF run[r].pc = "renew_retry" THEN Abort(r) ELSE Goto(r, "recover")
  BY DEF RenewFailed, pc
<1>2. budget' \in Nat
  BY FailsType DEF RenewFailed, RunInv, TypeOK
<1>3. CASE run[r].pc = "renew_retry"
  <2>1. Keeps(r, "deferred_cleanup")
    BY <1>1, <1>3, AbortKeeps
  <2>2. run[r].armed /\ run[r].cleanups = 0
    BY <1>3, Typed DEF RunInv, Accounted, Faulty
  <2>3. Accounted(r)'
    <3>1. /\ run'[r].pc = "deferred_cleanup" /\ run'[r].since <= now'
          /\ run'[r].cleanups = 0 /\ run'[r].armed
      BY <2>1, <2>2, <1>1, Typed DEF Keeps
    <3>. QED BY <3>1, DeferredAccounted
  <2>. QED BY <1>1, <1>2, <2>1, <2>3, OneRun DEF RenewFailed, RunInv, TypeOK, Keeps
<1>4. CASE run[r].pc = "renew_reverted"
  <2>1. Keeps(r, "recover")
    BY <1>1, <1>4, GotoKeeps DEF Steps, Waits
  <2>2. Accounted(r)'
    BY <2>1, <1>1, <1>4, RecoverAccounted
  <2>. QED BY <1>1, <1>2, <2>1, <2>2, OneRun DEF RenewFailed, RunInv, TypeOK, Keeps
<1>. QED BY <1>1, <1>3, <1>4

LEMMA RecoveryElapsedInv == ASSUME RunInv, NEW r \in Runs, RecoveryElapsed(r) PROVE RunInv'
<1>1. Keeps(r, "postcheck")
  BY GotoKeeps DEF RecoveryElapsed, Steps, Calls
<1>2. /\ run[r].pc \in {"recover", "observe"} /\ now >= run[r].since + RecoveryTimeout[r]
      /\ now' = now /\ faults' = faults
  BY DEF RecoveryElapsed, pc, Elapsed
<1>3. RecoveryTimeout[r] \in Nat /\ TTL[r] \in Nat
  BY OrchestratorAssumption
<1>4. /\ run[r].armed => run[r].cleanups = 0
      /\ r \in faults => run[r].armed
      /\ TTL[r] > 0 => ~run[r].armed /\ run[r].cleared <= run[r].since
  BY <1>2, <1>3, Typed DEF RunInv, Accounted, Faulty, Clear
<1>5. Accounted(r)'
  BY <1>1, <1>2, <1>3, <1>4, Typed, PostCheckAccounted DEF Keeps
<1>. QED BY <1>1, <1>2, <1>5, OneRun DEF RecoveryElapsed, RunInv, TypeOK, Keeps

LEMMA JudgedInv == ASSUME RunInv, NEW r \in Runs, Judged(r) PROVE RunInv'
<1>. DEFINE p == [run[r] EXCEPT !.pc = "deferred_cleanup", !.since = now,
                               !.outcome = "verdict"]
<1>a. p \in Progress /\ run' = [run EXCEPT ![r] = p]
  BY Typed DEF Judged, Progress, Steps, Calls
<1>b. Moved(r) /\ run'[r] = p
  BY <1>a, MovedTo
<1>1. Keeps(r, "deferred_cleanup")
  BY <1>b, Typed DEF Keeps, Progress
<1>. HIDE DEF p
<1>2. run[r].pc = "postcheck" /\ now' = now /\ faults' = faults
  BY DEF Judged, pc
<1>3. /\ run[r].armed => run[r].cleanups = 0
      /\ r \in faults => run[r].armed
  BY <1>2, Typed DEF RunInv, Accounted, Faulty, Clear
<1>4. Accounted(r)'
  BY <1>1, <1>2, <1>3, Typed, DeferredAccounted DEF Keeps
<1>. QED BY <1>1, <1>2, <1>4, OneRun DEF Judged, RunInv, TypeOK, Keeps

LEMMA DeferredCleanupInv == ASSUME RunInv, NEW r \in Runs, DeferredCleanup(r) PROVE RunInv'
<1>1. /\ run[r].pc = "deferred_cleanup" /\ run[r].armed /\ now' = now
      /\ faults' \in {faults, faults \ {r}}
  BY DEF DeferredCleanup, pc
<1>2. run[r].cleanups = 0
  BY <1>1, Typed DEF RunInv, Accounted
<1>3. budget' \in Nat
  BY SpendType DEF DeferredCleanup, RunInv, TypeOK
<1>4. faults' \subseteq Runs /\ \A s \in Runs : s # r => (s \in faults' <=> s \in faults)
  BY <1>1 DEF RunInv, TypeOK
<1>5. ASSUME faults' = faults \ {r},
             run' = [run EXCEPT ![r] = [@ EXCEPT !.pc = "release", !.since = now,
                                                 !.cleanups = run[r].cleanups + 1]]
      PROVE  RunInv'
  <2>. DEFINE p == [run[r] EXCEPT !.pc = "release", !.since = now, !.cleanups = 1]
  <2>1. p \in Progress
    BY Typed DEF Progress, Steps, Calls
  <2>2. [run[r] EXCEPT !.pc = "release", !.since = now, !.cleanups = run[r].cleanups + 1] = p
    BY <1>2
  <2>3. Moved(r) /\ run'[r] = p
    BY <2>1, <2>2, <1>5, MovedTo
  <2>4. run'[r].pc = "release" /\ run'[r].since = now /\ run'[r].cleanups = 1
    BY <2>3, Typed DEF Progress
  <2>. HIDE DEF p
  <2>5. Accounted(r)'
    BY <2>4, <1>1, <1>5, Typed DEF Accounted, Faulty, Clear
  <2>. QED BY <1>1, <1>3, <1>4, <2>3, <2>5, OneRun DEF DeferredCleanup, RunInv, TypeOK
<1>6. ASSUME run' = [run EXCEPT ![r] = [@ EXCEPT !.pc = "release", !.since = now,
                                                 !.cleanupError = TRUE]]
      PROVE  RunInv'
  <2>. DEFINE p == [run[r] EXCEPT !.pc = "release", !.since = now, !.cleanupError = TRUE]
  <2>1. p \in Progress
    BY Typed DEF Progress, Steps, Calls
  <2>2. run' = [run EXCEPT ![r] = p]
    BY <1>6
  <2>3. Moved(r) /\ run'[r] = p
    BY <2>1, <2>2, MovedTo
  <2>4. /\ run'[r].pc = "release" /\ run'[r].since = now
        /\ run'[r].cleanups = run[r].cleanups /\ run'[r].cleanupError = TRUE
    BY <2>3, Typed DEF Progress
  <2>. HIDE DEF p
  <2>5. Accounted(r)'
    BY <2>4, <1>1, <1>2, Typed DEF Accounted, Faulty, Clear
  <2>. QED BY <1>1, <1>3, <1>4, <2>3, <2>5, OneRun DEF DeferredCleanup, RunInv, TypeOK
<1>. QED BY <1>5, <1>6 DEF DeferredCleanup

LEMMA NothingToCleanInv == ASSUME RunInv, NEW r \in Runs, NothingToClean(r) PROVE RunInv'
<1>1. Keeps(r, "release")
  BY GotoKeeps DEF NothingToClean, Steps, Calls
<1>2. run[r].pc = "deferred_cleanup" /\ ~run[r].armed /\ now' = now /\ faults' = faults
  BY DEF NothingToClean, pc
<1>3. r \in faults => run[r].partial
  BY <1>2, Typed DEF RunInv, Accounted, Faulty, Clear
<1>4. Accounted(r)'
  BY <1>1, <1>2, <1>3, Typed DEF Keeps, Accounted, Faulty, Clear
<1>. QED BY <1>1, <1>2, <1>4, OneRun DEF NothingToClean, RunInv, TypeOK, Keeps

LEMMA ReleasedInv == ASSUME RunInv, NEW r \in Runs, Released(r) PROVE RunInv'
<1>1. Keeps(r, "done")
  <2>1. run[r].outcome \in {"none", "skip", "fail", "verdict", "dropped"}
    BY Typed DEF Progress
  <2>. QED BY <2>1, CloseKeeps DEF Released
<1>2. run[r].pc = "release" /\ now' = now /\ faults' = faults
  BY DEF Released, pc
<1>3. r \in faults => run[r].cleanupError \/ run[r].partial
  BY <1>2, Typed DEF RunInv, Accounted, Faulty, Clear
<1>4. Accounted(r)'
  BY <1>1, <1>2, <1>3, Typed DEF Keeps, Accounted, Faulty, Clear
<1>5. budget' \in Nat
  BY SpendType DEF Released, RunInv, TypeOK
<1>6. lock' \in [Operators -> Locks]
  <2>1. Unlocked \in Locks
    BY DEF Unlocked, Locks
  <2>. QED BY <2>1 DEF Released, RunInv, TypeOK
<1>. QED BY <1>1, <1>2, <1>4, <1>5, <1>6, OneRun DEF Released, RunInv, TypeOK, Keeps

LEMMA KillInv == ASSUME RunInv, NEW r \in Runs, Kill(r) PROVE RunInv'
<1>1. Keeps(r, "killed")
  BY GotoKeeps DEF Kill, Steps, Ended
<1>2. now' = now
  BY DEF Kill
<1>3. Accounted(r)'
  BY <1>1, <1>2, Typed DEF Keeps, Accounted, Faulty, Clear
<1>4. budget' \in Nat
  BY SpendType DEF Kill
<1>. QED BY <1>1, <1>2, <1>3, <1>4, OneRun DEF Kill, RunInv, TypeOK, Keeps

LEMMA InterruptInv == ASSUME RunInv, Interrupt PROVE RunInv'
  BY DEF RunInv, TypeOK, Interrupt, Accounted

LEMMA TickInv == ASSUME RunInv, Tick PROVE RunInv'
<1>1. TypeOK'
  BY DEF RunInv, TypeOK, Tick
<1>2. ASSUME NEW r \in Runs PROVE Accounted(r)'
  <2>1. Accounted(r) /\ run[r].since <= now /\ run[r].since \in Nat /\ now \in Nat
    BY Typed DEF RunInv
  <2>2. now' = now + 1 /\ run' = run /\ faults' = faults
    BY DEF Tick
  <2>3. run[r].since <= now'
    BY <2>1, <2>2
  <2>. QED BY <2>1, <2>2, <2>3 DEF Accounted
<1>. QED BY <1>1, <1>2 DEF RunInv

LEMMA StepInv == ASSUME RunInv, NEW r \in Runs, Step(r) PROVE RunInv'
  BY RejectInv, BeginInv, DropInv, ValidatedInv, ValidationFailedInv, AcquiredInv,
     AcquireFailedInv, PreCheckPassedInv, PreCheckFailedInv, InjectedInv, InjectFailedInv,
     TTLElapsedInv, WaitCancelledInv, RevertedInv, RevertFailedInv, RenewedInv,
     RenewFailedInv, RetryElapsedInv, RecoveryElapsedInv, JudgedInv, DeferredCleanupInv,
     NothingToCleanInv, ReleasedInv
  DEF Step

LEMMA NextInv == ASSUME RunInv, [Next]_vars PROVE RunInv'
<1>1. CASE Next
  BY <1>1, StepInv, KillInv, InterruptInv, TickInv DEF Next
<1>2. CASE UNCHANGED vars
  BY <1>2 DEF vars, RunInv, TypeOK, Accounted
<1>. QED BY <1>1, <1>2

-----------------------------------------------------------------------------
(* The in-process lock *)

\* A step that does not touch the locks, and does not bring r in.
LEMMA HeldKept ==
  ASSUME LocalHeld, NEW r \in Runs, lock' = lock,
         \A s \in Runs : s # r => run'[s] = run[s],
         run'[r].pc \in Holding => run[r].pc \in Holding
  PROVE  LocalHeld'
  BY DEF LocalHeld, Owns, pc, Op

LEMMA AcquiredHeld ==
  ASSUME RunInv, LocalHeld, ~Distributed, DistinctNames, NEW r \in Runs, Acquired(r)
  PROVE  LocalHeld'
<1>1. Keeps(r, "precheck")
  BY GotoKeeps DEF Acquired, Steps, Calls
<1>2. lock[Op(r)].holder \in {Free, NameOf[r]}
  BY DEF Acquired, Expired
<1>3. /\ lock'[Op(r)].holder = NameOf[r]
      /\ \A op \in Operators : op # Op(r) => lock'[op] = lock[op]
  <2>. DEFINE l == [holder |-> NameOf[r], dur |-> LeaseDuration(r),
                    until |-> now + LeaseDuration(r)]
  <2>1. l \in Locks /\ Op(r) \in Operators /\ l.holder = NameOf[r]
    BY LeaseType
  <2>2. \/ lock[Op(r)].holder = NameOf[r] /\ lock' = lock
        \/ lock' = [lock EXCEPT ![Op(r)] = l]
    BY DEF Acquired
  <2>. HIDE DEF l
  <2>. QED BY <2>1, <2>2 DEF RunInv, TypeOK
<1>4. ASSUME NEW s \in Runs, run'[s].pc \in Holding, s # r
      PROVE  lock'[Op(s)].holder = NameOf[s]
  <2>1. lock[Op(s)].holder = NameOf[s]
    BY <1>1, <1>4 DEF LocalHeld, Keeps, Moved, pc, Owns
  <2>2. NameOf[s] # NameOf[r] /\ NameOf[s] # Free
    BY <1>4, OrchestratorAssumption DEF DistinctNames
  <2>3. Op(s) # Op(r)
    BY <1>2, <2>1, <2>2
  <2>4. Op(s) \in Operators
    BY LeaseType
  <2>. QED BY <1>3, <2>1, <2>3, <2>4
<1>. QED BY <1>3, <1>4 DEF LocalHeld, Owns, pc, Op

LEMMA RenewedHeld ==
  ASSUME RunInv, LocalHeld, NEW r \in Runs, Renewed(r)
  PROVE  LocalHeld'
<1>1. \A s \in Runs : s # r => run'[s] = run[s]
  BY DEF Renewed, Goto, RunInv, TypeOK
<1>2. run[r].pc \in Holding
  BY DEF Renewed, pc, Holding
<1>3. \A op \in Operators : lock'[op].holder = lock[op].holder
  BY LeaseType DEF Renewed, RunInv, TypeOK, Locks
<1>4. \A s \in Runs : Op(s) \in Operators
  BY LeaseType
<1>. QED BY <1>1, <1>2, <1>3, <1>4 DEF LocalHeld, Owns, pc, Op

LEMMA ReleasedHeld ==
  ASSUME RunInv, LocalHeld, DistinctNames, NEW r \in Runs, Released(r)
  PROVE  LocalHeld'
<1>1. Keeps(r, "done")
  <2>1. run[r].outcome \in {"none", "skip", "fail", "verdict", "dropped"}
    BY Typed DEF Progress
  <2>. QED BY <2>1, CloseKeeps DEF Released
<1>2. ASSUME NEW s \in Runs, run'[s].pc \in Holding
      PROVE  lock'[Op(s)].holder = NameOf[s]
  <2>1. s # r
    BY <1>1, <1>2 DEF Keeps, Holding, Waits
  <2>2. lock[Op(s)].holder = NameOf[s]
    BY <1>1, <1>2, <2>1 DEF LocalHeld, Keeps, Moved, pc, Owns
  <2>3. NameOf[s] # NameOf[r]
    BY <2>1 DEF DistinctNames
  <2>4. Owns(r) => Op(s) # Op(r)
    BY <2>2, <2>3 DEF Owns
  <2>. QED BY <2>2, <2>4, LeaseType DEF Released, RunInv, TypeOK
<1>. QED BY <1>2 DEF LocalHeld, Owns, pc, Op

\* Runs outside the lock are kept out of it by every step but Acquired.
LEMMA OutsideHeld ==
  ASSUME RunInv, LocalHeld, NEW r \in Runs,
         Reject(r) \/ Begin(r) \/ Drop(r) \/ Validated(r) \/ ValidationFailed(r) \/ AcquireFailed(r)
  PROVE  LocalHeld'
<1>1. lock' = lock /\ \A s \in Runs : s # r => run'[s] = run[s]
  BY DEF Reject, Begin, Drop, Validated, ValidationFailed, AcquireFailed, Close, Goto,
         RunInv, TypeOK
<1>2. run'[r].pc \in {"done", "validate", "acquire"}
  <2>1. CASE Reject(r) \/ Drop(r) \/ ValidationFailed(r) \/ AcquireFailed(r)
    BY <2>1, CloseKeeps DEF Reject, Drop, ValidationFailed, AcquireFailed, Keeps
  <2>2. CASE Validated(r)
    BY <2>2, GotoKeeps DEF Validated, Keeps, Steps, Calls
  <2>3. CASE Begin(r)
    BY <2>3, Typed DEF Begin, RunInv, TypeOK, Progress
  <2>. QED BY <2>1, <2>2, <2>3
<1>. QED BY <1>1, <1>2, HeldKept DEF Holding, Waits

\* The remaining steps of a run are steps inside its lock.
LEMMA InsideHeld ==
  ASSUME RunInv, LocalHeld, NEW r \in Runs,
         \/ PreCheckPassed(r) \/ PreCheckFailed(r) \/ Injected(r) \/ InjectFailed(r)
         \/ TTLElapsed(r) \/ WaitCancelled(r) \/ Reverted(r) \/ RevertFailed(r)
         \/ RenewFailed(r) \/ RetryElapsed(r) \/ RecoveryElapsed(r) \/ Judged(r)
         \/ DeferredCleanup(r) \/ NothingToClean(r)
  PROVE  LocalHeld'
<1>1. lock' = lock /\ run[r].pc \in Holding
  BY DEF PreCheckPassed, PreCheckFailed, Injected, InjectFailed, TTLElapsed, WaitCancelled,
         Reverted, RevertFailed, RenewFailed, RetryElapsed, RecoveryElapsed, Judged,
         DeferredCleanup, NothingToClean, pc, Holding, Waits
<1>2. \A s \in Runs : s # r => run'[s] = run[s]
  BY DEF PreCheckPassed, PreCheckFailed, Injected, InjectFailed, TTLElapsed, WaitCancelled,
         Reverted, RevertFailed, RenewFailed, RetryElapsed, RecoveryElapsed, Judged,
         DeferredCleanup, NothingToClean, Goto, Abort, RunInv, TypeOK
<1>. QED BY <1>1, <1>2, HeldKept

LEMMA NextHeld ==
  ASSUME RunInv, LocalHeld, ~Distributed, DistinctNames, [Next]_vars
  PROVE  LocalHeld'
<1>1. ASSUME NEW r \in Runs, Step(r) PROVE LocalHeld'
  BY <1>1, AcquiredHeld, RenewedHeld, ReleasedHeld, OutsideHeld, InsideHeld DEF Step
<1>2. CASE Interrupt \/ Tick \/ UNCHANGED vars
  BY <1>2 DEF Interrupt, Tick, vars, LocalHeld, Owns, pc
<1>3. ASSUME NEW r \in Runs, Kill(r) PROVE FALSE
  BY <1>3 DEF Kill
<1>. QED BY <1>1, <1>2, <1>3 DEF Next

-----------------------------------------------------------------------------
(* Where a step leads *)

HIDE DEF Runs

\* A step of r that leads from one step of Run to another, now.
Leads(r, from, to) ==
    /\ Moved(r) /\ now' = now /\ interrupted' = interrupted
    /\ run[r].pc = from /\ run'[r].pc = to /\ run'[r].since = now
    /\ run'[r].began = IF from = "queued" /\ to = "validate" THEN now ELSE run[r].began
    /\ \A s \in Runs : s # r => (s \in faults' <=> s \in faults)

LEMMA Into ==
  ASSUME RunInv, NEW r \in Runs, NEW step \in Steps, NEW p \in Progress,
         run' = [run EXCEPT ![r] = p], p.pc = step, p.since = now,
         now' = now, interrupted' = interrupted,
         p.began = (IF run[r].pc = "queued" /\ step = "validate" THEN now ELSE run[r].began),
         \A s \in Runs : s # r => (s \in faults' <=> s \in faults)
  PROVE  Leads(r, run[r].pc, step) /\ run'[r] = p
  BY MovedTo DEF Leads

LEMMA GotoLeads ==
  ASSUME RunInv, NEW r \in Runs, NEW step \in Steps, Goto(r, step),
         ~(run[r].pc = "queued" /\ step = "validate"),
         now' = now, interrupted' = interrupted,
         \A s \in Runs : s # r => (s \in faults' <=> s \in faults)
  PROVE  Leads(r, run[r].pc, step) /\ run'[r].armed = run[r].armed
<1>. DEFINE p == [run[r] EXCEPT !.pc = step, !.since = now]
<1>1. p \in Progress /\ p.pc = step /\ p.since = now /\ p.began = run[r].began
      /\ p.armed = run[r].armed
  BY Typed DEF Progress, Steps, Calls, Ended
<1>2. run' = [run EXCEPT ![r] = p]
  BY DEF Goto
<1>. HIDE DEF p
<1>. QED BY <1>1, <1>2, Into

LEMMA AbortLeads ==
  ASSUME RunInv, NEW r \in Runs, Abort(r),
         now' = now, interrupted' = interrupted,
         \A s \in Runs : s # r => (s \in faults' <=> s \in faults)
  PROVE  Leads(r, run[r].pc, "deferred_cleanup") /\ run'[r].armed = run[r].armed
<1>. DEFINE p == [run[r] EXCEPT !.pc = "deferred_cleanup", !.since = now, !.outcome = "fail"]
<1>1. p \in Progress /\ p.pc = "deferred_cleanup" /\ p.since = now
      /\ p.began = run[r].began /\ p.armed = run[r].armed
  BY Typed DEF Progress, Steps, Calls, Ended
<1>2. run' = [run EXCEPT ![r] = p]
  BY DEF Abort
<1>3. "deferred_cleanup" \in Steps
  BY DEF Steps, Calls
<1>. HIDE DEF p
<1>. QED BY <1>1, <1>2, <1>3, Into

LEMMA CloseLeads ==
  ASSUME RunInv, NEW r \in Runs,
         NEW outcome \in {"none", "skip", "fail", "verdict", "dropped"}, Close(r, outcome),
         now' = now, interrupted' = interrupted,
         \A s \in Runs : s # r => (s \in faults' <=> s \in faults)
  PROVE  Leads(r, run[r].pc, "done")
<1>. DEFINE p == [run[r] EXCEPT !.pc = "done", !.since = now, !.outcome = outcome]
<1>1. p \in Progress /\ p.pc = "done" /\ p.since = now /\ p.began = run[r].began
  BY Typed DEF Progress, Steps, Calls, Ended
<1>2. run' = [run EXCEPT ![r] = p]
  BY DEF Close
<1>3. "done" \in Steps
  BY DEF Steps, Ended
<1>. HIDE DEF p
<1>. QED BY <1>1, <1>2, <1>3, Into

LEMMA BeginLeads ==
  ASSUME RunInv, NEW r \in Runs, Begin(r)
  PROVE  Leads(r, "queued", "validate") /\ FitsTimeout(r) /\ lock' = lock
<1>. DEFINE p == [run[r] EXCEPT !.pc = "validate", !.since = now, !.began = now]
<1>1. p \in Progress /\ p.pc = "validate" /\ p.since = now /\ p.began = now
  BY Typed DEF Progress, Steps, Calls, Ended
<1>2. run' = [run EXCEPT ![r] = p] /\ run[r].pc = "queued" /\ FitsTimeout(r) /\ lock' = lock
      /\ now' = now /\ interrupted' = interrupted /\ faults' = faults
  BY DEF Begin, pc
<1>3. "validate" \in Steps
  BY DEF Steps, Calls
<1>. HIDE DEF p
<1>. QED BY <1>1, <1>2, <1>3, Into

LEMMA JudgedLeads ==
  ASSUME RunInv, NEW r \in Runs, Judged(r)
  PROVE  Leads(r, "postcheck", "deferred_cleanup") /\ run'[r].armed = run[r].armed
<1>. DEFINE p == [run[r] EXCEPT !.pc = "deferred_cleanup", !.since = now, !.outcome = "verdict"]
<1>1. p \in Progress /\ p.pc = "deferred_cleanup" /\ p.since = now
      /\ p.began = run[r].began /\ p.armed = run[r].armed
  BY Typed DEF Progress, Steps, Calls, Ended
<1>2. run' = [run EXCEPT ![r] = p] /\ run[r].pc = "postcheck"
      /\ now' = now /\ interrupted' = interrupted /\ faults' = faults
  BY DEF Judged, pc
<1>3. "deferred_cleanup" \in Steps
  BY DEF Steps, Calls
<1>. HIDE DEF p
<1>. QED BY <1>1, <1>2, <1>3, Into

LEMMA InjectedLeads ==
  ASSUME RunInv, NEW r \in Runs, Injected(r)
  PROVE  Leads(r, "inject", IF TTL[r] > 0 THEN "ttl" ELSE "observe")
<1>. DEFINE step == IF TTL[r] > 0 THEN "ttl" ELSE "observe"
            p == [run[r] EXCEPT !.pc = step, !.since = now, !.armed = TRUE]
<1>1. step \in Steps
  BY DEF Steps, Waits
<1>2. run' = [run EXCEPT ![r] = p] /\ run[r].pc = "inject"
      /\ now' = now /\ interrupted' = interrupted /\ faults' = faults \cup {r}
  BY DEF Injected, pc
<1>. HIDE DEF step
<1>3. p \in Progress /\ p.pc = step /\ p.since = now /\ p.began = run[r].began
  BY <1>1, Typed DEF Progress
<1>. HIDE DEF p
<1>5. \A s \in Runs : s # r => (s \in faults' <=> s \in faults)
  BY <1>2
<1>4. Leads(r, run[r].pc, step)
  BY <1>1, <1>2, <1>3, <1>5, Into
<1>. QED BY <1>2, <1>4 DEF step

LEMMA InjectFailedLeads ==
  ASSUME RunInv, NEW r \in Runs, InjectFailed(r)
  PROVE  Leads(r, "inject", "deferred_cleanup")
<1>1. PICK effect \in BOOLEAN :
         /\ faults' = IF effect THEN faults \cup {r} ELSE faults
         /\ run' = [run EXCEPT ![r] = [@ EXCEPT !.pc = "deferred_cleanup", !.since = now,
                                                !.outcome = "fail", !.partial = effect]]
  BY DEF InjectFailed
<1>. DEFINE p == [run[r] EXCEPT !.pc = "deferred_cleanup", !.since = now,
                               !.outcome = "fail", !.partial = effect]
<1>2. p \in Progress /\ p.pc = "deferred_cleanup" /\ p.since = now /\ p.began = run[r].began
  BY <1>1, Typed DEF Progress, Steps, Calls
<1>3. run' = [run EXCEPT ![r] = p] /\ run[r].pc = "inject"
      /\ now' = now /\ interrupted' = interrupted
  BY <1>1 DEF InjectFailed, pc
<1>4. "deferred_cleanup" \in Steps
  BY DEF Steps, Calls
<1>5. \A s \in Runs : s # r => (s \in faults' <=> s \in faults)
  BY <1>1
<1>. HIDE DEF p
<1>6. Leads(r, run[r].pc, "deferred_cleanup")
  BY <1>2, <1>3, <1>4, <1>5, Into
<1>. QED BY <1>3, <1>6

LEMMA RevertedLeads ==
  ASSUME RunInv, NEW r \in Runs, Reverted(r)
  PROVE  Leads(r, "cleanup", "renew_reverted")
<1>1. PICK n \in Nat : n = run[r].cleanups + 1
  BY Typed
<1>. DEFINE p == [run[r] EXCEPT !.pc = "renew_reverted", !.since = now, !.cleared = now,
                               !.cleanups = n, !.armed = FALSE]
<1>2. p \in Progress /\ p.pc = "renew_reverted" /\ p.since = now /\ p.began = run[r].began
  BY Typed DEF Progress, Steps, Calls
<1>3. run' = [run EXCEPT ![r] = p] /\ run[r].pc = "cleanup"
      /\ now' = now /\ interrupted' = interrupted /\ faults' = faults \ {r}
  BY <1>1 DEF Reverted, pc
<1>4. "renew_reverted" \in Steps
  BY DEF Steps, Calls
<1>. HIDE DEF p
<1>5. \A s \in Runs : s # r => (s \in faults' <=> s \in faults)
  BY <1>3
<1>6. Leads(r, run[r].pc, "renew_reverted")
  BY <1>2, <1>3, <1>4, <1>5, Into
<1>. QED BY <1>3, <1>6

LEMMA DeferredLeads ==
  ASSUME RunInv, NEW r \in Runs, DeferredCleanup(r)
  PROVE  Leads(r, "deferred_cleanup", "release")
<1>1. /\ run[r].pc = "deferred_cleanup" /\ now' = now /\ interrupted' = interrupted
      /\ \A s \in Runs : s # r => (s \in faults' <=> s \in faults)
      /\ "release" \in Steps
  BY DEF DeferredCleanup, pc, Steps, Calls
<1>2. ASSUME run' = [run EXCEPT ![r] = [@ EXCEPT !.pc = "release", !.since = now,
                                                 !.cleanups = run[r].cleanups + 1]]
      PROVE  Leads(r, "deferred_cleanup", "release")
  <2>1. PICK n \in Nat : n = run[r].cleanups + 1
    BY Typed
  <2>. DEFINE p == [run[r] EXCEPT !.pc = "release", !.since = now, !.cleanups = n]
  <2>2. p \in Progress /\ p.pc = "release" /\ p.since = now /\ p.began = run[r].began
    BY Typed DEF Progress, Steps, Calls
  <2>3. run' = [run EXCEPT ![r] = p]
    BY <1>2, <2>1
  <2>. HIDE DEF p
  <2>4. Leads(r, run[r].pc, "release")
    BY <1>1, <2>2, <2>3, Into
  <2>. QED BY <1>1, <2>4
<1>3. ASSUME run' = [run EXCEPT ![r] = [@ EXCEPT !.pc = "release", !.since = now,
                                                 !.cleanupError = TRUE]]
      PROVE  Leads(r, "deferred_cleanup", "release")
  <2>. DEFINE p == [run[r] EXCEPT !.pc = "release", !.since = now, !.cleanupError = TRUE]
  <2>1. p \in Progress /\ p.pc = "release" /\ p.since = now /\ p.began = run[r].began
    BY Typed DEF Progress, Steps, Calls
  <2>2. run' = [run EXCEPT ![r] = p]
    BY <1>3
  <2>. HIDE DEF p
  <2>4. Leads(r, run[r].pc, "release")
    BY <1>1, <2>1, <2>2, Into
  <2>. QED BY <1>1, <2>4
<1>. QED BY <1>2, <1>3 DEF DeferredCleanup

\* The run has something in the cluster to answer for.
Owing(r) == run[r].armed \/ r \in faults

\* Where a step leads that leaves the locks alone.
Edge(r, from, to) ==
    \/ from = "queued" /\ to \in {"validate", "done"}
    \/ from = "validate" /\ to \in {"acquire", "done"}
    \/ from = "acquire" /\ to = "done"
    \/ from = "precheck" /\ to \in {"inject", "deferred_cleanup"}
    \/ from = "inject" /\ to \in {IF TTL[r] > 0 THEN "ttl" ELSE "observe", "deferred_cleanup"}
    \/ from \in {"ttl", "retry"} /\ to \in {"cleanup", "deferred_cleanup"}
    \/ from = "cleanup" /\ to \in {"renew_reverted", "renew_retry"}
    \/ from = "renew_retry" /\ to = "deferred_cleanup"
    \/ from = "renew_reverted" /\ to = "recover"
    \/ from \in {"recover", "observe"} /\ to \in {"postcheck", "deferred_cleanup"}
    \/ from = "postcheck" /\ to = "deferred_cleanup"
    \/ from = "deferred_cleanup" /\ to = "release"
    \/ to = "killed"

Crosses(r) ==
    \E to \in Steps : /\ Leads(r, run[r].pc, to) /\ Edge(r, run[r].pc, to)
                      /\ lock' = lock
                      /\ Owing(r)' => Owing(r) \/ run[r].pc = "inject"

LEMMA Crossing ==
  ASSUME NEW r \in Runs, NEW to \in Steps, Leads(r, run[r].pc, to),
         Edge(r, run[r].pc, to), lock' = lock,
         Owing(r)' => Owing(r) \/ run[r].pc = "inject"
  PROVE  Crosses(r)
  BY DEF Crosses

\* Steps before the lock is taken.
LEMMA EarlyCrosses ==
  ASSUME RunInv, NEW r \in Runs,
         \/ Reject(r) \/ Begin(r) \/ Drop(r) \/ Validated(r) \/ ValidationFailed(r)
         \/ AcquireFailed(r)
  PROVE  Crosses(r)
<1>1. CASE Reject(r) \/ Drop(r) \/ ValidationFailed(r) \/ AcquireFailed(r)
  <2>1. Leads(r, run[r].pc, "done") /\ Keeps(r, "done")
    BY <1>1, CloseLeads, CloseKeeps DEF Reject, Drop, ValidationFailed, AcquireFailed
  <2>2. /\ run[r].pc \in {"queued", "validate", "acquire"} /\ lock' = lock /\ faults' = faults
        /\ "done" \in Steps
    BY <1>1 DEF Reject, Drop, ValidationFailed, AcquireFailed, pc, Steps, Ended
  <2>3. Edge(r, run[r].pc, "done")
    BY <2>2 DEF Edge
  <2>4. Owing(r)' => Owing(r)
    BY <2>1, <2>2 DEF Owing, Keeps
  <2>. QED BY <2>1, <2>2, <2>3, <2>4, Crossing
<1>2. CASE Begin(r)
  <2>1. Leads(r, run[r].pc, "validate") /\ lock' = lock
    BY <1>2, BeginLeads DEF Begin, pc
  <2>2. run[r].pc = "queued" /\ "validate" \in Steps /\ faults' = faults
    BY <1>2 DEF Begin, pc, Steps, Calls
  <2>3. Edge(r, run[r].pc, "validate")
    BY <2>2 DEF Edge
  <2>4. RunInv'
    BY <1>2, BeginInv
  <2>5. ~Owing(r)'
    BY <2>1, <2>4 DEF RunInv, Accounted, Leads, Owing, Faulty
  <2>. QED BY <2>1, <2>2, <2>3, <2>5, Crossing
<1>3. CASE Validated(r)
  <2>1. Leads(r, run[r].pc, "acquire") /\ run'[r].armed = run[r].armed
    BY <1>3, GotoLeads DEF Validated, Steps, Calls
  <2>2. run[r].pc = "validate" /\ "acquire" \in Steps /\ faults' = faults /\ lock' = lock
    BY <1>3 DEF Validated, pc, Steps, Calls
  <2>3. Edge(r, run[r].pc, "acquire")
    BY <2>2 DEF Edge
  <2>4. Owing(r)' => Owing(r)
    BY <2>1, <2>2 DEF Owing
  <2>. QED BY <2>1, <2>2, <2>3, <2>4, Crossing
<1>. QED BY <1>1, <1>2, <1>3

\* Steps by Goto inside the lock.
LEMMA GotoCrosses ==
  ASSUME RunInv, NEW r \in Runs, NEW step \in Steps, Goto(r, step),
         run[r].pc # "queued", Edge(r, run[r].pc, step),
         now' = now, interrupted' = interrupted, lock' = lock,
         faults' \in {faults, faults \ {r}}
  PROVE  Crosses(r)
<1>1. \A s \in Runs : s # r => (s \in faults' <=> s \in faults)
  OBVIOUS
<1>2. Leads(r, run[r].pc, step) /\ run'[r].armed = run[r].armed
  BY <1>1, GotoLeads
<1>3. Owing(r)' => Owing(r)
  BY <1>2 DEF Owing
<1>. QED BY <1>2, <1>3, Crossing

LEMMA AbortCrosses ==
  ASSUME RunInv, NEW r \in Runs, Abort(r), Edge(r, run[r].pc, "deferred_cleanup"),
         now' = now, interrupted' = interrupted, lock' = lock, faults' = faults
  PROVE  Crosses(r)
<1>1. Leads(r, run[r].pc, "deferred_cleanup") /\ run'[r].armed = run[r].armed
  BY AbortLeads
<1>2. Owing(r)' => Owing(r)
  BY <1>1 DEF Owing
<1>3. "deferred_cleanup" \in Steps
  BY DEF Steps, Calls
<1>. QED BY <1>1, <1>2, <1>3, Crossing

LEMMA InsideGotoCrosses ==
  ASSUME RunInv, NEW r \in Runs,
         \/ PreCheckPassed(r) \/ TTLElapsed(r) \/ RevertFailed(r) \/ RetryElapsed(r)
         \/ RecoveryElapsed(r) \/ NothingToClean(r) \/ Kill(r)
  PROVE  Crosses(r)
<1>1. CASE PreCheckPassed(r)
  BY <1>1, GotoCrosses DEF PreCheckPassed, pc, Edge, Steps, Calls
<1>2. CASE TTLElapsed(r)
  BY <1>2, GotoCrosses DEF TTLElapsed, pc, Edge, Steps, Calls
<1>3. CASE RevertFailed(r)
  BY <1>3, GotoCrosses DEF RevertFailed, pc, Edge, Steps, Calls
<1>4. CASE RetryElapsed(r)
  BY <1>4, GotoCrosses DEF RetryElapsed, pc, Edge, Steps, Calls
<1>5. CASE RecoveryElapsed(r)
  BY <1>5, GotoCrosses DEF RecoveryElapsed, pc, Edge, Steps, Calls
<1>6. CASE NothingToClean(r)
  BY <1>6, GotoCrosses DEF NothingToClean, pc, Edge, Steps, Calls
<1>7. CASE Kill(r)
  BY <1>7, GotoCrosses DEF Kill, Running, pc, Edge, Steps, Ended
<1>. QED BY <1>1, <1>2, <1>3, <1>4, <1>5, <1>6, <1>7

LEMMA RenewFailedCrosses ==
  ASSUME RunInv, NEW r \in Runs, RenewFailed(r)
  PROVE  Crosses(r)
<1>1. /\ run[r].pc \in {"renew_retry", "renew_reverted"}
      /\ now' = now /\ interrupted' = interrupted /\ lock' = lock /\ faults' = faults
      /\ IF run[r].pc = "renew_retry" THEN Abort(r) ELSE Goto(r, "recover")
  BY DEF RenewFailed, pc
<1>2. CASE run[r].pc = "renew_retry"
  BY <1>1, <1>2, AbortCrosses DEF Edge
<1>3. CASE run[r].pc = "renew_reverted"
  BY <1>1, <1>3, GotoCrosses DEF Edge, Steps, Waits
<1>. QED BY <1>1, <1>2, <1>3

LEMMA InsideAbortCrosses ==
  ASSUME RunInv, NEW r \in Runs, PreCheckFailed(r) \/ WaitCancelled(r)
  PROVE  Crosses(r)
<1>1. /\ run[r].pc \in {"precheck"} \cup Waits /\ Abort(r)
      /\ now' = now /\ interrupted' = interrupted /\ lock' = lock /\ faults' = faults
  BY DEF PreCheckFailed, WaitCancelled, pc
<1>2. Edge(r, run[r].pc, "deferred_cleanup")
  BY <1>1 DEF Edge, Waits
<1>. QED BY <1>1, <1>2, AbortCrosses

\* The steps around the fault.
LEMMA FaultCrosses ==
  ASSUME RunInv, NEW r \in Runs,
         Injected(r) \/ InjectFailed(r) \/ Reverted(r) \/ Judged(r) \/ DeferredCleanup(r)
  PROVE  Crosses(r)
<1>. /\ "ttl" \in Steps /\ "observe" \in Steps /\ "deferred_cleanup" \in Steps
     /\ "renew_reverted" \in Steps /\ "release" \in Steps
  BY DEF Steps, Waits, Calls
<1>1. CASE Injected(r)
  <2>. DEFINE step == IF TTL[r] > 0 THEN "ttl" ELSE "observe"
  <2>1. run[r].pc = "inject" /\ lock' = lock /\ step \in Steps
    BY <1>1 DEF Injected, pc
  <2>2. Leads(r, run[r].pc, step)
    BY <1>1, <2>1, InjectedLeads
  <2>3. Edge(r, run[r].pc, step)
    BY <2>1 DEF Edge
  <2>. HIDE DEF step
  <2>. QED BY <2>1, <2>2, <2>3, Crossing
<1>2. CASE InjectFailed(r)
  <2>1. run[r].pc = "inject" /\ lock' = lock
    BY <1>2 DEF InjectFailed, pc
  <2>2. Leads(r, run[r].pc, "deferred_cleanup")
    BY <1>2, <2>1, InjectFailedLeads
  <2>3. Edge(r, run[r].pc, "deferred_cleanup")
    BY <2>1 DEF Edge
  <2>. QED BY <2>1, <2>2, <2>3, Crossing
<1>3. CASE Reverted(r)
  <2>1. run[r].pc = "cleanup" /\ lock' = lock /\ faults' = faults \ {r}
    BY <1>3 DEF Reverted, pc
  <2>2. Leads(r, run[r].pc, "renew_reverted")
    BY <1>3, <2>1, RevertedLeads
  <2>3. Edge(r, run[r].pc, "renew_reverted")
    BY <2>1 DEF Edge
  <2>4. Owing(r)' => Owing(r)
    <3>1. run[r].armed
      BY <2>1 DEF RunInv, Accounted, Faulty
    <3>. QED BY <3>1 DEF Owing
  <2>. QED BY <2>1, <2>2, <2>3, <2>4, Crossing
<1>4. CASE Judged(r)
  <2>1. run[r].pc = "postcheck" /\ lock' = lock /\ faults' = faults
    BY <1>4 DEF Judged, pc
  <2>2. Leads(r, run[r].pc, "deferred_cleanup") /\ run'[r].armed = run[r].armed
    BY <1>4, <2>1, JudgedLeads
  <2>3. Edge(r, run[r].pc, "deferred_cleanup")
    BY <2>1 DEF Edge
  <2>4. Owing(r)' => Owing(r)
    BY <2>1, <2>2 DEF Owing
  <2>. QED BY <2>1, <2>2, <2>3, <2>4, Crossing
<1>5. CASE DeferredCleanup(r)
  <2>1. run[r].pc = "deferred_cleanup" /\ lock' = lock /\ run[r].armed
    BY <1>5 DEF DeferredCleanup, pc
  <2>2. Leads(r, run[r].pc, "release")
    BY <1>5, <2>1, DeferredLeads
  <2>3. Edge(r, run[r].pc, "release")
    BY <2>1 DEF Edge
  <2>4. Owing(r)
    BY <2>1 DEF Owing
  <2>. QED BY <2>1, <2>2, <2>3, <2>4, Crossing
<1>. QED BY <1>1, <1>2, <1>3, <1>4, <1>5

\* Every step but those that write a lock.
LEMMA StepCrosses ==
  ASSUME RunInv, NEW r \in Runs, Step(r) \/ Kill(r),
         ~Acquired(r), ~Renewed(r), ~Released(r)
  PROVE  Crosses(r)
  BY EarlyCrosses, InsideGotoCrosses, RenewFailedCrosses, InsideAbortCrosses, FaultCrosses
  DEF Step

-----------------------------------------------------------------------------
(* Leases *)

\* No step of a run lasts longer than it can.
Punctual == \A r \in Running : now <= run[r].since + Longest(r)

\* What is still to come when a step begins, up to the end of the run's fault
\* or to its next renewal: a release, the deferred cleanup, a revert, ...
Ending == CleanupTimeout + Latency
Reverting == CleanupTimeout + Latency + Ending
Observing(r) == IF TTL[r] > 0 THEN TTL[r] + Reverting ELSE 2 * RecoveryTimeout[r] + Ending

Owed(r) ==
    CASE pc(r) = "precheck" -> 2 * Latency + Observing(r)
      [] pc(r) = "inject" -> Latency + Observing(r)
      [] pc(r) \in {"ttl", "observe"} -> Observing(r)
      [] pc(r) = "cleanup" -> Reverting
      [] pc(r) = "renew_retry" -> Latency + Ending
      [] pc(r) = "retry" -> RetryInterval + Reverting
      [] pc(r) = "postcheck" -> RecoveryTimeout[r] + Ending
      [] pc(r) = "deferred_cleanup" -> Ending
      [] OTHER -> Latency

\* The steps with a fault in place or to come.
Exposed(r) ==
    \/ pc(r) \in {"precheck", "inject"} \cup Faulty
    \/ pc(r) \in {"postcheck", "deferred_cleanup", "release"} /\ Owing(r)

\* A lease outlasts what is still to come.
Leased(r) ==
    /\ pc(r) \in {"queued", "validate", "acquire"} => ~Owns(r)
    /\ pc(r) \in Faulty \ {"observe"} => TTL[r] > 0
    /\ Exposed(r) => /\ Owns(r) /\ lock[Op(r)].dur = LeaseDuration(r)
                     /\ run[r].since + Owed(r) <= lock[Op(r)].until
LeaseInv == Punctual /\ \A r \in Runs : Leased(r)

\* The durations for which it does: a lease covers the run from Acquire to the
\* revert, and, with a TTL, from one renewal to the end of the next attempt.
LongEnough(r) ==
    /\ 2 * Latency + Observing(r) <= LeaseDuration(r)
    /\ TTL[r] > 0 => RetryInterval + Reverting <= LeaseDuration(r)

LEMMA Durations ==
  ASSUME NEW r \in Runs
  PROVE  /\ TTL[r] \in Nat /\ RecoveryTimeout[r] \in Nat /\ Latency \in Nat
         /\ CleanupTimeout \in Nat /\ RetryInterval \in Nat
         /\ Ending \in Nat /\ Reverting \in Nat /\ Observing(r) \in Nat
         /\ LeaseDuration(r) \in Nat
         /\ Longest(r) \in Nat /\ Owed(r) \in Nat
         /\ Longest(r)' \in Nat /\ Owed(r)' \in Nat
<1>1. /\ TTL[r] \in Nat /\ RecoveryTimeout[r] \in Nat /\ Latency \in Nat
      /\ CleanupTimeout \in Nat /\ RetryInterval \in Nat /\ DefaultLeaseDuration \in Nat
  BY OrchestratorAssumption
<1>2. Ending \in Nat /\ Reverting \in Nat
  BY <1>1 DEF Ending, Reverting
<1>3. Observing(r) \in Nat
  BY <1>1, <1>2 DEF Observing
<1>4. LeaseDuration(r) \in Nat
  BY <1>1 DEF LeaseDuration
<1>5. Longest(r) \in Nat /\ Longest(r)' \in Nat
  BY <1>1 DEF Longest
<1>6. Owed(r) \in Nat /\ Owed(r)' \in Nat
  BY <1>1, <1>2, <1>3 DEF Owed
<1>. QED BY <1>1, <1>2, <1>3, <1>4, <1>5, <1>6

\* A step of r keeps everybody punctual.
LEMMA MovePunctual ==
  ASSUME RunInv, Punctual, NEW r \in Runs, Moved(r), now' = now, run'[r].since = now
  PROVE  Punctual'
<1>1. ASSUME NEW s \in Runs, s # r, pc(s)' \notin {"queued"} \cup Ended
      PROVE  now' <= run'[s].since + Longest(s)'
  BY <1>1 DEF Moved, Punctual, Running, pc, Longest
<1>2. now' <= run'[r].since + Longest(r)'
  BY Durations, Typed
<1>. QED BY <1>1, <1>2 DEF Punctual, Running, pc

LEMMA StepPunctual ==
  ASSUME RunInv, Punctual, NEW r \in Runs, Step(r) \/ Kill(r)
  PROVE  Punctual'
<1>1. CASE Acquired(r)
  BY <1>1, GotoKeeps, MovePunctual DEF Acquired, Steps, Calls, Keeps
<1>2. CASE Renewed(r)
  <2>1. Goto(r, RenewNext(r)) /\ RenewNext(r) \in Steps /\ now' = now
    BY <1>2 DEF Renewed, RenewNext, Steps, Waits
  <2>. QED BY <2>1, GotoKeeps, MovePunctual DEF Keeps
<1>3. CASE Released(r)
  <2>1. run[r].outcome \in {"none", "skip", "fail", "verdict", "dropped"}
    BY Typed DEF Progress
  <2>. QED BY <1>3, <2>1, CloseKeeps, MovePunctual DEF Released, Keeps
<1>4. CASE ~Acquired(r) /\ ~Renewed(r) /\ ~Released(r)
  BY <1>4, StepCrosses, MovePunctual DEF Crosses, Leads
<1>. QED BY <1>1, <1>2, <1>3, <1>4

LEMMA TickPunctual ==
  ASSUME RunInv, Punctual, Tick
  PROVE  Punctual'
<1>1. now' = now + 1 /\ run' = run
  BY DEF Tick
<1>2. ASSUME NEW r \in Running PROVE now' <= run'[r].since + Longest(r)'
  <2>1. ~(now >= run[r].since + Longest(r)) /\ r \in Runs
    BY <1>2 DEF Tick, Elapsed, Running
  <2>2. Longest(r)' = Longest(r)
    BY <1>1 DEF Longest, pc
  <2>. QED BY <1>1, <2>1, <2>2, Durations, Typed
<1>3. Running' = Running
  BY <1>1 DEF Running, pc
<1>. QED BY <1>2, <1>3 DEF Punctual

LEMMA NextPunctual == ASSUME RunInv, Punctual, [Next]_vars PROVE Punctual'
<1>1. CASE Interrupt \/ UNCHANGED vars
  BY <1>1 DEF Interrupt, vars, Punctual, Running, pc, Longest
<1>. QED BY <1>1, StepPunctual, TickPunctual DEF Next

LEMMA OpType == \A r \in Runs : Op(r) \in Operators /\ NameOf[r] \in Names /\ NameOf[r] # Free
  BY OrchestratorAssumption DEF Op

\* An exposed run has its operator locked, and the lock has not expired.
LEMMA ExposedCovered ==
  ASSUME RunInv, LeaseInv, NEW r \in Runs, Exposed(r)
  PROVE  Owns(r) /\ ~Expired(Op(r)) /\ Covered(r)
<1>1. Owns(r) /\ run[r].since + Owed(r) <= lock[Op(r)].until
  BY DEF LeaseInv, Leased
<1>0. (pc(r) = "observe" => TTL[r] = 0) /\ TTL[r] >= 0
  BY Durations DEF RunInv, Accounted, pc
<1>2. Longest(r) <= Owed(r)
  BY <1>0, Durations DEF Exposed, Faulty, Longest, Owed, Observing, Reverting, Ending
<1>3. r \in Running
  BY DEF Exposed, Running, Faulty, Ended, pc
<1>4. now <= run[r].since + Longest(r)
  BY <1>3 DEF LeaseInv, Punctual
<1>5. lock[Op(r)].until \in Nat
  BY OpType DEF RunInv, TypeOK, Locks
<1>6. now <= lock[Op(r)].until
  BY <1>1, <1>2, <1>4, <1>5, Typed, Durations
<1>. QED BY <1>1, <1>5, <1>6, Typed DEF Expired, Covered

\* The lease of another run is untouched by a step that leaves its lock alone,
\* and so is that of a run that has none to lose.
LEMMA OtherLeased ==
  ASSUME RunInv, LeaseInv, NEW r \in Runs, NEW s \in Runs, s # r, Moved(r),
         \A q \in Runs : q # r => (q \in faults' <=> q \in faults),
         \/ lock'[Op(s)] = lock[Op(s)]
         \/ ~Exposed(s) /\ lock'[Op(s)].holder # NameOf[s]
  PROVE  Leased(s)'
<1>1. run'[s] = run[s] /\ (s \in faults' <=> s \in faults) /\ Leased(s)
  BY DEF Moved, LeaseInv
<1>2. /\ pc(s)' = pc(s) /\ (Exposed(s)' <=> Exposed(s)) /\ Owed(s)' = Owed(s)
      /\ run'[s].since = run[s].since /\ Op(s)' = Op(s)
  BY <1>1 DEF pc, Exposed, Owed, Owing, Op
<1>3. CASE lock'[Op(s)] = lock[Op(s)]
  BY <1>1, <1>2, <1>3 DEF Leased, Owns
<1>4. CASE ~Exposed(s) /\ lock'[Op(s)].holder # NameOf[s]
  BY <1>1, <1>2, <1>4 DEF Leased, Owns
<1>. QED BY <1>3, <1>4

\* A step that leaves the locks alone has the time it needs.
LEMMA CrossLeased ==
  ASSUME RunInv, LeaseInv, NEW r \in Runs, Crosses(r)
  PROVE  Leased(r)'
<1>1. PICK to \in Steps : /\ Leads(r, run[r].pc, to) /\ Edge(r, run[r].pc, to)
                          /\ lock' = lock
                          /\ Owing(r)' => Owing(r) \/ run[r].pc = "inject"
  BY DEF Crosses
<1>2. run'[r].pc = to /\ run'[r].since = now /\ now' = now
  BY <1>1 DEF Leads
<1>3. Leased(r) /\ (run[r].pc \in Clear => ~Owing(r)) /\ (run[r].pc = "observe" => TTL[r] = 0)
  BY DEF LeaseInv, RunInv, Accounted, Clear, Faulty, Owing
<1>4. pc(r)' \in {"queued", "validate", "acquire"} => ~Owns(r)'
  BY <1>1, <1>2, <1>3 DEF pc, Edge, Leased, Owns, Op
<1>5. pc(r)' \in Faulty \ {"observe"} => TTL[r] > 0
  BY <1>1, <1>2, <1>3 DEF pc, Edge, Leased, Faulty
<1>6. ASSUME Exposed(r)'
      PROVE  /\ Owns(r)' /\ lock'[Op(r)].dur = LeaseDuration(r)
             /\ run'[r].since + Owed(r)' <= lock'[Op(r)].until
  <2>1. Exposed(r)
    BY <1>1, <1>2, <1>3, <1>6 DEF Exposed, Edge, Faulty, Clear, pc
  <2>2. Owns(r) /\ lock[Op(r)].dur = LeaseDuration(r) /\ run[r].since + Owed(r) <= lock[Op(r)].until
    BY <1>3, <2>1 DEF Leased
  <2>3. now <= run[r].since + Longest(r)
    BY <2>1 DEF LeaseInv, Punctual, Exposed, Running, Faulty, Ended, pc
  <2>4. Longest(r) + Owed(r)' <= Owed(r)
    BY <1>1, <1>2, <1>3, <1>6, <2>1, Durations
    DEF Exposed, Edge, Longest, Owed, Faulty, Clear, pc, Observing, Reverting, Ending, Leased
  <2>5. lock[Op(r)].until \in Nat
    BY OpType DEF RunInv, TypeOK, Locks
  <2>6. now + Owed(r)' <= lock[Op(r)].until
    BY <2>2, <2>3, <2>4, <2>5, Typed, Durations
  <2>. QED BY <1>1, <1>2, <2>2, <2>6 DEF Owns, Op
<1>. QED BY <1>4, <1>5, <1>6 DEF Leased

LEMMA CrossLeases ==
  ASSUME RunInv, LeaseInv, NEW r \in Runs, Crosses(r)
  PROVE  \A s \in Runs : Leased(s)'
<1>1. Moved(r) /\ lock' = lock /\ \A q \in Runs : q # r => (q \in faults' <=> q \in faults)
  BY DEF Crosses, Leads
<1>. QED BY <1>1, CrossLeased, OtherLeased

LEMMA AcquiredLeases ==
  ASSUME RunInv, LeaseInv, Distributed, DistinctNames, NEW r \in Runs, LongEnough(r), Acquired(r)
  PROVE  \A s \in Runs : Leased(s)'
<1>. DEFINE l == [holder |-> NameOf[r], dur |-> LeaseDuration(r),
                  until |-> now + LeaseDuration(r)]
<1>1. /\ run[r].pc = "acquire" /\ now' = now /\ faults' = faults
      /\ Keeps(r, "precheck")
  BY GotoKeeps DEF Acquired, pc, Steps, Calls
<1>2. ~Owns(r)
  BY <1>1 DEF LeaseInv, Leased, pc
<1>3. /\ lock' = [lock EXCEPT ![Op(r)] = l]
      /\ lock[Op(r)].holder = Free \/ Expired(Op(r))
  BY <1>2 DEF Acquired, Owns
<1>4. lock'[Op(r)] = l /\ \A op \in Operators : op # Op(r) => lock'[op] = lock[op]
  BY <1>3, OpType DEF RunInv, TypeOK
<1>5. l.holder = NameOf[r] /\ l.dur = LeaseDuration(r) /\ l.until = now + LeaseDuration(r)
  OBVIOUS
<1>. HIDE DEF l
<1>6. Leased(r)'
  <2>1. run'[r].pc = "precheck" /\ run'[r].since = now
    BY <1>1 DEF Keeps
  <2>2. Owed(r)' <= LeaseDuration(r)
    BY <2>1 DEF Owed, pc, LongEnough
  <2>3. run'[r].since + Owed(r)' <= lock'[Op(r)].until
    BY <1>4, <1>5, <2>1, <2>2, Typed, Durations
  <2>4. Owns(r)'
    BY <1>4, <1>5 DEF Owns, Op
  <2>. QED BY <1>4, <1>5, <2>1, <2>3, <2>4 DEF Leased, pc, Faulty, Op
<1>7. ASSUME NEW s \in Runs, s # r PROVE Leased(s)'
  <2>1. CASE Op(s) = Op(r)
    <3>1. ~Exposed(s)
      BY <2>1, <1>3, ExposedCovered, OpType DEF Owns
    <3>2. lock'[Op(s)].holder # NameOf[s]
      BY <2>1, <1>4, <1>5, <1>7 DEF DistinctNames
    <3>. QED BY <1>1, <1>7, <3>1, <3>2, OtherLeased DEF Keeps
  <2>2. CASE Op(s) # Op(r)
    BY <1>1, <1>4, <1>7, <2>2, OpType, OtherLeased DEF Keeps
  <2>. QED BY <2>1, <2>2
<1>. QED BY <1>6, <1>7

LEMMA RenewedLeases ==
  ASSUME RunInv, LeaseInv, Distributed, DistinctNames, NEW r \in Runs, LongEnough(r), Renewed(r)
  PROVE  \A s \in Runs : Leased(s)'
<1>1. /\ run[r].pc \in {"renew_retry", "renew_reverted"} /\ now' = now /\ faults' = faults
      /\ Owns(r) /\ Goto(r, RenewNext(r)) /\ RenewNext(r) \in Steps
  BY DEF Renewed, pc, RenewNext, Steps, Waits
<1>2. Keeps(r, RenewNext(r))
  BY <1>1, GotoKeeps
<1>3. PICK n \in Nat : n = now + lock[Op(r)].dur
  BY OpType, Typed DEF RunInv, TypeOK, Locks
<1>. DEFINE l == [lock[Op(r)] EXCEPT !.until = n]
<1>4. lock' = [lock EXCEPT ![Op(r)] = l]
  BY <1>3 DEF Renewed
<1>5. lock'[Op(r)] = l /\ \A op \in Operators : op # Op(r) => lock'[op] = lock[op]
  BY <1>4, OpType DEF RunInv, TypeOK
<1>6. l.holder = NameOf[r] /\ l.dur = lock[Op(r)].dur /\ l.until = n
  BY <1>1, OpType DEF Owns, RunInv, TypeOK, Locks
<1>. HIDE DEF l
<1>7. Leased(r)'
  <2>1. CASE run[r].pc = "renew_retry"
    <3>1. run'[r].pc = "retry" /\ run'[r].since = now
      BY <1>2, <2>1 DEF Keeps, RenewNext, pc
    <3>2. TTL[r] > 0 /\ lock[Op(r)].dur = LeaseDuration(r)
      BY <2>1 DEF LeaseInv, Leased, Faulty, Exposed, pc
    <3>3. Owed(r)' <= LeaseDuration(r)
      BY <3>1, <3>2 DEF Owed, pc, LongEnough
    <3>4. run'[r].since + Owed(r)' <= lock'[Op(r)].until
      BY <1>3, <1>5, <1>6, <3>1, <3>2, <3>3, Typed, Durations
    <3>5. Owns(r)'
      BY <1>5, <1>6 DEF Owns, Op
    <3>. QED BY <1>5, <1>6, <3>1, <3>2, <3>4, <3>5 DEF Leased, pc, Op
  <2>2. CASE run[r].pc = "renew_reverted"
    <3>1. run'[r].pc = "recover"
      BY <1>2, <2>2 DEF Keeps, RenewNext, pc
    <3>. QED BY <3>1 DEF Leased, Exposed, Faulty, pc
  <2>. QED BY <1>1, <2>1, <2>2
<1>8. ASSUME NEW s \in Runs, s # r PROVE Leased(s)'
  <2>1. CASE Op(s) = Op(r)
    <3>1. lock[Op(s)].holder # NameOf[s] /\ lock'[Op(s)].holder # NameOf[s]
      BY <2>1, <1>1, <1>5, <1>6, <1>8 DEF DistinctNames, Owns
    <3>2. ~Exposed(s)
      BY <3>1, ExposedCovered DEF Owns
    <3>. QED BY <1>1, <1>2, <1>8, <3>1, <3>2, OtherLeased DEF Keeps
  <2>2. CASE Op(s) # Op(r)
    BY <1>1, <1>2, <1>5, <1>8, <2>2, OpType, OtherLeased DEF Keeps
  <2>. QED BY <2>1, <2>2
<1>. QED BY <1>7, <1>8

LEMMA ReleasedLeases ==
  ASSUME RunInv, LeaseInv, DistinctNames, NEW r \in Runs, Released(r)
  PROVE  \A s \in Runs : Leased(s)'
<1>1. /\ now' = now /\ faults' = faults /\ Keeps(r, "done")
      /\ \/ lock' = lock
         \/ Owns(r) /\ lock' = [lock EXCEPT ![Op(r)] = Unlocked]
  <2>1. run[r].outcome \in {"none", "skip", "fail", "verdict", "dropped"}
    BY Typed DEF Progress
  <2>. QED BY <2>1, CloseKeeps DEF Released
<1>2. Leased(r)'
  BY <1>1 DEF Keeps, Leased, Exposed, Faulty, pc
<1>3. ASSUME NEW s \in Runs, s # r PROVE Leased(s)'
  <2>1. CASE lock' = lock \/ Op(s) # Op(r)
    <3>1. lock'[Op(s)] = lock[Op(s)]
      BY <1>1, <2>1, OpType DEF RunInv, TypeOK
    <3>. QED BY <1>1, <1>3, <3>1, OtherLeased DEF Keeps
  <2>2. CASE Owns(r) /\ lock' = [lock EXCEPT ![Op(r)] = Unlocked] /\ Op(s) = Op(r)
    <3>1. lock'[Op(s)].holder = Free
      BY <2>2, OpType DEF RunInv, TypeOK, Unlocked
    <3>2. lock[Op(s)].holder # NameOf[s]
      BY <2>2, <1>3 DEF DistinctNames, Owns
    <3>3. ~Exposed(s)
      BY <3>2, ExposedCovered DEF Owns
    <3>. QED BY <1>1, <1>3, <3>1, <3>3, OpType, OtherLeased DEF Keeps
  <2>. QED BY <1>1, <2>1, <2>2
<1>. QED BY <1>2, <1>3

LEMMA NextLease ==
  ASSUME RunInv, LeaseInv, Distributed, DistinctNames, \A r \in Runs : LongEnough(r),
         [Next]_vars
  PROVE  LeaseInv'
<1>1. Punctual'
  BY NextPunctual DEF LeaseInv
<1>2. ASSUME NEW r \in Runs, Step(r) \/ Kill(r) PROVE \A s \in Runs : Leased(s)'
  BY <1>2, AcquiredLeases, RenewedLeases, ReleasedLeases, StepCrosses, CrossLeases
<1>3. CASE Interrupt \/ Tick \/ UNCHANGED vars
  <2>1. run' = run /\ lock' = lock /\ faults' = faults
    BY <1>3 DEF Interrupt, Tick, vars
  <2>2. ASSUME NEW s \in Runs PROVE Leased(s)'
    <3>1. (Exposed(s)' <=> Exposed(s)) /\ Owed(s)' = Owed(s)
      BY <2>1 DEF Exposed, Owing, Owed, pc
    <3>. QED BY <2>1, <3>1 DEF LeaseInv, Leased, Owns, Op, pc
  <2>. QED BY <1>1, <2>2 DEF LeaseInv
<1>. QED BY <1>1, <1>2, <1>3 DEF Next, LeaseInv

LEMMA InitLease == Init => LeaseInv
<1>. SUFFICES ASSUME Init PROVE LeaseInv
  OBVIOUS
<1>1. ASSUME NEW r \in Runs PROVE pc(r) = "queued" /\ r \notin Running /\ ~Owns(r)
  BY OpType DEF Init, pc, Running, Unlocked, Owns
<1>2. ASSUME NEW r \in Runs PROVE Leased(r)
  BY <1>1 DEF Leased, Exposed, Faulty
<1>. QED BY <1>1, <1>2 DEF LeaseInv, Punctual, Running

-----------------------------------------------------------------------------
(* The timeout *)

\* What a run without failures has spent when a step begins, and in all.
Spent(r) ==
    CASE pc(r) = "validate" -> 0
      [] pc(r) = "acquire" -> Latency
      [] pc(r) = "precheck" -> 2 * Latency
      [] pc(r) = "inject" -> 3 * Latency
      [] pc(r) \in {"ttl", "observe"} -> 4 * Latency
      [] pc(r) = "cleanup" -> 4 * Latency + TTL[r]
      [] pc(r) = "renew_reverted" -> 4 * Latency + TTL[r] + CleanupTimeout
      [] pc(r) = "recover" -> 5 * Latency + TTL[r] + CleanupTimeout
      [] OTHER -> RecoveryTimeout[r] + (IF TTL[r] > 0 THEN 5 * Latency + TTL[r] + CleanupTimeout
                                                      ELSE 4 * Latency)
Needed(r) ==
    2 * RecoveryTimeout[r] + (IF TTL[r] > 0 THEN 5 * Latency + TTL[r] + CleanupTimeout
                                            ELSE 4 * Latency)

InTime(r) ==
    /\ FitsTimeout(r)
    /\ pc(r) \notin {"renew_retry", "retry"}
    /\ pc(r) \in {"ttl", "cleanup", "renew_reverted", "recover"} => TTL[r] > 0
    /\ run[r].since <= run[r].began + Spent(r)
TimeInv ==
    /\ Punctual
    /\ budget <= MaxFailures
    /\ ~interrupted /\ budget = MaxFailures =>
          \A r \in Running : pc(r) \in UnderCtx => InTime(r)

LEMMA TimeTypes ==
  ASSUME RunInv, NEW r \in Runs
  PROVE  /\ Spent(r) \in Nat /\ Spent(r)' \in Nat /\ Needed(r) \in Nat /\ Timeout \in Nat
         /\ run[r].began \in Nat /\ budget \in Nat /\ MaxFailures \in Nat
  BY Durations, Typed, OrchestratorAssumption
  DEF Spent, Needed, Progress, RunInv, TypeOK

LEMMA WithinTimeout ==
  ASSUME RunInv, TimeInv, NEW r \in Running, ~interrupted, budget = MaxFailures,
         pc(r) \in UnderCtx, FitsTimeout(r) => Needed(r) < Timeout
  PROVE  ~CtxDone(r)
<1>1. r \in Runs /\ InTime(r) /\ now <= run[r].since + Longest(r)
  BY DEF TimeInv, Punctual, Running
<1>2. TTL[r] = 0 <=> ~(TTL[r] > 0)
  BY <1>1, Durations
<1>3. pc(r) = "observe" => TTL[r] = 0
  BY <1>1 DEF RunInv, Accounted, pc
<1>4. Spent(r) + Longest(r) <= Needed(r)
  BY <1>1, <1>2, <1>3, Durations DEF Spent, Longest, Needed, InTime, UnderCtx, Waits
<1>5. now < run[r].began + Timeout
  BY <1>1, <1>4, TimeTypes, Durations, Typed DEF InTime
<1>. QED BY <1>1, <1>5, TimeTypes, Typed DEF CtxDone

LEMMA BudgetShrinks ==
  ASSUME RunInv, NEW r \in Runs, Step(r) \/ Kill(r)
  PROVE  budget' <= budget
<1>1. budget \in Nat
  BY DEF RunInv, TypeOK
<1>2. Spend => budget' <= budget
  BY <1>1 DEF Spend
<1>3. budget' = budget \/ Spend
  BY DEF Step, Kill, Reject, Begin, Drop, Validated, ValidationFailed, Acquired,
     AcquireFailed, PreCheckPassed, PreCheckFailed, Injected, InjectFailed, TTLElapsed,
     WaitCancelled, Reverted, RevertFailed, Renewed, RenewFailed, RetryElapsed,
     RecoveryElapsed, Judged, DeferredCleanup, NothingToClean, Released, Fails
<1>. QED BY <1>1, <1>2, <1>3

\* A run that goes on has spent no more than it may.
LEMMA LeadsInTime ==
  ASSUME RunInv, TimeInv, NEW r \in Runs, NEW to \in Steps,
         Leads(r, run[r].pc, to), to \in UnderCtx,
         ~interrupted, budget = MaxFailures,
         \/ Edge(r, run[r].pc, to) /\ run[r].pc # "queued" /\ to # "renew_retry"
         \/ run[r].pc = "acquire" /\ to = "precheck"
         \/ run[r].pc = "renew_reverted" /\ to = "recover"
  PROVE  InTime(r)'
<1>1. run'[r].pc = to /\ run'[r].since = now /\ run'[r].began = run[r].began
  BY DEF Leads, Edge
<1>2. r \in Running /\ pc(r) \in UnderCtx
  BY DEF Edge, UnderCtx, Waits, Running, Ended, pc
<1>3. InTime(r) /\ now <= run[r].since + Longest(r)
  BY <1>2 DEF TimeInv, Punctual
<1>4. pc(r) = "observe" => TTL[r] = 0
  BY DEF RunInv, Accounted, pc
<1>5. pc(r)' \notin {"renew_retry", "retry"}
  BY <1>1, <1>3 DEF Edge, InTime, pc, UnderCtx, Waits
<1>6. pc(r)' \in {"ttl", "cleanup", "renew_reverted", "recover"} => TTL[r] > 0
  BY <1>1, <1>3 DEF Edge, InTime, pc
<1>7. Spent(r) + Longest(r) <= Spent(r)'
  <2>1. TTL[r] = 0 <=> ~(TTL[r] > 0)
    BY Durations
  <2>. QED BY <1>1, <1>2, <1>3, <1>4, <2>1, Durations
       DEF Edge, InTime, Spent, Longest, pc, UnderCtx, Waits
<1>8. run'[r].since <= run'[r].began + Spent(r)'
  BY <1>1, <1>3, <1>7, TimeTypes, Durations, Typed DEF InTime
<1>9. FitsTimeout(r)'
  BY <1>3 DEF InTime, FitsTimeout
<1>. QED BY <1>5, <1>6, <1>8, <1>9 DEF InTime

LEMMA BeginInTime ==
  ASSUME RunInv, NEW r \in Runs, Begin(r)
  PROVE  InTime(r)'
<1>1. /\ run'[r].pc = "validate" /\ run'[r].since = now /\ run'[r].began = now
      /\ FitsTimeout(r)
  BY BeginLeads DEF Leads
<1>. QED BY <1>1, Typed DEF InTime, Spent, pc, FitsTimeout

LEMMA StepInTime ==
  ASSUME RunInv, TimeInv, NEW r \in Runs, Step(r) \/ Kill(r),
         FitsTimeout(r) => Needed(r) < Timeout
  PROVE  TimeInv'
<1>1. Punctual' /\ budget' <= budget
  BY StepPunctual, BudgetShrinks DEF TimeInv
<1>2. RunInv'
  BY StepInv, KillInv
<1>3. budget' <= MaxFailures /\ (budget' = MaxFailures => budget = MaxFailures)
  BY <1>1, <1>2, TimeTypes DEF TimeInv, RunInv, TypeOK
<1>4. Moved(r) /\ interrupted' = interrupted
  <2>1. CASE Acquired(r)
    BY <2>1, GotoKeeps DEF Acquired, Keeps, Steps, Calls
  <2>2. CASE Renewed(r)
    BY <2>2, GotoKeeps DEF Renewed, Keeps, RenewNext, Steps, Waits
  <2>3. CASE Released(r)
    <3>1. run[r].outcome \in {"none", "skip", "fail", "verdict", "dropped"}
      BY Typed DEF Progress
    <3>. QED BY <2>3, <3>1, CloseKeeps DEF Released, Keeps
  <2>4. CASE ~Acquired(r) /\ ~Renewed(r) /\ ~Released(r)
    BY <2>4, StepCrosses DEF Crosses, Leads
  <2>. QED BY <2>1, <2>2, <2>3, <2>4
<1>5. ASSUME ~interrupted, budget = MaxFailures, budget' = MaxFailures, pc(r)' \in UnderCtx
      PROVE  InTime(r)'
  <2>1. CASE Begin(r)
    BY <2>1, BeginInTime
  <2>2. CASE Acquired(r)
    <3>1. Leads(r, run[r].pc, "precheck") /\ run[r].pc = "acquire" /\ "precheck" \in Steps
      BY <2>2, GotoLeads DEF Acquired, pc, Steps, Calls
    <3>. QED BY <1>5, <3>1, LeadsInTime DEF UnderCtx
  <2>3. CASE Renewed(r)
    <3>1. /\ run[r].pc \in {"renew_retry", "renew_reverted"} /\ r \in Running
          /\ pc(r) \in UnderCtx
      BY <2>3 DEF Renewed, pc, Running, Ended, UnderCtx
    <3>2. run[r].pc = "renew_reverted"
      BY <1>5, <3>1 DEF TimeInv, InTime, pc
    <3>3. Leads(r, run[r].pc, "recover") /\ "recover" \in Steps
      BY <2>3, <3>2, GotoLeads DEF Renewed, RenewNext, pc, Steps, Waits
    <3>. QED BY <1>5, <3>2, <3>3, LeadsInTime DEF UnderCtx, Waits
  <2>4. CASE Released(r)
    <3>1. run'[r].pc = "done"
      <4>1. run[r].outcome \in {"none", "skip", "fail", "verdict", "dropped"}
        BY Typed DEF Progress
      <4>. QED BY <2>4, <4>1, CloseKeeps DEF Released, Keeps
    <3>. QED BY <1>5, <3>1 DEF UnderCtx, Waits, pc
  <2>5. CASE ~Begin(r) /\ ~Acquired(r) /\ ~Renewed(r) /\ ~Released(r)
    <3>1. PICK to \in Steps : Leads(r, run[r].pc, to) /\ Edge(r, run[r].pc, to)
      BY <2>5, StepCrosses DEF Crosses
    <3>2. to \in UnderCtx
      BY <1>5, <3>1 DEF Leads, pc
    <3>3. run[r].pc # "queued"
      <4>. SUFFICES ASSUME run[r].pc = "queued" PROVE FALSE
        OBVIOUS
      <4>1. Reject(r) \/ Drop(r)
        BY <2>5 DEF Step, Kill, Running, pc, Validated, ValidationFailed, AcquireFailed,
           PreCheckPassed, PreCheckFailed, Injected, InjectFailed, TTLElapsed, WaitCancelled,
           Waits, Reverted, RevertFailed, RenewFailed, RetryElapsed, RecoveryElapsed, Judged,
           DeferredCleanup, NothingToClean
      <4>2. run'[r].pc = "done"
        BY <4>1, CloseKeeps DEF Reject, Drop, Keeps
      <4>. QED BY <4>2, <1>5 DEF UnderCtx, Waits, pc
    <3>4. to # "renew_retry"
      <4>. SUFFICES ASSUME to = "renew_retry" PROVE FALSE
        OBVIOUS
      <4>1. run[r].pc = "cleanup" /\ run'[r].pc = "renew_retry"
        BY <3>1, <3>3 DEF Edge, Leads
      <4>2. RevertFailed(r)
        <5>1. ~Kill(r)
          BY <4>1, GotoKeeps DEF Kill, Keeps, Steps, Ended
        <5>2. ~Reverted(r)
          BY <4>1, RevertedLeads DEF Leads
        <5>3. ~WaitCancelled(r)
          BY <4>1 DEF WaitCancelled, Waits, pc
        <5>. QED BY <2>5, <4>1, <5>1, <5>2, <5>3
             DEF Step, pc, Reject, Drop, Validated, ValidationFailed, AcquireFailed,
             PreCheckPassed, PreCheckFailed, Injected, InjectFailed, TTLElapsed,
             RenewFailed, RetryElapsed, RecoveryElapsed, Judged,
             DeferredCleanup, NothingToClean
      <4>3. ~CtxDone(r)
        BY <1>5, <4>1, WithinTimeout DEF Running, Ended, UnderCtx, pc
      <4>4. Spend
        BY <4>2, <4>3 DEF RevertFailed, Fails
      <4>. QED BY <4>4, <1>5, TimeTypes DEF Spend
    <3>. QED BY <1>5, <3>1, <3>2, <3>3, <3>4, LeadsInTime
  <2>. QED BY <2>1, <2>2, <2>3, <2>4, <2>5
<1>6. ASSUME ~interrupted, budget = MaxFailures, NEW s \in Running', s # r,
             pc(s)' \in UnderCtx
      PROVE  InTime(s)'
  <2>1. s \in Runs /\ run'[s] = run[s]
    BY <1>4, <1>6 DEF Running, Moved
  <2>2. pc(s)' = pc(s) /\ s \in Running /\ Spent(s)' = Spent(s)
    BY <2>1, <1>6 DEF pc, Running, Spent
  <2>3. InTime(s)
    BY <2>2, <1>6 DEF TimeInv
  <2>. QED BY <2>1, <2>2, <2>3 DEF InTime, FitsTimeout
<1>. QED BY <1>1, <1>3, <1>4, <1>5, <1>6 DEF TimeInv

LEMMA NextInTime ==
  ASSUME RunInv, TimeInv, \A r \in Runs : FitsTimeout(r) => Needed(r) < Timeout, [Next]_vars
  PROVE  TimeInv'
<1>1. CASE Interrupt
  BY <1>1, NextPunctual DEF Interrupt, Next, TimeInv
<1>2. CASE Tick \/ UNCHANGED vars
  <2>1. run' = run /\ budget' = budget /\ interrupted' = interrupted
    BY <1>2 DEF Tick, vars
  <2>2. Running' = Running
    BY <2>1 DEF Running, pc
  <2>3. ASSUME NEW r \in Runs, InTime(r) PROVE InTime(r)'
    <3>1. Spent(r)' = Spent(r) /\ pc(r)' = pc(r)
      BY <2>1 DEF Spent, pc
    <3>. QED BY <2>1, <2>3, <3>1 DEF InTime, FitsTimeout
  <2>4. Punctual'
    BY NextPunctual DEF TimeInv
  <2>5. ~interrupted /\ budget = MaxFailures =>
            \A r \in Running : pc(r) \in UnderCtx => InTime(r)'
    BY <2>3 DEF TimeInv, Running
  <2>. QED BY <2>1, <2>2, <2>4, <2>5 DEF TimeInv, pc
<1>. QED BY <1>1, <1>2, StepInTime DEF Next

LEMMA InitTime == Init => TimeInv
<1>. SUFFICES ASSUME Init PROVE TimeInv
  OBVIOUS
<1>1. Running = {}
  BY DEF Init, pc, Running
<1>. QED BY <1>1, OrchestratorAssumption DEF TimeInv, Punctual, Init

-----------------------------------------------------------------------------
(* The refinement of ExperimentLock *)

LockOwner(op) == IF Expired(op) THEN Free ELSE lock[op].holder

LEMMA LockSteps ==
  ASSUME NEW op \in Operators
  PROVE  /\ \A r \in Runs :
              /\ LockOwner(op) \in {Free, NameOf[r]} /\ LockOwner(op)' = NameOf[r]
              /\ Inside(op)' \in {Inside(op), Inside(op) \cup {r}}
              => LockOf(op)!LockNext
         /\ \A r \in Runs :
              Inside(op)' = Inside(op) \ {r} /\ LockOwner(op)' = LockOwner(op)
              => LockOf(op)!LockNext
         /\ LockOwner(op)' = Free /\ Inside(op)' = {} => LockOf(op)!LockNext
         /\ LockOwner(op)' = LockOwner(op) /\ Inside(op)' = Inside(op)
            => UNCHANGED LockOf(op)!lockVars
  BY DEF LockOwner, LockOf!LockNext, LockOf!Grant, LockOf!Leave, LockOf!Vacate, LockOf!lockVars

LEMMA InsideIff ==
  ASSUME NEW op \in Operators
  PROVE  /\ Inside(op) \subseteq Runs /\ Inside(op)' \subseteq Runs
         /\ \A s \in Runs : s \in Inside(op) <=>
               /\ Op(s) = op /\ lock[op].holder = NameOf[s] /\ ~Expired(op)
               /\ run[s].pc \notin {"queued", "validate", "acquire", "done", "killed"}
         /\ \A s \in Runs : s \in Inside(op)' <=>
               /\ Op(s) = op /\ lock'[op].holder = NameOf[s] /\ ~Expired(op)'
               /\ run'[s].pc \notin {"queued", "validate", "acquire", "done", "killed"}
  BY DEF Inside, Running, Ended, pc, Covered, Owns, Expired, Op

LEMMA ElsewhereKept ==
  ASSUME RunInv, NEW r \in Runs, NEW op \in Operators, Moved(r), now' = now,
         lock'[op] = lock[op], Op(r) # op
  PROVE  UNCHANGED LockOf(op)!lockVars
<1>1. Expired(op)' <=> Expired(op)
  BY DEF Expired
<1>2. LockOwner(op)' = LockOwner(op)
  BY <1>1 DEF LockOwner
<1>3. \A s \in Runs : s \in Inside(op)' <=> s \in Inside(op)
  BY <1>1, InsideIff DEF Moved
<1>4. Inside(op)' = Inside(op)
  BY <1>3, InsideIff
<1>. QED BY <1>2, <1>4, LockSteps

LEMMA CrossesKeepLock ==
  ASSUME RunInv, NEW r \in Runs, Crosses(r), NEW op \in Operators
  PROVE  LockOf(op)!LockNext \/ UNCHANGED LockOf(op)!lockVars
<1>1. PICK to \in Steps : Leads(r, run[r].pc, to) /\ Edge(r, run[r].pc, to) /\ lock' = lock
  BY DEF Crosses
<1>2. Moved(r) /\ now' = now /\ run'[r].pc = to
  BY <1>1 DEF Leads
<1>3. Expired(op)' <=> Expired(op)
  BY <1>1, <1>2 DEF Expired
<1>4. LockOwner(op)' = LockOwner(op)
  BY <1>1, <1>3 DEF LockOwner
<1>5. \A s \in Runs : s # r => (s \in Inside(op)' <=> s \in Inside(op))
  BY <1>1, <1>2, <1>3, InsideIff DEF Moved
<1>6. r \in Inside(op)' => r \in Inside(op)
  BY <1>1, <1>2, <1>3, InsideIff DEF Edge
<1>7. Inside(op)' = Inside(op) \/ Inside(op)' = Inside(op) \ {r}
  <2>1. Inside(op) \subseteq Runs /\ Inside(op)' \subseteq Runs
    BY InsideIff
  <2>2. CASE r \in Inside(op)'
    BY <1>5, <1>6, <2>1, <2>2
  <2>3. CASE r \notin Inside(op)'
    BY <1>5, <1>6, <2>1, <2>3
  <2>. QED BY <2>2, <2>3
<1>. QED BY <1>4, <1>7, LockSteps

\* The lock is r's own, or free, and r's from now on.
LEMMA Granted ==
  ASSUME RunInv, DistinctNames, NEW r \in Runs, Moved(r),
         LockOwner(Op(r)) \in {Free, NameOf[r]}, ~Expired(Op(r))',
         lock'[Op(r)].holder = NameOf[r],
         run'[r].pc \notin {"queued", "validate", "acquire", "done", "killed"}
  PROVE  LockOf(Op(r))!LockNext
<1>1. LockOwner(Op(r))' = NameOf[r]
  BY DEF LockOwner, Op
<1>2. r \in Inside(Op(r))'
  BY InsideIff, OpType
<1>3. \A s \in Runs : s # r => s \notin Inside(Op(r)) /\ s \notin Inside(Op(r))'
  BY InsideIff, OpType DEF LockOwner, DistinctNames
<1>4. Inside(Op(r))' = Inside(Op(r)) \cup {r}
  BY <1>2, <1>3, InsideIff, OpType
<1>. QED BY <1>1, <1>4, LockSteps, OpType

LEMMA AcquiredKeepsLock ==
  ASSUME RunInv, DistinctNames, NEW r \in Runs, Acquired(r), NEW op \in Operators
  PROVE  LockOf(op)!LockNext \/ UNCHANGED LockOf(op)!lockVars
<1>. DEFINE l == [holder |-> NameOf[r], dur |-> LeaseDuration(r),
                  until |-> now + LeaseDuration(r)]
<1>1. Keeps(r, "precheck") /\ now' = now /\ run[r].pc = "acquire"
  BY GotoKeeps DEF Acquired, Steps, Calls, pc
<1>2. \/ lock[Op(r)].holder = NameOf[r] /\ lock' = lock
      \/ /\ lock[Op(r)].holder = Free \/ Expired(Op(r))
         /\ lock' = [lock EXCEPT ![Op(r)] = l]
  BY DEF Acquired
<1>3. l.holder = NameOf[r] /\ l.until = now + LeaseDuration(r)
  OBVIOUS
<1>. HIDE DEF l
<1>4. CASE op # Op(r)
  <2>1. lock'[op] = lock[op]
    BY <1>2, <1>4 DEF RunInv, TypeOK
  <2>. QED BY <1>1, <1>4, <2>1, ElsewhereKept DEF Keeps
<1>5. CASE op = Op(r) /\ lock[Op(r)].holder = NameOf[r] /\ lock' = lock /\ Expired(op)
  <2>1. Expired(op)'
    BY <1>1, <1>5 DEF Expired
  <2>2. LockOwner(op)' = LockOwner(op)
    BY <1>5, <2>1 DEF LockOwner
  <2>3. Inside(op)' = {} /\ Inside(op) = {}
    BY <1>5, <2>1, InsideIff
  <2>. QED BY <2>2, <2>3, LockSteps
<1>6. CASE op = Op(r) /\ lock[Op(r)].holder = NameOf[r] /\ lock' = lock /\ ~Expired(op)
  <2>1. ~Expired(Op(r))'
    BY <1>1, <1>6 DEF Expired, Op
  <2>2. LockOwner(Op(r)) = NameOf[r]
    BY <1>6 DEF LockOwner
  <2>. QED BY <1>1, <1>6, <2>1, <2>2, Granted DEF Keeps
<1>7. CASE /\ op = Op(r)
           /\ lock[Op(r)].holder = Free \/ Expired(Op(r))
           /\ lock' = [lock EXCEPT ![Op(r)] = l]
  <2>1. lock'[Op(r)] = l
    BY <1>7, OpType DEF RunInv, TypeOK
  <2>2. ~Expired(Op(r))'
    BY <1>1, <1>3, <2>1, Typed, Durations DEF Expired, Op
  <2>3. LockOwner(Op(r)) = Free
    BY <1>7 DEF LockOwner
  <2>4. LockOf(Op(r))!LockNext
    BY <1>1, <1>3, <2>1, <2>2, <2>3, Granted DEF Keeps
  <2>. QED BY <1>4, <2>4
<1>. QED BY <1>2, <1>4, <1>5, <1>6, <1>7

LEMMA RenewedKeepsLock ==
  ASSUME RunInv, DistinctNames, NEW r \in Runs, Renewed(r), NEW op \in Operators
  PROVE  LockOf(op)!LockNext \/ UNCHANGED LockOf(op)!lockVars
<1>1. /\ run[r].pc \in {"renew_retry", "renew_reverted"} /\ now' = now
      /\ Owns(r) /\ Goto(r, RenewNext(r)) /\ RenewNext(r) \in {"retry", "recover"}
      /\ RenewNext(r) \in Steps
  BY DEF Renewed, pc, RenewNext, Steps, Waits
<1>2. Keeps(r, RenewNext(r))
  BY <1>1, GotoKeeps
<1>3. PICK n \in Nat : n = now + lock[Op(r)].dur
  BY OpType, Typed DEF RunInv, TypeOK, Locks
<1>. DEFINE u == IF Distributed THEN n ELSE lock[Op(r)].until
            l == [lock[Op(r)] EXCEPT !.until = u]
<1>4. lock' = [lock EXCEPT ![Op(r)] = l]
  BY <1>3 DEF Renewed
<1>5. lock'[Op(r)] = l /\ \A o \in Operators : o # Op(r) => lock'[o] = lock[o]
  BY <1>4, OpType DEF RunInv, TypeOK
<1>6. l.holder = NameOf[r] /\ l.until = u
  BY <1>1, OpType DEF Owns, RunInv, TypeOK, Locks
<1>. HIDE DEF l
<1>7. CASE op # Op(r)
  BY <1>1, <1>2, <1>5, <1>7, ElsewhereKept DEF Keeps
<1>8. CASE op = Op(r)
  <2>1. now <= n
    BY <1>3, OpType, Typed DEF RunInv, TypeOK, Locks
  <2>2. ~Expired(Op(r))'
    BY <1>1, <1>5, <1>6, <2>1, Typed DEF Expired, Op
  <2>3. LockOwner(Op(r)) \in {Free, NameOf[r]}
    BY <1>1 DEF LockOwner, Owns
  <2>. QED BY <1>1, <1>2, <1>5, <1>6, <1>8, <2>2, <2>3, Granted DEF Keeps
<1>. QED BY <1>7, <1>8

LEMMA ReleasedKeepsLock ==
  ASSUME RunInv, NEW r \in Runs, Released(r), NEW op \in Operators
  PROVE  LockOf(op)!LockNext \/ UNCHANGED LockOf(op)!lockVars
<1>1. /\ now' = now /\ faults' = faults /\ Keeps(r, "done")
      /\ \/ lock' = lock
         \/ Owns(r) /\ lock' = [lock EXCEPT ![Op(r)] = Unlocked]
  <2>1. run[r].outcome \in {"none", "skip", "fail", "verdict", "dropped"}
    BY Typed DEF Progress
  <2>. QED BY <2>1, CloseKeeps DEF Released
<1>2. CASE lock' = lock
  <2>1. Expired(op)' <=> Expired(op)
    BY <1>1, <1>2 DEF Expired
  <2>2. LockOwner(op)' = LockOwner(op)
    BY <1>2, <2>1 DEF LockOwner
  <2>3. \A s \in Runs : s # r => (s \in Inside(op)' <=> s \in Inside(op))
    BY <1>1, <1>2, <2>1, InsideIff DEF Keeps, Moved
  <2>4. r \notin Inside(op)'
    BY <1>1, InsideIff DEF Keeps
  <2>5. Inside(op)' = Inside(op) \ {r}
    BY <2>3, <2>4, InsideIff
  <2>. QED BY <2>2, <2>5, LockSteps
<1>3. CASE op # Op(r)
  <2>1. lock'[op] = lock[op]
    BY <1>1, <1>3 DEF RunInv, TypeOK
  <2>. QED BY <1>1, <1>3, <2>1, ElsewhereKept DEF Keeps
<1>4. CASE op = Op(r) /\ lock' = [lock EXCEPT ![Op(r)] = Unlocked]
  <2>1. lock'[op].holder = Free
    BY <1>4, OpType DEF RunInv, TypeOK, Unlocked
  <2>2. LockOwner(op)' = Free
    BY <2>1 DEF LockOwner
  <2>3. Inside(op)' = {}
    BY <2>1, InsideIff, OpType
  <2>. QED BY <2>2, <2>3, LockSteps
<1>. QED BY <1>1, <1>2, <1>3, <1>4

LEMMA TickKeepsLock ==
  ASSUME RunInv, Tick, NEW op \in Operators
  PROVE  LockOf(op)!LockNext \/ UNCHANGED LockOf(op)!lockVars
<1>1. now' = now + 1 /\ run' = run /\ lock' = lock /\ now \in Nat /\ lock[op].until \in Nat
  BY DEF Tick, RunInv, TypeOK, Locks
<1>2. CASE Expired(op)'
  <2>1. LockOwner(op)' = Free /\ Inside(op)' = {}
    BY <1>2, InsideIff DEF LockOwner
  <2>. QED BY <2>1, LockSteps
<1>3. CASE ~Expired(op)'
  <2>1. ~Expired(op)
    BY <1>1, <1>3 DEF Expired
  <2>2. LockOwner(op)' = LockOwner(op)
    BY <1>1, <1>3, <2>1 DEF LockOwner
  <2>3. Inside(op)' = Inside(op)
    BY <1>1, <1>3, <2>1, InsideIff
  <2>. QED BY <2>2, <2>3, LockSteps
<1>. QED BY <1>2, <1>3

-----------------------------------------------------------------------------
(* Theorems *)

\* Every run of Orchestrator.Run accounts for its fault, whatever fails, is
\* cancelled or is killed, and in every interleaving with the others.
THEOREM RunInvariant == Spec => []RunInv
<1>. QED BY InitInv, NextInv, PTL DEF Spec

\* A run that has returned removed its fault, reports CleanupError, or had its
\* injection fail.
THEOREM CleanedUpTheorem == Spec => []CleanedUp
<1>1. RunInv => CleanedUp
  BY DEF RunInv, TypeOK, Accounted, CleanedUp, pc, Faulty
<1>. QED BY <1>1, RunInvariant, PTL

\* The deferred cleanup does not repeat the one revertAtTTL made.
THEOREM CleanedOnceTheorem == Spec => []CleanedOnce
<1>1. RunInv => CleanedOnce
  BY DEF RunInv, Accounted, CleanedOnce
<1>. QED BY <1>1, RunInvariant, PTL

\* No TTL-bearing experiment is judged before its fault is gone and a full
\* recovery window has passed since.
THEOREM JudgedRecoveredTheorem == Spec => []JudgedRecovered
<1>1. RunInv => JudgedRecovered
  BY DEF RunInv, Accounted, JudgedRecovered, pc, Faulty
<1>. QED BY <1>1, RunInvariant, PTL

\* With the in-process lock, a run holds the lock of its operator from Acquire
\* to Release, if no two files of the suite bear one name.
THEOREM LockHeldTheorem ==
  ASSUME ~Distributed, DistinctNames
  PROVE  Spec => []LocalHeld
<1>1. Init => LocalHeld
  BY DEF Init, LocalHeld, pc, Holding, Waits
<1>2. RunInv /\ LocalHeld /\ [Next]_vars => LocalHeld'
  BY NextHeld
<1>. QED BY <1>1, <1>2, RunInvariant, PTL DEF Spec

\* ... so a fault is under its lock as long as its run is under way,
THEOREM FaultUnderLockTheorem ==
  ASSUME ~Distributed, DistinctNames
  PROVE  Spec => []FaultUnderLock
<1>1. RunInv /\ LocalHeld => FaultUnderLock
  BY DEF RunInv, TypeOK, LocalHeld, Accounted, FaultUnderLock, Covered, Expired, pc, Ended,
         Faulty, Holding, Waits
<1>. QED BY <1>1, RunInvariant, LockHeldTheorem, PTL

\* ... and no operator has the faults of two runs, however many run at once.
THEOREM OneFaultTheorem ==
  ASSUME ~Distributed, DistinctNames
  PROVE  Spec => []OneFaultPerOperator
<1>1. FaultUnderLock => OneFaultPerOperator
  BY DEF FaultUnderLock, OneFaultPerOperator, Covered, Owns, Running, DistinctNames, Ended
<1>. QED BY <1>1, FaultUnderLockTheorem, PTL

\* With Leases, too, the operator of a run is locked for it as long as its
\* fault is in place, if the lease is long enough for the steps between two
\* renewals: whatever fails, is cancelled or is killed, and whoever else runs.
THEOREM LeaseCoversFault ==
  ASSUME Distributed, DistinctNames, \A r \in Runs : LongEnough(r)
  PROVE  Spec => []FaultUnderLock
<1>1. RunInv /\ LeaseInv /\ [Next]_vars => LeaseInv'
  BY NextLease
<1>2. RunInv /\ LeaseInv => FaultUnderLock
  <2>. SUFFICES ASSUME RunInv, LeaseInv, NEW r \in faults, pc(r) \notin Ended
                PROVE  Covered(r)
    BY DEF FaultUnderLock
  <2>1. r \in Runs
    BY DEF RunInv, TypeOK
  <2>2. Exposed(r)
    BY <2>1 DEF RunInv, Accounted, Exposed, Owing, Faulty, Ended, pc
  <2>. QED BY <2>1, <2>2, ExposedCovered
<1>. QED BY <1>1, <1>2, InitLease, RunInvariant, PTL DEF Spec

\* ... and no operator has the faults of two runs.
THEOREM OneFaultByLease ==
  ASSUME Distributed, DistinctNames, \A r \in Runs : LongEnough(r)
  PROVE  Spec => []OneFaultPerOperator
<1>1. FaultUnderLock => OneFaultPerOperator
  BY DEF FaultUnderLock, OneFaultPerOperator, Covered, Owns, Running, DistinctNames, Ended
<1>. QED BY <1>1, LeaseCoversFault, PTL

\* A run that validateRunDuration let through reaches its verdict before its
\* timeout, if no call failed and nobody interrupted it, and if the calls fit
\* into what FitsTimeout leaves.
THEOREM TimeoutIsEnough ==
  ASSUME \A r \in Runs : FitsTimeout(r) => Needed(r) < Timeout
  PROVE  Spec => []TimeoutSuffices
<1>1. RunInv /\ TimeInv /\ [Next]_vars => TimeInv'
  BY NextInTime
<1>2. RunInv /\ TimeInv => TimeoutSuffices
  BY WithinTimeout DEF TimeoutSuffices, Running
<1>. QED BY <1>1, <1>2, InitTime, RunInvariant, PTL DEF Spec

\* The locks, as the runs of either kind use them, implement ExperimentLock
\* for every operator, if no two runs bear one name: an operator passes from
\* one name to another only when it is free, and only runs of the owner rely
\* on it.
THEOREM RunsImplementLock ==
  ASSUME DistinctNames
  PROVE  Spec => LocksKept
<1>1. Init => \A op \in Operators : LockOf(op)!LockInit
  <2>. SUFFICES ASSUME Init, NEW op \in Operators PROVE LockOf(op)!LockInit
    OBVIOUS
  <2>1. LockOwner(op) = Free
    BY DEF Init, LockOwner, Unlocked
  <2>2. Inside(op) = {}
    BY InsideIff DEF Init
  <2>. QED BY <2>1, <2>2 DEF LockOf!LockInit, LockOwner
<1>2. RunInv /\ [Next]_vars =>
        [\A op \in Operators : LockOf(op)!LockNext \/ UNCHANGED LockOf(op)!lockVars]_vars
  <2>. SUFFICES ASSUME RunInv, Next, NEW op \in Operators
                PROVE  LockOf(op)!LockNext \/ UNCHANGED LockOf(op)!lockVars
    OBVIOUS
  <2>1. ASSUME NEW r \in Runs, Step(r) \/ Kill(r)
        PROVE  LockOf(op)!LockNext \/ UNCHANGED LockOf(op)!lockVars
    BY <2>1, AcquiredKeepsLock, RenewedKeepsLock, ReleasedKeepsLock, StepCrosses,
       CrossesKeepLock
  <2>2. CASE Interrupt
    <3>1. now' = now /\ run' = run /\ lock' = lock
      BY <2>2 DEF Interrupt
    <3>2. (Expired(op)' <=> Expired(op)) /\ LockOwner(op)' = LockOwner(op)
      BY <3>1 DEF Expired, LockOwner
    <3>3. Inside(op)' = Inside(op)
      BY <3>1, <3>2, InsideIff
    <3>. QED BY <3>2, <3>3, LockSteps
  <2>. QED BY <2>1, <2>2, TickKeepsLock DEF Next
<1>. QED BY <1>1, <1>2, RunInvariant, PTL DEF Spec, LocksKept
=============================================================================
