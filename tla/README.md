# A TLA+ verification of operator-chaos

operator-chaos injects faults into Kubernetes operators, reverts them, watches
whether the operator brings its resources back, and passes a verdict. What it
must never do is leave a fault behind, inject twice, judge a system the fault
is still in, or let two experiments work on one operator. This project models
the code that is responsible for that, checks it with TLC on small instances
and proves the central statements with TLAPS for every instance. Paths are
relative to the repository.

## 1. Inventory

### 1.1 Components, their state and operations

| Component | State | Operations | What makes it correct |
|---|---|---|---|
| **Distributed lock** `pkg/safety/lease.go` | one Lease object per operator on the API server | `Acquire`, `Renew`, `Release`, each a sequence of Get/Create/Update/Delete | one experiment per operator; a release removes only its own lease; an abandoned lease can be taken over once expired |
| **Local lock** `pkg/safety/mutex.go` | a map from operator to experiment in the process | the same interface, no expiry | the same, within a process |
| **Controller** `internal/controller/reconciler.go` | the `ChaosExperiment` object: phase, generation, timestamps, finalizer; nothing in memory | one handler per phase, `abort`, `handleDeletion`, clean-up of terminal experiments | one injection per experiment; no orphaned fault; phases only advance; every experiment ends |
| **CLI orchestrator** `pkg/orchestrator/lifecycle.go`, `internal/cli/run.go` | the run's progress, the clean-up closure, the held lock | `Run`, `revertAtTTL`, deferred clean-up and release | clean-up before release on every exit, revert at the TTL, the fault is covered by the lock |
| **Suite runner** `internal/cli/suite.go` | one run per file, a semaphore | sequential and parallel runs | no more than the allowed number of runs; all results collected |
| **Injectors** `pkg/injection/*.go` | the target object, its rollback annotation, backups | `Inject`, `Revert`, clean-up closures, about twenty types | revert restores the original state and is idempotent, also after a partial injection |
| **Rollback metadata** `pkg/safety/rollback.go` | annotations and labels of the target | wrap, unwrap (checksum), apply, remove | what is unwrapped is what was wrapped; a second injection does not destroy it |
| **Observers, evaluator** `pkg/observer`, `pkg/evaluator` | findings of one run | steady-state and reconciliation checks, verdict | no `Resilient` verdict over a failed check |
| **Clean** `internal/cli/clean.go` | everything labelled in the cluster | eleven clean-up steps, watch mode | everything injected is restored, nothing is destroyed before it can be |
| **Upgrade playbooks** `internal/cli/upgrade`, `pkg/upgrade` | a state file of completed steps | execute, save, resume, rollback | a resumed playbook skips only what was done |
| **OLM client** `pkg/olm` | Subscription, InstallPlan, CSV in the cluster | trigger and watch an upgrade | success is reported only for the wanted version |
| **Knowledge models, graph, diff, sequencer** `pkg/model`, `pkg/diff`, `pkg/upgrade` | none: functions of files | load, order, compare | sound orders and classifications |
| **Dashboard** `dashboard/` | SQL store, SSE clients, watch state | sync, upsert, broadcast, HTTP handlers | no client blocks the broker, the store follows the cluster |
| **SDK** `pkg/sdk` | fault configuration behind a mutex | a client wrapper that decides whether to fail a call | rates and activation are honoured |
| **Reporters, generators, other commands** | none | formatting, file output | not about state |

### 1.2 How they interact

* The controller and the CLI drive the same `orchestrator.Orchestrator`
  (`ValidateExperiment`, `RunPreCheck`, `InjectFault`, `RevertFault`,
  `RunPostCheck...`): the CLI in one blocking call, the controller one phase
  per Reconcile with everything persisted in the object.
* Both serialise on the lock. A CLI with `--distributed-lock` and the
  controller share the Lease objects; they meet nowhere else. The controller's
  client, and hence its lock, reads through the informer cache
  (`internal/cli/controller.go:100`, `:155`); the CLI's client does not.
* Injectors and `clean` meet on the target objects, through rollback
  annotations and labels. Neither carries an experiment's identity, so whoever
  reverts a target reverts whatever injection is found there.
* The user meets the controller on the `ChaosExperiment` object: creation,
  edits of the spec (detected through `metadata.generation`), deletion (held up
  by the finalizer).
* The dashboard only watches.

### 1.3 Where it is hard

The list with the lines is `hazards` in `PROJECT.json`. The patterns are:

* **compound API operations**: get-decide-write with a resourceVersion in
  `lease.go` and in every handler; another actor between the get and the write;
* **crashes between two persisted steps**: `reconcileInject` writes a barrier,
  a finalizer and the generation before it injects, `abort` persists the phase
  before it reverts; each gap has its own recovery code;
* **stale reads** of experiments and of Leases through the cache;
* **expiry**: a lease that lapses while the fault is in place, and a late
  revert on a target that belongs to another experiment by then;
* **partial failure**: a revert that fails, an injection applied in part, one
  of the four objects of a webhook not created;
* **rollback data**: the only copy of the original is an annotation, a Secret,
  a ConfigMap or a closure, written before the fault and removed after it; a
  crash, a conflict, a second injection or a sweep in between may cost it;
* **sweeps beside operations**: `clean` works on whatever is labelled, also on
  what an experiment is using at that moment;
* **what validation lets through** is interpreted a second time by `Inject`,
  which looks names up by label, adds prefixes and parses what was not parsed;
* **concurrent contributors** write the findings that the verdict rests on,
  while the operator goes on repairing;
* **resume**: a playbook's state file is written by hops and by steps, read by
  a later process, and may be older than the cluster;
* **shutdown**: the dashboard's broker stops while viewers arrive and leave and
  the sync is about to broadcast;
* **order of deferred calls** and cancelled contexts in the CLI run;
* **termination**: each experiment, also one that waits for a lock whose holder
  died, has to come to an end.

## 2. Modules

| Module | Models | Checked by |
|---|---|---|
| `ExperimentLock` | the promise of the lock interface (abstract specification) | refinement runs and proof |
| `LeaseLock` | `LeaseExperimentLock`, one step per API call | `MCLeaseLock`, `LeaseLockProofs` |
| `Controller` | `ChaosExperimentReconciler`, one step per call that changes the cluster | `MCController*`, `ControllerProofs` |
| `Orchestrator` | `Run`, `revertAtTTL`, the suite runner and the in-process lock, with time | `MCOrchestrator*`, `OrchestratorProofs` |
| `Injectors` | `Inject`, clean-up closure and `Revert` of twenty injector types with their rollback data, one step per API call | `MCInjectors`, `InjectorsProofs` |
| `Clean` | a sweep of `operator-chaos clean`, composed with `Injectors` | `MCInjectors`, `InjectorsProofs` |
| `Validation` | validation of an experiment, and what `Inject` makes of its parameters | `MCDecisions`, `DecisionsProofs` |
| `Sequencer`, `SequencerCheck` | the order of a playbook's steps, as operators; one step from an input to its order | `MCDecisions`, `SequencerProofs`, `DecisionsProofs` |
| `Verdict` | reconciliation checker, observers, contributors, evaluator | `MCDecisions`, `DecisionsProofs` |
| `Playbook` | playbook runs with state file, snapshots, watch and OLM; uses `Sequencer` | `MCPlaybook*`, `PlaybookProofs` |
| `Dashboard` | sync, store, broker, viewers and shutdown | `MCDashboard`, `DashboardProofs` |

`MC...` modules give constants their values for TLC, `...Proofs` modules hold
the theorems. A definition that is the name of another one with a slip added
(`WebhookDisruptInjectTwice`, `CleanRBACBindingsForgetsSubjects`,
`ResolveResumeIndexAnywhere`, `UnregisterKeepsClient`) is a faulty variant of
the definition that follows it; each is known to break a property and none is
used by a specification.

`MCDecisions` puts three components without common state side by side in one
run: a behaviour submits an experiment, or sequences a playbook, or judges an
experiment.

### 2.1 ExperimentLock

`owner` is the experiment whose claim is live, `inside` the runs that rely on
the lock. A run enters only under its own ownership, the owner changes only
when nobody is inside. Nothing is said about Leases, clocks or calls.

### 2.2 LeaseLock

| Model | Code |
|---|---|
| `log`, `Cur` | the versions of the Lease on the API server; a `resourceVersion` is a position |
| `snap[r]` | the version the run's last `Get` returned; an `Update`/`Delete` succeeds iff it is still the last (`Unchanged`) |
| `Readable(r)` | what a `Get` may return: the last version without a cache, else any version not older than the last one seen |
| `stamp[r]` | `metav1.NowMicro()`, read before the write is sent |
| `IsExpired`, `LastActive` | `isExpired`: strictly after `RenewTime` (else `AcquireTime`) plus the duration |
| `AcquireStart`, `Create`, `CreateExists`, `AcquireOwn`, `AcquireExpired`, `AcquireRefused`, `Reclaim` | the calls and branches of `Acquire` |
| `RenewGet`, `RenewLost`, `RenewPut` | `Renew` |
| `ReleaseGet`, `ReleaseDelete` | `Release`, with the resourceVersion precondition on the delete |
| `Crash`, `Tick` | the process dies or a call fails; time passes |

`believes[r]` and `tenure[r]` are history variables: what the last answer told
the run, and until when its own last confirmed write keeps the lease alive.
`Entitled(r)` combines them: it is what a run that holds the lock may rely on.
A run whose lease has lapsed is told nothing and is not entitled; that the
orchestrators go on regardless is a matter of the modules that use the lock.

Two assumptions: clocks of the processes agree (the code compares its own clock
with times written by others), and time does not pass between a call's applied
effect and its answer in a way that differs from a crash.

### 2.3 Controller

The object is a record (`Version`) of the fields the controller decides on.
Timestamps are reduced to whether they are set; messages, conditions and
`endTime` to `full`; `ObservedGeneration`, `generation`, the finalizer and the
deletion timestamp are kept. `past[e]` is the set of all versions `e` has had:
a Reconcile may begin with any of them (`StaleReconcile`). A worker's state
`work[w]` is the step it is at and the object it holds. `Write` is an update
under optimistic concurrency: it goes through iff the object is still the
worker's, and its answer becomes the worker's object, as the client does in
place.

| Actions | Code |
|---|---|
| `FreshReconcile`, `StaleReconcile`, `FirstStep` | `Reconcile` up to the first call: deletion, terminal clean-up, mutation check, phase |
| `Renew`, `RenewLost`, `RenewConflict`, `PhaseStep` | the lease renewal before every active phase and the phase switch, including the re-entry guard of `Injecting` |
| `Pending...` | `reconcilePending` |
| `PreCheck...` | `reconcilePreCheck` |
| `InjectBarrier`, `InjectFinalizer`, `InjectObserved`, `InjectFault`, `InjectStatus`, `Reenter...` | `reconcileInject`: barrier, finalizer, generation, injection, status |
| `Observe...` | `reconcileObserve`: wait, renew, revert, persist `FaultRevertedAt`, advance |
| `PostCheck...`, `Evaluate` | `reconcilePostCheck` and the verdict |
| `AbortBarrier`, `AbortRevert`, `AbortStatus` | `abort` |
| `DeleteRevert`, `DeleteUpdate` | `handleDeletion` |
| `FinalRevert`, `FinalUpdate`, `Backfill` | the clean-up of a terminal experiment and the backfill of an abort that was cut short |
| `Release` | the best-effort release in all of them |
| `Crash`, `UserDelete`, `UserEdit`, `LeaseExpire`, `LeaseClean`, `CacheSync` | environment |

The lock is abstracted to its holder and to whether the lease has run out; what
`LeaseLock` shows about its calls justifies treating each operation as one
step. `lag` holds the previous value of a Lease while the cache still shows it.
`faults` is the truth in the cluster: which experiment's injection is in place
where. `RevertFault` removes every fault at the target that the worker's spec
names, because the injectors restore whatever rollback data they find.

### 2.4 Orchestrator

Time decides a run of the CLI: the TTL, the recovery window, the retry interval,
the timeout of the context, the lease. The model has a discrete clock `now`;
`run[r].since` is when the current step began. A step that waits (`Waits`) ends
when its timer fires or its context is done; a step that calls (`Calls`) may end
at once or take up to `Longest(r)`. `Tick` does not let time pass over a timer
that has fired, a call that has reached its bound or a wait whose context is
done, so a wait is never longer than the code's.

| Model | Code |
|---|---|
| `CtxDone(r)` | the context of `run.go:47` and `suite.go:300`: cancelled by a signal or past its deadline |
| `Turn`, `Reject`, `Begin`, `Drop` | `runSequential` with cooldown, `runParallel` with its semaphore, `runSingleExperiment` up to `Run`; `FitsTimeout` is `validateRunDuration` |
| `Validated` ... `InjectFailed` | `Run` up to the injection; `LeaseDuration` is the duration it asks for |
| `TTLElapsed`, `Reverted`, `RevertFailed`, `Renewed`, `RenewFailed`, `RetryElapsed` | `revertAtTTL` |
| `WaitCancelled` | the `ctx.Done` branch of every `select` |
| `RecoveryElapsed`, `Judged` | the recovery window, the post-check and what follows it |
| `DeferredCleanup`, `NothingToClean`, `Released` | the two deferred functions, in their order |
| `lock` | the map of the in-process lock, or holder and end of each Lease (`Distributed`) |
| `run[r].armed` | the variable `cleanup` of `Run` is not nil |
| `run[r].partial` | `InjectFault` returned an error after it had taken effect: a history variable |
| `Interrupt`, `Kill`, `Tick` | SIGINT or SIGTERM; the process dies; time passes |

Every call may fail for a reason of its own (`MaxFailures` bounds how often) and
fails when its context is done, except those that do not look at it: the
in-process lock, a pre-check without checks, clean-ups that do nothing. A revert
or an injection that reports an error may have taken effect. `RunPostCheck`
has no path that returns an error, so the branch of `Run` for it is dead.
After an injection there is always a post-check result; `Inconclusive` is
therefore left to dry runs, which the suite counts as skipped.

### 2.5 Injectors

One target and one injection type at a time; `case` picks it. An object is
reduced to what decides about its restoration: the value of the field that the
type attacks, the rollback annotation, the managed-by label, whether a selector
finds it, whether it is being deleted (`obj`), and the rollback Secret or backup
object (`side`). Values are absent, an atom, or the set of keys of a map or
list: merge patches keep the keys they do not name (`MergeValue`).

`Cases` is any set of targets with `CasesAssumption`: only what is deleted and
recreated can be slow to go or have a backup of somebody else, LabelDelete's
fault is the absence of the label, finalizers and owners are lists, and a
finalizer list does not hold the injected one before the injection.

| Model | Code |
|---|---|
| `call` | the operation under way, the part of it that comes next, what it has read (`got`), whether the target has changed since (`stale`) |
| `Get`, `Update`, `Patch`, `Create`, `DeleteTarget`, `WriteSide`, `ReadSide` | API calls: each may fail without effect, or be applied and reported as failed; an `Update` of a stale object conflicts, a merge patch does not |
| `ApplyChaosMetadata`, `RemoveChaosMetadata`, `UnwrapRollbackData` | `pkg/safety/rollback.go`; a wrong checksum is `Corrupt` |
| `...Inject`, `...Revert`, `...Cleanup` | the methods of the types and their closures where these differ from `Revert` |
| `closure` | what the closure has captured; it is gone with the process |
| `SaveBackup`, `DeleteSaved`, `FromBackup`, `DropBackup` | back up, delete, recreate, forget: Secrets, Leases, resources, namespaces |
| `CreateParts`, `Swept`, `CleanupResources` | `webhooklatency.go`: Secret, Deployment, Service, configuration, and their removal |
| `Edit`, `Remove`, `Recreate`, `Tamper`, `Relabel`, `Vanish` | the operator under test, a user, and the end of a deletion |

`legit` (the values that others than the injectors gave the field), `taken` (an
injector's delete took the target away) and `gaps` are history. `gaps` names
what has happened that no rollback data survives, each of it a branch of the
code: a second injection over the first one's data (`doubled`), a delete that
was applied but reported as failed and whose backup was then removed
(`lostDelete`), a target still terminating that counts as recreated
(`terminating`), a failed look-up taken for absence (`unseen`), a backup of
somebody else (`foreignBackup`), a webhook whose label no longer matches
(`relabelled`), a map replaced by null (`nulled`: in the closure of CRDMutation,
or by its Revert on a target that was recreated since it looked), data removed
by a sweep (`stripped`, `overlap`). `OnlyExcused` says where these cannot occur.

### 2.6 Clean

`sweep` is the step of the sweep and the object it has listed. Each of the
eleven steps lists, then deletes or updates; an error is printed and the sweep
goes on. `Finds(n)` says which steps list the kind of object that the case is
about; the sweep passes over the others (`Advance`). `ResourcesAssumption` says
which kinds of objects a type attacks. The types that take any kind (finalizers,
CRDMutation, owners, labels, deletion) could also be aimed at a webhook
configuration or a binding, whose rollback data the sweep would read as that of
another type: such targets are not modelled. `--watch` is a sweep that starts again. Every step of `Injectors` may
come between two steps of a sweep; `calm` records that none did.

### 2.7 Validation

A submitted experiment (`exp`) is accepted or rejected (`Validate`), and an
accepted one is injected (`Inject`), which records in `touched` the namespace,
the pods killed, the objects made and the name that was hit. There is one
operator per `validate...Params`. A name is a class with a length: each
pattern and each deny-list of the code is a class, so that two names of one
class are treated alike by every check. `ResolveNamespace` is the namespace that
the orchestrator checks; `TargetNamespace` is where the object that `Inject`
reaches lies. Which kinds lie outside namespaces is the API server's business:
`ClusterKinds` is a constant, independent of the two lists that the code keeps
(`ClusterScopedKinds` of the orchestrator, `NotDeletable` of ResourceDeletion),
and the instance has kinds on both lists, on one and on none. `WebhookDisruptResolve`,
`ParseLabelSelector` and `ParseTypedParameters` are the second interpretations
made at injection; `Stored` is the name of the rollback Secret or ConfigMap.

### 2.8 Sequencer

`Edges` are the declared dependencies and, with inference, those of
`BuildDependencyGraph`; `RunKahn` one pass of Kahn's algorithm; `KahnSort`
breaks cycles one edge at a time, with a warning for each; `InjectHealthGates`
puts a gate between the last step of a component and the first of its
dependents. All of it is folds and sets, no recursion.

### 2.9 Verdict

| Model | Code |
|---|---|
| `StartCycle`, `CheckReconciliationOnce`, `EndCycle`, `NextCycle` | `CheckReconciliation`: deadline, one look per managed resource, the wait for the ticker |
| `tick`, `Tick` | the ticker's channel holds one tick; the clock may pass while a look is under way |
| `SteadyStateContributor`, `CheckSteadyState`, `CollateralContributor` | the two concurrent contributors of phase 2, one look per step |
| `RunContributors` | both have returned |
| `EvaluateFromFindings`, `ComputeVerdict`, `Worst` | `pkg/evaluator/engine.go` |
| `Change` | an object breaks or is repaired, at any moment |

`everWell` is the history that `VerdictSound` needs: what was in order at some
moment of the observation.

### 2.10 Playbook

| Model | Code |
|---|---|
| `Start`, `LoadOrCreateState`, `ResolveResumeIndex` | the start of a run: fresh, `--resume-from`, forced |
| `Execute`, `Confirm`, `StepDone`, `Fail`, `Finish` | the loop of `Executor.Run`; a manual step waits for its user |
| `SnapshotBeforeHop`, `BeginHop`, `PatchChannel`, `WatchUpgrade`, `Poll`, `WatchDeadline`, `CompleteHop`, `FailHop`, `EndHops` | an OLM step: snapshot, patch, watch, record, roll back |
| `file`, `SaveState` | the state file; a save writes all of it or fails |
| `snaps` | the snapshot directories, which operators and runs share |
| `OLMResolve` ... `OLMInstalled` | OLM: plan, approval, installation, CSV, `installedCSV`; any of it may fail or never come |
| `Crash` | the process dies; the next run finds what was saved |

### 2.11 Dashboard

`crs` are the `ChaosExperiment`s, `rows` the rows of the store by name and start
time (the id), `sync` the loop of `SyncOnce`, `broker` the queue, the registered
clients and their channels, `viewer` one handler per viewer. `register` and
`unregister` are unbuffered, so the broker's receive and the handler's send are
one step. `Stop` closes the stop channel, `Stopped` is the broker's branch for
it, `Drain` the end of `main`. A close of a closed channel or a send to one sets
`broker.panic`.

## 3. Runs

All runs set `CHECK_DEADLOCK FALSE`: experiments, suites, playbooks and
decisions come to their end, and the other models stop at the bound of their
history.

| Run | Instance | Result |
|---|---|---|
| `lease_lock` | two experiments, one of them cached, durations 1 and 2, time to 3, five versions | the inductive invariant, `OneRunPerOperator`, `NoForeignDelete` and the refinement of `ExperimentLock` hold (968,050 states) |
| `controller` | two experiments on one operator, one worker, stale reads, one failure | `NoOrphanedFault`, `JudgedWithoutFault`, `FaultIsLocked` (2,058,875 states) |
| `controller_workers` | one experiment, two workers, stale reads, one edit among three specs of two operators, no failure | `AtMostOneInjection`, `NeverBackwards`, `EditAborts` (1,355,355 states) |
| `controller_liveness` | one experiment, both caches lag, two failures, fairness | `Settles`, `FaultsEnd` (86,652 states) |
| `controller_contention` | two experiments, one failure, fairness | `Settles` for both (84,266 states) |
| `orchestrator` | two runs with Leases and TTLs, interrupts, timeouts, two failures or kills | `RunInv`, `FaultUnderLock`, `CleanedUp`, `JudgedRecovered`, and the lock implements `ExperimentLock` (`LocksKept`) (362,795 states) |
| `orchestrator_suite` | three files in sequence with cooldown, fairness | `TimeoutSuffices`, `AllReturn` (62,035 states) |
| `injectors` | every type with the targets that tell its branches apart, two injections, one failure, one edit, sweeps beside them | `Recoverable`, `RevertRestores`, `CleanRestores`, `ForeignKept`, `OnlyExcused` (1,245,254 states) |
| `decisions` | every type with every class of its parameters, on kinds with and without a namespace; all dependencies of four steps; two managed resources, two checks and two dependents with one change | `WithinBlastRadius`, `ProtectedUntouched`; `SequenceSound`; `VerdictSound`, `OrderIrrelevant`, `Judged` (736,711 states) |
| `playbook` | ten playbooks, valid and invalid, two operators, two hops, crashes at any step, one failing call, three runs (one where there are two operators) | `HopsInstalled`, `StepsDone`, `ValidatedUpgrade`, `RollbackRestores`, `RunReturns` (586,221 states) |
| `playbook_resume` | one OLM step with two hops, crashes, three runs, no failing call | **violated**: `HopsCompleted` (finding) |
| `dashboard` | two experiments created, started, deleted and recreated, one viewer, channels of one place | `NoPanic`, `GetShowsCurrent`, `SyncReturns`, `ViewersLetGo` (624,058 states) |

`LeaseInv` and `RunInv` contain the type invariants of their modules, and
`OnlyExcused` that of `Injectors`. The type invariant of `Controller` with its
inductive invariant, and `CleanedOnce` of `Orchestrator`, are proved (section 4)
and therefore in no run.

### 3.1 Bounds

* **Two runs, five versions, time 3** (`LeaseLock`). The races of the lock are
  between a holder and a contender. Five versions are the initial absence and
  four writes: enough for create, reclaim, renew and delete in one history.
  Durations 1 and 2 and time 3 allow a lease to be live, at its last moment,
  expired, and renewed. The theorems have none of these bounds.
* **`MaxFailures`** counts crashes, failed calls, lapsed and removed leases. One
  failure at every point covers each single gap between two writes; two, in the
  liveness run and those of the CLI, cover a failure during the recovery from another.
* **`MaxGen` 2** is one edit. A second edit is treated no differently, since the
  mutation check compares with the generation of the first observation.
* **Two experiments or two workers**, not both at once: workers meet only on
  an object, experiments only on the lock and on a target. The theorems hold
  for any number of both at once.
* `past` needs no bound: versions are finite once edits are.
* **Durations** of `Orchestrator` are 0 to 3 ticks for TTL, recovery, retry,
  clean-up and call, so that each can be the shorter or the longer one;
  `Timeout` is the least that `FitsTimeout` lets through, where it matters.
  `Latency` and `CleanupTimeout` are small against the recovery timeout, as a
  call of a second or a clean-up of 30 seconds is against minutes: that the
  lease outlasts the run (`FaultUnderLock`) depends on it. `TimeoutSuffices`
  is checked with calls that take no time.
* **Two injections** (`Injectors`): the second is the repeated call after a crash
  or an answer that was lost, and the one into a target that is already
  injected. **One failure or crash** and **one change by others** fall into
  every gap between two calls of an operation; a revert may run any number of
  times.
* **Names** (`Validation`) are classes, so the enumeration is complete over what
  the checks can tell apart; lengths are those at the limits of 253 characters
  less a prefix. What surrounds the parameters (namespaces, counts, hypotheses)
  varies with PodKill only, where the code combines them.
* **Graphs** (`Sequencer`): all dependency relations of three steps and all those
  of four without a dependency on itself contain every shape of nested and
  separate cycles with a step behind them.
* **`Interval` 2, `Default` 3** (`Verdict`): a timeout that is no multiple of the
  interval, so that a tick, the deadline and a slow look meet in every order.
  `MaxCycles` 1 lies between the least and the largest number of polls.
* **`MaxRuns` 3** (`Playbook`; 1 for two operators): a run that fails, one that
  resumes and one that resumes the resumed. Two hops are one that is done and
  one that is not.
* **`MaxChanges` 4** (`Dashboard`): create, start, delete, create again.
* `LastStart` bounds how long a file may wait for its turn although it could
  start, and with it the clock; `MaxTime` is above what any behaviour reaches.

### 3.2 Fairness

`FairSpec` of `Orchestrator` assumes that goroutines which can run do (weak
fairness of each run's steps) and that time passes (weak fairness of `Tick`).
Nothing is assumed of failures, of interrupts, or of calls that succeed.

`FairSpec` of `Controller` assumes what controller-runtime and the code give:

* a worker that is in the middle of a Reconcile takes its next step (weak
  fairness of `Proceed`);
* every path that leaves work behind returns an error or asks for a requeue,
  after 100 ms to 30 s, far longer than a watch lags: again and again the caches
  have caught up and the experiment is reconciled on its current version
  (strong fairness of `Requeue`, `CatchUp`). It is strong because a worker
  that is busy elsewhere disables it for a while;
* deadlines pass: an observation that is polled again and again is due some day,
  and a post-check ends by its deadline (`Due`). Which of the two a poll sees is
  a choice in the model, so weak fairness of the poll alone would let the
  deadline never come;
* the lease of a finished experiment, which nobody renews, runs out
  (`ExpireFinished`).

No fairness is assumed of crashes, failures, users or of successful injections.

`VerdictFairness` assumes that the process takes its steps, without a call
having to fail, and that time passes. `Fairness` of `Playbook` assumes the same
of the process, and that the watch's deadline, which is a context of the
process, fires. OLM owes nothing: it may stall at every point. `Fairness` of
`Dashboard` assumes that the goroutines run and that a `select` does not for ever
pass over a case that is ready. Connections may stay open as long as they like,
but a write to one is taken to end: `main.go` sets no `WriteTimeout`, so that a
viewer who stops reading could hold up its own handler until the process ends
(at most five seconds after the signal; `ListenAndServe` returns as soon as
`Shutdown` is called).

## 4. Proofs

Every theorem follows the same argument: an inductive invariant, stronger than
the property, is shown of the initial states and kept by each action, and the
property follows from it. What follows says for each module which invariant that
is, why the property alone would not do, and what is assumed of the constants.

`LeaseLockProofs` (for any runs, names, durations, caches):

* `TypeCorrect`, `CallsAreGuarded` and `ReleaseRemovesOwn` need no assumption
  beyond `LeaseAssumption`.
* `LeaseInvariant`, `MutualExclusion` and `Refinement` assume `DistinctNames`:
  without it they are false, since the holder of a Lease is the bare name.
* The invariant is `LeaseInv`. `OneRunPerOperator` alone says nothing of calls
  under way; `EntitledHold` ties an entitlement to the current version and to its
  expiry, and `CallsGuarded` says what each pending write knows of the version
  it is conditional on: a reclaim's version has expired, and stays so because
  time does not go back and a renewal is another version.

`ControllerProofs` (for any experiments, specs, operators, workers and bounds):

* `ControllerInvariant` proves `InjectionInv`, from which `TypeCorrect`,
  `InjectedOnce`, `ForwardOnly` and `EditsAbort` follow.
* `AtMostOneInjection` is not inductive: a worker past the barrier is about to
  inject, whatever the counter says. `InjectionInv` adds that such a worker is
  alone with its experiment, that the experiment is behind the barrier for
  good (`Passed`) and was not injected before, and that each worker's object
  fits its step (`Held`), also when that object is outdated.
* The argument splits the steps of a worker into those that only decide, those
  that act on the lock or on the fault, and those that write the object. For
  the writers one lemma says that the new version is `Forward` of the old
  one; a stale writer conflicts.
* `FaultlessVerdict` (`JudgedWithoutFault`) assumes `OneController`, that is one
  worker, which is what leader election and the work queue give: two workers on
  one experiment may interleave a revert and an injection. Edits, crashes, stale
  reads and failures are unrestricted. `FaultInv` ties the fault to the object: a
  fault in place is of the observed spec and its revert is not recorded
  (`FaultKnown`); a worker about to record the revert has made it, if its object
  is the current one, and a worker about to inject is followed by nobody but
  the user (`Committed`). An edit may come between the revert and the record;
  the record then conflicts.
* `FaultHasFinalizer` and `FaultKeepsLock` assume `OneController` and `NoEdits`:
  after an edit the revert goes to another target, see section 5. `CleanupInv`
  says for each write under way that would drop the finalizer or release the
  lock that no fault is left, or that the experiment is over (`Cleaning`).

`OrchestratorProofs` (for any number of files, any durations, either lock):

* `RunInvariant` proves `RunInv`: the deferred clean-up is armed exactly as long
  as the fault may be in place. `CleanedUp` alone is not inductive: it says
  nothing of a run that is still under way. `Accounted` says for each step of a
  run whether the clean-up is armed, how often it has succeeded, and since when
  the fault is gone. `CleanedUpTheorem`, `CleanedOnceTheorem` and
  `JudgedRecoveredTheorem` follow.
* For the in-process lock and distinct names, `LockHeldTheorem` shows that a run
  owns its lock from Acquire to Release; `FaultUnderLockTheorem` and
  `OneFaultTheorem` follow.
* For Leases `LeaseCoversFault` and `OneFaultByLease` assume `LongEnough` of every
  run. `LeaseInv` says that no step lasts longer than it can (`Punctual`) and
  that at the begin of each step the lease covers all that is still to come
  until the fault is gone or the lease is renewed (`Owed`, `Leased`).
  `LongEnough(r)` is what that takes of the durations: two calls and the
  observation, with its revert, fit into the lease, and so does one retry with
  TTL. With the code's durations (lease of at least 15 minutes, clean-up 30 s,
  retry 5 s) it fails in two corners: without a TTL for a recovery timeout above
  some 7 minutes, because nothing covers the deferred clean-up; and with a TTL
  above some 14 minutes if the recovery timeout is below 30 s, because then the
  revert and its clean-up outlast the windows that the lease counts on. The
  comment at `lifecycle.go:570` considers neither.
* `TimeoutIsEnough` (`TimeoutSuffices`): `TimeInv` bounds what a run without
  failures has spent when a step begins (`Spent`). It assumes that the calls of a
  run fit into what `FitsTimeout` leaves (`Needed(r) < Timeout`): with a TTL a
  clean-up of 30 s and five calls of up to 3 s fit into the allowance of 45 s;
  without one `validateRunDuration` leaves nothing for calls, so they have to be
  instantaneous or the timeout above the minimum.
* `RunsImplementLock` (`LocksKept`): for every operator the runs, with either
  lock, are a behaviour of `ExperimentLock` under the mapping of `LockOf`, if no
  two runs bear one name.

`DecisionsProofs`, for `Validation` (for any types, parameters and surroundings):

* `StaysWithin` (`WithinBlastRadius`): whichever kinds are cluster-scoped, what is
  touched lies in an allowed namespace, or the experiment is of high danger and
  its author consented, or it is one of the exceptions of `TakenForNamespaced`:
  LabelStomping or OwnerRefOrphan on any cluster-scoped object, FinalizerBlock or
  CRDMutation on one of a kind that the orchestrator's list does not have.
* `DenyListsHold` (`ProtectedUntouched`): no name, kind or namespace that the
  deny-lists keep from a type is hit, bindings and namespace parameters included.
  `ValidationInv` keeps of an accepted experiment what its validation decided,
  and of an injected one what each type makes of its parameters; type by type
  the proof shows that what `Inject` resolves anew (a selector, a namespace given as a
  parameter, a count of 0) is still within what was validated.
* `ValidationAssumption` says only that the inputs are of the right sorts.

`DecisionsProofs` and `SequencerProofs`, for `Sequencer` (for any playbook of any
length and any dependencies):

* `SequencerIsSound` (`SequenceSound`). The library's induction theorems are not
  available to these provers, so induction is by a minimal counterexample in a
  well-founded order of the natural numbers, and the recursive functions are
  unfolded by their own equations. `SequencerProofs` has the lemmas: a pass of
  Kahn's algorithm places every step whose predecessors are placed and nothing
  else; if it stops early, the rest contains a cycle; breaking an edge
  shortens the list of edges, so the sort ends with a permutation and with one
  warning for each edge given up.

`DecisionsProofs`, for `Verdict` (for any resources, checks and dependents, any
timeouts, changes and errors):

* `VerdictSoundTheorem`. `VerdictSound` speaks of the end only; `VerdictInv`
  says for each observer under way that every object it is to look at is still
  to come, was in order, or has left a mark that Resilient does not survive: a
  cycle that failed (`Looked`), a count that can no longer reach the number of
  checks (`SteadyLooked`), a failed finding (`CollateralLooked`). `BoardSound`
  says what each finding stands for, and that there is at most one of the
  checker and one of the steady state, which is why the maximum over findings
  and the first finding are that one.
* `OrderDoesNotMatter` (`OrderIrrelevant`): `OrderInv` says which findings are on
  the board at each moment, and `OutcomeOf` is the verdict as a function of
  what was found rather than of the sequence it was written in.
* `VerdictAssumption` takes the managed resources to be different objects from
  the checked ones. An object that is both is modelled as two, which may break
  separately; every behaviour of the one is a behaviour of the two.

`PlaybookProofs` (for any playbooks, operators and channels, any number of runs
and of failing calls):

* `PlaybookInvariant` proves `PlaybookInv`, from which `HopsAreInstalled`,
  `StepsAreDone`, `UpgradeIsValidated` and `RollbackIsExact` follow. None of them
  is inductive: they speak of the moment of a record, and what justifies it
  happened several steps, crashes or runs before. `OlmInv` says that OLM takes an
  operator up one version after the other and that what has succeeded stays;
  `ProgressInv` what an entry of the state file, or of the process, stands
  for (`Sound`); `WatchInv` what the watch may conclude while it waits;
  `SnapshotInv` that the snapshot of the hop under way is of the moment it began.
* `PlaybooksAssumption`: no path comes back to a channel it has left, because a
  completed hop is recorded by its channel alone (`CompletedHops`).
  `ChannelsAssumption`: channels are positive numbers, finitely many.

`InjectorsProofs`, for `Injectors` and `Clean` (for any targets and values with
`CasesAssumption` and `ResourcesAssumption`, any number of injections, failures,
edits and sweeps):

* `CleanInvariant` proves `CleanInv`, which has two layers. What holds whatever
  has happened: the target, what an operation has read and what the closure has
  captured are of the shape that the type writes (`Fit`), and an operation knows at
  each of its calls what it has seen (`Knows`). And what holds until a gap is
  recorded: an object without an annotation has no fault, and every annotation,
  backup and closure holds an original (`Sound`, `SideSound`, `ClosureSound`,
  `Relies`).
* `NothingLost` (`Recoverable`). The property speaks of the annotation on the
  object only; that a Revert writes back what it read, several calls ago and from
  an object that has been edited, deleted or swept since, needs the same of the
  copy it has read (`call.got`), of the backup it holds (`call.copy`), of the
  closure and of what the sweep has listed. Hence the same predicate `Sound` of all
  of them, and a clause that ties the copy to the object as long as it is not
  stale: an update of a stale copy conflicts.
* `OnlyExcusedHolds` (`OnlyExcused`) rests on the first layer: `Guard` says what
  the targets of those types hold also when gaps have occurred elsewhere.
* `RevertsRestore` (`RevertRestores`) and `ForeignIsKept` (`ForeignKept`) are
  action properties: each lemma about a step of an operation proves, beside the
  invariant, what the step owes them (`Back`, `Undone`, `ForeignTargetKept`). The
  lemmas are about the API calls (`GetMarkedStep`, `InjectWrite`, `UndoWrite`,
  `UndoDelete`, ...), and one lemma per type applies them.
* `SweepsRestore` (`CleanRestores`) needs `CalmInv`: a sweep that nothing
  interferes with finds no gap at the one step that takes care of the target, and
  for a target that two steps take care of the first leaves no gap either
  (`Calm`); and an injected ConfigMap of ClientFault always has the label that the
  sweep lists it by (`Labelled`). `CleanCovers` leaves out what the sweep does not
  restore, judged by the target and its rollback data as the sweep finds them: a
  Secret whose key was absent, and a map that was injected over a map.

`DashboardProofs` (for any viewers, messages and buffer sizes; the experiments
are a finite set):

* `NoPanicTheorem`: a channel that is closed belongs to no registered client, so
  that neither a second close nor a send can reach it, and a broker that has
  stopped has none left (`ClosedOnce` in `BrokerInv`).
* `GetShowsCurrentTheorem`: `Get` takes the row of the latest start, so the
  invariant `StoreInv` has to say of all rows of a name how they are ordered:
  starts lie in the past (`CRsPast`, `StartsPast`), no two rows share name and
  start (`RowsUnique`), and what the sync listed of an experiment is the last of
  its rows once it is stored (`ListedLast`, `Stored`).

Only model-checked: liveness (`Settles`, `FaultsEnd`, `AllReturn`, `Judged`,
`RunReturns`, `SyncReturns`, `ViewersLetGo`), which is out of the prover's
reach. Every other property of a passing run is a theorem.

## 5. Findings

*A resumed hop is skipped* (`internal/cli/upgrade/executor.go:86`, run
`playbook_resume`). An OLM step with several hops records each hop under its own
name in `CompletedSteps` (`step_olm.go:166`, "persist immediately for crash
recovery"), and a rollback is recorded there too. A resumed run takes any entry
in `CompletedSteps` for a completed step and skips it, so that the hops that are
left are never made, although `step_olm.go:70` is written to find them. The
playbook ends as complete on a cluster that was not upgraded. A playbook that
ends with a validation of the version notices (`ValidatedUpgrade`).

### What the properties do not say

Behaviours of the code that are in the models and that the properties leave
room for. Each property that does names the exception in its comment.

The lock and the controller:

* *Same name* (`lease.go:97`, `mutex.go:35`): the holder is the bare experiment
  name, so two runs of one file, or experiments of one name in two namespaces,
  hold one operator together. `OneRunPerOperator` assumes distinct names.
* *Edited target* (`reconciler.go:614`): abort, deletion and final clean-up
  revert the target of the spec as it is now. After an edit of the injection the
  fault stays and the finalizer goes. `NoOrphanedFault` is checked without edits.
* *Foreign revert* (`reconciler.go:662`): an experiment that lost its lease must
  not revert, says `reconcileObserve`; it aborts instead, and `abort` reverts.
* *Deletion without release* (`reconciler.go:608`): before the finalizer is set,
  a deletion leaves the Lease behind until it expires.
* *Cancelled injection* (`lifecycle.go:619`): a context cancelled while
  `InjectFault` is under way makes `Run` return without any clean-up.
  `CleanedUp` excuses such a run.
* A lagging cache may make the controller's Acquire re-acquire a lock that
  another experiment holds by now (`lease.go:97`); `LeaseLock` records a belief,
  not an entitlement. A cache that does not show a new Lease yet makes a held
  lock look lost, and the experiment is aborted (`reconciler.go:204`).
* Without a TTL the lease covers observation and post-check, but not the
  deferred clean-up that removes the fault after them (`lifecycle.go:576`), when
  the recovery timeout comes near half the default lease duration of 15
  minutes. `FaultUnderLock` is checked for faults with a TTL, and proved for the
  durations of `LongEnough` (section 4).

Injectors:

* A second injection overwrites the rollback data with the faulty state
  (RBACRevoke, ConfigDrift, CRDMutation, label overwrites, scale, crash loop,
  image, ClientFault); five types look first.
* A delete that is applied but reported as failed loses its backup: the error
  path removes it. A terminating target counts as recreated, except for
  namespaces. The backups of Leases, resources and namespaces are dropped
  without a look at whose they are, and so is the quota in its closure.
* `RemoveChaosMetadata` removes an original managed-by label
  (`rollback.go:107`). The closure of CRDMutation replaces a map by null and does
  not look at the annotation; its Revert sends the same null to a target that
  has been recreated since it looked. ImageCorrupt's annotation has no checksum.
* `Revert` of WebhookDisrupt by a selector returns without an error when the
  label no longer matches. A crash between SecretDrift's backup and its write
  leaves the rollback Secret behind.

Clean:

* Step 4 deletes every labelled RoleBinding before step 7 can restore the one
  that RBACRevoke emptied (`clean.go:240`). `CleanRestores` leaves RoleBindings
  out.
* The rollback data of OwnerRefOrphan and PathMutation is removed without a
  restoration; a merge patch of a map leaves the injected keys; an absent key of
  a drifted Secret comes back as an empty value; all labelled ConfigMaps are
  deleted, targets and backups too.
* Mutating webhooks, scale, crash loop, image, Secret backups, PDBs, quotas,
  latency webhooks and custom resources are not swept. A sweep that overlaps
  with an operation may lose its data.

Validation:

* FinalizerBlock validates `finalizerName` while `finalizer.go` reads
  `finalizer`. A selector of commas or blanks, and quantities of a quota, pass
  validation and fail in `Inject`. ClientFault accepts negative delays.
* The `namespace` parameter of SecretDeletion and ResourceDeletion is not checked
  against the allowed namespaces; it needs high danger and `allowDangerous`.
* *Scope by a list* (`lifecycle.go:159`): LabelStomping and OwnerRefOrphan on
  cluster-scoped kinds count as namespaced, and so do FinalizerBlock and
  CRDMutation on those that the list at line 166 does not have, although the
  comment at line 152 says that "cluster-scoped kinds ... require cluster-scoped
  treatment since they have no namespace", which is high danger with consent and no
  `allowedNamespaces`. `experiments/opendatahub-operator/finalizer-block.yaml`
  (`DataScienceCluster`, no danger level, no consent, one allowed namespace) is
  accepted in this way, and its object lies in no namespace.
  `TakenForNamespaced` names these objects and `WithinBlastRadius` leaves them out.
  ResourceDeletion also reaches cluster-scoped kinds, those that
  `validate.go:1144` does not list; it needs high danger.
* The deny-lists of the `namespace` parameter do not have the controller's own
  namespace, which only NamespaceDeletion refuses. The namespace of an experiment
  itself may begin with `chaos-`.
* `chaos-pdb-` and `chaos-webhook-latency-` are not among the reserved prefixes.
  The names of rollback Secrets collide for keys like `a_b` and `a-b`.

Observers:

* A reconciliation check that ends with an error carries no result and is
  skipped by the evaluator (`engine.go:73`), although errors "must propagate"
  (`reconciliation.go:151`): the verdict may be `Resilient`. `VerdictSound`
  leaves such checks out.
* `checkFieldEquals` fails for every field that is not a string.

Playbooks:

* The watch compares with `installedCSV`, which may be the one before
  (`watch.go:209`): the next hop's watch may then report success at once.
  `HopsInstalled` leaves that hop out.
* A crash after OLM has finished a hop but before the save makes the retry wait
  for a change that does not come. A resume from a later step after a crash skips
  the steps before it without `--force`. A channel that needs several CSVs counts
  as done at the first. A plan that waits for an approval that never comes is
  reported as such, not as failed.
* Snapshots of all operators and runs share one directory per hop. The rollback
  of the first hop restores no channel but reports success. A `pathRef` to an
  unknown operator passes validation. On a cyclic playbook an edge outside the
  cycle may be the one given up.

Dashboard:

* A viewer that registers after `Stop` waits for ever (`sse.go:81`); a slow
  viewer loses messages (`sse.go:39`).
* The row of an experiment from before its start stays `Pending`, and
  `ListRunning` and the statistics count it for ever; so do rows of deleted
  experiments. `Get` shows the right one as long as clocks agree. A recreation
  within one second updates the old row, which keeps its spec and operator.

## 6. What is not modelled

* `Controller`: `reconcileEvaluate` (no code persists the phase `Evaluating`, so
  that handler is unreachable; the verdict is `Evaluate`); updates of a counter
  or an error text only (`PostCheckCycles`, `CleanupError`); events, results,
  metrics; lengths of time; an object deleted and created anew under its name;
  what a fault does to its target, which is the matter of `Injectors`.
* `Orchestrator`: how a verdict is reached (`Verdict`) and what is reported; a
  sequential suite over Leases whose process is killed.
* `Injectors`: several targets at once, reads through a lagging cache, the
  registry, events; PodKill, which leaves nothing to revert, is in `Validation`.
* `Clean`: the timer of the watch, the confirmation, the order of objects within
  a step.
* `Verdict`: the controller's polling by requeues; the wording of deviations.
* `Playbook`: the commands `monitor`, `discover` and `trigger`, which only read
  or only patch; one poll is one step although it reads several objects; what
  `kubectl` and chaos steps do; reports.
* `Dashboard`: statistics, REST handlers and user interface, which only read.
* *Diff and upgrade simulation* (`pkg/diff`): a comparison of two models that is
  written out as lists; its classification tables would be copied rather than
  checked.
* *SDK and chaos transport* (`pkg/sdk`): a random decision per call behind a
  mutex; its rates are statistical.
* *Knowledge loading, reporters, generators, `hack/`*: formatting and file
  input and output without state.

## 7. Plan

What is left, in the order of importance.

1. Composition: `Controller` over `LeaseLock` in place of the abstracted lock,
   and over `Injectors` in place of the abstracted fault.
2. `Diff` as operators over small models, with matching against a reference; the
   fault decisions of the SDK.
