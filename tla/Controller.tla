----------------------------- MODULE Controller -----------------------------
(***************************************************************************)
(* ChaosExperimentReconciler (internal/controller/reconciler.go): the      *)
(* controller that carries ChaosExperiment objects from Pending to         *)
(* Complete or Aborted, one phase per Reconcile.                           *)
(*                                                                         *)
(* Every call that changes the cluster (a status update, an update of the  *)
(* finalizers, a lock operation, InjectFault, RevertFault) is one step; in *)
(* between the controller may die, the user may delete or edit the         *)
(* experiment, and leases may expire.  A write succeeds only if the object *)
(* is still the one the worker read or last wrote (resourceVersion); a     *)
(* read comes from the informer cache and may return any version the       *)
(* object has had.  An object deleted and created again under the same     *)
(* name is another object, and is not modelled.                            *)
(*                                                                         *)
(* The lock is abstracted to its holder and whether the lease has run out; *)
(* LeaseLock has its API calls.  Since the lock reads Leases through the   *)
(* manager's cache too, `lag' keeps the previous value of a Lease until    *)
(* the cache has caught up.  RevertFault restores whatever rollback data   *)
(* it finds on the target the spec names, whoever left it there.           *)
(*                                                                         *)
(* Durations are left out: that a deadline has passed is a choice.         *)
(***************************************************************************)
EXTENDS Naturals

CONSTANTS Experiments,
          Specs,       \* experiment specs: what is injected, where
          Operators,
          OperatorOf,  \* spec.target.operator
          SpecOf,      \* the spec an experiment is created with
          Workers,     \* reconcile workers; more than one models controllers
                       \* running without leader election
          None,
          StaleReads,  \* whether the informer cache lags for experiments
          StaleLeases, \* whether it lags for Leases
          MaxGen,      \* bound of metadata.generation (user edits)
          MaxFailures  \* bound of crashes, failed calls and lapsed leases

ASSUME ControllerAssumption ==
    /\ OperatorOf \in [Specs -> Operators]
    /\ SpecOf \in [Experiments -> Specs]
    /\ None \notin Experiments
    /\ StaleReads \in BOOLEAN
    /\ StaleLeases \in BOOLEAN
    /\ MaxGen \in Nat
    /\ MaxFailures \in Nat

VARIABLES exp,        \* the ChaosExperiment objects on the API server
          past,       \* the versions each has had
          lease,      \* the Lease of each operator
          lag,        \* the Lease a lagging cache still shows, or None
          work,       \* the Reconcile each worker is in the middle of
          faults,     \* <<e, s>>: e's injection at s is in place
          injections, \* how often InjectFault was called for an experiment
          leaked,     \* experiments whose last revert failed
          lost,       \* <<e, op>>: e's lease of op was taken over or removed
          budget      \* failures left

vars == <<exp, past, lease, lag, work, faults, injections, leaked, lost, budget>>
lockVars == <<lease, lag, lost>>
faultVars == <<faults, injections, leaked>>

-----------------------------------------------------------------------------
(* The ChaosExperiment object: spec, finalizer, deletion timestamp and the  *)
(* status fields the controller decides on.                                 *)

Terminal == {"Complete", "Aborted"}
Phases == {"Pending", "SteadyStatePre", "Injecting", "Observing",
           "SteadyStatePost"} \cup Terminal \cup {"Gone"}

Version == [phase : Phases,
            spec : Specs,
            gen : Nat,           \* metadata.generation
            obs : Nat,           \* status.observedGeneration
            started : BOOLEAN,   \* status.injectionStartedAt is set
            reverted : BOOLEAN,  \* status.faultRevertedAt is set
            posted : BOOLEAN,    \* status.postCheckStartedAt is set
            full : BOOLEAN,      \* message, endTime and the Complete condition
            fin : BOOLEAN,       \* the cleanup finalizer is present
            del : BOOLEAN]       \* metadata.deletionTimestamp is set

Created(e) == [phase |-> "Pending", spec |-> SpecOf[e], gen |-> 1, obs |-> 0,
               started |-> FALSE, reverted |-> FALSE, posted |-> FALSE,
               full |-> FALSE, fin |-> FALSE, del |-> FALSE]

\* What is left of an object that was removed.
Gone(v) == [v EXCEPT !.phase = "Gone", !.started = FALSE, !.reverted = FALSE,
                     !.posted = FALSE, !.full = FALSE, !.fin = FALSE]

\* A write that leaves no finalizer on an object being deleted removes it.
Stored(v) == IF v.del /\ ~v.fin THEN Gone(v) ELSE v

\* Reconcile sets ObservedGeneration before it looks at the phase, unless the
\* spec was mutated; it is persisted with the next status update.
Observed(v) == IF v.obs = 0 THEN [v EXCEPT !.obs = v.gen] ELSE v

Mutated(v) == v.obs # 0 /\ v.gen # v.obs

-----------------------------------------------------------------------------
(* Workers *)

Idle == [pc |-> "idle", exp |-> None, base |-> None]
Steps == {"pending", "pending_status", "renew", "precheck",
          "inject_barrier", "inject_finalizer", "inject_observed", "inject",
          "inject_status", "reenter_finalizer", "reenter_status",
          "observe", "observe_renew", "observe_revert", "observe_status",
          "observe_next", "postcheck_start", "postcheck", "release",
          "abort_barrier", "abort_revert", "abort_status",
          "delete_revert", "delete_release", "delete_update",
          "final_revert", "final_update", "final_release", "backfill"}
Jobs == [pc : Steps, exp : Experiments, base : Version] \cup {Idle}

pc(w) == work[w].pc
E(w) == work[w].exp
Base(w) == work[w].base
Op(w) == OperatorOf[Base(w).spec]

Goto(w, step) == work' = [work EXCEPT ![w] = [@ EXCEPT !.pc = step]]
Return(w) == work' = [work EXCEPT ![w] = Idle]

Spend == budget > 0 /\ budget' = budget - 1

\* Update or Status().Update of the object the worker holds as v, followed by
\* `step'.  A conflict, or NotFound, ends the Reconcile.
Write(w, v, step) ==
    /\ \/ /\ exp[E(w)] = Base(w)
          /\ exp' = [exp EXCEPT ![E(w)] = Stored(v)]
          /\ past' = [past EXCEPT ![E(w)] = @ \cup {Stored(v)}]
          /\ work' = [work EXCEPT ![w] = IF step = "idle" THEN Idle
                        ELSE [pc |-> step, exp |-> E(w), base |-> Stored(v)]]
       \/ /\ exp[E(w)] # Base(w)
          /\ Return(w)
          /\ UNCHANGED <<exp, past>>
    /\ UNCHANGED <<lockVars, faultVars, budget>>

-----------------------------------------------------------------------------
(* The experiment lock as the reconciler sees it *)

Leases == [holder : Experiments \cup {None}, expired : BOOLEAN]
FreeLease == [holder |-> None, expired |-> FALSE]

\* What Get returns for the Lease of op, and whether an update or delete
\* based on it succeeds.
SeenLease(op) == IF lag[op] = None THEN lease[op] ELSE lag[op]
UpToDate(op) == lag[op] = None

PutLease(op, l) ==
    /\ lease' = [lease EXCEPT ![op] = l]
    /\ lag' = [lag EXCEPT ![op] = IF StaleLeases THEN lease[op] ELSE None]
    /\ lost' = (lost \cup ({lease[op].holder} \ {None}) \X {op}) \ {<<l.holder, op>>}

LockAcquired(e, op) ==
    LET held == [holder |-> e, expired |-> FALSE]
    IN  \/ lease[op] = FreeLease /\ PutLease(op, held)
        \/ /\ lease[op] # FreeLease
           /\ SeenLease(op).holder = e
           /\ UNCHANGED lockVars
        \/ /\ lease[op] # FreeLease
           /\ UpToDate(op)
           /\ lease[op].holder # e
           /\ lease[op].expired
           /\ PutLease(op, held)

LockRenewed(e, op) ==
    /\ SeenLease(op).holder = e
    /\ UpToDate(op)
    /\ PutLease(op, [holder |-> e, expired |-> FALSE])

\* ErrLockNotFound and ErrHolderMismatch; every other error is transient.
LockLost(e, op) == SeenLease(op).holder # e

CanRelease(e, op) == SeenLease(op).holder = e /\ UpToDate(op)
Released(op) ==
    /\ lease' = [lease EXCEPT ![op] = FreeLease]
    /\ lag' = [lag EXCEPT ![op] = IF StaleLeases THEN lease[op] ELSE None]
    /\ UNCHANGED lost

-----------------------------------------------------------------------------
(* RevertFault: idempotent; restores the target named by the spec the worker *)
(* holds.                                                                    *)

Reverted(w) == /\ faults' = {f \in faults : f[2] # Base(w).spec}
               /\ UNCHANGED <<injections, leaked, budget>>
RevertFailed == Spend /\ UNCHANGED <<faults, injections, leaked>>

-----------------------------------------------------------------------------
(* Reconcile: what a worker does first with the version it read *)

AbortStep(v) ==
    CASE v.phase = "Injecting" -> "abort_barrier"
      [] v.phase \in {"Observing", "SteadyStatePost"} -> "abort_revert"
      [] OTHER -> "abort_status"

NeedsBackfill(v) == v.phase = "Aborted" /\ (~v.full \/ v.started)

\* As in LeaseLock, a definition named after a slip is a faulty variant of
\* the one that follows it.
FinalStepNoBackfill(v) == "idle"

FinalStep(v) == IF NeedsBackfill(v) THEN "backfill" ELSE "idle"

FirstStepNoFinalRevert(v) ==
    CASE v.phase = "Gone" -> "idle"
      [] v.phase # "Gone" /\ v.del ->
            IF v.fin THEN "delete_revert" ELSE "idle"
      [] v.phase \in Terminal /\ ~v.del ->
            IF v.fin THEN "final_update" ELSE FinalStep(v)
      [] OTHER -> IF Mutated(v) THEN AbortStep(v)
                  ELSE IF v.phase = "Pending" THEN "pending" ELSE "renew"

FirstStepNoTerminal(v) ==
    CASE v.phase = "Gone" -> "idle"
      [] v.phase # "Gone" /\ v.del ->
            IF v.fin THEN "delete_revert" ELSE "idle"
      [] OTHER -> IF Mutated(v) THEN AbortStep(v)
                  ELSE IF v.phase = "Pending" THEN "pending" ELSE "renew"

FirstStepNoMutationCheck(v) ==
    CASE v.phase = "Gone" -> "idle"
      [] v.phase # "Gone" /\ v.del ->
            IF v.fin THEN "delete_revert" ELSE "idle"
      [] v.phase \in Terminal /\ ~v.del ->
            IF ~v.fin THEN FinalStep(v)
            ELSE IF v.phase = "Aborted" THEN "final_revert" ELSE "final_update"
      [] OTHER -> IF v.phase = "Pending" THEN "pending" ELSE "renew"

FirstStep(v) ==
    CASE v.phase = "Gone" -> "idle"
      [] v.phase # "Gone" /\ v.del ->
            IF v.fin THEN "delete_revert" ELSE "idle"
      [] v.phase \in Terminal /\ ~v.del ->
            IF ~v.fin THEN FinalStep(v)
            ELSE IF v.phase = "Aborted" THEN "final_revert" ELSE "final_update"
      [] OTHER -> IF Mutated(v) THEN AbortStep(v)
                  ELSE IF v.phase = "Pending" THEN "pending" ELSE "renew"

Reconcile(w, e, v) ==
    /\ pc(w) = "idle"
    /\ FirstStep(v) # "idle"
    /\ work' = [work EXCEPT ![w] = [pc |-> FirstStep(v), exp |-> e, base |-> v]]
    /\ UNCHANGED <<exp, past, lockVars, faultVars, budget>>

FreshReconcile(w, e) == Reconcile(w, e, exp[e])
StaleReconcile(w, e) == /\ StaleReads
                        /\ \E v \in past[e] \ {exp[e]} : Reconcile(w, e, v)

\* The step that follows a successful lease renewal.
PhaseStep(v) ==
    CASE v.phase = "SteadyStatePre" -> "precheck"
      [] v.phase = "Injecting" ->
            IF ~v.started THEN "inject_barrier"
            ELSE IF v.fin THEN "reenter_status" ELSE "reenter_finalizer"
      [] v.phase = "Observing" -> IF v.started THEN "observe" ELSE "abort_revert"
      [] v.phase = "SteadyStatePost" ->
            IF v.posted THEN "postcheck" ELSE "postcheck_start"
      [] OTHER -> "abort_status"

Renew(w) ==
    /\ pc(w) = "renew"
    /\ LockRenewed(E(w), Op(w))
    /\ Goto(w, PhaseStep(Base(w)))
    /\ UNCHANGED <<exp, past, faultVars, budget>>

RenewLost(w) ==
    /\ pc(w) = "renew"
    /\ LockLost(E(w), Op(w))
    /\ Goto(w, AbortStep(Base(w)))
    /\ UNCHANGED <<exp, past, lockVars, faultVars, budget>>

\* The Lease in the cache is the worker's own but outdated: the Update
\* conflicts, which counts as transient.
RenewConflict(w) ==
    /\ pc(w) = "renew"
    /\ ~LockLost(E(w), Op(w))
    /\ ~UpToDate(Op(w))
    /\ Return(w)
    /\ UNCHANGED <<exp, past, lockVars, faultVars, budget>>

-----------------------------------------------------------------------------
(* reconcilePending *)

PendingInvalid(w) ==
    /\ pc(w) = "pending"
    /\ Goto(w, "abort_status")
    /\ UNCHANGED <<exp, past, lockVars, faultVars, budget>>

PendingAcquire(w) ==
    /\ pc(w) = "pending"
    /\ LockAcquired(E(w), Op(w))
    /\ Goto(w, "pending_status")
    /\ UNCHANGED <<exp, past, faultVars, budget>>

PendingRefusedExpired(w) ==
    /\ pc(w) = "pending"
    /\ lease[Op(w)] # FreeLease
    /\ SeenLease(Op(w)).holder # E(w)
    /\ Return(w)
    /\ UNCHANGED <<exp, past, lockVars, faultVars, budget>>

\* ErrLockContention, a Lease the cache does not show yet, or a conflict.
PendingRefused(w) ==
    /\ pc(w) = "pending"
    /\ lease[Op(w)] # FreeLease
    /\ SeenLease(Op(w)).holder # E(w)
    /\ ~(UpToDate(Op(w)) /\ lease[Op(w)].expired)
    /\ Return(w)
    /\ UNCHANGED <<exp, past, lockVars, faultVars, budget>>

PendingStatus(w) ==
    /\ pc(w) = "pending_status"
    /\ Write(w, [Observed(Base(w)) EXCEPT !.phase = "SteadyStatePre"], "idle")

-----------------------------------------------------------------------------
(* reconcilePreCheck *)

PreCheckPassed(w) ==
    /\ pc(w) = "precheck"
    /\ Write(w, [Base(w) EXCEPT !.phase = "Injecting"], "idle")

PreCheckFailed(w) ==
    /\ pc(w) = "precheck"
    /\ Goto(w, "abort_status")
    /\ UNCHANGED <<exp, past, lockVars, faultVars, budget>>

-----------------------------------------------------------------------------
(* reconcileInject *)

InjectBarrierNotPersisted(w) ==
    /\ pc(w) = "inject_barrier"
    /\ Goto(w, "inject")
    /\ UNCHANGED <<exp, past, lockVars, faultVars, budget>>

InjectBarrierNoFinalizer(w) ==
    /\ pc(w) = "inject_barrier"
    /\ Write(w, [Base(w) EXCEPT !.started = TRUE], "inject")

InjectBarrier(w) ==
    /\ pc(w) = "inject_barrier"
    /\ Write(w, [Base(w) EXCEPT !.started = TRUE],
             IF Base(w).fin THEN "inject" ELSE "inject_finalizer")

InjectFinalizer(w) ==
    /\ pc(w) = "inject_finalizer"
    /\ Write(w, [Base(w) EXCEPT !.fin = TRUE], "inject_observed")

InjectObserved(w) ==
    /\ pc(w) = "inject_observed"
    /\ Write(w, [Base(w) EXCEPT !.obs = Base(w).gen], "inject")

\* InjectFault; one that fails may have been applied in part.
InjectFault(w) ==
    /\ pc(w) = "inject"
    /\ injections' = [injections EXCEPT ![E(w)] = @ + 1]
    /\ \/ /\ faults' = faults \cup {<<E(w), Base(w).spec>>}
          /\ Goto(w, "inject_status")
          /\ UNCHANGED budget
       \/ /\ faults' \in {faults, faults \cup {<<E(w), Base(w).spec>>}}
          /\ Spend
          /\ Goto(w, "abort_barrier")
    /\ UNCHANGED <<exp, past, lockVars, leaked>>

InjectStatus(w) ==
    /\ pc(w) = "inject_status"
    /\ Write(w, [Base(w) EXCEPT !.phase = "Observing"], "idle")

\* Re-entry after a crash behind the barrier: the injection is not repeated.
ReenterFinalizer(w) ==
    /\ pc(w) = "reenter_finalizer"
    /\ Write(w, [Base(w) EXCEPT !.fin = TRUE], "reenter_status")

ReenterStatus(w) ==
    /\ pc(w) = "reenter_status"
    /\ Write(w, [Base(w) EXCEPT !.phase = "Observing", !.obs = Base(w).gen], "idle")

-----------------------------------------------------------------------------
(* reconcileObserve *)

ObserveWait(w) ==
    /\ pc(w) = "observe"
    /\ Return(w)
    /\ UNCHANGED <<exp, past, lockVars, faultVars, budget>>

\* The fault's deadline, or the recovery window that follows it, has passed.
ObserveDue(w) ==
    /\ pc(w) = "observe"
    /\ Goto(w, IF Base(w).reverted THEN "observe_next" ELSE "observe_renew")
    /\ UNCHANGED <<exp, past, lockVars, faultVars, budget>>

ObserveRenew(w) ==
    /\ pc(w) = "observe_renew"
    /\ LockRenewed(E(w), Op(w))
    /\ Goto(w, "observe_revert")
    /\ UNCHANGED <<exp, past, faultVars, budget>>

\* Any error of the second renewal aborts, a conflict or a failed call too.
ObserveRenewFailed(w) ==
    /\ pc(w) = "observe_renew"
    /\ \/ (LockLost(E(w), Op(w)) \/ ~UpToDate(Op(w))) /\ UNCHANGED budget
       \/ Spend
    /\ Goto(w, "abort_revert")
    /\ UNCHANGED <<exp, past, lockVars, faultVars>>

ObserveRevertIgnoresError(w) ==
    /\ pc(w) = "observe_revert"
    /\ Reverted(w) \/ RevertFailed
    /\ Goto(w, "observe_status")
    /\ UNCHANGED <<exp, past, lockVars>>

ObserveRevertGivesUpLock(w) ==
    /\ pc(w) = "observe_revert"
    /\ \/ Reverted(w) /\ Goto(w, "observe_status")
       \/ RevertFailed /\ Goto(w, "release")
    /\ UNCHANGED <<exp, past, lockVars>>

ObserveRevert(w) ==
    /\ pc(w) = "observe_revert"
    /\ \/ Reverted(w) /\ Goto(w, "observe_status")
       \/ RevertFailed /\ Return(w)
    /\ UNCHANGED <<exp, past, lockVars>>

ObserveStatus(w) ==
    /\ pc(w) = "observe_status"
    /\ Write(w, [Base(w) EXCEPT !.reverted = TRUE], "idle")

ObserveNext(w) ==
    /\ pc(w) = "observe_next"
    /\ Write(w, [Base(w) EXCEPT !.phase = "SteadyStatePost"], "idle")

-----------------------------------------------------------------------------
(* reconcilePostCheck and doEvaluate.  Evaluating is set in memory only: the *)
(* next persisted phase is Complete.                                         *)

PostCheckStart(w) ==
    /\ pc(w) = "postcheck_start"
    /\ Write(w, [Base(w) EXCEPT !.posted = TRUE], "idle")

\* Not all resources have reconciled: poll again (PostCheckCycles is the only
\* field the status update changes).
PostCheckPoll(w) ==
    /\ pc(w) = "postcheck"
    /\ Return(w)
    /\ UNCHANGED <<exp, past, lockVars, faultVars, budget>>

PostCheckFailed(w) ==
    /\ pc(w) = "postcheck"
    /\ Goto(w, "abort_revert")
    /\ UNCHANGED <<exp, past, lockVars, faultVars, budget>>

Evaluate(w) ==
    /\ pc(w) = "postcheck"
    /\ Write(w, [Base(w) EXCEPT !.phase = "Complete", !.full = TRUE], "release")

-----------------------------------------------------------------------------
(* Releasing the lock is best effort everywhere. *)

AfterRelease(w) ==
    CASE pc(w) = "release" -> "idle"
      [] pc(w) = "delete_release" -> "delete_update"
      [] pc(w) = "final_release" -> FinalStep(Base(w))

Release(w) ==
    /\ pc(w) \in {"release", "delete_release", "final_release"}
    /\ \/ CanRelease(E(w), Op(w)) /\ Released(Op(w)) /\ UNCHANGED budget
       \/ ~CanRelease(E(w), Op(w)) /\ UNCHANGED <<lockVars, budget>>
       \/ Spend /\ UNCHANGED lockVars
    /\ IF AfterRelease(w) = "idle" THEN Return(w) ELSE Goto(w, AfterRelease(w))
    /\ UNCHANGED <<exp, past, faultVars>>

-----------------------------------------------------------------------------
(* abort *)

\* From Injecting, the phase is persisted before the revert.
AbortBarrier(w) ==
    /\ pc(w) = "abort_barrier"
    /\ Write(w, [Base(w) EXCEPT !.phase = "Aborted", !.started = FALSE], "abort_revert")

\* A failed revert is recorded in CleanupError and the abort goes on.
AbortRevert(w) ==
    /\ pc(w) = "abort_revert"
    /\ Reverted(w) \/ RevertFailed
    /\ Goto(w, "abort_status")
    /\ UNCHANGED <<exp, past, lockVars>>

AbortStatus(w) ==
    /\ pc(w) = "abort_status"
    /\ Write(w, [Observed(Base(w)) EXCEPT !.phase = "Aborted", !.full = TRUE], "release")

-----------------------------------------------------------------------------
(* handleDeletion *)

\* A failed revert keeps the finalizer: the deletion is retried.
DeleteRevert(w) ==
    /\ pc(w) = "delete_revert"
    /\ \/ Reverted(w) /\ Goto(w, "delete_release")
       \/ RevertFailed /\ Return(w)
    /\ UNCHANGED <<exp, past, lockVars>>

DeleteUpdate(w) ==
    /\ pc(w) = "delete_update"
    /\ Write(w, [Base(w) EXCEPT !.fin = FALSE], "idle")

-----------------------------------------------------------------------------
(* Cleanup of a terminal experiment that still has its finalizer *)

\* A failed revert is only logged, and there is no further attempt.
FinalRevert(w) ==
    /\ pc(w) = "final_revert"
    /\ Goto(w, "final_update")
    /\ \/ Reverted(w)
       \/ /\ Spend
          /\ leaked' = leaked \cup {E(w)}
          /\ UNCHANGED <<faults, injections>>
    /\ UNCHANGED <<exp, past, lockVars>>

FinalUpdate(w) ==
    /\ pc(w) = "final_update"
    /\ Write(w, [Base(w) EXCEPT !.fin = FALSE], "final_release")

Backfill(w) ==
    /\ pc(w) = "backfill"
    /\ Write(w, [Base(w) EXCEPT !.full = TRUE, !.started = FALSE], "idle")

-----------------------------------------------------------------------------
(* Environment *)

\* The controller dies, or a call fails or its answer is lost.
Crash(w) ==
    /\ pc(w) # "idle"
    /\ Spend
    /\ Return(w)
    /\ UNCHANGED <<exp, past, lockVars, faultVars>>

UserDelete(e) ==
    /\ exp[e].phase # "Gone"
    /\ ~exp[e].del
    /\ LET v == Stored([exp[e] EXCEPT !.del = TRUE])
       IN  /\ exp' = [exp EXCEPT ![e] = v]
           /\ past' = [past EXCEPT ![e] = @ \cup {v}]
    /\ UNCHANGED <<lockVars, work, faultVars, budget>>

UserEdit(e) ==
    /\ exp[e].phase # "Gone"
    /\ exp[e].gen < MaxGen
    /\ \E s \in Specs \ {exp[e].spec} :
         LET v == [exp[e] EXCEPT !.spec = s, !.gen = @ + 1]
         IN  /\ exp' = [exp EXCEPT ![e] = v]
             /\ past' = [past EXCEPT ![e] = @ \cup {v}]
    /\ UNCHANGED <<lockVars, work, faultVars, budget>>

Finished(e) == exp[e].phase \in Terminal \cup {"Gone"}

\* A lease runs out: that of a finished experiment, which nobody renews, in
\* any case; another's because the controller was away for too long.
LeaseExpire(op) ==
    /\ lease[op].holder # None
    /\ ~lease[op].expired
    /\ IF Finished(lease[op].holder) THEN UNCHANGED budget ELSE Spend
    /\ lease' = [lease EXCEPT ![op].expired = TRUE]
    /\ UNCHANGED <<exp, past, lag, lost, work, faultVars>>

\* `operator-chaos clean' deletes the Lease.
LeaseClean(op) ==
    /\ lease[op].holder # None
    /\ Spend
    /\ PutLease(op, FreeLease)
    /\ UNCHANGED <<exp, past, work, faultVars>>

CacheSync(op) ==
    /\ lag[op] # None
    /\ lag' = [lag EXCEPT ![op] = None]
    /\ UNCHANGED <<exp, past, lease, lost, work, faultVars, budget>>

-----------------------------------------------------------------------------
Init ==
    /\ exp = [e \in Experiments |-> Created(e)]
    /\ past = [e \in Experiments |-> {Created(e)}]
    /\ lease = [op \in Operators |-> FreeLease]
    /\ lag = [op \in Operators |-> None]
    /\ work = [w \in Workers |-> Idle]
    /\ faults = {}
    /\ injections = [e \in Experiments |-> 0]
    /\ leaked = {}
    /\ lost = {}
    /\ budget = MaxFailures

Proceed(w) ==
    \/ Renew(w) \/ RenewLost(w) \/ RenewConflict(w)
    \/ PendingInvalid(w) \/ PendingAcquire(w) \/ PendingRefused(w) \/ PendingStatus(w)
    \/ PreCheckPassed(w) \/ PreCheckFailed(w)
    \/ InjectBarrier(w) \/ InjectFinalizer(w) \/ InjectObserved(w)
    \/ InjectFault(w) \/ InjectStatus(w) \/ ReenterFinalizer(w) \/ ReenterStatus(w)
    \/ ObserveWait(w) \/ ObserveDue(w) \/ ObserveRenew(w) \/ ObserveRenewFailed(w)
    \/ ObserveRevert(w) \/ ObserveStatus(w) \/ ObserveNext(w)
    \/ PostCheckStart(w) \/ PostCheckPoll(w) \/ PostCheckFailed(w) \/ Evaluate(w)
    \/ Release(w) \/ AbortBarrier(w) \/ AbortRevert(w) \/ AbortStatus(w)
    \/ DeleteRevert(w) \/ DeleteUpdate(w)
    \/ FinalRevert(w) \/ FinalUpdate(w) \/ Backfill(w)

Next ==
    \/ \E w \in Workers : Proceed(w) \/ Crash(w)
    \/ \E w \in Workers, e \in Experiments : FreshReconcile(w, e) \/ StaleReconcile(w, e)
    \/ \E e \in Experiments : UserDelete(e) \/ UserEdit(e)
    \/ \E op \in Operators : LeaseExpire(op) \/ LeaseClean(op) \/ CacheSync(op)

Spec == Init /\ [][Next]_vars
\* Fairness.  A worker that is running finishes its Reconcile.  Every path
\* that leaves work behind asks for a requeue or returns an error, which
\* controller-runtime requeues; the requeue delays are far longer than the
\* lag of a watch, so again and again both caches catch up between two
\* Reconciles and an experiment is reconciled on its current version, until
\* nothing is left to do.  Deadlines pass, and so does the lease of a
\* finished experiment.
CatchUp(op) == (\A w \in Workers : pc(w) = "idle") /\ CacheSync(op)
Requeue(w, e) == (\A op \in Operators : UpToDate(op)) /\ FreshReconcile(w, e)
Due(w) == /\ pc(w) # "idle"
          /\ exp[E(w)] = Base(w)
          /\ ObserveDue(w) \/ Evaluate(w)
ExpireFinished(op) == LeaseExpire(op) /\ budget' = budget

Fairness ==
    /\ \A w \in Workers : WF_vars(Proceed(w)) /\ SF_vars(Due(w))
    /\ \A w \in Workers, e \in Experiments : SF_vars(Requeue(w, e))
    /\ \A op \in Operators : WF_vars(ExpireFinished(op)) /\ SF_vars(CatchUp(op))

FairSpec == Spec /\ Fairness

-----------------------------------------------------------------------------
(* Properties *)

TypeOK ==
    /\ exp \in [Experiments -> Version]
    /\ past \in [Experiments -> SUBSET Version]
    /\ lease \in [Operators -> Leases]
    /\ lag \in [Operators -> Leases \cup {None}]
    /\ work \in [Workers -> Jobs]
    /\ faults \subseteq Experiments \X Specs
    /\ injections \in [Experiments -> Nat]
    /\ leaked \subseteq Experiments
    /\ lost \subseteq Experiments \X Operators
    /\ budget \in Nat

\* The phases a worker's version can be in at each step of Reconcile.
PhasesAt(step) ==
    CASE step \in {"pending", "pending_status"} -> {"Pending"}
      [] step = "renew" -> {"SteadyStatePre", "Injecting", "Observing", "SteadyStatePost"}
      [] step = "precheck" -> {"SteadyStatePre"}
      [] step \in {"inject_barrier", "inject_finalizer", "inject_observed", "inject",
                   "inject_status", "reenter_finalizer", "reenter_status",
                   "abort_barrier"} -> {"Injecting"}
      [] step \in {"observe", "observe_renew", "observe_revert", "observe_status",
                   "observe_next"} -> {"Observing"}
      [] step \in {"postcheck_start", "postcheck"} -> {"SteadyStatePost"}
      [] step = "abort_revert" -> {"Observing", "SteadyStatePost", "Aborted"}
      [] step = "abort_status" ->
            {"Pending", "SteadyStatePre", "Observing", "SteadyStatePost", "Aborted"}
      [] step \in {"release", "final_update", "final_release"} -> Terminal
      [] step \in {"final_revert", "backfill"} -> {"Aborted"}
      [] OTHER -> Phases \ {"Gone"}

DeleteSteps == {"delete_revert", "delete_release", "delete_update"}
ClosingSteps == DeleteSteps \cup
    {"abort_barrier", "abort_revert", "abort_status", "release",
     "final_revert", "final_update", "final_release", "backfill"}

\* What a job's step says about the version it holds.
Held(job) ==
    job.pc # "idle" =>
        /\ job.base.phase \in PhasesAt(job.pc)
        /\ job.pc \notin DeleteSteps => ~job.base.del
        /\ job.pc \notin ClosingSteps => ~Mutated(job.base)
        /\ job.pc = "inject_barrier" => ~job.base.started

\* The experiment is behind the barrier of reconcileInject.
Passed(v) == v.started \/ v.phase \in {"Observing", "SteadyStatePost", "Gone"} \cup Terminal

Injecting(w) == pc(w) \in {"inject_finalizer", "inject_observed", "inject"}

\* The inductive invariant behind AtMostOneInjection, NeverBackwards and
\* EditAborts: workers hold versions that fit their step, and at most one
\* worker is between the barrier of an experiment and its InjectFault, which
\* was not called before.
InjectionInv ==
    /\ TypeOK
    /\ \A w \in Workers : Held(work[w])
    /\ \A w \in Workers : Injecting(w) => Passed(exp[E(w)]) /\ injections[E(w)] = 0
    /\ \A w, u \in Workers : Injecting(w) /\ Injecting(u) /\ E(w) = E(u) => w = u
    /\ \A e \in Experiments : injections[e] = 0 \/ (injections[e] = 1 /\ Passed(exp[e]))

\* InjectFault is called at most once for an experiment, whatever crashes,
\* stale reads and concurrent controllers do: the barrier of reconcileInject
\* is persisted before the call, under the resourceVersion that was read.
AtMostOneInjection == \A e \in Experiments : injections[e] <= 1

\* The order of the phases.
Rank(phase) ==
    CASE phase = "Pending" -> 0
      [] phase = "SteadyStatePre" -> 1
      [] phase = "Injecting" -> 2
      [] phase = "Observing" -> 3
      [] phase = "SteadyStatePost" -> 4
      [] phase \in Terminal -> 5
      [] phase = "Gone" -> 6

\* An experiment only moves forward: no worker, however outdated the version
\* it acts on, takes it back to an earlier phase, from one terminal phase to
\* the other, or forgets that the fault was reverted or the post-check begun.
NeverBackwards ==
    [][\A e \in Experiments :
         LET v == exp[e]
             u == exp'[e]
         IN  /\ Rank(u.phase) >= Rank(v.phase)
             /\ v.phase \in Terminal => u.phase \in {v.phase, "Gone"}
             /\ v.reverted => u.reverted \/ u.phase = "Gone"
             /\ v.posted => u.posted \/ u.phase = "Gone"]_vars

\* Once the spec of a started experiment was edited, the experiment gets no
\* further than it is: it is aborted (or deleted), also when a worker was in
\* the middle of a phase while the user edited it.
EditAborts ==
    [][\A e \in Experiments :
         Mutated(exp[e]) =>
            /\ exp'[e].phase \in {exp[e].phase, "Aborted", "Gone"}
            /\ exp'[e].started => exp[e].started]_vars

\* A fault is never orphaned: as long as it is in place its experiment exists
\* and holds the cleanup finalizer, unless the last, best-effort revert of an
\* aborted experiment failed.  (One controller; specs are not edited.)
NoOrphanedFault ==
    \A f \in faults : f[1] \notin leaked =>
        exp[f[1]].fin /\ exp[f[1]].phase # "Gone"

\* The post-check and the verdict are about a system without the fault: it was
\* reverted before the experiment entered SteadyStatePost.
JudgedWithoutFault ==
    \A e \in Experiments :
        exp[e].phase \in {"SteadyStatePost", "Complete"} =>
            exp[e].reverted /\ \A f \in faults : f[1] # e

\* "The fault stays owned": while the fault of an unfinished experiment is in
\* place its operator stays locked for it, also while a failing revert is
\* retried, unless the lease lapsed and was taken over, or was removed.
FaultIsLocked ==
    \A f \in faults :
        ~Finished(f[1]) /\ <<f[1], OperatorOf[f[2]]>> \notin lost
            => lease[OperatorOf[f[2]]].holder = f[1]

\* Nothing is left to do for e: the object is gone, or it is terminal, its
\* finalizer removed and its status complete.
Settled(e) == \/ exp[e].phase = "Gone"
              \/ exp[e].phase \in Terminal /\ ~exp[e].fin /\ exp[e].full

\* Every experiment comes to an end that survives: no crash, stale read or
\* lock dispute leaves one stuck, half cleaned up or without its final status.
Settles == \A e \in Experiments : <>[]Settled(e)

\* Every injected fault is removed, unless the last revert failed.
FaultsEnd ==
    \A e \in Experiments : (\E f \in faults : f[1] = e) ~>
                            (e \in leaked \/ \A f \in faults : f[1] # e)
=============================================================================
