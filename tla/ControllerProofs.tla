-------------------------- MODULE ControllerProofs --------------------------
(***************************************************************************)
(* Proofs about Controller, for any number of experiments, specs,          *)
(* operators and failures.  What the fault relies on supposes one          *)
(* controller, as leader election provides; the rest holds for any number  *)
(* of workers.                                                             *)
(***************************************************************************)
EXTENDS Controller, TLAPS

-----------------------------------------------------------------------------
(* Versions and jobs *)

\* A busy worker holds an experiment and a version.
LEMMA BusyJob ==
    ASSUME TypeOK, NEW w \in Workers, pc(w) # "idle"
    PROVE  /\ work[w] \in [pc : Steps, exp : Experiments, base : Version]
           /\ pc(w) \in Steps
           /\ E(w) \in Experiments
           /\ Base(w) \in Version
           /\ Op(w) \in Operators
    <1>1. work[w] \in Jobs
        BY DEF TypeOK
    <1>2. work[w] \in [pc : Steps, exp : Experiments, base : Version]
        BY <1>1 DEF Jobs, Idle, pc
    <1>3. Base(w).spec \in Specs
        BY <1>2 DEF Base, Version
    <1> QED
        BY <1>2, <1>3, ControllerAssumption DEF pc, E, Base, Op

LEMMA StoredType ==
    ASSUME NEW v \in Version
    PROVE  Stored(v) \in Version
    BY DEF Stored, Gone, Version, Phases

LEMMA ObservedType ==
    ASSUME NEW v \in Version
    PROVE  Observed(v) \in Version
    BY DEF Observed, Version

LEMMA IdleNotStep == "idle" \notin Steps
    BY DEF Steps

\* Moving on to another step.
LEMMA GotoLemma ==
    ASSUME TypeOK, NEW w \in Workers, pc(w) # "idle", NEW step \in Steps, Goto(w, step)
    PROVE  /\ work' \in [Workers -> Jobs]
           /\ work'[w] = [pc |-> step, exp |-> E(w), base |-> Base(w)]
           /\ \A u \in Workers \ {w} : work'[u] = work[u]
    <1>1. work[w] \in [pc : Steps, exp : Experiments, base : Version]
        BY BusyJob
    <1>2. work'[w] = [work[w] EXCEPT !.pc = step]
        BY DEF Goto, TypeOK
    <1>3. work'[w] = [pc |-> step, exp |-> E(w), base |-> Base(w)]
        BY <1>1, <1>2 DEF E, Base
    <1>4. work'[w] \in Jobs
        BY <1>3, BusyJob DEF Jobs
    <1>5. \A u \in Workers \ {w} : work'[u] = work[u]
        BY DEF Goto, TypeOK
    <1>6. work' \in [Workers -> Jobs]
        BY <1>4, <1>5 DEF Goto, TypeOK
    <1> QED
        BY <1>3, <1>5, <1>6

\* Ending a Reconcile.
LEMMA ReturnLemma ==
    ASSUME TypeOK, NEW w \in Workers, Return(w)
    PROVE  /\ work' \in [Workers -> Jobs]
           /\ work'[w] = Idle
           /\ \A u \in Workers \ {w} : work'[u] = work[u]
    BY DEF Return, TypeOK, Jobs

\* What an update of the experiment does, whether it succeeds or conflicts.
LEMMA WriteLemma ==
    ASSUME TypeOK, NEW w \in Workers, pc(w) # "idle", NEW v \in Version,
           NEW step \in Steps \cup {"idle"}, Write(w, v, step)
    PROVE  /\ TypeOK'
           /\ \A u \in Workers \ {w} : work'[u] = work[u]
           /\ \/ /\ exp[E(w)] = Base(w)
                 /\ exp'[E(w)] = Stored(v)
                 /\ work'[w] = IF step = "idle" THEN Idle
                               ELSE [pc |-> step, exp |-> E(w), base |-> Stored(v)]
              \/ exp'[E(w)] = exp[E(w)] /\ work'[w] = Idle
           /\ \A e \in Experiments \ {E(w)} : exp'[e] = exp[e]
           /\ injections' = injections
    <1>1. E(w) \in Experiments /\ Base(w) \in Version /\ Stored(v) \in Version
        BY BusyJob, StoredType
    <1> DEFINE job == IF step = "idle" THEN Idle
                      ELSE [pc |-> step, exp |-> E(w), base |-> Stored(v)]
    <1>2. job \in Jobs
        BY <1>1 DEF Jobs
    <1>3. /\ faults' = faults /\ injections' = injections /\ leaked' = leaked
          /\ lease' = lease /\ lag' = lag /\ lost' = lost /\ budget' = budget
        BY DEF Write, lockVars, faultVars
    <1>4. CASE exp[E(w)] = Base(w)
        <2>1. /\ exp' = [exp EXCEPT ![E(w)] = Stored(v)]
              /\ past' = [past EXCEPT ![E(w)] = @ \cup {Stored(v)}]
              /\ work' = [work EXCEPT ![w] = job]
            BY <1>4 DEF Write
        <2> HIDE DEF job
        <2>2. /\ exp' \in [Experiments -> Version]
              /\ past' \in [Experiments -> SUBSET Version]
            BY <1>1, <2>1 DEF TypeOK
        <2>3. work' \in [Workers -> Jobs]
            BY <1>2, <2>1 DEF TypeOK
        <2>4. TypeOK'
            BY <1>3, <2>2, <2>3 DEF TypeOK
        <2>5. /\ exp'[E(w)] = Stored(v)
              /\ \A e \in Experiments \ {E(w)} : exp'[e] = exp[e]
            BY <1>1, <2>1 DEF TypeOK
        <2>6. /\ work'[w] = job
              /\ \A u \in Workers \ {w} : work'[u] = work[u]
            BY <2>1 DEF TypeOK
        <2> QED
            BY <1>3, <1>4, <2>4, <2>5, <2>6 DEF job
    <1>5. CASE exp[E(w)] # Base(w)
        <2>1. exp' = exp /\ past' = past /\ Return(w)
            BY <1>5 DEF Write
        <2>2. TypeOK'
            BY <1>3, <2>1, ReturnLemma DEF TypeOK
        <2> QED
            BY <1>3, <2>1, <2>2, ReturnLemma
    <1> QED
        BY <1>4, <1>5

-----------------------------------------------------------------------------
(* Type correctness *)

LockType == /\ lease \in [Operators -> Leases]
            /\ lag \in [Operators -> Leases \cup {None}]
            /\ lost \subseteq Experiments \X Operators

LEMMA PutLeaseType ==
    ASSUME LockType, NEW op \in Operators, NEW l \in Leases, PutLease(op, l)
    PROVE  LockType'
    <1>1. lease[op] \in Leases
        BY DEF LockType
    <1>2. {lease[op].holder} \ {None} \subseteq Experiments
        BY <1>1 DEF Leases
    <1>3. lost' \subseteq Experiments \X Operators
        BY <1>2 DEF PutLease, LockType
    <1> QED
        BY <1>1, <1>3 DEF PutLease, LockType

LEMMA HeldLeaseType == \A e \in Experiments : [holder |-> e, expired |-> FALSE] \in Leases
    BY DEF Leases

LEMMA FreeLeaseType == FreeLease \in Leases
    BY DEF FreeLease, Leases

LEMMA LockOpsType ==
    ASSUME LockType, NEW e \in Experiments, NEW op \in Operators,
           LockAcquired(e, op) \/ LockRenewed(e, op) \/ Released(op)
    PROVE  LockType'
    <1>1. CASE LockAcquired(e, op)
        BY <1>1, PutLeaseType, HeldLeaseType DEF LockAcquired, lockVars, LockType
    <1>2. CASE LockRenewed(e, op)
        BY <1>2, PutLeaseType, HeldLeaseType DEF LockRenewed
    <1>3. CASE Released(op)
        BY <1>3, FreeLeaseType DEF Released, LockType
    <1> QED
        BY <1>1, <1>2, <1>3

RestType == /\ exp \in [Experiments -> Version]
            /\ past \in [Experiments -> SUBSET Version]
            /\ faults \subseteq Experiments \X Specs
            /\ injections \in [Experiments -> Nat]
            /\ leaked \subseteq Experiments
            /\ budget \in Nat

LEMMA TypeParts == TypeOK <=> LockType /\ RestType /\ work \in [Workers -> Jobs]
    BY DEF TypeOK, LockType, RestType

LEMMA TypePartsNext == TypeOK' <=> LockType' /\ RestType' /\ work' \in [Workers -> Jobs]
    BY DEF TypeOK, LockType, RestType

\* The steps a decision can lead to.
LEMMA StepTypes ==
    ASSUME NEW v \in Version
    PROVE  /\ AbortStep(v) \in Steps
           /\ PhaseStep(v) \in Steps
           /\ FinalStep(v) \in {"backfill", "idle"}
           /\ FirstStep(v) \in Steps \cup {"idle"}
    <1>1. AbortStep(v) \in Steps
        BY DEF AbortStep, Steps
    <1>2. PhaseStep(v) \in Steps
        BY DEF PhaseStep, Steps
    <1>3. FinalStep(v) \in {"backfill", "idle"}
        BY DEF FinalStep
    <1>4. FirstStep(v) \in {"idle", "delete_revert", "backfill", "final_revert",
                            "final_update", "pending", "renew", AbortStep(v)}
        BY <1>3 DEF FirstStep
    <1>5. {"delete_revert", "backfill", "final_revert", "final_update",
           "pending", "renew"} \subseteq Steps
        BY DEF Steps
    <1> QED
        BY <1>1, <1>2, <1>3, <1>4, <1>5

\* A step of a worker that only decides what to do next.
Decides(w) == \/ RenewLost(w) \/ RenewConflict(w) \/ PendingInvalid(w)
              \/ PendingRefused(w) \/ PreCheckFailed(w) \/ ObserveWait(w)
              \/ ObserveDue(w) \/ ObserveRenewFailed(w) \/ PostCheckPoll(w)
              \/ PostCheckFailed(w) \/ Crash(w)

\* A step of a worker that uses the lock, injects or reverts.
Acts(w) == \/ Renew(w) \/ PendingAcquire(w) \/ ObserveRenew(w) \/ Release(w)
           \/ InjectFault(w) \/ ObserveRevert(w) \/ AbortRevert(w)
           \/ DeleteRevert(w) \/ FinalRevert(w)

\* A step of a worker that updates the experiment.
Updates(w) == \/ PendingStatus(w) \/ PreCheckPassed(w) \/ InjectBarrier(w)
              \/ InjectFinalizer(w) \/ InjectObserved(w) \/ InjectStatus(w)
              \/ ReenterFinalizer(w) \/ ReenterStatus(w) \/ ObserveStatus(w)
              \/ ObserveNext(w) \/ PostCheckStart(w) \/ Evaluate(w)
              \/ AbortBarrier(w) \/ AbortStatus(w) \/ DeleteUpdate(w)
              \/ FinalUpdate(w) \/ Backfill(w)

LEMMA ThreeKinds ==
    ASSUME NEW w \in Workers, Proceed(w) \/ Crash(w)
    PROVE  Decides(w) \/ Acts(w) \/ Updates(w)
    BY DEF Proceed, Decides, Acts, Updates

\* Where a worker is after a decision: done, or at a step that fits.
LEMMA DecideLemma ==
    ASSUME TypeOK, NEW w \in Workers, Decides(w)
    PROVE  /\ pc(w) # "idle"
           /\ UNCHANGED <<exp, past, lockVars, faultVars>>
           /\ budget' \in {budget, budget - 1} /\ (budget' # budget => budget > 0)
           /\ \/ Return(w)
              \/ pc(w) = "renew" /\ Goto(w, AbortStep(Base(w)))
              \/ pc(w) \in {"pending", "precheck"} /\ Goto(w, "abort_status")
              \/ pc(w) = "observe" /\ Goto(w, "observe_next")
              \/ pc(w) = "observe" /\ Goto(w, "observe_renew")
              \/ pc(w) \in {"observe_renew", "postcheck"} /\ Goto(w, "abort_revert")
    BY DEF Decides, RenewLost, RenewConflict, PendingInvalid, PendingRefused,
           PreCheckFailed, ObserveWait, ObserveDue, ObserveRenewFailed,
           PostCheckPoll, PostCheckFailed, Crash, Spend

\* And after an action.
LEMMA ActLemma ==
    ASSUME TypeOK, NEW w \in Workers, Acts(w)
    PROVE  /\ pc(w) # "idle"
           /\ UNCHANGED <<exp, past>>
           /\ \/ Return(w)
              \/ pc(w) = "renew" /\ Goto(w, PhaseStep(Base(w)))
              \/ pc(w) = "pending" /\ Goto(w, "pending_status")
              \/ pc(w) = "observe_renew" /\ Goto(w, "observe_revert")
              \/ pc(w) = "delete_release" /\ Goto(w, "delete_update")
              \/ /\ pc(w) = "final_release"
                 /\ FinalStep(Base(w)) = "backfill"
                 /\ Goto(w, "backfill")
              \/ pc(w) = "inject" /\ Goto(w, "inject_status")
              \/ pc(w) = "inject" /\ Goto(w, "abort_barrier")
              \/ pc(w) = "observe_revert" /\ Goto(w, "observe_status")
              \/ pc(w) = "abort_revert" /\ Goto(w, "abort_status")
              \/ pc(w) = "delete_revert" /\ Goto(w, "delete_release")
              \/ pc(w) = "final_revert" /\ Goto(w, "final_update")
           /\ IF pc(w) = "inject" THEN injections' = [injections EXCEPT ![E(w)] = @ + 1]
              ELSE injections' = injections
    <1>1. CASE Release(w)
        <2>1. pc(w) = "final_release" => FinalStep(Base(w)) \in {"backfill", "idle"}
            BY DEF FinalStep
        <2> QED
            BY <1>1, <2>1 DEF Release, AfterRelease, faultVars
    <1>2. CASE Renew(w) \/ PendingAcquire(w) \/ ObserveRenew(w)
        BY <1>2 DEF Renew, PendingAcquire, ObserveRenew, faultVars
    <1>3. CASE InjectFault(w)
        BY <1>3 DEF InjectFault
    <1>4. CASE ObserveRevert(w) \/ AbortRevert(w) \/ DeleteRevert(w) \/ FinalRevert(w)
        BY <1>4 DEF ObserveRevert, AbortRevert, DeleteRevert, FinalRevert,
                    Reverted, RevertFailed
    <1> QED
        BY <1>1, <1>2, <1>3, <1>4 DEF Acts

-----------------------------------------------------------------------------
(* What updates do to a version *)

\* The successor u of a version v keeps the promises of NeverBackwards and
\* EditAborts, and stays behind the barrier.
Forward(v, u) ==
    /\ Rank(u.phase) >= Rank(v.phase)
    /\ v.phase \in Terminal => u.phase \in {v.phase, "Gone"}
    /\ v.reverted => u.reverted \/ u.phase = "Gone"
    /\ v.posted => u.posted \/ u.phase = "Gone"
    /\ Mutated(v) => u.phase \in {v.phase, "Aborted", "Gone"} /\ (u.started => v.started)
    /\ Passed(v) => Passed(u)

InjectSteps == {"inject_finalizer", "inject_observed", "inject"}

\* An update of v to u that leads to `step'.
GoodUpdate(w, u, step) ==
    /\ Forward(Base(w), u)
    /\ step # "idle" => Held([pc |-> step, exp |-> E(w), base |-> u])
    /\ step \in InjectSteps =>
          \/ pc(w) \in InjectSteps
          \/ pc(w) = "inject_barrier" /\ ~Passed(Base(w)) /\ Passed(u)

LEMMA RankType == \A phase \in Phases : Rank(phase) \in 0..6
    BY DEF Rank, Phases, Terminal

LEMMA GoneForward ==
    ASSUME NEW v \in Version
    PROVE  Forward(v, Gone(v))
    <1>1. Gone(v).phase = "Gone" /\ ~Gone(v).started
        BY DEF Gone, Version
    <1>2. Rank(v.phase) \in 0..6 /\ Rank("Gone") = 6
        BY RankType DEF Version, Rank, Terminal
    <1> QED
        BY <1>1, <1>2 DEF Forward, Passed

\* A version that is not being deleted is stored as it is.
LEMMA StoredSame ==
    ASSUME NEW v \in Version, ~v.del
    PROVE  Stored(v) = v
    BY DEF Stored

LEMMA UpdateLemma ==
    ASSUME TypeOK, NEW w \in Workers, Held(work[w]), Updates(w)
    PROVE  /\ pc(w) # "idle"
           /\ \E v \in Version, step \in Steps \cup {"idle"} :
                  Write(w, v, step) /\ GoodUpdate(w, Stored(v), step)
    <1> DEFINE b == Base(w)
    <1>0. pc(w) # "idle"
        BY DEF Updates, PendingStatus, PreCheckPassed, InjectBarrier, InjectFinalizer,
               InjectObserved, InjectStatus, ReenterFinalizer, ReenterStatus,
               ObserveStatus, ObserveNext, PostCheckStart, Evaluate, AbortBarrier,
               AbortStatus, DeleteUpdate, FinalUpdate, Backfill
    <1>b. b \in Version
        BY <1>0, BusyJob
    <1>h. /\ b.phase \in PhasesAt(pc(w))
          /\ pc(w) \notin DeleteSteps => ~b.del
          /\ pc(w) \notin ClosingSteps => ~Mutated(b)
          /\ pc(w) = "inject_barrier" => ~b.started
        BY <1>0 DEF Held, pc, Base
    <1> HIDE DEF b
    <1>i. ASSUME NEW v \in Version, ~v.del, Write(w, v, "idle"), Forward(b, v)
          PROVE  \E u \in Version, step \in Steps \cup {"idle"} :
                    Write(w, u, step) /\ GoodUpdate(w, Stored(u), step)
        <2>1. GoodUpdate(w, Stored(v), "idle")
            BY <1>i, StoredSame DEF GoodUpdate, InjectSteps, b
        <2> QED
            BY <1>i, <2>1
    <1>1. CASE PendingStatus(w)
        <2> DEFINE v == [Observed(b) EXCEPT !.phase = "SteadyStatePre"]
        <2>1. Write(w, v, "idle") /\ pc(w) = "pending_status"
            BY <1>1 DEF PendingStatus, b
        <2>2. v \in Version /\ ~v.del
            BY <1>b, <1>h, <2>1 DEF Observed, Version, Phases, DeleteSteps
        <2>3. Forward(b, v)
            BY <1>b, <1>h, <2>1 DEF Forward, Observed, Version, PhasesAt, Rank, Terminal,
                 Passed, ClosingSteps, DeleteSteps
        <2> HIDE DEF v
        <2> QED
            BY <1>0, <1>i, <2>1, <2>2, <2>3
    <1>2. CASE PreCheckPassed(w)
        <2> DEFINE v == [b EXCEPT !.phase = "Injecting"]
        <2>1. Write(w, v, "idle") /\ pc(w) = "precheck"
            BY <1>2 DEF PreCheckPassed, b
        <2>2. v \in Version /\ ~v.del
            BY <1>b, <1>h, <2>1 DEF Version, Phases, DeleteSteps
        <2>3. Forward(b, v)
            BY <1>b, <1>h, <2>1 DEF Forward, Version, PhasesAt, Rank, Terminal,
                 Passed, ClosingSteps, DeleteSteps
        <2> HIDE DEF v
        <2> QED
            BY <1>0, <1>i, <2>1, <2>2, <2>3
    <1>3. CASE InjectBarrier(w)
        <2> DEFINE v == [b EXCEPT !.started = TRUE]
                   step == IF b.fin THEN "inject" ELSE "inject_finalizer"
        <2>1. Write(w, v, step) /\ pc(w) = "inject_barrier"
            BY <1>3 DEF InjectBarrier, b
        <2>2. v \in Version /\ ~v.del
            BY <1>b, <1>h, <2>1 DEF Version, DeleteSteps
        <2>3. b.phase = "Injecting" /\ ~b.started /\ ~Mutated(b)
            BY <1>h, <2>1 DEF PhasesAt, ClosingSteps, DeleteSteps
        <2>4. Forward(b, v) /\ ~Passed(b) /\ Passed(v)
            BY <1>b, <2>3 DEF Forward, Version, Rank, Terminal, Passed
        <2>5. Held([pc |-> step, exp |-> E(w), base |-> v])
            BY <1>b, <2>2, <2>3 DEF Held, PhasesAt, Version, Mutated
        <2>6. step \in Steps
            BY DEF Steps
        <2> QED
            BY <1>0, <2>1, <2>2, <2>4, <2>5, <2>6, StoredSame DEF GoodUpdate, b
    <1>4. CASE InjectFinalizer(w)
        <2> DEFINE v == [b EXCEPT !.fin = TRUE]
        <2>1. Write(w, v, "inject_observed") /\ pc(w) = "inject_finalizer"
            BY <1>4 DEF InjectFinalizer, b
        <2>2. v \in Version /\ ~v.del
            BY <1>b, <1>h, <2>1 DEF Version, DeleteSteps
        <2>3. b.phase = "Injecting" /\ ~Mutated(b)
            BY <1>h, <2>1 DEF PhasesAt, ClosingSteps, DeleteSteps
        <2>4. Forward(b, v)
            BY <1>b, <2>3 DEF Forward, Version, Rank, Terminal, Passed
        <2>5. Held([pc |-> "inject_observed", exp |-> E(w), base |-> v])
            BY <1>b, <2>2, <2>3 DEF Held, PhasesAt, Version, Mutated
        <2> QED
            BY <1>0, <2>1, <2>2, <2>4, <2>5, StoredSame DEF GoodUpdate, InjectSteps, Steps, b
    <1>5. CASE InjectObserved(w)
        <2> DEFINE v == [b EXCEPT !.obs = b.gen]
        <2>1. Write(w, v, "inject") /\ pc(w) = "inject_observed"
            BY <1>5 DEF InjectObserved, b
        <2>2. v \in Version /\ ~v.del
            BY <1>b, <1>h, <2>1 DEF Version, DeleteSteps
        <2>3. b.phase = "Injecting" /\ ~Mutated(b)
            BY <1>h, <2>1 DEF PhasesAt, ClosingSteps, DeleteSteps
        <2>4. Forward(b, v)
            BY <1>b, <2>3 DEF Forward, Version, Rank, Terminal, Passed
        <2>5. Held([pc |-> "inject", exp |-> E(w), base |-> v])
            BY <1>b, <2>2, <2>3 DEF Held, PhasesAt, Version, Mutated
        <2> QED
            BY <1>0, <2>1, <2>2, <2>4, <2>5, StoredSame DEF GoodUpdate, InjectSteps, Steps, b
    <1>6. CASE InjectStatus(w)
        <2> DEFINE v == [b EXCEPT !.phase = "Observing"]
        <2>1. Write(w, v, "idle") /\ pc(w) = "inject_status"
            BY <1>6 DEF InjectStatus, b
        <2>2. v \in Version /\ ~v.del
            BY <1>b, <1>h, <2>1 DEF Version, Phases, DeleteSteps
        <2>3. Forward(b, v)
            BY <1>b, <1>h, <2>1 DEF Forward, Version, PhasesAt, Rank, Terminal,
                 Passed, ClosingSteps, DeleteSteps
        <2> HIDE DEF v
        <2> QED
            BY <1>0, <1>i, <2>1, <2>2, <2>3
    <1>7. CASE ReenterFinalizer(w)
        <2> DEFINE v == [b EXCEPT !.fin = TRUE]
        <2>1. Write(w, v, "reenter_status") /\ pc(w) = "reenter_finalizer"
            BY <1>7 DEF ReenterFinalizer, b
        <2>2. v \in Version /\ ~v.del
            BY <1>b, <1>h, <2>1 DEF Version, DeleteSteps
        <2>3. b.phase = "Injecting" /\ ~Mutated(b)
            BY <1>h, <2>1 DEF PhasesAt, ClosingSteps, DeleteSteps
        <2>4. Forward(b, v)
            BY <1>b, <2>3 DEF Forward, Version, Rank, Terminal, Passed
        <2>5. Held([pc |-> "reenter_status", exp |-> E(w), base |-> v])
            BY <1>b, <2>2, <2>3 DEF Held, PhasesAt, Version, Mutated
        <2> QED
            BY <1>0, <2>1, <2>2, <2>4, <2>5, StoredSame DEF GoodUpdate, InjectSteps, Steps, b
    <1>8. CASE ReenterStatus(w)
        <2> DEFINE v == [b EXCEPT !.phase = "Observing", !.obs = b.gen]
        <2>1. Write(w, v, "idle") /\ pc(w) = "reenter_status"
            BY <1>8 DEF ReenterStatus, b
        <2>2. v \in Version /\ ~v.del
            BY <1>b, <1>h, <2>1 DEF Version, Phases, DeleteSteps
        <2>3. Forward(b, v)
            BY <1>b, <1>h, <2>1 DEF Forward, Version, PhasesAt, Rank, Terminal,
                 Passed, ClosingSteps, DeleteSteps
        <2> HIDE DEF v
        <2> QED
            BY <1>0, <1>i, <2>1, <2>2, <2>3
    <1>9. CASE ObserveStatus(w)
        <2> DEFINE v == [b EXCEPT !.reverted = TRUE]
        <2>1. Write(w, v, "idle") /\ pc(w) = "observe_status"
            BY <1>9 DEF ObserveStatus, b
        <2>2. v \in Version /\ ~v.del
            BY <1>b, <1>h, <2>1 DEF Version, DeleteSteps
        <2>3. Forward(b, v)
            BY <1>b, <1>h, <2>1 DEF Forward, Version, PhasesAt, Rank, Terminal,
                 Passed, ClosingSteps, DeleteSteps
        <2> HIDE DEF v
        <2> QED
            BY <1>0, <1>i, <2>1, <2>2, <2>3
    <1>10. CASE ObserveNext(w)
        <2> DEFINE v == [b EXCEPT !.phase = "SteadyStatePost"]
        <2>1. Write(w, v, "idle") /\ pc(w) = "observe_next"
            BY <1>10 DEF ObserveNext, b
        <2>2. v \in Version /\ ~v.del
            BY <1>b, <1>h, <2>1 DEF Version, Phases, DeleteSteps
        <2>3. Forward(b, v)
            BY <1>b, <1>h, <2>1 DEF Forward, Version, PhasesAt, Rank, Terminal,
                 Passed, ClosingSteps, DeleteSteps
        <2> HIDE DEF v
        <2> QED
            BY <1>0, <1>i, <2>1, <2>2, <2>3
    <1>11. CASE PostCheckStart(w)
        <2> DEFINE v == [b EXCEPT !.posted = TRUE]
        <2>1. Write(w, v, "idle") /\ pc(w) = "postcheck_start"
            BY <1>11 DEF PostCheckStart, b
        <2>2. v \in Version /\ ~v.del
            BY <1>b, <1>h, <2>1 DEF Version, DeleteSteps
        <2>3. Forward(b, v)
            BY <1>b, <1>h, <2>1 DEF Forward, Version, PhasesAt, Rank, Terminal,
                 Passed, ClosingSteps, DeleteSteps
        <2> HIDE DEF v
        <2> QED
            BY <1>0, <1>i, <2>1, <2>2, <2>3
    <1>12. CASE Evaluate(w)
        <2> DEFINE v == [b EXCEPT !.phase = "Complete", !.full = TRUE]
        <2>1. Write(w, v, "release") /\ pc(w) = "postcheck"
            BY <1>12 DEF Evaluate, b
        <2>2. v \in Version /\ ~v.del
            BY <1>b, <1>h, <2>1 DEF Version, Phases, Terminal, DeleteSteps
        <2>3. Forward(b, v)
            BY <1>b, <1>h, <2>1 DEF Forward, Version, PhasesAt, Rank, Terminal,
                 Passed, ClosingSteps, DeleteSteps
        <2>4. Held([pc |-> "release", exp |-> E(w), base |-> v])
            BY <1>b, <2>2 DEF Held, PhasesAt, Version, ClosingSteps, Terminal
        <2> QED
            BY <1>0, <2>1, <2>2, <2>3, <2>4, StoredSame DEF GoodUpdate, InjectSteps, Steps, b
    <1>13. CASE AbortBarrier(w)
        <2> DEFINE v == [b EXCEPT !.phase = "Aborted", !.started = FALSE]
        <2>1. Write(w, v, "abort_revert") /\ pc(w) = "abort_barrier"
            BY <1>13 DEF AbortBarrier, b
        <2>2. v \in Version /\ ~v.del
            BY <1>b, <1>h, <2>1 DEF Version, Phases, Terminal, DeleteSteps
        <2>3. Forward(b, v)
            BY <1>b, <1>h, <2>1 DEF Forward, Version, PhasesAt, Rank, Terminal, Passed
        <2>4. Held([pc |-> "abort_revert", exp |-> E(w), base |-> v])
            BY <1>b, <2>2 DEF Held, PhasesAt, Version, ClosingSteps
        <2> QED
            BY <1>0, <2>1, <2>2, <2>3, <2>4, StoredSame DEF GoodUpdate, InjectSteps, Steps, b
    <1>14. CASE AbortStatus(w)
        <2> DEFINE v == [Observed(b) EXCEPT !.phase = "Aborted", !.full = TRUE]
        <2>1. Write(w, v, "release") /\ pc(w) = "abort_status"
            BY <1>14 DEF AbortStatus, b
        <2>2. v \in Version /\ ~v.del
            BY <1>b, <1>h, <2>1 DEF Observed, Version, Phases, Terminal, DeleteSteps
        <2>3. Forward(b, v)
            BY <1>b, <1>h, <2>1 DEF Forward, Observed, Version, PhasesAt, Rank, Terminal, Passed
        <2>4. Held([pc |-> "release", exp |-> E(w), base |-> v])
            BY <1>b, <2>2 DEF Held, PhasesAt, Version, ClosingSteps, Observed, Terminal
        <2> QED
            BY <1>0, <2>1, <2>2, <2>3, <2>4, StoredSame DEF GoodUpdate, InjectSteps, Steps, b
    <1>15. CASE DeleteUpdate(w)
        <2> DEFINE v == [b EXCEPT !.fin = FALSE]
        <2>1. Write(w, v, "idle") /\ pc(w) = "delete_update"
            BY <1>15 DEF DeleteUpdate, b
        <2>2. v \in Version
            BY <1>b DEF Version
        <2>3. CASE v.del
            <3>1. Stored(v) = Gone(b)
                BY <1>b, <2>3 DEF Stored, Gone, Version
            <3> QED
                BY <1>0, <1>b, <2>1, <2>2, <3>1, GoneForward DEF GoodUpdate, InjectSteps, b
        <2>4. CASE ~v.del
            <3>1. Forward(b, v)
                BY <1>b, RankType DEF Forward, Version, Passed
            <3> QED
                BY <1>0, <1>i, <2>1, <2>2, <2>4, <3>1
        <2> QED
            BY <2>3, <2>4
    <1>16. CASE FinalUpdate(w)
        <2> DEFINE v == [b EXCEPT !.fin = FALSE]
        <2>1. Write(w, v, "final_release") /\ pc(w) = "final_update"
            BY <1>16 DEF FinalUpdate, b
        <2>2. v \in Version /\ ~v.del
            BY <1>b, <1>h, <2>1 DEF Version, DeleteSteps
        <2>3. Forward(b, v)
            BY <1>b, RankType DEF Forward, Version, Passed
        <2>4. Held([pc |-> "final_release", exp |-> E(w), base |-> v])
            BY <1>b, <1>h, <2>1, <2>2 DEF Held, PhasesAt, Version, ClosingSteps
        <2> QED
            BY <1>0, <2>1, <2>2, <2>3, <2>4, StoredSame DEF GoodUpdate, InjectSteps, Steps, b
    <1>17. CASE Backfill(w)
        <2> DEFINE v == [b EXCEPT !.full = TRUE, !.started = FALSE]
        <2>1. Write(w, v, "idle") /\ pc(w) = "backfill"
            BY <1>17 DEF Backfill, b
        <2>2. v \in Version /\ ~v.del
            BY <1>b, <1>h, <2>1 DEF Version, DeleteSteps
        <2>3. Forward(b, v)
            BY <1>b, <1>h, <2>1, RankType DEF Forward, Version, PhasesAt, Passed, Terminal
        <2> HIDE DEF v
        <2> QED
            BY <1>0, <1>i, <2>1, <2>2, <2>3
    <1> QED
        BY <1>1, <1>2, <1>3, <1>4, <1>5, <1>6, <1>7, <1>8, <1>9, <1>10, <1>11,
           <1>12, <1>13, <1>14, <1>15, <1>16, <1>17 DEF Updates

-----------------------------------------------------------------------------
(* The inductive invariant *)

AllHeld == \A w \in Workers : Held(work[w])

\* The part about injections: nobody injects twice.
Single ==
    /\ \A w \in Workers :
          work[w].pc \in InjectSteps => Passed(exp[work[w].exp]) /\ injections[work[w].exp] = 0
    /\ \A w, u \in Workers :
          work[w].pc \in InjectSteps /\ work[u].pc \in InjectSteps /\ work[w].exp = work[u].exp
             => w = u
    /\ \A e \in Experiments : injections[e] = 0 \/ (injections[e] = 1 /\ Passed(exp[e]))

LEMMA InvParts == InjectionInv <=> TypeOK /\ AllHeld /\ Single
    BY DEF InjectionInv, AllHeld, Single, Injecting, InjectSteps, pc, E

LEMMA InvPartsNext == InjectionInv' <=> TypeOK' /\ AllHeld' /\ Single'
    BY DEF InjectionInv, AllHeld, Single, Injecting, InjectSteps, pc, E

\* A step of w that starts no injection and lets no experiment fall back
\* behind its barrier.
LEMMA SingleKept ==
    ASSUME TypeOK, Single, NEW w \in Workers,
           \A u \in Workers \ {w} : work'[u] = work[u],
           work'[w].pc \notin InjectSteps,
           \A e \in Experiments : Passed(exp[e]) => Passed(exp'[e]),
           injections' = injections
    PROVE  Single'
    <1>1. \A u \in Workers : work'[u].pc \in InjectSteps => u # w /\ work'[u] = work[u]
        OBVIOUS
    <1>2. \A u \in Workers : work[u].pc \in InjectSteps => work[u].exp \in Experiments
        BY BusyJob DEF InjectSteps, pc, E
    <1> QED
        BY <1>1, <1>2 DEF Single

LEMMA HeldKept ==
    ASSUME AllHeld, NEW w \in Workers,
           \A u \in Workers \ {w} : work'[u] = work[u], Held(work'[w])
    PROVE  AllHeld'
    BY DEF AllHeld

LEMMA IdleHeld == Held(Idle) /\ Idle.pc \notin InjectSteps
    BY DEF Held, Idle, InjectSteps

LEMMA DecideNext ==
    ASSUME InjectionInv, NEW w \in Workers, Decides(w)
    PROVE  InjectionInv' /\ exp' = exp
    <1>1. TypeOK /\ AllHeld /\ Single
        BY InvParts
    <1>2. /\ pc(w) # "idle"
          /\ exp' = exp /\ past' = past /\ injections' = injections
          /\ faults' = faults /\ leaked' = leaked
          /\ lease' = lease /\ lag' = lag /\ lost' = lost
          /\ budget' \in {budget, budget - 1} /\ (budget' # budget => budget > 0)
        BY <1>1, DecideLemma DEF lockVars, faultVars
    <1>3. budget' \in Nat
        BY <1>1, <1>2 DEF TypeOK
    <1>4. Base(w) \in Version /\ Held(work[w]) /\ work[w].pc = pc(w) /\ work[w].base = Base(w)
        BY <1>1, <1>2, BusyJob DEF AllHeld, pc, Base
    <1>5. /\ work' \in [Workers -> Jobs]
          /\ \A u \in Workers \ {w} : work'[u] = work[u]
          /\ Held(work'[w])
          /\ work'[w].pc \notin InjectSteps
        <2>1. CASE Return(w)
            BY <1>1, <2>1, ReturnLemma, IdleHeld
        <2>2. CASE pc(w) = "renew" /\ Goto(w, AbortStep(Base(w)))
            <3>1. AbortStep(Base(w)) \in Steps
                BY <1>4, StepTypes
            <3>2. Held([pc |-> AbortStep(Base(w)), exp |-> E(w), base |-> Base(w)])
                BY <1>4, <2>2 DEF Held, AbortStep, PhasesAt, ClosingSteps, DeleteSteps
            <3>3. AbortStep(Base(w)) \notin InjectSteps
                BY DEF AbortStep, InjectSteps
            <3> QED
                BY <1>1, <1>2, <2>2, <3>1, <3>2, <3>3, GotoLemma
        <2>3. ASSUME NEW step \in {"abort_status", "observe_next", "observe_renew", "abort_revert"},
                     Goto(w, step),
                     Held([pc |-> step, exp |-> E(w), base |-> Base(w)])
              PROVE  /\ work' \in [Workers -> Jobs]
                     /\ \A u \in Workers \ {w} : work'[u] = work[u]
                     /\ Held(work'[w])
                     /\ work'[w].pc \notin InjectSteps
            <3>1. step \in Steps /\ step \notin InjectSteps
                BY <2>3 DEF Steps, InjectSteps
            <3> QED
                BY <1>1, <1>2, <2>3, <3>1, GotoLemma
        <2>4. CASE pc(w) \in {"pending", "precheck"} /\ Goto(w, "abort_status")
            <3>1. Held([pc |-> "abort_status", exp |-> E(w), base |-> Base(w)])
                BY <1>4, <2>4 DEF Held, PhasesAt, ClosingSteps, DeleteSteps
            <3> QED
                BY <2>3, <2>4, <3>1
        <2>5. CASE pc(w) = "observe" /\ Goto(w, "observe_next")
            <3>1. Held([pc |-> "observe_next", exp |-> E(w), base |-> Base(w)])
                BY <1>4, <2>5 DEF Held, PhasesAt, ClosingSteps, DeleteSteps
            <3> QED
                BY <2>3, <2>5, <3>1
        <2>6. CASE pc(w) = "observe" /\ Goto(w, "observe_renew")
            <3>1. Held([pc |-> "observe_renew", exp |-> E(w), base |-> Base(w)])
                BY <1>4, <2>6 DEF Held, PhasesAt, ClosingSteps, DeleteSteps
            <3> QED
                BY <2>3, <2>6, <3>1
        <2>7. CASE pc(w) \in {"observe_renew", "postcheck"} /\ Goto(w, "abort_revert")
            <3>1. Held([pc |-> "abort_revert", exp |-> E(w), base |-> Base(w)])
                BY <1>4, <2>7 DEF Held, PhasesAt, ClosingSteps, DeleteSteps
            <3> QED
                BY <2>3, <2>7, <3>1
        <2> QED
            BY <1>1, <2>1, <2>2, <2>4, <2>5, <2>6, <2>7, DecideLemma
    <1>6. TypeOK'
        BY <1>1, <1>2, <1>3, <1>5 DEF TypeOK
    <1> QED
        BY <1>1, <1>2, <1>5, <1>6, HeldKept, SingleKept, InvPartsNext

\* The types an action of a worker can disturb besides its own job.
LEMMA ActTypes ==
    ASSUME TypeOK, NEW w \in Workers, Acts(w)
    PROVE  LockType' /\ RestType'
    <1>1. pc(w) # "idle" /\ exp' = exp /\ past' = past
        BY ActLemma
    <1>2. E(w) \in Experiments /\ Op(w) \in Operators /\ Base(w).spec \in Specs
        BY <1>1, BusyJob DEF Version
    <1>3. LockType /\ RestType
        BY TypeParts
    <1>4. LockType'
        <2>1. CASE Renew(w) \/ PendingAcquire(w) \/ ObserveRenew(w)
            BY <1>2, <1>3, <2>1, LockOpsType DEF Renew, PendingAcquire, ObserveRenew
        <2>2. CASE Release(w)
            BY <1>2, <1>3, <2>2, LockOpsType DEF Release, lockVars, LockType
        <2>3. CASE \/ InjectFault(w) \/ ObserveRevert(w) \/ AbortRevert(w)
                   \/ DeleteRevert(w) \/ FinalRevert(w)
            BY <1>3, <2>3 DEF InjectFault, ObserveRevert, AbortRevert, DeleteRevert,
                 FinalRevert, lockVars, LockType
        <2> QED
            BY <2>1, <2>2, <2>3 DEF Acts
    <1>5. faults' \subseteq Experiments \X Specs /\ leaked' \subseteq Experiments
        <2>1. CASE Renew(w) \/ PendingAcquire(w) \/ ObserveRenew(w) \/ Release(w)
            BY <1>3, <2>1 DEF Renew, PendingAcquire, ObserveRenew, Release, faultVars, RestType
        <2>2. CASE InjectFault(w)
            BY <1>2, <1>3, <2>2 DEF InjectFault, RestType
        <2>3. CASE ObserveRevert(w) \/ AbortRevert(w) \/ DeleteRevert(w) \/ FinalRevert(w)
            BY <1>2, <1>3, <2>3 DEF ObserveRevert, AbortRevert, DeleteRevert, FinalRevert,
                 Reverted, RevertFailed, RestType
        <2> QED
            BY <2>1, <2>2, <2>3 DEF Acts
    <1>6. budget' \in Nat
        <2>1. budget' = budget \/ Spend
            BY DEF Acts, Renew, PendingAcquire, ObserveRenew, Release, InjectFault,
               ObserveRevert, AbortRevert, DeleteRevert, FinalRevert, Reverted, RevertFailed
        <2> QED
            BY <1>3, <2>1 DEF Spend, RestType
    <1>7. injections' \in [Experiments -> Nat]
        <2>1. \/ injections' = [injections EXCEPT ![E(w)] = @ + 1]
              \/ injections' = injections
            BY ActLemma
        <2> QED
            BY <1>2, <1>3, <2>1 DEF RestType
    <1> QED
        BY <1>1, <1>3, <1>4, <1>5, <1>6, <1>7 DEF RestType

LEMMA ActNext ==
    ASSUME InjectionInv, NEW w \in Workers, Acts(w)
    PROVE  InjectionInv' /\ exp' = exp
    <1>1. TypeOK /\ AllHeld /\ Single
        BY InvParts
    <1>2. pc(w) # "idle" /\ exp' = exp
        BY <1>1, ActLemma
    <1>3. /\ Base(w) \in Version /\ E(w) \in Experiments /\ Held(work[w])
          /\ work[w].pc = pc(w) /\ work[w].base = Base(w) /\ work[w].exp = E(w)
        BY <1>1, <1>2, BusyJob DEF AllHeld, pc, Base, E
    <1>4. /\ work' \in [Workers -> Jobs]
          /\ \A u \in Workers \ {w} : work'[u] = work[u]
          /\ Held(work'[w])
          /\ work'[w].pc \notin InjectSteps
        <2>1. CASE Return(w)
            BY <1>1, <2>1, ReturnLemma, IdleHeld
        <2>2. CASE pc(w) = "renew" /\ Goto(w, PhaseStep(Base(w)))
            <3>1. PhaseStep(Base(w)) \in Steps
                BY <1>3, StepTypes
            <3>2. Held([pc |-> PhaseStep(Base(w)), exp |-> E(w), base |-> Base(w)])
                <4>1. /\ Base(w).phase \in {"SteadyStatePre", "Injecting", "Observing", "SteadyStatePost"}
                      /\ ~Base(w).del /\ ~Mutated(Base(w))
                    BY <1>3, <2>2 DEF Held, PhasesAt, ClosingSteps, DeleteSteps
                <4>2. Base(w).phase \in PhasesAt(PhaseStep(Base(w)))
                    BY <4>1 DEF PhaseStep, PhasesAt
                <4>3. PhaseStep(Base(w)) = "inject_barrier" => ~Base(w).started
                    BY <4>1 DEF PhaseStep
                <4> QED
                    BY <4>1, <4>2, <4>3 DEF Held
            <3>3. PhaseStep(Base(w)) \notin InjectSteps
                BY DEF PhaseStep, InjectSteps
            <3> QED
                BY <1>1, <1>2, <2>2, <3>1, <3>2, <3>3, GotoLemma
        <2>3. ASSUME NEW step \in Steps \ InjectSteps, Goto(w, step),
                     Held([pc |-> step, exp |-> E(w), base |-> Base(w)])
              PROVE  /\ work' \in [Workers -> Jobs]
                     /\ \A u \in Workers \ {w} : work'[u] = work[u]
                     /\ Held(work'[w])
                     /\ work'[w].pc \notin InjectSteps
            BY <1>1, <1>2, <2>3, GotoLemma
        <2>4. {"pending_status", "observe_revert", "delete_update", "backfill",
               "inject_status", "abort_barrier", "observe_status", "abort_status",
               "delete_release", "final_update"} \subseteq Steps \ InjectSteps
            BY DEF Steps, InjectSteps
        <2>5. CASE pc(w) = "pending" /\ Goto(w, "pending_status")
            <3>1. Held([pc |-> "pending_status", exp |-> E(w), base |-> Base(w)])
                BY <1>3, <2>5 DEF Held, PhasesAt, ClosingSteps, DeleteSteps
            <3> QED
                BY <2>3, <2>4, <2>5, <3>1
        <2>6. CASE pc(w) = "observe_renew" /\ Goto(w, "observe_revert")
            <3>1. Held([pc |-> "observe_revert", exp |-> E(w), base |-> Base(w)])
                BY <1>3, <2>6 DEF Held, PhasesAt, ClosingSteps, DeleteSteps
            <3> QED
                BY <2>3, <2>4, <2>6, <3>1
        <2>7. CASE pc(w) = "delete_release" /\ Goto(w, "delete_update")
            <3>1. Held([pc |-> "delete_update", exp |-> E(w), base |-> Base(w)])
                BY <1>3, <2>7 DEF Held, PhasesAt, ClosingSteps, DeleteSteps
            <3> QED
                BY <2>3, <2>4, <2>7, <3>1
        <2>8. CASE /\ pc(w) = "final_release" /\ FinalStep(Base(w)) = "backfill"
                   /\ Goto(w, "backfill")
            <3>1. Base(w).phase = "Aborted"
                BY <2>8 DEF FinalStep, NeedsBackfill
            <3>2. Held([pc |-> "backfill", exp |-> E(w), base |-> Base(w)])
                BY <1>3, <2>8, <3>1 DEF Held, PhasesAt, ClosingSteps, DeleteSteps
            <3> QED
                BY <2>3, <2>4, <2>8, <3>2
        <2>9. CASE pc(w) = "inject" /\ Goto(w, "inject_status")
            <3>1. Held([pc |-> "inject_status", exp |-> E(w), base |-> Base(w)])
                BY <1>3, <2>9 DEF Held, PhasesAt, ClosingSteps, DeleteSteps
            <3> QED
                BY <2>3, <2>4, <2>9, <3>1
        <2>10. CASE pc(w) = "inject" /\ Goto(w, "abort_barrier")
            <3>1. Held([pc |-> "abort_barrier", exp |-> E(w), base |-> Base(w)])
                BY <1>3, <2>10 DEF Held, PhasesAt, ClosingSteps, DeleteSteps
            <3> QED
                BY <2>3, <2>4, <2>10, <3>1
        <2>11. CASE pc(w) = "observe_revert" /\ Goto(w, "observe_status")
            <3>1. Held([pc |-> "observe_status", exp |-> E(w), base |-> Base(w)])
                BY <1>3, <2>11 DEF Held, PhasesAt, ClosingSteps, DeleteSteps
            <3> QED
                BY <2>3, <2>4, <2>11, <3>1
        <2>12. CASE pc(w) = "abort_revert" /\ Goto(w, "abort_status")
            <3>1. Held([pc |-> "abort_status", exp |-> E(w), base |-> Base(w)])
                BY <1>3, <2>12 DEF Held, PhasesAt, ClosingSteps, DeleteSteps
            <3> QED
                BY <2>3, <2>4, <2>12, <3>1
        <2>13. CASE pc(w) = "delete_revert" /\ Goto(w, "delete_release")
            <3>1. Held([pc |-> "delete_release", exp |-> E(w), base |-> Base(w)])
                BY <1>3, <2>13 DEF Held, PhasesAt, ClosingSteps, DeleteSteps
            <3> QED
                BY <2>3, <2>4, <2>13, <3>1
        <2>14. CASE pc(w) = "final_revert" /\ Goto(w, "final_update")
            <3>1. Held([pc |-> "final_update", exp |-> E(w), base |-> Base(w)])
                BY <1>3, <2>14 DEF Held, PhasesAt, ClosingSteps, DeleteSteps, Terminal
            <3> QED
                BY <2>3, <2>4, <2>14, <3>1
        <2> QED
            BY <1>1, <2>1, <2>2, <2>5, <2>6, <2>7, <2>8, <2>9, <2>10, <2>11, <2>12,
               <2>13, <2>14, ActLemma
    <1>5. TypeOK'
        BY <1>1, <1>4, ActTypes, TypePartsNext
    <1>6. AllHeld'
        BY <1>1, <1>4, HeldKept
    <1>7. Single'
        <2>1. CASE pc(w) # "inject"
            <3>1. injections' = injections
                BY <1>1, <2>1, ActLemma
            <3> QED
                BY <1>1, <1>2, <1>4, <3>1, SingleKept
        <2>2. CASE pc(w) = "inject"
            <3>1. injections' = [injections EXCEPT ![E(w)] = @ + 1]
                BY <1>1, <2>2, ActLemma
            <3>2. pc(w) \in InjectSteps
                BY <2>2 DEF InjectSteps
            <3>3. injections[E(w)] = 0 /\ Passed(exp[E(w)])
                BY <1>1, <1>3, <3>2 DEF Single
            <3>4. injections'[E(w)] = 1
                BY <1>1, <1>3, <3>1, <3>3 DEF TypeOK
            <3>5. \A e \in Experiments \ {E(w)} : injections'[e] = injections[e]
                BY <1>1, <1>3, <3>1 DEF TypeOK
            <3>6. \A u \in Workers : work'[u].pc \in InjectSteps =>
                     /\ u # w /\ work'[u] = work[u]
                     /\ work[u].exp \in Experiments \ {E(w)}
                <4>1. \A u \in Workers : work[u].pc \in InjectSteps => work[u].exp \in Experiments
                    BY <1>1, BusyJob DEF InjectSteps, pc, E
                <4> QED
                    BY <1>1, <1>3, <1>4, <3>2, <4>1 DEF Single
            <3> QED
                BY <1>1, <1>2, <1>3, <3>3, <3>4, <3>5, <3>6 DEF Single
        <2> QED
            BY <2>1, <2>2
    <1> QED
        BY <1>2, <1>5, <1>6, <1>7, InvPartsNext

\* What a step may do to the experiments.
AllForward == \A e \in Experiments : exp'[e] = exp[e] \/ Forward(exp[e], exp'[e])

LEMMA PassedKept ==
    ASSUME AllForward
    PROVE  \A e \in Experiments : Passed(exp[e]) => Passed(exp'[e])
    BY DEF AllForward, Forward

LEMMA UpdateNext ==
    ASSUME InjectionInv, NEW w \in Workers, Updates(w)
    PROVE  InjectionInv' /\ AllForward
    <1>1. TypeOK /\ AllHeld /\ Single
        BY InvParts
    <1>2. Held(work[w])
        BY <1>1 DEF AllHeld
    <1>3. pc(w) # "idle"
        BY <1>1, <1>2, UpdateLemma
    <1>4. PICK v \in Version, step \in Steps \cup {"idle"} :
             Write(w, v, step) /\ GoodUpdate(w, Stored(v), step)
        BY <1>1, <1>2, UpdateLemma
    <1>5. /\ E(w) \in Experiments /\ work[w].pc = pc(w) /\ work[w].exp = E(w)
        BY <1>1, <1>3, BusyJob DEF pc, E
    <1> DEFINE u == Stored(v)
    <1>6. /\ TypeOK'
          /\ \A x \in Workers \ {w} : work'[x] = work[x]
          /\ \A e \in Experiments \ {E(w)} : exp'[e] = exp[e]
          /\ injections' = injections
        BY <1>1, <1>3, <1>4, WriteLemma
    <1>7. \/ /\ exp[E(w)] = Base(w)
             /\ exp'[E(w)] = u
             /\ work'[w] = IF step = "idle" THEN Idle
                           ELSE [pc |-> step, exp |-> E(w), base |-> u]
          \/ exp'[E(w)] = exp[E(w)] /\ work'[w] = Idle
        BY <1>1, <1>3, <1>4, WriteLemma
    <1>8. /\ Forward(Base(w), u)
          /\ step # "idle" => Held([pc |-> step, exp |-> E(w), base |-> u])
          /\ step \in InjectSteps =>
                \/ pc(w) \in InjectSteps
                \/ pc(w) = "inject_barrier" /\ ~Passed(Base(w)) /\ Passed(u)
        BY <1>4 DEF GoodUpdate
    <1> HIDE DEF u
    <1>9. AllForward
        BY <1>6, <1>7, <1>8 DEF AllForward
    <1>10. Held(work'[w])
        BY <1>7, <1>8, IdleHeld
    <1>11. AllHeld'
        BY <1>1, <1>6, <1>10, HeldKept
    <1>12. Single'
        <2>1. CASE work'[w].pc \notin InjectSteps
            BY <1>1, <1>6, <1>9, <2>1, PassedKept, SingleKept
        <2>2. CASE work'[w].pc \in InjectSteps
            <3>1. /\ exp[E(w)] = Base(w) /\ exp'[E(w)] = u
                  /\ work'[w] = [pc |-> step, exp |-> E(w), base |-> u]
                  /\ step \in InjectSteps
                BY <1>7, <2>2, IdleHeld
            <3>2. \A x \in Workers : work[x].pc \in InjectSteps => work[x].exp \in Experiments
                BY <1>1, BusyJob DEF InjectSteps, pc, E
            <3>3. \A e \in Experiments : Passed(exp[e]) => Passed(exp'[e])
                BY <1>9, PassedKept
            <3>4. injections[E(w)] = 0
                BY <1>1, <1>5, <1>8, <3>1 DEF Single
            <3>5. Passed(exp'[E(w)])
                BY <1>1, <1>5, <1>8, <3>1, <3>3 DEF Single
            <3>6. \A x \in Workers \ {w} : work[x].pc \in InjectSteps => work[x].exp # E(w)
                BY <1>1, <1>5, <1>8, <3>1 DEF Single
            <3>7. work'[w].exp = E(w)
                BY <3>1
            <3>8. \A x \in Workers : work'[x].pc \in InjectSteps =>
                     /\ work'[x].exp \in Experiments
                     /\ Passed(exp'[work'[x].exp]) /\ injections'[work'[x].exp] = 0
                BY <1>1, <1>5, <1>6, <3>2, <3>3, <3>4, <3>5, <3>7 DEF Single
            <3>9. \A x, y \in Workers :
                     /\ work'[x].pc \in InjectSteps /\ work'[y].pc \in InjectSteps
                     /\ work'[x].exp = work'[y].exp
                     => x = y
                BY <1>1, <1>6, <3>6, <3>7 DEF Single
            <3>10. \A e \in Experiments :
                      injections'[e] = 0 \/ (injections'[e] = 1 /\ Passed(exp'[e]))
                BY <1>1, <1>6, <3>3 DEF Single
            <3> QED
                BY <3>8, <3>9, <3>10 DEF Single
        <2> QED
            BY <2>1, <2>2
    <1> QED
        BY <1>6, <1>9, <1>11, <1>12, InvPartsNext

\* A worker that starts a Reconcile, on whatever version it read.
LEMMA ReconcileNext ==
    ASSUME InjectionInv, NEW w \in Workers, NEW e \in Experiments, NEW v \in Version,
           Reconcile(w, e, v)
    PROVE  InjectionInv' /\ exp' = exp
    <1>1. TypeOK /\ AllHeld /\ Single
        BY InvParts
    <1>2. /\ exp' = exp /\ past' = past /\ injections' = injections
          /\ faults' = faults /\ leaked' = leaked /\ budget' = budget
          /\ lease' = lease /\ lag' = lag /\ lost' = lost
        BY DEF Reconcile, lockVars, faultVars
    <1> DEFINE job == [pc |-> FirstStep(v), exp |-> e, base |-> v]
    <1>3. FirstStep(v) \in Steps
        BY StepTypes DEF Reconcile
    <1>4. job \in Jobs /\ job.pc = FirstStep(v) /\ job.base = v
        BY <1>3 DEF Jobs
    <1>5. FirstStep(v) \notin InjectSteps
        BY DEF FirstStep, FinalStep, AbortStep, InjectSteps
    <1>6. Held(job)
        <2>1. FirstStep(v) # "idle"
            BY <1>3, IdleNotStep
        <2>2. v.phase \in Phases /\ v.del \in BOOLEAN
            BY DEF Version
        <2>3. v.phase # "Gone"
            BY <2>1 DEF FirstStep, Terminal
        <2>4. CASE v.del
            <3>1. FirstStep(v) = "delete_revert"
                BY <2>1, <2>3, <2>4 DEF FirstStep, Terminal
            <3> QED
                BY <1>4, <2>2, <2>3, <3>1 DEF Held, PhasesAt, DeleteSteps, ClosingSteps
        <2>5. CASE ~v.del /\ v.phase \in Terminal
            <3>1. \/ FirstStep(v) = "backfill" /\ v.phase = "Aborted"
                  \/ FirstStep(v) = "final_revert" /\ v.phase = "Aborted"
                  \/ FirstStep(v) = "final_update"
                BY <2>1, <2>3, <2>5 DEF FirstStep, FinalStep, NeedsBackfill
            <3> QED
                BY <1>4, <2>5, <3>1 DEF Held, PhasesAt, ClosingSteps
        <2>6. CASE ~v.del /\ v.phase \notin Terminal
            <3>1. FirstStep(v) = IF Mutated(v) THEN AbortStep(v)
                                 ELSE IF v.phase = "Pending" THEN "pending" ELSE "renew"
                BY <2>3, <2>6 DEF FirstStep
            <3>2. v.phase \in {"Pending", "SteadyStatePre", "Injecting", "Observing",
                               "SteadyStatePost"}
                BY <2>2, <2>3, <2>6 DEF Phases
            <3>3. CASE Mutated(v)
                <4>1. AbortStep(v) \in ClosingSteps /\ v.phase \in PhasesAt(AbortStep(v))
                    BY <3>2 DEF AbortStep, ClosingSteps, PhasesAt
                <4>2. AbortStep(v) # "inject_barrier"
                    BY DEF AbortStep
                <4> QED
                    BY <1>4, <2>6, <3>1, <3>3, <4>1, <4>2 DEF Held
            <3>4. CASE ~Mutated(v)
                <4>1. v.phase \in PhasesAt(FirstStep(v)) /\ FirstStep(v) # "inject_barrier"
                    BY <3>1, <3>2, <3>4 DEF PhasesAt
                <4> QED
                    BY <1>4, <2>6, <3>4, <4>1 DEF Held
            <3> QED
                BY <3>3, <3>4
        <2> QED
            BY <2>2, <2>4, <2>5, <2>6
    <1>7. work' = [work EXCEPT ![w] = job]
        BY DEF Reconcile
    <1> HIDE DEF job
    <1>8. /\ work' \in [Workers -> Jobs] /\ work'[w] = job
          /\ \A u \in Workers \ {w} : work'[u] = work[u]
        BY <1>1, <1>4, <1>7 DEF TypeOK
    <1>9. TypeOK'
        BY <1>1, <1>2, <1>8 DEF TypeOK
    <1>10. AllHeld'
        BY <1>1, <1>6, <1>8, HeldKept
    <1>11. Single'
        BY <1>1, <1>2, <1>4, <1>5, <1>8, SingleKept
    <1> QED
        BY <1>2, <1>9, <1>10, <1>11, InvPartsNext

\* A user's deletion or edit.
LEMMA UserNext ==
    ASSUME InjectionInv, NEW e \in Experiments, UserDelete(e) \/ UserEdit(e)
    PROVE  InjectionInv' /\ AllForward
    <1>1. TypeOK /\ AllHeld /\ Single
        BY InvParts
    <1>2. /\ work' = work /\ injections' = injections
          /\ faults' = faults /\ leaked' = leaked /\ budget' = budget
          /\ lease' = lease /\ lag' = lag /\ lost' = lost
        BY DEF UserDelete, UserEdit, lockVars, faultVars
    <1>3. PICK v \in Version :
             /\ Forward(exp[e], v)
             /\ exp' = [exp EXCEPT ![e] = v]
             /\ past' = [past EXCEPT ![e] = @ \cup {v}]
        <2>0. exp[e] \in Version
            BY <1>1 DEF TypeOK
        <2>1. CASE UserDelete(e)
            <3> DEFINE d == [exp[e] EXCEPT !.del = TRUE]
            <3>1. d \in Version
                BY <2>0 DEF Version
            <3>2. Forward(exp[e], d)
                BY <2>0, RankType DEF Forward, Version, Passed, Mutated
            <3>3. Stored(d) \in Version
                BY <3>1, StoredType
            <3>4. Forward(exp[e], Stored(d))
                <4>1. CASE d.fin
                    BY <3>2, <4>1 DEF Stored
                <4>2. CASE ~d.fin
                    <5>1. Stored(d).phase = "Gone" /\ ~Stored(d).started
                        BY <2>0, <4>2 DEF Stored, Gone, Version
                    <5>2. Rank(exp[e].phase) \in 0..6 /\ Rank("Gone") = 6
                        BY <2>0, RankType DEF Version, Rank, Terminal
                    <5> QED
                        BY <5>1, <5>2 DEF Forward, Passed
                <4> QED
                    BY <4>1, <4>2
            <3>5. /\ exp' = [exp EXCEPT ![e] = Stored(d)]
                  /\ past' = [past EXCEPT ![e] = @ \cup {Stored(d)}]
                BY <2>1 DEF UserDelete
            <3> HIDE DEF d
            <3> QED
                BY <3>3, <3>4, <3>5
        <2>2. CASE UserEdit(e)
            <3>1. PICK s \in Specs :
                     LET v == [exp[e] EXCEPT !.spec = s, !.gen = @ + 1]
                     IN  /\ exp' = [exp EXCEPT ![e] = v]
                         /\ past' = [past EXCEPT ![e] = @ \cup {v}]
                BY <2>2 DEF UserEdit
            <3> DEFINE d == [exp[e] EXCEPT !.spec = s, !.gen = @ + 1]
            <3>2. d \in Version
                <4>1. exp[e].gen + 1 \in Nat
                    BY <2>0 DEF Version
                <4>2. d = [exp[e] EXCEPT !.spec = s, !.gen = exp[e].gen + 1]
                    BY <2>0 DEF Version
                <4> QED
                    BY <2>0, <4>1, <4>2 DEF Version
            <3>3. Forward(exp[e], d)
                BY <2>0, RankType DEF Forward, Version, Passed
            <3>4. /\ exp' = [exp EXCEPT ![e] = d]
                  /\ past' = [past EXCEPT ![e] = @ \cup {d}]
                BY <3>1
            <3> HIDE DEF d
            <3> QED
                BY <3>2, <3>3, <3>4
        <2> QED
            BY <2>1, <2>2
    <1>4. /\ exp' \in [Experiments -> Version]
          /\ past' \in [Experiments -> SUBSET Version]
        BY <1>1, <1>3 DEF TypeOK
    <1>5. AllForward
        BY <1>1, <1>3 DEF AllForward, TypeOK
    <1>6. TypeOK'
        BY <1>1, <1>2, <1>4 DEF TypeOK
    <1>7. AllHeld'
        BY <1>1, <1>2 DEF AllHeld
    <1>8. \A w \in Workers : work[w].pc \in InjectSteps => work[w].exp \in Experiments
        BY <1>1, BusyJob DEF InjectSteps, pc, E
    <1>9. Single'
        BY <1>1, <1>2, <1>5, <1>8, PassedKept DEF Single
    <1> QED
        BY <1>5, <1>6, <1>7, <1>9, InvPartsNext

\* The environment of the lock.
LEMMA LeaseNext ==
    ASSUME InjectionInv, NEW op \in Operators,
           LeaseExpire(op) \/ LeaseClean(op) \/ CacheSync(op)
    PROVE  InjectionInv' /\ exp' = exp
    <1>1. TypeOK /\ AllHeld /\ Single
        BY InvParts
    <1>2. /\ exp' = exp /\ past' = past /\ work' = work /\ injections' = injections
          /\ faults' = faults /\ leaked' = leaked
        BY DEF LeaseExpire, LeaseClean, CacheSync, faultVars
    <1>3. LockType'
        <2>1. LockType
            BY <1>1, TypeParts
        <2>2. CASE LeaseExpire(op)
            <3>1. lease[op] \in Leases
                BY <2>1 DEF LockType
            <3>2. [lease[op] EXCEPT !.expired = TRUE] \in Leases
                BY <3>1 DEF Leases
            <3>3. lease' \in [Operators -> Leases]
                BY <2>1, <2>2, <3>2 DEF LeaseExpire, LockType
            <3> QED
                BY <2>1, <2>2, <3>3 DEF LeaseExpire, LockType
        <2>3. CASE LeaseClean(op)
            BY <2>1, <2>3, PutLeaseType, FreeLeaseType DEF LeaseClean
        <2>4. CASE CacheSync(op)
            BY <2>1, <2>4 DEF CacheSync, LockType
        <2> QED
            BY <2>2, <2>3, <2>4
    <1>4. budget' \in Nat
        BY <1>1 DEF LeaseExpire, LeaseClean, CacheSync, Spend, TypeOK
    <1>5. RestType'
        BY <1>1, <1>2, <1>4 DEF RestType, TypeOK
    <1>6. TypeOK'
        BY <1>1, <1>2, <1>3, <1>5, TypePartsNext DEF TypeOK
    <1>7. AllHeld' /\ Single'
        BY <1>1, <1>2 DEF AllHeld, Single
    <1> QED
        BY <1>2, <1>6, <1>7, InvPartsNext

-----------------------------------------------------------------------------
(* Theorems *)

LEMMA InitInv == Init => InjectionInv
    <1> SUFFICES ASSUME Init PROVE InjectionInv
        OBVIOUS
    <1>1. \A e \in Experiments : Created(e) \in Version
        BY ControllerAssumption DEF Created, Version, Phases
    <1>2. FreeLease \in Leases
        BY FreeLeaseType
    <1>3. TypeOK
        BY <1>1, <1>2, ControllerAssumption DEF Init, TypeOK, Jobs
    <1>4. \A w \in Workers : work[w] = Idle
        BY DEF Init
    <1>5. AllHeld
        BY <1>4, IdleHeld DEF AllHeld
    <1>6. Single
        BY <1>4, IdleHeld DEF Single, Init
    <1> QED
        BY <1>3, <1>5, <1>6, InvParts

LEMMA NextInv ==
    ASSUME InjectionInv, [Next]_vars
    PROVE  InjectionInv' /\ AllForward
    <1>1. CASE UNCHANGED vars
        BY <1>1 DEF vars, AllForward, InjectionInv, TypeOK, Held, Injecting, pc, E
    <1>2. ASSUME NEW w \in Workers, Proceed(w) \/ Crash(w)
          PROVE  InjectionInv' /\ AllForward
        BY <1>2, ThreeKinds, DecideNext, ActNext, UpdateNext DEF AllForward
    <1>3. ASSUME NEW w \in Workers, NEW e \in Experiments,
                 FreshReconcile(w, e) \/ StaleReconcile(w, e)
          PROVE  InjectionInv' /\ AllForward
        <2>1. exp[e] \in Version /\ past[e] \subseteq Version
            BY DEF InjectionInv, TypeOK
        <2>2. PICK v \in Version : Reconcile(w, e, v)
            BY <1>3, <2>1 DEF FreshReconcile, StaleReconcile
        <2> QED
            BY <2>2, ReconcileNext DEF AllForward
    <1>4. ASSUME NEW e \in Experiments, UserDelete(e) \/ UserEdit(e)
          PROVE  InjectionInv' /\ AllForward
        BY <1>4, UserNext
    <1>5. ASSUME NEW op \in Operators, LeaseExpire(op) \/ LeaseClean(op) \/ CacheSync(op)
          PROVE  InjectionInv' /\ AllForward
        BY <1>5, LeaseNext DEF AllForward
    <1> QED
        BY <1>1, <1>2, <1>3, <1>4, <1>5 DEF Next

\* The inductive invariant holds of every behaviour.
THEOREM ControllerInvariant == Spec => []InjectionInv
    <1>1. Init => InjectionInv
        BY InitInv
    <1>2. InjectionInv /\ [Next]_vars => InjectionInv'
        BY NextInv
    <1> QED
        BY <1>1, <1>2, PTL DEF Spec

\* Type correctness: every job carries a version that fits, every update
\* stores a well-formed object.
THEOREM TypeCorrect == Spec => []TypeOK
    <1>1. InjectionInv => TypeOK
        BY DEF InjectionInv
    <1> QED
        BY <1>1, ControllerInvariant, PTL

\* reconcileInject calls InjectFault at most once per experiment, with any
\* number of workers, stale reads, crashes and edits.
THEOREM InjectedOnce == Spec => []AtMostOneInjection
    <1>1. InjectionInv => AtMostOneInjection
        <2> SUFFICES ASSUME InjectionInv, NEW e \in Experiments
                     PROVE  injections[e] <= 1
            BY DEF AtMostOneInjection
        <2>1. injections[e] = 0 \/ injections[e] = 1
            BY InvParts DEF Single
        <2> QED
            BY <2>1
    <1> QED
        BY <1>1, ControllerInvariant, PTL

\* No worker takes an experiment back to an earlier phase.
THEOREM ForwardOnly == Spec => NeverBackwards
    <1>1. InjectionInv /\ [Next]_vars =>
            [\A e \in Experiments :
               LET v == exp[e]
                   u == exp'[e]
               IN  /\ Rank(u.phase) >= Rank(v.phase)
                   /\ v.phase \in Terminal => u.phase \in {v.phase, "Gone"}
                   /\ v.reverted => u.reverted \/ u.phase = "Gone"
                   /\ v.posted => u.posted \/ u.phase = "Gone"]_vars
        <2> SUFFICES ASSUME InjectionInv, [Next]_vars, NEW e \in Experiments
                     PROVE  /\ Rank(exp'[e].phase) >= Rank(exp[e].phase)
                            /\ exp[e].phase \in Terminal => exp'[e].phase \in {exp[e].phase, "Gone"}
                            /\ exp[e].reverted => exp'[e].reverted \/ exp'[e].phase = "Gone"
                            /\ exp[e].posted => exp'[e].posted \/ exp'[e].phase = "Gone"
            OBVIOUS
        <2>1. exp'[e] = exp[e] \/ Forward(exp[e], exp'[e])
            BY NextInv DEF AllForward
        <2>2. Rank(exp[e].phase) \in 0..6
            BY RankType DEF InjectionInv, TypeOK, Version
        <2> QED
            BY <2>1, <2>2 DEF Forward
    <1> QED
        BY <1>1, ControllerInvariant, PTL DEF Spec, NeverBackwards

\* An edited experiment advances no further and is not injected anew.
THEOREM EditsAbort == Spec => EditAborts
    <1>1. InjectionInv /\ [Next]_vars =>
            [\A e \in Experiments :
               Mutated(exp[e]) =>
                  /\ exp'[e].phase \in {exp[e].phase, "Aborted", "Gone"}
                  /\ exp'[e].started => exp[e].started]_vars
        <2> SUFFICES ASSUME InjectionInv, [Next]_vars, NEW e \in Experiments, Mutated(exp[e])
                     PROVE  /\ exp'[e].phase \in {exp[e].phase, "Aborted", "Gone"}
                            /\ exp'[e].started => exp[e].started
            OBVIOUS
        <2>1. exp'[e] = exp[e] \/ Forward(exp[e], exp'[e])
            BY NextInv DEF AllForward
        <2> QED
            BY <2>1 DEF Forward
    <1> QED
        BY <1>1, ControllerInvariant, PTL DEF Spec, EditAborts

-----------------------------------------------------------------------------
(* With one controller: the fault and its experiment *)

\* Leader election leaves one controller running, with one reconcile worker.
OneController == \A w, u \in Workers : w = u

NoFault(e) == \A f \in faults : f[1] # e

\* The fields of a version agree with its phase: generations are observed as
\* soon as the experiment started, and the revert is recorded before the
\* post-check.
InOrder(v) ==
    /\ v.gen >= 1
    /\ v.obs <= v.gen
    /\ v.phase \in {"SteadyStatePre", "Injecting", "Observing", "SteadyStatePost", "Complete"}
          => v.obs # 0
    /\ v.phase \in {"Pending", "SteadyStatePre", "Injecting"} => ~v.reverted
    /\ v.phase \in {"SteadyStatePost", "Complete"} => v.reverted

\* Since a worker persisted the barrier and holds b, only the user has
\* touched the experiment, which is at v.
Follows(b, v) ==
    /\ v.phase \in {"Injecting", "Gone"}
    /\ ~v.reverted
    /\ v.obs = b.obs /\ b.obs # 0
    /\ v.gen >= b.gen
    /\ v.gen = b.gen => v.spec = b.spec

\* A fault in place is that of the observed spec, and its revert is not
\* recorded.
FaultKnown(f) ==
    LET v == exp[f[1]]
    IN  /\ injections[f[1]] # 0
        /\ ~v.reverted
        /\ v.obs # 0
        /\ v.gen = v.obs => f[2] = v.spec

\* What a worker relies on: nobody else carries on an experiment it is about
\* to inject, and a revert it is about to record took place.
Committed(w) ==
    /\ pc(w) \in InjectSteps => Follows(Base(w), exp[E(w)])
    /\ pc(w) \in {"inject_observed", "inject"} => Base(w).fin
    /\ pc(w) = "observe_status" /\ exp[E(w)] = Base(w) => NoFault(E(w))
    /\ pc(w) = "observe_next" => Base(w).reverted

FaultInv ==
    /\ \A e \in Experiments : InOrder(exp[e])
    /\ \A f \in faults : FaultKnown(f)
    /\ \A w \in Workers : Committed(w)

\* What an update keeps of the version it replaces by u.
Keeps(w, u, step) ==
    LET b == Base(w)
    IN  /\ InOrder(u)
        /\ u.gen = b.gen /\ u.spec = b.spec
        /\ b.obs # 0 => u.obs = b.obs
        /\ u.reverted => b.reverted \/ pc(w) = "observe_status"
        /\ b.fin /\ pc(w) \notin {"delete_update", "final_update"} => u.fin /\ u.phase # "Gone"
        /\ step \in {"idle", "release", "final_release", "abort_revert", "reenter_status"}
                      \cup InjectSteps
        /\ step \in InjectSteps => u.phase = "Injecting" /\ pc(w) \in InjectSteps \cup {"inject_barrier"}
        /\ step \in {"inject_observed", "inject"} => u.fin
        /\ step \in {"release", "final_release"} => u.phase \in Terminal

LEMMA KeepsLemma ==
    ASSUME TypeOK, NEW w \in Workers, Held(work[w]), Updates(w),
           InOrder(Base(w)), Committed(w)
    PROVE  /\ pc(w) # "idle"
           /\ \E v \in Version, step \in Steps \cup {"idle"} :
                  Write(w, v, step) /\ Keeps(w, Stored(v), step)
    <1> DEFINE b == Base(w)
               Goal == \E v \in Version, step \in Steps \cup {"idle"} :
                          Write(w, v, step) /\ Keeps(w, Stored(v), step)
    <1>0. pc(w) # "idle"
        BY UpdateLemma
    <1>b. b \in Version
        BY <1>0, BusyJob
    <1>h. /\ b.phase \in PhasesAt(pc(w))
          /\ pc(w) \notin DeleteSteps => ~b.del
          /\ pc(w) \notin ClosingSteps => ~Mutated(b)
        BY <1>0 DEF Held, pc, Base
    <1>o. InOrder(b)
        OBVIOUS
    <1>i. ASSUME NEW v \in Version, NEW step \in Steps \cup {"idle"}, ~v.del,
                 Write(w, v, step), Keeps(w, v, step)
          PROVE  Goal
        BY <1>i, StoredSame
    <1>s. "idle" \in Steps \cup {"idle"} /\ {"release", "final_release", "abort_revert",
             "reenter_status"} \cup InjectSteps \subseteq Steps \cup {"idle"}
        BY DEF Steps, InjectSteps
    <1> SUFFICES Goal
        BY <1>0
    <1> HIDE DEF b, Goal
    <1>1. CASE PendingStatus(w)
        <2> DEFINE v == [Observed(b) EXCEPT !.phase = "SteadyStatePre"]
        <2>1. Write(w, v, "idle") /\ pc(w) = "pending_status"
            BY <1>1 DEF PendingStatus, b
        <2>2. b.phase = "Pending" /\ ~b.del
            BY <1>h, <2>1 DEF PhasesAt, DeleteSteps, ClosingSteps, Terminal
        <2>3. v \in Version /\ ~v.del
            BY <1>b, <2>2 DEF Observed, Version, Phases, Terminal
        <2>4. Keeps(w, v, "idle")
            BY <1>b, <1>o, <2>1, <2>2 DEF Keeps, InOrder, Observed, Version, InjectSteps, Terminal, b
        <2> HIDE DEF v
        <2> QED
            BY <1>i, <1>s, <2>1, <2>3, <2>4
    <1>2. CASE PreCheckPassed(w)
        <2> DEFINE v == [b EXCEPT !.phase = "Injecting"]
        <2>1. Write(w, v, "idle") /\ pc(w) = "precheck"
            BY <1>2 DEF PreCheckPassed, b
        <2>2. b.phase = "SteadyStatePre" /\ ~b.del
            BY <1>h, <2>1 DEF PhasesAt, DeleteSteps, ClosingSteps, Terminal
        <2>3. v \in Version /\ ~v.del
            BY <1>b, <2>2 DEF Version, Phases, Terminal
        <2>4. Keeps(w, v, "idle")
            BY <1>b, <1>o, <2>1, <2>2 DEF Keeps, InOrder, Version, InjectSteps, Terminal, b
        <2> HIDE DEF v
        <2> QED
            BY <1>i, <1>s, <2>1, <2>3, <2>4
    <1>3. CASE InjectBarrier(w)
        <2> DEFINE v == [b EXCEPT !.started = TRUE]
                   step == IF b.fin THEN "inject" ELSE "inject_finalizer"
        <2>1. Write(w, v, step) /\ pc(w) = "inject_barrier"
            BY <1>3 DEF InjectBarrier, b
        <2>2. b.phase = "Injecting" /\ ~b.del
            BY <1>h, <2>1 DEF PhasesAt, DeleteSteps, ClosingSteps, Terminal
        <2>3. v \in Version /\ ~v.del
            BY <1>b, <2>2 DEF Version, Phases, Terminal
        <2>4. Keeps(w, v, step)
            BY <1>b, <1>o, <2>1, <2>2 DEF Keeps, InOrder, Version, InjectSteps, Terminal, b
        <2> HIDE DEF v
        <2> QED
            BY <1>i, <1>s, <2>1, <2>3, <2>4 DEF InjectSteps
    <1>4. CASE InjectFinalizer(w)
        <2> DEFINE v == [b EXCEPT !.fin = TRUE]
        <2>1. Write(w, v, "inject_observed") /\ pc(w) = "inject_finalizer"
            BY <1>4 DEF InjectFinalizer, b
        <2>2. b.phase = "Injecting" /\ ~b.del
            BY <1>h, <2>1 DEF PhasesAt, DeleteSteps, ClosingSteps, Terminal
        <2>3. v \in Version /\ ~v.del
            BY <1>b, <2>2 DEF Version, Phases, Terminal
        <2>4. Keeps(w, v, "inject_observed")
            BY <1>b, <1>o, <2>1, <2>2 DEF Keeps, InOrder, Version, InjectSteps, Terminal, b
        <2> HIDE DEF v
        <2> QED
            BY <1>i, <1>s, <2>1, <2>3, <2>4 DEF InjectSteps
    <1>5. CASE InjectObserved(w)
        <2> DEFINE v == [b EXCEPT !.obs = b.gen]
        <2>1. Write(w, v, "inject") /\ pc(w) = "inject_observed"
            BY <1>5 DEF InjectObserved, b
        <2>2. b.phase = "Injecting" /\ ~b.del /\ ~Mutated(b)
            BY <1>h, <2>1 DEF PhasesAt, DeleteSteps, ClosingSteps, Terminal
        <2>3. v \in Version /\ ~v.del
            BY <1>b, <2>2 DEF Version, Phases, Terminal
        <2>4. Keeps(w, v, "inject")
            BY <1>b, <1>o, <2>1, <2>2 DEF Keeps, InOrder, Version, InjectSteps, Terminal,
                 Mutated, Committed, b
        <2> HIDE DEF v
        <2> QED
            BY <1>i, <1>s, <2>1, <2>3, <2>4 DEF InjectSteps
    <1>6. CASE InjectStatus(w)
        <2> DEFINE v == [b EXCEPT !.phase = "Observing"]
        <2>1. Write(w, v, "idle") /\ pc(w) = "inject_status"
            BY <1>6 DEF InjectStatus, b
        <2>2. b.phase = "Injecting" /\ ~b.del
            BY <1>h, <2>1 DEF PhasesAt, DeleteSteps, ClosingSteps, Terminal
        <2>3. v \in Version /\ ~v.del
            BY <1>b, <2>2 DEF Version, Phases, Terminal
        <2>4. Keeps(w, v, "idle")
            BY <1>b, <1>o, <2>1, <2>2 DEF Keeps, InOrder, Version, InjectSteps, Terminal, b
        <2> HIDE DEF v
        <2> QED
            BY <1>i, <1>s, <2>1, <2>3, <2>4
    <1>7. CASE ReenterFinalizer(w)
        <2> DEFINE v == [b EXCEPT !.fin = TRUE]
        <2>1. Write(w, v, "reenter_status") /\ pc(w) = "reenter_finalizer"
            BY <1>7 DEF ReenterFinalizer, b
        <2>2. b.phase = "Injecting" /\ ~b.del
            BY <1>h, <2>1 DEF PhasesAt, DeleteSteps, ClosingSteps, Terminal
        <2>3. v \in Version /\ ~v.del
            BY <1>b, <2>2 DEF Version, Phases, Terminal
        <2>4. Keeps(w, v, "reenter_status")
            BY <1>b, <1>o, <2>1, <2>2 DEF Keeps, InOrder, Version, InjectSteps, Terminal, b
        <2> HIDE DEF v
        <2> QED
            BY <1>i, <1>s, <2>1, <2>3, <2>4
    <1>8. CASE ReenterStatus(w)
        <2> DEFINE v == [b EXCEPT !.phase = "Observing", !.obs = b.gen]
        <2>1. Write(w, v, "idle") /\ pc(w) = "reenter_status"
            BY <1>8 DEF ReenterStatus, b
        <2>2. b.phase = "Injecting" /\ ~b.del /\ ~Mutated(b)
            BY <1>h, <2>1 DEF PhasesAt, DeleteSteps, ClosingSteps, Terminal
        <2>3. v \in Version /\ ~v.del
            BY <1>b, <2>2 DEF Version, Phases, Terminal
        <2>4. Keeps(w, v, "idle")
            BY <1>b, <1>o, <2>1, <2>2 DEF Keeps, InOrder, Version, InjectSteps, Terminal, Mutated, b
        <2> HIDE DEF v
        <2> QED
            BY <1>i, <1>s, <2>1, <2>3, <2>4
    <1>9. CASE ObserveStatus(w)
        <2> DEFINE v == [b EXCEPT !.reverted = TRUE]
        <2>1. Write(w, v, "idle") /\ pc(w) = "observe_status"
            BY <1>9 DEF ObserveStatus, b
        <2>2. b.phase = "Observing" /\ ~b.del
            BY <1>h, <2>1 DEF PhasesAt, DeleteSteps, ClosingSteps, Terminal
        <2>3. v \in Version /\ ~v.del
            BY <1>b, <2>2 DEF Version, Phases, Terminal
        <2>4. Keeps(w, v, "idle")
            BY <1>b, <1>o, <2>1, <2>2 DEF Keeps, InOrder, Version, InjectSteps, Terminal, b
        <2> HIDE DEF v
        <2> QED
            BY <1>i, <1>s, <2>1, <2>3, <2>4
    <1>10. CASE ObserveNext(w)
        <2> DEFINE v == [b EXCEPT !.phase = "SteadyStatePost"]
        <2>1. Write(w, v, "idle") /\ pc(w) = "observe_next"
            BY <1>10 DEF ObserveNext, b
        <2>2. b.phase = "Observing" /\ ~b.del
            BY <1>h, <2>1 DEF PhasesAt, DeleteSteps, ClosingSteps, Terminal
        <2>3. v \in Version /\ ~v.del
            BY <1>b, <2>2 DEF Version, Phases, Terminal
        <2>4. Keeps(w, v, "idle")
            BY <1>b, <1>o, <2>1, <2>2 DEF Keeps, InOrder, Version, InjectSteps, Terminal, Committed, b
        <2> HIDE DEF v
        <2> QED
            BY <1>i, <1>s, <2>1, <2>3, <2>4
    <1>11. CASE PostCheckStart(w)
        <2> DEFINE v == [b EXCEPT !.posted = TRUE]
        <2>1. Write(w, v, "idle") /\ pc(w) = "postcheck_start"
            BY <1>11 DEF PostCheckStart, b
        <2>2. b.phase = "SteadyStatePost" /\ ~b.del
            BY <1>h, <2>1 DEF PhasesAt, DeleteSteps, ClosingSteps, Terminal
        <2>3. v \in Version /\ ~v.del
            BY <1>b, <2>2 DEF Version, Phases, Terminal
        <2>4. Keeps(w, v, "idle")
            BY <1>b, <1>o, <2>1, <2>2 DEF Keeps, InOrder, Version, InjectSteps, Terminal, b
        <2> HIDE DEF v
        <2> QED
            BY <1>i, <1>s, <2>1, <2>3, <2>4
    <1>12. CASE Evaluate(w)
        <2> DEFINE v == [b EXCEPT !.phase = "Complete", !.full = TRUE]
        <2>1. Write(w, v, "release") /\ pc(w) = "postcheck"
            BY <1>12 DEF Evaluate, b
        <2>2. b.phase = "SteadyStatePost" /\ ~b.del
            BY <1>h, <2>1 DEF PhasesAt, DeleteSteps, ClosingSteps, Terminal
        <2>3. v \in Version /\ ~v.del
            BY <1>b, <2>2 DEF Version, Phases, Terminal
        <2>4. Keeps(w, v, "release")
            BY <1>b, <1>o, <2>1, <2>2 DEF Keeps, InOrder, Version, InjectSteps, Terminal, b
        <2> HIDE DEF v
        <2> QED
            BY <1>i, <1>s, <2>1, <2>3, <2>4
    <1>13. CASE AbortBarrier(w)
        <2> DEFINE v == [b EXCEPT !.phase = "Aborted", !.started = FALSE]
        <2>1. Write(w, v, "abort_revert") /\ pc(w) = "abort_barrier"
            BY <1>13 DEF AbortBarrier, b
        <2>2. b.phase = "Injecting" /\ ~b.del
            BY <1>h, <2>1 DEF PhasesAt, DeleteSteps, ClosingSteps, Terminal
        <2>3. v \in Version /\ ~v.del
            BY <1>b, <2>2 DEF Version, Phases, Terminal
        <2>4. Keeps(w, v, "abort_revert")
            BY <1>b, <1>o, <2>1, <2>2 DEF Keeps, InOrder, Version, InjectSteps, Terminal, b
        <2> HIDE DEF v
        <2> QED
            BY <1>i, <1>s, <2>1, <2>3, <2>4
    <1>14. CASE AbortStatus(w)
        <2> DEFINE v == [Observed(b) EXCEPT !.phase = "Aborted", !.full = TRUE]
        <2>1. Write(w, v, "release") /\ pc(w) = "abort_status"
            BY <1>14 DEF AbortStatus, b
        <2>2. b.phase # "Gone" /\ ~b.del
            BY <1>h, <2>1 DEF PhasesAt, DeleteSteps, ClosingSteps, Terminal
        <2>3. v \in Version /\ ~v.del
            BY <1>b, <2>2 DEF Observed, Version, Phases, Terminal
        <2>4. Keeps(w, v, "release")
            BY <1>b, <1>o, <2>1, <2>2 DEF Keeps, InOrder, Observed, Version, InjectSteps, Terminal, b
        <2> HIDE DEF v
        <2> QED
            BY <1>i, <1>s, <2>1, <2>3, <2>4
    <1>16. CASE FinalUpdate(w)
        <2> DEFINE v == [b EXCEPT !.fin = FALSE]
        <2>1. Write(w, v, "final_release") /\ pc(w) = "final_update"
            BY <1>16 DEF FinalUpdate, b
        <2>2. b.phase \in Terminal /\ ~b.del
            BY <1>h, <2>1 DEF PhasesAt, DeleteSteps, ClosingSteps, Terminal
        <2>3. v \in Version /\ ~v.del
            BY <1>b, <2>2 DEF Version, Phases, Terminal
        <2>4. Keeps(w, v, "final_release")
            BY <1>b, <1>o, <2>1, <2>2 DEF Keeps, InOrder, Version, InjectSteps, Terminal, b
        <2> HIDE DEF v
        <2> QED
            BY <1>i, <1>s, <2>1, <2>3, <2>4
    <1>17. CASE Backfill(w)
        <2> DEFINE v == [b EXCEPT !.full = TRUE, !.started = FALSE]
        <2>1. Write(w, v, "idle") /\ pc(w) = "backfill"
            BY <1>17 DEF Backfill, b
        <2>2. b.phase = "Aborted" /\ ~b.del
            BY <1>h, <2>1 DEF PhasesAt, DeleteSteps, ClosingSteps, Terminal
        <2>3. v \in Version /\ ~v.del
            BY <1>b, <2>2 DEF Version, Phases, Terminal
        <2>4. Keeps(w, v, "idle")
            BY <1>b, <1>o, <2>1, <2>2 DEF Keeps, InOrder, Version, InjectSteps, Terminal, b
        <2> HIDE DEF v
        <2> QED
            BY <1>i, <1>s, <2>1, <2>3, <2>4
    <1>15. CASE DeleteUpdate(w)
        <2> DEFINE v == [b EXCEPT !.fin = FALSE]
        <2>1. Write(w, v, "idle") /\ pc(w) = "delete_update"
            BY <1>15 DEF DeleteUpdate, b
        <2>2. v \in Version
            BY <1>b DEF Version
        <2>3. Keeps(w, Stored(v), "idle")
            BY <1>b, <1>o, <2>1 DEF Keeps, InOrder, Stored, Gone, Version, InjectSteps, Terminal, b
        <2> HIDE DEF v
        <2> QED
            BY <1>s, <2>1, <2>2, <2>3 DEF Goal
    <1> QED
        BY <1>1, <1>2, <1>3, <1>4, <1>5, <1>6, <1>7, <1>8, <1>9, <1>10, <1>11, <1>12,
           <1>13, <1>14, <1>15, <1>16, <1>17 DEF Updates

\* The job of a worker that moves on.
LEMMA GotoFields ==
    ASSUME TypeOK, NEW w \in Workers, pc(w) # "idle", NEW step \in Steps, Goto(w, step)
    PROVE  pc(w)' = step /\ E(w)' = E(w) /\ Base(w)' = Base(w)
    <1>1. work'[w] = [pc |-> step, exp |-> E(w), base |-> Base(w)]
        BY GotoLemma
    <1>2. /\ work'[w].pc = step /\ work'[w].exp = E(w) /\ work'[w].base = Base(w)
        BY <1>1
    <1> QED
        BY <1>2 DEF pc, E, Base

LEMMA FaultUpdate ==
    ASSUME InjectionInv, FaultInv, OneController, NEW w \in Workers, Updates(w)
    PROVE  FaultInv'
    <1>1. TypeOK /\ Held(work[w])
        BY DEF InjectionInv
    <1>2. pc(w) # "idle"
        BY <1>1, UpdateLemma
    <1>3. E(w) \in Experiments /\ Base(w) \in Version
        BY <1>1, <1>2, BusyJob
    <1>4. CASE exp[E(w)] = Base(w)
        <2>1. InOrder(Base(w)) /\ Committed(w)
            BY <1>3, <1>4 DEF FaultInv
        <2>2. PICK v \in Version, step \in Steps \cup {"idle"} :
                 Write(w, v, step) /\ Keeps(w, Stored(v), step)
            BY <1>1, <2>1, KeepsLemma
        <2> DEFINE u == Stored(v)
        <2>3. /\ exp'[E(w)] = u
              /\ work'[w] = IF step = "idle" THEN Idle
                            ELSE [pc |-> step, exp |-> E(w), base |-> u]
              /\ \A e \in Experiments \ {E(w)} : exp'[e] = exp[e]
              /\ injections' = injections
            <3>1. exp' = [exp EXCEPT ![E(w)] = u]
                BY <1>4, <2>2 DEF Write
            <3>2. work' = [work EXCEPT ![w] = IF step = "idle" THEN Idle
                            ELSE [pc |-> step, exp |-> E(w), base |-> u]]
                BY <1>4, <2>2 DEF Write
            <3> QED
                BY <1>1, <1>3, <2>2, <3>1, <3>2 DEF TypeOK, Write, faultVars
        <2>4. faults' = faults /\ faults \subseteq Experiments \X Specs
            BY <1>1, <2>2 DEF Write, faultVars, TypeOK
        <2>5. Keeps(w, u, step)
            BY <2>2
        <2> HIDE DEF u
        <2>6. \A e \in Experiments : InOrder(exp'[e])
            BY <2>3, <2>5 DEF FaultInv, Keeps
        <2>7. ASSUME NEW f \in faults
              PROVE  FaultKnown(f)'
            <3>1. f[1] \in Experiments /\ FaultKnown(f)
                BY <2>4 DEF FaultInv
            <3>2. CASE f[1] # E(w)
                BY <2>3, <3>1, <3>2 DEF FaultKnown
            <3>3. CASE f[1] = E(w)
                <4>1. ~Base(w).reverted /\ Base(w).obs # 0 /\ injections[E(w)] # 0
                      /\ (Base(w).gen = Base(w).obs => f[2] = Base(w).spec)
                    BY <1>4, <3>1, <3>3 DEF FaultKnown
                <4>2. pc(w) # "observe_status"
                    BY <1>4, <2>1, <3>3 DEF Committed, NoFault
                <4>3. /\ u.gen = Base(w).gen /\ u.spec = Base(w).spec
                      /\ u.obs = Base(w).obs /\ ~u.reverted
                    BY <2>5, <4>1, <4>2 DEF Keeps
                <4> QED
                    BY <2>3, <3>3, <4>1, <4>3 DEF FaultKnown
            <3> QED
                BY <3>2, <3>3
        <2>8. Committed(w)'
            <3>1. step = "idle" => pc(w)' = "idle"
                BY <2>3 DEF Idle, pc
            <3>2. step # "idle" => pc(w)' = step /\ E(w)' = E(w) /\ Base(w)' = u
                BY <2>3 DEF pc, E, Base
            <3>3. step \in InjectSteps => Follows(u, u)
                <4>1. u.gen \in Nat
                    BY StoredType DEF u, Version
                <4> QED
                    BY <2>5, <4>1 DEF Keeps, InOrder, Follows
            <3>4. step \notin {"observe_status", "observe_next"}
                  /\ (step \in {"inject_observed", "inject"} => u.fin)
                BY <2>5 DEF Keeps, InjectSteps
            <3> QED
                BY <2>3, <3>1, <3>2, <3>3, <3>4 DEF Committed, InjectSteps
        <2> QED
            BY <2>4, <2>6, <2>7, <2>8 DEF FaultInv, OneController
    <1>5. CASE exp[E(w)] # Base(w)
        <2>1. PICK v \in Version, step \in Steps \cup {"idle"} : Write(w, v, step)
            BY <1>1, UpdateLemma
        <2>2. exp' = exp /\ Return(w) /\ faults' = faults /\ injections' = injections
            BY <1>5, <2>1 DEF Write, faultVars
        <2>3. pc(w)' = "idle"
            BY <1>1, <2>2, ReturnLemma DEF Idle, pc
        <2>4. Committed(w)'
            BY <2>3 DEF Committed, InjectSteps
        <2>5. \A f \in faults : FaultKnown(f)'
            BY <2>2 DEF FaultInv, FaultKnown
        <2> QED
            BY <2>2, <2>4, <2>5 DEF FaultInv, OneController
    <1> QED
        BY <1>4, <1>5

\* An unedited version has observed its generation.
LEMMA UneditedStep ==
    ASSUME InjectionInv, NEW w \in Workers, pc(w) # "idle", pc(w) \notin ClosingSteps,
           Base(w).obs # 0
    PROVE  Base(w).gen = Base(w).obs
    BY DEF InjectionInv, Held, Mutated, pc, Base

LEMMA FaultAct ==
    ASSUME InjectionInv, FaultInv, OneController, NEW w \in Workers, Acts(w)
    PROVE  FaultInv'
    <1>1. TypeOK
        BY DEF InjectionInv
    <1>2. pc(w) # "idle" /\ exp' = exp
        BY <1>1, ActLemma
    <1>3. E(w) \in Experiments /\ Base(w) \in Version /\ Committed(w)
        BY <1>1, <1>2, BusyJob DEF FaultInv
    <1>4. ASSUME NEW f \in faults'
          PROVE  FaultKnown(f)'
        <2>1. CASE f \in faults
            <3>1. FaultKnown(f) /\ f[1] \in Experiments
                BY <1>1, <2>1 DEF FaultInv, TypeOK
            <3>2. injections' = injections \/ injections' = [injections EXCEPT ![E(w)] = @ + 1]
                BY <1>1, ActLemma
            <3>3. injections'[f[1]] # 0
                BY <1>1, <1>3, <3>1, <3>2 DEF FaultKnown, TypeOK
            <3> QED
                BY <1>2, <3>1, <3>3 DEF FaultKnown
        <2>2. CASE f \notin faults
            <3>1. InjectFault(w) /\ f = <<E(w), Base(w).spec>>
                BY <2>2 DEF Acts, Renew, PendingAcquire, ObserveRenew, Release, InjectFault,
                   ObserveRevert, AbortRevert, DeleteRevert, FinalRevert, Reverted,
                   RevertFailed, faultVars
            <3>2. Follows(Base(w), exp[E(w)]) /\ pc(w) = "inject"
                BY <1>3, <3>1 DEF Committed, InjectFault, InjectSteps
            <3>3. Base(w).gen = Base(w).obs
                BY <3>2, UneditedStep DEF ClosingSteps, DeleteSteps, Follows
            <3>4. injections'[E(w)] # 0
                BY <1>1, <1>3, <3>1 DEF InjectFault, TypeOK
            <3> QED
                BY <1>2, <3>1, <3>2, <3>3, <3>4 DEF FaultKnown, Follows
        <2> QED
            BY <2>1, <2>2
    <1>5. Committed(w)'
        <2>1. CASE ObserveRevert(w) /\ Reverted(w) /\ Goto(w, "observe_status")
            <3>1. E(w)' = E(w) /\ Base(w)' = Base(w) /\ pc(w)' = "observe_status"
                <4>1. "observe_status" \in Steps
                    BY DEF Steps
                <4> QED
                    BY <1>1, <1>2, <2>1, <4>1, GotoFields
            <3>2. ASSUME exp[E(w)] = Base(w), NEW f \in faults', f[1] = E(w)
                  PROVE  FALSE
                <4>1. f \in faults /\ f[2] # Base(w).spec /\ pc(w) = "observe_revert"
                    BY <2>1 DEF Reverted, ObserveRevert
                <4>2. Base(w).obs # 0 /\ (Base(w).gen = Base(w).obs => f[2] = Base(w).spec)
                    BY <3>2, <4>1 DEF FaultInv, FaultKnown
                <4> QED
                    BY <1>2, <4>1, <4>2, UneditedStep DEF ClosingSteps, DeleteSteps
            <3> QED
                BY <1>2, <3>1, <3>2 DEF Committed, NoFault, InjectSteps
        <2>2. CASE ~(ObserveRevert(w) /\ Reverted(w) /\ Goto(w, "observe_status"))
            <3>1. pc(w)' \notin InjectSteps \cup {"observe_status", "observe_next"}
                <4>1. CASE Return(w)
                    BY <1>1, <4>1, ReturnLemma DEF Idle, pc, InjectSteps
                <4>2. ASSUME NEW step \in Steps \ (InjectSteps \cup {"observe_status", "observe_next"}),
                             Goto(w, step)
                      PROVE  pc(w)' \notin InjectSteps \cup {"observe_status", "observe_next"}
                    BY <1>1, <1>2, <4>2, GotoFields
                <4>3. PhaseStep(Base(w)) \in Steps \ (InjectSteps \cup {"observe_status", "observe_next"})
                    BY <1>3, StepTypes DEF PhaseStep, InjectSteps
                <4>4. {"pending_status", "observe_revert", "delete_update", "backfill",
                       "inject_status", "abort_barrier", "abort_status",
                       "delete_release", "final_update"}
                         \subseteq Steps \ (InjectSteps \cup {"observe_status", "observe_next"})
                    BY DEF Steps, InjectSteps
                <4>5. ~(pc(w) = "observe_revert" /\ Goto(w, "observe_status")) \/ Return(w)
                    BY <2>2 DEF Acts, Renew, PendingAcquire, ObserveRenew, Release, InjectFault,
                       ObserveRevert, AbortRevert, DeleteRevert, FinalRevert
                <4> QED
                    BY <1>1, <4>1, <4>2, <4>3, <4>4, <4>5, ActLemma
            <3> QED
                BY <3>1 DEF Committed, InjectSteps
        <2> QED
            BY <2>1, <2>2
    <1> QED
        BY <1>2, <1>4, <1>5 DEF FaultInv, OneController

LEMMA FaultDecide ==
    ASSUME InjectionInv, FaultInv, OneController, NEW w \in Workers, Decides(w)
    PROVE  FaultInv'
    <1>1. TypeOK
        BY DEF InjectionInv
    <1>2. pc(w) # "idle" /\ exp' = exp /\ faults' = faults /\ injections' = injections
        BY <1>1, DecideLemma DEF faultVars
    <1>3. Base(w) \in Version
        BY <1>1, <1>2, BusyJob
    <1>4. \A f \in faults' : FaultKnown(f)'
        BY <1>2 DEF FaultInv, FaultKnown
    <1>5. Committed(w)'
        <2>1. CASE Return(w)
            BY <1>1, <2>1, ReturnLemma DEF Committed, Idle, pc, InjectSteps
        <2>2. CASE pc(w) = "observe" /\ Goto(w, "observe_next")
            <3>1. pc(w)' = "observe_next" /\ Base(w)' = Base(w)
                BY <1>1, <1>2, <2>2, GotoFields DEF Steps
            <3>2. ObserveDue(w)
                <4>1. ~Return(w)
                    BY <1>1, <3>1, ReturnLemma DEF Idle, pc
                <4> QED
                    BY <2>2, <4>1 DEF Decides, RenewLost, RenewConflict,
                       PendingInvalid, PendingRefused, PreCheckFailed, ObserveWait,
                       ObserveRenewFailed, PostCheckPoll, PostCheckFailed, Crash
            <3>3. Base(w).reverted
                <4>1. ~Base(w).reverted => Goto(w, "observe_renew")
                    BY <3>2 DEF ObserveDue
                <4>2. Goto(w, "observe_renew") => pc(w)' = "observe_renew"
                    BY <1>1, <1>2, GotoFields DEF Steps
                <4> QED
                    BY <3>1, <4>1, <4>2
            <3> QED
                BY <3>1, <3>3 DEF Committed, InjectSteps
        <2>3. ASSUME NEW step \in {"abort_status", "observe_renew", "abort_revert", AbortStep(Base(w))},
                     Goto(w, step)
              PROVE  Committed(w)'
            <3>1. step \in Steps \ (InjectSteps \cup {"observe_status", "observe_next"})
                BY <1>3 DEF AbortStep, Steps, InjectSteps
            <3>2. pc(w)' = step
                BY <1>1, <1>2, <2>3, <3>1, GotoFields
            <3> QED
                BY <3>1, <3>2 DEF Committed, InjectSteps
        <2> QED
            BY <1>1, <2>1, <2>2, <2>3, DecideLemma
    <1> QED
        BY <1>2, <1>4, <1>5 DEF FaultInv, OneController

LEMMA FaultReconcile ==
    ASSUME InjectionInv, FaultInv, OneController, NEW w \in Workers, NEW e \in Experiments,
           NEW v \in Version, Reconcile(w, e, v)
    PROVE  FaultInv'
    <1>1. exp' = exp /\ faults' = faults /\ injections' = injections
        BY DEF Reconcile, faultVars
    <1>2. pc(w)' = FirstStep(v)
        BY DEF Reconcile, InjectionInv, TypeOK, pc
    <1>3. FirstStep(v) \notin InjectSteps \cup {"observe_status", "observe_next"}
        BY DEF FirstStep, FinalStep, AbortStep, InjectSteps
    <1>4. Committed(w)'
        BY <1>2, <1>3 DEF Committed, InjectSteps
    <1>5. \A f \in faults' : FaultKnown(f)'
        BY <1>1 DEF FaultInv, FaultKnown
    <1> QED
        BY <1>1, <1>4, <1>5 DEF FaultInv, OneController

\* What the user can make of a version.
UserSuccessor(v, u) ==
    /\ u.obs = v.obs
    /\ \/ u.gen = v.gen /\ u.spec = v.spec /\ u.del
       \/ u.gen = v.gen + 1
    /\ u.phase \in {v.phase, "Gone"}
    /\ u.reverted => v.reverted
    /\ v.reverted => u.reverted \/ u.phase = "Gone"
    /\ v.fin => u.fin /\ u.phase = v.phase
    /\ u.phase = "Gone" => ~u.reverted

LEMMA UserLemma ==
    ASSUME InjectionInv, NEW e \in Experiments, UserDelete(e) \/ UserEdit(e)
    PROVE  /\ work' = work /\ faults' = faults /\ injections' = injections /\ leaked' = leaked
           /\ \E v \in Version : UserSuccessor(exp[e], v) /\ exp' = [exp EXCEPT ![e] = v]
                                 /\ past' = [past EXCEPT ![e] = @ \cup {v}]
                                 /\ (v.gen = exp[e].gen \/ exp[e].gen < MaxGen)
    <1>1. work' = work /\ faults' = faults /\ injections' = injections /\ leaked' = leaked
        BY DEF UserDelete, UserEdit, faultVars
    <1>2. exp[e] \in Version
        BY DEF InjectionInv, TypeOK
    <1>3. CASE UserDelete(e)
        <2> DEFINE d == [exp[e] EXCEPT !.del = TRUE]
        <2>1. d \in Version /\ Stored(d) \in Version
            <3>1. d \in Version
                BY <1>2 DEF Version
            <3> QED
                BY <3>1, StoredType
        <2>2. UserSuccessor(exp[e], Stored(d)) /\ Stored(d).gen = exp[e].gen
            <3>1. CASE d.fin
                <4>1. Stored(d) = d
                    BY <3>1 DEF Stored
                <4> QED
                    BY <1>2, <1>3, <3>1, <4>1 DEF UserSuccessor, Version, UserDelete
            <3>2. CASE ~d.fin
                <4>1. Stored(d) = Gone(d)
                    BY <1>2, <3>2 DEF Stored, Version
                <4> QED
                    BY <1>2, <1>3, <3>2, <4>1 DEF UserSuccessor, Gone, Version, UserDelete
            <3> QED
                BY <3>1, <3>2
        <2>3. /\ exp' = [exp EXCEPT ![e] = Stored(d)]
              /\ past' = [past EXCEPT ![e] = @ \cup {Stored(d)}]
            BY <1>3 DEF UserDelete
        <2> HIDE DEF d
        <2> QED
            BY <1>1, <2>1, <2>2, <2>3
    <1>4. CASE UserEdit(e)
        <2>1. PICK s \in Specs :
                 LET v == [exp[e] EXCEPT !.spec = s, !.gen = @ + 1]
                 IN  /\ exp' = [exp EXCEPT ![e] = v]
                     /\ past' = [past EXCEPT ![e] = @ \cup {v}]
            BY <1>4 DEF UserEdit
        <2> DEFINE d == [exp[e] EXCEPT !.spec = s, !.gen = @ + 1]
        <2>2. exp[e].gen + 1 \in Nat
            BY <1>2 DEF Version
        <2>3. d = [exp[e] EXCEPT !.spec = s, !.gen = exp[e].gen + 1]
            BY <1>2 DEF Version
        <2>4. d \in Version
            BY <1>2, <2>2, <2>3 DEF Version
        <2>5. UserSuccessor(exp[e], d)
            BY <1>2, <1>4, <2>3 DEF UserSuccessor, Version, UserEdit
        <2>6. /\ exp' = [exp EXCEPT ![e] = d]
              /\ past' = [past EXCEPT ![e] = @ \cup {d}]
              /\ exp[e].gen < MaxGen
            BY <1>4, <2>1 DEF UserEdit
        <2> HIDE DEF d
        <2> QED
            BY <1>1, <2>4, <2>5, <2>6
    <1> QED
        BY <1>3, <1>4

LEMMA FaultUser ==
    ASSUME InjectionInv, FaultInv, NEW e \in Experiments, UserDelete(e) \/ UserEdit(e)
    PROVE  FaultInv'
    <1>1. TypeOK /\ work' = work /\ faults' = faults /\ injections' = injections
        BY UserLemma DEF InjectionInv
    <1>2. PICK v \in Version : UserSuccessor(exp[e], v) /\ exp' = [exp EXCEPT ![e] = v]
        BY UserLemma
    <1>3. exp[e] \in Version /\ InOrder(exp[e])
        BY <1>1 DEF TypeOK, FaultInv
    <1>4. exp'[e] = v /\ \A x \in Experiments \ {e} : exp'[x] = exp[x]
        BY <1>1, <1>2 DEF TypeOK
    <1>5. InOrder(v)
        BY <1>2, <1>3 DEF UserSuccessor, InOrder, Version
    <1>6. ASSUME NEW f \in faults
          PROVE  FaultKnown(f)'
        <2>1. FaultKnown(f) /\ f[1] \in Experiments
            BY <1>1 DEF FaultInv, TypeOK
        <2>2. CASE f[1] # e
            BY <1>1, <1>4, <2>1, <2>2 DEF FaultKnown
        <2>3. CASE f[1] = e
            <3>1. v.gen = v.obs => v.gen = exp[e].gen /\ v.spec = exp[e].spec
                BY <1>2, <1>3 DEF UserSuccessor, InOrder, Version
            <3>2. v.obs = exp[e].obs /\ ~v.reverted
                BY <1>2, <2>1, <2>3 DEF UserSuccessor, FaultKnown
            <3> QED
                BY <1>1, <1>4, <2>1, <2>3, <3>1, <3>2 DEF FaultKnown
        <2> QED
            BY <2>2, <2>3
    <1>7. ASSUME NEW w \in Workers
          PROVE  Committed(w)'
        <2>1. pc(w)' = pc(w) /\ E(w)' = E(w) /\ Base(w)' = Base(w) /\ Committed(w)
            BY <1>1 DEF pc, E, Base, FaultInv
        <2>2. pc(w) # "idle" => E(w) \in Experiments /\ Base(w) \in Version
            BY <1>1, BusyJob
        <2>3. CASE pc(w) = "idle" \/ E(w) # e
            BY <1>1, <1>4, <2>1, <2>2, <2>3 DEF Committed, InjectSteps, NoFault
        <2>4. CASE pc(w) # "idle" /\ E(w) = e
            <3>1. pc(w) \in InjectSteps => Follows(Base(w), v)
                <4> SUFFICES ASSUME Follows(Base(w), exp[e]) PROVE Follows(Base(w), v)
                    BY <2>1, <2>4 DEF Committed
                <4> QED
                    BY <1>2, <1>3, <2>2, <2>4 DEF Follows, UserSuccessor, Version
            <3>2. pc(w) = "observe_status" => v # Base(w)
                <4> SUFFICES ASSUME pc(w) = "observe_status", v = Base(w) PROVE FALSE
                    OBVIOUS
                <4>1. v.phase = "Observing" /\ ~v.del /\ ~Mutated(v)
                    BY DEF InjectionInv, Held, pc, Base, PhasesAt, ClosingSteps, DeleteSteps
                <4>2. v.obs # 0
                    BY <1>5, <4>1 DEF InOrder
                <4>3. v.obs <= exp[e].gen
                    BY <1>2, <1>3 DEF UserSuccessor, InOrder
                <4> QED
                    BY <1>2, <1>3, <4>1, <4>2, <4>3 DEF UserSuccessor, Mutated, Version
            <3> QED
                BY <1>4, <2>1, <2>4, <3>1, <3>2 DEF Committed
        <2> QED
            BY <2>3, <2>4
    <1> QED
        BY <1>1, <1>3, <1>4, <1>5, <1>6, <1>7 DEF FaultInv

LEMMA FaultNext ==
    ASSUME InjectionInv, FaultInv, OneController, [Next]_vars
    PROVE  FaultInv'
    <1>1. CASE UNCHANGED vars
        BY <1>1 DEF vars, FaultInv, FaultKnown, Committed, NoFault, pc, E, Base
    <1>2. ASSUME NEW w \in Workers, Proceed(w) \/ Crash(w)
          PROVE  FaultInv'
        BY <1>2, ThreeKinds, FaultDecide, FaultAct, FaultUpdate
    <1>3. ASSUME NEW w \in Workers, NEW e \in Experiments,
                 FreshReconcile(w, e) \/ StaleReconcile(w, e)
          PROVE  FaultInv'
        <2>1. exp[e] \in Version /\ past[e] \subseteq Version
            BY DEF InjectionInv, TypeOK
        <2>2. PICK v \in Version : Reconcile(w, e, v)
            BY <1>3, <2>1 DEF FreshReconcile, StaleReconcile
        <2> QED
            BY <2>2, FaultReconcile
    <1>4. ASSUME NEW e \in Experiments, UserDelete(e) \/ UserEdit(e)
          PROVE  FaultInv'
        BY <1>4, FaultUser
    <1>5. ASSUME NEW op \in Operators, LeaseExpire(op) \/ LeaseClean(op) \/ CacheSync(op)
          PROVE  FaultInv'
        <2>1. exp' = exp /\ work' = work /\ faults' = faults /\ injections' = injections
            BY <1>5 DEF LeaseExpire, LeaseClean, CacheSync, faultVars
        <2> QED
            BY <2>1 DEF FaultInv, FaultKnown, Committed, NoFault, pc, E, Base
    <1> QED
        BY <1>1, <1>2, <1>3, <1>4, <1>5 DEF Next

\* One controller, any edits: a recorded revert is of the fault that is in
\* place, whatever version the controller acts on.
THEOREM FaultInvariant == OneController => (Spec => []FaultInv)
    <1>1. Init => FaultInv
        BY DEF Init, FaultInv, InOrder, Created, Committed, InjectSteps, Idle, pc
    <1>2. ASSUME OneController, InjectionInv, FaultInv, [Next]_vars PROVE FaultInv'
        BY <1>2, FaultNext
    <1>3. ASSUME OneController PROVE Spec => []FaultInv
        <2>1. InjectionInv /\ FaultInv /\ [Next]_vars => FaultInv'
            BY <1>2, <1>3
        <2> QED
            BY <1>1, <2>1, ControllerInvariant, PTL DEF Spec
    <1> QED
        BY <1>3

\* The post-check and the verdict never see the fault, also when the user
\* edits the spec at any moment.
THEOREM FaultlessVerdict == OneController => (Spec => []JudgedWithoutFault)
    <1>1. FaultInv => JudgedWithoutFault
        BY DEF FaultInv, FaultKnown, InOrder, JudgedWithoutFault
    <1>2. ASSUME OneController PROVE Spec => []JudgedWithoutFault
        <2>1. Spec => []FaultInv
            BY <1>2, FaultInvariant
        <2> QED
            BY <1>1, <2>1, PTL
    <1> QED
        BY <1>2

-----------------------------------------------------------------------------
(* With one controller and no edits: the finalizer and the lock *)

NoEdits == MaxGen <= 1

Home(e) == OperatorOf[SpecOf[e]]

\* The experiment holds the lock of its operator, or somebody took it away.
LockedFor(e) == lease[Home(e)].holder = e \/ <<e, Home(e)>> \in lost

\* Everything is about the spec the experiment was created with.
AsCreated ==
    /\ \A e \in Experiments : exp[e].spec = SpecOf[e] /\ \A v \in past[e] : v.spec = SpecOf[e]
    /\ \A w \in Workers : pc(w) # "idle" => Base(w).spec = SpecOf[E(w)]
    /\ \A f \in faults : f[2] = SpecOf[f[1]]

\* What a worker relies on: the finalizer is there before it injects and the
\* lock is held, it drops the finalizer only of an experiment without a
\* fault, and the lock only of one that is finished or without a fault.
Cleaning(w) ==
    /\ pc(w) \in {"inject_observed", "inject"} => exp[E(w)].fin /\ exp[E(w)].phase # "Gone"
    /\ pc(w) \in {"delete_release", "delete_update"} => NoFault(E(w))
    /\ pc(w) = "final_update" =>
          Base(w).phase = "Complete" \/ E(w) \in leaked \/ NoFault(E(w))
    /\ pc(w) \in {"release", "final_release"} => Finished(E(w))
    /\ pc(w) \in InjectSteps \cup {"inject_barrier"} => LockedFor(E(w))

FaultsLocked == \A f \in faults : ~Finished(f[1]) => LockedFor(f[1])

CleanupInv == /\ AsCreated
              /\ \A w \in Workers : Cleaning(w)
              /\ NoOrphanedFault
              /\ FaultsLocked

\* Nobody edits a spec, so the user only deletes.
LEMMA UneditedUser ==
    ASSUME InjectionInv, FaultInv, NoEdits, NEW e \in Experiments, UserDelete(e) \/ UserEdit(e)
    PROVE  \E v \in Version : /\ UserSuccessor(exp[e], v)
                              /\ exp' = [exp EXCEPT ![e] = v]
                              /\ past' = [past EXCEPT ![e] = @ \cup {v}]
                              /\ v.spec = exp[e].spec
    <1>1. PICK v \in Version : /\ UserSuccessor(exp[e], v)
                               /\ exp' = [exp EXCEPT ![e] = v]
                               /\ past' = [past EXCEPT ![e] = @ \cup {v}]
                               /\ (v.gen = exp[e].gen \/ exp[e].gen < MaxGen)
        BY UserLemma
    <1>2. exp[e].gen \in Nat /\ exp[e].gen >= 1
        BY DEF InjectionInv, TypeOK, Version, FaultInv, InOrder
    <1>3. v.gen = exp[e].gen
        BY <1>1, <1>2, ControllerAssumption DEF NoEdits
    <1>4. v.spec = exp[e].spec
        BY <1>1, <1>2, <1>3 DEF UserSuccessor
    <1> QED
        BY <1>1, <1>4

LEMMA SpecsKept ==
    ASSUME InjectionInv, FaultInv, OneController, NoEdits, AsCreated, [Next]_vars
    PROVE  AsCreated'
    <1>0. TypeOK
        BY DEF InjectionInv
    <1>1. CASE UNCHANGED vars
        BY <1>1 DEF vars, AsCreated, pc, E, Base
    <1>2. ASSUME NEW w \in Workers, Decides(w) \/ Acts(w)
          PROVE  AsCreated'
        <2>1. exp' = exp /\ past' = past /\ pc(w) # "idle"
            BY <1>0, <1>2, DecideLemma, ActLemma
        <2>2. Base(w).spec = SpecOf[E(w)]
            BY <2>1 DEF AsCreated
        <2>3. \A f \in faults' : f \in faults \/ f = <<E(w), Base(w).spec>>
            <3>1. CASE Decides(w)
                BY <1>0, <3>1, DecideLemma DEF faultVars
            <3>2. CASE Acts(w)
                BY <3>2 DEF Acts, Renew, PendingAcquire, ObserveRenew, Release, InjectFault,
                   ObserveRevert, AbortRevert, DeleteRevert, FinalRevert, Reverted,
                   RevertFailed, faultVars
            <3> QED
                BY <1>2, <3>1, <3>2
        <2>4. pc(w)' = "idle" \/ (E(w)' = E(w) /\ Base(w)' = Base(w))
            <3>1. CASE Return(w)
                BY <1>0, <3>1, ReturnLemma DEF pc, Idle
            <3>2. ASSUME NEW step \in Steps, Goto(w, step)
                  PROVE  E(w)' = E(w) /\ Base(w)' = Base(w)
                BY <1>0, <2>1, <3>2, GotoFields
            <3>3. Return(w) \/ \E step \in Steps : Goto(w, step)
                <4>1. PhaseStep(Base(w)) \in Steps /\ AbortStep(Base(w)) \in Steps
                    BY <1>0, <2>1, BusyJob, StepTypes
                <4>2. {"pending_status", "observe_revert", "delete_update", "backfill",
                       "inject_status", "abort_barrier", "observe_status", "abort_status",
                       "delete_release", "final_update", "observe_next", "observe_renew",
                       "abort_revert"} \subseteq Steps
                    BY DEF Steps
                <4>3. CASE Decides(w)
                    BY <1>0, <4>1, <4>2, <4>3, DecideLemma
                <4>4. CASE Acts(w)
                    BY <1>0, <4>1, <4>2, <4>4, ActLemma
                <4> QED
                    BY <1>2, <4>3, <4>4
            <3> QED
                BY <3>1, <3>2, <3>3
        <2>5. \A f \in faults' : f[2] = SpecOf[f[1]]
            BY <2>2, <2>3 DEF AsCreated
        <2> QED
            BY <2>1, <2>2, <2>4, <2>5 DEF AsCreated, OneController
    <1>3. ASSUME NEW w \in Workers, Updates(w)
          PROVE  AsCreated'
        <2>1. pc(w) # "idle" /\ Held(work[w])
            BY <1>0, <1>3, UpdateLemma DEF InjectionInv
        <2>2. E(w) \in Experiments /\ Base(w) \in Version /\ Base(w).spec = SpecOf[E(w)]
            BY <1>0, <2>1, BusyJob DEF AsCreated
        <2>3. CASE exp[E(w)] = Base(w)
            <3>1. PICK v \in Version, step \in Steps \cup {"idle"} :
                     Write(w, v, step) /\ Keeps(w, Stored(v), step)
                BY <1>0, <1>3, <2>1, <2>2, <2>3, KeepsLemma DEF FaultInv
            <3> DEFINE u == Stored(v)
            <3>2. /\ exp' = [exp EXCEPT ![E(w)] = u]
                  /\ past' = [past EXCEPT ![E(w)] = @ \cup {u}]
                  /\ work' = [work EXCEPT ![w] = IF step = "idle" THEN Idle
                                ELSE [pc |-> step, exp |-> E(w), base |-> u]]
                  /\ faults' = faults
                BY <2>3, <3>1 DEF Write, faultVars
            <3>3. u.spec = SpecOf[E(w)]
                BY <2>2, <3>1 DEF Keeps
            <3> HIDE DEF u
            <3>4. \A e \in Experiments : /\ exp'[e].spec = SpecOf[e]
                                         /\ \A x \in past'[e] : x.spec = SpecOf[e]
                BY <1>0, <2>2, <3>2, <3>3 DEF AsCreated, TypeOK
            <3>5. pc(w)' # "idle" => Base(w)' = u /\ E(w)' = E(w)
                BY <1>0, <3>2 DEF TypeOK, Idle, pc, Base, E
            <3> QED
                BY <3>2, <3>3, <3>4, <3>5 DEF AsCreated, OneController
        <2>4. CASE exp[E(w)] # Base(w)
            <3>1. PICK v \in Version, step \in Steps \cup {"idle"} : Write(w, v, step)
                BY <1>0, <1>3, <2>1, UpdateLemma
            <3>2. exp' = exp /\ past' = past /\ Return(w) /\ faults' = faults
                BY <2>4, <3>1 DEF Write, faultVars
            <3>3. pc(w)' = "idle"
                BY <1>0, <3>2, ReturnLemma DEF Idle, pc
            <3> QED
                BY <3>2, <3>3 DEF AsCreated, OneController
        <2> QED
            BY <2>3, <2>4
    <1>4. ASSUME NEW w \in Workers, NEW e \in Experiments,
                 FreshReconcile(w, e) \/ StaleReconcile(w, e)
          PROVE  AsCreated'
        <2>1. exp[e] \in Version /\ past[e] \subseteq Version
            BY <1>0 DEF TypeOK
        <2>2. PICK v \in Version : Reconcile(w, e, v) /\ v.spec = SpecOf[e]
            BY <1>4, <2>1 DEF FreshReconcile, StaleReconcile, AsCreated
        <2>3. /\ exp' = exp /\ past' = past /\ faults' = faults
              /\ E(w)' = e /\ Base(w)' = v
            BY <1>0, <2>2 DEF Reconcile, faultVars, TypeOK, E, Base
        <2> QED
            BY <2>2, <2>3 DEF AsCreated, OneController
    <1>5. ASSUME NEW e \in Experiments, UserDelete(e) \/ UserEdit(e)
          PROVE  AsCreated'
        <2>1. PICK v \in Version : /\ exp' = [exp EXCEPT ![e] = v]
                                   /\ past' = [past EXCEPT ![e] = @ \cup {v}]
                                   /\ v.spec = exp[e].spec
            BY <1>5, UneditedUser
        <2>2. work' = work /\ faults' = faults
            BY <1>5, UserLemma
        <2>3. v.spec = SpecOf[e]
            BY <2>1 DEF AsCreated
        <2>4. \A x \in Experiments : /\ exp'[x].spec = SpecOf[x]
                                     /\ \A y \in past'[x] : y.spec = SpecOf[x]
            BY <1>0, <2>1, <2>3 DEF AsCreated, TypeOK
        <2> QED
            BY <2>2, <2>4 DEF AsCreated, pc, E, Base
    <1>6. ASSUME NEW op \in Operators, LeaseExpire(op) \/ LeaseClean(op) \/ CacheSync(op)
          PROVE  AsCreated'
        <2>1. exp' = exp /\ past' = past /\ work' = work /\ faults' = faults
            BY <1>6 DEF LeaseExpire, LeaseClean, CacheSync, faultVars
        <2> QED
            BY <2>1 DEF AsCreated, pc, E, Base
    <1> QED
        BY <1>1, <1>2, <1>3, <1>4, <1>5, <1>6, ThreeKinds DEF Next

\* Writing a Lease takes the lock from an experiment only by losing it.
LEMMA PutKeepsLock ==
    ASSUME LockType, NEW op \in Operators, NEW l \in Leases, PutLease(op, l),
           NEW e \in Experiments
    PROVE  /\ LockedFor(e) => LockedFor(e)'
           /\ l.holder = e /\ op = Home(e) => LockedFor(e)'
    <1>1. Home(e) \in Operators
        BY ControllerAssumption DEF Home
    <1>2. lease' = [lease EXCEPT ![op] = l]
        BY DEF PutLease
    <1>3. \A x \in Operators : lease'[x] = IF x = op THEN l ELSE lease[x]
        BY <1>2 DEF LockType
    <1>4. e # None
        BY ControllerAssumption
    <1>5. <<e, op>> \in lost' <=>
             (<<e, op>> \in lost \/ lease[op].holder = e) /\ l.holder # e
        BY <1>4 DEF PutLease
    <1>6. Home(e) # op => (<<e, Home(e)>> \in lost' <=> <<e, Home(e)>> \in lost)
        BY DEF PutLease
    <1> QED
        BY <1>1, <1>3, <1>5, <1>6 DEF LockedFor

\* So do an acquire, a renewal and the environment.
LEMMA LockOpsKeep ==
    ASSUME LockType, NEW x \in Experiments, NEW op \in Operators,
           LockAcquired(x, op) \/ LockRenewed(x, op),
           NEW e \in Experiments
    PROVE  /\ LockedFor(e) => LockedFor(e)'
           /\ LockRenewed(x, op) /\ x = e /\ op = Home(e) => LockedFor(e)'
    <1>1. CASE UNCHANGED lockVars /\ ~LockRenewed(x, op)
        BY <1>1 DEF lockVars, LockedFor
    <1>2. CASE PutLease(op, [holder |-> x, expired |-> FALSE])
        BY <1>2, PutKeepsLock, HeldLeaseType
    <1> QED
        BY <1>1, <1>2 DEF LockAcquired, LockRenewed

LEMMA LeasesKeepLock ==
    ASSUME LockType, NEW op \in Operators,
           LeaseExpire(op) \/ LeaseClean(op) \/ CacheSync(op),
           NEW e \in Experiments
    PROVE  LockedFor(e) => LockedFor(e)'
    <1>1. Home(e) \in Operators
        BY ControllerAssumption DEF Home
    <1>2. CASE LeaseExpire(op)
        <2>1. lease[op] \in Leases
            BY DEF LockType
        <2>2. [lease[op] EXCEPT !.expired = TRUE].holder = lease[op].holder
            BY <2>1 DEF Leases
        <2>3. \A x \in Operators : lease'[x].holder = lease[x].holder
            BY <1>2, <2>2 DEF LeaseExpire, LockType
        <2> QED
            BY <1>1, <1>2, <2>3 DEF LeaseExpire, LockedFor
    <1>3. CASE LeaseClean(op)
        BY <1>3, PutKeepsLock, FreeLeaseType DEF LeaseClean
    <1>4. CASE CacheSync(op)
        BY <1>4 DEF CacheSync, LockedFor
    <1> QED
        BY <1>2, <1>3, <1>4

\* A worker releases no lock but its own experiment's.
LEMMA ReleaseKeepsLock ==
    ASSUME LockType, NEW x \in Experiments, NEW op \in Operators,
           CanRelease(x, op), Released(op), NEW e \in Experiments, e # x
    PROVE  LockedFor(e) => LockedFor(e)'
    <1>1. Home(e) \in Operators
        BY ControllerAssumption DEF Home
    <1>2. lease[op].holder = x
        BY DEF CanRelease, SeenLease, UpToDate
    <1>3. \A y \in Operators \ {op} : lease'[y] = lease[y]
        BY DEF Released, LockType
    <1>4. lost' = lost
        BY DEF Released
    <1> QED
        BY <1>1, <1>2, <1>3, <1>4 DEF LockedFor

\* An experiment that is finished stays so.
LEMMA FinishedKept ==
    ASSUME TypeOK, TypeOK', AllForward, NEW e \in Experiments
    PROVE  Finished(e) => Finished(e)'
    <1>1. exp[e].phase \in Phases /\ exp'[e].phase \in Phases
        BY DEF TypeOK, Version
    <1>2. CASE exp'[e] = exp[e]
        BY <1>2 DEF Finished
    <1>3. CASE Forward(exp[e], exp'[e])
        BY <1>1, <1>3 DEF Forward, Rank, Phases, Terminal, Finished
    <1> QED
        BY <1>2, <1>3 DEF AllForward

\* The operator a worker's lock is about.
LEMMA HomeOp ==
    ASSUME AsCreated, NEW w \in Workers, pc(w) # "idle"
    PROVE  Op(w) = Home(E(w))
    BY DEF AsCreated, Op, Home

LEMMA CleanupUpdate ==
    ASSUME InjectionInv, FaultInv, CleanupInv, OneController, AsCreated',
           NEW w \in Workers, Updates(w)
    PROVE  CleanupInv'
    <1>0. TypeOK /\ TypeOK' /\ AllForward
        BY UpdateNext DEF InjectionInv
    <1>1. pc(w) # "idle" /\ Held(work[w])
        BY <1>0, UpdateLemma DEF InjectionInv
    <1>2. E(w) \in Experiments /\ Base(w) \in Version /\ Cleaning(w)
        BY <1>0, <1>1, BusyJob DEF CleanupInv
    <1>3. PICK v \in Version, step \in Steps \cup {"idle"} :
             /\ Write(w, v, step)
             /\ exp[E(w)] = Base(w) => Keeps(w, Stored(v), step)
        <2>1. CASE exp[E(w)] = Base(w)
            BY <1>0, <1>1, <1>2, <2>1, KeepsLemma DEF FaultInv
        <2>2. CASE exp[E(w)] # Base(w)
            BY <1>0, <1>1, <2>2, UpdateLemma
        <2> QED
            BY <2>1, <2>2
    <1>4. /\ faults' = faults /\ faults \subseteq Experiments \X Specs /\ leaked' = leaked
          /\ \A e \in Experiments : LockedFor(e)' <=> LockedFor(e)
        BY <1>0, <1>3 DEF Write, faultVars, lockVars, LockedFor, TypeOK
    <1>5. FaultsLocked'
        BY <1>0, <1>4, FinishedKept DEF CleanupInv, FaultsLocked
    <1>6. CASE exp[E(w)] = Base(w)
        <2> DEFINE u == Stored(v)
        <2>1. Keeps(w, u, step)
            BY <1>3, <1>6
        <2>2. /\ exp' = [exp EXCEPT ![E(w)] = u]
              /\ work' = [work EXCEPT ![w] = IF step = "idle" THEN Idle
                            ELSE [pc |-> step, exp |-> E(w), base |-> u]]
            BY <1>3, <1>6 DEF Write
        <2> HIDE DEF u
        <2>3. exp'[E(w)] = u /\ \A e \in Experiments \ {E(w)} : exp'[e] = exp[e]
            BY <1>0, <1>2, <2>2 DEF TypeOK
        <2>4. ASSUME NEW f \in faults, f[1] \notin leaked
              PROVE  exp'[f[1]].fin /\ exp'[f[1]].phase # "Gone"
            <3>1. f[1] \in Experiments /\ exp[f[1]].fin /\ exp[f[1]].phase # "Gone"
                BY <1>4, <2>4 DEF CleanupInv, NoOrphanedFault
            <3>2. CASE f[1] # E(w)
                BY <2>3, <3>1, <3>2
            <3>3. CASE f[1] = E(w)
                <4>1. ~NoFault(E(w))
                    BY <3>3 DEF NoFault
                <4>2. Base(w).phase # "Complete"
                    BY <1>2, <1>6, <3>3 DEF FaultInv, FaultKnown, InOrder
                <4>3. pc(w) \notin {"delete_update", "final_update"}
                    BY <1>2, <2>4, <3>3, <4>1, <4>2 DEF Cleaning
                <4> QED
                    BY <1>6, <2>1, <2>3, <3>1, <3>3, <4>3 DEF Keeps
            <3> QED
                BY <3>2, <3>3
        <2>5. Cleaning(w)'
            <3>1. CASE step = "idle"
                <4>1. pc(w)' = "idle"
                    BY <1>0, <2>2, <3>1 DEF TypeOK, Idle, pc
                <4> QED
                    BY <4>1 DEF Cleaning, InjectSteps
            <3>2. CASE step # "idle"
                <4>1. pc(w)' = step /\ E(w)' = E(w)
                    BY <1>0, <2>2, <3>2 DEF TypeOK, pc, E
                <4>2. step \in {"release", "final_release", "abort_revert", "reenter_status"}
                                \cup InjectSteps
                    BY <2>1, <3>2 DEF Keeps
                <4>3. step \in {"release", "final_release"} => Finished(E(w))'
                    BY <2>1, <2>3, <4>1 DEF Keeps, Finished
                <4>4. step \in {"inject_observed", "inject"} =>
                         exp'[E(w)].fin /\ exp'[E(w)].phase # "Gone"
                    BY <2>1, <2>3 DEF Keeps, InjectSteps
                <4>5. step \in InjectSteps => LockedFor(E(w))'
                    BY <1>2, <1>4, <2>1, <4>1 DEF Keeps, Cleaning
                <4> QED
                    BY <4>1, <4>2, <4>3, <4>4, <4>5 DEF Cleaning, InjectSteps
            <3> QED
                BY <3>1, <3>2
        <2> QED
            BY <1>4, <1>5, <2>4, <2>5 DEF CleanupInv, NoOrphanedFault, OneController
    <1>7. CASE exp[E(w)] # Base(w)
        <2>1. exp' = exp /\ Return(w)
            BY <1>3, <1>7 DEF Write
        <2>2. pc(w)' = "idle"
            BY <1>0, <2>1, ReturnLemma DEF Idle, pc
        <2>3. Cleaning(w)'
            BY <2>2 DEF Cleaning, InjectSteps
        <2> QED
            BY <1>4, <1>5, <2>1, <2>3 DEF CleanupInv, NoOrphanedFault, OneController
    <1> QED
        BY <1>6, <1>7

\* The steps at which Cleaning asks for something.
CleaningSteps == InjectSteps \cup
    {"inject_barrier", "delete_release", "delete_update", "final_update", "release",
     "final_release"}

LEMMA NotCleaning ==
    ASSUME NEW w \in Workers, pc(w) \notin CleaningSteps
    PROVE  Cleaning(w)
    BY DEF Cleaning, CleaningSteps, InjectSteps

LEMMA CleanupAct ==
    ASSUME InjectionInv, FaultInv, CleanupInv, OneController, AsCreated',
           NEW w \in Workers, Acts(w)
    PROVE  CleanupInv'
    <1>0. TypeOK /\ LockType
        BY TypeParts DEF InjectionInv
    <1>1. pc(w) # "idle" /\ exp' = exp
        BY <1>0, ActLemma
    <1>2. /\ E(w) \in Experiments /\ Base(w) \in Version /\ Op(w) \in Operators
          /\ Cleaning(w) /\ Op(w) = Home(E(w))
        BY <1>0, <1>1, BusyJob, HomeOp DEF CleanupInv
    <1>3. ASSUME NEW step \in Steps \ CleaningSteps, Goto(w, step)
          PROVE  Cleaning(w)'
        <2>1. pc(w)' \notin CleaningSteps
            BY <1>0, <1>1, <1>3, GotoFields
        <2> QED
            BY <2>1 DEF Cleaning, CleaningSteps, InjectSteps
    <1>4. ASSUME Return(w)
          PROVE  Cleaning(w)'
        <2>1. pc(w)' = "idle"
            BY <1>0, <1>4, ReturnLemma DEF Idle, pc
        <2> QED
            BY <2>1 DEF Cleaning, InjectSteps
    <1>5. ASSUME faults' = faults, leaked' = leaked, Cleaning(w)',
                 \A f \in faults : ~Finished(f[1]) => LockedFor(f[1])'
          PROVE  CleanupInv'
        BY <1>1, <1>5 DEF CleanupInv, NoOrphanedFault, FaultsLocked, Finished, OneController
    <1>6. {"pending_status", "observe_revert", "backfill", "inject_status", "abort_barrier",
           "observe_status", "abort_status"} \subseteq Steps \ CleaningSteps
        BY DEF Steps, CleaningSteps, InjectSteps
    <1>7. CASE Renew(w) \/ PendingAcquire(w) \/ ObserveRenew(w)
        <2>1. LockAcquired(E(w), Op(w)) \/ LockRenewed(E(w), Op(w))
            BY <1>7 DEF Renew, PendingAcquire, ObserveRenew
        <2>2. \A e \in Experiments : LockedFor(e) => LockedFor(e)'
            BY <1>0, <1>2, <2>1, LockOpsKeep
        <2>3. Cleaning(w)'
            <3>1. CASE PendingAcquire(w) \/ ObserveRenew(w)
                BY <1>3, <1>6, <3>1 DEF PendingAcquire, ObserveRenew
            <3>2. CASE Renew(w)
                <4>1. Goto(w, PhaseStep(Base(w))) /\ LockRenewed(E(w), Op(w))
                    BY <3>2 DEF Renew
                <4>2. PhaseStep(Base(w)) \in Steps
                    BY <1>2, StepTypes
                <4>3. pc(w)' = PhaseStep(Base(w)) /\ E(w)' = E(w)
                    BY <1>0, <1>1, <4>1, <4>2, GotoFields
                <4>4. PhaseStep(Base(w)) \notin CleaningSteps \ {"inject_barrier"}
                    BY DEF PhaseStep, CleaningSteps, InjectSteps
                <4>5. \A e \in Experiments : e = E(w) => LockedFor(e)'
                    BY <1>0, <1>2, <4>1, LockOpsKeep
                <4>6. LockedFor(E(w))'
                    BY <1>2, <4>3, <4>5 DEF LockedFor
                <4> QED
                    BY <4>3, <4>4, <4>6 DEF Cleaning, CleaningSteps, InjectSteps
            <3> QED
                BY <1>7, <3>1, <3>2
        <2>4. \A f \in faults : ~Finished(f[1]) => LockedFor(f[1])'
            BY <1>0, <2>2 DEF CleanupInv, FaultsLocked, TypeOK
        <2> QED
            BY <1>5, <1>7, <2>3, <2>4 DEF Renew, PendingAcquire, ObserveRenew, faultVars
    <1>8. CASE Release(w)
        <2>1. pc(w) \in {"release", "delete_release", "final_release"}
              /\ faults' = faults /\ leaked' = leaked
            BY <1>8 DEF Release, faultVars
        <2>2. \A f \in faults : ~Finished(f[1]) => f[1] # E(w)
            BY <1>2, <2>1 DEF Cleaning, NoFault
        <2>3. \A e \in Experiments \ {E(w)} : LockedFor(e) => LockedFor(e)'
            <3>1. CASE CanRelease(E(w), Op(w)) /\ Released(Op(w))
                BY <1>0, <1>2, <3>1, ReleaseKeepsLock
            <3>2. CASE UNCHANGED lockVars
                BY <3>2 DEF lockVars, LockedFor
            <3> QED
                BY <1>8, <3>1, <3>2 DEF Release
        <2>4. \A f \in faults : ~Finished(f[1]) => LockedFor(f[1])'
            BY <1>0, <2>2, <2>3 DEF CleanupInv, FaultsLocked, TypeOK
        <2>5. Cleaning(w)'
            <3>1. AfterRelease(w) \in {"idle", "delete_update", "backfill"}
                  /\ (AfterRelease(w) = "delete_update" => pc(w) = "delete_release")
                BY <2>1 DEF AfterRelease, FinalStep
            <3>2. CASE AfterRelease(w) # "delete_update"
                BY <1>3, <1>4, <1>6, <1>8, <3>1, <3>2 DEF Release
            <3>3. CASE AfterRelease(w) = "delete_update"
                <4>1. Goto(w, "delete_update")
                    BY <1>8, <3>3 DEF Release
                <4>2. pc(w)' = "delete_update" /\ E(w)' = E(w)
                    BY <1>0, <1>1, <4>1, GotoFields DEF Steps
                <4>3. NoFault(E(w))'
                    BY <1>2, <2>1, <3>1, <3>3, <4>2 DEF Cleaning, NoFault
                <4> QED
                    BY <4>2, <4>3 DEF Cleaning, InjectSteps
            <3> QED
                BY <3>2, <3>3
        <2> QED
            BY <1>5, <2>1, <2>4, <2>5
    <1>9. CASE InjectFault(w)
        <2>1. /\ pc(w) = "inject" /\ leaked' = leaked /\ UNCHANGED lockVars
              /\ faults' \in {faults, faults \cup {<<E(w), Base(w).spec>>}}
              /\ Goto(w, "inject_status") \/ Goto(w, "abort_barrier")
            BY <1>9 DEF InjectFault
        <2>2. Cleaning(w)'
            BY <1>3, <1>6, <2>1
        <2>3. exp[E(w)].fin /\ exp[E(w)].phase # "Gone" /\ LockedFor(E(w))
            BY <1>2, <2>1 DEF Cleaning, InjectSteps
        <2>4. \A f \in faults' : f \in faults \/ f[1] = E(w)
            BY <2>1
        <2>5. NoOrphanedFault'
            BY <1>1, <2>1, <2>3, <2>4 DEF CleanupInv, NoOrphanedFault
        <2>6. \A f \in faults' : ~Finished(f[1]) => LockedFor(f[1])
            BY <2>3, <2>4 DEF CleanupInv, FaultsLocked
        <2>7. FaultsLocked'
            BY <1>1, <2>1, <2>6 DEF FaultsLocked, Finished, LockedFor, lockVars
        <2> QED
            BY <2>2, <2>5, <2>7 DEF CleanupInv, OneController
    <1>10. CASE ObserveRevert(w) \/ AbortRevert(w) \/ DeleteRevert(w) \/ FinalRevert(w)
        <2>1. /\ faults' \subseteq faults /\ leaked \subseteq leaked' /\ UNCHANGED lockVars
            BY <1>10 DEF ObserveRevert, AbortRevert, DeleteRevert, FinalRevert,
               Reverted, RevertFailed
        <2>2. NoOrphanedFault' /\ FaultsLocked'
            BY <1>1, <2>1 DEF CleanupInv, NoOrphanedFault, FaultsLocked, Finished, LockedFor,
               lockVars
        <2>3. Reverted(w) => \A f \in faults' : f[1] # E(w)
            BY <1>1 DEF Reverted, CleanupInv, AsCreated
        <2>4. Cleaning(w)'
            <3>1. CASE ObserveRevert(w) \/ AbortRevert(w)
                BY <1>3, <1>4, <1>6, <3>1 DEF ObserveRevert, AbortRevert
            <3>2. CASE DeleteRevert(w)
                <4>1. CASE Return(w)
                    BY <1>4, <4>1
                <4>2. CASE Reverted(w) /\ Goto(w, "delete_release")
                    <5>1. pc(w)' = "delete_release" /\ E(w)' = E(w)
                        BY <1>0, <1>1, <4>2, GotoFields DEF Steps
                    <5>2. NoFault(E(w))'
                        BY <2>3, <4>2, <5>1 DEF NoFault
                    <5> QED
                        BY <5>1, <5>2 DEF Cleaning, InjectSteps
                <4> QED
                    BY <3>2, <4>1, <4>2 DEF DeleteRevert
            <3>3. CASE FinalRevert(w)
                <4>1. pc(w)' = "final_update" /\ E(w)' = E(w)
                    BY <1>0, <1>1, <3>3, GotoFields DEF FinalRevert, Steps
                <4>2. Reverted(w) \/ E(w) \in leaked'
                    BY <3>3 DEF FinalRevert
                <4>3. (E(w) \in leaked)' \/ NoFault(E(w))'
                    BY <2>3, <4>1, <4>2 DEF NoFault
                <4> QED
                    BY <4>1, <4>3 DEF Cleaning, InjectSteps
            <3> QED
                BY <1>10, <3>1, <3>2, <3>3
        <2> QED
            BY <2>2, <2>4 DEF CleanupInv, OneController
    <1> QED
        BY <1>7, <1>8, <1>9, <1>10 DEF Acts

LEMMA CleanupDecide ==
    ASSUME InjectionInv, CleanupInv, OneController, AsCreated', NEW w \in Workers, Decides(w)
    PROVE  CleanupInv'
    <1>0. TypeOK
        BY DEF InjectionInv
    <1>1. /\ pc(w) # "idle" /\ exp' = exp /\ UNCHANGED lockVars
          /\ faults' = faults /\ leaked' = leaked
        BY <1>0, DecideLemma DEF faultVars
    <1>2. Cleaning(w)'
        <2>1. pc(w)' \notin CleaningSteps
            <3>1. CASE Return(w)
                BY <1>0, <3>1, ReturnLemma DEF Idle, pc, CleaningSteps, InjectSteps
            <3>2. ASSUME NEW step \in {"abort_status", "observe_next", "observe_renew",
                                       "abort_revert", AbortStep(Base(w))},
                         Goto(w, step)
                  PROVE  pc(w)' \notin CleaningSteps
                <4>1. step \in Steps \ CleaningSteps
                    BY DEF AbortStep, Steps, CleaningSteps, InjectSteps
                <4> QED
                    BY <1>0, <1>1, <3>2, <4>1, GotoFields
            <3> QED
                BY <1>0, <3>1, <3>2, DecideLemma
        <2> QED
            BY <2>1 DEF Cleaning, CleaningSteps, InjectSteps
    <1>3. FaultsLocked' /\ NoOrphanedFault'
        BY <1>1 DEF CleanupInv, FaultsLocked, NoOrphanedFault, Finished, LockedFor, lockVars
    <1> QED
        BY <1>2, <1>3 DEF CleanupInv, OneController

LEMMA CleanupReconcile ==
    ASSUME InjectionInv, CleanupInv, OneController, AsCreated', NEW w \in Workers,
           NEW e \in Experiments, NEW v \in Version, Reconcile(w, e, v)
    PROVE  CleanupInv'
    <1>1. /\ exp' = exp /\ UNCHANGED lockVars /\ faults' = faults /\ leaked' = leaked
        BY DEF Reconcile, faultVars
    <1>2. pc(w)' = FirstStep(v) /\ Base(w)' = v
        BY DEF Reconcile, InjectionInv, TypeOK, pc, Base
    <1>3. /\ FirstStep(v) \notin CleaningSteps \ {"final_update"}
          /\ FirstStep(v) = "final_update" => v.phase = "Complete"
        BY DEF FirstStep, FinalStep, AbortStep, CleaningSteps, InjectSteps, Terminal
    <1>4. Cleaning(w)'
        BY <1>2, <1>3 DEF Cleaning, CleaningSteps, InjectSteps
    <1>5. FaultsLocked' /\ NoOrphanedFault'
        BY <1>1 DEF CleanupInv, FaultsLocked, NoOrphanedFault, Finished, LockedFor, lockVars
    <1> QED
        BY <1>4, <1>5 DEF CleanupInv, OneController

LEMMA CleanupUser ==
    ASSUME InjectionInv, FaultInv, CleanupInv, NoEdits, AsCreated', NEW e \in Experiments,
           UserDelete(e) \/ UserEdit(e)
    PROVE  CleanupInv'
    <1>0. TypeOK /\ TypeOK' /\ AllForward
        BY UserNext DEF InjectionInv
    <1>1. work' = work /\ faults' = faults /\ leaked' = leaked /\ UNCHANGED lockVars
        BY UserLemma DEF UserDelete, UserEdit
    <1>2. PICK v \in Version : UserSuccessor(exp[e], v) /\ exp' = [exp EXCEPT ![e] = v]
        BY UserLemma
    <1>3. \A x \in Experiments : exp[x].fin /\ exp[x].phase # "Gone" =>
              exp'[x].fin /\ exp'[x].phase # "Gone"
        BY <1>0, <1>2 DEF TypeOK, UserSuccessor
    <1>4. \A x \in Experiments : /\ Finished(x) => Finished(x)'
                                 /\ LockedFor(x)' <=> LockedFor(x)
        BY <1>0, <1>1, FinishedKept DEF LockedFor, lockVars
    <1>5. \A f \in faults : f[1] \in Experiments
        BY <1>0 DEF TypeOK
    <1>6. NoOrphanedFault' /\ FaultsLocked'
        BY <1>1, <1>3, <1>4, <1>5 DEF CleanupInv, NoOrphanedFault, FaultsLocked
    <1>7. ASSUME NEW w \in Workers
          PROVE  Cleaning(w)'
        <2>1. Cleaning(w) /\ (pc(w) # "idle" => E(w) \in Experiments)
            BY <1>0, BusyJob DEF CleanupInv
        <2>2. pc(w)' = pc(w) /\ E(w)' = E(w) /\ Base(w)' = Base(w)
            BY <1>1 DEF pc, E, Base
        <2>3. NoFault(E(w)) => NoFault(E(w))'
            BY <1>1, <2>2 DEF NoFault
        <2>4. pc(w) # "idle" => /\ Finished(E(w)) => Finished(E(w))'
                                /\ LockedFor(E(w)) => LockedFor(E(w))'
            BY <1>4, <2>1, <2>2 DEF Finished, LockedFor
        <2> QED
            BY <1>1, <1>3, <2>1, <2>2, <2>3, <2>4 DEF Cleaning, InjectSteps
    <1> QED
        BY <1>6, <1>7 DEF CleanupInv

LEMMA CleanupLease ==
    ASSUME InjectionInv, CleanupInv, AsCreated', NEW op \in Operators,
           LeaseExpire(op) \/ LeaseClean(op) \/ CacheSync(op)
    PROVE  CleanupInv'
    <1>0. TypeOK /\ LockType
        BY TypeParts DEF InjectionInv
    <1>1. exp' = exp /\ work' = work /\ faults' = faults /\ leaked' = leaked
        BY DEF LeaseExpire, LeaseClean, CacheSync, faultVars
    <1>2. \A e \in Experiments : LockedFor(e) => LockedFor(e)'
        BY <1>0, LeasesKeepLock
    <1>3. \A f \in faults : f[1] \in Experiments
        BY <1>0 DEF TypeOK
    <1>4. NoOrphanedFault' /\ FaultsLocked'
        BY <1>1, <1>2, <1>3 DEF CleanupInv, NoOrphanedFault, FaultsLocked, Finished
    <1>5. ASSUME NEW w \in Workers
          PROVE  Cleaning(w)'
        <2>1. Cleaning(w) /\ (pc(w) # "idle" => E(w) \in Experiments)
            BY <1>0, BusyJob DEF CleanupInv
        <2>2. pc(w)' = pc(w) /\ E(w)' = E(w) /\ Base(w)' = Base(w)
            BY <1>1 DEF pc, E, Base
        <2>3. pc(w) # "idle" => (LockedFor(E(w)) => LockedFor(E(w))')
            BY <1>2, <2>1, <2>2 DEF LockedFor
        <2>4. NoFault(E(w)) => NoFault(E(w))'
            BY <1>1, <2>2 DEF NoFault
        <2> QED
            BY <1>1, <2>1, <2>2, <2>3, <2>4 DEF Cleaning, Finished, InjectSteps
    <1> QED
        BY <1>4, <1>5 DEF CleanupInv

LEMMA CleanupNext ==
    ASSUME InjectionInv, FaultInv, CleanupInv, OneController, NoEdits, [Next]_vars
    PROVE  CleanupInv'
    <1>0. AsCreated'
        BY SpecsKept DEF CleanupInv
    <1>1. CASE UNCHANGED vars
        BY <1>0, <1>1 DEF vars, CleanupInv, Cleaning, NoOrphanedFault, FaultsLocked, Finished,
           LockedFor, NoFault, pc, E, Base
    <1>2. ASSUME NEW w \in Workers, Proceed(w) \/ Crash(w)
          PROVE  CleanupInv'
        BY <1>0, <1>2, ThreeKinds, CleanupDecide, CleanupAct, CleanupUpdate
    <1>3. ASSUME NEW w \in Workers, NEW e \in Experiments,
                 FreshReconcile(w, e) \/ StaleReconcile(w, e)
          PROVE  CleanupInv'
        <2>1. exp[e] \in Version /\ past[e] \subseteq Version
            BY DEF InjectionInv, TypeOK
        <2>2. PICK v \in Version : Reconcile(w, e, v)
            BY <1>3, <2>1 DEF FreshReconcile, StaleReconcile
        <2> QED
            BY <1>0, <2>2, CleanupReconcile
    <1>4. ASSUME NEW e \in Experiments, UserDelete(e) \/ UserEdit(e)
          PROVE  CleanupInv'
        BY <1>0, <1>4, CleanupUser
    <1>5. ASSUME NEW op \in Operators, LeaseExpire(op) \/ LeaseClean(op) \/ CacheSync(op)
          PROVE  CleanupInv'
        BY <1>0, <1>5, CleanupLease
    <1> QED
        BY <1>1, <1>2, <1>3, <1>4, <1>5 DEF Next

\* One controller and no edits: the finalizer outlives the fault and the lock
\* is kept while it is in place.
THEOREM CleanupInvariant == OneController /\ NoEdits => (Spec => []CleanupInv)
    <1>1. ASSUME Init PROVE CleanupInv
        <2>1. \A w \in Workers : pc(w) = "idle"
            BY <1>1 DEF Init, Idle, pc
        <2>2. \A w \in Workers : Cleaning(w)
            BY <2>1 DEF Cleaning, InjectSteps
        <2>3. \A e \in Experiments : Created(e).spec = SpecOf[e]
            BY DEF Created
        <2>4. \A e \in Experiments : exp[e] = Created(e) /\ past[e] = {Created(e)}
            BY <1>1 DEF Init
        <2>5. AsCreated
            BY <1>1, <2>1, <2>3, <2>4 DEF AsCreated, Init
        <2>6. faults = {}
            BY <1>1 DEF Init
        <2> QED
            BY <2>2, <2>5, <2>6 DEF CleanupInv, NoOrphanedFault, FaultsLocked
    <1>2. ASSUME OneController, NoEdits PROVE Spec => []CleanupInv
        <2>1. InjectionInv /\ FaultInv /\ CleanupInv /\ [Next]_vars => CleanupInv'
            BY <1>2, CleanupNext
        <2>2. Spec => []FaultInv
            BY <1>2, FaultInvariant
        <2> QED
            BY <1>1, <2>1, <2>2, ControllerInvariant, PTL DEF Spec
    <1> QED
        BY <1>2

\* A fault never outlives the finalizer of its experiment, unless the last
\* best-effort revert failed.
THEOREM FaultHasFinalizer == OneController /\ NoEdits => (Spec => []NoOrphanedFault)
    <1>1. CleanupInv => NoOrphanedFault
        BY DEF CleanupInv
    <1>2. ASSUME OneController, NoEdits PROVE Spec => []NoOrphanedFault
        <2>1. Spec => []CleanupInv
            BY <1>2, CleanupInvariant
        <2> QED
            BY <1>1, <2>1, PTL
    <1> QED
        BY <1>2

\* The operator stays locked while an unfinished experiment's fault is in
\* place, unless the lease lapsed or was removed.
THEOREM FaultKeepsLock == OneController /\ NoEdits => (Spec => []FaultIsLocked)
    <1>1. CleanupInv => FaultIsLocked
        BY DEF CleanupInv, AsCreated, FaultsLocked, FaultIsLocked, LockedFor, Home
    <1>2. ASSUME OneController, NoEdits PROVE Spec => []FaultIsLocked
        <2>1. Spec => []CleanupInv
            BY <1>2, CleanupInvariant
        <2> QED
            BY <1>1, <2>1, PTL
    <1> QED
        BY <1>2
=============================================================================
