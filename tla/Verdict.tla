------------------------------- MODULE Verdict -------------------------------
(***************************************************************************)
(* From the recovery of the operator to the verdict: RunPostCheck of the   *)
(* orchestrator, the observers of pkg/observer and the evaluator.          *)
(*                                                                         *)
(* The reconciliation checker polls the managed resources of the component *)
(* until all are as the operator should keep them or the recovery timeout  *)
(* is over.  Then the steady-state checks and the checks of the dependent  *)
(* components run concurrently.  All of them write findings on one board,  *)
(* which the evaluator turns into a verdict.  Each look at an object is a  *)
(* step: the operator repairs, and others break, between any two of them.  *)
(***************************************************************************)
EXTENDS Integers, Sequences, FiniteSets

CONSTANTS Managed,     \* the managed resources of the component, in order
          Checks,      \* its steady-state checks, in order
          Dependents,  \* the components that depend on it, in order
          CheckType,   \* the type of each steady-state check, own or dependent's
          Interval,    \* reconciliationPollInterval
          Default,     \* the recovery timeout of a hypothesis that sets none
          MaxCycles,   \* maxReconcileCycles
          MaxTime, MaxChanges, MaxErrors

VARIABLES objects,   \* the cluster
          everWell,  \* history: what was in order at some moment since
          hypothesis,\* the recovery timeout of the experiment, 0 when unset
          now, tick, \* the clock, and whether a tick waits in the channel
          phase, todo, cycle, cycles,
          steady, collateral, \* the two contributors of phase 2
          board, verdict,
          changes, errors

verdictVars == <<objects, everWell, hypothesis, now, tick, phase, todo, cycle, cycles, steady,
                 collateral, board, verdict, changes, errors>>
observed == <<phase, todo, cycle, cycles, steady, collateral, board, verdict>>

Range1(s) == {s[i] : i \in DOMAIN s}
Watched == Range1(Managed) \cup Range1(Checks) \cup Range1(Dependents)

\* An object that is managed and checked counts as two, which is more than it
\* can do.
ASSUME VerdictAssumption ==
    /\ \A s \in {Managed, Checks, Dependents} : s \in Seq(Range1(s))
    /\ Range1(Managed) \cap (Range1(Checks) \cup Range1(Dependents)) = {}
    /\ Interval \in Nat \ {0} /\ Default \in Nat /\ MaxCycles \in Nat /\ MaxTime \in Nat
    /\ MaxChanges \in Nat /\ MaxErrors \in Nat

\* What the checks tell apart in an object; `text' says that the field of a
\* fieldEquals check is a string.
Healthy == [here |-> TRUE, owned |-> TRUE, spec |-> TRUE, ready |-> TRUE, text |-> TRUE]
Defects(x) == IF x \in Range1(Managed) THEN {"here", "owned", "spec"}
              ELSE CASE CheckType[x] = "conditionTrue" -> {"here", "ready"}
                     [] CheckType[x] = "fieldEquals" -> {"here", "spec", "text"}
                     [] OTHER -> {"here"}
Sick(x) == {[Healthy EXCEPT ![d] = FALSE] : d \in Defects(x)}

ResolvedRecoveryTimeout == IF hypothesis > 0 THEN hypothesis ELSE Default
NoResult == [all |-> FALSE, cycles |-> 0, time |-> 0, given |-> FALSE]
Finding(source, passed) ==
    [source |-> source, passed |-> passed, checks |-> FALSE, result |-> NoResult]
AddFinding(f) == board' = Append(board, f)
\* The places of a source's findings.
FindingsBySource(b, source) == {i \in DOMAIN b : b[i].source = source}

-----------------------------------------------------------------------------
(* Phase 1: the reconciliation checker *)

\* NotFound counts as not reconciled, any other error ends the check.
CheckManagedResource(o) == o.here /\ o.owned /\ o.spec

Result(all) == [all |-> all, cycles |-> cycles, time |-> now, given |-> TRUE]

ReconciliationContributor(all) ==
    /\ AddFinding([Finding("reconciliation", all) EXCEPT !.result = Result(all)])
    /\ phase' = "phase2"

\* The finding of an error carries no result.
ReconciliationError ==
    AddFinding(Finding("reconciliation", FALSE)) /\ phase' = "phase2"

StartCycleForever ==
    /\ phase = "poll" /\ cycles' = cycles + 1 /\ cycle' = TRUE /\ todo' = Managed
    /\ phase' = "look"
    /\ UNCHANGED <<objects, everWell, hypothesis, now, tick, steady, collateral, board, verdict,
                   changes, errors>>

StartCycle ==
    /\ phase = "poll"
    /\ IF now < ResolvedRecoveryTimeout
       THEN /\ cycles' = cycles + 1 /\ cycle' = TRUE /\ todo' = Managed /\ phase' = "look"
            /\ UNCHANGED board
       ELSE ReconciliationContributor(FALSE) /\ UNCHANGED <<cycles, cycle, todo>>
    /\ UNCHANGED <<objects, everWell, hypothesis, now, tick, steady, collateral, verdict, changes, errors>>

CheckReconciliationOnce ==
    /\ phase = "look" /\ todo # <<>>
    /\ \/ /\ cycle' = (cycle /\ CheckManagedResource(objects[Head(todo)]))
          /\ todo' = Tail(todo) /\ UNCHANGED <<phase, board, errors>>
       \/ /\ errors < MaxErrors /\ errors' = errors + 1
          /\ ReconciliationError /\ UNCHANGED <<todo, cycle>>
    /\ UNCHANGED <<objects, everWell, hypothesis, now, tick, cycles, steady, collateral, verdict, changes>>

\* The end of a cycle: all is well, or the next tick, or the context is done.
EndCycle ==
    /\ phase = "look" /\ todo = <<>>
    /\ IF cycle THEN ReconciliationContributor(TRUE)
       ELSE phase' = "wait" /\ UNCHANGED board
    /\ UNCHANGED <<objects, everWell, hypothesis, now, tick, cycle, cycles, todo, steady, collateral,
                   verdict, changes, errors>>

NextCycle ==
    /\ phase = "wait"
    /\ \/ tick /\ tick' = FALSE /\ phase' = "poll" /\ UNCHANGED <<board, errors>>
       \/ /\ errors < MaxErrors /\ errors' = errors + 1
          /\ ReconciliationError /\ UNCHANGED tick
    /\ UNCHANGED <<objects, everWell, hypothesis, now, todo, cycle, cycles, steady, collateral,
                   verdict, changes>>

-----------------------------------------------------------------------------
(* Phase 2: steady state and collateral damage, side by side *)

CheckCondition(o) == o.here /\ o.ready
CheckResourceExists(o) == o.here
\* A field that is no string is reported as not found.
CheckFieldEquals(o) == o.here /\ o.text /\ o.spec

CheckSteady(o, type) ==
    CASE type = "conditionTrue" -> CheckCondition(o)
      [] type = "resourceExists" -> CheckResourceExists(o)
      [] type = "fieldEquals" -> CheckFieldEquals(o)
      [] OTHER -> FALSE
Passes(c) == CheckSteady(objects[c], CheckType[c])
WellIn(objs, x) == IF x \in Range1(Managed) THEN CheckManagedResource(objs[x])
                   ELSE CheckSteady(objs[x], CheckType[x])

\* A check whose Get fails has not passed; the others go on.
CheckSteadyState ==
    /\ phase = "phase2" /\ steady.todo # <<>>
    /\ \/ /\ steady' = [steady EXCEPT !.todo = Tail(@),
                                      !.passed = @ + (IF Passes(Head(steady.todo)) THEN 1 ELSE 0)]
          /\ UNCHANGED errors
       \/ /\ errors < MaxErrors /\ errors' = errors + 1
          /\ steady' = [steady EXCEPT !.todo = Tail(@)]
    /\ UNCHANGED <<objects, everWell, hypothesis, now, tick, phase, todo, cycle, cycles, collateral, board,
                   verdict, changes>>

\* Without checks the steady state counts as given.
SteadyStateContributor ==
    /\ phase = "phase2" /\ steady.todo = <<>> /\ ~steady.done
    /\ steady' = [steady EXCEPT !.done = TRUE]
    /\ LET passed == steady.passed = Len(Checks)
       IN  AddFinding([Finding("steady_state", passed) EXCEPT !.checks = TRUE])
    /\ UNCHANGED <<objects, everWell, hypothesis, now, tick, phase, todo, cycle, cycles, collateral, verdict,
                   changes, errors>>

\* Dependents without checks are passed over.
CollateralContributor ==
    /\ phase = "phase2" /\ collateral # <<>> /\ collateral' = Tail(collateral)
    /\ IF CheckType[Head(collateral)] = "none" THEN UNCHANGED <<board, errors>>
       ELSE \/ /\ AddFinding(Finding("collateral", Passes(Head(collateral))))
               /\ UNCHANGED errors
            \/ /\ errors < MaxErrors /\ errors' = errors + 1
               /\ AddFinding(Finding("collateral", FALSE))
    /\ UNCHANGED <<objects, everWell, hypothesis, now, tick, phase, todo, cycle, cycles, steady, verdict,
                   changes>>

\* RunContributors waits for both.
RunContributorsSteadyOnly ==
    /\ phase = "phase2" /\ steady.done /\ phase' = "evaluate"
    /\ UNCHANGED <<objects, everWell, hypothesis, now, tick, todo, cycle, cycles, steady, collateral, board,
                   verdict, changes, errors>>

RunContributors ==
    /\ phase = "phase2" /\ steady.done /\ collateral = <<>> /\ phase' = "evaluate"
    /\ UNCHANGED <<objects, everWell, hypothesis, now, tick, todo, cycle, cycles, steady, collateral, board,
                   verdict, changes, errors>>

-----------------------------------------------------------------------------
(* The evaluator *)

Worst(S) == CHOOSE n \in S \cup {0} : \A m \in S \cup {0} : m <= n

ComputeVerdict(passed, all, n, time) ==
    LET slow == hypothesis > 0 /\ time > hypothesis
        busy == MaxCycles > 0 /\ n > MaxCycles
    IN  CASE ~passed -> "Failed"
          [] passed /\ (~all \/ slow \/ busy) -> "Degraded"
          [] OTHER -> "Resilient"

First(S) == CHOOSE i \in S : \A j \in S : i <= j

EvaluateSteadyStateOnly(b) ==
    IF b[First(FindingsBySource(b, "steady_state"))].passed THEN "Resilient" ELSE "Failed"

\* Findings without a result are skipped.  The first steady-state finding
\* counts; collateral damage turns Resilient into Degraded.
EvaluateFromFindings(b) ==
    LET results == {b[i].result : i \in {j \in FindingsBySource(b, "reconciliation") : b[j].result.given}}
        post == FindingsBySource(b, "steady_state")
        found == ComputeVerdict(b[First(post)].passed, \A r \in results : r.all,
                                Worst({r.cycles : r \in results}),
                                Worst({r.time : r \in results}))
    IN  IF post = {} THEN "Inconclusive"
        ELSE IF found = "Resilient"
                /\ \E i \in FindingsBySource(b, "collateral") : ~b[i].passed
             THEN "Degraded" ELSE found

EvaluateExperiment ==
    /\ phase = "evaluate" /\ phase' = "done"
    /\ verdict' = EvaluateFromFindings(board)
    /\ UNCHANGED <<objects, everWell, hypothesis, now, tick, todo, cycle, cycles, steady, collateral, board,
                   changes, errors>>

-----------------------------------------------------------------------------
(* The operator, everybody else, and the clock *)

Change ==
    /\ changes < MaxChanges /\ changes' = changes + 1 /\ verdict = "none"
    /\ \E x \in Watched : \E o \in Sick(x) \cup {Healthy} : objects' = [objects EXCEPT ![x] = o]
    /\ everWell' = everWell \cup {x \in Watched : WellIn(objects', x)}
    /\ UNCHANGED <<hypothesis, now, tick, errors, observed>>

\* The channel of a Go ticker holds one tick.
Tick ==
    /\ now < MaxTime /\ phase \in {"poll", "look", "wait"}
    /\ now' = now + 1 /\ tick' = (tick \/ now' % Interval = 0)
    /\ UNCHANGED <<objects, everWell, hypothesis, changes, errors, observed>>

VerdictInit ==
    /\ \E y \in Watched : \E o \in Sick(y) \cup {Healthy} :
          objects = [[x \in Watched |-> Healthy] EXCEPT ![y] = o]
    /\ everWell = {x \in Watched : WellIn(objects, x)}
    /\ hypothesis \in {0, Default}
    /\ now = 0 /\ tick = FALSE /\ cycle = FALSE /\ cycles = 0 /\ todo = <<>>
    /\ phase \in {"poll", "phase2"}  \* with and without knowledge of the component
    /\ steady = [todo |-> Checks, passed |-> 0, done |-> FALSE] /\ collateral = Dependents
    /\ board = <<>> /\ verdict = "none" /\ changes = 0 /\ errors = 0

VerdictStep ==
    \/ StartCycle \/ CheckReconciliationOnce \/ EndCycle \/ NextCycle
    \/ CheckSteadyState \/ SteadyStateContributor \/ CollateralContributor
    \/ RunContributors \/ EvaluateExperiment
VerdictNext == VerdictStep \/ Change \/ Tick

\* The process runs and the clock goes on; no call has to fail.
VerdictFairness == WF_verdictVars(VerdictStep /\ errors' = errors) /\ WF_verdictVars(Tick)
VerdictSpec == VerdictInit /\ [][VerdictNext]_verdictVars /\ VerdictFairness

-----------------------------------------------------------------------------
\* Resilient is said only of a system that had recovered: every managed
\* resource, the object of every steady-state check and every dependent was in
\* order at some moment of the observation, within the time the hypothesis
\* and the cycles the evaluator allow, whatever breaks or is repaired between
\* two looks.  (A reconciliation check that ended with an error is left out.)
VerdictSound ==
    verdict = "Resilient" =>
        /\ Range1(Checks) \cup {d \in Range1(Dependents) : CheckType[d] # "none"} \subseteq everWell
        /\ \A i \in DOMAIN board : board[i].result.given =>
              /\ Range1(Managed) \subseteq everWell
              /\ MaxCycles > 0 => board[i].result.cycles <= MaxCycles
              /\ hypothesis > 0 => board[i].result.time <= hypothesis

\* The verdict is the same in whatever order the concurrent contributors have
\* written their findings, and every one of them has been heard.
OrderIrrelevant ==
    phase = "done" =>
        /\ Cardinality(FindingsBySource(board, "steady_state")) = 1
        /\ Cardinality(FindingsBySource(board, "collateral"))
             = Cardinality({i \in DOMAIN Dependents : CheckType[Dependents[i]] # "none"})
        /\ \A i, j \in DOMAIN board :
              EvaluateFromFindings([board EXCEPT ![i] = board[j], ![j] = board[i]]) = verdict

\* A verdict is reached although the operator may never recover, and whether
\* or not the hypothesis sets a timeout: the deadline ends the polling.
Judged == <>(verdict # "none")
=============================================================================
