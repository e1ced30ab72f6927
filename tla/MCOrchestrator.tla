--------------------------- MODULE MCOrchestrator ---------------------------
(* Instances of Orchestrator for TLC. *)
EXTENDS Orchestrator

CONSTANTS n1, n2, op1, op2

DistinctNameOf == [r \in Runs |-> IF r = 1 THEN n1 ELSE n2]
SameOperator == [r \in Runs |-> op1]
WithTTL == [r \in Runs |-> 1]
ShortRecovery == [r \in Runs |-> 1]
\* The third file would fit its timeout only without the retry allowance.
SuiteTTL == [r \in Runs |-> IF r = 2 THEN 0 ELSE 1]
SuiteRecoveries == [r \in Runs |-> IF r = 3 THEN 3 ELSE 2]
=============================================================================
