---------------------------- MODULE MCController ----------------------------
(* Instances of Controller for TLC. *)
EXTENDS Controller, TLC

CONSTANTS e1, e2, s1, s2, s3, op1, op2, w1, w2

\* All specs are about one operator, or s3 is about another one.
OneOperator == [s \in Specs |-> op1]
TwoOperators == [s \in Specs |-> IF s = s3 THEN op2 ELSE op1]

\* All experiments are created from one spec.
OneSpec == [e \in Experiments |-> s1]

\* The workers are alike.
WorkerSymmetry == Permutations(Workers)
=============================================================================
