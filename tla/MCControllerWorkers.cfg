SPECIFICATION Spec
CONSTANTS
  e1 = e1
  e2 = e2
  s1 = s1
  s2 = s2
  s3 = s3
  op1 = op1
  op2 = op2
  w1 = w1
  w2 = w2
  None = None
  Experiments = {e1}
  Specs = {s1, s2, s3}
  Operators = {op1, op2}
  OperatorOf <- TwoOperators
  SpecOf <- OneSpec
  Workers = {w1, w2}
  StaleReads = TRUE
  StaleLeases = FALSE
  MaxGen = 2
  MaxFailures = 0
INVARIANT AtMostOneInjection
PROPERTY NeverBackwards
PROPERTY EditAborts
SYMMETRY WorkerSymmetry
CHECK_DEADLOCK FALSE
