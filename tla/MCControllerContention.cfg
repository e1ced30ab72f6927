SPECIFICATION FairSpec
CONSTANTS
  e1 = e1
  e2 = e2
  s1 = s1
  s2 = s2
  s3 = s3
  op1 = op1
  op2 = op2
  w1 = w1
  w2 = w2
  None = None
  Experiments = {e1, e2}
  Specs = {s1}
  Operators = {op1}
  OperatorOf <- OneOperator
  SpecOf <- OneSpec
  Workers = {w1}
  StaleReads = FALSE
  StaleLeases = FALSE
  MaxGen = 1
  MaxFailures = 1
PROPERTY Settles
CHECK_DEADLOCK FALSE
