SPECIFICATION FairSpec
CONSTANTS
  e1 = e1
  e2 = e2
  s1 = s1
  s2 = s2
  s3 = s3
  op1 = op1
  op2 = op2
  w1 = w1
  w2 = w2
  None = None
  Experiments = {e1}
  Specs = {s1}
  Operators = {op1}
  OperatorOf <- OneOperator
  SpecOf <- OneSpec
  Workers = {w1}
  StaleReads = TRUE
  StaleLeases = TRUE
  MaxGen = 1
  MaxFailures = 2
PROPERTY Settles
PROPERTY FaultsEnd
CHECK_DEADLOCK FALSE
