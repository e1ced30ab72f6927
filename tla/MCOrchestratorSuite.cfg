SPECIFICATION FairSpec
CONSTANTS
  n1 = n1
  n2 = n2
  op1 = op1
  op2 = op2
  NumRuns = 3
  Parallel = 1
  Cooldown = 1
  Names = {n1, n2}
  NameOf <- DistinctNameOf
  Operators = {op1}
  OperatorOf <- SameOperator
  TTL <- SuiteTTL
  RecoveryTimeout <- SuiteRecoveries
  Timeout = 8
  Distributed = FALSE
  Free = Free
  DefaultLeaseDuration = 1
  CleanupTimeout = 1
  RetryInterval = 1
  RetryAllowance = 2
  Latency = 0
  LastStart = 2
  MaxTime = 40
  MaxFailures = 1
INVARIANT TimeoutSuffices
PROPERTY AllReturn
CHECK_DEADLOCK FALSE
