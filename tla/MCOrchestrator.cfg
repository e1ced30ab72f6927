SPECIFICATION Spec
CONSTANTS
  n1 = n1
  n2 = n2
  op1 = op1
  op2 = op2
  NumRuns = 2
  Parallel = 2
  Cooldown = 0
  Names = {n1, n2}
  NameOf <- DistinctNameOf
  Operators = {op1}
  OperatorOf <- SameOperator
  TTL <- WithTTL
  RecoveryTimeout <- ShortRecovery
  Timeout = 6
  Distributed = TRUE
  Free = Free
  DefaultLeaseDuration = 1
  CleanupTimeout = 1
  RetryInterval = 1
  RetryAllowance = 2
  Latency = 0
  LastStart = 4
  MaxTime = 20
  MaxFailures = 2
INVARIANT RunInv
INVARIANT FaultUnderLock
INVARIANT CleanedUp
INVARIANT JudgedRecovered
PROPERTY LocksKept
CHECK_DEADLOCK FALSE
