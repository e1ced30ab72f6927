SPECIFICATION Spec
CONSTANTS
  r1 = r1
  r2 = r2
  n1 = n1
  n2 = n2
  Free = Free
  Runs = {r1, r2}
  Names = {n1, n2}
  NameOf <- TwoNames
  Want <- TwoWants
  MinDuration = 1
  Cached = {r2}
  MaxTime = 3
  MaxVersions = 5
INVARIANT LeaseInv
INVARIANT OneRunPerOperator
PROPERTY NoForeignDelete
PROPERTY ImplementsLock
CHECK_DEADLOCK FALSE
