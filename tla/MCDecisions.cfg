SPECIFICATION DecisionsSpec
CONSTANTS
  Types <- AllTypes
  Params <- ParamsOf
  Surroundings <- Around
  ClusterKinds <- KindsOutsideNamespaces
  MaxPods = 3
  Inputs <- AllInputs
  Managed <- TwoManaged
  Checks <- TwoChecks
  Dependents <- TwoDependents
  CheckType <- CheckTypes
  Interval = 2
  Default = 3
  MaxCycles = 1
  MaxTime = 4
  MaxChanges = 1
  MaxErrors = 1
INVARIANT WithinBlastRadius
INVARIANT ProtectedUntouched
INVARIANT SequenceSound
INVARIANT VerdictSound
INVARIANT OrderIrrelevant
PROPERTY Judged
CHECK_DEADLOCK FALSE
