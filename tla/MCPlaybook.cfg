SPECIFICATION Spec
CONSTANTS
  Playbooks <- SomePlaybooks
  Operators = {"A", "B"}
  Channels = {1, 2}
  NoOperator = "none"
  MaxRuns <- RunsOf
  MaxFaults = 1
INVARIANT HopsInstalled
INVARIANT StepsDone
INVARIANT ValidatedUpgrade
PROPERTY RollbackRestores
PROPERTY RunReturns
CHECK_DEADLOCK FALSE
