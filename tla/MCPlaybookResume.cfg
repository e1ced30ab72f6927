SPECIFICATION Spec
CONSTANTS
  Playbooks <- HopsOnly
  Operators = {"A", "B"}
  Channels = {1, 2}
  NoOperator = "none"
  MaxRuns <- RunsOf
  MaxFaults = 0
INVARIANT HopsCompleted
CHECK_DEADLOCK FALSE
