SPECIFICATION CleanSpec
CONSTANTS
  Cases <- AllCases
  MaxFailures = 1
  MaxEdits = 1
  MaxInjections = 2
INVARIANT OnlyExcused
INVARIANT Recoverable
PROPERTY CleanRestores
PROPERTY RevertRestores
PROPERTY ForeignKept
CHECK_DEADLOCK FALSE
