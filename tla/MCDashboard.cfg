SPECIFICATION Spec
CONSTANTS
  Experiments = {"e", "f"}
  Viewers = {"v"}
  QueueSize = 1
  BufferSize = 1
  MaxTime = 1
  MaxChanges = 4
INVARIANT NoPanic
INVARIANT GetShowsCurrent
PROPERTY SyncReturns
PROPERTY ViewersLetGo
CHECK_DEADLOCK FALSE
