SPECIFICATION Spec
CONSTANTS
  MaxId = 4
  MaxBatch = 4
  HistoryLimit = 3
  Untitled = {}
INVARIANTS
  PreviousLeavesCurrent
CHECK_DEADLOCK FALSE
