SPECIFICATION Spec
CONSTANTS
  MaxId = 3
  MaxBatch = 2
  HistoryLimit = 2
  Untitled = {1}
INVARIANTS
  TypeOK
  OrderMatchesItems
  CursorIsLive
  SnapshotIsCurrent
PROPERTIES
  PeekAgreesWithAdvance
  EditsKeepUpcoming
  ForwardMovesOn
CHECK_DEADLOCK FALSE
