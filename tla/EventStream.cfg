SPECIFICATION FairSpec
CONSTANTS
  Tracks = {"t1", "t2"}
  None = "none"
  MaxMoves = 1
  MaxEdits = 1
  MaxBreaks = 1
  EngineBacklog = 1
  Backlog = 1
  Outbox = 1
  ClientBacklog = 1
INVARIANTS
  TypeOK
  AppliedIsShown
PROPERTIES
  NoSilentGap
  CatchesUp
CHECK_DEADLOCK FALSE
