SPECIFICATION Spec
CONSTANTS
  Length <- MCLength
  SeekMode <- MCSeekMode
  Segment = 2
  Ahead = 1
  Chunk = 2
  Period = 1
  Capacity = 2
  Target = 2
  Silence = 1
  Dropped = 1
  MaxCommands = 2
  MaxFailures = 1
INVARIANT
  AudioSetAsideIsPlayed
CHECK_DEADLOCK FALSE
