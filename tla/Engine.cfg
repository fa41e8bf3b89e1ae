SPECIFICATION FairSpec
CONSTANTS
  a = a
  b = b
  c = c
  cd = cd
  hires = hires
  none = none
  any = any
  Tracks <- MCTracks
  Formats <- MCFormats
  None <- none
  Any <- any
  Format <- MCFormat
  SeekMode <- MCSeekMode
  MaxGeneration = 4
  MaxPrefetch = 2
  MaxOwed = 2
INVARIANTS
  TypeOK
  EventsFollowTheListener
  StatusIsCurrent
  DevicePauseIsKnown
  SourceIsOfCurrent
  QuestionsAreOpen
  AskersAreAnswered
  ThreadIsConsistent
PROPERTIES
  WaitsEnd
CHECK_DEADLOCK FALSE
