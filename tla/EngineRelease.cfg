SPECIFICATION Spec
CONSTANTS
  a = a
  b = b
  c = c
  cd = cd
  hires = hires
  none = none
  any = any
  Tracks <- MCTracks
  Formats <- MCFormats
  None <- none
  Any <- any
  Format <- MCFormat
  SeekMode <- MCSeekMode
  MaxGeneration = 3
  MaxPrefetch = 2
  MaxOwed = 2
PROPERTIES
  ReleasePauses
CHECK_DEADLOCK FALSE
