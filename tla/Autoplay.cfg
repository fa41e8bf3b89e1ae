SPECIFICATION FairSpec
CONSTANTS
  Local = {1}
  MaxEntries = 3
  MaxRequests = 3
  MaxFetches = 3
INVARIANTS
  TypeOK
  StaysSilent
PROPERTIES
  GoesOn
  RadioFollowsItsEntry
  SkipsTheRemoved
CHECK_DEADLOCK FALSE
