SPECIFICATION FairSpec
CONSTANTS
  Card = "dac"
  Streams = {"speakers", "headset"}
  Fallback = "speakers"
  None = "none"
  MaxSwitches = 1
  MaxOpens = 3
  MaxFailures = 1
  MaxAsks = 1
INVARIANTS
  TypeOK
  OpenIsReserved
  CardIsGivenBack
  ClimbsBack
PROPERTIES
  RouteCatchesUp
CHECK_DEADLOCK FALSE
