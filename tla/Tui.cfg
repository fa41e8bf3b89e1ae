SPECIFICATION FairSpec
CONSTANTS
  Tabs = {"tracks"}
  Parts = {"favorites"}
  Kinds = {"artist", "list"}
  Pages = 2
  MaxKeys = 3
  MaxDrops = 2
  MaxNews = 1
INVARIANTS
  TypeOK
  RowsAreTheirOwn
  LoadingIsAwaited
PROPERTIES
  NothingWaitsForEver
CHECK_DEADLOCK FALSE
