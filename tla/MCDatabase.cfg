SPECIFICATION MCSpec
CONSTANTS
  MaxKeys = 6
  DelaySplit = TRUE
  KeyCount = 150
  Values = {"a", "b"}
  CacheSize = 7
  OptimizeNum = 7
  Parts = {"calls", "db"}
  Starts <- MCStarts
  Careful = TRUE
  Slices <- AllAndMiddle
  MaxSteps = 3
  Free = 2
INVARIANTS
  TreesIntact
  CallsIntact
PROPERTIES
  IsItemStore
  DbIsItemStore
  ScansFollowOrder
\* the clients of a database stop after their last call
CHECK_DEADLOCK FALSE
