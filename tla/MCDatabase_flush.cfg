SPECIFICATION MCSpec
CONSTANTS
  MaxKeys = 6
  DelaySplit = TRUE
  KeyCount = 150
  Values = {"a", "b"}
  CacheSize = 7
  OptimizeNum = 100
  Parts = {"db"}
  Starts <- JustTwoLeaves
  Careful = FALSE
  Slices <- AllAndMiddle
  MaxSteps = 3
  Free = 0
PROPERTIES
  FlushWritesAll
CHECK_DEADLOCK FALSE
