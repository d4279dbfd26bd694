SPECIFICATION MCSpec
CONSTANTS
  NumThreads <- FanIn
  Dest <- FanInDest
  Emits <- FanInEmits
  LooksUp = {1}
  QueueCap = 1
  CanFail = TRUE
  t1 = t1
  t2 = t2
  Base = 2
  NoTimer = NoTimer
  Delays <- AllDelays
PROPERTIES
  CreationEnds
  EventsEnd
  StoppingEnds
  TimersEnd
\* the stages end in "done", and may hang in stop_all
CHECK_DEADLOCK FALSE
