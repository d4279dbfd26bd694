SPECIFICATION MCSpec
CONSTANTS
  NumThreads <- Pipeline
  Dest <- PipelineDest
  Emits <- PipelineEmits
  LooksUp = {2}
  QueueCap = 1
  CanFail = TRUE
  Requests = {r1, r2, r3}
  NoTimer = NoTimer
  Delays = {0, 1}
  Lap = 2
  Polling = 1
  Idle = 2
  MaxBehind = 2
INVARIANTS
  TypeOK
  RunsInWholeStage
  DeletesOnlyTheQuiet
  LeftBehindCameLate
  WheelKeepsTime
PROPERTIES
  QueuesAreChannels
  TimeoutsArrive
\* the pipeline ends in "done", and may hang in stop_all; the timer stage
\* may be stopped, or wait for the other for ever
CHECK_DEADLOCK FALSE
