SPECIFICATION Spec
CONSTANTS
  NumGpus = 2
  Priorities = {10, 999}
  MaxJobs = 2
  MaxStops = 0
  HasFiller = TRUE
  HasWait = TRUE
  Broken = {}
INVARIANTS TypeOK OneJobPerGpu WaitSound
PROPERTY EveryJobDone
