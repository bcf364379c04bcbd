SPECIFICATION Spec
CONSTANTS
  NumGpus = 1
  Priorities = {10}
  MaxJobs = 2
  MaxStops = 1
  HasFiller = FALSE
  HasWait = TRUE
  Broken = {}
INVARIANT WaitSound
