SPECIFICATION Spec
CONSTANTS
  NumGpus = 1
  Priorities = {10}
  MaxJobs = 1
  MaxStops = 1
  HasFiller = TRUE
  HasWait = FALSE
  Broken = {}
INVARIANT OneJobPerGpu
