SPECIFICATION Spec
CONSTANTS
  NumGpus = 2
  Priorities = {0, 20}
  MaxJobs = 3
  MaxStops = 2
  HasFiller = FALSE
  HasWait = FALSE
  Broken = {3}
INVARIANTS NoJobLost RunsOncePerServe
PROPERTIES PriorityOrder EveryJobDone
