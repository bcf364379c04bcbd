SPECIFICATION Spec
CONSTANTS
  NumGpus = 1
  Priorities = {101, 1000}
  MaxJobs = 2
  MaxStops = 0
  HasFiller = FALSE
  HasWait = FALSE
  Broken = {}
PROPERTY PriorityOrder
