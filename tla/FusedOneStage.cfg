SPECIFICATION TwoStepsSpec
CONSTANTS
  NumStages = 1
  NumEw = 2
  MaxSteps = 2
PROPERTIES
  Termination
CHECK_DEADLOCK FALSE
