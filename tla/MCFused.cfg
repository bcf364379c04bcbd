SPECIFICATION MCSpec
CONSTANTS
  NumStages = 2
  NumEw = 2
  MaxSteps = 5
INVARIANTS
  TypeOK
  PhaseLag
  NoRace
  GradientsExact
  CleanExit
PROPERTIES
  Termination
