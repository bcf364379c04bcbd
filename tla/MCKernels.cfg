SPECIFICATION MCSpec
CONSTANTS
  NumStages = 2
  NumEw = 2
  MaxSteps = 5
INVARIANTS
  TypeOK
  PhaseLag
  NoRace
  Deterministic
  CleanExit
  CodeOrdered
PROPERTIES
  ImplementsRows
  Termination
