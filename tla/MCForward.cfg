SPECIFICATION MCSpec
CONSTANTS
  NumStages = 2
  MaxSteps = 5
INVARIANTS
  TypeOK
  PhaseLag
  NoRace
  CleanExit
PROPERTIES
  NoLostTile
  ImplementsRow
  Termination
