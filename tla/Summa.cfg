SPECIFICATION Spec
CONSTANTS
  N = 2
  Eager = TRUE
  ClearA = TRUE
  ClearB = FALSE
  Inputs <- MCInputs
INVARIANTS TypeOK CollectivesMatch OperandsMatch InputsSurvive OnlyUnmultipliedLeft
PROPERTY ImplementsSpGEMM
