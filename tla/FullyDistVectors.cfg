SPECIFICATION Spec
CONSTANTS
  ProcRows = 2
  ProcCols = 2
  ElementRange = 10
  Sparses <- SmallSparses
  Denses <- SmallDenses
  Matrices <- SmallMatrices
  Arrays <- SmallArrays
INVARIANTS TypeOK PutsDisjoint
PROPERTY ImplementsGlobal
