SPECIFICATION Spec
CONSTANTS
  ElementRange = 2
  Threshold = 2
  MaxNnz = 3
  LateSinglePieces = FALSE
  Matrices <- SmallMatrices
  Vectors <- SmallVectors
INVARIANTS TypeOK AuxFindsEveryColumn DataIsSorted NoRacingMarks
PROPERTY ImplementsSparseMatrix
