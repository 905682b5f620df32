SPECIFICATION Spec
CONSTANTS
  ElementRange = 2
  Threshold = 2
  MaxNnz = 3
  LateSinglePieces = TRUE
  Matrices <- SmallMatrices
  Vectors <- SmallVectors

PROPERTY ConcatenationRestores
