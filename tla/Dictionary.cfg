SPECIFICATION Spec
CONSTANTS
  ProcRows = 2
  ProcCols = 2
  Labels = {0, 1, 2, 3, 4}
  HashRange = 5
  Hashes <- SomeHashes
  KeySets <- SomeKeySets
INVARIANTS TypeOK SameNumbering IndicesInPlace MapperIsInverse
