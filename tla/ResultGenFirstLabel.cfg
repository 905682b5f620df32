SPECIFICATION Spec
CONSTANTS
  ProcRows = 2
  ProcCols = 2
  NEntities = 2
  MaxLabels = 6
  Queries <- FirstLabelQuery
  Contents <- AllContents
INVARIANTS JoinComplete
