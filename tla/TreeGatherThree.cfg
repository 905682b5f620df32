SPECIFICATION Spec
CONSTANTS
  ColNeighs = 3
  Calls = 1
  Tables <- AllTables
INVARIANTS FirstHasAll
