SPECIFICATION Spec
CONSTANTS
  ColNeighs = 4
  Calls = 2
  Tables <- SomeTables
INVARIANTS TypeOK FirstHasAll StaysSorted CountFitsTable
