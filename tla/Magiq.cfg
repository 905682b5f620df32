SPECIFICATION ProgramsSpec
CONSTANTS
  ProcRows = 2
  ProcCols = 2
  NEntities = 5
  ElementRange = 256
  MaxLabels = 6
  MaxRepeat = 2
  Inputs <- MCInputs
  Renumberings <- MCRenumberings
  Pos <- MCPos
  LubmInputs <- LubmInputsMC
  Scripts <- MCScripts
INVARIANTS TypeOK NoAnswerLost ExactAnswers DiagonalCovers KeysAligned
CHECK_DEADLOCK FALSE
