SPECIFICATION Spec
CONSTANTS
  ProcRows = 2
  ProcCols = 2
  Calls = 2
  Lengths = {1, 2, 5, 7}
  Requests <- MCRequests
INVARIANTS TypeOK AnswersRight AskedOnlyForOwn
