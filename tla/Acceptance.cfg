SPECIFICATION LiveSpec
CONSTANTS
  Ops <- MCOps
  Requests <- MCRequests
  Polling = TRUE
  MaxCount = 1
INVARIANTS PassedMeansWholeRun NoConnectionLeft
PROPERTY EventuallyReported
CHECK_DEADLOCK FALSE
