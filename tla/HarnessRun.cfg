SPECIFICATION LiveSpec
CONSTANTS
  Sessions = {s1, s2, s3}
  Foreign = other
  Pool = 3
INVARIANTS CancelsOwnOnly NothingLeftRunning PassedMeansPhaseDone
PROPERTY EventuallyReported
CHECK_DEADLOCK FALSE
