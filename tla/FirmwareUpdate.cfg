SPECIFICATION LiveSpec
CONSTANTS
  Size = 2
  Off = Off
CHECK_DEADLOCK FALSE
INVARIANTS AlwaysBootable PassedMeansSettled
PROPERTIES EndsSettled
