SPECIFICATION FollowLiveSpec
CONSTANTS
  MaxPrompts = 2
  MaxLog = 4
  MaxChunks = 1
  MaxWire = 2
  MaxFaults = 1
INVARIANTS GaplessMeansComplete ReturnsOwnTurn DecidedOnce
PROPERTY WaitEnds
CHECK_DEADLOCK FALSE
