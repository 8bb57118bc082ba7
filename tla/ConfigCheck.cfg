SPECIFICATION CheckSpec
CONSTANTS
  Times <- MCTimes
  Values <- MCValues
  NoAccess <- MCNoAccess
  Default <- MCDefault
  NotRead = NotRead
INVARIANTS RunsWhatIsStored PassedMeansRestored
PROPERTIES PersistedWasTried EventuallyQuiet
CHECK_DEADLOCK FALSE
