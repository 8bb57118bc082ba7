SPECIFICATION LiveSpec
CONSTANTS
  Handlers = {h1, h2}
  Limit = 2
  Phases <- MCPhases
INVARIANTS BudgetAndLoad PassedMeansComplete
PROPERTY EventuallyPublished
CHECK_DEADLOCK FALSE
