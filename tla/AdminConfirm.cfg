SPECIFICATION Spec
CONSTANTS
  Request = {r1}
  MaxLimit = 1
  MaxEpoch = 3
INVARIANT PausedUntilConfirmed
