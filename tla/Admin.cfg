SPECIFICATION FairSpec
CONSTANTS
  Request = {r1, r2}
  MaxLimit = 1
  MaxEpoch = 3
INVARIANTS SwitchOwned PausedUnlessGivenUp MaintenanceExclusive SlotsSuffice
PROPERTIES ImplementsGateway MaintenanceEnds PlaceReturned
