SPECIFICATION FairSpec
CONSTANTS
  NumSlots = 3
  Services <- MCServices
  NoService = "none"
  NumPins = 1
  Modes <- MCRising
  DirectCalls <- MCDirectCalls
INVARIANTS NoDuplicateService PumpNotReentered
PROPERTIES ImplementsYieldServices ServiceCalled
