SPECIFICATION FairSpec
CONSTANTS
  NumSlots = 1
  Services = {"wifi"}
  NoService = "none"
  NumPins = 2
  Modes <- MCAllModes
  DirectCalls = {}
INVARIANT HandlerNotReentered
PROPERTIES EdgeFiresOnce EdgeReported
