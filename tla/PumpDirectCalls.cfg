SPECIFICATION Spec
CONSTANTS
  NumSlots = 1
  Services = {"wifi"}
  NoService = "none"
  NumPins = 1
  Modes <- MCEdgeModes
  DirectCalls = {"check"}
INVARIANT HandlerNotReentered
