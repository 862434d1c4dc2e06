SPECIFICATION FairSpec
CONSTANTS
  Ids = {"e1", "e2"}
  NoEvent = "null"
  Step = 2
  MaxTime = 1
  EventTimes = {0, 1}
  Budget = 2
  ResetOrder <- StopThenPins
  HoldsEvents = TRUE
CHECK_DEADLOCK FALSE
PROPERTY ResetReturns
