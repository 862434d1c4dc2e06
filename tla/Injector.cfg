SPECIFICATION FairSpec
CONSTANTS
  Ids = {"e1", "e2"}
  NoEvent = "null"
  Step = 2
  MaxTime = 3
  EventTimes = {0, 1, 2}
  Budget = 3
  ResetOrder <- StopThenPins
  HoldsEvents = FALSE
INVARIANTS OwnedOnce DelayExact TimeWaitsForEvents
PROPERTIES  QueueEmptyAfterReset CallsReturn DueEventRaised
