SPECIFICATION TimingSpec
CONSTANTS
  Poll = 2
  Timeouts = {0, 1, 3}
  Initial = 2
  Environments = {unset, 1}
  NoValue = unset
  MaxNow = 5
  Slice = 3
  MaxWait = 10
  MaxPump = 4
  MaxLate = 2
  Threads = {main, injector}
  Idle = idle
  Wrap = 4
  MaxTime = 6
CHECK_DEADLOCK FALSE
INVARIANTS DetectedWithinPoll FedInTimeNoExpiry  OneEpoch
PROPERTIES FiresOncePerArming  TimeKept WaitEnds
