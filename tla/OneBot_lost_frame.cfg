SPECIFICATION LSpec
CONSTANTS
  c1 = c1
  c2 = c2
  e1 = e1
  e2 = e2
  Started = Started
  NoValue = NoValue
  NoKey = NoKey
  Calls = {c1}
  Events = {e1}
  Retries = 1
  MaxThreads = 2
INVARIANTS
  FramesHandledOnce
CHECK_DEADLOCK FALSE
