\* The listeners, send paths and token of three adapters, one at a time; fair threads.
SPECIFICATION HSpec
CONSTANTS
  c1 = c1
  e1 = e1
  f1 = f1
  f2 = f2
  d1 = d1
  d2 = d2
  d3 = d3
  r1 = r1
  r2 = r2
  Started = Started
  NoValue = NoValue
  NoKey = NoKey
  Never = Never
  Calls = {c1}
  Events = {e1}
  Retries = 1
  MaxThreads = 2
  Texts <- TextsHere
  Limit = 4
  RecoveryLimit = 2
  Attempts = 2
  MaxFaults = 3
  ConnectRetries = 1
  MaxFrames = 2
  Callbacks = {d1, d2, d3}
  FEvents = {f1, f2}
  Unidentified = {f2}
  Retention = 0
  MaxTime = 1
  Clients = {r1, r2}
  Lives = {3, 5}
  Shortest = 3
  Life = 5
  Skew = 3
  MaxDelay = 1
  MaxInstant = 4
  MaxParts = 3
INVARIANTS
  AdapterTypesOK
  OwnAnswer
  SendsWhole
  RepeatIsIgnored
  TokenInTime
PROPERTIES
  RunsEndDuly
  CallsEnd
CHECK_DEADLOCK FALSE
