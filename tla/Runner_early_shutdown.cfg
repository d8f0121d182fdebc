SPECIFICATION RSpec
CONSTANTS
  t1 = t1
  t2 = t2
  t3 = t3
  r1 = r1
  r2 = r2
  NoRunner = NoRunner
  NoThread = NoThread
  Runners = {r1, r2}
  Threads = {t1, t2}
  Exiting = {}
  Asking = {}
INVARIANTS
  ShutdownReclaims
CHECK_DEADLOCK FALSE
