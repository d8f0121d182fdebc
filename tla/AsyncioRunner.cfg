\* Two threads, two runners; a coroutine that asks for shutdown, one that may raise SystemExit; fair threads.
SPECIFICATION RFairSpec
CONSTANTS
  t1 = t1
  t2 = t2
  t3 = t3
  r1 = r1
  r2 = r2
  NoRunner = NoRunner
  NoThread = NoThread
  Runners = {r1, r2}
  Threads = {t1, t2}
  Exiting = {t2}
  Asking = {t1}
INVARIANTS
  OneLiveLoop
  NothingForgotten
PROPERTIES
  CallerReturns
  ShutdownCompletes
CHECK_DEADLOCK FALSE
