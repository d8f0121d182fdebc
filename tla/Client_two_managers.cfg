\* Two managers without plugins: reloads, closings and direct calls of two tasks.
SPECIFICATION ClientSpec
CONSTANTS
  m1 = m1
  m2 = m2
  t1 = t1
  t2 = t2
  p1 = p1
  p2 = p2
  NoManager = NoManager
  NoTask = NoTask
  Managers = {m1, m2}
  Plugins = {}
  Tasks = {t1, t2}
  Handlers = {t1}
  HasSetup = {}
  HasShutdown = {}
  LoadingSetup = {}
  Patient = {}
  CleanupFails = {FALSE}
  MaxCallbacks = 1
  Rank <- RankOfTwo
INVARIANTS
  SingleCloser
  NoLockCycle
PROPERTIES
  CloserKeepsManager
