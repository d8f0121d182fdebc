\* One manager, a plugin whose setup hook loads another without hooks; fair tasks.
SPECIFICATION ClientFairSpec
CONSTANTS
  m1 = m1
  m2 = m2
  t1 = t1
  t2 = t2
  p1 = p1
  p2 = p2
  NoManager = NoManager
  NoTask = NoTask
  Managers = {m1}
  Plugins = {p1, p2}
  Tasks = {t1, t2}
  Handlers = {t1}
  HasSetup = {p1}
  HasShutdown = {p1}
  LoadingSetup = {p1}
  Patient = {}
  CleanupFails = {FALSE}
  MaxCallbacks = 1
  Rank <- RankOfOne
INVARIANTS
  ClientTypeOK
PROPERTIES
  CallsReturn
  ShutdownReturns
