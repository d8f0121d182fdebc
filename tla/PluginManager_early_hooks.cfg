SPECIFICATION Spec
CONSTANTS
  m1 = m1
  t1 = t1
  t2 = t2
  t3 = t3
  p1 = p1
  p2 = p2
  p3 = p3
  NoManager = NoManager
  NoTask = NoTask
  Managers = {m1}
  Tasks = {t1, t2}
  Handlers = {t1, t2}
  Plugins = {p1, p2}
  HasSetup = {p1, p2}
  HasShutdown = {p1, p2}
  LoadingSetup = {p1}
  Patient = {}
  CleanupFails = {TRUE, FALSE}
  MaxCallbacks = 2
INVARIANTS
  HooksAfterDrain
