\* Two plugins of folders and a built-in one, every graph of requirements, two calls; two passes of the old loader; two managers with two matchers.
SPECIFICATION HSpec
CONSTANTS
  p1 = p1
  p2 = p2
  p3 = p3
  f1 = f1
  f2 = f2
  c1 = c1
  c2 = c2
  m1 = m1
  m2 = m2
  x1 = x1
  x2 = x2
  t1 = t1
  Nobody = Nobody
  Plugins = {p1, p2, p3}
  Builtin = {p3}
  MaxCalls = 2
  Entries = {f1, f2}
  Passes = {c1, c2}
  Managers = {m1, m2}
  PluginIds = {p1, p2}
  Matchers = {x1, x2}
  EventTasks = {t1}
  MaxHandlers = 2
  MaxNesting = 2
INVARIANTS
  PluginTypesOK
  LoadExact
  Diagnosed
  EachEntryOnce
  HandlersAreOwn
PROPERTIES
  LoadReturns
CHECK_DEADLOCK FALSE
