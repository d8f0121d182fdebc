\* Two managers that import the same package with one module in it, which may be a directory without __init__.py, one edit; five spellings and two sections; two callers; up to 6 bytes and 4 threads.
SPECIFICATION HSpec
CONSTANTS
  g1 = g1
  g2 = g2
  pkg = pkg
  helper = helper
  x1 = x1
  x2 = x2
  Entry = Entry
  None = None
  NoSection = NoSection
  Generations = {g1, g2}
  Modules = {pkg, helper}
  Package = pkg
  MaxEdition = 1
  Layouts = {{}, {helper}}
  Spellings = {"onebot", "onebot11", "milky", "feishu", "lark"}
  Sections <- SectionsHere
  MaxTried = 2
  Callers = {x1, x2}
  MaxAttempts = 2
  MaxSize = 6
  MaxTasks = 4
INVARIANTS
  CallTypesOK
  Isolation
  NothingLeft
  AdapterIsWhole
  CallsKeepTheirWord
  WholeFile
CHECK_DEADLOCK FALSE
SYMMETRY GenerationSymmetry
