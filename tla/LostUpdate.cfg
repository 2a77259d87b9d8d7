\* One page and as many frames as there are calls at a time: nothing is evicted.
SPECIFICATION Spec
CONSTANTS
  Threads = {t1, t2}
  Frames = {f1, f2}
  Handles = {h1}
  None = None
  Spaces = {s0}
  FileSpace = s0
  MaxPages = 1
  InitPages = 1
  MaxVersion = 1
  PinModulus = 4
  OverflowChecks = TRUE
  IOErrors = FALSE
  Crashes = FALSE
SYMMETRY Symmetry
CHECK_DEADLOCK FALSE
INVARIANTS
  GuardsSeeLatest
