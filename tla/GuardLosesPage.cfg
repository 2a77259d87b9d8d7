\* One frame, two pages: a call that evicts the frame overlaps with a hit on it.
SPECIFICATION Spec
CONSTANTS
  Threads = {t1, t2}
  Frames = {f1}
  Handles = {h1}
  None = None
  Spaces = {s0}
  FileSpace = s0
  MaxPages = 2
  InitPages = 2
  MaxVersion = 1
  PinModulus = 4
  OverflowChecks = TRUE
  IOErrors = FALSE
  Crashes = FALSE
SYMMETRY Symmetry
CHECK_DEADLOCK FALSE
INVARIANTS
  GuardsKeepPage
