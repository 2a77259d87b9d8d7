\* One frame, two pages; six calls in all, so that all that can hold a call back is a lock.
SPECIFICATION BoundedSpec
CONSTANTS
  Threads = {t1, t2}
  Frames = {f1}
  Handles = {h1}
  None = None
  Spaces = {s0}
  FileSpace = s0
  MaxPages = 2
  InitPages = 2
  MaxVersion = 1
  PinModulus = 4
  OverflowChecks = TRUE
  IOErrors = FALSE
  Crashes = FALSE
  MaxCalls = 6
  Disciplined = FALSE
CHECK_DEADLOCK FALSE
PROPERTIES
  HitReturns
