\* One thread and one frame; the page asked for is past the end of the file.
SPECIFICATION Spec
CONSTANTS
  Threads = {t1}
  Frames = {f1}
  Handles = {h1}
  None = None
  Spaces = {s0}
  FileSpace = s0
  MaxPages = 2
  InitPages = 1
  MaxVersion = 1
  PinModulus = 4
  OverflowChecks = TRUE
  IOErrors = FALSE
  Crashes = FALSE
CHECK_DEADLOCK FALSE
PROPERTIES
  FullMeansPinned
