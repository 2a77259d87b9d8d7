\* Two threads that call whatever they like, in a release build; a caller may
\* name a space that is not the file's.
SPECIFICATION BoundedSpec
CONSTANTS
  Threads = {t1, t2}
  Frames = {f1, f2}
  Handles = {h1}
  None = None
  Spaces = {s0, s1}
  FileSpace = s0
  MaxPages = 2
  InitPages = 1
  MaxVersion = 1
  PinModulus = 3
  OverflowChecks = FALSE
  IOErrors = FALSE
  Crashes = FALSE
  MaxCalls = 7
  Disciplined = FALSE
SYMMETRY Symmetry
CHECK_DEADLOCK FALSE
INVARIANTS
  FreeFramesUntouched
  PagesSelfIdentifying
  ChecksumsValid
  LruDistinct
