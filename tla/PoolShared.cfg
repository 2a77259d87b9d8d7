\* Two threads that keep to InPlace: nothing is evicted and no page is loaded
\* twice at a time.
SPECIFICATION BoundedSpec
CONSTANTS
  Threads = {t1, t2}
  Frames = {f1, f2}
  Handles = {h1}
  None = None
  Spaces = {s0}
  FileSpace = s0
  MaxPages = 2
  InitPages = 1
  MaxVersion = 2
  PinModulus = 5
  OverflowChecks = TRUE
  IOErrors = FALSE
  Crashes = FALSE
  MaxCalls = 7
  Disciplined = TRUE
INVARIANTS
  GuardsKeepPage
  PinsCountGuards
  GuardsSeeLatest
  CleanMeansOnDisk
  FramesAccounted
PROPERTIES
  CallsReturn
