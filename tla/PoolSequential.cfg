\* One caller, which holds up to two guards, with a file that outgrows the pool;
\* any file operation may fail and the process may stop at any step.
SPECIFICATION FairSpec
CONSTANTS
  Threads = {t1}
  Frames = {f1, f2}
  Handles = {h1, h2}
  None = None
  Spaces = {s0}
  FileSpace = s0
  MaxPages = 3
  InitPages = 2
  MaxVersion = 1
  PinModulus = 4
  OverflowChecks = TRUE
  IOErrors = TRUE
  Crashes = TRUE
INVARIANTS
  TypeOK
  GuardsKeepPage
  PinsCountGuards
  GuardsSeeLatest
  TableMatchesFrames
  CleanMeansOnDisk
PROPERTIES
  ImplementsPageStore
  CallsReturn
ACTION_CONSTRAINT ReadOnly
