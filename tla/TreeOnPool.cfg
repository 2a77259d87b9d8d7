\* Three keys in nodes of one entry, on a pool of two frames.
SPECIFICATION Spec
CONSTANTS
  Keys = {1, 2, 3}
  Values = {v1}
  Inserts <- InsertAll
  None = None
  MaxLeafEntries = 1
  MaxInternalEntries = 1
  MaxPages = 8
  MaxFailures = 1
  Caller = caller
  Frames = {f1, f2}
  Handles = {h1, h2, h3}
  FileSpace = 0
  PinModulus = 8
  MaxVersion = 20
  MaxStops = 1
INVARIANTS
  TreeSeesItsPages
PROPERTIES
  FramesSuffice
  OldPagesLeftAlone
SYMMETRY Symmetry
ACTION_CONSTRAINT NewsOnly
CHECK_DEADLOCK FALSE
