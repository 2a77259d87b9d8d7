\* Nodes of two entries: seven keys reach a tree of three levels, in which an
\* internal node below the root is split too.  Any call of the pool fails.
SPECIFICATION Spec
CONSTANTS
  Keys = {1, 2, 3, 4, 5, 6, 7}
  Values = {v1, v2}
  Inserts <- InsertSome
  None = None
  MaxLeafEntries = 2
  MaxInternalEntries = 2
  MaxPages = 14
  MaxFailures = 1
INVARIANTS
  TypeOK
  SearchNeverStale
  ScanMatchesSearch
  ChainMirrored
  ChainKeepsInserts
  Balanced
PROPERTIES
  ImplementsOrderedMap
ACTION_CONSTRAINT NewsOnly
