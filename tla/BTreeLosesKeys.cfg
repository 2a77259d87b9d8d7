\* One call of the pool fails.
SPECIFICATION Spec
CONSTANTS
  Keys = {1, 2, 3}
  Values = {v1}
  Inserts <- InsertAll
  None = None
  MaxLeafEntries = 2
  MaxInternalEntries = 2
  MaxPages = 6
  MaxFailures = 1
CHECK_DEADLOCK FALSE
INVARIANTS
  SearchFinds
