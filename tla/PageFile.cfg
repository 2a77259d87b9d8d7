\* Two pages of fourteen cells in two sectors, and any two faults.
SPECIFICATION Spec
CONSTANTS
  None = None
  DataSize = 14
  LenModulus = 16
  PageModulus = 8
  KeyWidth = 2
  ByteModulus = 4
  Nodes <- SomeNodes
  Cuts = {7}
  MaxPages = 2
  MaxWrites = 3
  MaxFaults = 2
INVARIANTS
  TypeOK
  NodesReadBack
  IntactMeansStored
  KeysInOrder
  WrittenInPlace
  DurableSurvives
PROPERTIES
  NewPagesWhole
