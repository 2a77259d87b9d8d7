\* Four frames: a removal can hit the head, the tail, an inner node with two
\* distinct inner neighbours and the only node of the list.
SPECIFICATION Spec
CONSTANTS
  Frames = {f1, f2, f3, f4}
  NoFrame = NoFrame
INVARIANTS
  TypeOK
  LinksMirrored
PROPERTY
  ImplementsRecencyOrder
