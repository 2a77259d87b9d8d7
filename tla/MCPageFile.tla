----------------------------- MODULE MCPageFile -----------------------------
(***************************************************************************)
(* Instances of PageFile for TLC.                                          *)
(***************************************************************************)
EXTENDS PageFile

Bytes(n) == [i \in 1 .. n |-> 7]
LeafEntry(n, length) == [key |-> KeyFrom(n), val |-> Bytes(length)]
Header == Len(Serialize(Leaf(<<LeafEntry(1, 0)>>, None, None)))

(***************************************************************************)
(* A leaf with links and keys that differ in each byte, an internal node,  *)
(* a leaf that fills the page, and leaves that do not fit: by one byte,    *)
(* and by so much that the length no longer fits either.                   *)
(***************************************************************************)
SomeNodes ==
  { Leaf(<<LeafEntry(ByteModulus - 1, 1), LeafEntry(ByteModulus, 0)>>, None, 1),
    Internal(1, <<[key |-> KeyFrom(2), child |-> 0]>>),
    Leaf(<<LeafEntry(1, DataSize - Header)>>, 0, None),
    Leaf(<<LeafEntry(1, DataSize - Header + 1)>>, None, None),
    Leaf(<<LeafEntry(1, LenModulus)>>, None, None) }

\* Over pages of zeros and of the largest length, mixed in every way
ASSUME ReadBackAssumption ==
  \A node \in SomeNodes, data \in [1 .. DataSize -> {0, LenModulus - 1}] :
    ReadsBack(node, data)
=============================================================================
