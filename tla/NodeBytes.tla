----------------------------- MODULE NodeBytes -----------------------------
(***************************************************************************)
(* How the nodes of src/btree/node.rs and the keys of src/btree/key.rs     *)
(* become the data of a page (write_data of src/page/page.rs) and are read *)
(* back.  The data of a page is a sequence of cells.  An integer field is  *)
(* one cell, whatever its width, and so is a byte of a key or a value.     *)
(* Keys and values are sequences of bytes.                                 *)
(***************************************************************************)
EXTENDS BTreeNode

CONSTANTS
  None,          \* Option::None, and in place of a node: the code panics
  DataSize,      \* cells of a page's data (16338 bytes in the code)
  LenModulus,    \* lengths and counts are u16 (2^16 in the code)
  PageModulus,   \* page numbers are u32 (2^32 in the code)
  KeyWidth,      \* bytes of a key made from a number (8 in the code)
  ByteModulus    \* values of a byte (256 in the code)

ASSUME NodeBytesAssumption ==
  /\ DataSize \in Nat /\ DataSize > 3
  /\ LenModulus \in Nat /\ DataSize < LenModulus
  /\ {PageModulus, KeyWidth, ByteModulus} \subseteq Nat \ {0}

NodeTypeInternal == 1
NodeTypeLeafZero == 0    \* a bug: the same as no node at all
NodeTypeLeaf == 2
PageNoNone == PageModulus - 1

-----------------------------------------------------------------------------
Digit(n, i) == (n \div ByteModulus ^ i) % ByteModulus

\* A bug: the bytes of a number the other way round
KeyFromLittleEndian(n) == [i \in 1 .. KeyWidth |-> Digit(n, i - 1)]

\* Key::from_u64
KeyFrom(n) == [i \in 1 .. KeyWidth |-> Digit(n, KeyWidth - i)]

\* Key::as_u64
NumberOf(key) ==
  IF Len(key) # KeyWidth THEN None
  ELSE FoldLeft(LAMBDA n, byte : n * ByteModulus + byte, 0, key)

\* Ord for Key, that of Vec<u8>: the first different byte decides, or the end
KeyBefore(a, b) ==
  \E i \in 1 .. Len(b) :
    /\ IsPrefix(SubSeq(b, 1, i - 1), a)
    /\ i > Len(a) \/ a[i] < b[i]

-----------------------------------------------------------------------------
PageNoCell(p) == IF p = None THEN PageNoNone ELSE p
CellPageNo(c) == IF c = PageNoNone THEN None ELSE c

\* Key::serialize_into, and the same for a value
Prefixed(bytes) == <<Len(bytes) % LenModulus>> \o bytes

\* serialize
Serialize(node) ==
  IF node.leaf
    THEN <<NodeTypeLeaf, PageNoCell(node.prev), PageNoCell(node.next),
           Len(node.entries) % LenModulus>>
         \o FlattenSeq([i \in DOMAIN node.entries |->
                          Prefixed(node.entries[i].key) \o Prefixed(node.entries[i].val)])
    ELSE <<NodeTypeInternal, node.first, Len(node.entries) % LenModulus>>
         \o FlattenSeq([i \in DOMAIN node.entries |->
                          Prefixed(node.entries[i].key) \o <<node.entries[i].child>>])

\* Key::deserialize_from; a slice that ends behind the data panics
BytesAt(data, at) ==
  IF at > Len(data) \/ at + data[at] > Len(data) THEN None
  ELSE SubSeq(data, at + 1, at + data[at])

\* The entry at a position and the position behind it
LeafEntryAt(data, at) ==
  LET key == BytesAt(data, at)
      val == BytesAt(data, at + 1 + Len(key))
  IN IF key = None \/ val = None THEN None
     ELSE [entry |-> [key |-> key, val |-> val], end |-> at + 2 + Len(key) + Len(val)]

InternalEntryAt(data, at) ==
  LET key == BytesAt(data, at)
      mid == at + 1 + Len(key)
  IN IF key = None \/ mid > Len(data) THEN None
     ELSE [entry |-> [key |-> key, child |-> data[mid]], end |-> mid + 1]

EntryAt(data, at) ==
  IF data[1] = NodeTypeLeaf THEN LeafEntryAt(data, at) ELSE InternalEntryAt(data, at)

\* The loop over the entries
EntriesFrom(data, start, count) ==
  LET from[n \in 0 .. count, at \in Nat] ==
        IF n = 0 THEN <<>>
        ELSE LET e == EntryAt(data, at) IN
             IF e = None THEN None
             ELSE LET rest == from[n - 1, e.end] IN
                  IF rest = None THEN None ELSE <<e.entry>> \o rest
  IN from[count, start]

\* deserialize
Deserialize(data) ==
  LET leaf == EntriesFrom(data, 5, data[4])
      internal == EntriesFrom(data, 4, data[3])
  IN IF data[1] = NodeTypeLeaf /\ leaf # None
       THEN Leaf(leaf, CellPageNo(data[2]), CellPageNo(data[3]))
     ELSE IF data[1] = NodeTypeInternal /\ internal # None
       THEN Internal(data[2], internal)
     ELSE None

-----------------------------------------------------------------------------
\* write_data at offset 0, when it does not return OutOfBounds
Fits(bytes) == Len(bytes) <= DataSize

\* What was there behind the new bytes stays
Overwritten(data, bytes) ==
  [i \in DOMAIN data |-> IF i <= Len(bytes) THEN bytes[i] ELSE data[i]]
=============================================================================
