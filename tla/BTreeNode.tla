----------------------------- MODULE BTreeNode -----------------------------
(***************************************************************************)
(* The nodes of src/btree/node.rs and the operations that look at one node *)
(* only.  The entries of a node are in the order of the vector.            *)
(***************************************************************************)
EXTENDS Integers, Sequences, SequencesExt, FiniteSetsExt

Leaf(entries, prev, next) ==
  [leaf |-> TRUE, entries |-> entries, prev |-> prev, next |-> next]

Internal(first, entries) ==
  [leaf |-> FALSE, first |-> first, entries |-> entries]

\* partition_point and the Err of binary_search_by: entries before the key
Before(entries, key) == Cardinality({i \in DOMAIN entries : entries[i].key < key})

\* LeafNode::search
Found(entries, key) == {i \in DOMAIN entries : entries[i].key = key}

\* A bug: a key that is there already is added once more
LeafAdded(entries, e) == InsertAt(entries, Before(entries, e.key) + 1, e)

\* A bug: a key that is there already keeps its value
LeafInsertedOnce(entries, e) ==
  IF Found(entries, e.key) # {} THEN entries
    ELSE InsertAt(entries, Before(entries, e.key) + 1, e)

\* LeafNode::insert
LeafInserted(entries, e) ==
  IF Found(entries, e.key) # {}
    THEN [i \in DOMAIN entries |-> IF entries[i].key = e.key THEN e ELSE entries[i]]
    ELSE InsertAt(entries, Before(entries, e.key) + 1, e)

\* InternalNode::insert_entry
EntryInserted(entries, e) == InsertAt(entries, Before(entries, e.key) + 1, e)

\* A bug: an entry's own key is not below it
FindChildBelow(node, key) ==
  LET n == Before(node.entries, key)
  IN IF n = 0 THEN node.first ELSE node.entries[n].child

\* InternalNode::find_child: the last entry whose key is not above
FindChild(node, key) ==
  LET below == {i \in DOMAIN node.entries : node.entries[i].key <= key}
  IN IF below = {} THEN node.first ELSE node.entries[Max(below)].child
=============================================================================
