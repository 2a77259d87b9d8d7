-------------------------------- MODULE BTree --------------------------------
(***************************************************************************)
(* src/btree/btree.rs over the nodes of BTreeNode.                         *)
(*                                                                         *)
(* insert takes the tree by exclusive reference, so inserts come one after *)
(* another and no search runs beside them.  What interleaves is failure:   *)
(* every fetch_page and new_page may return an error, and what the insert  *)
(* has written by then stays.  A step is what insert does from one pool    *)
(* call that may fail to the next; two calls of which only the second is   *)
(* followed by a write are one step.                                       *)
(*                                                                         *)
(* The pool is a function from page numbers to nodes, which is what        *)
(* PageStore promises to a single caller.                                  *)
(***************************************************************************)
EXTENDS BTreeNode

CONSTANTS
  Keys,                \* keys, compared as the integers they encode
  Values,              \* values
  Inserts,             \* the entries callers insert (bounds them)
  None,                \* Option::None
  MaxLeafEntries,      \* MAX_LEAF_ENTRIES (4 in the code)
  MaxInternalEntries,  \* MAX_INTERNAL_ENTRIES (4 in the code)
  MaxPages,            \* bound on the pages of the tree
  MaxFailures          \* bound on the calls of the pool that fail

ASSUME BTreeAssumption ==
  /\ Keys \subseteq Int
  /\ Inserts \subseteq [key : Keys, val : Values]
  /\ MaxLeafEntries \in Nat \ {0} /\ MaxInternalEntries \in Nat \ {0}
  /\ MaxPages \in Nat \ {0}
  /\ MaxFailures \in Nat
  /\ None \notin Values /\ None \notin Int

VARIABLES
  nodes,       \* page number -> the node stored there
  count,       \* pages allocated
  root,        \* BTree.root_page_no
  pc,          \* what the insert under way does next
  entry,       \* the key and value being inserted
  at,          \* the page insert_recursive has come to
  path,        \* the internal pages above it, the root first
  split,       \* Some((split_key, new_page_no)), on its way up
  failures,    \* calls of the pool that have failed
  expected     \* key -> what a search may find (only for properties)

tree == <<nodes, count, root>>
call == <<entry, at, path, split>>
vars == <<tree, pc, call, failures, expected>>

PageNos == 0 .. MaxPages - 1

-----------------------------------------------------------------------------
\* BTree::new: the root is an empty leaf
Init ==
  /\ nodes = [p \in PageNos |-> IF p = 0 THEN Leaf(<<>>, None, None) ELSE None]
  /\ count = 1 /\ root = 0
  /\ pc = "idle"
  /\ entry = None /\ at = None /\ path = <<>> /\ split = None
  /\ failures = 0
  /\ expected = [k \in Keys |-> {None}]

Idle == pc' = "idle" /\ entry' = None /\ at' = None /\ path' = <<>> /\ split' = None

\* insert returns Ok: from now on the key has the new value
Done ==
  /\ Idle
  /\ expected' = [expected EXCEPT ![entry.key] = {entry.val}]
  /\ UNCHANGED failures

\* insert returns an error: the key may have the new value or what it had
Fail ==
  /\ pc # "idle" /\ failures < MaxFailures
  /\ failures' = failures + 1
  /\ Idle
  /\ expected' = [expected EXCEPT ![entry.key] = @ \cup {entry.val}]
  /\ UNCHANGED tree

Insert(e) ==
  /\ pc = "idle"
  /\ pc' = "visit"
  /\ entry' = e
  /\ at' = root
  /\ UNCHANGED <<tree, path, split, failures, expected>>

-----------------------------------------------------------------------------
(***************************************************************************)
(* insert_recursive, on its way down                                       *)
(***************************************************************************)
Descend ==
  /\ pc = "visit" /\ ~nodes[at].leaf
  /\ path' = Append(path, at)
  /\ at' = FindChild(nodes[at], entry.key)
  /\ UNCHANGED <<tree, pc, entry, split, failures, expected>>

\* A bug: one entry too many fits
NeedsSplitLate(entries) ==
  Found(entries, entry.key) = {} /\ Len(entries) > MaxLeafEntries

\* A key that is in the leaf already needs no room
NeedsSplit(entries) ==
  Found(entries, entry.key) = {} /\ Len(entries) >= MaxLeafEntries

InsertInLeaf ==
  /\ pc = "visit" /\ nodes[at].leaf
  /\ ~NeedsSplit(nodes[at].entries)
  /\ nodes' = [nodes EXCEPT ![at].entries = LeafInserted(@, entry)]
  /\ Done
  /\ UNCHANGED <<count, root>>

LeafIsFull ==
  /\ pc = "visit" /\ nodes[at].leaf
  /\ NeedsSplit(nodes[at].entries)
  /\ pc' = "split_leaf"
  /\ UNCHANGED <<tree, call, failures, expected>>

\* A bug: the new leaf ends the chain
SplitLeafCutsChain ==
  LET old   == nodes[at]
      all   == LeafInserted(old.entries, entry)
      mid   == Len(all) \div 2
      right == SubSeq(all, mid + 1, Len(all))
  IN /\ pc = "split_leaf" /\ count < MaxPages
     /\ nodes' = [nodes EXCEPT
                    ![count] = Leaf(right, at, None),
                    ![at]    = Leaf(SubSeq(all, 1, mid), old.prev, count)]
     /\ count' = count + 1
     /\ split' = [key |-> right[1].key, child |-> count]
     /\ pc' = "ascend"
     /\ UNCHANGED <<root, entry, at, path, failures, expected>>

(***************************************************************************)
(* split_leaf: the upper half, with the new entry counted in, goes to a    *)
(* new page, which is put into the chain behind the old one.               *)
(***************************************************************************)
SplitLeaf ==
  LET old   == nodes[at]
      all   == LeafInserted(old.entries, entry)
      mid   == Len(all) \div 2
      right == SubSeq(all, mid + 1, Len(all))
  IN /\ pc = "split_leaf" /\ count < MaxPages
     /\ nodes' = [nodes EXCEPT
                    ![count] = Leaf(right, at, old.next),
                    ![at]    = Leaf(SubSeq(all, 1, mid), old.prev, count)]
     /\ count' = count + 1
     /\ split' = [key |-> right[1].key, child |-> count]
     /\ pc' = IF old.next = None THEN "ascend" ELSE "relink"
     /\ UNCHANGED <<root, entry, at, path, failures, expected>>

\* A bug: the next leaf still points to the old one
RelinkForgotten ==
  /\ pc = "relink"
  /\ pc' = "ascend"
  /\ UNCHANGED <<tree, call, failures, expected>>

\* The end of split_leaf: the next leaf points back to the new one
Relink ==
  /\ pc = "relink"
  /\ nodes' = [nodes EXCEPT ![nodes[split.child].next].prev = split.child]
  /\ pc' = "ascend"
  /\ UNCHANGED <<count, root, call, failures, expected>>

-----------------------------------------------------------------------------
(***************************************************************************)
(* insert_recursive, on its way up with a split                            *)
(***************************************************************************)
Parent == Last(path)
Full(node) == Len(node.entries) >= MaxInternalEntries

AddToParent ==
  /\ pc = "ascend" /\ path # <<>>
  /\ ~Full(nodes[Parent])
  /\ nodes' = [nodes EXCEPT ![Parent].entries = EntryInserted(@, split)]
  /\ Done
  /\ UNCHANGED <<count, root>>

ParentIsFull ==
  /\ pc = "ascend" /\ path # <<>>
  /\ Full(nodes[Parent])
  /\ pc' = "split_internal"
  /\ UNCHANGED <<tree, call, failures, expected>>

\* A bug: the entry that goes up stays in the right node as well
SplitInternalKeepsMiddle ==
  LET old == nodes[Parent]
      all == EntryInserted(old.entries, split)
      mid == Len(all) \div 2
      up  == all[mid + 1]
  IN /\ pc = "split_internal" /\ count < MaxPages
     /\ nodes' = [nodes EXCEPT
                    ![count]  = Internal(up.child, SubSeq(all, mid + 1, Len(all))),
                    ![Parent] = Internal(old.first, SubSeq(all, 1, mid))]
     /\ count' = count + 1
     /\ split' = [key |-> up.key, child |-> count]
     /\ path' = Front(path)
     /\ pc' = "ascend"
     /\ UNCHANGED <<root, entry, at, failures, expected>>

\* split_internal: the middle entry goes up, its child is the right node's first
SplitInternal ==
  LET old == nodes[Parent]
      all == EntryInserted(old.entries, split)
      mid == Len(all) \div 2
      up  == all[mid + 1]
  IN /\ pc = "split_internal" /\ count < MaxPages
     /\ nodes' = [nodes EXCEPT
                    ![count]  = Internal(up.child, SubSeq(all, mid + 2, Len(all))),
                    ![Parent] = Internal(old.first, SubSeq(all, 1, mid))]
     /\ count' = count + 1
     /\ split' = [key |-> up.key, child |-> count]
     /\ path' = Front(path)
     /\ pc' = "ascend"
     /\ UNCHANGED <<root, entry, at, failures, expected>>

\* The end of insert: the root itself was split
NewRoot ==
  /\ pc = "ascend" /\ path = <<>> /\ count < MaxPages
  /\ nodes' = [nodes EXCEPT ![count] = Internal(root, <<split>>)]
  /\ count' = count + 1
  /\ root' = count
  /\ Done

-----------------------------------------------------------------------------
Continue ==
  \/ Descend \/ InsertInLeaf \/ LeafIsFull
  \/ SplitLeaf \/ Relink
  \/ AddToParent \/ ParentIsFull \/ SplitInternal \/ NewRoot

Next ==
  \/ \E e \in Inserts : Insert(e)
  \/ Continue
  \/ Fail

Spec == Init /\ [][Next]_vars
=============================================================================
