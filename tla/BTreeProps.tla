----------------------------- MODULE BTreeProps -----------------------------
(***************************************************************************)
(* What search and range_scan of src/btree/btree.rs return, and what the   *)
(* tree should guarantee about it.                                         *)
(***************************************************************************)
EXTENDS BTree, Functions, TLC

MaybePage == PageNos \cup {None}

\* find_leaf: its loop comes to a leaf after at most one round per page
Downward(key) ==
  [p \in PageNos |-> IF nodes[p].leaf THEN p ELSE FindChild(nodes[p], key)]

FindLeaf(key) ==
  LET downward == Downward(key)
      page[i \in 0 .. count] == IF i = 0 THEN root ELSE downward[page[i - 1]]
  IN page[count]

Search(key) ==
  LET entries == nodes[FindLeaf(key)].entries
      found   == Found(entries, key)
  IN IF found = {} THEN None ELSE entries[Max(found)].val

\* The loop of range_scan: the leaves from page p on, along next_page_no, and
\* their entries
Extended(chain) ==
  LET next == nodes[Last(chain)].next
  IN IF next = None THEN chain ELSE Append(chain, next)

ChainFrom(p) ==
  LET chain[i \in 1 .. count] == IF i = 1 THEN <<p>> ELSE Extended(chain[i - 1])
  IN chain[count]

Chained(p) ==
  LET chain == ChainFrom(p)
  IN FlattenSeq([i \in DOMAIN chain |-> nodes[chain[i]].entries])

\* What the filter lets through is pushed to the results, entry by entry
Pushed(results, e, start, end) ==
  IF start <= e.key /\ e.key <= end THEN Append(results, e) ELSE results

Within(entries, start, end) ==
  LET results[i \in 0 .. Len(entries)] ==
        IF i = 0 THEN <<>> ELSE Pushed(results[i - 1], entries[i], start, end)
  IN results[Len(entries)]

RangeScan(start, end) == Within(Chained(FindLeaf(start)), start, end)

-----------------------------------------------------------------------------
Entry == [key : Keys, val : Values]
ChildEntry == [key : Keys, child : PageNos]

\* An Option is None or something else
ASSUME NoneAssumption == None \notin Entry \cup ChildEntry

\* A node of the kind and size it may have
LeafNode == [leaf : {TRUE}, entries : Seq(Entry), prev : MaybePage, next : MaybePage]
InternalNode == [leaf : {FALSE}, first : PageNos, entries : Seq(ChildEntry)]

Fits(node) ==
  \/ node \in LeafNode /\ Len(node.entries) <= MaxLeafEntries
  \/ node \in InternalNode /\ Len(node.entries) <= MaxInternalEntries

\* Nodes have the kind and size of their pages, calls the fields of their step
TypeOK ==
  /\ count \in 1 .. MaxPages /\ root \in 0 .. count - 1
  /\ DOMAIN nodes = PageNos
  /\ \A p \in 0 .. count - 1 : Fits(nodes[p])
  /\ \A p \in PageNos : p >= count => nodes[p] = None
  /\ pc \in {"idle", "visit", "split_leaf", "relink", "ascend", "split_internal"}
  /\ entry \in Entry \cup {None} /\ at \in MaybePage /\ path \in Seq(PageNos)
  /\ split \in ChildEntry \cup {None}
  /\ (pc = "idle") <=> (entry = None)
  /\ (pc = "idle") <=> (at = None)
  /\ pc \in {"relink", "ascend", "split_internal"} <=> split # None
  /\ failures \in 0 .. MaxFailures
  /\ expected \in [Keys -> SUBSET (Values \cup {None})]

-----------------------------------------------------------------------------
(***************************************************************************)
(* Between inserts, a search finds what was last inserted for its key, and *)
(* nothing for a key that was never inserted (the tests of btree.rs).      *)
(***************************************************************************)
SearchFinds == pc = "idle" => \A k \in Keys : Search(k) \in expected[k]

(***************************************************************************)
(* When inserts have failed, a search may miss keys, but what it finds is  *)
(* still never an old value or the value of another key; as long as none   *)
(* has failed, it misses nothing.                                          *)
(***************************************************************************)
SearchNeverStale ==
  pc = "idle" =>
    \A k \in Keys : \/ Search(k) \in expected[k]
                    \/ failures > 0 /\ Search(k) = None

(***************************************************************************)
(* Between inserts, a range scan returns the keys of the range, each once, *)
(* in their order and with the value a search would find, as long as no    *)
(* insert has failed.                                                      *)
(***************************************************************************)
ScanMatchesSearch ==
  pc = "idle" /\ failures = 0 =>
    LET there == {e \in {[key |-> k, val |-> Search(k)] : k \in Keys} : e.val # None} IN
    \A a \in Keys :
      LET chained == Chained(FindLeaf(a)) IN
      \A b \in Keys :
        LET found == Within(chained, a, b)
        IN /\ \A i \in 1 .. Len(found) - 1 : found[i].key < found[i + 1].key
           /\ Range(found) = {e \in there : a <= e.key /\ e.key <= b}

(***************************************************************************)
(* The leaves' chain, read from the first leaf, is a map at every moment   *)
(* of an insert, whether it fails later or not: a split moves entries      *)
(* without losing one, and the new entry appears in one step.  When an     *)
(* insert of a key that a failure has cut off from the root puts the key   *)
(* there once more, the newer entry comes first.  (Splits leave the first  *)
(* leaf on the page the tree began with.)                                  *)
(***************************************************************************)
Onward(key) ==
  [p \in MaybePage |->
     IF p = None \/ Found(nodes[p].entries, key) # {} THEN p ELSE nodes[p].next]

ValueIn(key) ==
  [p \in MaybePage |->
     IF p = None \/ Found(nodes[p].entries, key) = {} THEN None
     ELSE nodes[p].entries[Min(Found(nodes[p].entries, key))].val]

FirstInChain(key) ==
  LET onward == Onward(key)
      value  == ValueIn(key)
      page[i \in 1 .. count] == IF i = 1 THEN 0 ELSE onward[page[i - 1]]
  IN value[page[count]]

ChainMap == [k \in Keys |-> FirstInChain(k)]

Map == INSTANCE OrderedMap WITH map <- ChainMap

ImplementsOrderedMap == Map!Spec

(***************************************************************************)
(* An insert that has returned stays in the chain of the leaves, even when *)
(* later ones fail and a search no longer finds its key: between inserts   *)
(* the chain holds the last acknowledged value of every key.               *)
(***************************************************************************)
ChainKeepsInserts == pc = "idle" => \A k \in Keys : ChainMap[k] \in expected[k]

(***************************************************************************)
(* The two directions of the chain agree, but for the one link that        *)
(* split_leaf is about to set; if it fails to, the link still leads        *)
(* backwards.                                                              *)
(***************************************************************************)
ChainMirrored ==
  LET chain == ChainFrom(0) IN
  \A i \in 2 .. Len(chain) :
    LET back == nodes[chain[i]].prev IN
    \/ back = chain[i - 1]
    \/ /\ failures > 0 \/ (pc = "relink" /\ chain[i - 1] = split.child)
       /\ back \in ToSet(SubSeq(chain, 1, i - 1))

-----------------------------------------------------------------------------
Children(p) ==
  IF nodes[p].leaf THEN {}
  ELSE {nodes[p].first} \cup {e.child : e \in ToSet(nodes[p].entries)}

\* The pages met on the way down, row by row
Deeper(rows) == Append(rows, UNION {Children(p) : p \in Last(rows)})

Rows ==
  LET rows[i \in 0 .. count] == IF i = 0 THEN <<{root}>> ELSE Deeper(rows[i - 1])
  IN rows[count]

(***************************************************************************)
(* No page is the child of two, nor the root of any, and all leaves are at *)
(* the same depth: a descent ends, and it ends in a leaf, even when calls  *)
(* of the pool fail and inserts stop half way.                             *)
(***************************************************************************)
Balanced ==
  LET children == [p \in 0 .. count - 1 |-> Children(p)]
      rows     == Rows
  IN /\ \A p \in 0 .. count - 1 :
          /\ root \notin children[p]
          /\ \A q \in 0 .. p - 1 : children[p] \cap children[q] = {}
          /\ nodes[p].leaf \/ Cardinality(children[p]) = 1 + Len(nodes[p].entries)
     /\ \A i \in 1 .. count : \A p, q \in rows[i] : nodes[p].leaf <=> nodes[q].leaf
     /\ Last(rows) = {}
=============================================================================
