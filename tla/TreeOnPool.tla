----------------------------- MODULE TreeOnPool -----------------------------
(***************************************************************************)
(* The B+tree of src/btree/btree.rs on the buffer pool of                  *)
(* src/buffer/buffer_pool.rs, which it owns.                               *)
(*                                                                         *)
(* A step of BTree needs some pages: the insert asks the pool for them one *)
(* after the other (Ask), each call goes through the pool's own steps      *)
(* (PoolStep), and an error ends the insert (CallFails).  With its guards  *)
(* in hand the insert takes the step of BTree (TreeStep) and then writes   *)
(* and drops its guards one by one (UseGuard).  The process may stop at    *)
(* any step (Restart); what it starts with is BTree::new on the same file, *)
(* for nothing opens a tree that is there.                                 *)
(*                                                                         *)
(* A version of a page, as BufferPool counts them, is a position in the    *)
(* page's text.  BTree's nodes say what the pages should hold.             *)
(***************************************************************************)
EXTENDS BTreeNode

CONSTANTS
  Keys, Values, Inserts, None, MaxLeafEntries, MaxInternalEntries,
  MaxPages, MaxFailures,  \* as in BTree
  Caller,                 \* the thread that inserts
  Frames, Handles,        \* as in BufferPool
  FileSpace,              \* FileManager.space_id
  PinModulus,             \* 2^32 in the code
  MaxVersion,             \* bound on the writes to a page
  MaxStops                \* bound on the restarts

VARIABLES
  nodes, count, root, pc, entry, at, path, split, failures, expected,
  page_table, frames, lru, free_list, file, file_len,
  pool_pc, want, slot, loaded, candidates, todo, guards, latest,
  asked,       \* pool calls the step under way has made
  uses,        \* what it has still to do with its guards
  text,        \* page number -> the nodes written there, the first one first
  base,        \* pages the file had when the process started
  stops        \* restarts so far

Tree == INSTANCE BTreeProps
Pool == INSTANCE BufferPool WITH
  pc <- pool_pc, Threads <- {Caller}, Spaces <- {0, FileSpace}, InitPages <- 0,
  OverflowChecks <- TRUE, IOErrors <- TRUE, Crashes <- TRUE

ASSUME TreeOnPoolAssumption ==
  /\ {MaxPages, MaxFailures, MaxVersion, MaxStops} \subseteq Nat
  /\ PinModulus \in Nat \ {0, 1}
  /\ None \notin Int
  /\ None \notin Frames \cup Pool!PageIds \cup Pool!Page \cup Pool!BufferFrame \cup Pool!PageGuard

call == <<entry, at, path, split>>
tree == <<nodes, count, root, pc, call, failures, expected>>
pool == <<page_table, frames, lru, free_list, file, file_len,
          pool_pc, want, slot, loaded, candidates, todo, guards, latest>>
own  == <<asked, uses, text, base, stops>>
vars == <<tree, pool, own>>

-----------------------------------------------------------------------------
New == None   \* in place of a page number: new_page

\* A bug: the parent stays pinned while its child is split
SplitPagesUnderParent(page) ==
  IF path = <<>> THEN <<page, New>> ELSE <<Last(path), page, New>>

\* A split holds its page while it asks for the new one
SplitPages(page) == <<page, New>>

\* The pages a step of the tree asks for, in this order
Needs ==
  CASE pc = "new"            -> <<New>>
    [] pc = "visit"          -> <<at>>
    [] pc = "split_leaf"     -> SplitPages(at)
    [] pc = "relink"         -> <<nodes[split.child].next>>
    [] pc = "ascend"         -> <<IF path = <<>> THEN New ELSE Last(path)>>
    [] pc = "split_internal" -> SplitPages(Last(path))
    [] OTHER                 -> <<>>

Held == {h \in Handles : guards[Caller][h] # None}
HeldPages == {guards[Caller][h].id.no : h \in Held}

\* The pool has answered, with a guard for every call or an error for the last
Answered == uses = <<>> /\ pool_pc[Caller] = "idle" /\ asked = Cardinality(Held)
Refused  == uses = <<>> /\ pool_pc[Caller] = "idle" /\ asked > Cardinality(Held)

\* What is done with the guards of these pages, one after the other: each is
\* dropped, in the second case after its node has been written
Drops(pages) == [i \in DOMAIN pages |-> [page |-> pages[i], write |-> FALSE]]
WritesAndDrops(pages) ==
  [i \in 1 .. 2 * Len(pages) |-> [page |-> pages[(i + 1) \div 2], write |-> i % 2 = 1]]

-----------------------------------------------------------------------------
Starting ==
  /\ nodes' = [p \in 0 .. MaxPages - 1 |-> None]
  /\ root' = None
  /\ pc' = "new"
  /\ entry' = None /\ at' = None /\ path' = <<>> /\ split' = None
  /\ asked' = 0 /\ uses' = <<>>

Init ==
  /\ Pool!Init
  /\ nodes = [p \in 0 .. MaxPages - 1 |-> None]
  /\ count = 0 /\ root = None
  /\ pc = "new"
  /\ entry = None /\ at = None /\ path = <<>> /\ split = None
  /\ failures = 0
  /\ expected = [k \in Keys |-> {None}]
  /\ asked = 0 /\ uses = <<>>
  /\ text = [p \in 0 .. MaxPages - 1 |-> <<>>]
  /\ base = 0 /\ stops = 0

\* The file is what evictions and failed writes have made of it, and the new
\* tree has written nothing; callers do not forget
Restart ==
  /\ stops < MaxStops
  /\ stops' = stops + 1
  /\ Pool!Restart
  /\ Starting
  /\ count' = file_len /\ base' = file_len
  /\ text' = [p \in DOMAIN text |-> <<>>]
  /\ UNCHANGED <<failures, expected>>

Insert(e) ==
  /\ pc = "idle" /\ uses = <<>>
  /\ Tree!Insert(e)
  /\ UNCHANGED <<pool, own>>

\* The tree names every page by its number in space 0
Fetch(no) ==
  LET id == [space |-> 0, no |-> no]
  IN Pool!FetchHit(Caller, id) \/ Pool!FetchMiss(Caller, id)

Ask ==
  /\ Answered /\ asked < Len(Needs)
  /\ asked' = asked + 1
  /\ IF Needs[asked + 1] = New THEN Pool!StartNewPage(Caller) ELSE Fetch(Needs[asked + 1])
  /\ UNCHANGED <<tree, uses, text, base, stops>>

PoolStep ==
  /\ Pool!Continue(Caller)
  /\ UNCHANGED <<tree, own>>

\* An error of BTree::new takes the pool with it: only a restart helps
CallFails ==
  /\ Refused /\ pc # "new"
  /\ Tree!Fail
  /\ asked' = 0 /\ uses' = Drops(SetToSeq(HeldPages))
  /\ UNCHANGED <<pool, text, base, stops>>

\* BTree::new, with the guard of its page
CreateRoot ==
  /\ pc = "new"
  /\ nodes' = [nodes EXCEPT ![count] = Leaf(<<>>, None, None)]
  /\ count' = count + 1 /\ root' = count
  /\ pc' = "idle"
  /\ UNCHANGED <<call, failures, expected>>

\* A step that finds out where to go on only drops its guard
Uses(pages) ==
  IF pc' \in {"visit", "split_leaf", "split_internal"}
    THEN Drops(pages) ELSE WritesAndDrops(pages)

TreeStep ==
  /\ Answered /\ asked = Len(Needs) /\ asked > 0
  /\ CreateRoot \/ Tree!Continue
  /\ asked' = 0
  /\ uses' = Uses([i \in 1 .. asked |->
                     LET p == Needs[asked + 1 - i] IN IF p = New THEN count ELSE p])
  /\ UNCHANGED <<pool, text, base, stops>>

UseGuard ==
  /\ uses # <<>>
  /\ uses' = Tail(uses)
  /\ \E h \in Held :
       LET use == Head(uses) IN
       /\ guards[Caller][h].id.no = use.page
       /\ IF use.write
            THEN /\ Pool!WriteGuard(Caller, h)
                 /\ text' = [text EXCEPT ![use.page] = Append(@, nodes[use.page])]
            ELSE Pool!DropGuard(Caller, h) /\ UNCHANGED text
  /\ UNCHANGED <<tree, asked, base, stops>>

Next ==
  \/ \E e \in Inserts : Insert(e)
  \/ Ask \/ PoolStep \/ CallFails \/ TreeStep \/ UseGuard
  \/ Restart

Spec == Init /\ [][Next]_vars

-----------------------------------------------------------------------------
(***************************************************************************)
(* What the pool shows of a page                                           *)
(***************************************************************************)
Version(no) ==
  LET f == page_table[[space |-> 0, no |-> no]]
  IN IF f = None THEN file[no].val ELSE frames[f].page.val

ToBeWritten(no) == \E i \in DOMAIN uses : uses[i].page = no /\ uses[i].write

(***************************************************************************)
(* Through hits, misses and evictions, errors and restarts, the pool shows *)
(* the tree every page as it wrote it last; a page that BTree takes to be  *)
(* the next one is the one new_page has allocated.                         *)
(***************************************************************************)
TreeSeesItsPages ==
  /\ \A p \in base .. count - 1 : ~ToBeWritten(p) =>
       Version(p) > 0 /\ text[p][Version(p)] = nodes[p]
  /\ Answered /\ asked = Len(Needs) =>
       HeldPages = {IF p = New THEN count ELSE p : p \in ToSet(Needs)}

(***************************************************************************)
(* Two frames are enough for an insert, whatever the depth of the tree,    *)
(* and one more for each call that has failed: the descent keeps no guard, *)
(* and a split holds two.                                                  *)
(***************************************************************************)
FramesSuffice == [][Pool!ScanExhausted(Caller) => Cardinality(Frames) < 2 + failures]_vars

(***************************************************************************)
(* A tree begun after a restart stays clear of what an earlier one left in *)
(* the file.                                                               *)
(***************************************************************************)
OldPagesLeftAlone == [][\A p \in 0 .. base - 1 : file'[p] = file[p]]_vars
=============================================================================
