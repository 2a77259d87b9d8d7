# A TLA+ development of mini-innodb

mini-innodb is a small storage engine in the image of InnoDB: a file of pages,
a buffer pool that caches them for several threads, and a B+tree whose nodes
are pages. This directory holds its specifications, the TLC configurations
that check them on small instances, and proofs checked by TLAPS. Paths and
line numbers below are those of the repository.

Contents: [the system](#the-system) · [the plan](#the-plan) ·
[modules and code](#modules-and-code) · [runs](#runs) ·
[bounds](#bounds) · [fairness](#fairness) · [proofs](#proofs) ·
[disagreements](#where-the-code-disagrees-with-its-comments) ·
[what is left out](#what-is-left-out)

## The system

| component | source | state | operations |
|---|---|---|---|
| LRU list | `src/buffer/lru.rs` | a hash map of nodes with `prev`/`next`, `head`, `tail` | `touch`, `evict`, `remove` |
| Buffer pool | `src/buffer/buffer_pool.rs` | `page_table`, `frames` (page, dirty, pin count), `lru`, `free_list`, `file_manager`, each under a lock of its own | `fetch_page`, `new_page`, `flush_page`, `flush_all`; inside: `get_free_frame`, `evict_one`, `evict_frame` |
| Page guard | same file | a frame index | `read`, `write` (marks dirty), `drop` (unpins) |
| File manager | `src/page/file_manager.rs` | the file | `open_or_create`, `read_page`, `write_page`, `write_page_durable`, `allocate_page`, `page_count` |
| Page | `src/page/page.rs`, `page_type.rs`, `page_id.rs` | 16 KiB with a header (id, type, LSN, prev/next), data and a trailer | header fields, `update_checksum`, `verify_checksum`, `write_data`, `read_data` |
| B+tree nodes | `src/btree/node.rs`, `key.rs` | entries in key order, leaf links | `find_child`, `insert_entry`, `search`, `insert`, `serialize`, `deserialize` |
| B+tree | `src/btree/btree.rs` | `root_page_no` in memory, everything else in pages | `new`, `search`, `insert`, `range_scan` |
| crate root, binary | `src/lib.rs`, `src/main.rs` | none | none |

How they interact:

* The tree owns its pool and only calls `fetch_page`, `new_page` and the
  guards they return. `insert` takes the tree by exclusive reference, so
  inserts do not overlap with anything; searches may run beside each other.
* The pool hands out a `PageGuard` that borrows the pool and pins a frame. Any
  number of threads may share the pool. There is no lock around a whole call:
  a call takes and releases the locks of the page table, a frame, the LRU list,
  the free list and the file one after another, and sometimes holds one while
  it waits for the next.
* The pool calls the file manager under its mutex. A page finds its place in
  the file by the number in its own header, not by the number the caller asked
  for.

What makes each part hard, and what correctness means for it:

| component | hard behaviour | correct when |
|---|---|---|
| LRU list | four shapes of removal; an `unwrap()` on every link | links mirror each other and stay inside the map; the list is the order of last use |
| Buffer pool | calls interleave between any two locks; state is read under a lock and used after it; file operations fail half way through a call; two lock orders | a guard keeps its page, pins count guards, there is one copy of a page and it is the newest, no frame is lost or given out twice, every call returns |
| File below the pool | errors, torn writes, a stop at any step, a power failure with writes still in the system's cache | a page is never written over another; a restart finds versions callers have seen, or what a failed write has left; what is clean in memory is in the file; checksums tell torn pages; what was synced stays |
| B+tree | splits touch up to two pages per level, and any pool call between them may fail | search and scan agree with the map of all inserts; the chain of leaves is in order and complete; leaves are at one depth |
| Nodes as bytes | page and `u16` limits | what is written can be read back, or the insert is refused |
| Tree on the pool | splits hold two guards while evictions write one half; lost frames; the root number is not stored | the tree reads its pages as it wrote them; few frames suffice; a tree begun after a restart stays clear of the old pages |

`PROJECT.json` lists the hazards one by one with their lines.

## The plan

1. **LRU list** (done): `Recency`, `RecencyOrder`, `LruList`, proofs.
2. **Buffer pool** (done): `BufferPool` step by step as the locks allow,
   `BufferPoolProps`, the abstract `PageStore`, proofs of the types and of the
   pages' numbers.
3. **B+tree** (done): `BTreeNode` for one node, `BTree` over the store that
   `PageStore` promises to a single caller, with failing calls; the abstract
   `OrderedMap`.
4. **Nodes as bytes and the file** (done): `NodeBytes` with the `u16` lengths,
   the sentinel and the size of a page; `PageFile` with torn writes, file
   lengths, the system's cache and `write_page_durable`.
5. **The tree on the pool** (done): `TreeOnPool` composes `BTree` with
   `BufferPool`, with a restart at any step.
6. **Proofs about the tree** (done): `BTreeProofs`, every safety property of
   the run `btree`.
7. **Proofs about the file** (done): `PageFileProofs`.
8. **More proofs about the pool** (done): what races leave intact, for any
   callers; all of `pool_seq` and `pool_shared` but liveness, for careful
   callers; the simulation of `PageStore`.

9. **Proofs about the tree on the pool** (done): `TreeOnPoolProofs`, from what is
   proved of a pool with one caller.

Steps 6 to 9 prove what runs check on instances.

## Modules and code

| module | stands for |
|---|---|
| `Recency` | a recency order as a value: `Touched`, `Forgotten` |
| `RecencyOrder` | what the LRU list promises |
| `LruList` | `lru.rs`: the map of nodes, head and tail, one action per method |
| `LruListProofs`, `RecencyProofs` | proofs about the two |
| `Versions` | what a page's data is to the pool: versions, and torn ones |
| `BufferPool` | `buffer_pool.rs` and the part of `file_manager.rs` it uses |
| `BufferPoolProps` | the pool's properties |
| `PageStore` | what the pool promises to one caller |
| `MCBufferPool`, `MCPoolBounded` | instances: symmetry; a bound on the calls and a discipline of the callers |
| `BufferPoolProofs` | proofs about the pool under any callers |
| `BufferPoolCarefulProofs` | proofs about the pool under careful callers, and that it implements `PageStore` |
| `PoolBoundedProofs` | proofs about callers that keep to `InPlace` |
| `BTreeNode` | the operations of `node.rs` on one node |
| `BTree` | `btree.rs` |
| `BTreeProps` | search, range scan, and the tree's properties |
| `OrderedMap` | what the tree is for |
| `BTreeProofs` | proofs about the tree, its search and its scans |
| `MCBTree` | the entries inserted in the instances |
| `NodeBytes` | `serialize` and `deserialize` of `node.rs` and `key.rs`, `write_data` of `page.rs` |
| `PageFile` | `file_manager.rs` with the checksums of `page.rs`, disk and power below it, one page of nodes above it |
| `PageFileProofs` | proofs about the file and the nodes in it |
| `MCPageFile` | the nodes stored in the instances |
| `TreeOnPool` | `BTree` and `BufferPool` composed |
| `MCTreeOnPool` | its instances |
| `TreeOnPoolProofs` | proofs about the two together |

Operators introduced by a comment "A bug: ..." are variants of the definition
that follows them. No specification uses them: each is a plausible slip of the
code, and replacing the definition by it must break the property named beside
it in `PROJECT.json`.

### LRU list

`list` has the fields of the Rust struct; a lookup outside
`DOMAIN list.entries` is where `unwrap()` would panic. `Unlinked` writes the
four arms of `remove` as what they do to each neighbour, `PushedFront` is
`push_front`, and `touch` is `remove` followed by it. Every method runs under
one mutex, so each is one step. `Walk` reads the order off the links, and
`ImplementsRecencyOrder` says that under this reading every step of the list is
a step of `RecencyOrder`. That is the licence for `BufferPool` to keep its
`lru` as a sequence.

### Buffer pool

A step is one critical section: what a call does from taking a lock to the next
point where it may wait for another. Where a call waits *while holding* a lock,
the wait has a program counter of its own, and who holds a lock is read off the
program counters (`TableHeld`, `LruHeld`, `FrameHeld`). This keeps exactly the
interleavings in which the code differs from an atomic one:

| program counter | position in the code | lock held |
|---|---|---|
| `hit_frame` | 135, before the frame of a hit | page table |
| `hit_lru` | 139, before the LRU list | page table, frame |
| `get_free` | 253 | none |
| `scan` | 273-293 | LRU list |
| `victim` | 287, between the pin check and `evict_frame` | none |
| `unmap` | 319, before the page table | frame |
| `load` | 154, 187 | none |
| `install` | 160, 195 | none |
| `publish` | 168, 202 | none |
| `publish_lru` | 171, 205 | page table |
| `flush_next` | 218 | none |
| `flush` | 225, after the table was unlocked | none |

The free list's and the file's mutexes are only held for sections that wait for
nothing, so they need no state. `pop()` takes some frame of the free list:
which one is of no consequence, since all are unused.

Contents are version numbers: the n-th write through a guard on a page stores
version n, which makes a lost or stale copy visible. The checksum of a page is
the version it was computed for; `write_page` (`Written`) stores the page with
the checksum it has, and each of its callers calls `update_checksum`
(`WithChecksum`) first, as the code does in lines 228 and 312. A failing write
leaves the file as it was, or with the new header followed by none, some or all
of the new data (`PartlyWritten`). Some of version v over what was there is
version `Torn(v)`, the number -v; it is one value whatever it was torn from,
since all that matters is that nobody has written it. `read_page` serves it
like any other page, for nothing verifies checksums. The next write through a
guard after it is version v (`Newer`), which the restart in between has left
nowhere else. `Restart` empties the memory at any step and keeps the file; a
process that stops inside `write_all` is a failing write followed by `Restart`.
A panic stops the model, as it poisons
the locks its thread holds. `pin_count` is arithmetic modulo `PinModulus`, with
a panic on overflow where `OverflowChecks` says so (debug builds).

`latest` records the last version written and `guards` the page each caller
asked for; no action of the code reads them.

### B+tree

`insert` descends (`Descend`), inserts or splits (`InsertInLeaf`, `LeafIsFull`,
`SplitLeaf`, `Relink`) and comes back up along the recursion, kept as `path`
(`AddToParent`, `ParentIsFull`, `SplitInternal`, `NewRoot`). A step is what
`insert` does from one pool call that may fail to the next. `Fail` is the `?`
after each of those calls: the insert ends with an error and the pages keep
what was written to them. `expected` records what a search may answer for each
key: the acknowledged value, or, after an error, either the old or the new one.

A failed insert may leave a leaf under no parent. `SearchNeverStale` says that
this makes searches miss keys but never answer wrongly, `ChainKeepsInserts`
that the chain of leaves still holds the last acknowledged value of every key,
and `ChainMirrored` that the one link a failure leaves behind still leads
backwards. Trying the insert again can bring a second copy of the key into the
chain; `ImplementsOrderedMap` takes the first copy met from the left, and holds
with failures too, so the newer copy always comes first.

`search` and `range_scan` change nothing and are operators on the state. Their
loops meet a page at most once and are written as functions over that many
rounds; the filter of a scan is one over the entries of the leaves (`Within`). Pages are a function, which is what
`PageStore` says of the pool for a single caller.

### Nodes as bytes, and the file

In `NodeBytes` a page's data is a sequence of cells. An integer field is one
cell, whatever its width, and so is a byte of a key or value; sizes therefore
count fewer cells than the code counts bytes, but what is compared is the same:
the length against `DataSize`, a length field against `LenModulus`, a page
number against `PageModulus - 1`, the sentinel. `Deserialize` yields `None`
where the code panics. A key is a sequence of bytes here; in `BTree`, where only
its order matters, it is the integer it encodes. `KeyFrom`, `NumberOf` and
`KeyBefore` are `from_u64`, `as_u64` and the comparison of keys, and `KeysInOrder`
checks that bytes and numbers order the keys of a stored node alike, which is what
the integers of `BTree` rest on.

`PageFile` is one user of the file who keeps one page in memory, as a frame of
the pool does. `file` and `tail` are the whole pages and whether more bytes
follow. A write that fails stops before it begins or at a sector's border
(`Cuts`); a failing append leaves a tail. `unsynced` collects what writes have
left on pages since the last `sync_all`: a power failure mixes the sectors of
any two of those versions and of the synced one, page by page, and leaves any
length between the synced and the present one. Page number, checksum and node
type lie in the first sector of a page, so no cut comes before them. A checksum
is the content it was computed from, which means that CRC32 is taken to tell
all contents apart. `SaveDurable` is `write_page_durable`, which has no caller;
it is modelled as a caller would use it in place of `write_page`.

`StoreTooLong` is the panic on `OutOfBounds`. It strikes with the frame's lock
held, and the drop of the guard during the unwinding then panics on the
poisoned lock, which aborts the process.

### The tree on the pool

`TreeOnPool` shares the variables of `BTree` and `BufferPool` with an instance
of each. `Needs` says which pages the next step of the tree fetches or
allocates; `Ask` begins those calls one at a time, `PoolStep` is the pool's own
step, and once all guards are there `TreeStep` is a step of `BTree`, after which
`UseGuard` performs the writes and drops it stands for, in the order of the
code: new page first, each write followed by its drop. A call that returns
without a guard is an error, and the insert ends (`CallFails`) and drops what it
holds. `text` relates the pool's versions to the tree's nodes; a restart clears
it, since the tree that begins then has written none of the pages it finds, whole
or torn. `search` and
`range_scan` make the same calls as the way down of `insert` and are not
repeated. After `Restart` the program can only call `BTree::new`, with the
file as evictions and failed writes have left it. The tree never flushes: it owns the pool and
does not hand it out.

## Runs

Each run is a module and a configuration of the same directory, listed under
"runs" in `PROJECT.json`; `tlc -config PoolRace.cfg MCPoolBounded` repeats one,
and `tlapm BufferPoolProofs.tla` the proofs of a module.

| run | instance | shows |
|---|---|---|
| `lru` | 4 frames | the linked list keeps its links (`LinksMirrored`) and is the recency order (`ImplementsRecencyOrder`) |
| `pool_seq` | 1 thread with 2 guards, 2 frames, 3 pages, errors and restarts | for one caller: a guard keeps its page, pins count guards, guards see the newest version, the table leads to the frames, clean pages are in the file, the pool is a `PageStore` (torn pages in the file are shown to nobody before a restart), every call returns |
| `pool_shared` | 2 threads, 2 frames, 2 pages, callers keep to `InPlace` | the same for all interleavings when nothing is evicted and no page is loaded twice at a time; also that no frame is lost, and that no call waits for ever |
| `pool_race` | 2 threads, 2 frames, 2 pages, any calls, a foreign space id, release arithmetic | what survives every race: unused frames are untouched, pages keep their numbers in file and frames, the checksums of the file, of pages being loaded and of clean frames match as long as no write stops half way (`ChecksumsValid`), no frame is twice in the LRU order |
| `guard_loses_page` | 2 threads, 1 frame, 2 pages | counterexample to `GuardsKeepPage` |
| `lost_update` | 2 threads, 2 frames, 1 page | counterexample to `GuardsSeeLatest` |
| `pool_leaks_frame` | 1 thread, 1 frame | counterexample to `FullMeansPinned` |
| `hit_deadlocks` | 2 threads, 1 frame, 2 pages, 6 calls | counterexample to `HitReturns` |
| `btree` | 7 keys, nodes of 2 entries, any one call fails | without a failure search and scans agree with the inserts (`SearchNeverStale`, `ScanMatchesSearch`); with one the leaves stay at one depth and no page has two parents (`Balanced`), no answer is stale, the chain holds every acknowledged insert (`ChainKeepsInserts`), can be walked backwards (`ChainMirrored`), and read from its first leaf is an `OrderedMap` at every moment of every insert (`ImplementsOrderedMap`) |
| `btree_loses_keys` | 3 keys, one call fails | counterexample to `SearchFinds` |
| `page_file` | 2 pages of 14 cells in 2 sectors, keys of 2 bytes of 4 values, 3 stores, 2 faults | nodes are read back as stored (`NodesReadBack`), a page whose checksum verifies was stored as it is (`IntactMeansStored`), its keys are in the order of their numbers (`KeysInOrder`), no page is written over another (`WrittenInPlace`), a durable write survives everything (`DurableSurvives`), new page numbers stand for whole pages (`NewPagesWhole`) |
| `tree_on_pool` | 3 keys, nodes of 1 entry, 2 frames, 1 failing call, 1 restart | the tree sees its pages as it wrote them (`TreeSeesItsPages`), an insert needs two frames and one more per failure (`FramesSuffice`), a tree begun after a restart leaves the old pages alone (`OldPagesLeftAlone`) |

`pool_seq` and `pool_shared` together say under which conditions the pool is
what its comments promise; the four counterexamples say that the conditions
matter, one for each that is dropped. `pool_race` says what the file can still
rely on then.

## Bounds

* *LRU list*: with four frames a removal meets the head, the tail, the only
  node, and a node with two distinct inner neighbours. TLC reaches every order
  of every subset.
* *Pool, one caller*: three pages in two frames force evictions; two guards
  pin both frames, so that the scan sets frames aside and also comes up empty.
  One version beyond the initial one tells a stale page from a new one, and
  torn from either. Two of the three pages are written: the action constraint
  `ReadOnly` leaves page 1, which is in the file from the start, as it is, which
  saves states and no kind of step. The file starts with two pages and grows to three, so that the disk is full too.
* *Pool, several threads*: all races above need two threads. `MaxCalls` bounds
  the calls, seven of them being enough for a page to be loaded, dropped,
  evicted, raced for and flushed. `PinModulus` is small so that pin counts
  wrap in `pool_race`; in `pool_seq` and `pool_shared` it is above what all calls and
  guards together can pin, as the 2^32 of the code is for any caller.
* *Tree*: nodes of two entries (the code has four) split with the smallest
  trees, and odd as well as even halves occur since a split has three entries.
  Seven keys in any order reach three levels, with splits of an internal node
  below the root. One key comes with two values, so that it is replaced too.
  An insert that has failed can be tried again.
  `MaxPages` is above what the keys and failures need: nothing is cut off,
  and the absence of deadlock is checked. The action constraint `NewsOnly`
  leaves out inserts of what a search finds already: they write a leaf as it
  is. Without it states would not differ, only steps.
* *File*: two pages, so that one can be written over the other and a tail can
  follow a page. Two faults let a torn write be followed by a power failure.
  Among the stored nodes are a leaf that fills the page, one that is a byte too
  long, and one whose length field overflows.
* *Tree on the pool*: with one entry per node three keys make a tree of three
  levels and split an internal node, and the pool has room for two of its
  pages. One failing call is enough to lose a frame, after which a split runs
  out of frames. `PinModulus` is above the number of handles, so that pin counts
  are exact as they are with 2^32. The run does not ask for the absence of deadlock: when
  `MaxFailures` calls have failed, a further error is where the model ends, and
  after an error of `BTree::new` there is no tree.
* `pool_race` and the four counterexamples of the pool do not ask for the
  absence of deadlock: there the threads may wait for each other (which
  `hit_deadlocks` shows) or panic. `pool_seq` and `pool_shared` do ask for it.

## Fairness

`CallsReturn` and `HitReturns` are about a thread inside a call. The fairness
is weak fairness of each thread's `Continue`: a thread that can go on with its
call is run, sooner or later. That is what an operating system's scheduler
gives. Nothing is assumed about callers: a thread need never call, nor drop a
guard. In `pool_seq` there is one thread, so nobody can disturb a wait. With two
threads weak fairness would not rule out that a lock is taken by the other
thread again and again, and standard mutexes do not promise that it is not.
`MCPoolBounded` therefore bounds the number of calls: then a call that never
returns is one that waits for a lock that is never released.

## Proofs

All obligations are discharged by TLAPS with Z3, Zenon and LS4. What they take
on trust are the assumptions on constants named in the modules, which TLC
evaluates on the instances: `NoFrame` is not a frame (`NoFrameAssumption`),
`None` is not a value of the types it is added to (`NoneAssumption`), the bounds
are natural numbers with `PinModulus > 1` (`ConstantsAssumption`, and both of
these again in `TreeOnPoolAssumption`), and nodes serialize to sequences of
numbers (`NodesAssumption`). Unless a hypothesis below
says otherwise, the sets of threads, frames, handles and spaces are arbitrary,
even infinite, and files fail and processes restart at any step.

The LRU list:

* **`LruListProofs!TypeCorrect`, `LinksAlwaysMirrored`**: for any set of
  frames. `LinksMirrored` alone is not inductive, for nothing in it excludes a
  cycle of nodes beside those reached from the head. The inductive invariant is
  that the list `Represents` some sequence of distinct frames. Lemmas show that
  `push_front`, the four arms of `remove`, and `touch` represent `<<f>> \o s`,
  `Forgotten(s, f)` and `Touched(s, f)`.
* **`LruListProofs!StepsFollowTheOrder`**: each step of a list that represents
  an order leads to a list that represents the order after a step of
  `RecencyOrder`: the implementation step, for all frames. Its lemma
  `MovedRepresents` says more than the refinement that TLC checks: a refinement
  lets the list stutter, and so would not notice a `touch` that does nothing,
  but the lemma fixes the order after a `touch`.
* **`LruListProofs!ListIsRecencyOrder`**: `Spec => ImplementsRecencyOrder`. What is
  left for it is that the walk along the links, a recursive function, reads the
  represented order (`WalkIs`), and that it ends where the order does
  (`NodesCounted`).

The pool, under any callers (`BufferPoolProofs`):

* **`TypeCorrect`, `PagesAlwaysSelfIdentifying`**, from `IInv`. Neither half is
  inductive alone: a write that stops early puts a frame's header over the data
  of the page stored at its number, which is a page only because frames hold
  pages of the file; and that in turn needs the types of what calls carry. There is one lemma per
  action.
* **`OrderAlwaysDistinct`, `FreeFramesAlwaysUntouched`, `ChecksumsAlwaysValid`**,
  from `RInv == IInv /\ RacesKeep`. The scan takes frames out of the LRU order
  and puts them back, so that no frame is there twice is only kept because one
  call scans at a time and nothing stays set aside (`ScansAlone`). The list of
  unused frames and the order share no frame, which is why no victim is one of
  the former. `ChecksumsAlwaysValid` has frames and calls in its invariant
  besides the file: a page is written only when it is dirty, and then right after
  `update_checksum`, on each of the two paths to `write_page`; a clean one is
  as it was read or written. A call that loads a page under a race may put
  it beside another copy, but both have the checksum of their data.

The pool, under careful callers (`BufferPoolCarefulProofs`):

* The hypothesis is temporal: `Spec /\ []Careful => ...`. `Careful` says what
  callers must not do to one another: fetch a page whose frame another call is
  evicting, bring in a page that another call is bringing in, or name a space
  that is not the file's. The three conditions are those of
  `guard_loses_page`, `lost_update` and the space id in `pool_race`; nothing else
  is asked, so calls overlap and evict freely otherwise. `FewGuards` says that
  threads and handles are finite and that a pin count has room for all of them.
* **`CarefulGuardsKeepPage`, `CarefulPinsCountGuards`, `CarefulGuardsSeeLatest`,
  `CarefulTableMatchesFrames`, `CarefulCleanMeansOnDisk`, `CarefulNeverPanic`**,
  from `CInv == RInv /\ Structure /\ PinsCountGuards /\ Contents /\ Running`.
  None of these properties is inductive without the others. `Structure` says
  which call has which frame: from choosing a victim to publishing the new page
  a call owns its frame alone, the frame is in no list and under no guard, and
  the table says nothing of the page that is brought in. Pins tell guards
  because every step that moves a pin moves a guard or a program counter with
  it. `Contents` says where the newest version of a page is at each moment: in
  its frame, in a page read but not yet installed, or in the file.
* **`CarefulPoolIsStore`**: each step of the pool is a step of `PageStore` or none:
  the refinement that `pool_seq` checks, for any number of careful callers. A
  write that stops inside the data is the step `Tear`: it changes what a restart
  comes back to and not what callers see, because the page stays dirty in its
  frame and in the table (`FailingTears`).
* **`OneCallerSeesItsWrites`, `OneCallerPoolIsStore`**: a single thread that asks
  for pages of the file is careful whatever it does (`OneCallerIsCareful`), so no
  hypothesis on behaviours is left. `pool_seq` is an instance of `OneCaller`, and
  so is the pool below the tree.
* **`InPlaceLosesNoFrame`, `InPlaceSeesItsWrites`** (`PoolBoundedProofs`): callers
  that keep to `InPlace` are careful, and then every frame is in the table, in
  the free list, or in a call's hands. The invariant is `CInv` with `InPlace`,
  `NoEviction` and `FramesAccounted`; the first two hold together, since a scan
  begins only when the free frames run out, and counting the calls that wait
  for one shows that they do not. `Setting` is what `pool_shared` instantiates,
  with any finite numbers of threads and frames.

The file (`PageFileProofs`):

* **`FileAlwaysTyped`, `FileWrittenInPlace`, `DurableAlwaysSurvives`,
  `NewPagesAlwaysWhole`**, for any pages, sectors and faults, from `FInv`. That the
  synced file is never longer than the present one (`Sized`) keeps a power failure
  from inventing pages; that nothing is unsynced on a page written durably
  (`KeptDurable`) is what `DurableSurvives` rests on; and a page is only written
  where its number says because the page in memory has that number too
  (`CachedInPlace`).
* **`IntactAlwaysStored`, `NodesAlwaysReadBack`**, from `NInv`, under the
  hypothesis `ReadBack`: `Deserialize` undoes `Serialize`, whatever followed the
  serialized bytes in the page. That is a formula about constants and about the
  recursion over a node's cells, so it stays with TLC, which evaluates it as
  `ReadBackAssumption` of `MCPageFile` for every node of the instance and pages
  that held the extremes before. The invariant is about torn pages as well:
  their checksum is still that of something stored there (`Meant`), so a page
  that verifies is that thing.

The tree (`BTreeProofs`), for any keys and values, any sizes of nodes, and any
number of inserts that fail at any call of the pool:

* **`TreeAlwaysTyped`**, from `TInv`: the type invariant with `Linked`, that
  links lead to pages that exist, and `OnTheWay`, that a step was chosen for the
  node it finds. A split may use two entries of a full node because `NeedsSplit`
  was true of the same node one step before.
* The other theorems follow from `TreeInv`: `TInv`, and that there are a level
  and a lower bound of the keys for each page, a set of live pages, and an order
  of the leaves, with `Shape`, `Sound` and `Holds`. The code stores none of the
  four; a step of the code is shown to lead from some to some.
  * `Shape` is what a descent relies on. The bounds of a node's children are its
    own and its keys (`Inner`), leaves are at level 0 (`Leaves`), nothing has
    two parents (`Forest`). Pages that a failure has cut off keep their bounds
    and may overlap with others, so only live pages, those reached from the root
    or about to be, divide the keys (`Divided`). The insert under way is at the
    page that covers its key (`Visiting`), and on its way back up still passes
    the parent that covers the separator (`Descent`, `Splitting`).
  * `Sound` is what a scan relies on: the links `next` are an order of all
    leaves, dead ones too (`Chains`); what is left of a live leaf has smaller
    keys (`Ordered`), which is why the newer copy of a key comes first; links
    back lead backwards (`Backwards`).
  * `Holds` says which value the first entry for a key in the chain has.
* **`ChainIsOrderedMap`**: `Spec => ImplementsOrderedMap`, the refinement that
  `btree` checks. `NextPasses` shows that a step keeps the first value of
  every key but that of the insert, whose value appears in one step.
* **`ChainAlwaysKeepsInserts`, `ChainAlwaysMirrored`**: from `Holds` and `Sound`.
* **`SearchAlwaysFresh`**: a descent ends in the one live leaf that covers the key
  (`FindLeafFinds`); as leaves left of it have smaller keys, an entry there is the
  first in the chain (`SearchIs`).
* **`ScanAlwaysMatchesSearch`**: without failures all pages are live, so keys grow
  along the chain (`KeysGrowAlong`). `FlattenIs` and `WithinIs` show that joining
  leaves and filtering entries keeps the order and takes exactly the range.
* **`TreeAlwaysBalanced`**: row by row, the pages below the root are one level
  lower (`RowsAreLevels`), and levels are fewer than pages.

The tree on the pool (`TreeOnPoolProofs`), for any number of frames, any keys,
values and sizes of nodes, wherever calls fail or the process stops. `Setting`
asks three things: the file is space 0, the one the tree names its pages in;
frames and handles are finite; and a pin count has room for all handles, as
`FewGuards` asks of any caller.

* **`PagesAlwaysSeen`**, from `Inv == PoolP!CInv /\ TInv /\ Calls /\ Texts`.
  * `PoolP!CInv` is the invariant of `BufferPoolCarefulProofs`: every step of the
    composition is one of a pool with a single caller that asks for pages of the
    file, or leaves the pool alone (`PoolNext`, `StutterKeeps`), so the lemmas
    there are used as they are, through an instance.
  * `TInv` gives the tree's fields their types. It speaks of the tree only, and
    does not ask for the shape of a tree that `BTreeProofs` has: after a restart
    the pages are what they are.
  * `Calls` says where between two steps of the tree the insert stands: asking
    (`Calling`), with its guards in hand (`Answering`), refused, or writing and
    dropping (`Using`), and that the guards it holds are those of the first
    `asked` pages it needs, each once.
  * `Texts` says that a page's versions are positions in `text`, and that the last
    node there is the tree's own, or will be once the write still in `uses` is
    made. The page a guard shows is the latest version (`VersionIsLatest`), and so
    is a page in the file that no frame has.
* **`OldPagesAlwaysLeftAlone`**: no frame holds a page below `base` (`OldClear`),
  because a page gets into a frame by being asked for and the tree's pages are
  all above (`StepBrings`); what a frame does not hold no eviction writes.
* **`FramesAlwaysSuffice`**: every frame is free, in the LRU list, set aside by the
  scan, in the hands of the call (`Busy`), or lost; those lost are no more than the
  calls that have failed (`Lists`, `FewLost`). A scan that comes up empty has
  found every other frame pinned, pins are guards, and the tree holds at most one
  while it asks for another page (`ExhaustedIsSmall`).

The loops of `search`, `range_scan` and the walks along the chain are recursive
functions of the model. What they compute is shown by taking the first round for
which a claim would fail (`LeastNatural`), since induction itself is out of
reach: its theorem takes an operator as a parameter.
`BTreeAssumption` is all that is assumed: keys are integers, nodes and files have
room for one entry and page, `None` is no value.

Only model-checked:

* liveness (`CallsReturn`, and the counterexample to `HitReturns`), which needs
  `ENABLED`;
* `KeysInOrder` and `ReadBack`, which are about every sequence of bytes rather
  than about steps, and would need an induction over it;
* the absence of deadlock in `lru`, `pool_seq`, `pool_shared`, `btree` and
  `page_file`, which needs `ENABLED` too;
* the counterexamples, which are instances by nature.

## Where the code disagrees with its comments

1. `guard_loses_page`: `evict_one` finds a pin count of 0, lets go of the frame
   and the LRU list, and calls `evict_frame`, which does not look again
   (`buffer_pool.rs:283-287`). A hit in between returns a guard on a frame that
   is then emptied. The comment at line 128 says a page is not replaced while
   its guard lives. Using the guard panics, or shows another page.
2. `lost_update`: between the miss (133) and the insert into the table (169)
   nothing stops a second thread from loading the same page into a second
   frame. Writes through the first guard are not seen by later callers.
   `CURRICULUM.md:181` asks for consistency under concurrent access.
3. `hit_deadlocks`: a hit holds the frame and waits for the LRU list (139),
   the scan holds the LRU list and waits for the frame (276).
4. `pool_leaks_frame`: when `read_page` (155) or `allocate_page` (188) fails,
   the frame obtained for it is in no list any more. One failing fetch is
   enough to make a pool of one frame answer "all frames are pinned" (101) for
   ever.
5. `btree_loses_keys`: an insert that fails after a child was split
   (`btree.rs:83`, `228`, `330`, `368`) leaves the new right node without a
   parent. Keys inserted long before are no longer found by `search`, though
   a scan that starts to their left still meets them, as
   `ChainKeepsInserts` in `btree` shows.

A note asks for what nothing attempts: `CURRICULUM.md:256` wants the index to be
there after a restart, but the root's number is not stored, the tree never
flushes, and `BTree` has no other constructor than `new`.

One comment promises less work than the code does, and no run is about it:
`btree.rs:136` says the scan stops at the first leaf beyond `end_key`, but
entries beyond it are filtered out before the test at line 128 sees them, so
the scan reads every leaf to the end of the chain. Its result is the same.

## What is left out

* The layout of header fields byte by byte, the arithmetic of CRC32, and the
  trailer: its copy of the checksum is compared with nothing.
* Searches and scans that run beside one another. They change no page, and
  inserts exclude them, so all that two of them do to each other happens inside
  the pool, where `pool_shared`, `pool_race` and the counterexamples have any
  callers; `TreeOnPool` has one, so that its theorems are about a tree used by
  one thread at a time.
* A tree below which power fails: nothing reopens a tree, so no code meets its
  pages again. `PageFile` shows what a page may be then.
* The tree in another space than 0 is in `TreeOnPool` (`FileSpace`) but in no
  run: the tree asks for pages of space 0 only, and `TreeSeesItsPages` fails
  before the first insert. The theorem has `FileSpace = 0` as its hypothesis.
* Page number arithmetic near 2^32: page numbers are bounded well below the
  sentinel.
* Liveness of the tree: that a descent ends is `Balanced`, and that an insert
  never gets stuck is the absence of deadlock in `btree`; each call of the pool
  returns by `CallsReturn`.
* The LSN and the `prev`/`next` fields of the page header, which nothing uses.
* Phases 4 to 8 of `CURRICULUM.md` (records, WAL, transactions, locks, SQL):
  not implemented in the repository.
