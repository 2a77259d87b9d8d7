---------------------- MODULE BufferPoolCarefulProofs ----------------------
(***************************************************************************)
(* What careful callers of the pool may rely on: the inductive invariant,  *)
(* which says which call has which frame, what pins count, and what frames *)
(* and file hold; and what follows from it for any number of callers, with *)
(* evictions, file errors and restarts: guards keep their pages, and the   *)
(* pool implements the store of pages.                                     *)
(***************************************************************************)
EXTENDS BufferPoolProofs, FiniteSetTheorems

(***************************************************************************)
(* How callers may share the pool.                                         *)
(***************************************************************************)
\* The call has missed the table, or makes a new page, and has yet to publish it
BringingIn(t) ==
  pc[t] \in {"get_free", "scan", "victim", "unmap", "load", "install", "publish"}

\* A page is not being fetched while it is evicted, no two calls bring one page
\* in at the same time, and pages are asked for under the file's own space
Careful ==
  /\ \A t, u \in Threads :
       pc[t] = "hit_frame" /\ pc[u] \in {"victim", "unmap"} => slot[t] # slot[u]
  /\ \A t, u \in Threads :
       t # u /\ BringingIn(t) /\ BringingIn(u) /\ want[t] # None => want[t] # want[u]
  /\ \A t \in Threads : want[t] # None => want[t].space = FileSpace

\* A pin count has room for every guard and every call there can be
FewGuards ==
  /\ IsFiniteSet(Threads) /\ IsFiniteSet(Handles)
  /\ Cardinality(Threads) + Cardinality(Threads \X Handles) < PinModulus

-----------------------------------------------------------------------------
(***************************************************************************)
(* Which call has which frame.                                             *)
(***************************************************************************)
\* A call has its frame to itself: from choosing it to publishing its page
Owning(t) == pc[t] \in {"victim", "unmap", "load", "install", "publish"}

\* A cached page is in the table, or is about to be
Owned ==
  \A f \in Frames : frames[f] # None =>
    \/ page_table[Cached(f).id] = f
    \/ \E t \in Threads : pc[t] = "publish" /\ slot[t] = f /\ want[t] = Cached(f).id

\* A page that is brought in is not in the table yet
NotThere(t) == BringingIn(t) /\ want[t] # None => page_table[want[t]] = None
Absent == \A t \in Threads : NotThere(t)

\* What a call knows of its frame, and that nothing is wanted between fetches
Knows(t) ==
  /\ pc[t] \in {"idle", "flush_next", "flush"} => want[t] = None
  /\ pc[t] \in {"load", "install"} => frames[slot[t]] = None
  /\ pc[t] = "publish" =>
       frames[slot[t]] # None /\ ~frames[slot[t]].dirty /\ Cached(slot[t]).id = want[t]
  /\ pc[t] \in {"victim", "unmap"} => frames[slot[t]] # None /\ frames[slot[t]].pin = 0
  /\ pc[t] \in {"hit_frame", "hit_lru", "publish_lru"} => page_table[want[t]] = slot[t]
InHand == \A t \in Threads : Knows(t)

\* No two calls have one frame to themselves
OwnSlot ==
  \A t, u \in Threads : Owning(t) /\ Owning(u) /\ slot[t] = slot[u] => t = u

\* Such a frame is not in the LRU order, nor set aside
NotListed ==
  \A t \in Threads : Owning(t) =>
    /\ slot[t] \notin ToSet(lru)
    /\ \A u \in Threads : slot[t] \notin ToSet(candidates[u])

\* Nor has anybody a guard on it
NotGuarded ==
  \A t \in Threads : Owning(t) => \A th \in Held : GuardOf(th).frame # slot[t]

Structure ==
  /\ TableMatchesFrames /\ Owned /\ Absent /\ InHand
  /\ OwnSlot /\ NotListed /\ NotGuarded /\ GuardsKeepPage

(***************************************************************************)
(* What the frames and the file hold.                                      *)
(***************************************************************************)
\* Every frame has the newest version of its page
Newest == \A f \in Frames : frames[f] # None => Cached(f).val = latest[Cached(f).id.no]

\* So has a page that was read and is not in its frame yet
LoadedNewest ==
  \A t \in Threads : pc[t] = "install" =>
    /\ loaded[t].id = want[t]
    /\ loaded[t].val = latest[want[t].no]
    /\ loaded[t].val = file[want[t].no].val

\* A victim is on file before its frame is emptied
Saved ==
  \A t \in Threads : pc[t] = "unmap" => Cached(slot[t]).val = file[Cached(slot[t]).id.no].val

\* A page that is nowhere in memory is on file
Uncached ==
  \A n \in PageNos : n < file_len /\ (\A f \in Frames : frames[f] # None => Cached(f).id.no # n)
    => file[n].val = latest[n]

\* There is nothing past the end of the file
Beyond == \A n \in PageNos : n >= file_len => file[n] = None /\ latest[n] = 0

Contents ==
  /\ Newest /\ CleanMeansOnDisk /\ LoadedNewest
  /\ Saved /\ Uncached /\ Beyond

CInv == RInv /\ Structure /\ PinsCountGuards /\ Contents /\ Running

-----------------------------------------------------------------------------
(***************************************************************************)
(* What a step does to the frames.                                         *)
(***************************************************************************)
\* No frame is filled or emptied, and none changes its page's number ...
KeepsPages ==
  \A k \in Frames :
    /\ frames'[k] = None <=> frames[k] = None
    /\ frames[k] # None => frames'[k].page.id = frames[k].page.id

\* ... its contents, its pin count, or becomes clean or dirty
KeepsValues == \A k \in Frames : frames[k] # None => frames'[k].page.val = frames[k].page.val
KeepsPins   == \A k \in Frames : frames[k] # None => frames'[k].pin = frames[k].pin
KeepsDirty  == \A k \in Frames : frames[k] # None => frames'[k].dirty = frames[k].dirty

\* All but f are left alone
OnlyFrame(f) == \A k \in Frames : k # f => frames'[k] = frames[k]

\* The record updates of the actions change what they name and nothing else:
\* the checksum, without or with the dirty flag,
LEMMA ChecksumUpdate ==
  ASSUME NEW b \in BufferFrame
  PROVE  /\ LET c == [b EXCEPT !.page = WithChecksum(@)]
            IN /\ c # None /\ c.page.id = b.page.id /\ c.page.val = b.page.val
               /\ c.dirty = b.dirty /\ c.pin = b.pin
         /\ LET c == [b EXCEPT !.page = WithChecksum(@), !.dirty = FALSE]
            IN /\ c # None /\ c.page.id = b.page.id /\ c.page.val = b.page.val
               /\ c.dirty = FALSE /\ c.pin = b.pin
PROOF
<1>1. b.page \in Page
  BY Types
<1>2. WithChecksum(b.page).id = b.page.id /\ WithChecksum(b.page).val = b.page.val
  BY <1>1 DEF Page, WithChecksum
<1>3. /\ [b EXCEPT !.page = WithChecksum(@)] # None
      /\ [b EXCEPT !.page = WithChecksum(@), !.dirty = FALSE] # None
  BY Types
<1>4. LET c == [b EXCEPT !.page = WithChecksum(@)]
      IN c.page = WithChecksum(b.page) /\ c.dirty = b.dirty /\ c.pin = b.pin
  BY DEF BufferFrame
<1>5. LET c == [b EXCEPT !.page = WithChecksum(@), !.dirty = FALSE]
      IN c.page = WithChecksum(b.page) /\ c.dirty = FALSE /\ c.pin = b.pin
  BY DEF BufferFrame
<1> QED
  BY <1>2, <1>3, <1>4, <1>5

\* the contents,
LEMMA ValueUpdate ==
  ASSUME NEW b \in BufferFrame, NEW n \in Int
  PROVE  LET c == [b EXCEPT !.page.val = n, !.dirty = TRUE]
         IN /\ c # None /\ c.page.id = b.page.id /\ c.page.val = n
            /\ c.dirty = TRUE /\ c.pin = b.pin
PROOF
<1>1. b.page \in Page
  BY Types
<1>2. [b.page EXCEPT !.val = n].id = b.page.id /\ [b.page EXCEPT !.val = n].val = n
  BY <1>1 DEF Page
<1>3. [b EXCEPT !.page.val = n, !.dirty = TRUE] # None
  BY Types
<1>4. LET c == [b EXCEPT !.page.val = n, !.dirty = TRUE]
      IN c.page = [b.page EXCEPT !.val = n] /\ c.dirty = TRUE /\ c.pin = b.pin
  BY DEF BufferFrame
<1> QED
  BY <1>2, <1>3, <1>4

\* and the pin count
LEMMA PinUpdate ==
  ASSUME NEW b \in BufferFrame, NEW n \in 0 .. PinModulus - 1
  PROVE  LET c == [b EXCEPT !.pin = n]
         IN c # None /\ c.page = b.page /\ c.dirty = b.dirty /\ c.pin = n
PROOF
<1>1. [b EXCEPT !.pin = n] \in BufferFrame
  BY DEF BufferFrame
<1>2. [b EXCEPT !.pin = n] # None
  BY <1>1, Types
<1>3. LET c == [b EXCEPT !.pin = n]
      IN c.page = b.page /\ c.dirty = b.dirty /\ c.pin = n
  BY DEF BufferFrame
<1> QED
  BY <1>2, <1>3

\* A frame that is not empty holds a record
LEMMA FullFrame ==
  ASSUME CInv, NEW f \in Frames, frames[f] # None
  PROVE  frames[f] \in BufferFrame
PROOF
BY DEF CInv, RInv, IInv, TypeOK, SharedTypes

\* Bringing a frame's checksum up to date
LEMMA ChecksumFrames ==
  ASSUME CInv, NEW f \in Frames, frames[f] # None,
         frames' = frames \/ frames' = [frames EXCEPT ![f].page = WithChecksum(@)]
  PROVE  KeepsPages /\ KeepsValues /\ KeepsPins /\ KeepsDirty
PROOF
<1> DEFINE c == [frames[f] EXCEPT !.page = WithChecksum(@)]
<1>1. /\ c # None /\ c.page.id = frames[f].page.id /\ c.page.val = frames[f].page.val
      /\ c.dirty = frames[f].dirty /\ c.pin = frames[f].pin
  BY FullFrame, ChecksumUpdate
<1>2. frames' = frames \/ frames' = [frames EXCEPT ![f] = c]
  OBVIOUS
<1> HIDE DEF c
<1>3. \A k \in Frames : frames'[k] = frames[k] \/ (k = f /\ frames'[k] = c)
  BY <1>2 DEF CInv, RInv, IInv, TypeOK, SharedTypes
<1> QED
  BY <1>1, <1>3 DEF KeepsPages, KeepsValues, KeepsPins, KeepsDirty

\* Cleaning a frame
LEMMA FlushWriteFrames ==
  ASSUME CInv, NEW t \in Threads, FlushWrite(t)
  PROVE  /\ slot[t] \in Frames /\ frames[slot[t]] # None /\ OnlyFrame(slot[t])
         /\ KeepsPages /\ KeepsValues /\ KeepsPins
         /\ frames'[slot[t]].dirty = FALSE
PROOF
<1> DEFINE f == slot[t]
           c == [frames[f] EXCEPT !.page = WithChecksum(@), !.dirty = FALSE]
<1>1. f \in Frames /\ frames[f] # None /\ frames' = [frames EXCEPT ![f] = c]
  BY DEF FlushWrite, Dirty, CInv, RInv, IInv, TypeOK, CallTypes, WithSlot
<1>2. /\ c # None /\ c.page.id = frames[f].page.id /\ c.page.val = frames[f].page.val
      /\ c.dirty = FALSE /\ c.pin = frames[f].pin
  BY <1>1, FullFrame, ChecksumUpdate
<1> HIDE DEF c
<1>3. \A k \in Frames : IF k = f THEN frames'[k] = c ELSE frames'[k] = frames[k]
  BY <1>1 DEF CInv, RInv, IInv, TypeOK, SharedTypes
<1> QED
  BY <1>1, <1>2, <1>3 DEF KeepsPages, KeepsValues, KeepsPins, OnlyFrame

\* Writing through a guard
LEMMA WriteGuardFrames ==
  ASSUME CInv, NEW t \in Threads, NEW h \in Handles, WriteGuard(t, h)
  PROVE  LET f == guards[t][h].frame
         IN /\ f \in Frames /\ frames[f] # None /\ OnlyFrame(f)
            /\ KeepsPages /\ KeepsPins
            /\ frames'[f].dirty = TRUE
            /\ frames'[f].page.val = Newer(latest[guards[t][h].id.no])
PROOF
<1> DEFINE f == guards[t][h].frame
           v == Newer(latest[guards[t][h].id.no])
           c == [frames[f] EXCEPT !.page.val = v, !.dirty = TRUE]
<1>1. guards[t][h] \in PageGuard
  BY DEF WriteGuard, CInv, RInv, IInv, TypeOK, CallTypes
<1>2. f \in Frames /\ frames[f] # None /\ frames' = [frames EXCEPT ![f] = c]
  BY <1>1, Types DEF WriteGuard
<1>3. v \in Int
  <2>1. guards[t][h].id.no \in PageNos
    BY <1>1, Types
  <2> QED
    BY <2>1, VersionTypes DEF CInv, RInv, IInv, TypeOK, SharedTypes
<1> HIDE DEF v
<1>4. /\ c # None /\ c.page.id = frames[f].page.id /\ c.page.val = v
      /\ c.dirty = TRUE /\ c.pin = frames[f].pin
  BY <1>2, <1>3, FullFrame, ValueUpdate
<1> HIDE DEF c
<1>5. \A k \in Frames : IF k = f THEN frames'[k] = c ELSE frames'[k] = frames[k]
  BY <1>2 DEF CInv, RInv, IInv, TypeOK, SharedTypes
<1> QED
  BY <1>2, <1>4, <1>5 DEF KeepsPages, KeepsPins, OnlyFrame, v

\* Another pin count
LEMMA PinFrames ==
  ASSUME CInv, NEW f \in Frames, frames[f] # None, NEW n \in 0 .. PinModulus - 1,
         frames' = [frames EXCEPT ![f].pin = n]
  PROVE  /\ OnlyFrame(f) /\ KeepsPages /\ KeepsValues /\ KeepsDirty
         /\ frames'[f].pin = n
PROOF
<1> DEFINE c == [frames[f] EXCEPT !.pin = n]
<1>1. c # None /\ c.page = frames[f].page /\ c.dirty = frames[f].dirty /\ c.pin = n
  BY FullFrame, PinUpdate
<1>2. frames' = [frames EXCEPT ![f] = c]
  OBVIOUS
<1> HIDE DEF c
<1>3. \A k \in Frames : IF k = f THEN frames'[k] = c ELSE frames'[k] = frames[k]
  BY <1>2 DEF CInv, RInv, IInv, TypeOK, SharedTypes
<1> QED
  BY <1>1, <1>3 DEF KeepsPages, KeepsValues, KeepsDirty, OnlyFrame

-----------------------------------------------------------------------------
(***************************************************************************)
(* Guards and pins.                                                        *)
(***************************************************************************)
\* A guard's page is in its frame and in the table
LEMMA Guarded ==
  ASSUME CInv, NEW t \in Threads, NEW h \in Handles, guards[t][h] # None
  PROVE  LET g == guards[t][h]
         IN /\ g \in PageGuard /\ g.frame \in Frames
            /\ g.id \in PageIds /\ g.id.no \in PageNos
            /\ frames[g.frame] # None /\ Cached(g.frame).id = g.id
            /\ page_table[g.id] = g.frame /\ OnFile(g.id)
PROOF
<1> DEFINE g == guards[t][h]
<1>1. g \in PageGuard /\ g.frame \in Frames /\ g.id \in PageIds /\ g.id.no \in PageNos
  <2>1. g \in PageGuard
    BY DEF CInv, RInv, IInv, TypeOK, CallTypes
  <2> QED
    BY <2>1, Types
<1>2. <<t, h>> \in Held /\ GuardOf(<<t, h>>) = g
  BY DEF Held, GuardOf
<1>3. frames[g.frame] # None /\ Cached(g.frame).id = g.id
  BY <1>2 DEF CInv, Structure, GuardsKeepPage
<1>4. page_table[g.id] = g.frame
  <2>1. \A u \in Threads : Owning(u) => slot[u] # g.frame
    BY <1>2 DEF CInv, Structure, NotGuarded
  <2> QED
    BY <1>1, <1>3, <2>1 DEF CInv, Structure, Owned, Owning
<1>5. OnFile(g.id)
  BY <1>1, <1>3 DEF CInv, RInv, IInv, PagesSelfIdentifying
<1> QED
  BY <1>1, <1>3, <1>4, <1>5

\* The guards on a frame
GuardsOn(f) == {th \in Held : GuardOf(th).frame = f}

\* There are finitely many of them, and of calls
LEMMA PinSets ==
  ASSUME FewGuards, NEW f
  PROVE  /\ IsFiniteSet(GuardsOn(f)) /\ Cardinality(GuardsOn(f)) \in Nat
         /\ IsFiniteSet(Pinning(f)) /\ Cardinality(Pinning(f)) \in Nat
         /\ IsFiniteSet(Threads \X Handles)
         /\ Cardinality(GuardsOn(f)) =< Cardinality(Threads \X Handles)
         /\ Cardinality(Pinning(f)) =< Cardinality(Threads)
         /\ Cardinality(Threads) \in Nat /\ Cardinality(Threads \X Handles) \in Nat
PROOF
<1>1. IsFiniteSet(Threads) /\ IsFiniteSet(Threads \X Handles)
  BY FS_Product DEF FewGuards
<1>2. GuardsOn(f) \subseteq Threads \X Handles /\ Pinning(f) \subseteq Threads
  BY DEF GuardsOn, Held, Pinning
<1>3. /\ IsFiniteSet(GuardsOn(f)) /\ Cardinality(GuardsOn(f)) =< Cardinality(Threads \X Handles)
      /\ IsFiniteSet(Pinning(f)) /\ Cardinality(Pinning(f)) =< Cardinality(Threads)
  BY <1>1, <1>2, FS_Subset
<1> QED
  BY <1>1, <1>3, FS_CardinalityType

\* A pin count, with the sets it counts
LEMMA PinCount ==
  ASSUME CInv, NEW f \in Frames, frames[f] # None
  PROVE  /\ frames[f].pin = Cardinality(GuardsOn(f)) + Cardinality(Pinning(f))
         /\ frames[f].pin \in 0 .. PinModulus - 1
PROOF
<1>1. frames[f].pin = Cardinality(GuardsOn(f)) + Cardinality(Pinning(f))
  BY DEF CInv, PinsCountGuards, GuardsOn
<1>2. frames[f].pin \in 0 .. PinModulus - 1
  BY FullFrame DEF BufferFrame
<1> QED
  BY <1>1, <1>2

\* A set with a member counts for something
LEMMA CountsOne ==
  ASSUME NEW S, IsFiniteSet(S), NEW x \in S
  PROVE  Cardinality(S) > 0
PROOF
BY FS_EmptySet, FS_CardinalityType

\* A frame with pin count 0 has no guard and no call
LEMMA Unpinned ==
  ASSUME CInv, FewGuards, NEW f \in Frames, frames[f] # None, frames[f].pin = 0
  PROVE  GuardsOn(f) = {} /\ Pinning(f) = {}
PROOF
<1>1. Cardinality(GuardsOn(f)) + Cardinality(Pinning(f)) = 0
  BY PinCount
<1>2. \A x \in GuardsOn(f) : Cardinality(GuardsOn(f)) > 0
  BY PinSets, CountsOne
<1>3. \A x \in Pinning(f) : Cardinality(Pinning(f)) > 0
  BY PinSets, CountsOne
<1> QED
  BY <1>1, <1>2, <1>3, PinSets

-----------------------------------------------------------------------------
(***************************************************************************)
(* Which call has which frame, step by step.                               *)
(***************************************************************************)
\* A guard's frame is never empty, nor is a victim: nobody else takes it
LEMMA NeverEmpty ==
  ASSUME CInv, NEW t \in Threads
  PROVE  (\A h \in Handles : ~UseOfEmptyFrame(t, h)) /\ ~VictimGone(t)
PROOF
<1>1. \A h \in Handles : ~UseOfEmptyFrame(t, h)
  BY Guarded DEF UseOfEmptyFrame
<1>2. ~VictimGone(t)
  BY DEF CInv, Structure, InHand, Knows, VictimGone
<1> QED
  BY <1>1, <1>2

\* Finding a page in the table
LEMMA FetchHitStructure ==
  ASSUME CInv, Careful, NEW t \in Threads, NEW p \in PageIds, FetchHit(t, p)
  PROVE  Structure'
PROOF
<1>1. TableMatchesFrames' /\ Owned' /\ GuardsKeepPage'
  BY DEF FetchHit, MayFetch, pool, index, scratch, caller, CInv, Structure,
    RInv, IInv, TypeOK, CallTypes, SharedTypes, TableMatchesFrames, Owned,
    GuardsKeepPage, Cached, Held, GuardOf
<1>2. Absent' /\ InHand' /\ OwnSlot'
  BY DEF FetchHit, MayFetch, pool, index, scratch, caller, CInv, Structure,
    RInv, IInv, TypeOK, CallTypes, SharedTypes, Absent, NotThere, BringingIn,
    InHand, Knows, Cached, OwnSlot, Owning
<1>3. NotListed' /\ NotGuarded'
  BY DEF FetchHit, MayFetch, pool, index, scratch, caller, CInv, Structure,
    RInv, IInv, TypeOK, CallTypes, SharedTypes, NotListed, NotGuarded,
    Owning, Held, GuardOf
<1> QED
  BY <1>1, <1>2, <1>3 DEF Structure

\* Missing a page
LEMMA FetchMissStructure ==
  ASSUME CInv, Careful, NEW t \in Threads, NEW p \in PageIds, FetchMiss(t, p)
  PROVE  Structure'
PROOF
<1>1. TableMatchesFrames' /\ Owned' /\ GuardsKeepPage'
  BY DEF FetchMiss, MayFetch, pool, index, scratch, caller, CInv, Structure,
    RInv, IInv, TypeOK, CallTypes, SharedTypes, TableMatchesFrames, Owned,
    GuardsKeepPage, Cached, Held, GuardOf
<1>2. Absent' /\ InHand' /\ OwnSlot'
  BY DEF FetchMiss, MayFetch, pool, index, scratch, caller, CInv, Structure,
    RInv, IInv, TypeOK, CallTypes, SharedTypes, Absent, NotThere, BringingIn,
    InHand, Knows, Cached, OwnSlot, Owning
<1>3. NotListed' /\ NotGuarded'
  BY DEF FetchMiss, MayFetch, pool, index, scratch, caller, CInv, Structure,
    RInv, IInv, TypeOK, CallTypes, SharedTypes, NotListed, NotGuarded,
    Owning, Held, GuardOf
<1> QED
  BY <1>1, <1>2, <1>3 DEF Structure

\* Starting flush_page
LEMMA FlushPageStructure ==
  ASSUME CInv, Careful, NEW t \in Threads, NEW p \in PageIds, FlushPage(t, p)
  PROVE  Structure'
PROOF
<1>1. TableMatchesFrames' /\ Owned' /\ GuardsKeepPage'
  BY DEF FlushPage, StartFlush, Goto, pool, index, caller, CInv, Structure,
    RInv, IInv, TypeOK, CallTypes, SharedTypes, TableMatchesFrames, Owned,
    GuardsKeepPage, Cached, Held, GuardOf
<1>2. Absent' /\ InHand' /\ OwnSlot'
  BY DEF FlushPage, StartFlush, Goto, pool, index, caller, CInv, Structure,
    RInv, IInv, TypeOK, CallTypes, SharedTypes, Absent, NotThere, BringingIn,
    InHand, Knows, Cached, OwnSlot, Owning
<1>3. NotListed' /\ NotGuarded'
  BY DEF FlushPage, StartFlush, Goto, pool, index, caller, CInv, Structure,
    RInv, IInv, TypeOK, CallTypes, SharedTypes, NotListed, NotGuarded,
    Owning, Held, GuardOf
<1> QED
  BY <1>1, <1>2, <1>3 DEF Structure

\* Starting flush_all
LEMMA FlushAllStructure ==
  ASSUME CInv, Careful, NEW t \in Threads, FlushAll(t)
  PROVE  Structure'
PROOF
<1>1. TableMatchesFrames' /\ Owned' /\ GuardsKeepPage'
  BY DEF FlushAll, StartFlush, Goto, pool, index, caller, CInv, Structure,
    RInv, IInv, TypeOK, CallTypes, SharedTypes, TableMatchesFrames, Owned,
    GuardsKeepPage, Cached, Held, GuardOf
<1>2. Absent' /\ InHand' /\ OwnSlot'
  BY DEF FlushAll, StartFlush, Goto, pool, index, caller, CInv, Structure,
    RInv, IInv, TypeOK, CallTypes, SharedTypes, Absent, NotThere, BringingIn,
    InHand, Knows, Cached, OwnSlot, Owning
<1>3. NotListed' /\ NotGuarded'
  BY DEF FlushAll, StartFlush, Goto, pool, index, caller, CInv, Structure,
    RInv, IInv, TypeOK, CallTypes, SharedTypes, NotListed, NotGuarded,
    Owning, Held, GuardOf
<1> QED
  BY <1>1, <1>2, <1>3 DEF Structure

\* Locking the LRU list
LEMMA StartScanStructure ==
  ASSUME CInv, Careful, NEW t \in Threads, StartScan(t)
  PROVE  Structure'
PROOF
<1>1. TableMatchesFrames' /\ Owned' /\ GuardsKeepPage'
  BY DEF StartScan, Goto, pool, index, scratch, caller, CInv, Structure, RInv,
    IInv, TypeOK, CallTypes, SharedTypes, TableMatchesFrames, Owned,
    GuardsKeepPage, Cached, Held, GuardOf
<1>2. Absent' /\ InHand' /\ OwnSlot'
  BY DEF StartScan, Goto, pool, index, scratch, caller, CInv, Structure, RInv,
    IInv, TypeOK, CallTypes, SharedTypes, Absent, NotThere, BringingIn, InHand, Knows,
    Cached, OwnSlot, Owning
<1>3. NotListed' /\ NotGuarded'
  BY DEF StartScan, Goto, pool, index, scratch, caller, CInv, Structure, RInv,
    IInv, TypeOK, CallTypes, SharedTypes, NotListed, NotGuarded, Owning,
    Held, GuardOf
<1> QED
  BY <1>1, <1>2, <1>3 DEF Structure

\* Giving up with NoFreeFrames
LEMMA ScanExhaustedStructure ==
  ASSUME CInv, Careful, NEW t \in Threads, ScanExhausted(t)
  PROVE  Structure'
PROOF
<1>1. TableMatchesFrames' /\ Owned' /\ GuardsKeepPage'
  BY DEF ScanExhausted, Return, caller, CInv, Structure, RInv, IInv, TypeOK,
    CallTypes, SharedTypes, TableMatchesFrames, Owned, GuardsKeepPage,
    Cached, Held, GuardOf
<1>2. Absent' /\ InHand' /\ OwnSlot'
  BY DEF ScanExhausted, Return, caller, CInv, Structure, RInv, IInv, TypeOK,
    CallTypes, SharedTypes, Absent, NotThere, BringingIn, InHand, Knows, Cached, OwnSlot,
    Owning
<1>3. NotListed' /\ NotGuarded'
  BY DEF ScanExhausted, Return, caller, CInv, Structure, RInv, IInv, TypeOK,
    CallTypes, SharedTypes, NotListed, NotGuarded, Owning, Held, GuardOf
<1> QED
  BY <1>1, <1>2, <1>3 DEF Structure

\* Reading a page
LEMMA ReadPageStructure ==
  ASSUME CInv, Careful, NEW t \in Threads, ReadPage(t)
  PROVE  Structure'
PROOF
<1>1. TableMatchesFrames' /\ Owned' /\ GuardsKeepPage'
  BY DEF ReadPage, Goto, pool, index, caller, CInv, Structure, RInv, IInv,
    TypeOK, CallTypes, SharedTypes, TableMatchesFrames, Owned,
    GuardsKeepPage, Cached, Held, GuardOf
<1>2. Absent' /\ InHand' /\ OwnSlot'
  BY DEF ReadPage, Goto, pool, index, caller, CInv, Structure, RInv, IInv,
    TypeOK, CallTypes, SharedTypes, Absent, NotThere, BringingIn, InHand, Knows, Cached,
    OwnSlot, Owning
<1>3. NotListed' /\ NotGuarded'
  BY DEF ReadPage, Goto, pool, index, caller, CInv, Structure, RInv, IInv,
    TypeOK, CallTypes, SharedTypes, NotListed, NotGuarded, Owning, Held,
    GuardOf
<1> QED
  BY <1>1, <1>2, <1>3 DEF Structure

\* An error from the file
LEMMA LoadFailsStructure ==
  ASSUME CInv, Careful, NEW t \in Threads, LoadFails(t)
  PROVE  Structure'
PROOF
<1>1. TableMatchesFrames' /\ Owned' /\ GuardsKeepPage'
  BY DEF LoadFails, Return, pool, index, scratch, caller, CInv, Structure,
    RInv, IInv, TypeOK, CallTypes, SharedTypes, TableMatchesFrames, Owned,
    GuardsKeepPage, Cached, Held, GuardOf
<1>2. Absent' /\ InHand' /\ OwnSlot'
  BY DEF LoadFails, Return, pool, index, scratch, caller, CInv, Structure,
    RInv, IInv, TypeOK, CallTypes, SharedTypes, Absent, NotThere, BringingIn,
    InHand, Knows, Cached, OwnSlot, Owning
<1>3. NotListed' /\ NotGuarded'
  BY DEF LoadFails, Return, pool, index, scratch, caller, CInv, Structure,
    RInv, IInv, TypeOK, CallTypes, SharedTypes, NotListed, NotGuarded,
    Owning, Held, GuardOf
<1> QED
  BY <1>1, <1>2, <1>3 DEF Structure

\* Passing over a clean frame
LEMMA FlushCleanStructure ==
  ASSUME CInv, Careful, NEW t \in Threads, FlushClean(t)
  PROVE  Structure'
PROOF
<1>1. TableMatchesFrames' /\ Owned' /\ GuardsKeepPage'
  BY DEF FlushClean, AfterFlush, pool, index, scratch, caller, CInv, Structure,
    RInv, IInv, TypeOK, CallTypes, SharedTypes, TableMatchesFrames, Owned,
    GuardsKeepPage, Cached, Held, GuardOf
<1>2. Absent' /\ InHand' /\ OwnSlot'
  BY DEF FlushClean, AfterFlush, pool, index, scratch, caller, CInv, Structure,
    RInv, IInv, TypeOK, CallTypes, SharedTypes, Absent, NotThere, BringingIn,
    InHand, Knows, Cached, OwnSlot, Owning
<1>3. NotListed' /\ NotGuarded'
  BY DEF FlushClean, AfterFlush, pool, index, scratch, caller, CInv, Structure,
    RInv, IInv, TypeOK, CallTypes, SharedTypes, NotListed, NotGuarded,
    Owning, Held, GuardOf
<1> QED
  BY <1>1, <1>2, <1>3 DEF Structure

\* Making a new page begins with no page number
LEMMA StartNewPageStructure ==
  ASSUME CInv, NEW t \in Threads, StartNewPage(t)
  PROVE  Structure'
PROOF
<1>1. TableMatchesFrames' /\ Owned' /\ GuardsKeepPage'
  BY DEF StartNewPage, Goto, MayFetch, pool, index, scratch, caller, CInv,
    Structure, RInv, IInv, TypeOK, CallTypes, SharedTypes, TableMatchesFrames,
    Owned, GuardsKeepPage, Cached, Held, GuardOf
<1>2. Absent' /\ InHand' /\ OwnSlot'
  BY DEF StartNewPage, Goto, MayFetch, pool, index, scratch, caller, CInv,
    Structure, RInv, IInv, TypeOK, CallTypes, SharedTypes, Absent, NotThere, BringingIn,
    InHand, Knows, Cached, OwnSlot, Owning
<1>3. NotListed' /\ NotGuarded'
  BY DEF StartNewPage, Goto, MayFetch, pool, index, scratch, caller, CInv,
    Structure, RInv, IInv, TypeOK, CallTypes, SharedTypes, NotListed,
    NotGuarded, Owning, Held, GuardOf
<1> QED
  BY <1>1, <1>2, <1>3 DEF Structure

\* Nothing happens to the calls of other threads, and no guard is made
OthersWait(t) ==
  \A u \in Threads : u # t => pc'[u] = pc[u] /\ want'[u] = want[u] /\ slot'[u] = slot[u]
NoNewGuard ==
  \A u \in Threads, k \in Handles : guards'[u][k] # None => guards'[u][k] = guards[u][k]

\* A step that leaves every page in its frame
LEMMA KeptPages ==
  ASSUME CInv, NEW t \in Threads, pc[t] # "publish",
         KeepsPages, OthersWait(t), NoNewGuard, UNCHANGED page_table
  PROVE  TableMatchesFrames' /\ Owned' /\ GuardsKeepPage'
PROOF
<1>1. TableMatchesFrames'
  BY DEF CInv, Structure, TableMatchesFrames, Cached, KeepsPages, RInv, IInv, TypeOK,
    SharedTypes, MaybeFrame
<1>2. Owned'
  <2> SUFFICES ASSUME NEW f \in Frames, frames'[f] # None
               PROVE  \/ page_table[frames'[f].page.id] = f
                      \/ \E u \in Threads : /\ pc'[u] = "publish" /\ slot'[u] = f
                                            /\ want'[u] = frames'[f].page.id
    BY DEF Owned, Cached
  <2>1. frames[f] # None /\ frames'[f].page.id = Cached(f).id
    BY DEF KeepsPages, Cached
  <2> QED
    BY <2>1 DEF CInv, Structure, Owned, OthersWait
<1>3. GuardsKeepPage'
  <2> SUFFICES ASSUME NEW u \in Threads, NEW k \in Handles, guards'[u][k] # None
               PROVE  /\ frames'[guards'[u][k].frame] # None
                      /\ frames'[guards'[u][k].frame].page.id = guards'[u][k].id
    BY DEF GuardsKeepPage, Held, GuardOf, Cached
  <2>1. guards'[u][k] = guards[u][k]
    BY DEF NoNewGuard
  <2> QED
    BY <2>1, Guarded DEF KeepsPages, Cached
<1> QED
  BY <1>1, <1>2, <1>3

\* A step that gives no call a frame of its own
LEMMA KeptOwners ==
  ASSUME CInv, NEW t \in Threads, OthersWait(t), NoNewGuard,
         Owning(t)' => Owning(t) /\ slot'[t] = slot[t],
         UNCHANGED <<lru, candidates>>
  PROVE  OwnSlot' /\ NotListed' /\ NotGuarded'
PROOF
<1>1. \A u \in Threads : Owning(u)' => Owning(u) /\ slot'[u] = slot[u]
  BY DEF OthersWait, Owning
<1>2. NotGuarded'
  <2> SUFFICES ASSUME NEW u \in Threads, Owning(u)',
                      NEW v \in Threads, NEW k \in Handles, guards'[v][k] # None
               PROVE  guards'[v][k].frame # slot'[u]
    BY DEF NotGuarded, Held, GuardOf
  <2>1. guards'[v][k] = guards[v][k]
    BY DEF NoNewGuard
  <2>2. <<v, k>> \in Held /\ GuardOf(<<v, k>>) = guards[v][k]
    BY <2>1 DEF Held, GuardOf
  <2> QED
    BY <1>1, <2>1, <2>2 DEF CInv, Structure, NotGuarded
<1> QED
  BY <1>1, <1>2 DEF CInv, Structure, OwnSlot, NotListed

\* A step that leaves every page in its frame, and in the hands of other calls
LEMMA KeptHands ==
  ASSUME CInv, NEW t \in Threads, KeepsPages, OthersWait(t), UNCHANGED page_table,
         \A u \in Threads : u # t /\ pc[u] \in {"victim", "unmap"} =>
           frames'[slot[u]].pin = frames[slot[u]].pin,
         \A u \in Threads : u # t /\ pc[u] = "publish" /\ ~frames[slot[u]].dirty =>
           ~frames'[slot[u]].dirty
  PROVE  \A u \in Threads : u # t => Knows(u)' /\ NotThere(u)'
PROOF
<1> SUFFICES ASSUME NEW u \in Threads, u # t
             PROVE  Knows(u)' /\ NotThere(u)'
  OBVIOUS
<1>1. /\ pc'[u] = pc[u] /\ want'[u] = want[u] /\ slot'[u] = slot[u]
      /\ pc[u] \in WithSlot => slot[u] \in Frames
  BY DEF OthersWait, CInv, RInv, IInv, TypeOK, CallTypes
<1>2. Knows(u) /\ NotThere(u)
  BY DEF CInv, Structure, InHand, Absent
<1>3. NotThere(u)'
  BY <1>1, <1>2 DEF NotThere, BringingIn
<1>4. Knows(u)'
  BY <1>1, <1>2 DEF Knows, KeepsPages, Cached, WithSlot
<1> QED
  BY <1>3, <1>4

\* A call's own frame
LEMMA OwnFrames ==
  ASSUME CInv, NEW u \in Threads, Owning(u)
  PROVE  /\ slot[u] \in Frames
         /\ pc[u] \in {"victim", "unmap", "publish"} => frames[slot[u]] # None
PROOF
BY DEF CInv, RInv, IInv, TypeOK, CallTypes, WithSlot, Owning, Structure, InHand, Knows

\* A guard is on another one
LEMMA GuardedApart ==
  ASSUME CInv, NEW t \in Threads, NEW h \in Handles, guards[t][h] # None,
         NEW u \in Threads, Owning(u)
  PROVE  slot[u] # guards[t][h].frame
PROOF
<1>1. <<t, h>> \in Held /\ GuardOf(<<t, h>>) = guards[t][h]
  BY DEF Held, GuardOf
<1> QED
  BY <1>1 DEF CInv, Structure, NotGuarded

\* One user fewer
LEMMA DropGuardPin ==
  ASSUME CInv, FewGuards, NEW t \in Threads, NEW h \in Handles, DropGuard(t, h)
  PROVE  LET f == guards[t][h].frame
         IN /\ f \in Frames /\ frames[f] # None /\ frames[f].pin \in Nat
            /\ OnlyFrame(f) /\ KeepsPages /\ KeepsValues /\ KeepsDirty
            /\ frames'[f].pin = frames[f].pin - 1
            /\ guards' = [guards EXCEPT ![t][h] = None]
            /\ NoNewGuard /\ UNCHANGED call
PROOF
<1> DEFINE f == guards[t][h].frame
           n == frames[f].pin - 1
<1>1. guards[t][h] # None /\ f \in Frames /\ frames[f] # None
  BY Guarded DEF DropGuard
<1>2. <<t, h>> \in GuardsOn(f)
  BY <1>1 DEF GuardsOn, Held, GuardOf
<1>3. frames[f].pin > 0 /\ frames[f].pin \in 0 .. PinModulus - 1
  BY <1>1, <1>2, PinCount, PinSets, CountsOne
<1>4. n \in 0 .. PinModulus - 1
  BY <1>3, ConstantsAssumption
<1>5. /\ frames' = [frames EXCEPT ![f].pin = n]
      /\ guards' = [guards EXCEPT ![t][h] = None] /\ UNCHANGED call
  BY <1>1, <1>3 DEF DropGuard, Decremented
<1> HIDE DEF n
<1>6. OnlyFrame(f) /\ KeepsPages /\ KeepsValues /\ KeepsDirty /\ frames'[f].pin = n
  BY <1>1, <1>4, <1>5, PinFrames
<1>7. NoNewGuard
  BY <1>5 DEF NoNewGuard, CInv, RInv, IInv, TypeOK, CallTypes
<1> QED
  BY <1>1, <1>3, <1>5, <1>6, <1>7 DEF n

\* One user more, and room to count it
LEMMA HitPinPin ==
  ASSUME CInv, FewGuards, NEW t \in Threads, HitPin(t)
  PROVE  /\ slot[t] \in Frames /\ frames[slot[t]] # None /\ frames[slot[t]].pin \in Nat
         /\ OnlyFrame(slot[t]) /\ KeepsPages /\ KeepsValues /\ KeepsDirty
         /\ frames'[slot[t]].pin = frames[slot[t]].pin + 1
         /\ Goto(t, "hit_lru")
PROOF
<1> DEFINE f == slot[t]
           n == frames[f].pin + 1
<1>1. pc[t] = "hit_frame" /\ f \in Frames /\ want[t] \in PageIds /\ f # None
  BY Types DEF HitPin, CInv, RInv, IInv, TypeOK, CallTypes, WithSlot, WithWanted
<1>2. frames[f] # None
  BY <1>1 DEF CInv, Structure, InHand, Knows, TableMatchesFrames
<1>3. frames[f].pin + 1 < PinModulus
  <2>1. Cardinality(Pinning(f)) < Cardinality(Threads)
    <3>1. Pinning(f) \subseteq Threads /\ t \notin Pinning(f)
      BY <1>1 DEF Pinning
    <3>2. IsFiniteSet(Threads) /\ Pinning(f) # Threads
      BY <3>1 DEF FewGuards
    <3> QED
      BY <3>1, <3>2, FS_Subset, FS_CardinalityType, PinSets
  <2>2. /\ frames[f].pin = Cardinality(GuardsOn(f)) + Cardinality(Pinning(f))
        /\ Cardinality(GuardsOn(f)) =< Cardinality(Threads \X Handles)
    BY <1>1, <1>2, PinCount, PinSets
  <2>3. /\ Cardinality(GuardsOn(f)) \in Nat /\ Cardinality(Pinning(f)) \in Nat
        /\ Cardinality(Threads) \in Nat /\ Cardinality(Threads \X Handles) \in Nat
    BY PinSets
  <2> QED
    BY <2>1, <2>2, <2>3, ConstantsAssumption DEF FewGuards
<1>4. frames[f].pin \in 0 .. PinModulus - 1
  BY <1>1, <1>2, PinCount
<1>5. n \in 0 .. PinModulus - 1
  BY <1>3, <1>4, ConstantsAssumption
<1>6. frames' = [frames EXCEPT ![f].pin = n] /\ Goto(t, "hit_lru")
  BY <1>2, <1>3, <1>4, ConstantsAssumption DEF HitPin, Incremented
<1> HIDE DEF n
<1>7. OnlyFrame(f) /\ KeepsPages /\ KeepsValues /\ KeepsDirty /\ frames'[f].pin = n
  BY <1>1, <1>2, <1>5, <1>6, PinFrames
<1> QED
  BY <1>1, <1>2, <1>4, <1>6, <1>7 DEF n

\* Saving a victim
LEMMA VictimSavedStructure ==
  ASSUME CInv, NEW t \in Threads, VictimSaved(t)
  PROVE  Structure'
PROOF
<1>1. /\ pc[t] = "victim" /\ pc' = [pc EXCEPT ![t] = "unmap"]
      /\ UNCHANGED <<want, slot, page_table, lru, candidates, guards>>
      /\ slot[t] \in Frames /\ frames[slot[t]] # None
      /\ frames' = frames \/ frames' = [frames EXCEPT ![slot[t]].page = WithChecksum(@)]
  BY DEF VictimSaved, Goto, index, scratch, caller, CInv, RInv, IInv, TypeOK, CallTypes, WithSlot
<1>2. KeepsPages /\ KeepsPins /\ KeepsDirty
  BY <1>1, ChecksumFrames
<1>3. OthersWait(t) /\ NoNewGuard /\ pc'[t] = "unmap"
  BY <1>1 DEF OthersWait, NoNewGuard, CInv, RInv, IInv, TypeOK, CallTypes
<1>4. TableMatchesFrames' /\ Owned' /\ GuardsKeepPage'
  BY <1>1, <1>2, <1>3, KeptPages
<1>5. OwnSlot' /\ NotListed' /\ NotGuarded'
  BY <1>1, <1>3, KeptOwners DEF Owning
<1>6. \A u \in Threads : u # t => Knows(u)' /\ NotThere(u)'
  <2>1. \A u \in Threads : pc[u] \in {"victim", "unmap"} =>
          frames'[slot[u]].pin = frames[slot[u]].pin
    BY <1>2, OwnFrames DEF KeepsPins, Owning
  <2>2. \A u \in Threads : pc[u] = "publish" /\ ~frames[slot[u]].dirty =>
          ~frames'[slot[u]].dirty
    BY <1>2, OwnFrames DEF KeepsDirty, Owning
  <2> QED
    BY <1>1, <1>2, <1>3, <2>1, <2>2, KeptHands
<1>7. Knows(t)' /\ NotThere(t)'
  BY <1>1, <1>2, <1>3
  DEF CInv, Structure, InHand, Absent, Knows, NotThere, BringingIn, KeepsPages, KeepsPins
<1> QED
  BY <1>4, <1>5, <1>6, <1>7 DEF Structure, InHand, Absent

\* A victim that cannot be written
LEMMA VictimWriteFailsStructure ==
  ASSUME CInv, NEW t \in Threads, VictimWriteFails(t)
  PROVE  Structure'
PROOF
<1>1. /\ pc[t] = "victim" /\ pc' = [pc EXCEPT ![t] = "idle"]
      /\ want' = [want EXCEPT ![t] = None] /\ slot' = [slot EXCEPT ![t] = None]
      /\ UNCHANGED <<page_table, lru, candidates, guards>>
      /\ slot[t] \in Frames /\ frames[slot[t]] # None
      /\ frames' = [frames EXCEPT ![slot[t]].page = WithChecksum(@)]
  BY DEF VictimWriteFails, Return, Dirty, index, scratch, caller, CInv, RInv, IInv, TypeOK,
    CallTypes, WithSlot
<1>2. KeepsPages /\ KeepsPins /\ KeepsDirty
  BY <1>1, ChecksumFrames
<1>3. OthersWait(t) /\ NoNewGuard /\ pc'[t] = "idle" /\ want'[t] = None
  BY <1>1 DEF OthersWait, NoNewGuard, CInv, RInv, IInv, TypeOK, CallTypes
<1>4. TableMatchesFrames' /\ Owned' /\ GuardsKeepPage'
  BY <1>1, <1>2, <1>3, KeptPages
<1>5. OwnSlot' /\ NotListed' /\ NotGuarded'
  BY <1>1, <1>3, KeptOwners DEF Owning
<1>6. \A u \in Threads : u # t => Knows(u)' /\ NotThere(u)'
  <2>1. \A u \in Threads : pc[u] \in {"victim", "unmap"} =>
          frames'[slot[u]].pin = frames[slot[u]].pin
    BY <1>2, OwnFrames DEF KeepsPins, Owning
  <2>2. \A u \in Threads : pc[u] = "publish" /\ ~frames[slot[u]].dirty =>
          ~frames'[slot[u]].dirty
    BY <1>2, OwnFrames DEF KeepsDirty, Owning
  <2> QED
    BY <1>1, <1>2, <1>3, <2>1, <2>2, KeptHands
<1>7. Knows(t)' /\ NotThere(t)'
  BY <1>3 DEF Knows, NotThere, BringingIn
<1> QED
  BY <1>4, <1>5, <1>6, <1>7 DEF Structure, InHand, Absent

\* A dirty frame is written
LEMMA FlushWriteStructure ==
  ASSUME CInv, NEW t \in Threads, FlushWrite(t)
  PROVE  Structure'
PROOF
<1>1. /\ pc[t] = "flush" /\ slot' = [slot EXCEPT ![t] = None]
      /\ \E l \in {"idle", "flush_next"} : pc' = [pc EXCEPT ![t] = l]
      /\ UNCHANGED <<want, page_table, lru, candidates, guards>>
  BY DEF FlushWrite, AfterFlush, index, scratch, caller
<1>2. /\ KeepsPages /\ KeepsPins
      /\ \A k \in Frames : frames[k] # None /\ ~frames[k].dirty => ~frames'[k].dirty
  BY FlushWriteFrames DEF OnlyFrame
<1>3. OthersWait(t) /\ NoNewGuard /\ pc'[t] \in {"idle", "flush_next"} /\ want'[t] = None
  BY <1>1 DEF OthersWait, NoNewGuard, CInv, RInv, IInv, TypeOK, CallTypes, Structure, InHand, Knows
<1>4. TableMatchesFrames' /\ Owned' /\ GuardsKeepPage'
  BY <1>1, <1>2, <1>3, KeptPages
<1>5. OwnSlot' /\ NotListed' /\ NotGuarded'
  BY <1>1, <1>3, KeptOwners DEF Owning
<1>6. \A u \in Threads : u # t => Knows(u)' /\ NotThere(u)'
  <2>1. \A u \in Threads : pc[u] \in {"victim", "unmap"} =>
          frames'[slot[u]].pin = frames[slot[u]].pin
    BY <1>2, OwnFrames DEF KeepsPins, Owning
  <2>2. \A u \in Threads : pc[u] = "publish" /\ ~frames[slot[u]].dirty =>
          ~frames'[slot[u]].dirty
    BY <1>2, OwnFrames DEF Owning
  <2> QED
    BY <1>1, <1>2, <1>3, <2>1, <2>2, KeptHands
<1>7. Knows(t)' /\ NotThere(t)'
  BY <1>3 DEF Knows, NotThere, BringingIn
<1> QED
  BY <1>4, <1>5, <1>6, <1>7 DEF Structure, InHand, Absent

\* A dirty frame cannot be written
LEMMA FlushFailsStructure ==
  ASSUME CInv, NEW t \in Threads, FlushFails(t)
  PROVE  Structure'
PROOF
<1>1. /\ pc[t] = "flush" /\ pc' = [pc EXCEPT ![t] = "idle"]
      /\ want' = [want EXCEPT ![t] = None] /\ slot' = [slot EXCEPT ![t] = None]
      /\ UNCHANGED <<page_table, lru, candidates, guards>>
      /\ slot[t] \in Frames /\ frames[slot[t]] # None
      /\ frames' = [frames EXCEPT ![slot[t]].page = WithChecksum(@)]
  BY DEF FlushFails, Return, Dirty, index, caller, CInv, RInv, IInv, TypeOK, CallTypes, WithSlot
<1>2. KeepsPages /\ KeepsPins /\ KeepsDirty
  BY <1>1, ChecksumFrames
<1>3. OthersWait(t) /\ NoNewGuard /\ pc'[t] = "idle" /\ want'[t] = None
  BY <1>1 DEF OthersWait, NoNewGuard, CInv, RInv, IInv, TypeOK, CallTypes
<1>4. TableMatchesFrames' /\ Owned' /\ GuardsKeepPage'
  BY <1>1, <1>2, <1>3, KeptPages
<1>5. OwnSlot' /\ NotListed' /\ NotGuarded'
  BY <1>1, <1>3, KeptOwners DEF Owning
<1>6. \A u \in Threads : u # t => Knows(u)' /\ NotThere(u)'
  <2>1. \A u \in Threads : pc[u] \in {"victim", "unmap"} =>
          frames'[slot[u]].pin = frames[slot[u]].pin
    BY <1>2, OwnFrames DEF KeepsPins, Owning
  <2>2. \A u \in Threads : pc[u] = "publish" /\ ~frames[slot[u]].dirty =>
          ~frames'[slot[u]].dirty
    BY <1>2, OwnFrames DEF KeepsDirty, Owning
  <2> QED
    BY <1>1, <1>2, <1>3, <2>1, <2>2, KeptHands
<1>7. Knows(t)' /\ NotThere(t)'
  BY <1>3 DEF Knows, NotThere, BringingIn
<1> QED
  BY <1>4, <1>5, <1>6, <1>7 DEF Structure, InHand, Absent

\* A page is written through a guard: nobody has its frame to itself
LEMMA WriteGuardStructure ==
  ASSUME CInv, NEW t \in Threads, NEW h \in Handles, WriteGuard(t, h)
  PROVE  Structure'
PROOF
<1> DEFINE f == guards[t][h].frame
<1>1. /\ pc[t] = "idle" /\ guards[t][h] # None
      /\ UNCHANGED <<pc, want, slot, page_table, lru, candidates, guards>>
  BY DEF WriteGuard, index, call, scratch
<1>2. KeepsPages /\ OnlyFrame(f)
  BY WriteGuardFrames
<1>2a. \A u \in Threads : Owning(u) => frames'[slot[u]] = frames[slot[u]]
  BY <1>1, <1>2, OwnFrames, GuardedApart DEF OnlyFrame
<1>3. OthersWait(t) /\ NoNewGuard
  BY <1>1 DEF OthersWait, NoNewGuard
<1>4. TableMatchesFrames' /\ Owned' /\ GuardsKeepPage'
  BY <1>1, <1>2, <1>3, KeptPages
<1>5. OwnSlot' /\ NotListed' /\ NotGuarded'
  BY <1>1, <1>3, KeptOwners DEF Owning
<1>6. \A u \in Threads : u # t => Knows(u)' /\ NotThere(u)'
  BY <1>1, <1>2, <1>2a, <1>3, KeptHands DEF Owning
<1>7. Knows(t)' /\ NotThere(t)'
  BY <1>1 DEF CInv, Structure, InHand, Knows, NotThere, BringingIn
<1> QED
  BY <1>4, <1>5, <1>6, <1>7 DEF Structure, InHand, Absent

\* A guard is dropped
LEMMA DropGuardStructure ==
  ASSUME CInv, FewGuards, NEW t \in Threads, NEW h \in Handles, DropGuard(t, h)
  PROVE  Structure'
PROOF
<1> DEFINE f == guards[t][h].frame
<1>1. /\ pc[t] = "idle" /\ guards[t][h] # None
      /\ UNCHANGED <<pc, want, slot, page_table, lru, candidates>>
  BY DropGuardPin DEF DropGuard, index, call, scratch
<1>2. KeepsPages /\ OnlyFrame(f)
  BY DropGuardPin
<1>2a. \A u \in Threads : Owning(u) => frames'[slot[u]] = frames[slot[u]]
  BY <1>1, <1>2, OwnFrames, GuardedApart DEF OnlyFrame
<1>3. OthersWait(t) /\ NoNewGuard
  BY <1>1, DropGuardPin DEF OthersWait
<1>4. TableMatchesFrames' /\ Owned' /\ GuardsKeepPage'
  BY <1>1, <1>2, <1>3, KeptPages
<1>5. OwnSlot' /\ NotListed' /\ NotGuarded'
  BY <1>1, <1>3, KeptOwners DEF Owning
<1>6. \A u \in Threads : u # t => Knows(u)' /\ NotThere(u)'
  BY <1>1, <1>2, <1>2a, <1>3, KeptHands DEF Owning
<1>7. Knows(t)' /\ NotThere(t)'
  BY <1>1 DEF CInv, Structure, InHand, Knows, NotThere, BringingIn
<1> QED
  BY <1>4, <1>5, <1>6, <1>7 DEF Structure, InHand, Absent

\* A hit pins its frame, which is no victim
LEMMA HitPinStructure ==
  ASSUME CInv, FewGuards, Careful, NEW t \in Threads, HitPin(t)
  PROVE  Structure'
PROOF
<1>1. /\ pc[t] = "hit_frame" /\ pc' = [pc EXCEPT ![t] = "hit_lru"]
      /\ UNCHANGED <<want, slot, page_table, lru, candidates, guards>>
  <2>1. Goto(t, "hit_lru")
    BY HitPinPin
  <2> QED
    BY <2>1 DEF HitPin, Goto, index, scratch, caller
<1>2. /\ KeepsPages /\ KeepsDirty
      /\ \A k \in Frames : frames[k] # None /\ k # slot[t] => frames'[k].pin = frames[k].pin
  BY HitPinPin DEF OnlyFrame
<1>3. OthersWait(t) /\ NoNewGuard /\ pc'[t] = "hit_lru"
  BY <1>1 DEF OthersWait, NoNewGuard, CInv, RInv, IInv, TypeOK, CallTypes
<1>4. TableMatchesFrames' /\ Owned' /\ GuardsKeepPage'
  BY <1>1, <1>2, <1>3, KeptPages
<1>5. OwnSlot' /\ NotListed' /\ NotGuarded'
  BY <1>1, <1>3, KeptOwners DEF Owning
<1>6. \A u \in Threads : u # t => Knows(u)' /\ NotThere(u)'
  <2>1. \A u \in Threads : pc[u] \in {"victim", "unmap"} => slot[u] # slot[t]
    BY <1>1 DEF Careful
  <2>2. \A u \in Threads : pc[u] \in {"victim", "unmap"} =>
          frames'[slot[u]].pin = frames[slot[u]].pin
    BY <1>2, <2>1, OwnFrames DEF Owning
  <2>3. \A u \in Threads : pc[u] = "publish" /\ ~frames[slot[u]].dirty =>
          ~frames'[slot[u]].dirty
    BY <1>2, OwnFrames DEF KeepsDirty, Owning
  <2> QED
    BY <1>1, <1>2, <1>3, <2>2, <2>3, KeptHands
<1>7. Knows(t)' /\ NotThere(t)'
  BY <1>1, <1>3 DEF CInv, Structure, InHand, Knows, NotThere, BringingIn
<1> QED
  BY <1>4, <1>5, <1>6, <1>7 DEF Structure, InHand, Absent

\* A frame that was never used is nobody's
LEMMA PopFreeStructure ==
  ASSUME CInv, NEW t \in Threads, PopFree(t)
  PROVE  Structure'
PROOF
<1>1. PICK f \in free_list : slot' = [slot EXCEPT ![t] = f]
  BY DEF PopFree
<1>2. /\ pc[t] = "get_free" /\ pc' = [pc EXCEPT ![t] = "load"]
      /\ UNCHANGED <<want, page_table, frames, lru, candidates, guards>>
  BY DEF PopFree, scratch, caller
<1>3. f \in Frames /\ Untouched(f)
  BY FreeFrames DEF CInv, RInv, RacesKeep, IInv, TypeOK, SharedTypes
<1>4. \A u \in Threads :
        IF u = t THEN pc'[u] = "load" /\ slot'[u] = f
                 ELSE pc'[u] = pc[u] /\ slot'[u] = slot[u] /\ slot[u] # f
  BY <1>1, <1>2, <1>3 DEF Untouched, CInv, RInv, IInv, TypeOK, CallTypes
<1>5. TableMatchesFrames' /\ GuardsKeepPage'
  BY <1>2 DEF CInv, Structure, TableMatchesFrames, GuardsKeepPage, Cached, Held, GuardOf
<1>6. Owned'
  <2>1. \A u \in Threads : pc[u] = "publish" => pc'[u] = "publish" /\ slot'[u] = slot[u]
    BY <1>2, <1>4
  <2> QED
    BY <1>2, <2>1 DEF CInv, Structure, Owned, Cached
<1>7. Absent' /\ InHand'
  BY <1>2, <1>3, <1>4
  DEF CInv, Structure, Absent, NotThere, BringingIn, InHand, Knows, Cached, Untouched
<1>8. OwnSlot' /\ NotListed'
  BY <1>2, <1>3, <1>4 DEF CInv, Structure, OwnSlot, NotListed, Owning, Untouched
<1>9. NotGuarded'
  <2>1. \A th \in Held : GuardOf(th).frame # f
    BY <1>3 DEF Held, GuardOf, Untouched
  <2> QED
    BY <1>2, <1>4, <2>1 DEF CInv, Structure, NotGuarded, Owning, Held, GuardOf
<1> QED
  BY <1>5, <1>6, <1>7, <1>8, <1>9 DEF Structure

\* A step of a scan that only moves frames between the order and those set aside
LEMMA ScanStructure ==
  ASSUME CInv, NEW t \in Threads, ScanPinned(t) \/ ScanEmpty(t)
  PROVE  Structure'
PROOF
<1>1. /\ Scanning(t) /\ lru' = Front(lru)
      /\ UNCHANGED <<pc, want, slot, page_table, frames, guards>>
      /\ \/ candidates' = candidates
         \/ candidates' = [candidates EXCEPT ![t] = <<Last(lru)>> \o @]
  BY DEF ScanPinned, ScanEmpty, call, scratch, caller
<1>2. TableMatchesFrames' /\ Owned' /\ GuardsKeepPage'
  BY <1>1 DEF CInv, Structure, TableMatchesFrames, Owned, GuardsKeepPage, Cached, Held, GuardOf
<1>3. Absent' /\ InHand' /\ OwnSlot'
  BY <1>1 DEF CInv, Structure, Absent, NotThere, BringingIn, InHand, Knows, Cached, OwnSlot, Owning
<1>4. NotGuarded'
  BY <1>1 DEF CInv, Structure, NotGuarded, Owning, Held, GuardOf
<1>5. NotListed'
  <2>1. RInv
    BY DEF CInv
  <2>2. /\ ToSet(lru') \subseteq ToSet(lru)
        /\ \A u \in Threads : ToSet(candidates'[u]) \subseteq ToSet(candidates[u]) \cup ToSet(lru)
    <3>1. /\ ToSet(Front(lru)) \subseteq ToSet(lru) /\ Last(lru) \in ToSet(lru)
          /\ ToSet(<<Last(lru)>> \o candidates[t]) = ToSet(candidates[t]) \cup {Last(lru)}
      BY <1>1, <2>1, ScanSteps
    <3>2. \A u \in Threads :
            \/ candidates'[u] = candidates[u]
            \/ u = t /\ candidates'[u] = <<Last(lru)>> \o candidates[t]
      BY <1>1, <2>1 DEF RInv, IInv, TypeOK, CallTypes
    <3> QED
      BY <1>1, <3>1, <3>2
  <2> QED
    BY <1>1, <2>2 DEF CInv, Structure, NotListed, Owning
<1> QED
  BY <1>2, <1>3, <1>4, <1>5 DEF Structure

\* The victim has left the order, and nobody has pinned it
LEMMA ScanVictimStructure ==
  ASSUME CInv, FewGuards, NEW t \in Threads, ScanVictim(t)
  PROVE  Structure'
PROOF
<1> DEFINE f == Last(lru)
<1>1. /\ Scanning(t) /\ pc[t] = "scan" /\ frames[f] # None /\ frames[f].pin = 0
      /\ lru' = candidates[t] \o Front(lru)
      /\ candidates' = [candidates EXCEPT ![t] = <<>>]
      /\ pc' = [pc EXCEPT ![t] = "victim"] /\ slot' = [slot EXCEPT ![t] = f]
      /\ UNCHANGED <<want, page_table, frames, guards>>
  BY DEF ScanVictim, Scanning, caller
<1>2. RInv
  BY DEF CInv
<1>3. /\ f \in Frames /\ f \in ToSet(lru) /\ f \notin ToSet(Front(lru))
      /\ f \notin ToSet(candidates[t]) /\ ToSet(Front(lru)) \subseteq ToSet(lru)
      /\ ToSet(lru') = ToSet(candidates[t]) \cup ToSet(Front(lru))
  BY <1>1, <1>2, ScanSteps
<1>4. \A u \in Threads : ToSet(candidates'[u]) = {}
  BY <1>1, <1>2, NoFrames DEF RInv, RacesKeep, ScansAlone, IInv, TypeOK, CallTypes
<1> HIDE DEF f
<1>5. \A u \in Threads :
        IF u = t THEN pc'[u] = "victim" /\ slot'[u] = f
                 ELSE pc'[u] = pc[u] /\ slot'[u] = slot[u]
  BY <1>1, <1>2 DEF RInv, IInv, TypeOK, CallTypes
<1>6. \A u \in Threads : Owning(u) => slot[u] # f
  BY <1>3 DEF CInv, Structure, NotListed
<1>7. TableMatchesFrames' /\ GuardsKeepPage'
  BY <1>1 DEF CInv, Structure, TableMatchesFrames, GuardsKeepPage, Cached, Held, GuardOf
<1>8. Owned'
  <2>1. \A u \in Threads : pc[u] = "publish" => pc'[u] = "publish" /\ slot'[u] = slot[u]
    BY <1>1, <1>5
  <2> QED
    BY <1>1, <2>1 DEF CInv, Structure, Owned, Cached
<1>9. Absent' /\ InHand'
  BY <1>1, <1>5 DEF CInv, Structure, Absent, NotThere, BringingIn, InHand, Knows, Cached
<1>10. OwnSlot'
  BY <1>5, <1>6 DEF CInv, Structure, OwnSlot, Owning
<1>11. NotListed'
  BY <1>3, <1>4, <1>5 DEF CInv, Structure, NotListed, Owning
<1>12. NotGuarded'
  <2>1. \A th \in Held : GuardOf(th).frame # f
    BY <1>1, <1>3, Unpinned DEF GuardsOn
  <2> QED
    BY <1>1, <1>5, <2>1 DEF CInv, Structure, NotGuarded, Owning, Held, GuardOf
<1> QED
  BY <1>7, <1>8, <1>9, <1>10, <1>11, <1>12 DEF Structure

\* A victim's page leaves the table with its frame; nobody else uses either
LEMMA UnmapStructure ==
  ASSUME CInv, FewGuards, Careful, NEW t \in Threads, Unmap(t)
  PROVE  Structure'
PROOF
<1> DEFINE f == slot[t]
           p == frames[f].page.id
<1>1. /\ pc[t] = "unmap" /\ pc' = [pc EXCEPT ![t] = "load"]
      /\ page_table' = [page_table EXCEPT ![p] = None]
      /\ frames' = [frames EXCEPT ![f] = None]
      /\ UNCHANGED <<want, slot, lru, candidates, guards>>
  BY DEF Unmap, Goto, scratch, caller
<1>2. f \in Frames /\ frames[f] # None /\ frames[f].pin = 0 /\ Owning(t)
  BY <1>1, OwnFrames DEF CInv, Structure, InHand, Knows, Owning
<1>3. p \in PageIds
  <2>1. frames[f] \in BufferFrame
    BY <1>2, FullFrame
  <2>2. frames[f].page \in Page
    BY <2>1, Types
  <2> QED
    BY <2>2, Types
<1>4. page_table[p] = f
  BY <1>1, <1>2, <1>3 DEF CInv, Structure, Owned, OwnSlot, Owning, Cached
<1> HIDE DEF p
<1>5. /\ \A k \in Frames : IF k = f THEN frames'[k] = None ELSE frames'[k] = frames[k]
      /\ \A q \in PageIds : IF q = p THEN page_table'[q] = None
                                     ELSE page_table'[q] = page_table[q]
      /\ \A u \in Threads : pc'[u] = IF u = t THEN "load" ELSE pc[u]
  BY <1>1 DEF CInv, RInv, IInv, TypeOK, SharedTypes, CallTypes
<1>6. \A u \in Threads : u # t /\ Owning(u) => slot[u] # f
  BY <1>2 DEF CInv, Structure, OwnSlot
<1>7. \A u \in Threads : pc[u] \in {"hit_frame", "hit_lru", "publish_lru"} => slot[u] # f
  <2>1. Pinning(f) = {}
    BY <1>2, Unpinned
  <2> QED
    BY <1>1, <2>1 DEF Pinning, Careful
<1>8. TableMatchesFrames'
  <2>1. \A q \in PageIds : q # p /\ page_table[q] # None => page_table[q] # f
    BY <1>4, <1>2 DEF CInv, Structure, TableMatchesFrames, Cached, p
  <2> QED
    BY <1>5, <2>1 DEF CInv, Structure, TableMatchesFrames, Cached, RInv, IInv, TypeOK,
      SharedTypes, MaybeFrame
<1>9. Owned'
  <2>1. \A k \in Frames : frames'[k] # None => k # f /\ frames'[k] = frames[k]
    BY <1>5
  <2>2. \A k \in Frames : frames[k] # None => frames[k].page.id \in PageIds
    <3> SUFFICES ASSUME NEW k \in Frames, frames[k] # None PROVE frames[k].page.id \in PageIds
      OBVIOUS
    <3>1. frames[k] \in BufferFrame
      BY FullFrame
    <3>2. frames[k].page \in Page
      BY <3>1, Types
    <3> QED
      BY <3>2, Types
  <2>3. \A u \in Threads : pc[u] = "publish" => pc'[u] = "publish"
    BY <1>1, <1>5
  <2> SUFFICES ASSUME NEW k \in Frames, frames'[k] # None
               PROVE  \/ page_table'[frames[k].page.id] = k
                      \/ \E u \in Threads : pc'[u] = "publish" /\ slot'[u] = k
                                            /\ want'[u] = frames[k].page.id
    BY <2>1 DEF Owned, Cached
  <2>4. \/ page_table[frames[k].page.id] = k
        \/ \E u \in Threads : pc[u] = "publish" /\ slot[u] = k /\ want[u] = frames[k].page.id
    BY <2>1 DEF CInv, Structure, Owned, Cached
  <2> QED
    BY <1>1, <1>4, <1>5, <2>1, <2>2, <2>3, <2>4
<1>10. GuardsKeepPage'
  <2>1. \A u \in Threads, h \in Handles : guards[u][h] # None =>
          guards[u][h].frame # f /\ guards[u][h].frame \in Frames
    BY <1>2, GuardedApart, Guarded
  <2>2. \A th \in Held : GuardOf(th).frame # f /\ GuardOf(th).frame \in Frames
    BY <2>1 DEF Held, GuardOf
  <2> QED
    BY <1>1, <1>5, <2>2 DEF CInv, Structure, GuardsKeepPage, Cached, Held, GuardOf
<1>11. \A u \in Threads : NotThere(u)'
  <2>1. \A u \in Threads : BringingIn(u)' => BringingIn(u)
    BY <1>1, <1>5 DEF BringingIn
  <2>2. \A u \in Threads : want[u] # None => want[u] \in PageIds
    BY DEF CInv, RInv, IInv, TypeOK, CallTypes
  <2> QED
    BY <1>1, <1>5, <2>1, <2>2 DEF CInv, Structure, Absent, NotThere
<1>12. \A u \in Threads : Knows(u)'
  <2> SUFFICES ASSUME NEW u \in Threads PROVE Knows(u)'
    OBVIOUS
  <2>1. /\ Knows(u) /\ (pc[u] \in WithSlot => slot[u] \in Frames)
        /\ (pc[u] \in WithWanted => want[u] \in PageIds)
    BY DEF CInv, Structure, InHand, RInv, IInv, TypeOK, CallTypes
  <2>2. CASE u = t
    BY <1>1, <1>2, <1>5, <2>2 DEF Knows
  <2>3. CASE u # t
    BY <1>1, <1>2, <1>4, <1>5, <1>6, <1>7, <2>1, <2>3
    DEF Knows, Owning, WithSlot, WithWanted, Cached
  <2> QED
    BY <2>2, <2>3
<1>13. OwnSlot' /\ NotListed' /\ NotGuarded'
  <2>1. \A u \in Threads : Owning(u)' => Owning(u)
    BY <1>1, <1>5 DEF Owning
  <2> QED
    BY <1>1, <2>1 DEF CInv, Structure, OwnSlot, NotListed, NotGuarded, Held, GuardOf
<1> QED
  BY <1>8, <1>9, <1>10, <1>11, <1>12, <1>13 DEF Structure, Absent, InHand

\* A guard is made for a frame that is in the table, so no call has it to itself
LEMMA TouchStructure ==
  ASSUME CInv, FewGuards, NEW t \in Threads, HitTouch(t) \/ PublishTouch(t)
  PROVE  Structure'
PROOF
<1> DEFINE f == slot[t]
<1>1. /\ pc[t] \in {"hit_lru", "publish_lru"} /\ pc' = [pc EXCEPT ![t] = "idle"]
      /\ lru' = Touched(lru, f)
      /\ want' = [want EXCEPT ![t] = None] /\ slot' = [slot EXCEPT ![t] = None]
      /\ UNCHANGED <<page_table, frames, candidates>>
  BY DEF HitTouch, PublishTouch, ReturnGuard, Return, scratch
<1>2. PICK h \in Handles : guards' = [guards EXCEPT ![t][h] = [frame |-> f, id |-> want[t]]]
  BY DEF HitTouch, PublishTouch, ReturnGuard
<1>3. f \in Frames /\ f # None /\ want[t] \in PageIds /\ page_table[want[t]] = f
  BY <1>1, Types
  DEF CInv, RInv, IInv, TypeOK, CallTypes, WithSlot, WithWanted, Structure, InHand, Knows
<1>4. frames[f] # None /\ Cached(f).id = want[t]
  BY <1>3 DEF CInv, Structure, TableMatchesFrames
<1>5. \A u \in Threads : Owning(u) => slot[u] # f
  <2> SUFFICES ASSUME NEW u \in Threads, Owning(u), slot[u] = f PROVE FALSE
    OBVIOUS
  <2>1. t \in Pinning(f)
    BY <1>1 DEF Pinning
  <2>2. pc[u] \notin {"victim", "unmap"}
    BY <1>3, <1>4, <2>1, Unpinned DEF CInv, Structure, InHand, Knows
  <2>3. pc[u] \notin {"load", "install"}
    BY <1>4 DEF CInv, Structure, InHand, Knows
  <2>4. pc[u] # "publish"
    <3>1. pc[u] = "publish" => want[u] = want[t]
      BY <1>4 DEF CInv, Structure, InHand, Knows
    <3>2. pc[u] = "publish" /\ want[u] # None => page_table[want[u]] = None
      BY DEF CInv, Structure, Absent, NotThere, BringingIn
    <3> QED
      BY <1>3, <3>1, <3>2, Types
  <2> QED
    BY <2>2, <2>3, <2>4 DEF Owning
<1>6. \A u \in Threads :
        IF u = t THEN pc'[u] = "idle" /\ want'[u] = None
                 ELSE pc'[u] = pc[u] /\ slot'[u] = slot[u] /\ want'[u] = want[u]
  BY <1>1 DEF CInv, RInv, IInv, TypeOK, CallTypes
<1>7. ToSet(lru') \subseteq ToSet(lru) \cup {f}
  <2>1. lru \in Seq(Frames)
    BY DEF CInv, RInv, IInv, TypeOK, SharedTypes
  <2> QED
    BY <1>1, <1>3, <2>1, TouchedFrames
<1>8. \A u \in Threads, k \in Handles :
        \/ guards'[u][k] = guards[u][k]
        \/ guards'[u][k] = [frame |-> f, id |-> want[t]]
  BY <1>2 DEF CInv, RInv, IInv, TypeOK, CallTypes
<1>9. TableMatchesFrames' /\ Owned'
  BY <1>1, <1>6 DEF CInv, Structure, TableMatchesFrames, Owned, Cached
<1>10. GuardsKeepPage'
  <2> SUFFICES ASSUME NEW u \in Threads, NEW k \in Handles, guards'[u][k] # None
               PROVE  /\ frames'[guards'[u][k].frame] # None
                      /\ frames'[guards'[u][k].frame].page.id = guards'[u][k].id
    BY DEF GuardsKeepPage, Held, GuardOf, Cached
  <2>1. CASE guards'[u][k] = guards[u][k]
    BY <1>1, <2>1, Guarded DEF Cached
  <2>2. CASE guards'[u][k] = [frame |-> f, id |-> want[t]]
    BY <1>1, <1>4, <2>2 DEF Cached
  <2> QED
    BY <1>8, <2>1, <2>2
<1>11. Absent' /\ InHand'
  BY <1>1, <1>6 DEF CInv, Structure, Absent, NotThere, BringingIn, InHand, Knows, Cached
<1>12. OwnSlot' /\ NotListed'
  BY <1>1, <1>5, <1>6, <1>7 DEF CInv, Structure, OwnSlot, NotListed, Owning
<1>13. NotGuarded'
  <2> SUFFICES ASSUME NEW v \in Threads, Owning(v)', NEW u \in Threads, NEW k \in Handles,
                      guards'[u][k] # None
               PROVE  guards'[u][k].frame # slot'[v]
    BY DEF NotGuarded, Held, GuardOf
  <2>1. Owning(v) /\ slot'[v] = slot[v]
    BY <1>6 DEF Owning
  <2> QED
    BY <1>5, <1>8, <2>1, GuardedApart
<1> QED
  BY <1>9, <1>10, <1>11, <1>12, <1>13 DEF Structure

\* A page past the end of the file is not in the table
LEMMA NotPastEnd ==
  ASSUME CInv, NEW n \in PageNos, n >= file_len
  PROVE  FileId(n) \in PageIds /\ page_table[FileId(n)] = None
PROOF
<1>1. FileId(n) \in PageIds
  BY ConstantsAssumption DEF FileId, PageIds
<1>2. page_table[FileId(n)] # None => OnFile(FileId(n))
  BY <1>1 DEF CInv, Structure, TableMatchesFrames, RInv, IInv, TypeOK, SharedTypes, MaybeFrame,
    PagesSelfIdentifying
<1>3. ~OnFile(FileId(n))
  BY DEF OnFile, FileId, CInv, RInv, IInv, TypeOK, SharedTypes, PageNos
<1> QED
  BY <1>1, <1>2, <1>3

\* A new page is the first one past the end
LEMMA AllocateStructure ==
  ASSUME CInv, NEW t \in Threads, Allocate(t)
  PROVE  Structure'
PROOF
<1>1. /\ pc[t] = "load" /\ pc' = [pc EXCEPT ![t] = "install"]
      /\ want' = [want EXCEPT ![t] = FileId(file_len)]
      /\ UNCHANGED <<slot, page_table, frames, lru, candidates, guards>>
  BY DEF Allocate, NewPage, FileId, pool, index, caller
<1>2. page_table[FileId(file_len)] = None
  <2>1. file_len \in PageNos /\ file_len >= file_len
    BY ConstantsAssumption DEF Allocate, CInv, RInv, IInv, TypeOK, SharedTypes, PageNos
  <2> QED
    BY <2>1, NotPastEnd
<1>3. \A u \in Threads :
        IF u = t THEN pc'[u] = "install" /\ want'[u] = FileId(file_len)
                 ELSE pc'[u] = pc[u] /\ want'[u] = want[u]
  BY <1>1 DEF CInv, RInv, IInv, TypeOK, CallTypes
<1>4. TableMatchesFrames' /\ GuardsKeepPage'
  BY <1>1 DEF CInv, Structure, TableMatchesFrames, GuardsKeepPage, Cached, Held, GuardOf
<1>5. Owned'
  <2>1. \A u \in Threads : pc[u] = "publish" => pc'[u] = "publish" /\ want'[u] = want[u]
    BY <1>1, <1>3
  <2> QED
    BY <1>1, <2>1 DEF CInv, Structure, Owned, Cached
<1>6. Absent' /\ InHand'
  BY <1>1, <1>2, <1>3
  DEF CInv, Structure, Absent, NotThere, BringingIn, InHand, Knows, Cached
<1>7. OwnSlot' /\ NotListed' /\ NotGuarded'
  BY <1>1, <1>3 DEF CInv, Structure, OwnSlot, NotListed, NotGuarded, Owning, Held, GuardOf
<1> QED
  BY <1>4, <1>5, <1>6, <1>7 DEF Structure

\* A loaded page is put into a frame that was empty
LEMMA InstallStructure ==
  ASSUME CInv, NEW t \in Threads, Install(t)
  PROVE  Structure'
PROOF
<1> DEFINE f == slot[t]
           b == [page |-> loaded[t], dirty |-> FALSE, pin |-> 1]
<1>1. /\ pc[t] = "install" /\ pc' = [pc EXCEPT ![t] = "publish"]
      /\ frames' = [frames EXCEPT ![f] = b]
      /\ UNCHANGED <<want, slot, page_table, lru, candidates, guards>>
  BY DEF Install, Goto, index, caller
<1>2. f \in Frames /\ frames[f] = None /\ loaded[t].id = want[t] /\ Owning(t)
  BY <1>1 DEF CInv, RInv, IInv, TypeOK, CallTypes, WithSlot, Structure, InHand, Knows,
    Contents, LoadedNewest, Owning
<1>3. b # None /\ b.page = loaded[t] /\ b.dirty = FALSE
  BY <1>1, Types DEF CInv, RInv, IInv, TypeOK, CallTypes
<1> HIDE DEF b
<1>4. /\ \A k \in Frames : IF k = f THEN frames'[k] = b ELSE frames'[k] = frames[k]
      /\ \A u \in Threads : pc'[u] = IF u = t THEN "publish" ELSE pc[u]
  BY <1>1 DEF CInv, RInv, IInv, TypeOK, SharedTypes, CallTypes
<1>5. TableMatchesFrames'
  BY <1>1, <1>2, <1>4 DEF CInv, Structure, TableMatchesFrames, Cached, RInv, IInv, TypeOK,
    SharedTypes, MaybeFrame
<1>6. Owned'
  <2>1. \A u \in Threads : pc[u] = "publish" => pc'[u] = "publish"
    BY <1>1, <1>4
  <2>2. pc'[t] = "publish" /\ slot'[t] = f /\ want'[t] = b.page.id
    BY <1>1, <1>2, <1>3, <1>4
  <2> QED
    BY <1>1, <1>4, <2>1, <2>2 DEF CInv, Structure, Owned, Cached
<1>7. GuardsKeepPage'
  <2>1. \A u \in Threads, h \in Handles : guards[u][h] # None =>
          guards[u][h].frame # f /\ guards[u][h].frame \in Frames
    BY <1>2, GuardedApart, Guarded
  <2>2. \A th \in Held : GuardOf(th).frame # f /\ GuardOf(th).frame \in Frames
    BY <2>1 DEF Held, GuardOf
  <2> QED
    BY <1>1, <1>4, <2>2 DEF CInv, Structure, GuardsKeepPage, Cached, Held, GuardOf
<1>8. Absent'
  BY <1>1, <1>4 DEF CInv, Structure, Absent, NotThere, BringingIn
<1>9. InHand'
  <2> SUFFICES ASSUME NEW u \in Threads PROVE Knows(u)'
    BY DEF InHand
  <2>1. /\ Knows(u) /\ (pc[u] \in WithSlot => slot[u] \in Frames)
        /\ u # t /\ Owning(u) => slot[u] # f
    BY <1>2 DEF CInv, Structure, InHand, RInv, IInv, TypeOK, CallTypes, OwnSlot
  <2>2. CASE u = t
    BY <1>1, <1>2, <1>3, <1>4, <2>2 DEF Knows, Cached
  <2>3. CASE u # t
    BY <1>1, <1>2, <1>4, <2>1, <2>3 DEF Knows, Owning, WithSlot, Cached
  <2> QED
    BY <2>2, <2>3
<1>10. OwnSlot' /\ NotListed' /\ NotGuarded'
  BY <1>1, <1>4 DEF CInv, Structure, OwnSlot, NotListed, NotGuarded, Owning, Held, GuardOf
<1> QED
  BY <1>5, <1>6, <1>7, <1>8, <1>9, <1>10 DEF Structure

\* A page is entered into the table, where nobody else is about to enter it
LEMMA PublishStructure ==
  ASSUME CInv, Careful, NEW t \in Threads, Publish(t)
  PROVE  Structure'
PROOF
<1> DEFINE f == slot[t]
           p == want[t]
<1>1. /\ pc[t] = "publish" /\ pc' = [pc EXCEPT ![t] = "publish_lru"]
      /\ page_table' = [page_table EXCEPT ![p] = f]
      /\ UNCHANGED <<want, slot, frames, lru, candidates, guards>>
  BY DEF Publish, Goto, scratch, caller
<1>2. f \in Frames /\ f # None /\ p \in PageIds /\ p # None
  BY <1>1, Types DEF CInv, RInv, IInv, TypeOK, CallTypes, WithSlot, WithWanted
<1>3. frames[f] # None /\ Cached(f).id = p /\ page_table[p] = None
  BY <1>1, <1>2 DEF CInv, Structure, InHand, Knows, Absent, NotThere, BringingIn
<1>4. /\ \A q \in PageIds : IF q = p THEN page_table'[q] = f
                                     ELSE page_table'[q] = page_table[q]
      /\ \A u \in Threads : pc'[u] = IF u = t THEN "publish_lru" ELSE pc[u]
  BY <1>1 DEF CInv, RInv, IInv, TypeOK, SharedTypes, CallTypes
<1>5. TableMatchesFrames' /\ GuardsKeepPage'
  <2>1. TableMatchesFrames'
    <3> SUFFICES ASSUME NEW q \in PageIds, page_table'[q] # None
                 PROVE  frames[page_table'[q]] # None /\ Cached(page_table'[q]).id = q
      BY <1>1 DEF TableMatchesFrames, Cached
    <3>1. CASE q = p
      BY <1>3, <1>4, <3>1
    <3>2. CASE q # p
      BY <1>4, <3>2 DEF CInv, Structure, TableMatchesFrames
    <3> QED
      BY <3>1, <3>2
  <2>2. GuardsKeepPage'
    BY <1>1 DEF CInv, Structure, GuardsKeepPage, Cached, Held, GuardOf
  <2> QED
    BY <2>1, <2>2
<1>6. Owned'
  <2> SUFFICES ASSUME NEW k \in Frames, frames[k] # None
               PROVE  \/ page_table'[Cached(k).id] = k
                      \/ \E u \in Threads : pc'[u] = "publish" /\ slot[u] = k
                                            /\ want[u] = Cached(k).id
    BY <1>1 DEF Owned, Cached
  <2>1. Cached(k).id \in PageIds
    <3>1. frames[k] \in BufferFrame
      BY FullFrame
    <3>2. frames[k].page \in Page
      BY <3>1, Types
    <3> QED
      BY <3>2, Types DEF Cached
  <2>2. CASE page_table[Cached(k).id] = k
    BY <1>2, <1>3, <1>4, <2>1, <2>2, Types
  <2>3. ASSUME NEW u \in Threads, pc[u] = "publish", slot[u] = k, want[u] = Cached(k).id
        PROVE  \/ page_table'[Cached(k).id] = k
               \/ pc'[u] = "publish"
    BY <1>2, <1>4, <2>3
  <2> QED
    BY <2>2, <2>3 DEF CInv, Structure, Owned
<1>7. Absent'
  <2> SUFFICES ASSUME NEW u \in Threads PROVE NotThere(u)'
    BY DEF Absent
  <2>1. NotThere(u) /\ (want[u] # None => want[u] \in PageIds)
    BY DEF CInv, Structure, Absent, RInv, IInv, TypeOK, CallTypes
  <2>2. u # t /\ BringingIn(u) /\ want[u] # None => want[u] # p
    BY <1>1, <1>2 DEF Careful, BringingIn
  <2> QED
    BY <1>1, <1>4, <2>1, <2>2 DEF NotThere, BringingIn
<1>8. InHand'
  <2> SUFFICES ASSUME NEW u \in Threads PROVE Knows(u)'
    BY DEF InHand
  <2>1. /\ Knows(u) /\ (pc[u] \in WithSlot => slot[u] \in Frames)
        /\ (pc[u] \in WithWanted => want[u] \in PageIds)
    BY DEF CInv, Structure, InHand, RInv, IInv, TypeOK, CallTypes
  <2>2. pc[u] \in {"hit_frame", "hit_lru", "publish_lru"} => want[u] # p
    BY <1>2, <1>3, <2>1, Types DEF Knows, WithSlot
  <2> QED
    BY <1>1, <1>4, <2>1, <2>2 DEF Knows, WithWanted, Cached
<1>9. OwnSlot' /\ NotListed' /\ NotGuarded'
  BY <1>1, <1>4 DEF CInv, Structure, OwnSlot, NotListed, NotGuarded, Owning, Held, GuardOf
<1> QED
  BY <1>5, <1>6, <1>7, <1>8, <1>9 DEF Structure

\* The next page to flush
LEMMA FlushNextStructure ==
  ASSUME CInv, NEW t \in Threads, FlushNext(t)
  PROVE  Structure'
PROOF
<1>1. /\ pc[t] = "flush_next"
      /\ \E l \in {"idle", "flush_next", "flush"} : pc' = [pc EXCEPT ![t] = l]
      /\ \E s : slot' = [slot EXCEPT ![t] = s]
      /\ UNCHANGED <<want, page_table, frames, lru, candidates, guards>>
  BY DEF FlushNext, AfterFlush, pool, index, caller
<1>2. OthersWait(t) /\ pc'[t] \in {"idle", "flush_next", "flush"} /\ want'[t] = None
  BY <1>1 DEF OthersWait, CInv, RInv, IInv, TypeOK, CallTypes, Structure, InHand, Knows
<1>3. KeepsPages /\ NoNewGuard
  BY <1>1 DEF KeepsPages, NoNewGuard
<1>4. TableMatchesFrames' /\ Owned' /\ GuardsKeepPage'
  BY <1>1, <1>2, <1>3, KeptPages
<1>5. OwnSlot' /\ NotListed' /\ NotGuarded'
  BY <1>1, <1>2, <1>3, KeptOwners DEF Owning
<1>6. \A u \in Threads : u # t => Knows(u)' /\ NotThere(u)'
  BY <1>1, <1>2, <1>3, KeptHands
<1>7. Knows(t)' /\ NotThere(t)'
  BY <1>2 DEF Knows, NotThere, BringingIn
<1> QED
  BY <1>4, <1>5, <1>6, <1>7 DEF Structure, InHand, Absent

\* A pool that was just made
LEMMA EmptyStructure ==
  ASSUME page_table = EmptyTable, frames = EmptyFrames, guards = NoGuards,
         pc = [t \in Threads |-> "idle"], want = Nothing
  PROVE  Structure
PROOF
<1>1. TableMatchesFrames /\ Owned
  BY DEF TableMatchesFrames, Owned, EmptyTable, EmptyFrames
<1>2. Absent /\ InHand /\ OwnSlot /\ NotListed
  BY DEF Absent, NotThere, BringingIn, InHand, Knows, OwnSlot, NotListed, Owning, Nothing
<1>3. NotGuarded /\ GuardsKeepPage
  BY DEF NotGuarded, GuardsKeepPage, Owning, Held, NoGuards
<1> QED
  BY <1>1, <1>2, <1>3 DEF Structure

-----------------------------------------------------------------------------
(***************************************************************************)
(* Pin counts, step by step.                                               *)
(***************************************************************************)
\* The labels between which a call has a pin of its own
Pins(l) == l \in {"hit_lru", "publish", "publish_lru"}

\* Frames whose pin count, guards and calls are left alone
LEMMA SamePins ==
  ASSUME CInv, NEW f \in Frames, frames[f] # None, frames'[f].pin = frames[f].pin,
         GuardsOn(f)' = GuardsOn(f), Pinning(f)' = Pinning(f)
  PROVE  frames'[f].pin = Cardinality(GuardsOn(f)') + Cardinality(Pinning(f)')
PROOF
BY PinCount

\* A step that neither pins nor unpins
LEMMA QuietPins ==
  ASSUME CInv, NEW t \in Threads, OthersWait(t), UNCHANGED guards,
         \/ ~Pins(pc[t]) /\ ~Pins(pc'[t])
         \/ Pins(pc[t]) /\ Pins(pc'[t]) /\ slot'[t] = slot[t],
         \A k \in Frames : frames'[k] # None =>
           frames[k] # None /\ frames'[k].pin = frames[k].pin
  PROVE  PinsCountGuards'
PROOF
<1>1. ASSUME NEW f \in Frames
      PROVE  GuardsOn(f)' = GuardsOn(f) /\ Pinning(f)' = Pinning(f)
  <2>1. GuardsOn(f)' = GuardsOn(f)
    BY DEF GuardsOn, Held, GuardOf
  <2>2. \A u \in Threads : Pins(pc'[u]) /\ slot'[u] = f <=> Pins(pc[u]) /\ slot[u] = f
    BY DEF OthersWait
  <2>3. Pinning(f)' = Pinning(f)
    BY <2>2 DEF Pinning, Pins
  <2> QED
    BY <2>1, <2>3
<1> QED
  BY <1>1, SamePins DEF PinsCountGuards, GuardsOn

\* A hit has one pin more
LEMMA HitPinPins ==
  ASSUME CInv, FewGuards, NEW t \in Threads, HitPin(t)
  PROVE  PinsCountGuards'
PROOF
<1>0. PICK f \in Frames : f = slot[t]
  BY HitPinPin
<1>1. /\ f \in Frames /\ frames[f] # None /\ OnlyFrame(f) /\ KeepsPages
      /\ frames'[f].pin = frames[f].pin + 1 /\ frames[f].pin \in Nat
      /\ Goto(t, "hit_lru") /\ pc[t] = "hit_frame" /\ UNCHANGED guards
  BY <1>0, HitPinPin DEF HitPin, caller
<1>2. /\ slot' = slot
      /\ \A u \in Threads : pc'[u] = IF u = t THEN "hit_lru" ELSE pc[u]
  BY <1>1 DEF Goto, CInv, RInv, IInv, TypeOK, CallTypes
<1>3. \A k \in Frames : GuardsOn(k)' = GuardsOn(k)
  BY <1>1 DEF GuardsOn, Held, GuardOf
<1>4. \A k \in Frames : k # f => Pinning(k)' = Pinning(k)
  BY <1>0, <1>1, <1>2 DEF Pinning
<1>5. Pinning(f)' = Pinning(f) \cup {t} /\ t \notin Pinning(f)
  BY <1>0, <1>1, <1>2 DEF Pinning
<1>6. Cardinality(Pinning(f)') = Cardinality(Pinning(f)) + 1
  BY <1>5, PinSets, FS_AddElement
<1>7. ASSUME NEW k \in Frames, frames'[k] # None
      PROVE  frames'[k].pin = Cardinality(GuardsOn(k)') + Cardinality(Pinning(k)')
  <2>1. CASE k = f
    <3>1. frames[f].pin = Cardinality(GuardsOn(f)) + Cardinality(Pinning(f))
      BY <1>1, PinCount
    <3>2. Cardinality(GuardsOn(f)) \in Nat /\ Cardinality(Pinning(f)) \in Nat
      BY PinSets
    <3> QED
      BY <1>1, <1>3, <1>6, <2>1, <3>1, <3>2
  <2>2. CASE k # f
    BY <1>1, <1>3, <1>4, <1>7, <2>2, SamePins DEF OnlyFrame
  <2> QED
    BY <2>1, <2>2
<1> QED
  BY <1>7 DEF PinsCountGuards, GuardsOn

\* The call's pin becomes its guard's
LEMMA TouchPins ==
  ASSUME CInv, FewGuards, NEW t \in Threads, HitTouch(t) \/ PublishTouch(t)
  PROVE  PinsCountGuards'
PROOF
<1>0. PICK f \in Frames : f = slot[t]
  BY DEF HitTouch, PublishTouch, CInv, RInv, IInv, TypeOK, CallTypes, WithSlot
<1>1. /\ Pins(pc[t]) /\ pc' = [pc EXCEPT ![t] = "idle"] /\ slot' = [slot EXCEPT ![t] = None]
      /\ UNCHANGED frames
  BY DEF HitTouch, PublishTouch, ReturnGuard, Return, Pins
<1>2. PICK h \in Handles :
        /\ guards[t][h] = None
        /\ guards' = [guards EXCEPT ![t][h] = [frame |-> f, id |-> want[t]]]
  BY <1>0 DEF HitTouch, PublishTouch, ReturnGuard
<1>3. f \in Frames /\ want[t] \in PageIds
  BY <1>1 DEF CInv, RInv, IInv, TypeOK, CallTypes, WithSlot, WithWanted, Pins
<1>4. [frame |-> f, id |-> want[t]] # None
  <2>1. [frame |-> f, id |-> want[t]] \in PageGuard
    BY <1>3, Types
  <2> QED
    BY <2>1, Types
<1> DEFINE g == [frame |-> f, id |-> want[t]]
<1>5. g.frame = f /\ g # None
  BY <1>4
<1>6. guards' = [guards EXCEPT ![t][h] = g]
  BY <1>2
<1> HIDE DEF g
<1>7. \A u \in Threads, k \in Handles :
        IF u = t /\ k = h THEN guards'[u][k] = g ELSE guards'[u][k] = guards[u][k]
  BY <1>6 DEF CInv, RInv, IInv, TypeOK, CallTypes
<1>8. \A th \in Threads \X Handles :
        IF th = <<t, h>> THEN guards'[th[1]][th[2]] = g
                         ELSE guards'[th[1]][th[2]] = guards[th[1]][th[2]]
  BY <1>7
<1>9. ASSUME NEW k \in Frames
      PROVE  GuardsOn(k)' = IF k = f THEN GuardsOn(k) \cup {<<t, h>>} ELSE GuardsOn(k)
  BY <1>2, <1>5, <1>8 DEF GuardsOn, Held, GuardOf
<1>10. \A k \in Frames : <<t, h>> \notin GuardsOn(k)
  BY <1>2 DEF GuardsOn, Held
<1>11. \A u \in Threads :
         IF u = t THEN pc'[u] = "idle" ELSE pc'[u] = pc[u] /\ slot'[u] = slot[u]
  BY <1>1 DEF CInv, RInv, IInv, TypeOK, CallTypes
<1>12. ASSUME NEW k \in Frames
       PROVE  Pinning(k)' = IF k = f THEN Pinning(k) \ {t} ELSE Pinning(k)
  BY <1>0, <1>1, <1>11 DEF Pinning, Pins
<1>13. t \in Pinning(f)
  BY <1>0, <1>1 DEF Pinning, Pins
<1>14. /\ Cardinality(GuardsOn(f)') = Cardinality(GuardsOn(f)) + 1
       /\ Cardinality(Pinning(f)') = Cardinality(Pinning(f)) - 1
  <2>1. GuardsOn(f)' = GuardsOn(f) \cup {<<t, h>>} /\ <<t, h>> \notin GuardsOn(f)
    BY <1>9, <1>10
  <2>2. Pinning(f)' = Pinning(f) \ {t}
    BY <1>12
  <2>3. IsFiniteSet(GuardsOn(f)) /\ IsFiniteSet(Pinning(f))
    BY PinSets
  <2>4. Cardinality(GuardsOn(f) \cup {<<t, h>>}) = Cardinality(GuardsOn(f)) + 1
    BY <2>1, <2>3, FS_AddElement
  <2>5. Cardinality(Pinning(f) \ {t}) = Cardinality(Pinning(f)) - 1
    BY <1>13, <2>3, FS_RemoveElement
  <2> QED
    BY <2>1, <2>2, <2>4, <2>5
<1>15. ASSUME NEW k \in Frames, frames'[k] # None
       PROVE  frames'[k].pin = Cardinality(GuardsOn(k)') + Cardinality(Pinning(k)')
  <2>1. CASE k = f
    <3>1. frames[f].pin = Cardinality(GuardsOn(f)) + Cardinality(Pinning(f))
      BY <1>1, <1>3, <1>15, <2>1, PinCount
    <3>2. Cardinality(GuardsOn(f)) \in Nat /\ Cardinality(Pinning(f)) \in Nat
      BY PinSets
    <3> QED
      BY <1>1, <1>14, <2>1, <3>1, <3>2
  <2>2. CASE k # f
    BY <1>1, <1>9, <1>12, <1>15, <2>2, SamePins
  <2> QED
    BY <2>1, <2>2
<1> QED
  BY <1>15 DEF PinsCountGuards, GuardsOn

\* A page gets into its frame with the one pin of the call that brought it in
LEMMA InstallPins ==
  ASSUME CInv, FewGuards, NEW t \in Threads, Install(t)
  PROVE  PinsCountGuards'
PROOF
<1>0. PICK f \in Frames : f = slot[t]
  BY OwnFrames DEF Install, Owning
<1> DEFINE b == [page |-> loaded[t], dirty |-> FALSE, pin |-> 1]
<1>1. /\ pc[t] = "install" /\ pc' = [pc EXCEPT ![t] = "publish"]
      /\ frames' = [frames EXCEPT ![f] = b]
      /\ UNCHANGED <<slot, guards>>
  BY <1>0 DEF Install, Goto, caller
<1>2. f \in Frames /\ Owning(t) /\ frames[f] = None
  BY <1>0, <1>1 DEF Owning, CInv, Structure, InHand, Knows
<1>3. b.pin = 1
  OBVIOUS
<1> HIDE DEF b
<1>4. /\ \A k \in Frames : IF k = f THEN frames'[k] = b ELSE frames'[k] = frames[k]
      /\ \A u \in Threads : pc'[u] = IF u = t THEN "publish" ELSE pc[u]
  BY <1>1 DEF CInv, RInv, IInv, TypeOK, SharedTypes, CallTypes
<1>5. \A k \in Frames : GuardsOn(k)' = GuardsOn(k)
  BY <1>1 DEF GuardsOn, Held, GuardOf
<1>6. \A k \in Frames : k # f => Pinning(k)' = Pinning(k)
  BY <1>0, <1>1, <1>4 DEF Pinning
<1>7. GuardsOn(f) = {}
  BY <1>0, <1>2 DEF GuardsOn, CInv, Structure, NotGuarded
<1>8. Pinning(f) = {}
  <2> SUFFICES ASSUME NEW u \in Threads, Pins(pc[u]), slot[u] = f PROVE FALSE
    BY DEF Pinning, Pins
  <2>1. Knows(u) /\ (pc[u] \in WithWanted => want[u] \in PageIds) /\ f # None
    BY <1>2, Types DEF CInv, Structure, InHand, RInv, IInv, TypeOK, CallTypes
  <2>2. CASE pc[u] = "publish"
    BY <1>2, <2>1, <2>2 DEF Knows
  <2>3. CASE pc[u] \in {"hit_lru", "publish_lru"}
    BY <1>2, <2>1, <2>3 DEF Knows, WithWanted, CInv, Structure, TableMatchesFrames
  <2> QED
    BY <2>2, <2>3 DEF Pins
<1>9. Pinning(f)' = {t}
  <2>1. \A u \in Threads : u # t => ~(Pins(pc'[u]) /\ slot'[u] = f)
    BY <1>1, <1>4, <1>8 DEF Pinning, Pins
  <2> QED
    BY <1>0, <1>1, <1>4, <2>1 DEF Pinning, Pins
<1>10. Cardinality(GuardsOn(f)') = 0 /\ Cardinality(Pinning(f)') = 1
  BY <1>2, <1>5, <1>7, <1>9, FS_EmptySet, FS_Singleton
<1>11. ASSUME NEW k \in Frames, frames'[k] # None
       PROVE  frames'[k].pin = Cardinality(GuardsOn(k)') + Cardinality(Pinning(k)')
  <2>1. CASE k = f
    BY <1>3, <1>4, <1>10, <2>1
  <2>2. CASE k # f
    BY <1>4, <1>5, <1>6, <1>11, <2>2, SamePins
  <2> QED
    BY <2>1, <2>2
<1> QED
  BY <1>11 DEF PinsCountGuards, GuardsOn

\* A dropped guard takes its pin along
LEMMA DropGuardPins ==
  ASSUME CInv, FewGuards, NEW t \in Threads, NEW h \in Handles, DropGuard(t, h)
  PROVE  PinsCountGuards'
PROOF
<1>0. PICK f \in Frames : f = guards[t][h].frame
  BY DropGuardPin
<1>1. /\ f \in Frames /\ frames[f] # None /\ OnlyFrame(f) /\ KeepsPages
      /\ frames[f].pin \in Nat /\ frames'[f].pin = frames[f].pin - 1
      /\ guards' = [guards EXCEPT ![t][h] = None] /\ guards[t][h] # None
      /\ UNCHANGED <<pc, slot>>
  BY <1>0, DropGuardPin DEF DropGuard, call
<1>2. \A u \in Threads, k \in Handles :
        IF u = t /\ k = h THEN guards'[u][k] = None ELSE guards'[u][k] = guards[u][k]
  BY <1>1 DEF CInv, RInv, IInv, TypeOK, CallTypes
<1>3. \A th \in Threads \X Handles :
        IF th = <<t, h>> THEN guards'[th[1]][th[2]] = None
                         ELSE guards'[th[1]][th[2]] = guards[th[1]][th[2]]
  BY <1>2
<1>4. ASSUME NEW k \in Frames
      PROVE  GuardsOn(k)' = IF k = f THEN GuardsOn(k) \ {<<t, h>>} ELSE GuardsOn(k)
  BY <1>0, <1>3 DEF GuardsOn, Held, GuardOf
<1>5. <<t, h>> \in GuardsOn(f)
  BY <1>0, <1>1 DEF GuardsOn, Held, GuardOf
<1>6. \A k \in Frames : Pinning(k)' = Pinning(k)
  BY <1>1 DEF Pinning
<1>7. Cardinality(GuardsOn(f)') = Cardinality(GuardsOn(f)) - 1
  BY <1>1, <1>4, <1>5, PinSets, FS_RemoveElement
<1>8. ASSUME NEW k \in Frames, frames'[k] # None
      PROVE  frames'[k].pin = Cardinality(GuardsOn(k)') + Cardinality(Pinning(k)')
  <2>1. CASE k = f
    <3>1. frames[f].pin = Cardinality(GuardsOn(f)) + Cardinality(Pinning(f))
      BY <1>1, PinCount
    <3>2. Cardinality(GuardsOn(f)) \in Nat /\ Cardinality(Pinning(f)) \in Nat
      BY PinSets
    <3> QED
      BY <1>1, <1>6, <1>7, <2>1, <3>1, <3>2
  <2>2. CASE k # f
    BY <1>1, <1>4, <1>6, <1>8, <2>2, SamePins DEF OnlyFrame
  <2> QED
    BY <2>1, <2>2
<1> QED
  BY <1>8 DEF PinsCountGuards, GuardsOn

-----------------------------------------------------------------------------
(***************************************************************************)
(* What the frames and the file hold, step by step.                        *)
(***************************************************************************)
\* A cached page is one of the file's, and the only page with its number
LEMMA CachedPages ==
  ASSUME CInv, NEW f \in Frames, frames[f] # None
  PROVE  /\ Cached(f).id \in PageIds /\ Cached(f).id.no \in PageNos
         /\ Cached(f).id.no < file_len /\ Cached(f).val \in Int
         /\ Cached(f).id = FileId(Cached(f).id.no)
         /\ Cached(f).val = latest[Cached(f).id.no]
PROOF
<1>1. frames[f] \in BufferFrame
  BY FullFrame
<1>2. Cached(f) \in Page
  BY <1>1, Types DEF Cached
<1>3. Cached(f).id \in PageIds /\ Cached(f).id.no \in PageNos /\ Cached(f).val \in Int
  BY <1>2, Types
<1>4. OnFile(Cached(f).id)
  BY DEF CInv, RInv, IInv, PagesSelfIdentifying
<1>5. Cached(f).id = FileId(Cached(f).id.no)
  BY <1>3, <1>4 DEF OnFile, FileId, PageIds
<1>6. Cached(f).val = latest[Cached(f).id.no]
  BY DEF CInv, Contents, Newest
<1> QED
  BY <1>3, <1>4, <1>5, <1>6 DEF OnFile

\* Each page of the file keeps its version, or gets the newest one
Freshens ==
  \A n \in PageNos :
    /\ file'[n] = None <=> file[n] = None
    /\ file'[n].val = file[n].val \/ file'[n].val = latest[n]

\* The page of a frame is what the file holds after the step
StoredNext(k) == file'[Cached(k).id.no].val = Cached(k).val

\* A step that loads and changes no page, and only frees a frame of its dirty
\* flag, or a victim to be emptied, when the page is on file
LEMMA KeptContents ==
  ASSUME CInv, NEW t \in Threads, OthersWait(t), KeepsPages, KeepsValues, Freshens,
         UNCHANGED <<file_len, latest>>,
         \A k \in Frames : frames[k] # None /\ ~frames'[k].dirty =>
           ~frames[k].dirty \/ StoredNext(k),
         \A u \in Threads : u # t => loaded'[u] = loaded[u],
         pc'[t] # "install",
         pc'[t] = "unmap" => slot'[t] \in Frames /\ frames[slot'[t]] # None
                             /\ StoredNext(slot'[t])
  PROVE  Contents'
PROOF
<1>1. Newest'
  <2> SUFFICES ASSUME NEW f \in Frames, frames'[f] # None
               PROVE  frames'[f].page.val = latest[frames'[f].page.id.no]
    BY DEF Newest, Cached
  <2> QED
    BY CachedPages DEF KeepsPages, KeepsValues, Cached
<1>2. CleanMeansOnDisk'
  <2> SUFFICES ASSUME NEW f \in Frames, frames'[f] # None, ~frames'[f].dirty
               PROVE  frames'[f].page.val = file'[frames'[f].page.id.no].val
    BY DEF CleanMeansOnDisk, Cached
  <2>1. frames[f] # None /\ frames'[f].page.val = Cached(f).val /\ frames'[f].page.id = Cached(f).id
    BY DEF KeepsPages, KeepsValues, Cached
  <2>2. ~frames[f].dirty => Cached(f).val = file[Cached(f).id.no].val
    BY <2>1 DEF CInv, Contents, CleanMeansOnDisk
  <2>3. StoredNext(f)
    BY <2>1, <2>2, CachedPages DEF Freshens, StoredNext
  <2> QED
    BY <2>1, <2>3 DEF StoredNext
<1>3. LoadedNewest'
  <2> SUFFICES ASSUME NEW u \in Threads, pc'[u] = "install"
               PROVE  /\ loaded'[u].id = want'[u]
                      /\ loaded'[u].val = latest[want'[u].no]
                      /\ loaded'[u].val = file'[want'[u].no].val
    BY DEF LoadedNewest
  <2>1. u # t /\ pc[u] = "install" /\ loaded'[u] = loaded[u] /\ want'[u] = want[u]
    BY DEF OthersWait
  <2>2. want[u] \in PageIds
    BY <2>1 DEF CInv, RInv, IInv, TypeOK, CallTypes, WithWanted
  <2>3. want[u].no \in PageNos
    BY <2>2, Types
  <2> QED
    BY <2>1, <2>3 DEF CInv, Contents, LoadedNewest, Freshens
<1>4. Saved'
  <2> SUFFICES ASSUME NEW u \in Threads, pc'[u] = "unmap"
               PROVE  frames'[slot'[u]].page.val = file'[frames'[slot'[u]].page.id.no].val
    BY DEF Saved, Cached
  <2>1. slot'[u] \in Frames /\ frames[slot'[u]] # None /\ StoredNext(slot'[u])
    <3>1. CASE u = t
      BY <3>1
    <3>2. CASE u # t
      <4>1. pc[u] = "unmap" /\ slot'[u] = slot[u] /\ Owning(u)
        BY <3>2 DEF OthersWait, Owning
      <4>2. slot[u] \in Frames /\ frames[slot[u]] # None
        BY <4>1, OwnFrames
      <4>3. Cached(slot[u]).val = file[Cached(slot[u]).id.no].val
        BY <4>1 DEF CInv, Contents, Saved
      <4> QED
        BY <4>1, <4>2, <4>3, CachedPages DEF Freshens, StoredNext
    <3> QED
      BY <3>1, <3>2
  <2> QED
    BY <2>1 DEF KeepsPages, KeepsValues, Cached, StoredNext
<1>5. Uncached'
  <2> SUFFICES ASSUME NEW n \in PageNos, n < file_len,
                      \A f \in Frames : frames'[f] # None => frames'[f].page.id.no # n
               PROVE  file'[n].val = latest[n]
    BY DEF Uncached, Cached
  <2>1. \A f \in Frames : frames[f] # None => Cached(f).id.no # n
    BY DEF KeepsPages, Cached
  <2> QED
    BY <2>1 DEF CInv, Contents, Uncached, Freshens
<1>6. Beyond'
  BY DEF CInv, Contents, Beyond, Freshens
<1> QED
  BY <1>1, <1>2, <1>3, <1>4, <1>5, <1>6 DEF Contents

\* A step that touches neither the frames nor the file
LEMMA QuietContents ==
  ASSUME CInv, NEW t \in Threads, OthersWait(t), UNCHANGED <<frames, disk, latest>>,
         \A u \in Threads : u # t => loaded'[u] = loaded[u],
         pc'[t] \notin {"install", "unmap"}
  PROVE  Contents'
PROOF
<1>1. /\ KeepsPages /\ KeepsValues /\ Freshens /\ file_len' = file_len
      /\ \A k \in Frames : frames[k] # None /\ ~frames'[k].dirty => ~frames[k].dirty
  BY DEF KeepsPages, KeepsValues, Freshens, disk
<1> QED
  BY <1>1, KeptContents

\* A frame's page is written
LEMMA WrittenPage ==
  ASSUME CInv, NEW f \in Frames, frames[f] # None, file' = Written(WithChecksum(frames[f].page))
  PROVE  Freshens /\ StoredNext(f)
PROOF
<1> DEFINE n == Cached(f).id.no
           w == WithChecksum(Cached(f))
<1>1. n \in PageNos /\ n < file_len /\ Cached(f).val = latest[n]
  BY CachedPages
<1>2. file' = [file EXCEPT ![n] = w]
  <2>1. Cached(f) \in Page
    BY FullFrame, Types DEF Cached
  <2> QED
    BY <2>1, Types DEF Written, Cached
<1>3. w.val = Cached(f).val /\ w # None
  <2>1. frames[f] \in BufferFrame
    BY FullFrame
  <2>2. Cached(f) \in Page
    BY <2>1, Types DEF Cached
  <2>3. w \in Page /\ w.val = Cached(f).val
    BY <2>2, Types DEF WithChecksum, Page
  <2> QED
    BY <2>3, Types
<1>4. file[n] # None
  BY <1>1, Types DEF CInv, RInv, IInv, TypeOK, SharedTypes
<1> HIDE DEF n, w
<1>5. \A m \in PageNos : file'[m] = IF m = n THEN w ELSE file[m]
  BY <1>2 DEF CInv, RInv, IInv, TypeOK, SharedTypes
<1> QED
  BY <1>1, <1>3, <1>4, <1>5 DEF Freshens, StoredNext, n

\* A frame's page is written in part: its place in the file is all that may
\* change, to what callers see or a mixture
LEMMA PartlyWrittenPage ==
  ASSUME CInv, NEW f \in Frames, frames[f] # None,
         file' \in PartlyWritten(WithChecksum(frames[f].page)),
         NEW n, n = Cached(f).id.no
  PROVE  /\ \A m \in PageNos : file'[m] = None <=> file[m] = None
         /\ \A m \in PageNos : m # n => file'[m] = file[m]
         /\ file'[n].val \in {file[n].val, Torn(latest[n]), latest[n]}
PROOF
<1> DEFINE page == WithChecksum(Cached(f))
<1>1. n \in PageNos /\ n < file_len /\ Cached(f).val = latest[n]
  BY CachedPages
<1>2. page \in Page /\ page.id.no = n /\ page.val = latest[n]
  <2>1. Cached(f) \in Page
    BY FullFrame, Types DEF Cached
  <2>2. page.val = Cached(f).val
    BY <2>1 DEF WithChecksum, Page
  <2> QED
    BY <1>1, <2>1, <2>2, Types
<1>3. file[n] \in Page
  BY <1>1 DEF CInv, RInv, IInv, TypeOK, SharedTypes
<1>4. file' \in PartlyWritten(page)
  BY DEF Cached
<1> HIDE DEF page
<1>5. \/ file' = file
      \/ \E v \in {file[n].val, Torn(latest[n]), latest[n]} :
           file' = Written([page EXCEPT !.val = v])
  BY <1>2, <1>4 DEF PartlyWritten
<1>6. CASE file' = file
  BY <1>6
<1>7. ASSUME NEW v \in {file[n].val, Torn(latest[n]), latest[n]},
             file' = Written([page EXCEPT !.val = v])
      PROVE  /\ \A m \in PageNos : file'[m] = None <=> file[m] = None
             /\ \A m \in PageNos : m # n => file'[m] = file[m]
             /\ file'[n].val = v
  <2> DEFINE w == [page EXCEPT !.val = v]
  <2>1. v \in Int
    <3>1. latest[n] \in Int
      BY <1>1 DEF CInv, RInv, IInv, TypeOK, SharedTypes
    <3>2. file[n].val \in Int
      BY <1>3, Types
    <3> QED
      BY <3>1, <3>2, VersionTypes
  <2>2. w \in Page /\ w.id = page.id /\ w.val = v
    BY <1>2, <2>1, Types DEF Page
  <2>3. file' = [file EXCEPT ![n] = w]
    BY <1>2, <1>7, <2>2 DEF Written
  <2> HIDE DEF w
  <2>4. w # None /\ file[n] # None
    BY <1>3, <2>2, Types
  <2> QED
    BY <1>1, <2>2, <2>3, <2>4 DEF CInv, RInv, IInv, TypeOK, SharedTypes
<1> QED
  BY <1>5, <1>6, <1>7

\* Saving a victim
LEMMA VictimSavedContents ==
  ASSUME CInv, NEW t \in Threads, VictimSaved(t)
  PROVE  Contents'
PROOF
<1>0. PICK f \in Frames : f = slot[t]
  BY DEF VictimSaved, CInv, RInv, IInv, TypeOK, CallTypes, WithSlot
<1>1. /\ pc' = [pc EXCEPT ![t] = "unmap"]
      /\ UNCHANGED <<want, slot, file_len, latest, loaded>>
      /\ frames[f] # None
      /\ \/ ~frames[f].dirty /\ UNCHANGED <<file, frames>>
         \/ /\ file' = Written(WithChecksum(frames[f].page))
            /\ frames' = [frames EXCEPT ![f].page = WithChecksum(@)]
  BY <1>0 DEF VictimSaved, Goto, scratch, caller
<1>2. KeepsPages /\ KeepsValues /\ KeepsDirty
  BY <1>1, ChecksumFrames
<1>3. Freshens /\ StoredNext(f)
  <2>1. CASE ~frames[f].dirty /\ UNCHANGED <<file, frames>>
    BY <1>1, <2>1 DEF Freshens, StoredNext, CInv, Contents, CleanMeansOnDisk
  <2>2. CASE file' = Written(WithChecksum(frames[f].page))
    BY <1>1, <2>2, WrittenPage
  <2> QED
    BY <1>1, <2>1, <2>2
<1>4. OthersWait(t) /\ pc'[t] = "unmap" /\ slot'[t] = f
  BY <1>0, <1>1 DEF OthersWait, CInv, RInv, IInv, TypeOK, CallTypes
<1>5. \A k \in Frames : frames[k] # None /\ ~frames'[k].dirty => ~frames[k].dirty
  BY <1>2 DEF KeepsDirty
<1> QED
  BY <1>1, <1>2, <1>3, <1>4, <1>5, KeptContents

\* A dirty frame is written
LEMMA FlushWriteContents ==
  ASSUME CInv, NEW t \in Threads, FlushWrite(t)
  PROVE  Contents'
PROOF
<1>0. PICK f \in Frames : f = slot[t]
  BY FlushWriteFrames
<1>1. /\ frames[f] # None /\ OnlyFrame(f) /\ KeepsPages /\ KeepsValues
      /\ file' = Written(WithChecksum(frames[f].page))
      /\ UNCHANGED <<want, file_len, latest, loaded>>
      /\ slot' = [slot EXCEPT ![t] = None]
      /\ \E l \in {"idle", "flush_next"} : pc' = [pc EXCEPT ![t] = l]
  BY <1>0, FlushWriteFrames DEF FlushWrite, AfterFlush, scratch, caller
<1>2. Freshens /\ StoredNext(f)
  BY <1>1, WrittenPage
<1>3. OthersWait(t) /\ pc'[t] \in {"idle", "flush_next"}
  BY <1>1 DEF OthersWait, CInv, RInv, IInv, TypeOK, CallTypes
<1>4. \A k \in Frames : frames[k] # None /\ ~frames'[k].dirty => ~frames[k].dirty \/ StoredNext(k)
  BY <1>1, <1>2 DEF OnlyFrame
<1> QED
  BY <1>1, <1>2, <1>3, <1>4, KeptContents

\* A pin count changes
LEMMA PinContents ==
  ASSUME CInv, FewGuards, NEW t \in Threads,
         HitPin(t) \/ \E h \in Handles : DropGuard(t, h)
  PROVE  Contents'
PROOF
<1>1. KeepsPages /\ KeepsValues /\ KeepsDirty
  BY HitPinPin, DropGuardPin
<1>2. /\ UNCHANGED <<want, slot, disk, latest, loaded>>
      /\ \E l \in {"idle", "hit_lru"} : pc' = [pc EXCEPT ![t] = l]
  <2>1. CASE HitPin(t)
    BY <2>1, HitPinPin DEF HitPin, Goto, scratch, caller
  <2>2. ASSUME NEW h \in Handles, DropGuard(t, h)
        PROVE  UNCHANGED <<want, slot, disk, latest, loaded>> /\ pc' = [pc EXCEPT ![t] = "idle"]
    <3>1. UNCHANGED call /\ pc[t] = "idle"
      BY <2>2, DropGuardPin DEF DropGuard
    <3> QED
      BY <2>2, <3>1 DEF DropGuard, call, scratch, CInv, RInv, IInv, TypeOK, CallTypes
  <2> QED
    BY <2>1, <2>2
<1>3. OthersWait(t) /\ pc'[t] \in {"idle", "hit_lru"}
  BY <1>2 DEF OthersWait, CInv, RInv, IInv, TypeOK, CallTypes
<1>4. Freshens /\ file_len' = file_len
  BY <1>2 DEF Freshens, disk
<1>5. \A k \in Frames : frames[k] # None /\ ~frames'[k].dirty => ~frames[k].dirty
  BY <1>1 DEF KeepsDirty
<1> QED
  BY <1>1, <1>2, <1>3, <1>4, <1>5, KeptContents

\* There is one copy of a page in memory
LEMMA OneCopy ==
  ASSUME CInv, Careful, NEW f \in Frames, NEW k \in Frames,
         frames[f] # None, frames[k] # None, Cached(f).id.no = Cached(k).id.no
  PROVE  f = k
PROOF
<1> DEFINE p == Cached(f).id
<1>1. p \in PageIds /\ Cached(k).id = p /\ p # None
  BY CachedPages, Types
<1>2. /\ page_table[p] = f
         \/ \E u \in Threads : pc[u] = "publish" /\ slot[u] = f /\ want[u] = p
      /\ page_table[p] = k
         \/ \E u \in Threads : pc[u] = "publish" /\ slot[u] = k /\ want[u] = p
  BY <1>1 DEF CInv, Structure, Owned
<1>3. \A u \in Threads : pc[u] = "publish" /\ want[u] = p => page_table[p] = None
  BY <1>1 DEF CInv, Structure, Absent, NotThere, BringingIn
<1>4. \A u, v \in Threads : pc[u] = "publish" /\ want[u] = p /\ pc[v] = "publish" /\ want[v] = p
        => u = v
  BY <1>1 DEF Careful, BringingIn
<1> QED
  BY <1>2, <1>3, <1>4, Types

\* A page that is brought in is in no frame, but its own in the end
LEMMA BroughtInOnce ==
  ASSUME CInv, Careful, NEW t \in Threads, pc[t] \in {"load", "install"}, want[t] # None,
         NEW f \in Frames, frames[f] # None
  PROVE  Cached(f).id.no # want[t].no
PROOF
<1> SUFFICES ASSUME Cached(f).id.no = want[t].no PROVE FALSE
  OBVIOUS
<1>1. want[t] \in PageIds /\ want[t].space = FileSpace
  BY DEF CInv, RInv, IInv, TypeOK, CallTypes, Careful
<1>2. want[t] = FileId(want[t].no)
  BY <1>1 DEF PageIds, FileId
<1>3. Cached(f).id = want[t]
  BY <1>2, CachedPages
<1>4. page_table[want[t]] = None
  BY DEF CInv, Structure, Absent, NotThere, BringingIn
<1>5. page_table[want[t]] # f
  BY <1>4, Types
<1>6. \/ page_table[Cached(f).id] = f
      \/ \E u \in Threads : pc[u] = "publish" /\ slot[u] = f /\ want[u] = Cached(f).id
  BY DEF CInv, Structure, Owned
<1>7. PICK u \in Threads : pc[u] = "publish" /\ want[u] = want[t]
  BY <1>3, <1>5, <1>6
<1> QED
  BY <1>7 DEF Careful, BringingIn

\* A victim cannot be written, or a page to flush: its frame stays dirty, and
\* nobody else has the page
LEMMA WriteFailsContents ==
  ASSUME CInv, Careful, NEW t \in Threads, VictimWriteFails(t) \/ FlushFails(t)
  PROVE  Contents'
PROOF
<1>0. PICK f \in Frames : f = slot[t]
  BY DEF VictimWriteFails, FlushFails, CInv, RInv, IInv, TypeOK, CallTypes, WithSlot
<1>1. /\ pc' = [pc EXCEPT ![t] = "idle"]
      /\ want' = [want EXCEPT ![t] = None] /\ slot' = [slot EXCEPT ![t] = None]
      /\ UNCHANGED <<file_len, latest, loaded>>
      /\ frames[f] # None /\ frames[f].dirty /\ ~FrameHeld(f)
      /\ file' \in PartlyWritten(WithChecksum(frames[f].page))
      /\ frames' = [frames EXCEPT ![f].page = WithChecksum(@)]
  BY <1>0 DEF VictimWriteFails, FlushFails, Return, Dirty, scratch, caller
<1>2. KeepsPages /\ KeepsValues /\ KeepsDirty
  BY <1>1, ChecksumFrames
<1>3. PICK n \in PageNos : n = Cached(f).id.no /\ n < file_len
  BY <1>1, CachedPages
<1>4. /\ \A m \in PageNos : file'[m] = None <=> file[m] = None
      /\ \A m \in PageNos : m # n => file'[m] = file[m]
  BY <1>1, <1>3, PartlyWrittenPage
<1>5. \A k \in Frames : k # f /\ frames[k] # None => Cached(k).id.no # n
  BY <1>1, <1>3, OneCopy
<1>6. OthersWait(t) /\ pc'[t] = "idle"
  BY <1>1 DEF OthersWait, CInv, RInv, IInv, TypeOK, CallTypes
<1>7. Newest'
  <2> SUFFICES ASSUME NEW k \in Frames, frames'[k] # None
               PROVE  frames'[k].page.val = latest[frames'[k].page.id.no]
    BY <1>1 DEF Newest, Cached
  <2> QED
    BY <1>2, CachedPages DEF KeepsPages, KeepsValues, Cached
<1>8. CleanMeansOnDisk'
  <2> SUFFICES ASSUME NEW k \in Frames, frames'[k] # None, ~frames'[k].dirty
               PROVE  frames'[k].page.val = file'[frames'[k].page.id.no].val
    BY DEF CleanMeansOnDisk, Cached
  <2>1. /\ frames[k] # None /\ ~frames[k].dirty
        /\ frames'[k].page.val = Cached(k).val /\ frames'[k].page.id = Cached(k).id
    BY <1>2 DEF KeepsPages, KeepsValues, KeepsDirty, Cached
  <2>2. Cached(k).val = file[Cached(k).id.no].val
    BY <2>1 DEF CInv, Contents, CleanMeansOnDisk
  <2>3. Cached(k).id.no # n /\ Cached(k).id.no \in PageNos
    BY <1>1, <1>5, <2>1, CachedPages
  <2> QED
    BY <1>4, <2>1, <2>2, <2>3
<1>9. LoadedNewest'
  <2> SUFFICES ASSUME NEW u \in Threads, pc'[u] = "install"
               PROVE  /\ loaded'[u].id = want'[u]
                      /\ loaded'[u].val = latest[want'[u].no]
                      /\ loaded'[u].val = file'[want'[u].no].val
    BY <1>1 DEF LoadedNewest
  <2>1. u # t /\ pc[u] = "install" /\ loaded'[u] = loaded[u] /\ want'[u] = want[u]
    BY <1>1, <1>6 DEF OthersWait
  <2>2. want[u] \in PageIds
    BY <2>1 DEF CInv, RInv, IInv, TypeOK, CallTypes, WithWanted
  <2>3. want[u].no # n
    BY <1>1, <1>3, <2>1, <2>2, BroughtInOnce, Types
  <2>4. want[u].no \in PageNos
    BY <2>2, Types
  <2> QED
    BY <1>4, <2>1, <2>3, <2>4 DEF CInv, Contents, LoadedNewest
<1>10. Saved'
  <2> SUFFICES ASSUME NEW u \in Threads, pc'[u] = "unmap"
               PROVE  frames'[slot'[u]].page.val = file'[frames'[slot'[u]].page.id.no].val
    BY DEF Saved, Cached
  <2>1. u # t /\ pc[u] = "unmap" /\ slot'[u] = slot[u] /\ Owning(u)
    BY <1>6 DEF OthersWait, Owning
  <2>2. slot[u] \in Frames /\ frames[slot[u]] # None
    BY <2>1, OwnFrames
  <2>3. slot[u] # f
    BY <1>1, <2>1 DEF FrameHeld
  <2>4. Cached(slot[u]).id.no # n /\ Cached(slot[u]).id.no \in PageNos
    BY <1>5, <2>2, <2>3, CachedPages
  <2>5. Cached(slot[u]).val = file[Cached(slot[u]).id.no].val
    BY <2>1 DEF CInv, Contents, Saved
  <2> QED
    BY <1>2, <1>4, <2>1, <2>2, <2>4, <2>5 DEF KeepsPages, KeepsValues, Cached
<1>11. Uncached'
  <2> SUFFICES ASSUME NEW m \in PageNos, m < file_len,
                      \A k \in Frames : frames'[k] # None => frames'[k].page.id.no # m
               PROVE  file'[m].val = latest[m]
    BY <1>1 DEF Uncached, Cached
  <2>1. \A k \in Frames : frames[k] # None => Cached(k).id.no # m
    BY <1>2 DEF KeepsPages, Cached
  <2>2. m # n
    BY <1>1, <1>3, <2>1
  <2> QED
    BY <1>4, <2>1, <2>2 DEF CInv, Contents, Uncached
<1>12. Beyond'
  BY <1>1, <1>4 DEF CInv, Contents, Beyond
<1> QED
  BY <1>7, <1>8, <1>9, <1>10, <1>11, <1>12 DEF Contents

\* A write goes to the one copy there is, and nobody holds an older one
LEMMA WriteGuardContents ==
  ASSUME CInv, Careful, NEW t \in Threads, NEW h \in Handles, WriteGuard(t, h)
  PROVE  Contents'
PROOF
<1>0. PICK f \in Frames : f = guards[t][h].frame
  BY WriteGuardFrames
<1>1. PICK n \in PageNos : n = guards[t][h].id.no
  BY Guarded DEF WriteGuard
<1>2. /\ frames[f] # None /\ OnlyFrame(f) /\ KeepsPages
      /\ frames'[f].dirty = TRUE /\ frames'[f].page.val = Newer(latest[n])
  BY <1>0, <1>1, WriteGuardFrames
<1>3. /\ latest' = [latest EXCEPT ![n] = Newer(latest[n])]
      /\ UNCHANGED <<disk, pc, want, slot, loaded>>
  BY <1>1 DEF WriteGuard, call, scratch
<1>4. \A m \in PageNos : latest'[m] = IF m = n THEN Newer(latest[n]) ELSE latest[m]
  BY <1>3 DEF CInv, RInv, IInv, TypeOK, SharedTypes
<1>5. Cached(f).id.no = n /\ n < file_len
  BY <1>0, <1>1, Guarded DEF WriteGuard, OnFile
<1>6. \A k \in Frames : k # f /\ frames[k] # None => Cached(k).id.no # n
  BY <1>2, <1>5, OneCopy
<1>7. Newest'
  <2> SUFFICES ASSUME NEW k \in Frames, frames'[k] # None
               PROVE  frames'[k].page.val = latest'[frames'[k].page.id.no]
    BY DEF Newest, Cached
  <2>1. frames[k] # None /\ frames'[k].page.id = Cached(k).id
    BY <1>2 DEF KeepsPages, Cached
  <2>2. CASE k = f
    BY <1>2, <1>4, <1>5, <2>1, <2>2
  <2>3. CASE k # f
    BY <1>2, <1>4, <1>6, <2>1, <2>3, CachedPages DEF OnlyFrame, Cached
  <2> QED
    BY <2>2, <2>3
<1>8. CleanMeansOnDisk'
  <2> SUFFICES ASSUME NEW k \in Frames, frames'[k] # None, ~frames'[k].dirty
               PROVE  frames'[k].page.val = file'[frames'[k].page.id.no].val
    BY DEF CleanMeansOnDisk, Cached
  <2>1. k # f /\ frames'[k] = frames[k]
    BY <1>2 DEF OnlyFrame
  <2> QED
    BY <1>3, <2>1 DEF CInv, Contents, CleanMeansOnDisk, Cached, disk
<1>9. LoadedNewest'
  <2> SUFFICES ASSUME NEW u \in Threads, pc[u] = "install"
               PROVE  /\ loaded[u].id = want[u]
                      /\ loaded[u].val = latest'[want[u].no]
                      /\ loaded[u].val = file[want[u].no].val
    BY <1>3 DEF LoadedNewest, disk
  <2>1. want[u] \in PageIds
    BY DEF CInv, RInv, IInv, TypeOK, CallTypes, WithWanted
  <2>2. want[u].no # n
    BY <1>2, <1>5, <2>1, BroughtInOnce, Types
  <2>3. want[u].no \in PageNos
    BY <2>1, Types
  <2> QED
    BY <1>4, <2>2, <2>3 DEF CInv, Contents, LoadedNewest
<1>10. Saved'
  <2> SUFFICES ASSUME NEW u \in Threads, pc[u] = "unmap"
               PROVE  frames'[slot[u]].page.val = file[frames'[slot[u]].page.id.no].val
    BY <1>3 DEF Saved, Cached, disk
  <2>1. slot[u] \in Frames /\ slot[u] # f
    BY <1>0, OwnFrames, GuardedApart DEF Owning, WriteGuard
  <2> QED
    BY <1>2, <2>1 DEF OnlyFrame, CInv, Contents, Saved, Cached
<1>11. Uncached'
  <2> SUFFICES ASSUME NEW m \in PageNos, m < file_len,
                      \A k \in Frames : frames'[k] # None => frames'[k].page.id.no # m
               PROVE  file[m].val = latest'[m]
    BY <1>3 DEF Uncached, Cached, disk
  <2>1. \A k \in Frames : frames[k] # None => Cached(k).id.no # m
    BY <1>2 DEF KeepsPages, Cached
  <2>2. m # n
    BY <1>2, <1>5, <2>1
  <2> QED
    BY <1>4, <2>1, <2>2 DEF CInv, Contents, Uncached
<1>12. Beyond'
  <2>1. n \in Nat /\ file_len \in Nat
    BY DEF PageNos, CInv, RInv, IInv, TypeOK, SharedTypes
  <2> QED
    BY <1>3, <1>4, <1>5, <2>1 DEF CInv, Contents, Beyond, disk
<1> QED
  BY <1>7, <1>8, <1>9, <1>10, <1>11, <1>12 DEF Contents

\* A victim's page is on file
LEMMA UnmapContents ==
  ASSUME CInv, NEW t \in Threads, Unmap(t)
  PROVE  Contents'
PROOF
<1>0. PICK f \in Frames : f = slot[t]
  BY OwnFrames DEF Unmap, Owning
<1>1. /\ pc[t] = "unmap" /\ pc' = [pc EXCEPT ![t] = "load"]
      /\ frames' = [frames EXCEPT ![f] = None]
      /\ UNCHANGED <<want, slot, disk, latest, loaded>>
  BY <1>0 DEF Unmap, Goto, scratch, caller
<1>2. /\ \A k \in Frames : IF k = f THEN frames'[k] = None ELSE frames'[k] = frames[k]
      /\ \A u \in Threads : pc'[u] = IF u = t THEN "load" ELSE pc[u]
  BY <1>1 DEF CInv, RInv, IInv, TypeOK, SharedTypes, CallTypes
<1>3. Newest' /\ CleanMeansOnDisk' /\ LoadedNewest' /\ Beyond'
  BY <1>1, <1>2
  DEF CInv, Contents, Newest, CleanMeansOnDisk, LoadedNewest, Beyond, Cached, disk
<1>4. Saved'
  <2> SUFFICES ASSUME NEW u \in Threads, u # t, pc[u] = "unmap"
               PROVE  frames'[slot[u]].page.val = file[frames'[slot[u]].page.id.no].val
    BY <1>1, <1>2 DEF Saved, Cached, disk
  <2>1. slot[u] \in Frames /\ slot[u] # f
    BY <1>0, <1>1, OwnFrames DEF Owning, CInv, Structure, OwnSlot
  <2> QED
    BY <1>2, <2>1 DEF CInv, Contents, Saved, Cached
<1>5. Uncached'
  <2> SUFFICES ASSUME NEW m \in PageNos, m < file_len,
                      \A k \in Frames : frames'[k] # None => frames'[k].page.id.no # m
               PROVE  file[m].val = latest[m]
    BY <1>1 DEF Uncached, Cached, disk
  <2>1. frames[f] # None
    BY <1>0, <1>1, OwnFrames DEF Owning
  <2>2. CASE m = Cached(f).id.no
    BY <1>0, <1>1, <2>1, <2>2, CachedPages DEF CInv, Contents, Saved
  <2>3. CASE m # Cached(f).id.no
    BY <1>2, <2>3 DEF CInv, Contents, Uncached, Cached
  <2> QED
    BY <2>2, <2>3
<1> QED
  BY <1>3, <1>4, <1>5 DEF Contents

\* What is read is the newest version, because the page is nowhere in memory
LEMMA ReadPageContents ==
  ASSUME CInv, Careful, NEW t \in Threads, ReadPage(t)
  PROVE  Contents'
PROOF
<1>1. /\ pc[t] = "load" /\ want[t] # None /\ pc' = [pc EXCEPT ![t] = "install"]
      /\ want[t].no < file_len
      /\ loaded' = [loaded EXCEPT ![t] = file[want[t].no]]
      /\ UNCHANGED <<want, slot, frames, disk, latest>>
  BY DEF ReadPage, Goto, pool, caller
<1>2. want[t] \in PageIds /\ want[t].space = FileSpace
  BY <1>1 DEF CInv, RInv, IInv, TypeOK, CallTypes, Careful
<1>3. want[t].no \in PageNos /\ want[t] = FileId(want[t].no)
  BY <1>2, Types DEF PageIds, FileId
<1>4. file[want[t].no].id = want[t]
  BY <1>1, <1>3 DEF CInv, RInv, IInv, PagesSelfIdentifying
<1>5. file[want[t].no].val = latest[want[t].no]
  BY <1>1, <1>3, BroughtInOnce DEF CInv, Contents, Uncached
<1>6. \A u \in Threads :
        IF u = t THEN pc'[u] = "install" /\ loaded'[u] = file[want[t].no]
                 ELSE pc'[u] = pc[u] /\ loaded'[u] = loaded[u]
  BY <1>1 DEF CInv, RInv, IInv, TypeOK, CallTypes
<1>7. LoadedNewest'
  BY <1>1, <1>4, <1>5, <1>6 DEF CInv, Contents, LoadedNewest, disk
<1>8. Newest' /\ CleanMeansOnDisk' /\ Saved' /\ Uncached' /\ Beyond'
  BY <1>1, <1>6 DEF CInv, Contents, Newest, CleanMeansOnDisk, Saved, Uncached, Beyond, Cached, disk
<1> QED
  BY <1>7, <1>8 DEF Contents

\* The call has a page that is on file already
LEMMA LoadedOnFile ==
  ASSUME CInv, NEW t \in Threads, pc[t] = "install"
  PROVE  want[t] \in PageIds /\ want[t].no \in PageNos /\ want[t].no < file_len
PROOF
<1>1. want[t] \in PageIds /\ loaded[t] # None
  BY Types DEF CInv, RInv, IInv, TypeOK, CallTypes, WithWanted
<1>2. OnFile(loaded[t].id) /\ loaded[t].id = want[t]
  BY <1>1 DEF CInv, RInv, IInv, PagesSelfIdentifying, Contents, LoadedNewest
<1> QED
  BY <1>1, <1>2, Types DEF OnFile

\* A new page is version 0, in memory and on file
LEMMA AllocateContents ==
  ASSUME CInv, NEW t \in Threads, Allocate(t)
  PROVE  Contents'
PROOF
<1>0. PICK n \in PageNos : n = file_len
  BY ConstantsAssumption DEF Allocate, CInv, RInv, IInv, TypeOK, SharedTypes, PageNos
<1>1. /\ pc[t] = "load" /\ pc' = [pc EXCEPT ![t] = "install"]
      /\ file' = [file EXCEPT ![n] = NewPage(n)] /\ file_len' = n + 1
      /\ loaded' = [loaded EXCEPT ![t] = NewPage(n)]
      /\ want' = [want EXCEPT ![t] = FileId(n)]
      /\ UNCHANGED <<slot, frames, latest>>
  BY <1>0 DEF Allocate, NewPage, FileId, pool, caller
<1>2. /\ NewPage(n).id = FileId(n) /\ FileId(n).no = n /\ NewPage(n).val = 0
      /\ latest[n] = 0
  BY <1>0 DEF NewPage, FileId, CInv, Contents, Beyond, PageNos
<1>3. /\ \A m \in PageNos : IF m = n THEN file'[m] = NewPage(n) ELSE file'[m] = file[m]
      /\ \A u \in Threads :
           IF u = t THEN pc'[u] = "install" /\ loaded'[u] = NewPage(n) /\ want'[u] = FileId(n)
                    ELSE pc'[u] = pc[u] /\ loaded'[u] = loaded[u] /\ want'[u] = want[u]
  BY <1>1 DEF CInv, RInv, IInv, TypeOK, SharedTypes, CallTypes
<1>4. n \in Nat /\ file_len = n
  BY <1>0 DEF PageNos
<1>5. Newest'
  BY <1>1 DEF CInv, Contents, Newest, Cached
<1>6. \A k \in Frames : frames[k] # None => Cached(k).id.no \in PageNos /\ Cached(k).id.no # n
  BY <1>4, CachedPages DEF PageNos
<1>7. CleanMeansOnDisk'
  BY <1>1, <1>3, <1>6 DEF CInv, Contents, CleanMeansOnDisk, Cached
<1>8. LoadedNewest'
  <2> SUFFICES ASSUME NEW u \in Threads, pc'[u] = "install"
               PROVE  /\ loaded'[u].id = want'[u]
                      /\ loaded'[u].val = latest[want'[u].no]
                      /\ loaded'[u].val = file'[want'[u].no].val
    BY <1>1 DEF LoadedNewest
  <2>1. CASE u = t
    BY <1>2, <1>3, <2>1
  <2>2. CASE u # t
    <3>1. pc[u] = "install" /\ loaded'[u] = loaded[u] /\ want'[u] = want[u]
      BY <1>3, <2>2
    <3>2. want[u].no \in PageNos /\ want[u].no # n
      BY <1>4, <3>1, LoadedOnFile DEF PageNos
    <3> QED
      BY <1>3, <3>1, <3>2 DEF CInv, Contents, LoadedNewest
  <2> QED
    BY <2>1, <2>2
<1>9. Saved'
  <2> SUFFICES ASSUME NEW u \in Threads, pc[u] = "unmap"
               PROVE  Cached(slot[u]).val = file'[Cached(slot[u]).id.no].val
    BY <1>1, <1>3 DEF Saved, Cached
  <2>1. slot[u] \in Frames /\ frames[slot[u]] # None
    BY OwnFrames DEF Owning
  <2> QED
    BY <1>3, <1>6, <2>1 DEF CInv, Contents, Saved
<1>10. Uncached'
  <2> SUFFICES ASSUME NEW m \in PageNos, m < n + 1,
                      \A k \in Frames : frames[k] # None => Cached(k).id.no # m
               PROVE  file'[m].val = latest[m]
    BY <1>1 DEF Uncached, Cached
  <2>1. m = n \/ m < file_len
    BY <1>4 DEF PageNos
  <2> QED
    BY <1>2, <1>3, <2>1 DEF CInv, Contents, Uncached
<1>11. Beyond'
  <2> SUFFICES ASSUME NEW m \in PageNos, m >= n + 1
               PROVE  file'[m] = None /\ latest[m] = 0
    BY <1>1 DEF Beyond
  <2>1. m # n /\ m >= file_len
    BY <1>4 DEF PageNos
  <2> QED
    BY <1>3, <2>1 DEF CInv, Contents, Beyond
<1> QED
  BY <1>5, <1>7, <1>8, <1>9, <1>10, <1>11 DEF Contents

\* What was loaded gets into its frame
LEMMA InstallContents ==
  ASSUME CInv, NEW t \in Threads, Install(t)
  PROVE  Contents'
PROOF
<1>0. PICK f \in Frames : f = slot[t]
  BY OwnFrames DEF Install, Owning
<1> DEFINE b == [page |-> loaded[t], dirty |-> FALSE, pin |-> 1]
<1>1. /\ pc[t] = "install" /\ pc' = [pc EXCEPT ![t] = "publish"]
      /\ frames' = [frames EXCEPT ![f] = b]
      /\ loaded' = [loaded EXCEPT ![t] = None]
      /\ UNCHANGED <<want, slot, disk, latest>>
  BY <1>0 DEF Install, Goto, caller
<1>2. b.page = loaded[t] /\ frames[f] = None
  BY <1>0, <1>1 DEF CInv, Structure, InHand, Knows
<1> HIDE DEF b
<1>3. /\ \A k \in Frames : IF k = f THEN frames'[k] = b ELSE frames'[k] = frames[k]
      /\ \A u \in Threads :
           IF u = t THEN pc'[u] = "publish" ELSE pc'[u] = pc[u] /\ loaded'[u] = loaded[u]
  BY <1>1 DEF CInv, RInv, IInv, TypeOK, SharedTypes, CallTypes
<1>4. /\ loaded[t].val = latest[loaded[t].id.no]
      /\ loaded[t].val = file[loaded[t].id.no].val
  BY <1>1 DEF CInv, Contents, LoadedNewest
<1>5. Newest' /\ CleanMeansOnDisk'
  <2> SUFFICES ASSUME NEW k \in Frames, frames'[k] # None
               PROVE  /\ frames'[k].page.val = latest[frames'[k].page.id.no]
                      /\ ~frames'[k].dirty =>
                           frames'[k].page.val = file[frames'[k].page.id.no].val
    BY <1>1 DEF Newest, CleanMeansOnDisk, Cached, disk
  <2>1. CASE k = f
    <3>1. frames'[k].page = loaded[t]
      BY <1>2, <1>3, <2>1
    <3> QED
      BY <1>4, <3>1
  <2>2. CASE k # f
    BY <1>3, <2>2 DEF CInv, Contents, Newest, CleanMeansOnDisk, Cached
  <2> QED
    BY <2>1, <2>2
<1>6. LoadedNewest' /\ Beyond'
  BY <1>1, <1>3 DEF CInv, Contents, LoadedNewest, Beyond, disk
<1>7. Saved'
  <2> SUFFICES ASSUME NEW u \in Threads, pc[u] = "unmap"
               PROVE  frames'[slot[u]].page.val = file[frames'[slot[u]].page.id.no].val
    BY <1>1, <1>3 DEF Saved, Cached, disk
  <2>1. slot[u] \in Frames /\ slot[u] # f
    BY <1>2, OwnFrames DEF Owning
  <2> QED
    BY <1>3, <2>1 DEF CInv, Contents, Saved, Cached
<1>8. Uncached'
  <2> SUFFICES ASSUME NEW m \in PageNos, m < file_len,
                      \A k \in Frames : frames'[k] # None => frames'[k].page.id.no # m
               PROVE  file[m].val = latest[m]
    BY <1>1 DEF Uncached, Cached, disk
  <2>1. \A k \in Frames : frames[k] # None => Cached(k).id.no # m
    BY <1>2, <1>3 DEF Cached
  <2> QED
    BY <2>1 DEF CInv, Contents, Uncached
<1> QED
  BY <1>5, <1>6, <1>7, <1>8 DEF Contents

-----------------------------------------------------------------------------
(***************************************************************************)
(* The steps together.                                                     *)
(***************************************************************************)
\* What the steps have to keep, besides the invariant of the races
Orderly == Structure /\ PinsCountGuards /\ Contents /\ Running

\* A step of t that leaves frames, file and guards alone, and pins as many
\* frames after it as before
Quiet(t) ==
  /\ OthersWait(t)
  /\ UNCHANGED <<guards, frames, disk, latest>>
  /\ \A u \in Threads : u # t => loaded'[u] = loaded[u]
  /\ pc'[t] \notin {"install", "unmap", "panicked"}
  /\ \/ ~Pins(pc[t]) /\ ~Pins(pc'[t])
     \/ Pins(pc[t]) /\ Pins(pc'[t]) /\ slot'[t] = slot[t]

\* Only the structure is left to show of such a step
LEMMA QuietStep ==
  ASSUME CInv, NEW t \in Threads, Quiet(t), Structure'
  PROVE  Orderly'
PROOF
<1>1. PinsCountGuards'
  BY QuietPins DEF Quiet
<1>2. Contents'
  BY QuietContents DEF Quiet
<1>3. Running'
  BY DEF Quiet, OthersWait, CInv, Running
<1> QED
  BY <1>1, <1>2, <1>3 DEF Orderly

\* No other call of the pool panics in a step of t, unless t does
LEMMA StillRunning ==
  ASSUME CInv, NEW t \in Threads, OthersWait(t), pc'[t] # "panicked"
  PROVE  Running'
PROOF
BY DEF CInv, Running, OthersWait

\* What a call starts with
LEMMA BeginQuiet ==
  ASSUME CInv, NEW t \in Threads,
         \/ \E p \in PageIds : FetchHit(t, p) \/ FetchMiss(t, p) \/ FlushPage(t, p)
         \/ StartNewPage(t) \/ FlushAll(t)
  PROVE  Quiet(t)
PROOF
<1>1. pc \in [Threads -> Labels] /\ want \in [Threads -> PageIds \cup {None}]
      /\ slot \in [Threads -> MaybeFrame]
  BY DEF CInv, RInv, IInv, TypeOK, CallTypes
<1>2. CASE \E p \in PageIds : FetchHit(t, p)
  BY <1>1, <1>2 DEF FetchHit, MayFetch, pool, caller, scratch, Quiet, OthersWait, Pins
<1>3. CASE \E p \in PageIds : FetchMiss(t, p)
  BY <1>1, <1>3 DEF FetchMiss, MayFetch, pool, caller, scratch, Quiet, OthersWait, Pins
<1>4. CASE \E p \in PageIds : FlushPage(t, p)
  BY <1>1, <1>4 DEF FlushPage, StartFlush, Goto, pool, caller, Quiet, OthersWait, Pins
<1>5. CASE StartNewPage(t)
  BY <1>1, <1>5 DEF StartNewPage, MayFetch, Goto, pool, caller, scratch, Quiet, OthersWait, Pins
<1>6. CASE FlushAll(t)
  BY <1>1, <1>6 DEF FlushAll, StartFlush, Goto, pool, caller, Quiet, OthersWait, Pins
<1> QED
  BY <1>2, <1>3, <1>4, <1>5, <1>6

\* Looking for a frame
LEMMA FindQuiet ==
  ASSUME CInv, NEW t \in Threads,
         \/ PopFree(t) \/ StartScan(t) \/ ScanPinned(t) \/ ScanEmpty(t)
         \/ ScanVictim(t) \/ ScanExhausted(t)
  PROVE  Quiet(t)
PROOF
<1>1. pc \in [Threads -> Labels] /\ want \in [Threads -> PageIds \cup {None}]
      /\ slot \in [Threads -> MaybeFrame]
  BY DEF CInv, RInv, IInv, TypeOK, CallTypes
<1>2. CASE PopFree(t)
  BY <1>1, <1>2 DEF PopFree, caller, scratch, Quiet, OthersWait, Pins
<1>3. CASE StartScan(t)
  BY <1>1, <1>3 DEF StartScan, Goto, pool, caller, scratch, Quiet, OthersWait, Pins
<1>4. CASE ScanPinned(t)
  BY <1>1, <1>4 DEF ScanPinned, Scanning, call, caller, Quiet, OthersWait, Pins
<1>5. CASE ScanEmpty(t)
  BY <1>1, <1>5 DEF ScanEmpty, Scanning, call, caller, scratch, Quiet, OthersWait, Pins
<1>6. CASE ScanVictim(t)
  BY <1>1, <1>6 DEF ScanVictim, Scanning, caller, Quiet, OthersWait, Pins
<1>7. CASE ScanExhausted(t)
  BY <1>1, <1>7 DEF ScanExhausted, Return, caller, Quiet, OthersWait, Pins
<1> QED
  BY <1>2, <1>3, <1>4, <1>5, <1>6, <1>7

\* The rest of a call that changes no frame and nothing on file
LEMMA ContinueQuiet ==
  ASSUME CInv, NEW t \in Threads,
         LoadFails(t) \/ Publish(t) \/ FlushNext(t) \/ FlushClean(t)
  PROVE  Quiet(t)
PROOF
<1>1. pc \in [Threads -> Labels] /\ want \in [Threads -> PageIds \cup {None}]
      /\ slot \in [Threads -> MaybeFrame]
  BY DEF CInv, RInv, IInv, TypeOK, CallTypes
<1>2. CASE LoadFails(t)
  BY <1>1, <1>2 DEF LoadFails, Return, pool, caller, scratch, Quiet, OthersWait, Pins
<1>3. CASE Publish(t)
  BY <1>1, <1>3 DEF Publish, Goto, caller, scratch, Quiet, OthersWait, Pins
<1>4. CASE FlushNext(t)
  BY <1>1, <1>4 DEF FlushNext, AfterFlush, pool, caller, Quiet, OthersWait, Pins
<1>5. CASE FlushClean(t)
  BY <1>1, <1>5 DEF FlushClean, AfterFlush, pool, caller, scratch, Quiet, OthersWait, Pins
<1> QED
  BY <1>2, <1>3, <1>4, <1>5

\* Touching the LRU order leaves frames, file and versions as they are
LEMMA TouchContents ==
  ASSUME CInv, NEW t \in Threads, HitTouch(t) \/ PublishTouch(t)
  PROVE  Contents' /\ Running'
PROOF
<1>1. OthersWait(t) /\ pc'[t] = "idle" /\ UNCHANGED <<frames, disk, latest, loaded>>
  BY DEF HitTouch, PublishTouch, ReturnGuard, Return, scratch, OthersWait,
    CInv, RInv, IInv, TypeOK, CallTypes
<1> QED
  BY <1>1, QuietContents, StillRunning

\* A page that is read or made is in no frame yet: nothing is pinned
LEMMA LoadPins ==
  ASSUME CInv, NEW t \in Threads, ReadPage(t) \/ Allocate(t)
  PROVE  PinsCountGuards' /\ Running'
PROOF
<1>1. /\ OthersWait(t) /\ pc[t] = "load" /\ pc'[t] = "install"
      /\ UNCHANGED <<guards, frames>>
  BY DEF ReadPage, Allocate, Goto, pool, caller, OthersWait,
    CInv, RInv, IInv, TypeOK, CallTypes
<1> QED
  BY <1>1, QuietPins, StillRunning DEF Pins

\* Nor does saving a victim, or failing to, change a pin count
LEMMA VictimPins ==
  ASSUME CInv, NEW t \in Threads, VictimSaved(t) \/ VictimWriteFails(t)
  PROVE  PinsCountGuards' /\ Running'
PROOF
<1>1. slot[t] \in Frames /\ frames[slot[t]] # None
  BY DEF VictimSaved, VictimWriteFails, Dirty, CInv, RInv, IInv, TypeOK, CallTypes, WithSlot
<1>2. \/ frames' = frames
      \/ frames' = [frames EXCEPT ![slot[t]].page = WithChecksum(@)]
  BY DEF VictimSaved, VictimWriteFails
<1>3. KeepsPages /\ KeepsPins
  BY <1>1, <1>2, ChecksumFrames
<1>4. /\ OthersWait(t) /\ pc[t] = "victim" /\ pc'[t] \in {"unmap", "idle"}
      /\ UNCHANGED guards
  BY DEF VictimSaved, VictimWriteFails, Goto, Return, caller, OthersWait,
    CInv, RInv, IInv, TypeOK, CallTypes
<1> QED
  BY <1>3, <1>4, QuietPins, StillRunning DEF Pins, KeepsPages, KeepsPins

\* Emptying the victim's frame leaves nothing to count there
LEMMA UnmapPins ==
  ASSUME CInv, NEW t \in Threads, Unmap(t)
  PROVE  PinsCountGuards' /\ Running'
PROOF
<1>1. PICK f \in Frames : f = slot[t]
  BY OwnFrames DEF Unmap, Owning
<1>2. \A k \in Frames : frames'[k] = IF k = f THEN None ELSE frames[k]
  BY <1>1 DEF Unmap, CInv, RInv, IInv, TypeOK, SharedTypes
<1>3. OthersWait(t) /\ pc[t] = "unmap" /\ pc'[t] = "load" /\ UNCHANGED guards
  BY DEF Unmap, Goto, caller, OthersWait, CInv, RInv, IInv, TypeOK, CallTypes
<1>4. \A k \in Frames : frames'[k] # None =>
        frames[k] # None /\ frames'[k].pin = frames[k].pin
  BY <1>2
<1> QED
  BY <1>3, <1>4, QuietPins, StillRunning DEF Pins

\* Flushing a page, or failing to
LEMMA FlushPins ==
  ASSUME CInv, NEW t \in Threads, FlushWrite(t) \/ FlushFails(t)
  PROVE  PinsCountGuards' /\ Running'
PROOF
<1>1. KeepsPages /\ KeepsPins
  <2>1. CASE FlushWrite(t)
    BY <2>1, FlushWriteFrames
  <2>2. CASE FlushFails(t)
    <3>1. slot[t] \in Frames /\ frames[slot[t]] # None
      BY <2>2 DEF FlushFails, Dirty, CInv, RInv, IInv, TypeOK, CallTypes, WithSlot
    <3> QED
      BY <2>2, <3>1, ChecksumFrames DEF FlushFails
  <2> QED
    BY <2>1, <2>2
<1>2. /\ OthersWait(t) /\ pc[t] = "flush" /\ pc'[t] \in {"idle", "flush_next"}
      /\ UNCHANGED guards
  BY DEF FlushWrite, FlushFails, AfterFlush, Return, caller, OthersWait,
    CInv, RInv, IInv, TypeOK, CallTypes
<1> QED
  BY <1>1, <1>2, QuietPins, StillRunning DEF Pins, KeepsPages, KeepsPins

\* Writing through a guard
LEMMA WriteGuardPins ==
  ASSUME CInv, NEW t \in Threads, NEW h \in Handles, WriteGuard(t, h)
  PROVE  PinsCountGuards' /\ Running'
PROOF
<1>1. KeepsPages /\ KeepsPins
  BY WriteGuardFrames
<1>2. OthersWait(t) /\ pc[t] = "idle" /\ pc'[t] = "idle" /\ UNCHANGED guards
  BY DEF WriteGuard, call, OthersWait, CInv, RInv, IInv, TypeOK, CallTypes
<1> QED
  BY <1>1, <1>2, QuietPins, StillRunning DEF Pins, KeepsPages, KeepsPins

\* A step between two calls
LEMMA BeginOrderly ==
  ASSUME CInv, Careful, FewGuards, NEW t \in Threads, Begin(t)
  PROVE  Orderly'
PROOF
<1>1. CASE \E p \in PageIds : FetchHit(t, p) \/ FetchMiss(t, p) \/ FlushPage(t, p)
  BY <1>1, BeginQuiet, QuietStep,
     FetchHitStructure, FetchMissStructure, FlushPageStructure
<1>2. CASE StartNewPage(t)
  BY <1>2, BeginQuiet, QuietStep, StartNewPageStructure
<1>3. CASE FlushAll(t)
  BY <1>3, BeginQuiet, QuietStep, FlushAllStructure
<1>4. CASE \E h \in Handles : WriteGuard(t, h)
  BY <1>4, WriteGuardStructure, WriteGuardPins, WriteGuardContents DEF Orderly
<1>5. CASE \E h \in Handles : DropGuard(t, h)
  <2>1. PICK h \in Handles : DropGuard(t, h)
    BY <1>5
  <2>2. Running'
    BY <2>1, DropGuardPin DEF call, CInv, Running
  <2> QED
    BY <2>1, <2>2, DropGuardStructure, DropGuardPins, PinContents DEF Orderly
<1> QED
  BY <1>1, <1>2, <1>3, <1>4, <1>5, NeverEmpty DEF Begin

\* A step of get_free_frame
LEMMA FindFrameOrderly ==
  ASSUME CInv, Careful, FewGuards, NEW t \in Threads, FindFrame(t)
  PROVE  Orderly'
PROOF
<1>1. CASE PopFree(t) \/ StartScan(t)
  BY <1>1, FindQuiet, QuietStep, PopFreeStructure, StartScanStructure
<1>2. CASE ScanPinned(t) \/ ScanEmpty(t)
  BY <1>2, FindQuiet, QuietStep, ScanStructure
<1>3. CASE ScanVictim(t) \/ ScanExhausted(t)
  BY <1>3, FindQuiet, QuietStep, ScanVictimStructure, ScanExhaustedStructure
<1>4. CASE VictimSaved(t)
  BY <1>4, VictimSavedStructure, VictimPins, VictimSavedContents DEF Orderly
<1>5. CASE VictimWriteFails(t)
  BY <1>5, VictimWriteFailsStructure, VictimPins, WriteFailsContents DEF Orderly
<1>6. CASE Unmap(t)
  BY <1>6, UnmapStructure, UnmapPins, UnmapContents DEF Orderly
<1> QED
  BY <1>1, <1>2, <1>3, <1>4, <1>5, <1>6, NeverEmpty DEF FindFrame

\* A call goes on
LEMMA ContinueOrderly ==
  ASSUME CInv, Careful, FewGuards, NEW t \in Threads, Continue(t)
  PROVE  Orderly'
PROOF
<1>1. CASE HitPin(t)
  <2>1. OthersWait(t) /\ pc'[t] = "hit_lru"
    BY <1>1, HitPinPin DEF Goto, OthersWait, CInv, RInv, IInv, TypeOK, CallTypes
  <2> QED
    BY <1>1, <2>1, HitPinStructure, HitPinPins, PinContents, StillRunning DEF Orderly
<1>2. CASE HitTouch(t) \/ PublishTouch(t)
  BY <1>2, TouchStructure, TouchPins, TouchContents DEF Orderly
<1>3. CASE FindFrame(t)
  BY <1>3, FindFrameOrderly
<1>4. CASE ReadPage(t)
  BY <1>4, ReadPageStructure, LoadPins, ReadPageContents DEF Orderly
<1>5. CASE Allocate(t)
  BY <1>5, AllocateStructure, LoadPins, AllocateContents DEF Orderly
<1>6. CASE Install(t)
  <2>1. OthersWait(t) /\ pc'[t] = "publish"
    BY <1>6 DEF Install, Goto, OthersWait, CInv, RInv, IInv, TypeOK, CallTypes
  <2> QED
    BY <1>6, <2>1, InstallStructure, InstallPins, InstallContents, StillRunning DEF Orderly
<1>7. CASE LoadFails(t) \/ Publish(t)
  BY <1>7, ContinueQuiet, QuietStep, LoadFailsStructure, PublishStructure
<1>8. CASE FlushNext(t) \/ FlushClean(t)
  BY <1>8, ContinueQuiet, QuietStep, FlushNextStructure, FlushCleanStructure
<1>9. CASE FlushWrite(t)
  BY <1>9, FlushWriteStructure, FlushPins, FlushWriteContents DEF Orderly
<1>10. CASE FlushFails(t)
  BY <1>10, FlushFailsStructure, FlushPins, WriteFailsContents DEF Orderly
<1> QED
  BY <1>1, <1>2, <1>3, <1>4, <1>5, <1>6, <1>7, <1>8, <1>9, <1>10 DEF Continue

\* A new pool on the file, where the versions are the file's
Fresh ==
  /\ page_table = EmptyTable /\ frames = EmptyFrames /\ guards = NoGuards
  /\ pc = [t \in Threads |-> "idle"] /\ want = Nothing
  /\ \A n \in PageNos : n < file_len => file[n].val = latest[n]
  /\ Beyond

\* A pool just opened holds no page, so nothing in it can disagree
LEMMA FreshOrderly == Fresh => Orderly
PROOF
<1> SUFFICES ASSUME Fresh PROVE Orderly
  OBVIOUS
<1>1. Structure
  BY EmptyStructure DEF Fresh
<1>2. PinsCountGuards
  BY DEF Fresh, PinsCountGuards, EmptyFrames
<1>3. Contents
  BY DEF Fresh, Contents, Newest, CleanMeansOnDisk, LoadedNewest, Saved, Uncached,
    EmptyFrames
<1>4. Running
  BY DEF Fresh, Running
<1> QED
  BY <1>1, <1>2, <1>3, <1>4 DEF Orderly

\* The invariant holds of a new pool
LEMMA InitialCareful == Init => CInv
PROOF
<1> SUFFICES ASSUME Init PROVE CInv
  OBVIOUS
<1>1. RInv
  BY InitialRaces
<1>2. /\ \A n \in PageNos : n < file_len => file[n].val = latest[n]
      /\ Beyond
  BY ConstantsAssumption DEF Init, NewPage, Beyond, PageNos
<1>3. Orderly
  BY <1>2, FreshOrderly DEF Init, Fresh
<1> QED
  BY <1>1, <1>3 DEF CInv, Orderly

\* A step that leaves a new pool
LEMMA FreshNext == Fresh' => Orderly'
PROOF
BY FreshOrderly, PTL

\* A restart does
LEMMA RestartOrderly ==
  ASSUME CInv, Restart
  PROVE  Orderly'
PROOF
<1>1. /\ \A n \in PageNos : n < file_len' => file'[n].val = latest'[n]
      /\ Beyond'
  BY DEF Restart, Opened, disk, Beyond, CInv, Contents, RInv, IInv, TypeOK, SharedTypes, PageNos
<1>2. /\ page_table' = EmptyTable /\ frames' = EmptyFrames /\ guards' = NoGuards
      /\ pc' = [t \in Threads |-> "idle"] /\ want' = Nothing
  BY DEF Restart
<1> QED
  BY <1>1, <1>2, FreshNext
  DEF Fresh, EmptyTable, EmptyFrames, NoGuards, Nothing

\* A step that leaves everything as it is
LEMMA StutterOrderly ==
  ASSUME CInv, UNCHANGED vars
  PROVE  Orderly'
PROOF
<1>0. UNCHANGED <<page_table, frames, lru, file, file_len, pc, want, slot, loaded,
                  candidates, guards, latest>>
  BY DEF vars, pool, index, disk, call, scratch, caller
<1>1. Structure'
  BY <1>0 DEF CInv, Structure, TableMatchesFrames, Owned, Absent, NotThere, BringingIn,
    InHand, Knows, OwnSlot, NotListed, NotGuarded, Owning, GuardsKeepPage, Cached,
    Held, GuardOf
<1>2. PinsCountGuards'
  BY <1>0 DEF CInv, PinsCountGuards, Pinning, Held, GuardOf
<1>3. Contents'
  BY <1>0 DEF CInv, Contents, Newest, CleanMeansOnDisk, LoadedNewest, Saved, Uncached,
    Beyond, Cached
<1>4. Running'
  BY <1>0 DEF CInv, Running
<1> QED
  BY <1>1, <1>2, <1>3, <1>4 DEF Orderly

\* Every step of careful callers keeps the invariant
LEMMA CarefulStep == FewGuards /\ Careful /\ CInv /\ [Next]_vars => CInv'
PROOF
<1> SUFFICES ASSUME FewGuards, Careful, CInv, [Next]_vars PROVE CInv'
  OBVIOUS
<1>1. RInv'
  BY RacesStep DEF CInv
<1>2. ASSUME NEW t \in Threads, Begin(t) \/ Continue(t)
      PROVE  Orderly'
  BY <1>2, BeginOrderly, ContinueOrderly
<1>3. ASSUME Restart \/ UNCHANGED vars
      PROVE  Orderly'
  BY <1>3, RestartOrderly, StutterOrderly
<1>4. Orderly'
  BY <1>2, <1>3 DEF Next
<1> QED
  BY <1>1, <1>4 DEF CInv, Orderly

-----------------------------------------------------------------------------
(***************************************************************************)
(* The pool as a store of pages: what its callers see, and what a restart  *)
(* would come back to.                                                     *)
(***************************************************************************)
Shown  == [n \in PageNos |-> Visible(n)]
OnDisk == [n \in PageNos |-> Stored(n)]

\* Callers see the newest versions, wherever the pages are
LEMMA ShownIsLatest == CInv => Shown = latest
PROOF
<1> SUFFICES ASSUME CInv, NEW n \in PageNos PROVE Visible(n) = latest[n]
  BY DEF Shown, CInv, RInv, IInv, TypeOK, SharedTypes
<1> DEFINE f == page_table[FileId(n)]
<1>1. FileId(n) \in PageIds /\ FileId(n).no = n
  BY ConstantsAssumption DEF FileId, PageIds
<1>2. CASE f # None
  <2>1. f \in Frames /\ frames[f] # None /\ Cached(f).id = FileId(n)
    BY <1>1, <1>2 DEF CInv, RInv, IInv, TypeOK, SharedTypes, MaybeFrame, Structure,
      TableMatchesFrames
  <2> QED
    BY <1>1, <1>2, <2>1, CachedPages DEF Visible
<1>3. CASE f = None
  <2>1. Visible(n) = Stored(n)
    BY <1>3 DEF Visible
  <2>2. CASE n >= file_len
    BY <2>1, <2>2 DEF Stored, CInv, Contents, Beyond
  <2>3. CASE n < file_len
    <3>1. file[n] # None /\ Stored(n) = file[n].val
      BY <2>3, Types DEF Stored, CInv, RInv, IInv, TypeOK, SharedTypes
    <3>2. CASE \A k \in Frames : frames[k] # None => Cached(k).id.no # n
      BY <2>1, <2>3, <3>1, <3>2 DEF CInv, Contents, Uncached
    <3>3. ASSUME NEW k \in Frames, frames[k] # None, Cached(k).id.no = n
          PROVE  file[n].val = latest[n]
      <4>1. Cached(k).id = FileId(n) /\ Cached(k).val = latest[n]
        BY <3>3, CachedPages
      <4>2. page_table[Cached(k).id] # k
        BY <1>3, <4>1, Types
      <4>3. PICK u \in Threads : pc[u] = "publish" /\ slot[u] = k
        BY <3>3, <4>2 DEF CInv, Structure, Owned
      <4>4. ~frames[k].dirty
        BY <4>3 DEF CInv, Structure, InHand, Knows
      <4> QED
        BY <3>3, <4>1, <4>4 DEF CInv, Contents, CleanMeansOnDisk
    <3> QED
      BY <2>1, <3>1, <3>2, <3>3
  <2> QED
    BY <2>2, <2>3 DEF CInv, RInv, IInv, TypeOK, SharedTypes, PageNos
<1> QED
  BY <1>2, <1>3

\* And after a step
SeesLatest == Shown = latest

\* After a step, too, what the pool shows of a page is its latest version
LEMMA ShownNext == CInv' => Shown' = latest'
PROOF
<1>1. CInv => SeesLatest
  BY ShownIsLatest DEF SeesLatest
<1>2. CInv' => SeesLatest'
  BY <1>1, PTL
<1> QED
  BY <1>2 DEF SeesLatest

\* A frame written to the file makes its page durable as it is seen
LEMMA WrittenPersists ==
  ASSUME CInv, CInv', NEW f \in Frames, frames[f] # None,
         file' = Written(WithChecksum(frames[f].page)), UNCHANGED <<file_len, latest>>
  PROVE  Store!Next
PROOF
<1>1. PICK n \in PageNos : n = Cached(f).id.no
  BY CachedPages
<1>2. n \in 0 .. file_len - 1
  BY <1>1, CachedPages DEF CInv, RInv, IInv, TypeOK, SharedTypes, PageNos
<1>3. /\ file' = [file EXCEPT ![n] = WithChecksum(Cached(f))]
      /\ WithChecksum(Cached(f)).val = latest[n] /\ WithChecksum(Cached(f)) # None
  <2>1. Cached(f) \in Page
    BY FullFrame, Types DEF Cached
  <2>2. WithChecksum(Cached(f)) \in Page /\ WithChecksum(Cached(f)).val = Cached(f).val
    BY <2>1 DEF WithChecksum, Page
  <2> QED
    BY <1>1, <2>1, <2>2, CachedPages, Types DEF Written, Cached
<1>4. \A m \in PageNos : Stored(m)' = IF m = n THEN latest[n] ELSE Stored(m)
  BY <1>3 DEF Stored, CInv, RInv, IInv, TypeOK, SharedTypes
<1>5. OnDisk' = [OnDisk EXCEPT ![n] = Shown[n]]
  BY <1>4, ShownIsLatest DEF OnDisk
<1>6. Shown' = Shown
  BY ShownIsLatest, ShownNext
<1>7. Store!Persist(n)
  BY <1>5, <1>6 DEF Store!Persist, Shown, OnDisk
<1> QED
  BY <1>2, <1>7 DEF Store!Next, Store!Existing

\* A step that writes nothing callers or a restart could see
LEMMA UnseenStutters ==
  ASSUME CInv, CInv', UNCHANGED <<file_len, latest>>,
         \A n \in PageNos : Stored(n)' = Stored(n)
  PROVE  UNCHANGED Store!vars
PROOF
<1>1. Shown' = Shown
  BY ShownIsLatest, ShownNext
<1>2. OnDisk' = OnDisk
  BY DEF OnDisk
<1> QED
  BY <1>1, <1>2 DEF Store!vars, Shown, OnDisk

\* A new page is there, with no version that could have been seen before
LEMMA AllocateCreates ==
  ASSUME CInv, CInv', NEW t \in Threads, Allocate(t)
  PROVE  Store!Next
PROOF
<1>1. PICK n \in PageNos : n = file_len
  BY ConstantsAssumption DEF Allocate, CInv, RInv, IInv, TypeOK, SharedTypes, PageNos
<1>2. file_len < MaxPages /\ file_len' = file_len + 1 /\ latest' = latest
  BY DEF Allocate, caller
<1>3. file' = [file EXCEPT ![n] = NewPage(n)]
  BY <1>1 DEF Allocate
<1>4. NewPage(n).val = 0 /\ NewPage(n) # None
  <2>1. NewPage(n) \in Page
    BY ConstantsAssumption DEF NewPage, Page, PageIds
  <2> QED
    BY <2>1, Types DEF NewPage
<1>5. Stored(n) = 0
  BY <1>1 DEF CInv, RInv, IInv, TypeOK, SharedTypes, Contents, Beyond, Stored
<1>6. \A m \in PageNos : Stored(m)' = Stored(m)
  BY <1>3, <1>4, <1>5 DEF Stored, CInv, RInv, IInv, TypeOK, SharedTypes
<1>7. Shown' = Shown /\ OnDisk' = OnDisk
  BY <1>2, <1>6, ShownIsLatest, ShownNext DEF OnDisk
<1> QED
  BY <1>2, <1>7 DEF Store!Next, Store!Create, Shown, OnDisk

\* A write through a guard is one write to the page it was asked for
LEMMA WriteGuardWrites ==
  ASSUME CInv, CInv', NEW t \in Threads, NEW h \in Handles, WriteGuard(t, h)
  PROVE  Store!Next
PROOF
<1>1. PICK n \in PageNos : n = guards[t][h].id.no
  BY Guarded DEF WriteGuard
<1>2. n \in 0 .. file_len - 1
  <2>1. n < file_len
    BY <1>1, Guarded DEF WriteGuard, OnFile
  <2> QED
    BY <2>1 DEF PageNos, CInv, RInv, IInv, TypeOK, SharedTypes
<1>3. /\ Newer(latest[n]) <= MaxVersion /\ latest' = [latest EXCEPT ![n] = Newer(latest[n])]
      /\ UNCHANGED <<file, file_len>>
  BY <1>1 DEF WriteGuard, disk
<1>4. Newer(Shown[n]) <= MaxVersion /\ Shown' = [Shown EXCEPT ![n] = Newer(Shown[n])]
  BY <1>3, ShownIsLatest, ShownNext
<1>5. OnDisk' = OnDisk
  BY <1>3 DEF OnDisk, Stored
<1>6. Store!Write(n)
  BY <1>3, <1>4, <1>5 DEF Store!Write, Store!Newer, Newer, Shown, OnDisk
<1> QED
  BY <1>2, <1>6 DEF Store!Next, Store!Existing

\* After a restart callers see what the file has
LEMMA RestartCrashes ==
  ASSUME CInv, CInv', Restart
  PROVE  Store!Next
PROOF
<1>1. /\ latest' = [n \in PageNos |-> IF n < file_len THEN file[n].val ELSE 0]
      /\ UNCHANGED <<file, file_len>>
  BY DEF Restart, Opened, disk
<1>2. ASSUME NEW n \in PageNos
      PROVE  Stored(n) = latest'[n]
  <2>1. CASE n < file_len
    BY <1>1, <2>1, Types DEF Stored, CInv, RInv, IInv, TypeOK, SharedTypes
  <2>2. CASE ~(n < file_len)
    <3>1. file[n] = None
      BY <2>2 DEF CInv, RInv, IInv, TypeOK, SharedTypes, PageNos, Contents, Beyond
    <3> QED
      BY <1>1, <2>2, <3>1 DEF Stored
  <2> QED
    BY <2>1, <2>2
<1>3. OnDisk = latest'
  BY <1>1, <1>2 DEF OnDisk
<1>4. Shown' = OnDisk
  BY <1>3, ShownNext
<1>5. OnDisk' = OnDisk
  BY <1>1 DEF OnDisk, Stored
<1> QED
  BY <1>1, <1>4, <1>5 DEF Store!Next, Store!Crash, Shown, OnDisk

\* Steps that write to the file
LEMMA SavingPersists ==
  ASSUME CInv, CInv', NEW t \in Threads, VictimSaved(t) \/ FlushWrite(t)
  PROVE  [Store!Next]_Store!vars
PROOF
<1>1. slot[t] \in Frames /\ frames[slot[t]] # None
  BY DEF VictimSaved, FlushWrite, Dirty, CInv, RInv, IInv, TypeOK, CallTypes, WithSlot
<1>2. UNCHANGED <<file_len, latest>>
  BY DEF VictimSaved, FlushWrite, caller
<1>3. CASE file' = Written(WithChecksum(frames[slot[t]].page))
  BY <1>1, <1>2, <1>3, WrittenPersists
<1>4. CASE file' = file
  BY <1>2, <1>4, UnseenStutters DEF Stored
<1> QED
  BY <1>3, <1>4 DEF VictimSaved, FlushWrite

\* Steps that fail to: what the file holds of the page stays, is torn, or is
\* what callers see all the same
LEMMA FailingTears ==
  ASSUME CInv, CInv', NEW t \in Threads, VictimWriteFails(t) \/ FlushFails(t)
  PROVE  [Store!Next]_Store!vars
PROOF
<1>0. PICK f \in Frames : f = slot[t] /\ frames[f] # None
  BY DEF VictimWriteFails, FlushFails, Dirty, CInv, RInv, IInv, TypeOK, CallTypes, WithSlot
<1>1. /\ UNCHANGED <<file_len, latest>> /\ IOErrors
      /\ file' \in PartlyWritten(WithChecksum(frames[f].page))
  BY <1>0 DEF VictimWriteFails, FlushFails, caller
<1>2. PICK n \in PageNos : n = Cached(f).id.no
  BY <1>0, CachedPages
<1>3. n \in 0 .. file_len - 1
  BY <1>0, <1>2, CachedPages DEF CInv, RInv, IInv, TypeOK, SharedTypes, PageNos
<1>4. /\ \A m \in PageNos : file'[m] = None <=> file[m] = None
      /\ \A m \in PageNos : m # n => file'[m] = file[m]
      /\ file'[n].val \in {file[n].val, Torn(latest[n]), latest[n]}
  BY <1>0, <1>1, <1>2, PartlyWrittenPage
<1>5. file[n] # None
  <2>1. n < file_len
    BY <1>0, <1>2, CachedPages
  <2>2. file[n] \in Page
    BY <1>2, <2>1 DEF CInv, RInv, IInv, TypeOK, SharedTypes
  <2> QED
    BY <2>2, Types
<1>6. Shown = latest /\ Shown' = Shown
  BY <1>1, ShownIsLatest, ShownNext
<1>7. \A m \in PageNos : Stored(m)' = IF m = n THEN file'[n].val ELSE Stored(m)
  BY <1>4, <1>5 DEF Stored
<1>8. CASE file'[n].val = Stored(n)
  BY <1>1, <1>7, <1>8, UnseenStutters
<1>9. OnDisk' = [OnDisk EXCEPT ![n] = file'[n].val]
  BY <1>7 DEF OnDisk
<1>10. CASE file'[n].val = Shown[n]
  <2>1. Store!Persist(n)
    BY <1>1, <1>6, <1>9, <1>10 DEF Store!Persist, Shown, OnDisk
  <2> QED
    BY <1>3, <2>1 DEF Store!Next, Store!Existing
<1>11. CASE file'[n].val = Torn(Shown[n])
  <2>1. Store!Tear(n)
    BY <1>1, <1>6, <1>9, <1>11 DEF Store!Tear, Store!Torn, Torn, Shown, OnDisk
  <2> QED
    BY <1>3, <2>1 DEF Store!Next, Store!Existing
<1> QED
  BY <1>4, <1>5, <1>6, <1>8, <1>10, <1>11 DEF Stored

\* All other steps leave the file and what was written alone
LEMMA OthersStutter ==
  ASSUME CInv, CInv', UNCHANGED <<disk, latest>>
  PROVE  UNCHANGED Store!vars
PROOF
BY UnseenStutters DEF Stored, disk

\* Every step of the pool is a step of the store, or changes nothing there
LEMMA StoreStep == CInv /\ CInv' /\ [Next]_vars => [Store!Next]_Store!vars
PROOF
<1> SUFFICES ASSUME CInv, CInv', [Next]_vars PROVE [Store!Next]_Store!vars
  OBVIOUS
<1>1. ASSUME NEW t \in Threads, Begin(t)
      PROVE  [Store!Next]_Store!vars
  <2>1. CASE \E h \in Handles : WriteGuard(t, h)
    BY <2>1, WriteGuardWrites
  <2>2. CASE \E h \in Handles : DropGuard(t, h)
    BY <2>2, OthersStutter DEF DropGuard
  <2>3. CASE ~\E h \in Handles : WriteGuard(t, h) \/ DropGuard(t, h)
    BY <1>1, <2>3, BeginQuiet, OthersStutter, NeverEmpty DEF Begin, Quiet
  <2> QED
    BY <2>1, <2>2, <2>3
<1>2. ASSUME NEW t \in Threads, FindFrame(t)
      PROVE  [Store!Next]_Store!vars
  <2>1. CASE VictimSaved(t)
    BY <2>1, SavingPersists
  <2>2. CASE VictimWriteFails(t)
    BY <2>2, FailingTears
  <2>3. CASE Unmap(t)
    BY <2>3, OthersStutter DEF Unmap, caller
  <2>4. CASE ~(VictimSaved(t) \/ VictimWriteFails(t) \/ Unmap(t))
    BY <1>2, <2>4, FindQuiet, OthersStutter, NeverEmpty DEF FindFrame, Quiet
  <2> QED
    BY <2>1, <2>2, <2>3, <2>4
<1>3. ASSUME NEW t \in Threads, Continue(t)
      PROVE  [Store!Next]_Store!vars
  <2>1. CASE Allocate(t)
    BY <2>1, AllocateCreates
  <2>2. CASE FlushWrite(t)
    BY <2>2, SavingPersists
  <2>3. CASE FlushFails(t)
    BY <2>3, FailingTears
  <2>4. CASE HitPin(t) \/ Install(t) \/ ReadPage(t)
    BY <2>4, OthersStutter DEF HitPin, Install, ReadPage, caller
  <2>5. CASE HitTouch(t) \/ PublishTouch(t)
    BY <2>5, OthersStutter DEF HitTouch, PublishTouch
  <2>6. CASE LoadFails(t) \/ Publish(t) \/ FlushNext(t) \/ FlushClean(t)
    BY <2>6, ContinueQuiet, OthersStutter DEF Quiet
  <2> QED
    BY <1>2, <1>3, <2>1, <2>2, <2>3, <2>4, <2>5, <2>6 DEF Continue
<1>4. CASE Restart
  BY <1>4, RestartCrashes
<1>5. CASE UNCHANGED vars
  BY <1>5, OthersStutter DEF vars, caller
<1> QED
  BY <1>1, <1>3, <1>4, <1>5 DEF Next

\* A new pool is a new store
LEMMA StoreInit == Init => Store!Init
PROOF
<1> SUFFICES ASSUME Init PROVE Store!Init
  OBVIOUS
<1>1. Shown = [n \in PageNos |-> 0]
  BY InitialCareful, ShownIsLatest DEF Init
<1>2. ASSUME NEW n \in PageNos
      PROVE  Stored(n) = 0
  BY DEF Init, Stored, NewPage
<1>3. OnDisk = [n \in PageNos |-> 0]
  BY <1>2 DEF OnDisk
<1>4. Store!PageNos = PageNos
  BY DEF Store!PageNos, PageNos
<1> QED
  BY <1>1, <1>3, <1>4 DEF Init, Store!Init, Shown, OnDisk

-----------------------------------------------------------------------------
(***************************************************************************)
(* What the pool keeps.                                                    *)
(***************************************************************************)
\* The inductive invariant holds for as long as the callers are careful
LEMMA CarefulHold == ASSUME FewGuards PROVE Spec /\ []Careful => []CInv
PROOF
<1>1. Init => CInv
  BY InitialCareful
<1>2. Careful /\ CInv /\ [Next]_vars => CInv'
  BY CarefulStep
<1> QED
  BY <1>1, <1>2, PTL DEF Spec

\* A guard shows the newest version, since every frame has it
LEMMA GuardsSee == CInv => GuardsSeeLatest
PROOF
<1> SUFFICES ASSUME CInv, NEW th \in Held PROVE Cached(GuardOf(th).frame).val = latest[GuardOf(th).id.no]
  BY DEF GuardsSeeLatest
<1>1. th[1] \in Threads /\ th[2] \in Handles /\ guards[th[1]][th[2]] # None
  BY DEF Held
<1> QED
  BY <1>1, Guarded, CachedPages DEF GuardOf

(***************************************************************************)
(* A guard keeps its page: however many callers share the pool, whatever   *)
(* is evicted, fails to be written or restarts, the frame a guard names    *)
(* holds the page that was asked for until the guard is dropped, as long   *)
(* as callers are careful.                                                 *)
(***************************************************************************)
THEOREM CarefulGuardsKeepPage ==
  ASSUME FewGuards PROVE Spec /\ []Careful => []GuardsKeepPage
PROOF
<1>1. CInv => GuardsKeepPage
  BY DEF CInv, Structure
<1> QED
  BY <1>1, CarefulHold, PTL

(***************************************************************************)
(* The pin count of a frame is the number of guards on it and of calls     *)
(* that are about to return one: no frame is pinned for ever, and none is  *)
(* evicted while it is in use.                                             *)
(***************************************************************************)
THEOREM CarefulPinsCountGuards ==
  ASSUME FewGuards PROVE Spec /\ []Careful => []PinsCountGuards
PROOF
<1>1. CInv => PinsCountGuards
  BY DEF CInv
<1> QED
  BY <1>1, CarefulHold, PTL

(***************************************************************************)
(* What a guard shows is what was last written to its page, through any    *)
(* guard, before or after the page was evicted and read again.             *)
(***************************************************************************)
THEOREM CarefulGuardsSeeLatest ==
  ASSUME FewGuards PROVE Spec /\ []Careful => []GuardsSeeLatest
PROOF
BY GuardsSee, CarefulHold, PTL

(***************************************************************************)
(* The table's entries name frames that hold the page they are for.        *)
(***************************************************************************)
THEOREM CarefulTableMatchesFrames ==
  ASSUME FewGuards PROVE Spec /\ []Careful => []TableMatchesFrames
PROOF
<1>1. CInv => TableMatchesFrames
  BY DEF CInv, Structure
<1> QED
  BY <1>1, CarefulHold, PTL

(***************************************************************************)
(* A frame whose dirty flag is off holds what the file holds, so that      *)
(* eviction, which writes dirty frames only, loses no write.               *)
(***************************************************************************)
THEOREM CarefulCleanMeansOnDisk ==
  ASSUME FewGuards PROVE Spec /\ []Careful => []CleanMeansOnDisk
PROOF
<1>1. CInv => CleanMeansOnDisk
  BY DEF CInv, Contents
<1> QED
  BY <1>1, CarefulHold, PTL

(***************************************************************************)
(* No call panics, with overflow checks or without: no pin count leaves    *)
(* its range and no guard meets an empty frame.                            *)
(***************************************************************************)
THEOREM CarefulNeverPanic ==
  ASSUME FewGuards PROVE Spec /\ []Careful => []Running
PROOF
<1>1. CInv => Running
  BY DEF CInv
<1> QED
  BY <1>1, CarefulHold, PTL

(***************************************************************************)
(* For careful callers the pool is the file: it implements the store of    *)
(* pages of PageStore, in which a page changes by a write and by nothing   *)
(* else.  A failed write leaves the old version, the new one or a mixture  *)
(* of the two in the file, which callers do not see before a restart; what *)
(* a restart comes back to is that, or a version that was the newest one.  *)
(***************************************************************************)
THEOREM CarefulPoolIsStore ==
  ASSUME FewGuards PROVE Spec /\ []Careful => ImplementsPageStore
PROOF
<1>1. Init => Store!Init
  BY StoreInit
<1>2. CInv /\ CInv' /\ [Next]_vars => [Store!Next]_Store!vars
  BY StoreStep
<1> QED
  BY <1>1, <1>2, CarefulHold, PTL DEF Spec, ImplementsPageStore, Store!Spec

-----------------------------------------------------------------------------
(***************************************************************************)
(* One caller is careful by itself, if it asks for pages of the file: the  *)
(* calls of another one are what it takes for a frame to change hands in   *)
(* between.                                                                *)
(***************************************************************************)
OneCaller ==
  /\ \E t : Threads = {t}
  /\ Spaces = {FileSpace}
  /\ IsFiniteSet(Handles) /\ Cardinality(Handles) + 1 < PinModulus

\* A single caller cannot disturb another one
LEMMA OneCallerIsCareful == OneCaller /\ IInv => Careful
PROOF
<1> SUFFICES ASSUME OneCaller, IInv PROVE Careful
  OBVIOUS
<1>1. PICK t : Threads = {t}
  BY DEF OneCaller
<1>2. ASSUME NEW u \in Threads, want[u] # None
      PROVE  want[u].space = FileSpace
  <2>1. want[u] \in PageIds
    BY <1>2 DEF IInv, TypeOK, CallTypes
  <2> QED
    BY <2>1 DEF PageIds, OneCaller
<1> QED
  BY <1>1, <1>2 DEF Careful

\* A single caller holds no more guards than it has handles
LEMMA OneCallerHasFewGuards == ASSUME OneCaller PROVE FewGuards
PROOF
<1>1. PICK t : Threads = {t}
  BY DEF OneCaller
<1>2. IsFiniteSet(Threads) /\ Cardinality(Threads) = 1
  BY <1>1, FS_Singleton
<1>3. IsFiniteSet(Handles) /\ Cardinality(Handles) \in Nat /\ Cardinality(Handles) + 1 < PinModulus
  BY FS_CardinalityType DEF OneCaller
<1>4. Cardinality(Threads \X Handles) = 1 * Cardinality(Handles)
  BY <1>2, <1>3, FS_Product
<1> QED
  BY <1>2, <1>3, <1>4 DEF FewGuards

\* So it keeps the invariant of careful callers
LEMMA OneCallerHolds == ASSUME OneCaller PROVE Spec => []CInv
PROOF
<1>1. FewGuards
  BY OneCallerHasFewGuards
<1>2. IInv => Careful
  BY OneCallerIsCareful
<1>3. Spec => []Careful
  BY <1>2, IInvHolds, PTL
<1>4. Spec /\ []Careful => []CInv
  BY <1>1, CarefulHold
<1> QED
  BY <1>3, <1>4, PTL

(***************************************************************************)
(* A single caller, whatever it calls and however many guards it holds at  *)
(* a time, finds its pages under its guards and in them what it wrote      *)
(* last, with pages that are evicted, file errors and restarts.            *)
(***************************************************************************)
THEOREM OneCallerSeesItsWrites ==
  ASSUME OneCaller
  PROVE  Spec => [](GuardsKeepPage /\ PinsCountGuards /\ GuardsSeeLatest
                    /\ TableMatchesFrames /\ CleanMeansOnDisk)
PROOF
<1>1. CInv => /\ GuardsKeepPage /\ PinsCountGuards /\ GuardsSeeLatest
              /\ TableMatchesFrames /\ CleanMeansOnDisk
  BY GuardsSee DEF CInv, Structure, Contents
<1> QED
  BY <1>1, OneCallerHolds, PTL

(***************************************************************************)
(* To a single caller, whatever it does, the pool is the store of pages,   *)
(* failed writes and what they leave in the file included.                 *)
(***************************************************************************)
THEOREM OneCallerPoolIsStore == ASSUME OneCaller PROVE Spec => ImplementsPageStore
PROOF
<1>1. FewGuards
  BY OneCallerHasFewGuards
<1>2. IInv => Careful
  BY OneCallerIsCareful
<1>3. Spec => []Careful
  BY <1>2, IInvHolds, PTL
<1>4. Spec /\ []Careful => ImplementsPageStore
  BY <1>1, CarefulPoolIsStore
<1> QED
  BY <1>3, <1>4, PTL

=============================================================================
