----------------------------- MODULE BufferPool -----------------------------
(***************************************************************************)
(* src/buffer/buffer_pool.rs, called by any number of threads, with the    *)
(* tablespace file of src/page/file_manager.rs below it.                   *)
(*                                                                         *)
(* A step is one critical section: what a call does between taking a lock  *)
(* and the next point where it may have to wait for another one.  A call   *)
(* that waits while it holds a lock has a program counter of its own, and  *)
(* who holds a lock is read off the program counters.  The free list and   *)
(* the file manager are locked only for a section that waits for nothing,  *)
(* so their mutexes need no state.                                         *)
(*                                                                         *)
(* A page's contents are a version (module Versions): a number for what    *)
(* was written through guards, its negative for what a write that stops    *)
(* inside the data leaves in the file.  The checksum of a page is the      *)
(* version it was computed for.                                            *)
(***************************************************************************)
EXTENDS Recency, Versions

CONSTANTS
  Threads,         \* callers of the pool
  Frames,          \* frame indices; the pool's capacity is their number
  Handles,         \* a thread's variables that hold a PageGuard (bounds them)
  None,            \* Option::None
  Spaces,          \* tablespace ids a caller may name in a PageId
  FileSpace,       \* FileManager.space_id
  MaxPages,        \* pages the disk has room for (bounds the file)
  InitPages,       \* pages the file has when the pool is created
  MaxVersion,      \* bound on the writes to a page
  PinModulus,      \* pin counts are taken modulo this (2^32 in the code)
  OverflowChecks,  \* debug build: arithmetic overflow panics
  IOErrors,        \* file operations may fail, a write also half way through
  Crashes          \* the process may stop and be started again

ASSUME ConstantsAssumption ==
  /\ FileSpace \in Spaces
  /\ MaxPages \in Nat /\ InitPages \in 0 .. MaxPages
  /\ MaxVersion \in Nat
  /\ PinModulus \in Nat /\ PinModulus > 1
  /\ {OverflowChecks, IOErrors, Crashes} \subseteq BOOLEAN

PageNos == 0 .. MaxPages - 1
PageIds == [space : Spaces, no : PageNos]

\* Page: its header's id, its data and the checksum stored beside them
Page == [id : PageIds, val : Int, sum : Int]

\* BufferFrame
BufferFrame == [page : Page, dirty : BOOLEAN, pin : 0 .. PinModulus - 1]

\* PageGuard, with the page its caller asked for
PageGuard == [frame : Frames, id : PageIds]

\* None is no value of the types it is added to
ASSUME NoneAssumption ==
  None \notin Frames \cup PageIds \cup Page \cup BufferFrame \cup PageGuard

VARIABLES
  page_table,   \* PageId -> frame index, None where the map has no entry
  frames,       \* frame index -> Option<BufferFrame>
  lru,          \* the LRU list as a recency order
  free_list,    \* frames never used so far
  file,         \* page number -> the page stored at its offset
  file_len,     \* the file's length in whole pages
  pc,           \* what the thread's call does next
  want,         \* the call's page id; None in new_page before it has one
  slot,         \* the call's frame index
  loaded,       \* the page read or allocated, before it is in its frame
  candidates,   \* pinned frames evict_one has set aside, the last one first
  todo,         \* page ids flush_all has still to flush
  guards,       \* thread -> handle -> the guard it holds
  latest        \* page number -> version its callers have made of it (only for
                \* properties)

index   == <<page_table, lru, free_list>>
pool    == <<index, frames>>
disk    == <<file, file_len>>
call    == <<pc, want, slot>>
scratch == <<loaded, candidates, todo>>
caller  == <<guards, latest>>
vars    == <<pool, disk, call, scratch, caller>>

-----------------------------------------------------------------------------
(***************************************************************************)
(* Locks.  A call that is about to touch the LRU list in fetch_page or     *)
(* new_page holds the page table's mutex, and after a hit the frame's lock *)
(* too; evict_one holds the LRU mutex while it reads frames; evict_frame   *)
(* holds the frame's lock while it waits for the page table.               *)
(***************************************************************************)
TableHeld == \E t \in Threads : pc[t] \in {"hit_frame", "hit_lru", "publish_lru"}
LruHeld   == \E t \in Threads : pc[t] = "scan"
FrameHeld(f) == \E t \in Threads : pc[t] \in {"hit_lru", "unmap"} /\ slot[t] = f

\* u32 arithmetic on pin_count
Incremented(n) == IF n = PinModulus - 1 THEN 0 ELSE n + 1
Decremented(n) == IF n = 0 THEN PinModulus - 1 ELSE n - 1

\* A panic poisons the locks its thread holds; the model ends there
Panic(t) == pc' = [pc EXCEPT ![t] = "panicked"] /\ UNCHANGED <<want, slot>>
Running  == \A t \in Threads : pc[t] # "panicked"

\* The call returns
Return(t) ==
  /\ pc'   = [pc EXCEPT ![t] = "idle"]
  /\ want' = [want EXCEPT ![t] = None]
  /\ slot' = [slot EXCEPT ![t] = None]

\* The call returns a guard on its frame
ReturnGuard(t) ==
  /\ Return(t)
  /\ \E h \in Handles :
       /\ guards[t][h] = None
       /\ guards' = [guards EXCEPT ![t][h] = [frame |-> slot[t], id |-> want[t]]]

\* Between calls, with a variable to keep the guard in
MayFetch(t) == pc[t] = "idle" /\ \E h \in Handles : guards[t][h] = None

Dirty(f) == frames[f] # None /\ frames[f].dirty

Goto(t, label) == pc' = [pc EXCEPT ![t] = label] /\ UNCHANGED <<want, slot>>

-----------------------------------------------------------------------------
(***************************************************************************)
(* Page::update_checksum, and FileManager                                  *)
(***************************************************************************)
WithChecksum(page) == [page EXCEPT !.sum = page.val]

\* write_page: the page goes to the offset its own header names, as it is
Written(page) == [file EXCEPT ![page.id.no] = page]

\* write_all stops early: before it begins, or after the header and none, some
\* or all of the data
PartlyWritten(page) ==
  {file} \cup {Written([page EXCEPT !.val = v]) :
                 v \in {file[page.id.no].val, Torn(page.val), page.val}}

\* Page::new (and a bug: the number stays 0)
NewPageUnnumbered(no) == [id |-> [space |-> FileSpace, no |-> 0], val |-> 0, sum |-> 0]
NewPage(no) == [id |-> [space |-> FileSpace, no |-> no], val |-> 0, sum |-> 0]

-----------------------------------------------------------------------------
\* BufferPool::new: nothing cached, every frame free
EmptyTable  == [p \in PageIds |-> None]
EmptyFrames == [f \in Frames |-> None]
Nothing     == [t \in Threads |-> None]
NoGuards    == [t \in Threads |-> [h \in Handles |-> None]]

Init ==
  /\ page_table = EmptyTable /\ frames = EmptyFrames
  /\ lru = <<>> /\ free_list = Frames
  /\ pc = [t \in Threads |-> "idle"]
  /\ want = Nothing /\ slot = Nothing /\ loaded = Nothing
  /\ candidates = [t \in Threads |-> <<>>]
  /\ todo = [t \in Threads |-> {}]
  /\ guards = NoGuards
  /\ file_len = InitPages
  /\ file = [n \in PageNos |-> IF n < InitPages THEN NewPage(n) ELSE None]
  /\ latest = [n \in PageNos |-> 0]

\* A bug: opening the file empties it
OpenedEmpty == file' = [n \in PageNos |-> None] /\ file_len' = 0

\* open_or_create
Opened == UNCHANGED disk

\* The process stops anywhere; what it finds when it starts is the file
Restart ==
  /\ Crashes
  /\ page_table' = EmptyTable /\ frames' = EmptyFrames
  /\ lru' = <<>> /\ free_list' = Frames
  /\ pc' = [t \in Threads |-> "idle"]
  /\ want' = Nothing /\ slot' = Nothing /\ loaded' = Nothing
  /\ candidates' = [t \in Threads |-> <<>>]
  /\ todo' = [t \in Threads |-> {}]
  /\ guards' = NoGuards
  /\ latest' = [n \in PageNos |-> IF n < file_len THEN file[n].val ELSE 0]
  /\ Opened

-----------------------------------------------------------------------------
(***************************************************************************)
(* fetch_page                                                              *)
(***************************************************************************)
FetchHit(t, p) ==
  /\ MayFetch(t) /\ ~TableHeld
  /\ page_table[p] # None
  /\ pc'   = [pc EXCEPT ![t] = "hit_frame"]
  /\ want' = [want EXCEPT ![t] = p]
  /\ slot' = [slot EXCEPT ![t] = page_table[p]]
  /\ UNCHANGED <<pool, disk, scratch, caller>>

\* A bug: the page table is not consulted
FetchAlwaysMisses(t, p) ==
  /\ MayFetch(t) /\ ~TableHeld
  /\ pc'   = [pc EXCEPT ![t] = "get_free"]
  /\ want' = [want EXCEPT ![t] = p]
  /\ UNCHANGED <<slot, pool, disk, scratch, caller>>

FetchMiss(t, p) ==
  /\ MayFetch(t) /\ ~TableHeld
  /\ page_table[p] = None
  /\ pc'   = [pc EXCEPT ![t] = "get_free"]
  /\ want' = [want EXCEPT ![t] = p]
  /\ UNCHANGED <<slot, pool, disk, scratch, caller>>

\* A bug: a hit does not pin
HitWithoutPin(t) ==
  /\ pc[t] = "hit_frame" /\ ~FrameHeld(slot[t])
  /\ Goto(t, "hit_lru")
  /\ UNCHANGED <<pool, disk, scratch, caller>>

\* pin_count += 1 on the frame the table names
HitPin(t) ==
  LET f == slot[t] IN
  /\ pc[t] = "hit_frame" /\ ~FrameHeld(f)
  /\ IF frames[f] = None \/ (OverflowChecks /\ frames[f].pin = PinModulus - 1)
       THEN Panic(t) /\ UNCHANGED frames
       ELSE /\ Goto(t, "hit_lru")
            /\ frames' = [frames EXCEPT ![f].pin = Incremented(@)]
  /\ UNCHANGED <<index, disk, scratch, caller>>

HitTouch(t) ==
  /\ pc[t] = "hit_lru" /\ ~LruHeld
  /\ lru' = Touched(lru, slot[t])
  /\ ReturnGuard(t)
  /\ UNCHANGED <<page_table, frames, free_list, disk, scratch, latest>>

\* new_page begins like a miss, with no page id yet
StartNewPage(t) ==
  /\ MayFetch(t)
  /\ Goto(t, "get_free")
  /\ UNCHANGED <<pool, disk, scratch, caller>>

-----------------------------------------------------------------------------
(***************************************************************************)
(* get_free_frame and evict_one                                            *)
(***************************************************************************)
\* A bug: the frame stays in the free list
PopFreeKeeps(t) ==
  /\ pc[t] = "get_free"
  /\ \E f \in free_list : slot' = [slot EXCEPT ![t] = f]
  /\ pc' = [pc EXCEPT ![t] = "load"]
  /\ UNCHANGED <<want, pool, disk, scratch, caller>>

\* Which of the frames pop() yields does not matter: they are all unused
PopFree(t) ==
  /\ pc[t] = "get_free"
  /\ \E f \in free_list :
       /\ free_list' = free_list \ {f}
       /\ slot' = [slot EXCEPT ![t] = f]
  /\ pc' = [pc EXCEPT ![t] = "load"]
  /\ UNCHANGED <<want, page_table, frames, lru, disk, scratch, caller>>

\* The free list is never filled again, so its lock and the LRU's are one step
StartScan(t) ==
  /\ pc[t] = "get_free" /\ free_list = {} /\ ~LruHeld
  /\ Goto(t, "scan")
  /\ UNCHANGED <<pool, disk, scratch, caller>>

Scanning(t) == pc[t] = "scan" /\ lru # <<>> /\ ~FrameHeld(Last(lru))

\* The oldest frame is pinned: it is set aside
ScanPinned(t) ==
  /\ Scanning(t) /\ frames[Last(lru)] # None /\ frames[Last(lru)].pin > 0
  /\ candidates' = [candidates EXCEPT ![t] = <<Last(lru)>> \o @]
  /\ lru' = Front(lru)
  /\ UNCHANGED <<page_table, frames, free_list, disk, call, loaded, todo, caller>>

\* The oldest frame is empty: it is dropped from the list
ScanEmpty(t) ==
  /\ Scanning(t) /\ frames[Last(lru)] = None
  /\ lru' = Front(lru)
  /\ UNCHANGED <<page_table, frames, free_list, disk, call, scratch, caller>>

\* A bug: the pin count is not looked at
ScanAnyVictim(t) ==
  /\ Scanning(t) /\ frames[Last(lru)] # None
  /\ slot' = [slot EXCEPT ![t] = Last(lru)]
  /\ lru'  = candidates[t] \o Front(lru)
  /\ candidates' = [candidates EXCEPT ![t] = <<>>]
  /\ pc'   = [pc EXCEPT ![t] = "victim"]
  /\ UNCHANGED <<want, page_table, frames, free_list, disk, loaded, todo, caller>>

\* The oldest frame may go; the frames set aside become the most recent ones
ScanVictim(t) ==
  /\ Scanning(t) /\ frames[Last(lru)] # None /\ frames[Last(lru)].pin = 0
  /\ slot' = [slot EXCEPT ![t] = Last(lru)]
  /\ lru'  = candidates[t] \o Front(lru)
  /\ candidates' = [candidates EXCEPT ![t] = <<>>]
  /\ pc'   = [pc EXCEPT ![t] = "victim"]
  /\ UNCHANGED <<want, page_table, frames, free_list, disk, loaded, todo, caller>>

\* Err(NoFreeFrames)
ScanExhausted(t) ==
  /\ pc[t] = "scan" /\ lru = <<>>
  /\ lru' = candidates[t]
  /\ candidates' = [candidates EXCEPT ![t] = <<>>]
  /\ Return(t)
  /\ UNCHANGED <<page_table, frames, free_list, disk, loaded, todo, caller>>

-----------------------------------------------------------------------------
(***************************************************************************)
(* evict_frame, which looks neither at the pin count nor at who the page   *)
(* is now                                                                  *)
(***************************************************************************)
\* Another call has emptied the frame
VictimGone(t) ==
  /\ pc[t] = "victim" /\ ~FrameHeld(slot[t])
  /\ frames[slot[t]] = None
  /\ Goto(t, "load")
  /\ UNCHANGED <<pool, disk, scratch, caller>>

\* A bug: a dirty victim is not written
VictimForgotten(t) ==
  /\ pc[t] = "victim" /\ ~FrameHeld(slot[t]) /\ frames[slot[t]] # None
  /\ Goto(t, "unmap")
  /\ UNCHANGED <<pool, disk, scratch, caller>>

\* A bug: evict_frame writes the page without update_checksum
VictimUnsummed(t) ==
  LET f == slot[t] IN
  /\ pc[t] = "victim" /\ ~FrameHeld(f)
  /\ frames[f] # None
  /\ file' = IF frames[f].dirty THEN Written(frames[f].page) ELSE file
  /\ Goto(t, "unmap")
  /\ UNCHANGED <<index, frames, file_len, scratch, caller>>

\* The frame's lock is held from here to Unmap
VictimSaved(t) ==
  LET f == slot[t] IN
  /\ pc[t] = "victim" /\ ~FrameHeld(f)
  /\ frames[f] # None
  /\ IF frames[f].dirty
       THEN /\ frames' = [frames EXCEPT ![f].page = WithChecksum(@)]
            /\ file'   = Written(WithChecksum(frames[f].page))
       ELSE UNCHANGED <<file, frames>>
  /\ Goto(t, "unmap")
  /\ UNCHANGED <<index, file_len, scratch, caller>>

\* The error leaves the frame as it is, but it is no longer in the LRU list
VictimWriteFails(t) ==
  LET f == slot[t] IN
  /\ IOErrors /\ pc[t] = "victim" /\ ~FrameHeld(f)
  /\ Dirty(f)
  /\ frames' = [frames EXCEPT ![f].page = WithChecksum(@)]
  /\ file' \in PartlyWritten(WithChecksum(frames[f].page))
  /\ Return(t)
  /\ UNCHANGED <<index, file_len, scratch, caller>>

\* A bug: the table keeps its entry
UnmapFrameOnly(t) ==
  /\ pc[t] = "unmap" /\ ~TableHeld
  /\ frames' = [frames EXCEPT ![slot[t]] = None]
  /\ Goto(t, "load")
  /\ UNCHANGED <<index, disk, scratch, caller>>

Unmap(t) ==
  LET f == slot[t] IN
  /\ pc[t] = "unmap" /\ ~TableHeld
  /\ page_table' = [page_table EXCEPT ![frames[f].page.id] = None]
  /\ frames' = [frames EXCEPT ![f] = None]
  /\ Goto(t, "load")
  /\ UNCHANGED <<lru, free_list, disk, scratch, caller>>

-----------------------------------------------------------------------------
(***************************************************************************)
(* fetch_page and new_page with a frame of their own                       *)
(***************************************************************************)
\* A bug: the end of the file is not noticed
ReadPagePastEnd(t) ==
  /\ pc[t] = "load" /\ want[t] # None
  /\ loaded' = [loaded EXCEPT ![t] = file[want[t].no]]
  /\ Goto(t, "install")
  /\ UNCHANGED <<pool, disk, candidates, todo, caller>>

\* read_page looks at the page number only
ReadPage(t) ==
  /\ pc[t] = "load" /\ want[t] # None
  /\ want[t].no < file_len
  /\ loaded' = [loaded EXCEPT ![t] = file[want[t].no]]
  /\ Goto(t, "install")
  /\ UNCHANGED <<pool, disk, candidates, todo, caller>>

Allocate(t) ==
  /\ pc[t] = "load" /\ want[t] = None
  /\ file_len < MaxPages
  /\ file' = [file EXCEPT ![file_len] = NewPage(file_len)]
  /\ file_len' = file_len + 1
  /\ loaded' = [loaded EXCEPT ![t] = NewPage(file_len)]
  /\ want' = [want EXCEPT ![t] = NewPage(file_len).id]
  /\ pc' = [pc EXCEPT ![t] = "install"]
  /\ UNCHANGED <<slot, pool, candidates, todo, caller>>

\* Nothing to read there, no room, or an I/O error: the frame is in no list
LoadFails(t) ==
  /\ pc[t] = "load"
  /\ IOErrors \/ ~(IF want[t] = None THEN file_len < MaxPages ELSE want[t].no < file_len)
  /\ Return(t)
  /\ UNCHANGED <<pool, disk, scratch, caller>>

\* A bug: the frame is not pinned for its first guard
InstallUnpinned(t) ==
  /\ pc[t] = "install" /\ ~FrameHeld(slot[t])
  /\ frames' = [frames EXCEPT
                  ![slot[t]] = [page |-> loaded[t], dirty |-> FALSE, pin |-> 0]]
  /\ loaded' = [loaded EXCEPT ![t] = None]
  /\ Goto(t, "publish")
  /\ UNCHANGED <<index, disk, candidates, todo, caller>>

Install(t) ==
  /\ pc[t] = "install" /\ ~FrameHeld(slot[t])
  /\ frames' = [frames EXCEPT
                  ![slot[t]] = [page |-> loaded[t], dirty |-> FALSE, pin |-> 1]]
  /\ loaded' = [loaded EXCEPT ![t] = None]
  /\ Goto(t, "publish")
  /\ UNCHANGED <<index, disk, candidates, todo, caller>>

Publish(t) ==
  /\ pc[t] = "publish" /\ ~TableHeld
  /\ page_table' = [page_table EXCEPT ![want[t]] = slot[t]]
  /\ Goto(t, "publish_lru")
  /\ UNCHANGED <<frames, lru, free_list, disk, scratch, caller>>

\* A bug: the frame never gets into the LRU list
PublishOnly(t) ==
  /\ pc[t] = "publish_lru" /\ ~LruHeld
  /\ ReturnGuard(t)
  /\ UNCHANGED <<pool, disk, scratch, latest>>

PublishTouch(t) ==
  /\ pc[t] = "publish_lru" /\ ~LruHeld
  /\ lru' = Touched(lru, slot[t])
  /\ ReturnGuard(t)
  /\ UNCHANGED <<page_table, frames, free_list, disk, scratch, latest>>

-----------------------------------------------------------------------------
(***************************************************************************)
(* flush_page and flush_all                                                *)
(***************************************************************************)
\* flush_page has one page to flush; flush_all takes the table's keys first
StartFlush(t, ids) ==
  /\ pc[t] = "idle" /\ ids # {}
  /\ todo' = [todo EXCEPT ![t] = ids]
  /\ Goto(t, "flush_next")
  /\ UNCHANGED <<pool, disk, loaded, candidates, caller>>

FlushPage(t, p) == StartFlush(t, {p})

FlushAll(t) == ~TableHeld /\ StartFlush(t, {p \in PageIds : page_table[p] # None})

AfterFlush(rest) == IF rest = {} THEN "idle" ELSE "flush_next"

\* A bug: a page that is not in the table stays on the list
FlushNextAgain(t) ==
  /\ pc[t] = "flush_next" /\ ~TableHeld
  /\ \E p \in todo[t] :
       LET hit == page_table[p] # None IN
       /\ todo' = IF hit THEN [todo EXCEPT ![t] = @ \ {p}] ELSE todo
       /\ slot' = [slot EXCEPT ![t] = page_table[p]]
       /\ pc'   = [pc EXCEPT ![t] = IF hit THEN "flush" ELSE "flush_next"]
  /\ UNCHANGED <<want, pool, disk, loaded, candidates, caller>>

\* The keys come in any order; a page that is not in the table is passed over
FlushNext(t) ==
  /\ pc[t] = "flush_next" /\ ~TableHeld
  /\ \E p \in todo[t] :
       LET rest == todo[t] \ {p}
           hit  == page_table[p] # None
       IN /\ todo' = [todo EXCEPT ![t] = rest]
          /\ slot' = [slot EXCEPT ![t] = page_table[p]]
          /\ pc'   = [pc EXCEPT ![t] = IF hit THEN "flush" ELSE AfterFlush(rest)]
  /\ UNCHANGED <<want, pool, disk, loaded, candidates, caller>>

\* What the frame holds by now has nothing to write
FlushClean(t) ==
  LET f == slot[t] IN
  /\ pc[t] = "flush" /\ ~FrameHeld(f)
  /\ ~Dirty(f)
  /\ pc'   = [pc EXCEPT ![t] = AfterFlush(todo[t])]
  /\ slot' = [slot EXCEPT ![t] = None]
  /\ UNCHANGED <<want, pool, disk, scratch, caller>>

FlushWrite(t) ==
  LET f == slot[t] IN
  /\ pc[t] = "flush" /\ ~FrameHeld(f)
  /\ Dirty(f)
  /\ frames' = [frames EXCEPT ![f].page = WithChecksum(@), ![f].dirty = FALSE]
  /\ file'   = Written(WithChecksum(frames[f].page))
  /\ pc'     = [pc EXCEPT ![t] = AfterFlush(todo[t])]
  /\ slot'   = [slot EXCEPT ![t] = None]
  /\ UNCHANGED <<want, index, file_len, scratch, caller>>

\* The first error ends flush_all
FlushFails(t) ==
  LET f == slot[t] IN
  /\ IOErrors /\ pc[t] = "flush" /\ ~FrameHeld(f)
  /\ Dirty(f)
  /\ file' \in PartlyWritten(WithChecksum(frames[f].page))
  /\ frames' = [frames EXCEPT ![f].page = WithChecksum(@)]
  /\ todo' = [todo EXCEPT ![t] = {}]
  /\ Return(t)
  /\ UNCHANGED <<index, file_len, loaded, candidates, caller>>

-----------------------------------------------------------------------------
(***************************************************************************)
(* PageGuard                                                               *)
(***************************************************************************)
\* A bug: the frame is not marked dirty
WriteGuardClean(t, h) ==
  LET g == guards[t][h] IN
  /\ pc[t] = "idle" /\ g # None
  /\ frames[g.frame] # None /\ ~FrameHeld(g.frame)
  /\ Newer(latest[g.id.no]) <= MaxVersion
  /\ latest' = [latest EXCEPT ![g.id.no] = Newer(@)]
  /\ frames' = [frames EXCEPT ![g.frame].page.val = Newer(latest[g.id.no])]
  /\ UNCHANGED <<index, disk, call, scratch, guards>>

WriteGuard(t, h) ==
  LET g == guards[t][h] IN
  /\ pc[t] = "idle" /\ g # None
  /\ frames[g.frame] # None /\ ~FrameHeld(g.frame)
  /\ Newer(latest[g.id.no]) <= MaxVersion
  /\ latest' = [latest EXCEPT ![g.id.no] = Newer(@)]
  /\ frames' = [frames EXCEPT ![g.frame].page.val = Newer(latest[g.id.no]),
                              ![g.frame].dirty = TRUE]
  /\ UNCHANGED <<index, disk, call, scratch, guards>>

\* unwrap() of an empty frame, in read or write
UseOfEmptyFrame(t, h) ==
  /\ pc[t] = "idle" /\ guards[t][h] # None
  /\ frames[guards[t][h].frame] = None
  /\ ~FrameHeld(guards[t][h].frame)
  /\ Panic(t)
  /\ UNCHANGED <<pool, disk, scratch, caller>>

\* Drop for PageGuard: an empty frame is passed over
DropGuard(t, h) ==
  LET f == guards[t][h].frame IN
  /\ pc[t] = "idle" /\ guards[t][h] # None /\ ~FrameHeld(f)
  /\ IF frames[f] # None /\ frames[f].pin = 0 /\ OverflowChecks
       THEN Panic(t) /\ UNCHANGED <<frames, guards>>
       ELSE /\ frames' = IF frames[f] = None THEN frames
                         ELSE [frames EXCEPT ![f].pin = Decremented(@)]
            /\ guards' = [guards EXCEPT ![t][h] = None]
            /\ UNCHANGED call
  /\ UNCHANGED <<index, disk, scratch, latest>>

-----------------------------------------------------------------------------
\* What a thread may start, or do with a guard, between two calls
Begin(t) ==
  \/ \E p \in PageIds : FetchHit(t, p) \/ FetchMiss(t, p) \/ FlushPage(t, p)
  \/ StartNewPage(t)
  \/ FlushAll(t)
  \/ \E h \in Handles : WriteGuard(t, h) \/ UseOfEmptyFrame(t, h) \/ DropGuard(t, h)

\* The steps of get_free_frame
FindFrame(t) ==
  \/ PopFree(t) \/ StartScan(t)
  \/ ScanPinned(t) \/ ScanEmpty(t) \/ ScanVictim(t) \/ ScanExhausted(t)
  \/ VictimGone(t) \/ VictimSaved(t) \/ VictimWriteFails(t)
  \/ Unmap(t)

\* A call goes on
Continue(t) ==
  \/ HitPin(t) \/ HitTouch(t)
  \/ FindFrame(t)
  \/ ReadPage(t) \/ Allocate(t) \/ LoadFails(t)
  \/ Install(t) \/ Publish(t) \/ PublishTouch(t)
  \/ FlushNext(t) \/ FlushClean(t) \/ FlushWrite(t) \/ FlushFails(t)

Next ==
  \/ Running /\ \E t \in Threads : Begin(t) \/ Continue(t)
  \/ Restart

Spec == Init /\ [][Next]_vars

\* A thread that can go on with its call does so, sooner or later
FairSpec == Spec /\ \A t \in Threads : WF_vars(Running /\ Continue(t))
=============================================================================
