-------------------------- MODULE BufferPoolProofs --------------------------
(***************************************************************************)
(* What holds of the buffer pool for any number of threads, frames, pages  *)
(* and handles, with or without file errors, restarts and overflow checks. *)
(* One lemma per action shows that it keeps the types, and one per action  *)
(* that touches pages that it keeps their numbers.  The second part shows  *)
(* what the races of fetch_page and eviction leave intact: the order of    *)
(* replacement, the unused frames and the checksums in the file.           *)
(***************************************************************************)
EXTENDS BufferPoolProps, RecencyProofs

-----------------------------------------------------------------------------
(***************************************************************************)
(* Types.                                                                  *)
(***************************************************************************)
\* The records of the model, the updates actions make to them, and None

\* What the type invariant says of frames, calls and guards, piece by piece
LEMMA Types ==
  /\ None \notin Frames /\ None \notin PageIds /\ None \notin Page
  /\ None \notin BufferFrame /\ None \notin PageGuard
  /\ \A p \in Page : /\ p.id \in PageIds /\ p.val \in Int
                      /\ WithChecksum(p) \in Page /\ WithChecksum(p).id = p.id
  /\ \A p \in Page : \A n \in Int : [p EXCEPT !.val = n] \in Page /\ [p EXCEPT !.sum = n] \in Page
  /\ \A p \in PageIds : p.no \in PageNos /\ p.no \in Nat
  /\ \A b \in BufferFrame :
       /\ b.page \in Page /\ b.dirty \in BOOLEAN
       /\ [b EXCEPT !.page = WithChecksum(@)] \in BufferFrame
       /\ [b EXCEPT !.page = WithChecksum(@), !.dirty = FALSE] \in BufferFrame
       /\ [b EXCEPT !.pin = Incremented(@)] \in BufferFrame
       /\ [b EXCEPT !.pin = Decremented(@)] \in BufferFrame
       /\ \A n \in Int : [b EXCEPT !.page.val = n, !.dirty = TRUE] \in BufferFrame
  /\ \A p \in Page : [page |-> p, dirty |-> FALSE, pin |-> 1] \in BufferFrame
  /\ \A g \in PageGuard : g.frame \in Frames /\ g.id \in PageIds
  /\ \A f \in Frames, p \in PageIds : [frame |-> f, id |-> p] \in PageGuard
  /\ \A n \in PageNos : NewPage(n) \in Page /\ NewPage(n).id \in PageIds
PROOF
<1>1. /\ None \notin Frames /\ None \notin PageIds /\ None \notin Page
      /\ None \notin BufferFrame /\ None \notin PageGuard
  BY NoneAssumption
<1>2. \A p \in Page : /\ p.id \in PageIds /\ p.val \in Int
                     /\ WithChecksum(p) \in Page /\ WithChecksum(p).id = p.id
  BY DEF Page, WithChecksum
<1>3. \A p \in Page : \A n \in Int : [p EXCEPT !.val = n] \in Page /\ [p EXCEPT !.sum = n] \in Page
  BY DEF Page
<1>4. \A p \in PageIds : p.no \in PageNos /\ p.no \in Nat
  BY ConstantsAssumption DEF PageIds, PageNos
<1>5. ASSUME NEW b \in BufferFrame
      PROVE  /\ b.page \in Page /\ b.dirty \in BOOLEAN
             /\ [b EXCEPT !.page = WithChecksum(@)] \in BufferFrame
             /\ [b EXCEPT !.page = WithChecksum(@), !.dirty = FALSE] \in BufferFrame
  BY <1>2 DEF BufferFrame
<1>6. ASSUME NEW b \in BufferFrame
      PROVE  /\ [b EXCEPT !.pin = Incremented(@)] \in BufferFrame
             /\ [b EXCEPT !.pin = Decremented(@)] \in BufferFrame
  BY ConstantsAssumption DEF BufferFrame, Incremented, Decremented
<1>7. ASSUME NEW b \in BufferFrame, NEW n \in Int
      PROVE  [b EXCEPT !.page.val = n, !.dirty = TRUE] \in BufferFrame
  BY <1>3 DEF BufferFrame
<1>8. \A p \in Page : [page |-> p, dirty |-> FALSE, pin |-> 1] \in BufferFrame
  BY ConstantsAssumption DEF BufferFrame
<1>9. /\ \A g \in PageGuard : g.frame \in Frames /\ g.id \in PageIds
      /\ \A f \in Frames, p \in PageIds : [frame |-> f, id |-> p] \in PageGuard
  BY DEF PageGuard
<1>10. \A n \in PageNos : NewPage(n) \in Page /\ NewPage(n).id \in PageIds
  BY ConstantsAssumption DEF PageIds, PageNos, NewPage, Page
<1> QED
  BY <1>1, <1>2, <1>3, <1>4, <1>5, <1>6, <1>7, <1>8, <1>9, <1>10

\* Versions are integers
LEMMA VersionTypes == \A v \in Int : Torn(v) \in Int /\ Newer(v) \in Int
PROOF
BY DEF Torn, Newer

\* A write that fails leaves the file alone, or puts the page there with the
\* data it had, the new data or a mixture
LEMMA PartlyWrittenIs ==
  ASSUME NEW page \in Page, file[page.id.no] \in Page,
         NEW new \in PartlyWritten(page)
  PROVE  \/ new = file
         \/ \E v \in Int : new = [file EXCEPT ![page.id.no] = [page EXCEPT !.val = v]]
PROOF
<1>1. CASE new = file
  BY <1>1
<1>2. ASSUME NEW v \in {file[page.id.no].val, Torn(page.val), page.val},
             new = Written([page EXCEPT !.val = v])
      PROVE  \E w \in Int : new = [file EXCEPT ![page.id.no] = [page EXCEPT !.val = w]]
  <2>1. v \in Int
    BY Types, VersionTypes
  <2>2. [page EXCEPT !.val = v].id = page.id
    BY DEF Page
  <2> QED
    BY <1>2, <2>1, <2>2 DEF Written
<1> QED
  BY <1>1, <1>2 DEF PartlyWritten

\* Finding a page in the table keeps the types
LEMMA FetchHitTypes ==
  ASSUME TypeOK, NEW t \in Threads, NEW p \in PageIds, FetchHit(t, p)
  PROVE  TypeOK'
PROOF
<1>1. SharedTypes'
  BY DEF FetchHit, TypeOK, SharedTypes, CallTypes, MaybeFrame, MayFetch, pool,
    index, disk, scratch, caller
<1>2. CallTypes'
  <2>1. page_table[p] \in Frames
    BY DEF FetchHit, TypeOK, SharedTypes, MaybeFrame
  <2> QED
    BY <2>1 DEF FetchHit, TypeOK, CallTypes, Labels, WithSlot, WithWanted,
      MaybeFrame, scratch, caller
<1> QED
  BY <1>1, <1>2 DEF TypeOK

\* Missing a page keeps the types
LEMMA FetchMissTypes ==
  ASSUME TypeOK, NEW t \in Threads, NEW p \in PageIds, FetchMiss(t, p)
  PROVE  TypeOK'
PROOF
<1>1. SharedTypes'
  BY DEF FetchMiss, TypeOK, SharedTypes, CallTypes, MaybeFrame, MayFetch,
    pool, index, disk, scratch, caller
<1>2. CallTypes'
  BY DEF FetchMiss, TypeOK, SharedTypes, CallTypes, Labels, WithSlot,
    WithWanted, MaybeFrame, MayFetch, pool, index, disk, scratch, caller
<1> QED
  BY <1>1, <1>2 DEF TypeOK

\* Pinning a cached frame (or panicking) keeps the types
LEMMA HitPinTypes ==
  ASSUME TypeOK, NEW t \in Threads, HitPin(t)
  PROVE  TypeOK'
PROOF
<1>1. SharedTypes'
  <2> DEFINE f == slot[t]
             b == [frames[f] EXCEPT !.pin = Incremented(@)]
  <2>1. f \in Frames
    BY DEF HitPin, TypeOK, CallTypes, WithSlot
  <2>2. \/ frames' = frames
        \/ frames[f] \in BufferFrame /\ frames' = [frames EXCEPT ![f] = b]
    BY <2>1 DEF HitPin, TypeOK, SharedTypes
  <2>3. frames[f] \in BufferFrame => b \in BufferFrame
    BY Types
  <2> HIDE DEF b
  <2>4. frames' \in [Frames -> BufferFrame \cup {None}]
    BY <2>1, <2>2, <2>3 DEF TypeOK, SharedTypes
  <2> QED
    BY <2>4 DEF HitPin, TypeOK, SharedTypes, index, disk, caller
<1>2. CallTypes'
  <2>1. \E l \in {"hit_lru", "panicked"} : pc' = [pc EXCEPT ![t] = l]
    BY DEF HitPin, Goto, Panic
  <2>2. pc[t] = "hit_frame" /\ UNCHANGED <<want, slot, scratch, caller>>
    BY DEF HitPin, Goto, Panic
  <2> QED
    BY <2>1, <2>2 DEF TypeOK, CallTypes, Labels, WithSlot, WithWanted, scratch, caller
<1> QED
  BY <1>1, <1>2 DEF TypeOK

\* Returning a cached page keeps the types
LEMMA HitTouchTypes ==
  ASSUME TypeOK, NEW t \in Threads, HitTouch(t)
  PROVE  TypeOK'
PROOF
<1>1. SharedTypes'
  <2>1. slot[t] \in Frames /\ lru \in Seq(Frames)
    BY DEF HitTouch, TypeOK, SharedTypes, CallTypes, WithSlot
  <2>2. lru' \in Seq(Frames)
    BY <2>1, TouchedFrames DEF HitTouch
  <2> QED
    BY <2>2 DEF HitTouch, TypeOK, SharedTypes, disk
<1>2. CallTypes'
  <2>1. PICK h \in Handles :
          guards' = [guards EXCEPT ![t][h] = [frame |-> slot[t], id |-> want[t]]]
    BY DEF HitTouch, ReturnGuard
  <2>2. [frame |-> slot[t], id |-> want[t]] \in PageGuard
    BY Types DEF HitTouch, TypeOK, CallTypes, WithSlot, WithWanted
  <2>3. guards' \in [Threads -> [Handles -> PageGuard \cup {None}]]
    BY <2>1, <2>2 DEF TypeOK, CallTypes
  <2>4. /\ pc' = [pc EXCEPT ![t] = "idle"]
        /\ want' = [want EXCEPT ![t] = None] /\ slot' = [slot EXCEPT ![t] = None]
        /\ UNCHANGED scratch
    BY DEF HitTouch, ReturnGuard, Return
  <2> QED
    BY <2>3, <2>4
    DEF TypeOK, CallTypes, Labels, WithSlot, WithWanted, MaybeFrame, scratch
<1> QED
  BY <1>1, <1>2 DEF TypeOK

\* Starting new_page keeps the types
LEMMA StartNewPageTypes ==
  ASSUME TypeOK, NEW t \in Threads, StartNewPage(t)
  PROVE  TypeOK'
PROOF
<1>1. SharedTypes'
  BY DEF StartNewPage, TypeOK, SharedTypes, CallTypes, MaybeFrame, Goto,
    MayFetch, pool, index, disk, scratch, caller
<1>2. CallTypes'
  BY DEF StartNewPage, TypeOK, SharedTypes, CallTypes, Labels, WithSlot,
    WithWanted, MaybeFrame, Goto, MayFetch, pool, index, disk, scratch, caller
<1> QED
  BY <1>1, <1>2 DEF TypeOK

\* Taking a frame from the free list keeps the types
LEMMA PopFreeTypes ==
  ASSUME TypeOK, NEW t \in Threads, PopFree(t)
  PROVE  TypeOK'
PROOF
<1>1. SharedTypes'
  BY DEF PopFree, TypeOK, SharedTypes, CallTypes, MaybeFrame, disk, scratch,
    caller
<1>2. CallTypes'
  <2>1. PICK f \in free_list : slot' = [slot EXCEPT ![t] = f]
    BY DEF PopFree
  <2>2. f \in Frames
    BY DEF TypeOK, SharedTypes
  <2> QED
    BY <2>1, <2>2 DEF PopFree, TypeOK, CallTypes, Labels, WithSlot, WithWanted,
      MaybeFrame, scratch, caller
<1> QED
  BY <1>1, <1>2 DEF TypeOK

\* Locking the LRU list keeps the types
LEMMA StartScanTypes ==
  ASSUME TypeOK, NEW t \in Threads, StartScan(t)
  PROVE  TypeOK'
PROOF
<1>1. SharedTypes'
  BY DEF StartScan, TypeOK, SharedTypes, CallTypes, MaybeFrame, Goto, pool,
    index, disk, scratch, caller
<1>2. CallTypes'
  BY DEF StartScan, TypeOK, SharedTypes, CallTypes, Labels, WithSlot,
    WithWanted, MaybeFrame, Goto, pool, index, disk, scratch, caller
<1> QED
  BY <1>1, <1>2 DEF TypeOK

\* Setting a pinned frame aside keeps the types
LEMMA ScanPinnedTypes ==
  ASSUME TypeOK, NEW t \in Threads, ScanPinned(t)
  PROVE  TypeOK'
PROOF
<1>1. SharedTypes'
  BY Types, FrontLast, ConcatFrames, SingleFrame DEF ScanPinned, TypeOK,
    SharedTypes, CallTypes, MaybeFrame, Scanning, disk, call, caller
<1>2. CallTypes'
  BY Types, FrontLast, ConcatFrames, SingleFrame DEF ScanPinned, TypeOK,
    SharedTypes, CallTypes, Labels, WithSlot, WithWanted, MaybeFrame, Scanning,
    disk, call, caller
<1> QED
  BY <1>1, <1>2 DEF TypeOK

\* Dropping an empty frame from the order keeps the types
LEMMA ScanEmptyTypes ==
  ASSUME TypeOK, NEW t \in Threads, ScanEmpty(t)
  PROVE  TypeOK'
PROOF
<1>1. SharedTypes'
  BY FrontLast DEF ScanEmpty, TypeOK, SharedTypes, CallTypes, MaybeFrame,
    Scanning, disk, call, scratch, caller
<1>2. CallTypes'
  BY FrontLast DEF ScanEmpty, TypeOK, SharedTypes, CallTypes, Labels,
    WithSlot, WithWanted, MaybeFrame, Scanning, disk, call, scratch, caller
<1> QED
  BY <1>1, <1>2 DEF TypeOK

\* Choosing a victim keeps the types
LEMMA ScanVictimTypes ==
  ASSUME TypeOK, NEW t \in Threads, ScanVictim(t)
  PROVE  TypeOK'
PROOF
<1>1. SharedTypes'
  BY Types, FrontLast, ConcatFrames, SingleFrame DEF ScanVictim, TypeOK,
    SharedTypes, CallTypes, MaybeFrame, Scanning, disk, caller
<1>2. CallTypes'
  <2>1. Last(lru) \in Frames
    BY FrontLast DEF ScanVictim, Scanning, TypeOK, SharedTypes
  <2>2. <<>> \in Seq(Frames)
    BY EmptySeq
  <2> QED
    BY <2>1, <2>2 DEF ScanVictim, Scanning, TypeOK, CallTypes, Labels, WithSlot,
      WithWanted, MaybeFrame, caller
<1> QED
  BY <1>1, <1>2 DEF TypeOK

\* Giving up with NoFreeFrames keeps the types
LEMMA ScanExhaustedTypes ==
  ASSUME TypeOK, NEW t \in Threads, ScanExhausted(t)
  PROVE  TypeOK'
PROOF
<1>1. SharedTypes'
  BY Types DEF ScanExhausted, TypeOK, SharedTypes, CallTypes, MaybeFrame,
    Return, disk, caller
<1>2. CallTypes'
  BY Types DEF ScanExhausted, TypeOK, SharedTypes, CallTypes, Labels,
    WithSlot, WithWanted, MaybeFrame, Return, disk, caller
<1> QED
  BY <1>1, <1>2 DEF TypeOK

\* Taking over an empty victim keeps the types
LEMMA VictimGoneTypes ==
  ASSUME TypeOK, NEW t \in Threads, VictimGone(t)
  PROVE  TypeOK'
PROOF
<1>1. SharedTypes'
  BY DEF VictimGone, TypeOK, SharedTypes, CallTypes, MaybeFrame, WithSlot,
    Goto, pool, index, disk, scratch, caller
<1>2. CallTypes'
  BY DEF VictimGone, TypeOK, SharedTypes, CallTypes, Labels, WithSlot,
    WithWanted, MaybeFrame, Goto, pool, index, disk, scratch, caller
<1> QED
  BY <1>1, <1>2 DEF TypeOK

\* Writing a dirty victim to the file keeps the types
LEMMA VictimSavedTypes ==
  ASSUME TypeOK, NEW t \in Threads, VictimSaved(t)
  PROVE  TypeOK'
PROOF
<1>1. SharedTypes'
  <2> DEFINE f == slot[t]
             b == [frames[f] EXCEPT !.page = WithChecksum(@)]
             w == WithChecksum(frames[f].page)
  <2>1. f \in Frames
    BY DEF VictimSaved, TypeOK, CallTypes, WithSlot
  <2>2. frames[f] \in BufferFrame
        /\ \/ frames' = frames /\ file' = file
           \/ /\ frames' = [frames EXCEPT ![f] = b]
              /\ file' = [file EXCEPT ![frames[f].page.id.no] = w]
    BY <2>1, Types DEF VictimSaved, Written, TypeOK, SharedTypes
  <2>3. frames[f] \in BufferFrame => /\ b \in BufferFrame
                                     /\ w \in Page
                                     /\ frames[f].page.id.no \in PageNos
    BY Types
  <2> HIDE DEF b, w
  <2>4. frames' \in [Frames -> BufferFrame \cup {None}]
    BY <2>1, <2>2, <2>3 DEF TypeOK, SharedTypes
  <2>5. /\ file' \in [PageNos -> MaybePage]
        /\ \A n \in PageNos : n < file_len => file'[n] \in Page
    BY <2>2, <2>3 DEF TypeOK, SharedTypes, MaybePage
  <2> QED
    BY <2>4, <2>5 DEF VictimSaved, TypeOK, SharedTypes, index, caller
<1>2. CallTypes'
  BY Types DEF VictimSaved, TypeOK, SharedTypes, CallTypes, Labels, WithSlot,
    WithWanted, MaybeFrame, Goto, Written, index, scratch, caller
<1> QED
  BY <1>1, <1>2 DEF TypeOK

\* A victim that cannot be written keeps the types
LEMMA VictimWriteFailsTypes ==
  ASSUME TypeOK, PagesSelfIdentifying, NEW t \in Threads, VictimWriteFails(t)
  PROVE  TypeOK'
PROOF
<1>1. SharedTypes'
  <2> DEFINE f == slot[t]
             b == [frames[f] EXCEPT !.page = WithChecksum(@)]
             page == WithChecksum(frames[f].page)
             n == page.id.no
  <2>1. f \in Frames
    BY DEF VictimWriteFails, TypeOK, CallTypes, WithSlot
  <2>2. /\ frames[f] \in BufferFrame
        /\ frames' = [frames EXCEPT ![f] = b]
        /\ file' \in PartlyWritten(page)
    BY <2>1 DEF VictimWriteFails, Dirty, TypeOK, SharedTypes
  <2>3. /\ b \in BufferFrame /\ page \in Page /\ n \in PageNos
        /\ page.id = frames[f].page.id
    BY <2>2, Types
  <2>4. file[n] \in Page
    BY <2>1, <2>2, <2>3, Types
    DEF TypeOK, SharedTypes, PagesSelfIdentifying, OnFile, Cached
  <2> HIDE DEF b, page
  <2>5. frames' \in [Frames -> BufferFrame \cup {None}]
    BY <2>1, <2>2, <2>3 DEF TypeOK, SharedTypes
  <2>6. \/ file' = file
        \/ \E w \in Page : file' = [file EXCEPT ![n] = w]
    <3>1. ASSUME NEW v \in Int, file' = [file EXCEPT ![n] = [page EXCEPT !.val = v]]
          PROVE  \E w \in Page : file' = [file EXCEPT ![n] = w]
      <4>1. [page EXCEPT !.val = v] \in Page
        BY <2>3, Types
      <4> QED
        BY <3>1, <4>1
    <3> QED
      BY <2>2, <2>3, <2>4, <3>1, PartlyWrittenIs
  <2>7. /\ file' \in [PageNos -> MaybePage]
        /\ \A k \in PageNos : k < file_len => file'[k] \in Page
    BY <2>3, <2>6 DEF TypeOK, SharedTypes, MaybePage
  <2> QED
    BY <2>5, <2>7 DEF VictimWriteFails, TypeOK, SharedTypes, index, caller
<1>2. CallTypes'
  BY Types DEF VictimWriteFails, TypeOK, SharedTypes, CallTypes, Labels,
    WithSlot, WithWanted, MaybeFrame, Return, Dirty, PartlyWritten, index,
    scratch, caller
<1> QED
  BY <1>1, <1>2 DEF TypeOK

\* Emptying a victim keeps the types
LEMMA UnmapTypes ==
  ASSUME TypeOK, NEW t \in Threads, Unmap(t)
  PROVE  TypeOK'
PROOF
<1>1. SharedTypes'
  BY Types DEF Unmap, TypeOK, SharedTypes, CallTypes, MaybeFrame, WithSlot,
    Goto, disk, scratch, caller
<1>2. CallTypes'
  BY Types DEF Unmap, TypeOK, SharedTypes, CallTypes, Labels, WithSlot,
    WithWanted, MaybeFrame, Goto, disk, scratch, caller
<1> QED
  BY <1>1, <1>2 DEF TypeOK

\* Reading a page keeps the types
LEMMA ReadPageTypes ==
  ASSUME TypeOK, NEW t \in Threads, ReadPage(t)
  PROVE  TypeOK'
PROOF
<1>1. SharedTypes'
  BY Types DEF ReadPage, TypeOK, SharedTypes, CallTypes, MaybeFrame, Goto,
    pool, index, disk, caller
<1>2. CallTypes'
  <2>1. file[want[t].no] \in Page
    BY Types DEF ReadPage, TypeOK, SharedTypes, CallTypes
  <2> QED
    BY <2>1 DEF ReadPage, TypeOK, CallTypes, Labels, WithSlot, WithWanted,
      MaybePage, Goto, caller
<1> QED
  BY <1>1, <1>2 DEF TypeOK

\* Allocating a page keeps the types
LEMMA AllocateTypes ==
  ASSUME TypeOK, NEW t \in Threads, Allocate(t)
  PROVE  TypeOK'
PROOF
<1>1. SharedTypes'
  <2>1. /\ file_len \in PageNos /\ file_len + 1 \in 0 .. MaxPages
        /\ file_len \in Nat
    BY ConstantsAssumption DEF Allocate, TypeOK, SharedTypes, PageNos
  <2>2. NewPage(file_len) \in Page
    BY <2>1, Types
  <2>3. file' \in [PageNos -> MaybePage]
    BY <2>2 DEF Allocate, TypeOK, SharedTypes, MaybePage
  <2>4. \A n \in PageNos : n < file_len + 1 => file'[n] \in Page
    <3> SUFFICES ASSUME NEW n \in PageNos, n < file_len + 1
                 PROVE  file'[n] \in Page
      OBVIOUS
    <3>1. n < file_len \/ n = file_len
      BY <2>1 DEF PageNos
    <3> QED
      BY <3>1, <2>1, <2>2 DEF Allocate, TypeOK, SharedTypes
  <2> QED
    BY <2>1, <2>3, <2>4 DEF Allocate, TypeOK, SharedTypes, pool, index, caller
<1>2. CallTypes'
  <2>1. file_len \in PageNos
    BY ConstantsAssumption DEF Allocate, TypeOK, SharedTypes, PageNos
  <2>2. NewPage(file_len) \in Page /\ NewPage(file_len).id \in PageIds
    BY <2>1, Types
  <2> QED
    BY <2>2 DEF Allocate, TypeOK, CallTypes, Labels, WithSlot, WithWanted,
      MaybePage, caller
<1> QED
  BY <1>1, <1>2 DEF TypeOK

\* An error from the file keeps the types
LEMMA LoadFailsTypes ==
  ASSUME TypeOK, NEW t \in Threads, LoadFails(t)
  PROVE  TypeOK'
PROOF
<1>1. SharedTypes'
  BY DEF LoadFails, TypeOK, SharedTypes, CallTypes, MaybeFrame, Return, pool,
    index, disk, scratch, caller
<1>2. CallTypes'
  BY DEF LoadFails, TypeOK, SharedTypes, CallTypes, Labels, WithSlot,
    WithWanted, MaybeFrame, Return, pool, index, disk, scratch, caller
<1> QED
  BY <1>1, <1>2 DEF TypeOK

\* Putting a page into its frame keeps the types
LEMMA InstallTypes ==
  ASSUME TypeOK, NEW t \in Threads, Install(t)
  PROVE  TypeOK'
PROOF
<1>1. SharedTypes'
  BY Types DEF Install, TypeOK, SharedTypes, CallTypes, MaybeFrame, WithSlot,
    Goto, index, disk, caller
<1>2. CallTypes'
  <2>1. /\ pc[t] = "install"
        /\ pc' = [pc EXCEPT ![t] = "publish"]
        /\ loaded' = [loaded EXCEPT ![t] = None]
        /\ UNCHANGED <<want, slot, candidates, todo, guards>>
    BY DEF Install, Goto, caller
  <2> QED
    BY <2>1 DEF TypeOK, CallTypes, Labels, WithSlot, WithWanted, MaybePage
<1> QED
  BY <1>1, <1>2 DEF TypeOK

\* Entering a page into the table keeps the types
LEMMA PublishTypes ==
  ASSUME TypeOK, NEW t \in Threads, Publish(t)
  PROVE  TypeOK'
PROOF
<1>1. SharedTypes'
  BY DEF Publish, TypeOK, SharedTypes, CallTypes, MaybeFrame, WithSlot, Goto,
    disk, scratch, caller
<1>2. CallTypes'
  BY DEF Publish, TypeOK, SharedTypes, CallTypes, Labels, WithSlot,
    WithWanted, MaybeFrame, Goto, disk, scratch, caller
<1> QED
  BY <1>1, <1>2 DEF TypeOK

\* Returning a loaded page keeps the types
LEMMA PublishTouchTypes ==
  ASSUME TypeOK, NEW t \in Threads, PublishTouch(t)
  PROVE  TypeOK'
PROOF
<1>1. SharedTypes'
  <2>1. slot[t] \in Frames /\ lru \in Seq(Frames)
    BY DEF PublishTouch, TypeOK, SharedTypes, CallTypes, WithSlot
  <2>2. lru' \in Seq(Frames)
    BY <2>1, TouchedFrames DEF PublishTouch
  <2> QED
    BY <2>2 DEF PublishTouch, TypeOK, SharedTypes, disk
<1>2. CallTypes'
  <2>1. PICK h \in Handles :
          guards' = [guards EXCEPT ![t][h] = [frame |-> slot[t], id |-> want[t]]]
    BY DEF PublishTouch, ReturnGuard
  <2>2. [frame |-> slot[t], id |-> want[t]] \in PageGuard
    BY Types DEF PublishTouch, TypeOK, CallTypes, WithSlot, WithWanted
  <2>3. guards' \in [Threads -> [Handles -> PageGuard \cup {None}]]
    BY <2>1, <2>2 DEF TypeOK, CallTypes
  <2>4. /\ pc' = [pc EXCEPT ![t] = "idle"]
        /\ want' = [want EXCEPT ![t] = None] /\ slot' = [slot EXCEPT ![t] = None]
        /\ UNCHANGED scratch
    BY DEF PublishTouch, ReturnGuard, Return
  <2> QED
    BY <2>3, <2>4
    DEF TypeOK, CallTypes, Labels, WithSlot, WithWanted, MaybeFrame, scratch
<1> QED
  BY <1>1, <1>2 DEF TypeOK

\* Starting flush_page keeps the types
LEMMA FlushPageTypes ==
  ASSUME TypeOK, NEW t \in Threads, NEW p \in PageIds, FlushPage(t, p)
  PROVE  TypeOK'
PROOF
<1>1. SharedTypes'
  BY DEF FlushPage, TypeOK, SharedTypes, CallTypes, MaybeFrame, Goto,
    StartFlush, pool, index, disk, caller
<1>2. CallTypes'
  BY DEF FlushPage, TypeOK, SharedTypes, CallTypes, Labels, WithSlot,
    WithWanted, MaybeFrame, Goto, StartFlush, pool, index, disk, caller
<1> QED
  BY <1>1, <1>2 DEF TypeOK

\* Starting flush_all keeps the types
LEMMA FlushAllTypes ==
  ASSUME TypeOK, NEW t \in Threads, FlushAll(t)
  PROVE  TypeOK'
PROOF
<1>1. SharedTypes'
  BY DEF FlushAll, TypeOK, SharedTypes, CallTypes, MaybeFrame, Goto,
    StartFlush, pool, index, disk, caller
<1>2. CallTypes'
  BY DEF FlushAll, TypeOK, SharedTypes, CallTypes, Labels, WithSlot,
    WithWanted, MaybeFrame, Goto, StartFlush, pool, index, disk, caller
<1> QED
  BY <1>1, <1>2 DEF TypeOK

\* Going on to the next page to flush keeps the types
LEMMA FlushNextTypes ==
  ASSUME TypeOK, NEW t \in Threads, FlushNext(t)
  PROVE  TypeOK'
PROOF
<1>1. SharedTypes'
  BY Types DEF FlushNext, TypeOK, SharedTypes, CallTypes, MaybeFrame,
    AfterFlush, pool, index, disk, caller
<1>2. CallTypes'
  <2>1. PICK p \in todo[t] :
          LET rest == todo[t] \ {p}
              hit  == page_table[p] # None
          IN /\ todo' = [todo EXCEPT ![t] = rest]
             /\ slot' = [slot EXCEPT ![t] = page_table[p]]
             /\ pc'   = [pc EXCEPT ![t] = IF hit THEN "flush" ELSE AfterFlush(rest)]
    BY DEF FlushNext
  <2>2. p \in PageIds /\ page_table[p] \in MaybeFrame
    BY DEF TypeOK, SharedTypes, CallTypes
  <2>3. \E l \in {"flush", "idle", "flush_next"} :
          /\ pc' = [pc EXCEPT ![t] = l]
          /\ l = "flush" => page_table[p] \in Frames
    BY <2>1, <2>2 DEF AfterFlush, MaybeFrame
  <2>4. todo' \in [Threads -> SUBSET PageIds]
    BY <2>1 DEF TypeOK, CallTypes
  <2>5. slot' = [slot EXCEPT ![t] = page_table[p]]
        /\ UNCHANGED <<want, loaded, candidates, guards>>
    BY <2>1 DEF FlushNext, caller
  <2> QED
    BY <2>2, <2>3, <2>4, <2>5
    DEF TypeOK, CallTypes, Labels, WithSlot, WithWanted, MaybeFrame
<1> QED
  BY <1>1, <1>2 DEF TypeOK

\* Passing over a clean frame keeps the types
LEMMA FlushCleanTypes ==
  ASSUME TypeOK, NEW t \in Threads, FlushClean(t)
  PROVE  TypeOK'
PROOF
<1>1. SharedTypes'
  BY DEF FlushClean, TypeOK, SharedTypes, CallTypes, MaybeFrame, WithSlot,
    AfterFlush, Dirty, pool, index, disk, scratch, caller
<1>2. CallTypes'
  BY DEF FlushClean, TypeOK, SharedTypes, CallTypes, Labels, WithSlot,
    WithWanted, MaybeFrame, AfterFlush, Dirty, pool, index, disk, scratch,
    caller
<1> QED
  BY <1>1, <1>2 DEF TypeOK

\* Flushing a dirty frame keeps the types
LEMMA FlushWriteTypes ==
  ASSUME TypeOK, NEW t \in Threads, FlushWrite(t)
  PROVE  TypeOK'
PROOF
<1>1. SharedTypes'
  <2> DEFINE f == slot[t]
             b == [frames[f] EXCEPT !.page = WithChecksum(@), !.dirty = FALSE]
             w == WithChecksum(frames[f].page)
  <2>1. f \in Frames
    BY DEF FlushWrite, TypeOK, CallTypes, WithSlot
  <2>2. /\ frames[f] \in BufferFrame
        /\ frames' = [frames EXCEPT ![f] = b]
        /\ file' = [file EXCEPT ![frames[f].page.id.no] = w]
    BY <2>1, Types DEF FlushWrite, Dirty, Written, TypeOK, SharedTypes
  <2>3. frames[f] \in BufferFrame => /\ b \in BufferFrame
                                     /\ w \in Page
                                     /\ frames[f].page.id.no \in PageNos
    BY Types
  <2> HIDE DEF b, w
  <2>4. frames' \in [Frames -> BufferFrame \cup {None}]
    BY <2>1, <2>2, <2>3 DEF TypeOK, SharedTypes
  <2>5. /\ file' \in [PageNos -> MaybePage]
        /\ \A n \in PageNos : n < file_len => file'[n] \in Page
    BY <2>2, <2>3 DEF TypeOK, SharedTypes, MaybePage
  <2> QED
    BY <2>4, <2>5 DEF FlushWrite, TypeOK, SharedTypes, index, caller
<1>2. CallTypes'
  BY Types DEF FlushWrite, TypeOK, SharedTypes, CallTypes, Labels, WithSlot,
    WithWanted, MaybeFrame, AfterFlush, Dirty, Written, index, scratch, caller
<1> QED
  BY <1>1, <1>2 DEF TypeOK

\* A frame that cannot be flushed keeps the types
LEMMA FlushFailsTypes ==
  ASSUME TypeOK, PagesSelfIdentifying, NEW t \in Threads, FlushFails(t)
  PROVE  TypeOK'
PROOF
<1>1. SharedTypes'
  <2> DEFINE f == slot[t]
             b == [frames[f] EXCEPT !.page = WithChecksum(@)]
             page == WithChecksum(frames[f].page)
             n == page.id.no
  <2>1. f \in Frames
    BY DEF FlushFails, TypeOK, CallTypes, WithSlot
  <2>2. /\ frames[f] \in BufferFrame
        /\ frames' = [frames EXCEPT ![f] = b]
        /\ file' \in PartlyWritten(page)
    BY <2>1 DEF FlushFails, Dirty, TypeOK, SharedTypes
  <2>3. /\ b \in BufferFrame /\ page \in Page /\ n \in PageNos
        /\ page.id = frames[f].page.id
    BY <2>2, Types
  <2>4. file[n] \in Page
    BY <2>1, <2>2, <2>3, Types
    DEF TypeOK, SharedTypes, PagesSelfIdentifying, OnFile, Cached
  <2> HIDE DEF b, page
  <2>5. frames' \in [Frames -> BufferFrame \cup {None}]
    BY <2>1, <2>2, <2>3 DEF TypeOK, SharedTypes
  <2>6. \/ file' = file
        \/ \E w \in Page : file' = [file EXCEPT ![n] = w]
    <3>1. ASSUME NEW v \in Int, file' = [file EXCEPT ![n] = [page EXCEPT !.val = v]]
          PROVE  \E w \in Page : file' = [file EXCEPT ![n] = w]
      <4>1. [page EXCEPT !.val = v] \in Page
        BY <2>3, Types
      <4> QED
        BY <3>1, <4>1
    <3> QED
      BY <2>2, <2>3, <2>4, <3>1, PartlyWrittenIs
  <2>7. /\ file' \in [PageNos -> MaybePage]
        /\ \A k \in PageNos : k < file_len => file'[k] \in Page
    BY <2>3, <2>6 DEF TypeOK, SharedTypes, MaybePage
  <2> QED
    BY <2>5, <2>7 DEF FlushFails, TypeOK, SharedTypes, index, caller
<1>2. CallTypes'
  BY Types DEF FlushFails, TypeOK, SharedTypes, CallTypes, Labels, WithSlot,
    WithWanted, MaybeFrame, Return, Dirty, PartlyWritten, index, caller
<1> QED
  BY <1>1, <1>2 DEF TypeOK

\* Writing through a guard keeps the types
LEMMA WriteGuardTypes ==
  ASSUME TypeOK, NEW t \in Threads, NEW h \in Handles, WriteGuard(t, h)
  PROVE  TypeOK'
PROOF
<1>1. SharedTypes'
  <2> DEFINE g == guards[t][h]
             n == g.id.no
             b == [frames[g.frame] EXCEPT !.page.val = Newer(latest[n]), !.dirty = TRUE]
  <2>1. g \in PageGuard
    BY DEF WriteGuard, TypeOK, CallTypes
  <2>2. g.frame \in Frames /\ n \in PageNos
    BY <2>1, Types
  <2>3. frames[g.frame] \in BufferFrame /\ Newer(latest[n]) \in Int
    BY <2>2, VersionTypes DEF WriteGuard, TypeOK, SharedTypes
  <2>4. b \in BufferFrame
    BY <2>3, Types
  <2>5. frames' = [frames EXCEPT ![g.frame] = b] /\ latest' = [latest EXCEPT ![n] = Newer(latest[n])]
    BY DEF WriteGuard
  <2> HIDE DEF b, g, n
  <2>6. frames' \in [Frames -> BufferFrame \cup {None}]
    BY <2>2, <2>4, <2>5 DEF TypeOK, SharedTypes
  <2>7. latest' \in [PageNos -> Int]
    BY <2>2, <2>3, <2>5 DEF TypeOK, SharedTypes
  <2> QED
    BY <2>6, <2>7 DEF WriteGuard, TypeOK, SharedTypes, index, disk
<1>2. CallTypes'
  BY Types DEF WriteGuard, TypeOK, SharedTypes, CallTypes, Labels, WithSlot,
    WithWanted, MaybeFrame, index, disk, call, scratch
<1> QED
  BY <1>1, <1>2 DEF TypeOK

\* A guard on an empty frame keeps the types
LEMMA UseOfEmptyFrameTypes ==
  ASSUME TypeOK, NEW t \in Threads, NEW h \in Handles, UseOfEmptyFrame(t, h)
  PROVE  TypeOK'
PROOF
<1>1. SharedTypes'
  BY Types DEF UseOfEmptyFrame, TypeOK, SharedTypes, CallTypes, MaybeFrame,
    Panic, pool, index, disk, scratch, caller
<1>2. CallTypes'
  BY Types DEF UseOfEmptyFrame, TypeOK, SharedTypes, CallTypes, Labels,
    WithSlot, WithWanted, MaybeFrame, Panic, pool, index, disk, scratch, caller
<1> QED
  BY <1>1, <1>2 DEF TypeOK

\* Dropping a guard (or panicking) keeps the types
LEMMA DropGuardTypes ==
  ASSUME TypeOK, NEW t \in Threads, NEW h \in Handles, DropGuard(t, h)
  PROVE  TypeOK'
PROOF
<1>1. SharedTypes'
  <2> DEFINE f == guards[t][h].frame
             b == [frames[f] EXCEPT !.pin = Decremented(@)]
  <2>1. guards[t][h] \in PageGuard
    BY DEF DropGuard, TypeOK, CallTypes
  <2>2. f \in Frames
    BY <2>1, Types
  <2>3. \/ frames' = frames
        \/ frames[f] \in BufferFrame /\ frames' = [frames EXCEPT ![f] = b]
    BY <2>2 DEF DropGuard, TypeOK, SharedTypes
  <2>4. frames[f] \in BufferFrame => b \in BufferFrame
    BY Types
  <2> HIDE DEF b, f
  <2>5. frames' \in [Frames -> BufferFrame \cup {None}]
    BY <2>2, <2>3, <2>4 DEF TypeOK, SharedTypes
  <2> QED
    BY <2>5 DEF DropGuard, TypeOK, SharedTypes, index, disk
<1>2. CallTypes'
  <2>1. \/ pc' = [pc EXCEPT ![t] = "panicked"] /\ guards' = guards
        \/ pc' = pc /\ guards' = [guards EXCEPT ![t][h] = None]
    BY DEF DropGuard, Panic, call
  <2>2. UNCHANGED <<want, slot, scratch>>
    BY DEF DropGuard, Panic, call
  <2> DEFINE GuardTable == [Handles -> PageGuard \cup {None}]
  <2>3. guards' \in [Threads -> [Handles -> PageGuard \cup {None}]]
    <3>1. guards \in [Threads -> GuardTable]
      BY DEF TypeOK, CallTypes
    <3>2. [guards[t] EXCEPT ![h] = None] \in GuardTable
      BY <3>1
    <3>3. guards' = guards \/ guards' = [guards EXCEPT ![t] = [guards[t] EXCEPT ![h] = None]]
      BY <2>1
    <3> QED
      BY <3>1, <3>2, <3>3
  <2> QED
    BY <2>1, <2>2, <2>3 DEF TypeOK, CallTypes, Labels, WithSlot, WithWanted, scratch
<1> QED
  BY <1>1, <1>2 DEF TypeOK

-----------------------------------------------------------------------------
(***************************************************************************)
(* Pages keep their numbers.                                               *)
(***************************************************************************)

\* Types and page numbers depend on each other (see IInvHolds)
IInv == TypeOK /\ PagesSelfIdentifying

\* A step that leaves the file's pages, and every page in memory, their ids
LEMMA SameIds ==
  ASSUME IInv,
         \A n \in PageNos : n < file_len => file'[n].id = file[n].id,
         file_len' = file_len,
         \A f \in Frames : frames'[f] # None =>
           frames[f] # None /\ frames'[f].page.id = frames[f].page.id,
         loaded' = loaded
  PROVE  PagesSelfIdentifying'
PROOF
<1>1. \A n \in PageNos : n < file_len' => file'[n].id = FileId(n)
  BY DEF IInv, PagesSelfIdentifying
<1>2. \A f \in Frames : (frames[f] # None => OnFile(frames[f].page.id))'
  BY DEF IInv, PagesSelfIdentifying, OnFile, Cached
<1>3. \A t \in Threads : (loaded[t] # None => OnFile(loaded[t].id))'
  BY DEF IInv, PagesSelfIdentifying, OnFile
<1> QED
  BY <1>1, <1>2, <1>3 DEF PagesSelfIdentifying, Cached, FileId

\* The page of frame f is written: its header goes where a page has that id
LEMMA WriteKeepsIds ==
  ASSUME IInv, NEW f \in Frames, frames[f] # None, NEW page \in Page,
         page.id = frames[f].page.id,
         \/ file' = file
         \/ file' = Written(page)
         \/ file' \in PartlyWritten(page)
  PROVE  \A n \in PageNos : n < file_len => file'[n].id = file[n].id
PROOF
<1>1. /\ page.id.no \in PageNos /\ page.id.no < file_len
      /\ page.id = FileId(page.id.no)
  BY Types DEF IInv, PagesSelfIdentifying, OnFile, Cached, PageIds, FileId
<1>2. file[page.id.no].id = page.id
  BY <1>1 DEF IInv, PagesSelfIdentifying
<1>3. file[page.id.no] \in Page
  BY <1>1 DEF IInv, TypeOK, SharedTypes
<1>4. file' = file \/ \E w : w.id = page.id /\ file' = [file EXCEPT ![page.id.no] = w]
  <2>1. ASSUME NEW v \in Int, file' = [file EXCEPT ![page.id.no] = [page EXCEPT !.val = v]]
        PROVE  \E w : w.id = page.id /\ file' = [file EXCEPT ![page.id.no] = w]
    <3>1. [page EXCEPT !.val = v].id = page.id
      BY DEF Page
    <3> QED
      BY <2>1, <3>1
  <2>2. CASE file' = Written(page)
    BY <2>2 DEF Written
  <2> QED
    BY <1>3, <2>1, <2>2, PartlyWrittenIs
<1> QED
  BY <1>1, <1>2, <1>4 DEF IInv, TypeOK, SharedTypes

\* Pinning a cached frame (or panicking) keeps the pages' numbers
LEMMA HitPinIds ==
  ASSUME IInv, NEW t \in Threads, HitPin(t)
  PROVE  PagesSelfIdentifying'
PROOF
<1> DEFINE f == slot[t]
           b == [frames[f] EXCEPT !.pin = Incremented(@)]
<1>1. f \in Frames
  BY DEF HitPin, IInv, TypeOK, CallTypes, WithSlot
<1>2. \/ frames' = frames
      \/ frames[f] \in BufferFrame /\ frames' = [frames EXCEPT ![f] = b]
  BY <1>1 DEF HitPin, IInv, TypeOK, SharedTypes
<1>3. /\ frames[f] \in BufferFrame => b.page = frames[f].page
      /\ frames[f] \in BufferFrame => frames[f] # None
  <2>1. frames[f] \in BufferFrame => b.page = frames[f].page
    BY DEF BufferFrame
  <2>2. frames[f] \in BufferFrame => frames[f] # None
    BY Types
  <2> QED
    BY <2>1, <2>2
<1> HIDE DEF b
<1>4. \A k \in Frames : frames'[k] # None =>
        frames[k] # None /\ frames'[k].page.id = frames[k].page.id
  BY <1>1, <1>2, <1>3 DEF IInv, TypeOK, SharedTypes
<1> QED
  BY <1>4, SameIds DEF HitPin, disk, scratch

\* Writing a dirty victim to the file keeps the pages' numbers
LEMMA VictimSavedIds ==
  ASSUME IInv, NEW t \in Threads, VictimSaved(t)
  PROVE  PagesSelfIdentifying'
PROOF
<1> DEFINE f == slot[t]
           page == WithChecksum(frames[f].page)
           b == [frames[f] EXCEPT !.page = WithChecksum(@)]
<1>1. f \in Frames /\ frames[f] # None
  BY DEF VictimSaved, Dirty, IInv, TypeOK, CallTypes, WithSlot
<1>2. frames[f] \in BufferFrame
  BY <1>1 DEF IInv, TypeOK, SharedTypes
<1>3. page \in Page /\ page.id = frames[f].page.id
  BY <1>2, Types
<1>4. b.page = page
  BY <1>2 DEF BufferFrame
<1>5. frames' = frames \/ frames' = [frames EXCEPT ![f] = b]
  BY <1>1, <1>2 DEF VictimSaved, IInv, TypeOK, SharedTypes
<1>6. file' = file \/ file' = Written(page)
  BY DEF VictimSaved
<1> HIDE DEF b, page
<1>7. \A n \in PageNos : n < file_len => file'[n].id = file[n].id
  BY <1>1, <1>3, <1>6, WriteKeepsIds
<1>8. \A k \in Frames : frames'[k] # None =>
        frames[k] # None /\ frames'[k].page.id = frames[k].page.id
  BY <1>1, <1>3, <1>4, <1>5 DEF IInv, TypeOK, SharedTypes
<1> QED
  BY <1>7, <1>8, SameIds DEF VictimSaved, scratch

\* A victim that cannot be written keeps the pages' numbers
LEMMA VictimWriteFailsIds ==
  ASSUME IInv, NEW t \in Threads, VictimWriteFails(t)
  PROVE  PagesSelfIdentifying'
PROOF
<1> DEFINE f == slot[t]
           page == WithChecksum(frames[f].page)
           b == [frames[f] EXCEPT !.page = WithChecksum(@)]
<1>1. f \in Frames /\ frames[f] # None
  BY DEF VictimWriteFails, Dirty, IInv, TypeOK, CallTypes, WithSlot
<1>2. frames[f] \in BufferFrame
  BY <1>1 DEF IInv, TypeOK, SharedTypes
<1>3. page \in Page /\ page.id = frames[f].page.id
  BY <1>2, Types
<1>4. b.page = page
  BY <1>2 DEF BufferFrame
<1>5. frames' = frames \/ frames' = [frames EXCEPT ![f] = b]
  BY <1>1, <1>2 DEF VictimWriteFails, IInv, TypeOK, SharedTypes
<1>6. file' \in PartlyWritten(page)
  BY DEF VictimWriteFails
<1> HIDE DEF b, page
<1>7. \A n \in PageNos : n < file_len => file'[n].id = file[n].id
  BY <1>1, <1>3, <1>6, WriteKeepsIds
<1>8. \A k \in Frames : frames'[k] # None =>
        frames[k] # None /\ frames'[k].page.id = frames[k].page.id
  BY <1>1, <1>3, <1>4, <1>5 DEF IInv, TypeOK, SharedTypes
<1> QED
  BY <1>7, <1>8, SameIds DEF VictimWriteFails, scratch

\* Emptying a victim keeps the pages' numbers
LEMMA UnmapIds ==
  ASSUME IInv, NEW t \in Threads, Unmap(t)
  PROVE  PagesSelfIdentifying'
PROOF
<1>1. slot[t] \in Frames
  BY DEF Unmap, IInv, TypeOK, CallTypes, WithSlot
<1>2. \A k \in Frames : frames'[k] # None =>
        frames[k] # None /\ frames'[k].page.id = frames[k].page.id
  BY <1>1 DEF Unmap, IInv, TypeOK, SharedTypes
<1> QED
  BY <1>2, SameIds DEF Unmap, disk, scratch

\* Reading a page keeps the pages' numbers
LEMMA ReadPageIds ==
  ASSUME IInv, NEW t \in Threads, ReadPage(t)
  PROVE  PagesSelfIdentifying'
PROOF
<1>1. want[t].no \in PageNos /\ want[t].no < file_len
  BY Types DEF ReadPage, IInv, TypeOK, CallTypes
<1>2. OnFile(file[want[t].no].id)
  <2>1. file[want[t].no].id = FileId(want[t].no)
    BY <1>1 DEF IInv, PagesSelfIdentifying
  <2>2. OnFile(FileId(want[t].no))
    BY <1>1 DEF OnFile, FileId
  <2> QED
    BY <2>1, <2>2
<1> QED
  BY <1>2 DEF ReadPage, IInv, TypeOK, CallTypes, PagesSelfIdentifying, OnFile, Cached, FileId,
    pool, disk

\* Allocating a page keeps the pages' numbers
LEMMA AllocateIds ==
  ASSUME IInv, NEW t \in Threads, Allocate(t)
  PROVE  PagesSelfIdentifying'
PROOF
<1>1. /\ file_len \in PageNos /\ file_len \in Nat
      /\ file' = [file EXCEPT ![file_len] = NewPage(file_len)]
      /\ file_len' = file_len + 1
      /\ loaded' = [loaded EXCEPT ![t] = NewPage(file_len)]
      /\ frames' = frames
  BY ConstantsAssumption DEF Allocate, IInv, TypeOK, SharedTypes, PageNos, pool
<1>2. NewPage(file_len).id = FileId(file_len)
  BY DEF NewPage, FileId
<1>3. ASSUME NEW n \in PageNos, n < file_len'
      PROVE  file'[n].id = FileId(n)
  <2>1. n < file_len \/ n = file_len
    BY <1>1, <1>3 DEF PageNos
  <2> QED
    BY <1>1, <1>2, <2>1 DEF IInv, TypeOK, SharedTypes, PagesSelfIdentifying
<1>4. \A id \in PageIds : OnFile(id) => id.space = FileSpace /\ id.no < file_len'
  BY <1>1 DEF OnFile, PageIds, PageNos
<1>5. \A f \in Frames : (frames[f] # None => OnFile(Cached(f).id))'
  <2> SUFFICES ASSUME NEW f \in Frames, frames[f] # None
               PROVE  OnFile(frames[f].page.id)'
    BY <1>1 DEF Cached
  <2>1. frames[f].page.id \in PageIds /\ OnFile(frames[f].page.id)
    BY Types DEF IInv, TypeOK, SharedTypes, PagesSelfIdentifying, Cached
  <2> QED
    BY <1>1, <1>4, <2>1 DEF OnFile
<1>6. \A u \in Threads : (loaded[u] # None => OnFile(loaded[u].id))'
  <2> SUFFICES ASSUME NEW u \in Threads, loaded'[u] # None
               PROVE  loaded'[u].id.space = FileSpace /\ loaded'[u].id.no < file_len'
    BY DEF OnFile
  <2>1. CASE u = t
    BY <1>1, <1>2, <2>1 DEF IInv, TypeOK, CallTypes, FileId
  <2>2. CASE u # t
    <3>1. loaded'[u] = loaded[u]
      BY <1>1, <2>2 DEF IInv, TypeOK, CallTypes
    <3>2. loaded[u].id \in PageIds /\ OnFile(loaded[u].id)
      BY <3>1, Types DEF IInv, TypeOK, CallTypes, MaybePage, PagesSelfIdentifying
    <3> QED
      BY <1>4, <3>1, <3>2
  <2> QED
    BY <2>1, <2>2
<1> QED
  BY <1>3, <1>5, <1>6 DEF PagesSelfIdentifying, FileId

\* Putting a page into its frame keeps the pages' numbers
LEMMA InstallIds ==
  ASSUME IInv, NEW t \in Threads, Install(t)
  PROVE  PagesSelfIdentifying'
PROOF
<1> DEFINE b == [page |-> loaded[t], dirty |-> FALSE, pin |-> 1]
<1>1. slot[t] \in Frames /\ loaded[t] \in Page
  BY DEF Install, IInv, TypeOK, CallTypes, WithSlot
<1>2. OnFile(loaded[t].id) /\ b.page = loaded[t]
  BY <1>1, Types DEF IInv, PagesSelfIdentifying
<1>3. frames' = [frames EXCEPT ![slot[t]] = b] /\ loaded' = [loaded EXCEPT ![t] = None]
  BY DEF Install
<1> HIDE DEF b
<1>4. UNCHANGED <<file, file_len>>
  BY DEF Install, disk
<1>5. \A k \in Frames : frames'[k] # None => OnFile(frames'[k].page.id)
  BY <1>1, <1>2, <1>3 DEF IInv, TypeOK, SharedTypes, PagesSelfIdentifying, Cached
<1>6. \A u \in Threads : loaded'[u] # None => OnFile(loaded'[u].id)
  BY <1>3 DEF IInv, TypeOK, CallTypes, PagesSelfIdentifying
<1> QED
  BY <1>4, <1>5, <1>6 DEF IInv, PagesSelfIdentifying, OnFile, Cached, FileId

\* Flushing a dirty frame keeps the pages' numbers
LEMMA FlushWriteIds ==
  ASSUME IInv, NEW t \in Threads, FlushWrite(t)
  PROVE  PagesSelfIdentifying'
PROOF
<1> DEFINE f == slot[t]
           page == WithChecksum(frames[f].page)
           b == [frames[f] EXCEPT !.page = WithChecksum(@), !.dirty = FALSE]
<1>1. f \in Frames /\ frames[f] # None
  BY DEF FlushWrite, Dirty, IInv, TypeOK, CallTypes, WithSlot
<1>2. frames[f] \in BufferFrame
  BY <1>1 DEF IInv, TypeOK, SharedTypes
<1>3. page \in Page /\ page.id = frames[f].page.id
  BY <1>2, Types
<1>4. b.page = page
  BY <1>2 DEF BufferFrame
<1>5. frames' = frames \/ frames' = [frames EXCEPT ![f] = b]
  BY <1>1, <1>2 DEF FlushWrite, IInv, TypeOK, SharedTypes
<1>6. file' = file \/ file' = Written(page)
  BY DEF FlushWrite
<1> HIDE DEF b, page
<1>7. \A n \in PageNos : n < file_len => file'[n].id = file[n].id
  BY <1>1, <1>3, <1>6, WriteKeepsIds
<1>8. \A k \in Frames : frames'[k] # None =>
        frames[k] # None /\ frames'[k].page.id = frames[k].page.id
  BY <1>1, <1>3, <1>4, <1>5 DEF IInv, TypeOK, SharedTypes
<1> QED
  BY <1>7, <1>8, SameIds DEF FlushWrite, scratch

\* A frame that cannot be flushed keeps the pages' numbers
LEMMA FlushFailsIds ==
  ASSUME IInv, NEW t \in Threads, FlushFails(t)
  PROVE  PagesSelfIdentifying'
PROOF
<1> DEFINE f == slot[t]
           page == WithChecksum(frames[f].page)
           b == [frames[f] EXCEPT !.page = WithChecksum(@)]
<1>1. f \in Frames /\ frames[f] # None
  BY DEF FlushFails, Dirty, IInv, TypeOK, CallTypes, WithSlot
<1>2. frames[f] \in BufferFrame
  BY <1>1 DEF IInv, TypeOK, SharedTypes
<1>3. page \in Page /\ page.id = frames[f].page.id
  BY <1>2, Types
<1>4. b.page = page
  BY <1>2 DEF BufferFrame
<1>5. frames' = frames \/ frames' = [frames EXCEPT ![f] = b]
  BY <1>1, <1>2 DEF FlushFails, IInv, TypeOK, SharedTypes
<1>6. file' \in PartlyWritten(page)
  BY DEF FlushFails
<1> HIDE DEF b, page
<1>7. \A n \in PageNos : n < file_len => file'[n].id = file[n].id
  BY <1>1, <1>3, <1>6, WriteKeepsIds
<1>8. \A k \in Frames : frames'[k] # None =>
        frames[k] # None /\ frames'[k].page.id = frames[k].page.id
  BY <1>1, <1>3, <1>4, <1>5 DEF IInv, TypeOK, SharedTypes
<1> QED
  BY <1>7, <1>8, SameIds DEF FlushFails, scratch

\* Writing through a guard keeps the pages' numbers
LEMMA WriteGuardIds ==
  ASSUME IInv, NEW t \in Threads, NEW h \in Handles, WriteGuard(t, h)
  PROVE  PagesSelfIdentifying'
PROOF
<1> DEFINE f == guards[t][h].frame
           v == Newer(latest[guards[t][h].id.no])
           b == [frames[f] EXCEPT !.page.val = v, !.dirty = TRUE]
<1>1. f \in Frames
  <2>1. guards[t][h] \in PageGuard
    BY DEF WriteGuard, IInv, TypeOK, CallTypes
  <2> QED
    BY <2>1, Types
<1>2. frames[f] \in BufferFrame /\ frames' = [frames EXCEPT ![f] = b]
  BY <1>1 DEF WriteGuard, IInv, TypeOK, SharedTypes
<1>3. b.page.id = frames[f].page.id /\ frames[f] # None
  <2>1. frames[f] # None /\ frames[f].page \in Page
    BY <1>2, Types
  <2>2. b.page = [frames[f].page EXCEPT !.val = v]
    BY <1>2 DEF BufferFrame
  <2>3. [frames[f].page EXCEPT !.val = v].id = frames[f].page.id
    BY <2>1 DEF Page
  <2> QED
    BY <2>1, <2>2, <2>3
<1> HIDE DEF b, f
<1>4. \A k \in Frames : frames'[k] # None =>
        frames[k] # None /\ frames'[k].page.id = frames[k].page.id
  BY <1>1, <1>2, <1>3 DEF IInv, TypeOK, SharedTypes
<1> QED
  BY <1>4, SameIds DEF WriteGuard, disk, scratch

\* Dropping a guard (or panicking) keeps the pages' numbers
LEMMA DropGuardIds ==
  ASSUME IInv, NEW t \in Threads, NEW h \in Handles, DropGuard(t, h)
  PROVE  PagesSelfIdentifying'
PROOF
<1> DEFINE f == guards[t][h].frame
           b == [frames[f] EXCEPT !.pin = Decremented(@)]
<1>1. f \in Frames
  <2>1. guards[t][h] \in PageGuard
    BY DEF DropGuard, IInv, TypeOK, CallTypes
  <2> QED
    BY <2>1, Types
<1>2. \/ frames' = frames
      \/ frames[f] \in BufferFrame /\ frames' = [frames EXCEPT ![f] = b]
  BY <1>1 DEF DropGuard, IInv, TypeOK, SharedTypes
<1>3. /\ frames[f] \in BufferFrame => b.page = frames[f].page
      /\ frames[f] \in BufferFrame => frames[f] # None
  <2>1. frames[f] \in BufferFrame => b.page = frames[f].page
    BY DEF BufferFrame
  <2>2. frames[f] \in BufferFrame => frames[f] # None
    BY Types
  <2> QED
    BY <2>1, <2>2
<1> HIDE DEF b, f
<1>4. \A k \in Frames : frames'[k] # None =>
        frames[k] # None /\ frames'[k].page.id = frames[k].page.id
  BY <1>1, <1>2, <1>3 DEF IInv, TypeOK, SharedTypes
<1> QED
  BY <1>4, SameIds DEF DropGuard, disk, scratch

\* The other steps of a thread leave the pages alone
LEMMA OtherIds ==
  ASSUME IInv, UNCHANGED <<frames, file, file_len, loaded>>
  PROVE  PagesSelfIdentifying'
PROOF
BY SameIds

\* Every step of get_free_frame keeps the invariant
LEMMA FindFrameStep ==
  ASSUME IInv, NEW t \in Threads, FindFrame(t)
  PROVE  IInv'
PROOF
<1>1. CASE PopFree(t)
  BY <1>1, PopFreeTypes, OtherIds DEF IInv, PopFree, disk, scratch, caller
<1>2. CASE StartScan(t)
  BY <1>2, StartScanTypes, OtherIds DEF IInv, StartScan, pool, disk, scratch, caller
<1>3. CASE ScanPinned(t)
  BY <1>3, ScanPinnedTypes, OtherIds DEF IInv, ScanPinned, disk, call, caller
<1>4. CASE ScanEmpty(t)
  BY <1>4, ScanEmptyTypes, OtherIds DEF IInv, ScanEmpty, disk, call, scratch, caller
<1>5. CASE ScanVictim(t)
  BY <1>5, ScanVictimTypes, OtherIds DEF IInv, ScanVictim, disk, caller
<1>6. CASE ScanExhausted(t)
  BY <1>6, ScanExhaustedTypes, OtherIds DEF IInv, ScanExhausted, disk, caller
<1>7. CASE VictimGone(t)
  BY <1>7, VictimGoneTypes, OtherIds DEF IInv, VictimGone, pool, disk, scratch, caller
<1>8. CASE VictimSaved(t)
  BY <1>8, VictimSavedTypes, VictimSavedIds DEF IInv
<1>9. CASE VictimWriteFails(t)
  BY <1>9, VictimWriteFailsTypes, VictimWriteFailsIds DEF IInv
<1>10. CASE Unmap(t)
  BY <1>10, UnmapTypes, UnmapIds DEF IInv
<1> QED
  BY <1>1, <1>2, <1>3, <1>4, <1>5, <1>6, <1>7, <1>8, <1>9, <1>10 DEF FindFrame

\* Every step of a call under way keeps the invariant
LEMMA ContinueStep ==
  ASSUME IInv, NEW t \in Threads, Continue(t)
  PROVE  IInv'
PROOF
<1>1. CASE HitPin(t)
  BY <1>1, HitPinTypes, HitPinIds DEF IInv
<1>2. CASE HitTouch(t)
  BY <1>2, HitTouchTypes, OtherIds DEF IInv, HitTouch, disk, scratch
<1>3. CASE FindFrame(t)
  BY <1>3, FindFrameStep
<1>4. CASE ReadPage(t)
  BY <1>4, ReadPageTypes, ReadPageIds DEF IInv
<1>5. CASE Allocate(t)
  BY <1>5, AllocateTypes, AllocateIds DEF IInv
<1>6. CASE LoadFails(t)
  BY <1>6, LoadFailsTypes, OtherIds DEF IInv, LoadFails, pool, disk, scratch, caller
<1>7. CASE Install(t)
  BY <1>7, InstallTypes, InstallIds DEF IInv
<1>8. CASE Publish(t)
  BY <1>8, PublishTypes, OtherIds DEF IInv, Publish, disk, scratch, caller
<1>9. CASE PublishTouch(t)
  BY <1>9, PublishTouchTypes, OtherIds DEF IInv, PublishTouch, disk, scratch
<1>10. CASE FlushNext(t)
  BY <1>10, FlushNextTypes, OtherIds DEF IInv, FlushNext, pool, disk, caller
<1>11. CASE FlushClean(t)
  BY <1>11, FlushCleanTypes, OtherIds DEF IInv, FlushClean, pool, disk, scratch, caller
<1>12. CASE FlushWrite(t)
  BY <1>12, FlushWriteTypes, FlushWriteIds DEF IInv
<1>13. CASE FlushFails(t)
  BY <1>13, FlushFailsTypes, FlushFailsIds DEF IInv
<1> QED
  BY <1>1, <1>2, <1>3, <1>4, <1>5, <1>6, <1>7, <1>8, <1>9, <1>10, <1>11, <1>12, <1>13 DEF Continue

\* Every step between two calls keeps the invariant
LEMMA BeginStep ==
  ASSUME IInv, NEW t \in Threads, Begin(t)
  PROVE  IInv'
PROOF
<1>1. ASSUME NEW p \in PageIds, FetchHit(t, p)
      PROVE  IInv'
  BY <1>1, FetchHitTypes, OtherIds DEF IInv, FetchHit, pool, disk, scratch, caller
<1>2. ASSUME NEW p \in PageIds, FetchMiss(t, p)
      PROVE  IInv'
  BY <1>2, FetchMissTypes, OtherIds DEF IInv, FetchMiss, pool, disk, scratch, caller
<1>3. ASSUME NEW p \in PageIds, FlushPage(t, p)
      PROVE  IInv'
  BY <1>3, FlushPageTypes, OtherIds DEF IInv, FlushPage, StartFlush, pool, disk, caller
<1>4. CASE StartNewPage(t)
  BY <1>4, StartNewPageTypes, OtherIds DEF IInv, StartNewPage, pool, disk, scratch, caller
<1>5. CASE FlushAll(t)
  BY <1>5, FlushAllTypes, OtherIds DEF IInv, FlushAll, StartFlush, pool, disk, caller
<1>6. ASSUME NEW h \in Handles, WriteGuard(t, h)
      PROVE  IInv'
  BY <1>6, WriteGuardTypes, WriteGuardIds DEF IInv
<1>7. ASSUME NEW h \in Handles, UseOfEmptyFrame(t, h)
      PROVE  IInv'
  BY <1>7, UseOfEmptyFrameTypes, OtherIds DEF IInv, UseOfEmptyFrame, pool, disk, scratch, caller
<1>8. ASSUME NEW h \in Handles, DropGuard(t, h)
      PROVE  IInv'
  BY <1>8, DropGuardTypes, DropGuardIds DEF IInv
<1> QED
  BY <1>1, <1>2, <1>3, <1>4, <1>5, <1>6, <1>7, <1>8 DEF Begin

\* An empty pool over a file of blank pages
LEMMA InitialInv == Init => IInv
PROOF
<1> SUFFICES ASSUME Init PROVE IInv
  OBVIOUS
<1>1. <<>> \in Seq(Frames)
  BY EmptySeq
<1>2. /\ EmptyTable \in [PageIds -> MaybeFrame]
      /\ EmptyFrames \in [Frames -> BufferFrame \cup {None}]
      /\ Nothing \in [Threads -> {None}]
      /\ NoGuards \in [Threads -> [Handles -> {None}]]
  BY DEF EmptyTable, EmptyFrames, Nothing, NoGuards, MaybeFrame
<1>3. InitPages \in Nat /\ InitPages \in 0 .. MaxPages
  BY ConstantsAssumption
<1>4. /\ file \in [PageNos -> MaybePage]
      /\ \A n \in PageNos : n < file_len => file[n] = NewPage(n)
  BY Types DEF Init, MaybePage
<1>5. SharedTypes
  <2>1. \A n \in PageNos : n < file_len => file[n] \in Page
    BY <1>4, Types
  <2>2. latest \in [PageNos -> Int]
    BY DEF Init
  <2> QED
    BY <1>1, <1>2, <1>3, <1>4, <2>1, <2>2 DEF Init, SharedTypes
<1>6. CallTypes
  BY <1>1, <1>2 DEF Init, CallTypes, Labels, WithSlot, WithWanted, MaybeFrame, MaybePage
<1>7. PagesSelfIdentifying
  BY <1>4 DEF Init, EmptyFrames, Nothing, PagesSelfIdentifying, NewPage, FileId
<1> QED
  BY <1>5, <1>6, <1>7 DEF IInv, TypeOK

\* A restart empties the pool and keeps the file
LEMMA RestartStep ==
  ASSUME IInv, Restart
  PROVE  IInv'
PROOF
<1>1. <<>> \in Seq(Frames)
  BY EmptySeq
<1>2. /\ EmptyTable \in [PageIds -> MaybeFrame]
      /\ EmptyFrames \in [Frames -> BufferFrame \cup {None}]
      /\ Nothing \in [Threads -> {None}]
      /\ NoGuards \in [Threads -> [Handles -> {None}]]
  BY DEF EmptyTable, EmptyFrames, Nothing, NoGuards, MaybeFrame
<1>3. latest' \in [PageNos -> Int]
  <2>1. \A n \in PageNos : n < file_len => file[n].val \in Int
    BY Types DEF IInv, TypeOK, SharedTypes
  <2> QED
    BY <2>1 DEF Restart
<1>4. SharedTypes'
  BY <1>1, <1>2, <1>3 DEF Restart, Opened, IInv, TypeOK, SharedTypes, disk
<1>5. CallTypes'
  BY <1>1, <1>2 DEF Restart, CallTypes, Labels, WithSlot, WithWanted, MaybeFrame, MaybePage
<1>6. PagesSelfIdentifying'
  BY DEF Restart, Opened, disk, EmptyFrames, Nothing, IInv, PagesSelfIdentifying, OnFile, FileId
<1> QED
  BY <1>4, <1>5, <1>6 DEF IInv, TypeOK

\* Every step keeps the invariant
LEMMA IInvStep == IInv /\ [Next]_vars => IInv'
PROOF
<1> SUFFICES ASSUME IInv, [Next]_vars PROVE IInv'
  OBVIOUS
<1>1. ASSUME NEW t \in Threads, Begin(t)
      PROVE  IInv'
  BY <1>1, BeginStep
<1>2. ASSUME NEW t \in Threads, Continue(t)
      PROVE  IInv'
  BY <1>2, ContinueStep
<1>3. CASE Restart
  BY <1>3, RestartStep
<1>4. CASE UNCHANGED vars
  <2>1. TypeOK'
    BY <1>4 DEF IInv, TypeOK, SharedTypes, CallTypes, vars, pool, index, disk, call,
      scratch, caller
  <2>2. PagesSelfIdentifying'
    BY <1>4, OtherIds DEF vars, pool, disk, scratch
  <2> QED
    BY <2>1, <2>2 DEF IInv
<1> QED
  BY <1>1, <1>2, <1>3, <1>4 DEF Next

(***************************************************************************)
(* The inductive invariant.  The types alone are not one: a write that     *)
(* fails half way rewrites the header of the page at the frame's offset,   *)
(* which is a page only because frames hold pages of the file.             *)
(***************************************************************************)
THEOREM IInvHolds == Spec => []IInv
PROOF
<1>1. Init => IInv
  BY InitialInv
<1>2. IInv /\ [Next]_vars => IInv'
  BY IInvStep
<1> QED
  BY <1>1, <1>2, PTL DEF Spec

(***************************************************************************)
(* The state of the pool, of the file and of every call under way keeps    *)
(* its type, for any number of threads, frames and pages, with file errors *)
(* and restarts.                                                           *)
(***************************************************************************)
THEOREM TypeCorrect == Spec => []TypeOK
PROOF
<1>1. IInv => TypeOK
  BY DEF IInv
<1> QED
  BY <1>1, IInvHolds, PTL

(***************************************************************************)
(* Whatever the threads do, and wherever the process stops, the page at an *)
(* offset of the file is the page of that number: eviction and flushing    *)
(* never write a page over another one, nor past the end of the file, even *)
(* when they race for a frame.                                             *)
(***************************************************************************)
THEOREM PagesAlwaysSelfIdentifying == Spec => []PagesSelfIdentifying
PROOF
<1>1. IInv => PagesSelfIdentifying
  BY DEF IInv
<1> QED
  BY <1>1, IInvHolds, PTL

-----------------------------------------------------------------------------
(***************************************************************************)
(* What the races leave intact.                                            *)
(***************************************************************************)
\* The LRU mutex lets one call scan at a time, and nothing stays set aside
ScansAlone ==
  /\ \A t, u \in Threads : pc[t] = "scan" /\ pc[u] = "scan" => t = u
  /\ \A t \in Threads : pc[t] # "scan" => candidates[t] = <<>>

RacesKeep ==
  /\ ScansAlone
  /\ LruDistinct
  /\ FreeFramesUntouched
  /\ ChecksumsValid

RInv == IInv /\ RacesKeep

-----------------------------------------------------------------------------
(***************************************************************************)
(* The order of replacement.                                               *)
(***************************************************************************)
\* The order l and the frames set aside, c, have no frame twice
Distinct(l, c) ==
  /\ IsInjective(l)
  /\ \A t \in Threads : IsInjective(c[t]) /\ ToSet(l) \cap ToSet(c[t]) = {}

\* The two readings of LruDistinct agree
LEMMA DistinctLists == LruDistinct <=> Distinct(lru, candidates)
PROOF
BY DEF LruDistinct, Distinct

\* The same after a step
LEMMA DistinctListsNext == LruDistinct' <=> Distinct(lru', candidates')
PROOF
BY DEF LruDistinct, Distinct

\* Most steps leave the lists alone, and nobody begins or ends a scan
LEMMA SameLists ==
  ASSUME RInv, NEW t \in Threads, NEW l, l # "scan", pc[t] # "scan",
         pc' = pc \/ pc' = [pc EXCEPT ![t] = l],
         UNCHANGED <<lru, candidates>>
  PROVE  ScansAlone' /\ LruDistinct'
PROOF
<1>1. ScansAlone'
  BY DEF RInv, RacesKeep, IInv, TypeOK, CallTypes, ScansAlone
<1>2. LruDistinct'
  BY DistinctLists, DistinctListsNext DEF RInv, RacesKeep
<1> QED
  BY <1>1, <1>2

\* A frame is touched while nobody scans, so none is set aside
LEMMA TouchLists ==
  ASSUME RInv, NEW t \in Threads, pc[t] \in WithSlot, ~LruHeld,
         pc' = [pc EXCEPT ![t] = "idle"],
         lru' = Touched(lru, slot[t]), UNCHANGED candidates
  PROVE  ScansAlone' /\ LruDistinct'
PROOF
<1>1. ScansAlone'
  BY DEF RInv, RacesKeep, IInv, TypeOK, CallTypes, ScansAlone, LruHeld
<1>2. \A u \in Threads : candidates[u] = <<>>
  BY DEF RInv, RacesKeep, ScansAlone, LruHeld
<1>3. lru \in Seq(Frames) /\ slot[t] \in Frames /\ IsInjective(lru)
  BY DistinctLists DEF RInv, RacesKeep, IInv, TypeOK, SharedTypes, CallTypes, Distinct
<1>4. IsInjective(lru')
  BY <1>3, TouchedFrames
<1>5. Distinct(lru', candidates')
  BY <1>2, <1>4, NoFrames DEF Distinct
<1> QED
  BY <1>1, <1>5, DistinctListsNext

\* The scan begins
LEMMA StartScanLists ==
  ASSUME RInv, NEW t \in Threads, StartScan(t)
  PROVE  ScansAlone' /\ LruDistinct'
PROOF
<1>1. ScansAlone'
  BY DEF StartScan, Goto, LruHeld, scratch, RInv, RacesKeep, IInv, TypeOK, CallTypes, ScansAlone
<1>2. UNCHANGED <<lru, candidates>>
  BY DEF StartScan, pool, index, scratch
<1> QED
  BY <1>1, <1>2, DistinctLists, DistinctListsNext DEF RInv, RacesKeep

\* What the scan takes off the order and puts back or sets aside
LEMMA ScanSteps ==
  ASSUME RInv, NEW t \in Threads, Scanning(t)
  PROVE  LET f == Last(lru)
             c == candidates[t]
         IN /\ f \in Frames /\ f \in ToSet(lru) /\ f \notin ToSet(Front(lru))
            /\ ToSet(Front(lru)) \subseteq ToSet(lru)
            /\ Front(lru) \in Seq(Frames) /\ IsInjective(Front(lru))
            /\ <<f>> \o c \in Seq(Frames) /\ IsInjective(<<f>> \o c)
            /\ ToSet(<<f>> \o c) = ToSet(c) \cup {f}
            /\ c \o Front(lru) \in Seq(Frames) /\ IsInjective(c \o Front(lru))
            /\ ToSet(c \o Front(lru)) = ToSet(c) \cup ToSet(Front(lru))
            /\ f \notin ToSet(c)
PROOF
<1> DEFINE f == Last(lru)
           c == candidates[t]
           r == Front(lru)
           s == <<f>>
<1>1. /\ lru \in Seq(Frames) /\ lru # <<>> /\ IsInjective(lru)
      /\ c \in Seq(Frames) /\ IsInjective(c) /\ ToSet(lru) \cap ToSet(c) = {}
  BY DistinctLists
  DEF Scanning, RInv, RacesKeep, IInv, TypeOK, SharedTypes, CallTypes, Distinct
<1>2. /\ f \in Frames /\ f \in ToSet(lru) /\ r \in Seq(Frames)
      /\ ToSet(r) \subseteq ToSet(lru) /\ IsInjective(r) /\ f \notin ToSet(r)
  BY <1>1, FrontLast, FrontDistinct
<1>3. s \in Seq(Frames) /\ ToSet(s) = {f} /\ IsInjective(s)
  BY <1>2, SingleFrame
<1> HIDE DEF f, c, r, s
<1>4. /\ s \o c \in Seq(Frames) /\ ToSet(s \o c) = ToSet(s) \cup ToSet(c)
      /\ IsInjective(s \o c)
  BY <1>1, <1>2, <1>3, ConcatFrames
<1>5. /\ c \o r \in Seq(Frames) /\ ToSet(c \o r) = ToSet(c) \cup ToSet(r)
      /\ IsInjective(c \o r)
  BY <1>1, <1>2, ConcatFrames
<1>6. f \notin ToSet(c)
  BY <1>1, <1>2
<1> QED
  BY <1>2, <1>3, <1>4, <1>5, <1>6 DEF f, c, r, s

\* A pinned frame is set aside
LEMMA ScanPinnedLists ==
  ASSUME RInv, NEW t \in Threads, ScanPinned(t)
  PROVE  ScansAlone' /\ LruDistinct'
PROOF
<1>1. /\ Scanning(t) /\ pc[t] = "scan" /\ lru' = Front(lru) /\ pc' = pc
      /\ candidates' = [candidates EXCEPT ![t] = <<Last(lru)>> \o @]
  BY DEF ScanPinned, Scanning, call
<1>2. ScansAlone'
  BY <1>1 DEF RInv, RacesKeep, IInv, TypeOK, CallTypes, ScansAlone
<1>3. \A u \in Threads : u # t => candidates[u] = <<>>
  BY <1>1 DEF RInv, RacesKeep, ScansAlone
<1>4. /\ candidates'[t] = <<Last(lru)>> \o candidates[t]
      /\ \A u \in Threads : u # t => candidates'[u] = <<>>
  BY <1>1, <1>3 DEF RInv, RacesKeep, IInv, TypeOK, CallTypes
<1>5. ToSet(lru) \cap ToSet(candidates[t]) = {}
  BY DistinctLists DEF RInv, RacesKeep, Distinct
<1>6. Distinct(lru', candidates')
  BY <1>1, <1>4, <1>5, ScanSteps, NoFrames DEF Distinct
<1> QED
  BY <1>2, <1>6, DistinctListsNext

\* An empty frame is dropped from the order
LEMMA ScanEmptyLists ==
  ASSUME RInv, NEW t \in Threads, ScanEmpty(t)
  PROVE  ScansAlone' /\ LruDistinct'
PROOF
<1>1. Scanning(t) /\ lru' = Front(lru) /\ pc' = pc /\ candidates' = candidates
  BY DEF ScanEmpty, call, scratch
<1>2. ScansAlone'
  BY <1>1 DEF RInv, RacesKeep, ScansAlone
<1>3. Distinct(lru', candidates')
  BY <1>1, ScanSteps, DistinctLists DEF Distinct, RInv, RacesKeep
<1> QED
  BY <1>2, <1>3, DistinctListsNext

\* A victim leaves the order, and what was set aside comes back
LEMMA ScanVictimLists ==
  ASSUME RInv, NEW t \in Threads, ScanVictim(t)
  PROVE  ScansAlone' /\ LruDistinct'
PROOF
<1>1. /\ Scanning(t) /\ pc[t] = "scan" /\ lru' = candidates[t] \o Front(lru)
      /\ pc' = [pc EXCEPT ![t] = "victim"]
      /\ candidates' = [candidates EXCEPT ![t] = <<>>]
  BY DEF ScanVictim, Scanning
<1>2. ScansAlone'
  BY <1>1 DEF RInv, RacesKeep, IInv, TypeOK, CallTypes, ScansAlone
<1>3. \A u \in Threads : candidates'[u] = <<>>
  BY <1>1 DEF RInv, RacesKeep, ScansAlone, IInv, TypeOK, CallTypes
<1>4. Distinct(lru', candidates')
  BY <1>1, <1>3, ScanSteps, NoFrames DEF Distinct
<1> QED
  BY <1>2, <1>4, DistinctListsNext

\* When every frame is set aside they are the order again
LEMMA ScanExhaustedLists ==
  ASSUME RInv, NEW t \in Threads, ScanExhausted(t)
  PROVE  ScansAlone' /\ LruDistinct'
PROOF
<1>1. /\ pc[t] = "scan" /\ lru' = candidates[t]
      /\ pc' = [pc EXCEPT ![t] = "idle"]
      /\ candidates' = [candidates EXCEPT ![t] = <<>>]
  BY DEF ScanExhausted, Return
<1>2. ScansAlone'
  BY <1>1 DEF RInv, RacesKeep, IInv, TypeOK, CallTypes, ScansAlone
<1>3. \A u \in Threads : candidates'[u] = <<>>
  BY <1>1 DEF RInv, RacesKeep, ScansAlone, IInv, TypeOK, CallTypes
<1>4. Distinct(lru', candidates')
  BY <1>1, <1>3, DistinctLists, NoFrames DEF Distinct, RInv, RacesKeep
<1> QED
  BY <1>2, <1>4, DistinctListsNext

-----------------------------------------------------------------------------
(***************************************************************************)
(* Unused frames.                                                          *)
(***************************************************************************)
\* A frame nobody knows yet
Untouched(f) ==
  /\ frames[f] = None
  /\ f \notin ToSet(lru)
  /\ \A p \in PageIds : page_table[p] # f
  /\ \A t \in Threads :
       /\ slot[t] # f
       /\ f \notin ToSet(candidates[t])
       /\ \A h \in Handles : guards[t][h] # None => guards[t][h].frame # f

\* FreeFramesUntouched, one frame at a time
LEMMA FreeFrames == FreeFramesUntouched <=> \A f \in free_list : Untouched(f)
PROOF
BY DEF FreeFramesUntouched, Untouched

\* A step of t that takes nothing from the free list
LEMMA StillFree ==
  ASSUME RInv, free_list' \subseteq free_list,
         \A f \in free_list' : Untouched(f) => Untouched(f)'
  PROVE  FreeFramesUntouched'
PROOF
BY FreeFrames DEF RInv, RacesKeep, FreeFramesUntouched, Untouched

\* Finding the page in the table, or not
LEMMA FetchFree ==
  ASSUME RInv, NEW t \in Threads, NEW p \in PageIds, FetchHit(t, p) \/ FetchMiss(t, p)
  PROVE  FreeFramesUntouched'
PROOF
BY DEF FetchHit, FetchMiss, RInv, RacesKeep, IInv, TypeOK, SharedTypes, CallTypes, FreeFramesUntouched,
  pool, index, scratch, caller

\* Pinning a cached frame leaves the unused frames alone
LEMMA HitPinFree ==
  ASSUME RInv, NEW t \in Threads, HitPin(t)
  PROVE  FreeFramesUntouched'
PROOF
BY DEF HitPin, Goto, Panic, RInv, RacesKeep, IInv, TypeOK, SharedTypes, CallTypes, FreeFramesUntouched,
  pool, index, scratch, caller

\* A guard is made for the call's frame, which is not a free one
LEMMA TouchFree ==
  ASSUME RInv, NEW t \in Threads, HitTouch(t) \/ PublishTouch(t)
  PROVE  FreeFramesUntouched'
PROOF
<1>1. /\ pc[t] \in WithSlot /\ lru' = Touched(lru, slot[t]) /\ ReturnGuard(t)
      /\ UNCHANGED <<page_table, frames, free_list, candidates>>
  BY DEF HitTouch, PublishTouch, WithSlot, scratch
<1>2. lru \in Seq(Frames) /\ slot[t] \in Frames
  BY <1>1 DEF RInv, RacesKeep, IInv, TypeOK, SharedTypes, CallTypes
<1>3. ToSet(lru') \subseteq ToSet(lru) \cup {slot[t]}
  BY <1>1, <1>2, TouchedFrames
<1>4. PICK h \in Handles :
        guards' = [guards EXCEPT ![t][h] = [frame |-> slot[t], id |-> want[t]]]
  BY <1>1 DEF ReturnGuard
<1>5. slot' = [slot EXCEPT ![t] = None] /\ None \notin Frames
  BY <1>1, Types DEF ReturnGuard, Return
<1>6. \A f \in free_list : Untouched(f) => Untouched(f)'
  <2> SUFFICES ASSUME NEW f \in free_list, Untouched(f)
               PROVE  Untouched(f)'
    OBVIOUS
  <2>1. f # slot[t] /\ f # None
    BY <1>5 DEF Untouched, RInv, RacesKeep, IInv, TypeOK, SharedTypes
  <2>2. \A u \in Threads : slot'[u] # f
    BY <1>5, <2>1 DEF Untouched, RInv, RacesKeep, IInv, TypeOK, CallTypes
  <2>3. \A u \in Threads : \A k \in Handles :
          guards'[u][k] # None => guards'[u][k].frame # f
    BY <1>4, <2>1 DEF Untouched, RInv, RacesKeep, IInv, TypeOK, CallTypes
  <2> QED
    BY <1>1, <1>3, <2>1, <2>2, <2>3 DEF Untouched
<1> QED
  BY <1>1, <1>6, StillFree

\* Steps that change neither lists, frames, table nor guards, and no slot but
\* to None or to a frame of the table
LEMMA CallFree ==
  ASSUME RInv, NEW t \in Threads, NEW s,
         s = None \/ \E p \in PageIds : s = page_table[p],
         slot' = slot \/ slot' = [slot EXCEPT ![t] = s],
         UNCHANGED <<page_table, frames, lru, free_list, candidates, guards>>
  PROVE  FreeFramesUntouched'
PROOF
<1>1. None \notin Frames
  BY Types
<1> QED
  BY <1>1 DEF RInv, RacesKeep, IInv, TypeOK, SharedTypes, CallTypes, FreeFramesUntouched

\* The frame taken off the free list is in one place only: its call
LEMMA PopFreeFree ==
  ASSUME RInv, NEW t \in Threads, PopFree(t)
  PROVE  FreeFramesUntouched'
PROOF
BY DEF PopFree, RInv, RacesKeep, IInv, TypeOK, SharedTypes, CallTypes, FreeFramesUntouched, scratch, caller

\* The scan moves frames that were in the order already
LEMMA ScanFree ==
  ASSUME RInv, NEW t \in Threads,
         ScanPinned(t) \/ ScanEmpty(t) \/ ScanVictim(t) \/ ScanExhausted(t)
  PROVE  FreeFramesUntouched'
PROOF
<1>1. UNCHANGED <<page_table, frames, free_list, guards>>
  BY DEF ScanPinned, ScanEmpty, ScanVictim, ScanExhausted, caller
<1>2. None \notin Frames
  BY Types
<1>3. ASSUME NEW f \in free_list, Untouched(f)
      PROVE  Untouched(f)'
  <2>1. f # None /\ f \in Frames
    BY <1>2 DEF RInv, RacesKeep, IInv, TypeOK, SharedTypes
  <2>2. CASE ScanPinned(t)
    <3>1. /\ lru' = Front(lru) /\ slot' = slot /\ Scanning(t)
          /\ candidates' = [candidates EXCEPT ![t] = <<Last(lru)>> \o @]
      BY <2>2 DEF ScanPinned, call
    <3>2. f # Last(lru) /\ f \notin ToSet(Front(lru))
      BY <1>3, <3>1, ScanSteps DEF Untouched
    <3>3. f \notin ToSet(<<Last(lru)>> \o candidates[t])
      BY <1>3, <3>1, <3>2, ScanSteps DEF Untouched
    <3>4. \A u \in Threads : f \notin ToSet(candidates'[u])
      BY <1>3, <3>1, <3>3 DEF Untouched, RInv, RacesKeep, IInv, TypeOK, CallTypes
    <3> QED
      BY <1>1, <1>3, <3>1, <3>2, <3>4 DEF Untouched
  <2>3. CASE ScanEmpty(t)
    BY <1>1, <1>3, <2>1, <2>3, ScanSteps
    DEF ScanEmpty, call, scratch, Untouched, RInv, RacesKeep, IInv, TypeOK, CallTypes
  <2>4. CASE ScanVictim(t)
    BY <1>1, <1>3, <2>1, <2>4, ScanSteps, NoFrames
    DEF ScanVictim, Untouched, RInv, RacesKeep, IInv, TypeOK, CallTypes
  <2>5. CASE ScanExhausted(t)
    <3>1. /\ lru' = candidates[t] /\ candidates' = [candidates EXCEPT ![t] = <<>>]
          /\ slot' = [slot EXCEPT ![t] = None]
      BY <2>5 DEF ScanExhausted, Return
    <3>2. \A u \in Threads : f \notin ToSet(candidates'[u])
      BY <1>3, <3>1, NoFrames DEF Untouched, RInv, RacesKeep, IInv, TypeOK, CallTypes
    <3>3. \A u \in Threads : slot'[u] # f
      BY <1>3, <2>1, <3>1 DEF Untouched, RInv, RacesKeep, IInv, TypeOK, CallTypes
    <3> QED
      BY <1>1, <1>3, <3>1, <3>2, <3>3 DEF Untouched
  <2> QED
    BY <2>2, <2>3, <2>4, <2>5
<1> QED
  BY <1>1, <1>3, StillFree

\* Steps on a frame that a call or a guard names
LEMMA FrameFree ==
  ASSUME RInv, NEW t \in Threads, NEW g,
         \/ g = slot[t]
         \/ \E h \in Handles : guards[t][h] # None /\ g = guards[t][h].frame,
         NEW b, frames' = frames \/ frames' = [frames EXCEPT ![g] = b],
         slot' = slot \/ slot' = [slot EXCEPT ![t] = None],
         NEW p, NEW m, m = None \/ m = slot[t],
         page_table' = page_table \/ page_table' = [page_table EXCEPT ![p] = m],
         NEW k, guards' = guards \/ guards' = [guards EXCEPT ![t][k] = None],
         UNCHANGED <<lru, free_list, candidates>>
  PROVE  FreeFramesUntouched'
PROOF
<1>1. None \notin Frames
  BY Types
<1>2. ASSUME NEW f \in free_list, Untouched(f)
      PROVE  Untouched(f)'
  <2>1. f # None /\ f \in Frames /\ f # g /\ f # m
    BY <1>1, <1>2 DEF Untouched, RInv, RacesKeep, IInv, TypeOK, SharedTypes
  <2>2. frames'[f] = None
    BY <1>2, <2>1 DEF Untouched, RInv, RacesKeep, IInv, TypeOK, SharedTypes
  <2>3. \A q \in PageIds : page_table'[q] # f
    BY <1>2, <2>1 DEF Untouched, RInv, RacesKeep, IInv, TypeOK, SharedTypes
  <2>4. \A u \in Threads : slot'[u] # f
    BY <1>2, <2>1 DEF Untouched, RInv, RacesKeep, IInv, TypeOK, CallTypes
  <2>5. \A u \in Threads : \A h \in Handles :
          guards'[u][h] # None => guards'[u][h].frame # f
    <3> DEFINE none == [guards[t] EXCEPT ![k] = None]
    <3>1. \A h \in Handles : none[h] = None \/ none[h] = guards[t][h]
      BY DEF RInv, RacesKeep, IInv, TypeOK, CallTypes
    <3>2. guards' = guards \/ guards' = [guards EXCEPT ![t] = none]
      OBVIOUS
    <3> HIDE DEF none
    <3>3. \A u \in Threads : guards'[u] = guards[u] \/ (u = t /\ guards'[u] = none)
      BY <3>2 DEF RInv, RacesKeep, IInv, TypeOK, CallTypes
    <3> QED
      BY <1>2, <2>1, <3>1, <3>3 DEF Untouched
  <2> QED
    BY <1>2, <2>2, <2>3, <2>4, <2>5 DEF Untouched
<1> QED
  BY <1>2, StillFree

-----------------------------------------------------------------------------
(***************************************************************************)
(* Checksums.                                                              *)
(***************************************************************************)
\* A page is as it was, or has its checksum
Kept(new, old) == Summed(new) \/ new = old

\* Update_checksum does what it is for
LEMMA ChecksumSums == \A p \in Page : Summed(WithChecksum(p))
PROOF
BY DEF Summed, WithChecksum, Page

\* Nothing changes but pages that have their checksum, and frames to be written
LEMMA ChecksumsStep ==
  ASSUME RInv, ~IOErrors => file_len' = file_len,
         ~IOErrors => \A n \in PageNos : Kept(file'[n], file[n]),
         \A f \in Frames :
           \/ frames'[f] = None \/ frames'[f].dirty
           \/ Summed(frames'[f].page)
           \/ /\ frames[f] # None /\ ~frames[f].dirty
              /\ frames'[f].page = frames[f].page,
         \A t \in Threads :
           loaded'[t] = None \/ Kept(loaded'[t], loaded[t])
  PROVE  ChecksumsValid'
PROOF
<1> SUFFICES ASSUME ~IOErrors PROVE ChecksumsValid'
  BY DEF ChecksumsValid
<1>1. \A k \in 0 .. file_len - 1 : k \in PageNos
  BY ConstantsAssumption DEF RInv, IInv, TypeOK, SharedTypes, PageNos
<1>2. /\ \A n \in 0 .. file_len - 1 : Summed(file[n])
      /\ \A f \in Frames : frames[f] # None /\ ~frames[f].dirty => Summed(frames[f].page)
      /\ \A t \in Threads : loaded[t] # None => Summed(loaded[t])
  BY DEF RInv, RacesKeep, ChecksumsValid, Cached
<1>3. \A n \in 0 .. file_len' - 1 : Summed(file'[n])
  BY <1>1, <1>2 DEF Kept
<1>4. \A f \in Frames : frames'[f] # None /\ ~frames'[f].dirty => Summed(frames'[f].page)
  BY <1>2
<1>5. \A t \in Threads : loaded'[t] # None => Summed(loaded'[t])
  BY <1>2 DEF Kept
<1> QED
  BY <1>3, <1>4, <1>5 DEF ChecksumsValid, Cached, Summed

\* One frame changes, and perhaps its page's place in the file
LEMMA FrameChecksums ==
  ASSUME RInv, NEW f, NEW b,
         frames' = frames \/ frames' = [frames EXCEPT ![f] = b],
         \/ b = None \/ b.dirty \/ Summed(b.page)
         \/ frames[f] # None /\ b.dirty = frames[f].dirty /\ b.page = frames[f].page,
         NEW n, NEW w,
         \/ file' = file
         \/ Summed(w) /\ file' = [file EXCEPT ![n] = w]
         \/ IOErrors,
         file_len' = file_len,
         \A t \in Threads : loaded'[t] = None \/ loaded'[t] = loaded[t]
  PROVE  ChecksumsValid'
PROOF
<1>1. \A k \in Frames :
        \/ frames'[k] = None \/ frames'[k].dirty
        \/ Summed(frames'[k].page)
        \/ /\ frames[k] # None /\ ~frames[k].dirty
           /\ frames'[k].page = frames[k].page
  BY DEF RInv, IInv, TypeOK, SharedTypes
<1>2. ~IOErrors => \A k \in PageNos : Kept(file'[k], file[k])
  BY DEF Kept, RInv, IInv, TypeOK, SharedTypes
<1> QED
  BY <1>1, <1>2, ChecksumsStep DEF Kept

\* Pages are left alone
LEMMA OtherChecksums ==
  ASSUME RInv, UNCHANGED <<frames, file, file_len, loaded>>
  PROVE  ChecksumsValid'
PROOF
BY DEF RInv, RacesKeep, ChecksumsValid, Cached, Summed

\* A call writes the page of its frame, summed
LEMMA WrittenChecksums ==
  ASSUME RInv, NEW t \in Threads, VictimSaved(t) \/ FlushWrite(t)
  PROVE  ChecksumsValid'
PROOF
<1> DEFINE f == slot[t]
           page == WithChecksum(frames[f].page)
           b == IF VictimSaved(t) THEN [frames[f] EXCEPT !.page = page]
                ELSE [frames[f] EXCEPT !.page = page, !.dirty = FALSE]
<1>1. frames[f] \in BufferFrame
  BY DEF VictimSaved, FlushWrite, Dirty, WithSlot, RInv, IInv, TypeOK, SharedTypes, CallTypes
<1>2. Summed(page) /\ b.page = page
  BY <1>1, Types, ChecksumSums DEF BufferFrame
<1>3. frames' = frames \/ frames' = [frames EXCEPT ![f] = b]
  BY DEF VictimSaved, FlushWrite
<1>4. file' = file \/ file' = [file EXCEPT ![page.id.no] = page]
  BY DEF VictimSaved, FlushWrite, Written
<1>5. file_len' = file_len /\ loaded' = loaded
  BY DEF VictimSaved, FlushWrite, scratch
<1> HIDE DEF f, page, b
<1> QED
  BY <1>2, <1>3, <1>4, <1>5, FrameChecksums

\* Where writes may fail nothing is promised
LEMMA FailedChecksums ==
  ASSUME IOErrors
  PROVE  ChecksumsValid'
PROOF
BY DEF ChecksumsValid

\* A page that is read has the checksum it has in the file
LEMMA ReadChecksums ==
  ASSUME RInv, NEW t \in Threads, ReadPage(t)
  PROVE  ChecksumsValid'
PROOF
<1>1. want[t].no \in PageNos /\ want[t].no < file_len
  BY Types DEF ReadPage, RInv, IInv, TypeOK, CallTypes
<1>2. want[t].no \in 0 .. file_len - 1
  BY <1>1 DEF RInv, IInv, TypeOK, SharedTypes, PageNos
<1>3. ~IOErrors => Summed(file[want[t].no])
  BY <1>2 DEF RInv, RacesKeep, ChecksumsValid
<1>4. ~IOErrors => \A u \in Threads : loaded'[u] # None => Summed(loaded'[u])
  BY <1>3 DEF ReadPage, RInv, RacesKeep, ChecksumsValid, IInv, TypeOK, CallTypes
<1> QED
  BY <1>4 DEF ReadPage, pool, disk, RInv, RacesKeep, ChecksumsValid, Cached, Summed

\* A new page is zeroes under the checksum 0
LEMMA AllocateChecksums ==
  ASSUME RInv, NEW t \in Threads, Allocate(t)
  PROVE  ChecksumsValid'
PROOF
<1> SUFFICES ASSUME ~IOErrors PROVE ChecksumsValid'
  BY DEF ChecksumsValid
<1>1. Summed(NewPage(file_len))
  BY DEF NewPage, Summed
<1>2. \A k \in 0 .. file_len : k \in PageNos /\ (k = file_len \/ k \in 0 .. file_len - 1)
  BY ConstantsAssumption DEF Allocate, RInv, RacesKeep, IInv, TypeOK, SharedTypes, PageNos
<1>3. \A n \in 0 .. file_len : Summed(file'[n])
  BY <1>1, <1>2 DEF Allocate, RInv, RacesKeep, IInv, TypeOK, SharedTypes, ChecksumsValid
<1>4. \A u \in Threads : loaded'[u] # None => Summed(loaded'[u])
  BY <1>1 DEF Allocate, RInv, RacesKeep, ChecksumsValid, IInv, TypeOK, CallTypes
<1>5. file_len' - 1 = file_len
  BY DEF Allocate, RInv, IInv, TypeOK, SharedTypes
<1> QED
  BY <1>3, <1>4, <1>5
  DEF Allocate, pool, RInv, RacesKeep, ChecksumsValid, Cached, Summed

\* A page read into a frame keeps its checksum
LEMMA InstallChecksums ==
  ASSUME RInv, NEW t \in Threads, Install(t)
  PROVE  ChecksumsValid'
PROOF
<1> SUFFICES ASSUME ~IOErrors PROVE ChecksumsValid'
  BY DEF ChecksumsValid
<1> DEFINE b == [page |-> loaded[t], dirty |-> FALSE, pin |-> 1]
<1>1. loaded[t] # None
  BY Types DEF Install, RInv, IInv, TypeOK, CallTypes
<1>2. b.page = loaded[t] /\ Summed(loaded[t])
  BY <1>1 DEF RInv, RacesKeep, ChecksumsValid
<1>3. frames' = [frames EXCEPT ![slot[t]] = b]
  BY DEF Install
<1>4. \A u \in Threads : loaded'[u] = None \/ loaded'[u] = loaded[u]
  BY DEF Install, RInv, IInv, TypeOK, CallTypes
<1>5. UNCHANGED <<file, file_len>>
  BY DEF Install, disk
<1> HIDE DEF b
<1> QED
  BY <1>2, <1>3, <1>4, <1>5, FrameChecksums

\* A page written through a guard is to be written to the file
LEMMA WriteGuardChecksums ==
  ASSUME RInv, NEW t \in Threads, NEW h \in Handles, WriteGuard(t, h)
  PROVE  ChecksumsValid'
PROOF
<1> DEFINE f == guards[t][h].frame
           b == [frames[f] EXCEPT !.page.val = Newer(latest[guards[t][h].id.no]), !.dirty = TRUE]
<1>1. f \in Frames
  <2>1. guards[t][h] \in PageGuard
    BY DEF WriteGuard, RInv, IInv, TypeOK, CallTypes
  <2> QED
    BY <2>1, Types
<1>2. frames[f] \in BufferFrame
  BY <1>1 DEF WriteGuard, RInv, IInv, TypeOK, SharedTypes
<1>3. b.dirty
  BY <1>2 DEF BufferFrame
<1>4. frames' = [frames EXCEPT ![f] = b] /\ UNCHANGED <<file, file_len, loaded>>
  BY DEF WriteGuard, disk, scratch
<1> HIDE DEF b
<1> QED
  BY <1>3, <1>4, FrameChecksums

\* A pin count says nothing of the page
LEMMA PinChecksums ==
  ASSUME RInv, NEW f \in Frames, NEW n,
         \/ frames' = frames
         \/ frames[f] # None /\ frames' = [frames EXCEPT ![f].pin = n],
         UNCHANGED <<file, file_len, loaded>>
  PROVE  ChecksumsValid'
PROOF
<1> DEFINE b == [frames[f] EXCEPT !.pin = n]
<1>1. frames[f] # None => b.dirty = frames[f].dirty /\ b.page = frames[f].page
  BY DEF RInv, IInv, TypeOK, SharedTypes, BufferFrame
<1>2. \/ frames' = frames
      \/ frames[f] # None /\ frames' = [frames EXCEPT ![f] = b]
  OBVIOUS
<1> HIDE DEF b
<1>3. CASE frames' = frames
  BY <1>3, OtherChecksums
<1> QED
  BY <1>1, <1>2, <1>3, FrameChecksums

-----------------------------------------------------------------------------
(***************************************************************************)
(* Every step.                                                             *)
(***************************************************************************)
\* What a thread begins, or does with a guard
LEMMA BeginKeeps ==
  ASSUME RInv, NEW t \in Threads, Begin(t)
  PROVE  RacesKeep'
PROOF
<1>1. ASSUME NEW p \in PageIds, FetchHit(t, p)
      PROVE  RacesKeep'
  <2>1. ScansAlone' /\ LruDistinct'
    BY <1>1, SameLists DEF FetchHit, MayFetch, pool, index, scratch
  <2>2. FreeFramesUntouched'
    BY <1>1, FetchFree
  <2>3. ChecksumsValid'
    BY <1>1, OtherChecksums DEF FetchHit, pool, disk, scratch
  <2> QED
    BY <2>1, <2>2, <2>3 DEF RacesKeep
<1>2. ASSUME NEW p \in PageIds, FetchMiss(t, p)
      PROVE  RacesKeep'
  <2>1. ScansAlone' /\ LruDistinct'
    BY <1>2, SameLists DEF FetchMiss, MayFetch, pool, index, scratch
  <2>2. FreeFramesUntouched'
    BY <1>2, FetchFree
  <2>3. ChecksumsValid'
    BY <1>2, OtherChecksums DEF FetchMiss, pool, disk, scratch
  <2> QED
    BY <2>1, <2>2, <2>3 DEF RacesKeep
<1>3. ASSUME NEW p \in PageIds, FlushPage(t, p)
      PROVE  RacesKeep'
  <2>1. ScansAlone' /\ LruDistinct'
    BY <1>3, SameLists DEF FlushPage, StartFlush, Goto, pool, index
  <2>2. FreeFramesUntouched'
    BY <1>3, CallFree DEF FlushPage, StartFlush, Goto, pool, index, caller
  <2>3. ChecksumsValid'
    BY <1>3, OtherChecksums DEF FlushPage, StartFlush, pool, disk
  <2> QED
    BY <2>1, <2>2, <2>3 DEF RacesKeep
<1>4. CASE StartNewPage(t)
  <2>1. ScansAlone' /\ LruDistinct'
    BY <1>4, SameLists DEF StartNewPage, MayFetch, Goto, pool, index, scratch
  <2>2. FreeFramesUntouched'
    BY <1>4, CallFree DEF StartNewPage, Goto, pool, index, scratch, caller
  <2>3. ChecksumsValid'
    BY <1>4, OtherChecksums DEF StartNewPage, pool, disk, scratch
  <2> QED
    BY <2>1, <2>2, <2>3 DEF RacesKeep
<1>5. CASE FlushAll(t)
  <2>1. ScansAlone' /\ LruDistinct'
    BY <1>5, SameLists DEF FlushAll, StartFlush, Goto, pool, index
  <2>2. FreeFramesUntouched'
    BY <1>5, CallFree DEF FlushAll, StartFlush, Goto, pool, index, caller
  <2>3. ChecksumsValid'
    BY <1>5, OtherChecksums DEF FlushAll, StartFlush, pool, disk
  <2> QED
    BY <2>1, <2>2, <2>3 DEF RacesKeep
<1>6. ASSUME NEW h \in Handles, WriteGuard(t, h)
      PROVE  RacesKeep'
  <2>1. ScansAlone' /\ LruDistinct'
    BY <1>6, SameLists DEF WriteGuard, index, call, scratch
  <2>2. FreeFramesUntouched'
    <3> DEFINE f == guards[t][h].frame
               b == [frames[f] EXCEPT !.page.val = Newer(latest[guards[t][h].id.no]),
                                      !.dirty = TRUE]
    <3>1. /\ guards[t][h] # None /\ frames' = [frames EXCEPT ![f] = b]
          /\ UNCHANGED <<slot, page_table, guards, lru, free_list, candidates>>
      BY <1>6 DEF WriteGuard, index, call, scratch
    <3> HIDE DEF b
    <3> QED
      BY <3>1, FrameFree
  <2>3. ChecksumsValid'
    BY <1>6, WriteGuardChecksums
  <2> QED
    BY <2>1, <2>2, <2>3 DEF RacesKeep
<1>7. ASSUME NEW h \in Handles, UseOfEmptyFrame(t, h)
      PROVE  RacesKeep'
  <2>1. ScansAlone' /\ LruDistinct'
    BY <1>7, SameLists DEF UseOfEmptyFrame, Panic, pool, index, scratch
  <2>2. FreeFramesUntouched'
    BY <1>7, CallFree DEF UseOfEmptyFrame, Panic, pool, index, scratch, caller
  <2>3. ChecksumsValid'
    BY <1>7, OtherChecksums DEF UseOfEmptyFrame, pool, disk, scratch
  <2> QED
    BY <2>1, <2>2, <2>3 DEF RacesKeep
<1>8. ASSUME NEW h \in Handles, DropGuard(t, h)
      PROVE  RacesKeep'
  <2>1. ScansAlone' /\ LruDistinct'
    BY <1>8, SameLists DEF DropGuard, Panic, index, call, scratch
  <2>2. FreeFramesUntouched'
    BY <1>8, FrameFree DEF DropGuard, Panic, index, call, scratch
  <2>3. ChecksumsValid'
    <3>1. guards[t][h].frame \in Frames
      <4>1. guards[t][h] \in PageGuard
        BY <1>8 DEF DropGuard, RInv, IInv, TypeOK, CallTypes
      <4> QED
        BY <4>1, Types
    <3>2. \E n : \/ frames' = frames
                 \/ /\ frames[guards[t][h].frame] # None
                    /\ frames' = [frames EXCEPT ![guards[t][h].frame].pin = n]
      BY <1>8 DEF DropGuard
    <3>3. UNCHANGED <<file, file_len, loaded>>
      BY <1>8 DEF DropGuard, disk, scratch
    <3> QED
      BY <3>1, <3>2, <3>3, PinChecksums
  <2> QED
    BY <2>1, <2>2, <2>3 DEF RacesKeep
<1> QED
  BY <1>1, <1>2, <1>3, <1>4, <1>5, <1>6, <1>7, <1>8 DEF Begin

\* The steps of get_free_frame
LEMMA FindFrameKeeps ==
  ASSUME RInv, NEW t \in Threads, FindFrame(t)
  PROVE  RacesKeep'
PROOF
<1>1. CASE PopFree(t)
  <2>1. ScansAlone' /\ LruDistinct'
    BY <1>1, SameLists DEF PopFree, scratch
  <2>2. FreeFramesUntouched'
    BY <1>1, PopFreeFree
  <2>3. ChecksumsValid'
    BY <1>1, OtherChecksums DEF PopFree, disk, scratch
  <2> QED
    BY <2>1, <2>2, <2>3 DEF RacesKeep
<1>2. CASE StartScan(t)
  <2>1. ScansAlone' /\ LruDistinct'
    BY <1>2, StartScanLists
  <2>2. FreeFramesUntouched'
    BY <1>2, CallFree DEF StartScan, Goto, pool, index, scratch, caller
  <2>3. ChecksumsValid'
    BY <1>2, OtherChecksums DEF StartScan, pool, disk, scratch
  <2> QED
    BY <2>1, <2>2, <2>3 DEF RacesKeep
<1>3. CASE ScanPinned(t)
  <2>1. ScansAlone' /\ LruDistinct'
    BY <1>3, ScanPinnedLists
  <2>2. FreeFramesUntouched'
    BY <1>3, ScanFree
  <2>3. ChecksumsValid'
    BY <1>3, OtherChecksums DEF ScanPinned, disk
  <2> QED
    BY <2>1, <2>2, <2>3 DEF RacesKeep
<1>4. CASE ScanEmpty(t)
  <2>1. ScansAlone' /\ LruDistinct'
    BY <1>4, ScanEmptyLists
  <2>2. FreeFramesUntouched'
    BY <1>4, ScanFree
  <2>3. ChecksumsValid'
    BY <1>4, OtherChecksums DEF ScanEmpty, disk, scratch
  <2> QED
    BY <2>1, <2>2, <2>3 DEF RacesKeep
<1>5. CASE ScanVictim(t)
  <2>1. ScansAlone' /\ LruDistinct'
    BY <1>5, ScanVictimLists
  <2>2. FreeFramesUntouched'
    BY <1>5, ScanFree
  <2>3. ChecksumsValid'
    BY <1>5, OtherChecksums DEF ScanVictim, disk
  <2> QED
    BY <2>1, <2>2, <2>3 DEF RacesKeep
<1>6. CASE ScanExhausted(t)
  <2>1. ScansAlone' /\ LruDistinct'
    BY <1>6, ScanExhaustedLists
  <2>2. FreeFramesUntouched'
    BY <1>6, ScanFree
  <2>3. ChecksumsValid'
    BY <1>6, OtherChecksums DEF ScanExhausted, disk
  <2> QED
    BY <2>1, <2>2, <2>3 DEF RacesKeep
<1>7. CASE VictimGone(t)
  <2>1. ScansAlone' /\ LruDistinct'
    BY <1>7, SameLists DEF VictimGone, Goto, pool, index, scratch
  <2>2. FreeFramesUntouched'
    BY <1>7, CallFree DEF VictimGone, Goto, pool, index, scratch, caller
  <2>3. ChecksumsValid'
    BY <1>7, OtherChecksums DEF VictimGone, pool, disk, scratch
  <2> QED
    BY <2>1, <2>2, <2>3 DEF RacesKeep
<1>8. CASE VictimSaved(t)
  <2>1. ScansAlone' /\ LruDistinct'
    BY <1>8, SameLists DEF VictimSaved, Goto, index, scratch
  <2>2. FreeFramesUntouched'
    BY <1>8, FrameFree DEF VictimSaved, Goto, index, scratch, caller
  <2>3. ChecksumsValid'
    BY <1>8, WrittenChecksums
  <2> QED
    BY <2>1, <2>2, <2>3 DEF RacesKeep
<1>9. CASE VictimWriteFails(t)
  <2>1. ScansAlone' /\ LruDistinct'
    BY <1>9, SameLists DEF VictimWriteFails, Return, index, scratch
  <2>2. FreeFramesUntouched'
    BY <1>9, FrameFree DEF VictimWriteFails, Return, index, scratch, caller
  <2>3. ChecksumsValid'
    BY <1>9, FailedChecksums DEF VictimWriteFails
  <2> QED
    BY <2>1, <2>2, <2>3 DEF RacesKeep
<1>10. CASE Unmap(t)
  <2>1. ScansAlone' /\ LruDistinct'
    BY <1>10, SameLists DEF Unmap, Goto, scratch
  <2>2. FreeFramesUntouched'
    BY <1>10, FrameFree DEF Unmap, Goto, scratch, caller
  <2>3. ChecksumsValid'
    BY <1>10, FrameChecksums DEF Unmap, disk, scratch
  <2> QED
    BY <2>1, <2>2, <2>3 DEF RacesKeep
<1> QED
  BY <1>1, <1>2, <1>3, <1>4, <1>5, <1>6, <1>7, <1>8, <1>9, <1>10 DEF FindFrame

\* A call goes on
LEMMA ContinueKeeps ==
  ASSUME RInv, NEW t \in Threads, Continue(t)
  PROVE  RacesKeep'
PROOF
<1>1. CASE HitPin(t)
  <2>1. ScansAlone' /\ LruDistinct'
    BY <1>1, SameLists DEF HitPin, Goto, Panic, index, scratch
  <2>2. FreeFramesUntouched'
    BY <1>1, HitPinFree
  <2>3. ChecksumsValid'
    <3>1. slot[t] \in Frames
      BY <1>1 DEF HitPin, WithSlot, RInv, IInv, TypeOK, CallTypes
    <3>2. \E n : \/ frames' = frames
                 \/ frames[slot[t]] # None /\ frames' = [frames EXCEPT ![slot[t]].pin = n]
      BY <1>1 DEF HitPin
    <3>3. UNCHANGED <<file, file_len, loaded>>
      BY <1>1 DEF HitPin, disk, scratch
    <3> QED
      BY <3>1, <3>2, <3>3, PinChecksums
  <2> QED
    BY <2>1, <2>2, <2>3 DEF RacesKeep
<1>2. CASE HitTouch(t)
  <2>1. ScansAlone' /\ LruDistinct'
    BY <1>2, TouchLists DEF HitTouch, ReturnGuard, Return, WithSlot, scratch
  <2>2. FreeFramesUntouched'
    BY <1>2, TouchFree
  <2>3. ChecksumsValid'
    BY <1>2, OtherChecksums DEF HitTouch, disk, scratch
  <2> QED
    BY <2>1, <2>2, <2>3 DEF RacesKeep
<1>3. CASE ReadPage(t)
  <2>1. ScansAlone' /\ LruDistinct'
    BY <1>3, SameLists DEF ReadPage, Goto, pool, index
  <2>2. FreeFramesUntouched'
    BY <1>3, CallFree DEF ReadPage, Goto, pool, index, caller
  <2>3. ChecksumsValid'
    BY <1>3, ReadChecksums
  <2> QED
    BY <2>1, <2>2, <2>3 DEF RacesKeep
<1>4. CASE Allocate(t)
  <2>1. ScansAlone' /\ LruDistinct'
    BY <1>4, SameLists DEF Allocate, pool, index
  <2>2. FreeFramesUntouched'
    BY <1>4, CallFree DEF Allocate, pool, index, caller
  <2>3. ChecksumsValid'
    BY <1>4, AllocateChecksums
  <2> QED
    BY <2>1, <2>2, <2>3 DEF RacesKeep
<1>5. CASE LoadFails(t)
  <2>1. ScansAlone' /\ LruDistinct'
    BY <1>5, SameLists DEF LoadFails, Return, pool, index, scratch
  <2>2. FreeFramesUntouched'
    BY <1>5, CallFree DEF LoadFails, Return, pool, index, scratch, caller
  <2>3. ChecksumsValid'
    BY <1>5, OtherChecksums DEF LoadFails, pool, disk, scratch
  <2> QED
    BY <2>1, <2>2, <2>3 DEF RacesKeep
<1>6. CASE Install(t)
  <2>1. ScansAlone' /\ LruDistinct'
    BY <1>6, SameLists DEF Install, Goto, index
  <2>2. FreeFramesUntouched'
    BY <1>6, FrameFree DEF Install, Goto, index, caller
  <2>3. ChecksumsValid'
    BY <1>6, InstallChecksums
  <2> QED
    BY <2>1, <2>2, <2>3 DEF RacesKeep
<1>7. CASE Publish(t)
  <2>1. ScansAlone' /\ LruDistinct'
    BY <1>7, SameLists DEF Publish, Goto, scratch
  <2>2. FreeFramesUntouched'
    BY <1>7, FrameFree DEF Publish, Goto, scratch, caller
  <2>3. ChecksumsValid'
    BY <1>7, OtherChecksums DEF Publish, disk, scratch
  <2> QED
    BY <2>1, <2>2, <2>3 DEF RacesKeep
<1>8. CASE PublishTouch(t)
  <2>1. ScansAlone' /\ LruDistinct'
    BY <1>8, TouchLists DEF PublishTouch, ReturnGuard, Return, WithSlot, scratch
  <2>2. FreeFramesUntouched'
    BY <1>8, TouchFree
  <2>3. ChecksumsValid'
    BY <1>8, OtherChecksums DEF PublishTouch, disk, scratch
  <2> QED
    BY <2>1, <2>2, <2>3 DEF RacesKeep
<1>9. CASE FlushNext(t)
  <2>1. ScansAlone' /\ LruDistinct'
    BY <1>9, SameLists DEF FlushNext, AfterFlush, pool, index
  <2>2. FreeFramesUntouched'
    <3>1. PICK p \in todo[t] : slot' = [slot EXCEPT ![t] = page_table[p]]
      BY <1>9 DEF FlushNext
    <3>2. p \in PageIds
      BY DEF RInv, IInv, TypeOK, CallTypes
    <3>3. UNCHANGED <<page_table, frames, lru, free_list, candidates, guards>>
      BY <1>9 DEF FlushNext, pool, index, caller
    <3> QED
      BY <3>1, <3>2, <3>3, CallFree
  <2>3. ChecksumsValid'
    BY <1>9, OtherChecksums DEF FlushNext, pool, disk
  <2> QED
    BY <2>1, <2>2, <2>3 DEF RacesKeep
<1>10. CASE FlushClean(t)
  <2>1. ScansAlone' /\ LruDistinct'
    BY <1>10, SameLists DEF FlushClean, AfterFlush, pool, index, scratch
  <2>2. FreeFramesUntouched'
    BY <1>10, CallFree DEF FlushClean, pool, index, scratch, caller
  <2>3. ChecksumsValid'
    BY <1>10, OtherChecksums DEF FlushClean, pool, disk, scratch
  <2> QED
    BY <2>1, <2>2, <2>3 DEF RacesKeep
<1>11. CASE FlushWrite(t)
  <2>1. ScansAlone' /\ LruDistinct'
    BY <1>11, SameLists DEF FlushWrite, AfterFlush, index, scratch
  <2>2. FreeFramesUntouched'
    <3> DEFINE b == [frames[slot[t]] EXCEPT !.page = WithChecksum(@), !.dirty = FALSE]
    <3>1. /\ frames' = [frames EXCEPT ![slot[t]] = b]
          /\ slot' = [slot EXCEPT ![t] = None]
          /\ UNCHANGED <<page_table, guards, lru, free_list, candidates>>
      BY <1>11 DEF FlushWrite, index, scratch, caller
    <3> HIDE DEF b
    <3> QED
      BY <3>1, FrameFree
  <2>3. ChecksumsValid'
    BY <1>11, WrittenChecksums
  <2> QED
    BY <2>1, <2>2, <2>3 DEF RacesKeep
<1>12. CASE FlushFails(t)
  <2>1. ScansAlone' /\ LruDistinct'
    BY <1>12, SameLists DEF FlushFails, Return, index
  <2>2. FreeFramesUntouched'
    BY <1>12, FrameFree DEF FlushFails, Return, index, caller
  <2>3. ChecksumsValid'
    BY <1>12, FailedChecksums DEF FlushFails
  <2> QED
    BY <2>1, <2>2, <2>3 DEF RacesKeep
<1>13. CASE FindFrame(t)
  BY <1>13, FindFrameKeeps
<1> QED
  BY <1>13, <1>1, <1>2, <1>3, <1>4, <1>5, <1>6, <1>7, <1>8, <1>9, <1>10, <1>11, <1>12 DEF Continue

\* A restart empties the lists, and every frame is unused again
LEMMA RestartKeeps ==
  ASSUME RInv, Restart
  PROVE  RacesKeep'
PROOF
<1>1. ScansAlone'
  BY DEF Restart, ScansAlone
<1>2. LruDistinct'
  <2>1. Distinct(lru', candidates')
    BY NoFrames DEF Restart, Distinct
  <2> QED
    BY <2>1, DistinctListsNext
<1>3. FreeFramesUntouched'
  <2>1. None \notin Frames
    BY Types
  <2> QED
    BY <2>1, NoFrames
    DEF Restart, FreeFramesUntouched, EmptyFrames, EmptyTable, Nothing, NoGuards
<1>4. ChecksumsValid'
  <2>1. \A f \in Frames : frames'[f] = None
    BY DEF Restart, EmptyFrames
  <2>2. \A t \in Threads : loaded'[t] = None
    BY DEF Restart, Nothing
  <2>3. UNCHANGED <<file, file_len>>
    BY DEF Restart, Opened, disk
  <2> QED
    BY <2>1, <2>2, <2>3 DEF RInv, RacesKeep, ChecksumsValid, Summed
<1> QED
  BY <1>1, <1>2, <1>3, <1>4 DEF RacesKeep

\* A new pool satisfies the invariant
LEMMA InitialRaces == Init => RInv
PROOF
<1> SUFFICES ASSUME Init PROVE RInv
  OBVIOUS
<1>1. IInv
  BY InitialInv
<1>2. ScansAlone
  BY DEF Init, ScansAlone
<1>3. LruDistinct
  <2>1. Distinct(lru, candidates)
    BY NoFrames DEF Init, Distinct
  <2> QED
    BY <2>1, DistinctLists
<1>4. FreeFramesUntouched
  <2>1. None \notin Frames
    BY Types
  <2> QED
    BY <2>1, NoFrames
    DEF Init, FreeFramesUntouched, EmptyFrames, EmptyTable, Nothing, NoGuards
<1>5. ChecksumsValid
  <2>1. \A n \in 0 .. InitPages - 1 : n \in PageNos /\ n < InitPages
    BY ConstantsAssumption DEF PageNos
  <2> QED
    BY <2>1 DEF Init, ChecksumsValid, Summed, NewPage, EmptyFrames, Nothing
<1> QED
  BY <1>1, <1>2, <1>3, <1>4, <1>5 DEF RInv, RacesKeep

\* Every step keeps the invariant
LEMMA RacesStep == RInv /\ [Next]_vars => RInv'
PROOF
<1> SUFFICES ASSUME RInv, [Next]_vars PROVE RacesKeep'
  BY IInvStep DEF RInv
<1>1. ASSUME NEW t \in Threads, Begin(t)
      PROVE  RacesKeep'
  BY <1>1, BeginKeeps
<1>2. ASSUME NEW t \in Threads, Continue(t)
      PROVE  RacesKeep'
  BY <1>2, ContinueKeeps
<1>3. CASE Restart
  BY <1>3, RestartKeeps
<1>4. CASE UNCHANGED vars
  <2>1. ScansAlone'
    BY <1>4 DEF RInv, RacesKeep, ScansAlone, vars, call, scratch
  <2>2. LruDistinct'
    BY <1>4, DistinctLists, DistinctListsNext
    DEF RInv, RacesKeep, vars, pool, index, scratch
  <2>3. FreeFramesUntouched'
    BY <1>4 DEF RInv, RacesKeep, FreeFramesUntouched, vars, pool, index, call, scratch, caller
  <2>4. ChecksumsValid'
    BY <1>4, OtherChecksums DEF vars, pool, disk, scratch
  <2> QED
    BY <2>1, <2>2, <2>3, <2>4 DEF RacesKeep
<1> QED
  BY <1>1, <1>2, <1>3, <1>4 DEF Next

\* The inductive invariant; that a scan is alone is what keeps a frame set
\* aside from being touched in the meantime
LEMMA RacesHold == Spec => []RInv
PROOF
<1>1. Init => RInv
  BY InitialRaces
<1>2. RInv /\ [Next]_vars => RInv'
  BY RacesStep
<1> QED
  BY <1>1, <1>2, PTL DEF Spec

(***************************************************************************)
(* No frame is twice in the LRU order, not even while evict_one has taken  *)
(* frames off it, whatever other threads touch or evict: for any number of *)
(* threads and frames.                                                     *)
(***************************************************************************)
THEOREM OrderAlwaysDistinct == Spec => []LruDistinct
PROOF
<1>1. RInv => LruDistinct
  BY DEF RInv, RacesKeep
<1> QED
  BY <1>1, RacesHold, PTL

(***************************************************************************)
(* A frame of the free list is known to nobody else: get_free_frame never  *)
(* hands out a frame that is in use, whoever races with it.                *)
(***************************************************************************)
THEOREM FreeFramesAlwaysUntouched == Spec => []FreeFramesUntouched
PROOF
<1>1. RInv => FreeFramesUntouched
  BY DEF RInv, RacesKeep
<1> QED
  BY <1>1, RacesHold, PTL

(***************************************************************************)
(* As long as no write stops half way, every page of the file, and every   *)
(* page in memory that need not be written, has the checksum of its data:  *)
(* on whichever path it was written, however writers, flushes and          *)
(* evictions race, and after any number of restarts.                       *)
(***************************************************************************)
THEOREM ChecksumsAlwaysValid == Spec => []ChecksumsValid
PROOF
<1>1. RInv => ChecksumsValid
  BY DEF RInv, RacesKeep
<1> QED
  BY <1>1, RacesHold, PTL
=============================================================================
