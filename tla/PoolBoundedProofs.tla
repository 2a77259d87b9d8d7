------------------------- MODULE PoolBoundedProofs -------------------------
(***************************************************************************)
(* Callers that keep to InPlace are careful: for any number of them, of    *)
(* calls, frames and pages, guards keep their pages and no frame is lost.  *)
(***************************************************************************)
EXTENDS MCPoolBounded, BufferPoolCarefulProofs

-----------------------------------------------------------------------------
(***************************************************************************)
(* The setting: callers keep to InPlace and ask for pages of the file, no  *)
(* file operation fails, and there are finitely many threads and frames.   *)
(***************************************************************************)
Setting ==
  /\ Disciplined /\ ~IOErrors
  /\ Spaces = {FileSpace}
  /\ FewGuards /\ IsFiniteSet(Frames)

\* The calls that wait for a frame, and the new pages that have no number yet
Waiting   == {t \in Threads : pc[t] = "get_free"}
Unnumbered == {t \in Threads : pc[t] \in {"get_free", "load"} /\ want[t] = None}

\* Nothing is ever evicted
NoEviction == \A t \in Threads : pc[t] \notin {"scan", "victim", "unmap"}

PInv == InPlace /\ NoEviction

\* They are finitely many
LEMMA FiniteSets ==
  ASSUME Setting
  PROVE  /\ IsFiniteSet(Waiting) /\ Cardinality(Waiting) \in Nat
         /\ IsFiniteSet(Unnumbered) /\ Cardinality(Unnumbered) \in Nat
PROOF
<1>1. IsFiniteSet(Threads) /\ Waiting \subseteq Threads /\ Unnumbered \subseteq Threads
  BY DEF Setting, FewGuards, Waiting, Unnumbered
<1> QED
  BY <1>1, FS_Subset, FS_CardinalityType

\* A call that loads has a page to load, and a frame to load it into
LEMMA LoadsSucceed ==
  ASSUME Setting, CInv, PInv, NEW t \in Threads
  PROVE  ~LoadFails(t) /\ ~StartScan(t)
PROOF
<1>1. file_len \in Nat /\ MaxPages \in Nat
  BY ConstantsAssumption DEF CInv, RInv, IInv, TypeOK, SharedTypes
<1>2. ASSUME t \in Unnumbered
      PROVE  file_len < MaxPages
  <2>1. Cardinality(Unnumbered) > 0
    BY <1>2, FiniteSets, CountsOne
  <2> QED
    BY <1>1, <2>1, FiniteSets DEF PInv, InPlace, Unnumbered
<1>3. ~LoadFails(t)
  BY <1>2 DEF LoadFails, Setting, Unnumbered, PInv, InPlace, Loading
<1>4. ASSUME t \in Waiting
      PROVE  free_list # {}
  <2>1. Cardinality(Waiting) > 0
    BY <1>4, FiniteSets, CountsOne
  <2>2. free_list = {} => Cardinality(free_list) = 0
    BY FS_EmptySet
  <2> QED
    BY <2>1, <2>2, FiniteSets DEF PInv, InPlace, Waiting
<1>5. ~StartScan(t)
  BY <1>4 DEF StartScan, Waiting
<1> QED
  BY <1>3, <1>5

\* A step after which t loads what it loaded before, if anything
LEMMA LoadsNothingNew ==
  ASSUME Setting, CInv, PInv, NEW t \in Threads, OthersWait(t),
         UNCHANGED <<file_len, free_list>>,
         pc'[t] \notin {"scan", "victim", "unmap"},
         Loading(t)' => Loading(t) /\ want'[t] = want[t],
         pc'[t] = "get_free" => pc[t] = "get_free",
         pc'[t] = "load" => pc[t] = "load"
  PROVE  PInv'
PROOF
<1>1. NoEviction'
  BY DEF PInv, NoEviction, OthersWait
<1>2. \A u \in Threads : Loading(u)' => Loading(u) /\ want'[u] = want[u]
  BY DEF OthersWait, Loading
<1>3. Waiting' \subseteq Waiting /\ Unnumbered' \subseteq Unnumbered
  BY <1>2 DEF OthersWait, Waiting, Unnumbered, Loading
<1>4. /\ Cardinality(Waiting') <= Cardinality(Waiting) /\ Cardinality(Waiting') \in Nat
      /\ Cardinality(Unnumbered') <= Cardinality(Unnumbered)
      /\ Cardinality(Unnumbered') \in Nat
  BY <1>3, FiniteSets, FS_Subset, FS_CardinalityType
<1>5. /\ file_len + Cardinality(Unnumbered) <= MaxPages
      /\ Cardinality(Waiting) <= Cardinality(free_list)
  BY DEF PInv, InPlace, Waiting, Unnumbered
<1>6. Cardinality(free_list) \in Nat
  BY FS_Subset, FS_CardinalityType DEF Setting, CInv, RInv, IInv, TypeOK, SharedTypes
<1>7. /\ file_len' + Cardinality(Unnumbered') <= MaxPages
      /\ Cardinality(Waiting') <= Cardinality(free_list')
  BY <1>4, <1>5, <1>6, FiniteSets, ConstantsAssumption
  DEF CInv, RInv, IInv, TypeOK, SharedTypes
<1>8. /\ \A u, v \in Threads :
           u # v /\ Loading(u)' /\ Loading(v)' /\ want'[u] # None => want'[u] # want'[v]
      /\ \A u \in Threads : Loading(u)' /\ want'[u] # None => want'[u].no < file_len'
  BY <1>2 DEF PInv, InPlace
<1>9. InPlace'
  BY <1>7, <1>8 DEF InPlace, Waiting, Unnumbered
<1> QED
  BY <1>1, <1>9 DEF PInv

\* A call takes one of the free frames, and waits for one no longer
LEMMA PopFreeInPlace ==
  ASSUME Setting, CInv, PInv, NEW t \in Threads, PopFree(t)
  PROVE  PInv'
PROOF
<1>1. PICK f \in free_list : free_list' = free_list \ {f}
  BY DEF PopFree
<1>2. /\ pc[t] = "get_free" /\ pc' = [pc EXCEPT ![t] = "load"]
      /\ UNCHANGED <<want, file_len>>
  BY DEF PopFree, disk
<1>3. \A u \in Threads : pc'[u] = IF u = t THEN "load" ELSE pc[u]
  BY <1>2 DEF CInv, RInv, IInv, TypeOK, CallTypes
<1>4. NoEviction'
  BY <1>3 DEF PInv, NoEviction
<1>5. /\ \A u \in Threads : Loading(u)' <=> Loading(u)
      /\ Unnumbered' = Unnumbered /\ Waiting' = Waiting \ {t} /\ t \in Waiting
  BY <1>2, <1>3 DEF Loading, Unnumbered, Waiting
<1>6. Cardinality(Waiting') = Cardinality(Waiting) - 1
  BY <1>5, FiniteSets, FS_RemoveElement
<1>7. IsFiniteSet(free_list) /\ Cardinality(free_list) \in Nat
  BY FS_Subset, FS_CardinalityType DEF Setting, CInv, RInv, IInv, TypeOK, SharedTypes
<1>8. Cardinality(free_list') = Cardinality(free_list) - 1
  BY <1>1, <1>7, FS_RemoveElement
<1>9. Cardinality(Waiting') <= Cardinality(free_list')
  BY <1>6, <1>7, <1>8, FiniteSets DEF PInv, InPlace, Waiting
<1>10. InPlace'
  BY <1>2, <1>5, <1>9 DEF PInv, InPlace, Waiting, Unnumbered
<1> QED
  BY <1>4, <1>10 DEF PInv

\* A new page has the next number, which nobody could ask for before
LEMMA AllocateInPlace ==
  ASSUME Setting, CInv, PInv, NEW t \in Threads, Allocate(t)
  PROVE  PInv'
PROOF
<1>1. /\ pc[t] = "load" /\ pc' = [pc EXCEPT ![t] = "install"] /\ want[t] = None
      /\ want' = [want EXCEPT ![t] = FileId(file_len)]
      /\ file_len' = file_len + 1 /\ UNCHANGED free_list
  BY DEF Allocate, NewPage, FileId, pool, index
<1>2. \A u \in Threads : IF u = t THEN pc'[u] = "install" /\ want'[u] = FileId(file_len)
                         ELSE pc'[u] = pc[u] /\ want'[u] = want[u]
  BY <1>1 DEF CInv, RInv, IInv, TypeOK, CallTypes
<1>3. NoEviction'
  BY <1>2 DEF PInv, NoEviction
<1>4. file_len \in Nat /\ FileId(file_len).no = file_len
  BY DEF FileId, CInv, RInv, IInv, TypeOK, SharedTypes
<1>5. FileId(file_len) \in PageIds /\ FileId(file_len) # None
  <2>1. file_len \in PageNos
    BY <1>4, ConstantsAssumption DEF Allocate, PageNos
  <2>2. FileId(file_len) \in PageIds
    BY <2>1, ConstantsAssumption DEF FileId, PageIds
  <2> QED
    BY <2>2, Types
<1>6. /\ Waiting' = Waiting
      /\ Unnumbered' = Unnumbered \ {t} /\ t \in Unnumbered
  BY <1>1, <1>2, <1>5 DEF Waiting, Unnumbered
<1>7. Cardinality(Unnumbered') = Cardinality(Unnumbered) - 1
  BY <1>6, FiniteSets, FS_RemoveElement
<1>8. /\ file_len' + Cardinality(Unnumbered') <= MaxPages
      /\ Cardinality(Waiting') <= Cardinality(free_list')
  <2>1. /\ file_len + Cardinality(Unnumbered) <= MaxPages
        /\ Cardinality(Waiting) <= Cardinality(free_list)
    BY DEF PInv, InPlace, Waiting, Unnumbered
  <2>2. Cardinality(Unnumbered) \in Nat /\ MaxPages \in Nat
    BY FiniteSets, ConstantsAssumption
  <2> QED
    BY <1>1, <1>4, <1>6, <1>7, <2>1, <2>2
<1>9. \A u \in Threads : Loading(u)' /\ want'[u] # None => want'[u].no < file_len'
  <2> SUFFICES ASSUME NEW u \in Threads, Loading(u)', want'[u] # None
               PROVE  want'[u].no < file_len + 1
    BY <1>1
  <2>1. CASE u = t
    BY <1>2, <1>4, <2>1
  <2>2. CASE u # t
    <3>1. Loading(u) /\ want[u] # None /\ want'[u] = want[u]
      BY <1>2, <2>2 DEF Loading
    <3>2. want[u].no < file_len /\ want[u].no \in Nat
      BY <3>1, Types DEF PInv, InPlace, CInv, RInv, IInv, TypeOK, CallTypes
    <3> QED
      BY <1>4, <3>1, <3>2
  <2> QED
    BY <2>1, <2>2
<1>10. \A u \in Threads : u # t /\ Loading(u)' => want'[u] # FileId(file_len)
  <2> SUFFICES ASSUME NEW u \in Threads, u # t, Loading(u)', want[u] = FileId(file_len)
               PROVE  FALSE
    BY <1>2
  <2>1. Loading(u) /\ want[u] # None
    BY <1>2, <1>5 DEF Loading
  <2> QED
    BY <1>4, <2>1 DEF PInv, InPlace
<1>11. \A u, v \in Threads :
         u # v /\ Loading(u)' /\ Loading(v)' /\ want'[u] # None => want'[u] # want'[v]
  <2> SUFFICES ASSUME NEW u \in Threads, NEW v \in Threads, u # v, Loading(u)', Loading(v)',
                      want'[u] # None
               PROVE  want'[u] # want'[v]
    OBVIOUS
  <2>1. CASE u = t \/ v = t
    BY <1>2, <1>10, <2>1
  <2>2. CASE u # t /\ v # t
    BY <1>2, <2>2 DEF Loading, PInv, InPlace
  <2> QED
    BY <2>1, <2>2
<1>12. InPlace'
  BY <1>8, <1>9, <1>11 DEF InPlace, Waiting, Unnumbered
<1> QED
  BY <1>3, <1>12 DEF PInv

\* What a call does between two loads, or after it has its frame filled
LEMMA ContinueInPlace ==
  ASSUME Setting, CInv, PInv, NEW t \in Threads, Continue(t)
  PROVE  PInv'
PROOF
<1>1. /\ pc \in [Threads -> Labels] /\ want \in [Threads -> PageIds \cup {None}]
      /\ slot \in [Threads -> MaybeFrame]
  BY DEF CInv, RInv, IInv, TypeOK, CallTypes
<1>2. CASE FindFrame(t)
  BY <1>2, LoadsSucceed, PopFreeInPlace
  DEF FindFrame, PInv, NoEviction, Scanning, ScanPinned, ScanEmpty, ScanVictim,
    ScanExhausted, VictimGone, VictimSaved, VictimWriteFails, Unmap
<1>3. CASE Allocate(t)
  BY <1>3, AllocateInPlace
<1>4. CASE HitPin(t)
  <2>1. /\ OthersWait(t) /\ pc'[t] \in {"hit_lru", "panicked"}
        /\ UNCHANGED <<file_len, free_list>>
    BY <1>1, <1>4 DEF HitPin, Goto, Panic, OthersWait, disk, index
  <2> QED
    BY <2>1, LoadsNothingNew DEF Loading
<1>5. CASE HitTouch(t) \/ PublishTouch(t)
  <2>1. OthersWait(t) /\ pc'[t] = "idle" /\ UNCHANGED <<file_len, free_list>>
    BY <1>1, <1>5 DEF HitTouch, PublishTouch, ReturnGuard, Return, OthersWait, disk
  <2> QED
    BY <2>1, LoadsNothingNew DEF Loading
<1>6. CASE ReadPage(t)
  <2>1. /\ OthersWait(t) /\ pc[t] = "load" /\ pc'[t] = "install" /\ want' = want
        /\ UNCHANGED <<file_len, free_list>>
    BY <1>1, <1>6 DEF ReadPage, Goto, OthersWait, disk, pool, index
  <2> QED
    BY <2>1, LoadsNothingNew DEF Loading
<1>7. CASE Install(t)
  <2>1. /\ OthersWait(t) /\ pc[t] = "install" /\ pc'[t] = "publish" /\ want' = want
        /\ UNCHANGED <<file_len, free_list>>
    BY <1>1, <1>7 DEF Install, Goto, OthersWait, disk, index
  <2> QED
    BY <2>1, LoadsNothingNew DEF Loading
<1>8. CASE Publish(t)
  <2>1. OthersWait(t) /\ pc'[t] = "publish_lru" /\ UNCHANGED <<file_len, free_list>>
    BY <1>1, <1>8 DEF Publish, Goto, OthersWait, disk
  <2> QED
    BY <2>1, LoadsNothingNew DEF Loading
<1>9. CASE FlushNext(t) \/ FlushClean(t) \/ FlushWrite(t) \/ FlushFails(t)
  <2>1. /\ OthersWait(t) /\ pc'[t] \in {"idle", "flush_next", "flush"}
        /\ UNCHANGED <<file_len, free_list>>
    BY <1>1, <1>9 DEF FlushNext, FlushClean, FlushWrite, FlushFails, AfterFlush, Return,
      OthersWait, disk, pool, index
  <2> QED
    BY <2>1, LoadsNothingNew DEF Loading
<1> QED
  BY <1>2, <1>3, <1>4, <1>5, <1>6, <1>7, <1>8, <1>9, LoadsSucceed DEF Continue

\* What a call starts with is not an eviction, and callers see to the rest
LEMMA CallInPlace ==
  ASSUME Setting, CInv, PInv, NEW t \in Threads, Call(t)
  PROVE  PInv'
PROOF
<1>1. pc \in [Threads -> Labels]
  BY DEF CInv, RInv, IInv, TypeOK, CallTypes
<1>2. \E l \in {"idle", "hit_frame", "get_free", "flush_next", "panicked"} :
        pc' = [pc EXCEPT ![t] = l]
  BY <1>1 DEF Call, Begin, FetchHit, FetchMiss, FlushPage, StartNewPage, FlushAll, StartFlush,
    WriteGuard, UseOfEmptyFrame, DropGuard, MayFetch, Goto, Panic, call
<1>3. NoEviction'
  BY <1>1, <1>2 DEF PInv, NoEviction
<1>4. InPlace'
  BY DEF Call, Setting
<1> QED
  BY <1>3, <1>4 DEF PInv

\* Callers that keep to InPlace are careful
LEMMA InPlaceIsCareful ==
  ASSUME Setting, IInv, PInv
  PROVE  Careful
PROOF
<1>1. ASSUME NEW u \in Threads, want[u] # None
      PROVE  want[u].space = FileSpace
  <2>1. want[u] \in PageIds
    BY <1>1 DEF IInv, TypeOK, CallTypes
  <2> QED
    BY <2>1 DEF PageIds, Setting
<1> QED
  BY <1>1 DEF Careful, BringingIn, PInv, NoEviction, InPlace, Loading

-----------------------------------------------------------------------------
(***************************************************************************)
(* No frame is lost.                                                       *)
(***************************************************************************)
\* A call has the frame in hand
Has(t, f) == slot[t] = f /\ pc[t] \in {"load", "install", "publish", "publish_lru"}

\* The frame is in the LRU order, and its page in the table
Listed(f) == f \in ToSet(lru) /\ \E p \in PageIds : page_table[p] = f

\* A step that takes no frame off a list, and puts the one it had on them
LEMMA StillAccounted ==
  ASSUME FramesAccounted, NEW t \in Threads, OthersWait(t), free_list' = free_list,
         \A f \in Frames : Listed(f) => Listed(f)',
         \A f \in Frames : Has(t, f) => Has(t, f)' \/ Listed(f)'
  PROVE  FramesAccounted'
PROOF
<1> SUFFICES ASSUME NEW f \in Frames
             PROVE  f \in free_list \/ Listed(f)' \/ \E u \in Threads : Has(u, f)'
  BY DEF FramesAccounted, Listed, Has
<1>1. f \in free_list \/ Listed(f) \/ \E u \in Threads : Has(u, f)
  BY DEF FramesAccounted, Listed, Has
<1>2. \A u \in Threads : u # t /\ Has(u, f) => Has(u, f)'
  BY DEF OthersWait, Has
<1> QED
  BY <1>1, <1>2

\* Publishing a page, and touching its frame, keep what is listed
LEMMA PublishAccounted ==
  ASSUME CInv, FramesAccounted, NEW t \in Threads, Publish(t)
  PROVE  FramesAccounted'
PROOF
<1>1. /\ OthersWait(t) /\ UNCHANGED <<free_list, lru, slot>>
      /\ pc[t] = "publish" /\ pc'[t] = "publish_lru"
      /\ want[t] \in PageIds /\ page_table' = [page_table EXCEPT ![want[t]] = slot[t]]
  BY DEF Publish, Goto, OthersWait, CInv, RInv, IInv, TypeOK, CallTypes, WithWanted
<1>2. page_table[want[t]] = None
  BY <1>1, Types DEF CInv, Structure, Absent, NotThere, BringingIn
<1>3. \A f \in Frames : Listed(f) => Listed(f)'
  BY <1>1, <1>2, Types DEF Listed, CInv, RInv, IInv, TypeOK, SharedTypes
<1>4. \A f \in Frames : Has(t, f) => Has(t, f)'
  BY <1>1 DEF Has
<1> QED
  BY <1>1, <1>3, <1>4, StillAccounted

\* A touch changes the order of the frames only, and none is lost
LEMMA TouchAccounted ==
  ASSUME CInv, FramesAccounted, NEW t \in Threads, HitTouch(t) \/ PublishTouch(t)
  PROVE  FramesAccounted'
PROOF
<1>1. /\ OthersWait(t) /\ UNCHANGED <<free_list, page_table>>
      /\ pc[t] \in {"hit_lru", "publish_lru"} /\ lru' = Touched(lru, slot[t])
  BY DEF HitTouch, PublishTouch, ReturnGuard, Return, OthersWait, CInv, RInv, IInv, TypeOK,
    CallTypes
<1>2. /\ lru \in Seq(Frames) /\ slot[t] \in Frames
      /\ want[t] \in PageIds /\ page_table[want[t]] = slot[t]
  BY <1>1 DEF CInv, RInv, IInv, TypeOK, SharedTypes, CallTypes, WithSlot, WithWanted,
    Structure, InHand, Knows
<1>3. ToSet(lru) \cup {slot[t]} \subseteq ToSet(lru')
  BY <1>1, <1>2, TouchedKeeps
<1>4. \A f \in Frames : Listed(f) => Listed(f)'
  BY <1>1, <1>3 DEF Listed
<1>5. \A f \in Frames : Has(t, f) => Listed(f)'
  BY <1>1, <1>2, <1>3 DEF Listed, Has
<1> QED
  BY <1>1, <1>4, <1>5, StillAccounted

\* The frame a call takes from the free list is in its hand
LEMMA PopFreeAccounted ==
  ASSUME CInv, FramesAccounted, NEW t \in Threads, PopFree(t)
  PROVE  FramesAccounted'
PROOF
<1>1. PICK f \in free_list : free_list' = free_list \ {f} /\ slot' = [slot EXCEPT ![t] = f]
  BY DEF PopFree
<1>2. /\ pc[t] = "get_free" /\ pc' = [pc EXCEPT ![t] = "load"]
      /\ UNCHANGED <<lru, page_table>>
  BY DEF PopFree
<1>3. Has(t, f)'
  BY <1>1, <1>2 DEF Has, CInv, RInv, IInv, TypeOK, CallTypes
<1>4. \A k \in Frames, u \in Threads : Has(u, k) => Has(u, k)'
  BY <1>1, <1>2 DEF Has, CInv, RInv, IInv, TypeOK, CallTypes
<1>5. \A k \in Frames : Listed(k) => Listed(k)'
  BY <1>2 DEF Listed
<1> SUFFICES ASSUME NEW k \in Frames
             PROVE  k \in free_list' \/ Listed(k)' \/ \E u \in Threads : Has(u, k)'
  BY DEF FramesAccounted, Listed, Has
<1>6. k \in free_list \/ Listed(k) \/ \E u \in Threads : Has(u, k)
  BY DEF FramesAccounted, Listed, Has
<1> QED
  BY <1>1, <1>3, <1>4, <1>5, <1>6

\* Steps that leave the lists alone, and the call's frame in its hand
LEMMA QuietAccounted ==
  ASSUME FramesAccounted, NEW t \in Threads, OthersWait(t),
         UNCHANGED <<free_list, lru, page_table>>,
         \A f \in Frames : Has(t, f) => Has(t, f)'
  PROVE  FramesAccounted'
PROOF
<1>1. \A f \in Frames : Listed(f) => Listed(f)'
  BY DEF Listed
<1> QED
  BY <1>1, StillAccounted

\* A call goes on
LEMMA ContinueAccounted ==
  ASSUME Setting, CInv, PInv, FramesAccounted, NEW t \in Threads, Continue(t)
  PROVE  FramesAccounted'
PROOF
<1>1. /\ pc \in [Threads -> Labels] /\ want \in [Threads -> PageIds \cup {None}]
      /\ slot \in [Threads -> MaybeFrame]
  BY DEF CInv, RInv, IInv, TypeOK, CallTypes
<1>2. CASE FindFrame(t)
  BY <1>2, LoadsSucceed, PopFreeAccounted
  DEF FindFrame, PInv, NoEviction, Scanning, ScanPinned, ScanEmpty, ScanVictim,
    ScanExhausted, VictimGone, VictimSaved, VictimWriteFails, Unmap
<1>3. CASE HitTouch(t) \/ PublishTouch(t)
  BY <1>3, TouchAccounted
<1>4. CASE Publish(t)
  BY <1>4, PublishAccounted
<1>5. CASE HitPin(t)
  <2>1. /\ OthersWait(t) /\ pc[t] = "hit_frame"
        /\ UNCHANGED <<free_list, lru, page_table>>
    BY <1>1, <1>5 DEF HitPin, Goto, Panic, OthersWait, index
  <2> QED
    BY <2>1, QuietAccounted DEF Has
<1>6. CASE ReadPage(t) \/ Allocate(t) \/ Install(t)
  <2>1. /\ OthersWait(t) /\ pc'[t] \in {"install", "publish"}
        /\ UNCHANGED <<slot, free_list, lru, page_table>>
    BY <1>1, <1>6 DEF ReadPage, Allocate, Install, Goto, OthersWait, pool, index
  <2> QED
    BY <2>1, QuietAccounted DEF Has
<1>7. CASE FlushNext(t) \/ FlushClean(t) \/ FlushWrite(t) \/ FlushFails(t)
  <2>1. /\ OthersWait(t) /\ pc[t] \in {"flush_next", "flush"}
        /\ UNCHANGED <<free_list, lru, page_table>>
    BY <1>1, <1>7 DEF FlushNext, FlushClean, FlushWrite, FlushFails, Return, OthersWait,
      pool, index
  <2> QED
    BY <2>1, QuietAccounted DEF Has
<1> QED
  BY <1>2, <1>3, <1>4, <1>5, <1>6, <1>7, LoadsSucceed DEF Continue

\* What a caller starts, or does with a guard
LEMMA BeginAccounted ==
  ASSUME CInv, FramesAccounted, NEW t \in Threads, Begin(t)
  PROVE  FramesAccounted'
PROOF
<1>1. /\ pc \in [Threads -> Labels] /\ want \in [Threads -> PageIds \cup {None}]
      /\ slot \in [Threads -> MaybeFrame]
  BY DEF CInv, RInv, IInv, TypeOK, CallTypes
<1>2. CASE \/ \E p \in PageIds : FetchHit(t, p) \/ FetchMiss(t, p) \/ FlushPage(t, p)
           \/ StartNewPage(t) \/ FlushAll(t)
  <2>1. OthersWait(t)
    BY <1>2, BeginQuiet DEF Quiet
  <2>2. pc[t] = "idle" /\ UNCHANGED <<free_list, lru, page_table>>
    BY <1>2 DEF FetchHit, FetchMiss, FlushPage, StartFlush, StartNewPage, FlushAll,
      MayFetch, pool, index
  <2> QED
    BY <2>1, <2>2, QuietAccounted DEF Has
<1>3. CASE \E h \in Handles : WriteGuard(t, h) \/ UseOfEmptyFrame(t, h) \/ DropGuard(t, h)
  <2>1. /\ OthersWait(t) /\ pc[t] = "idle"
        /\ UNCHANGED <<free_list, lru, page_table>>
    BY <1>1, <1>3 DEF WriteGuard, UseOfEmptyFrame, DropGuard, Panic, OthersWait,
      pool, index, call
  <2> QED
    BY <2>1, QuietAccounted DEF Has
<1> QED
  BY <1>2, <1>3 DEF Begin

-----------------------------------------------------------------------------
(***************************************************************************)
(* The theorems.                                                           *)
(***************************************************************************)
\* The inductive invariant
BInv == CInv /\ PInv /\ FramesAccounted

\* A pool just opened has all its frames in the free list
LEMMA InitialBounded == ASSUME Setting PROVE BoundedInit => BInv
PROOF
<1> SUFFICES ASSUME BoundedInit PROVE BInv
  OBVIOUS
<1>1. Init
  BY DEF BoundedInit
<1>2. CInv
  BY <1>1, InitialCareful
<1>3. Waiting = {} /\ Unnumbered = {}
  BY <1>1 DEF Init, Waiting, Unnumbered
<1>4. Cardinality(Waiting) = 0 /\ Cardinality(Unnumbered) = 0
  BY <1>3, FS_EmptySet
<1>5. file_len + 0 <= MaxPages /\ Cardinality(free_list) \in Nat
  BY <1>1, FS_CardinalityType, ConstantsAssumption DEF Init, Setting
<1>6. PInv
  BY <1>1, <1>4, <1>5 DEF PInv, InPlace, NoEviction, Waiting, Unnumbered, Init, Loading
<1>7. FramesAccounted
  BY <1>1 DEF Init, FramesAccounted
<1> QED
  BY <1>2, <1>6, <1>7 DEF BInv

\* A step is one of the pool, or leaves the pool alone
LEMMA BoundedIsNext == [BoundedNext]_<<vars, made>> => [Next]_vars
PROOF
BY DEF BoundedNext, Call, GoOn, Finished, Next

\* The invariant of callers that keep to InPlace is inductive
LEMMA BoundedStep ==
  ASSUME Setting PROVE BInv /\ [BoundedNext]_<<vars, made>> => BInv'
PROOF
<1> SUFFICES ASSUME BInv, [BoundedNext]_<<vars, made>> PROVE BInv'
  OBVIOUS
<1>1. CInv /\ PInv /\ FramesAccounted
  BY DEF BInv
<1>2. CInv'
  <2>1. Careful
    BY <1>1, InPlaceIsCareful DEF CInv, RInv
  <2> QED
    BY <1>1, <2>1, CarefulStep, BoundedIsNext DEF Setting
<1>3. ASSUME NEW t \in Threads, Call(t)
      PROVE  PInv' /\ FramesAccounted'
  BY <1>1, <1>3, CallInPlace, BeginAccounted DEF Call
<1>4. ASSUME NEW t \in Threads, GoOn(t)
      PROVE  PInv' /\ FramesAccounted'
  BY <1>1, <1>4, ContinueInPlace, ContinueAccounted DEF GoOn
<1>5. ASSUME UNCHANGED vars
      PROVE  PInv' /\ FramesAccounted'
  BY <1>1, <1>5 DEF PInv, InPlace, Loading, NoEviction, FramesAccounted,
    vars, pool, index, disk, call
<1>6. PInv' /\ FramesAccounted'
  BY <1>3, <1>4, <1>5 DEF BoundedNext, Finished
<1> QED
  BY <1>2, <1>6 DEF BInv

\* It holds at every moment of such callers' behaviours
LEMMA BoundedHold == ASSUME Setting PROVE BoundedSpec => []BInv
PROOF
<1>1. BoundedInit => BInv
  BY InitialBounded
<1>2. BInv /\ [BoundedNext]_<<vars, made>> => BInv'
  BY BoundedStep
<1> QED
  BY <1>1, <1>2, PTL DEF BoundedSpec

(***************************************************************************)
(* Every frame is free, in the LRU order and the table, or in the hands of *)
(* a call: however many callers interleave, none is lost, as long as they  *)
(* keep to InPlace and nothing fails.                                      *)
(***************************************************************************)
THEOREM InPlaceLosesNoFrame == ASSUME Setting PROVE BoundedSpec => []FramesAccounted
PROOF
<1>1. BInv => FramesAccounted
  BY DEF BInv
<1> QED
  BY <1>1, BoundedHold, PTL

(***************************************************************************)
(* Callers that keep to InPlace, however many they are, keep their pages,  *)
(* see what was last written, and never run into a panic.                  *)
(***************************************************************************)
THEOREM InPlaceSeesItsWrites ==
  ASSUME Setting
  PROVE  BoundedSpec => [](GuardsKeepPage /\ PinsCountGuards /\ GuardsSeeLatest
                           /\ CleanMeansOnDisk /\ Running)
PROOF
<1>1. BInv => /\ GuardsKeepPage /\ PinsCountGuards /\ GuardsSeeLatest
              /\ CleanMeansOnDisk /\ Running
  BY GuardsSee DEF BInv, CInv, Structure, Contents
<1> QED
  BY <1>1, BoundedHold, PTL

=============================================================================
