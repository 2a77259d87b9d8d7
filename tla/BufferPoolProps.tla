--------------------------- MODULE BufferPoolProps ---------------------------
(***************************************************************************)
(* What src/buffer/buffer_pool.rs should guarantee to its callers, and the *)
(* facts about its own structures those guarantees rest on.                *)
(***************************************************************************)
EXTENDS BufferPool, FiniteSets

MaybePage  == Page \cup {None}
MaybeFrame == Frames \cup {None}

Labels == {"idle", "hit_frame", "hit_lru", "get_free", "scan", "victim", "unmap",
           "load", "install", "publish", "publish_lru", "flush_next", "flush",
           "panicked"}

\* Between which labels a call has a frame index, and a page of its own
WithSlot   == {"hit_frame", "hit_lru", "victim", "unmap", "load", "install",
               "publish", "publish_lru", "flush"}
WithWanted == {"hit_frame", "hit_lru", "install", "publish", "publish_lru"}

SharedTypes ==
  /\ page_table \in [PageIds -> MaybeFrame]
  /\ frames \in [Frames -> BufferFrame \cup {None}]
  /\ lru \in Seq(Frames)
  /\ free_list \subseteq Frames
  /\ file_len \in 0 .. MaxPages
  /\ file \in [PageNos -> MaybePage]
  /\ \A n \in PageNos : n < file_len => file[n] \in Page
  /\ latest \in [PageNos -> Int]

CallTypes ==
  /\ pc \in [Threads -> Labels]
  /\ want \in [Threads -> PageIds \cup {None}]
  /\ slot \in [Threads -> MaybeFrame]
  /\ loaded \in [Threads -> MaybePage]
  /\ candidates \in [Threads -> Seq(Frames)]
  /\ todo \in [Threads -> SUBSET PageIds]
  /\ guards \in [Threads -> [Handles -> PageGuard \cup {None}]]
  /\ \A t \in Threads :
       /\ pc[t] \in WithSlot => slot[t] \in Frames
       /\ pc[t] \in WithWanted => want[t] \in PageIds
       /\ pc[t] = "install" => loaded[t] \in Page

TypeOK == SharedTypes /\ CallTypes

-----------------------------------------------------------------------------
\* The page cached in a frame
Cached(f) == frames[f].page

\* The pairs of a thread and one of its guards' handles
Held == {th \in Threads \X Handles : guards[th[1]][th[2]] # None}
GuardOf(th) == guards[th[1]][th[2]]

(***************************************************************************)
(* A guard keeps its page: the frame it names holds the page it was asked  *)
(* for until the guard is dropped (the comment on fetch_page).             *)
(***************************************************************************)
GuardsKeepPage ==
  \A th \in Held :
    LET g == GuardOf(th) IN
    frames[g.frame] # None /\ Cached(g.frame).id = g.id

(***************************************************************************)
(* A pin count is the number of guards on the frame, with the calls that   *)
(* have pinned it and have yet to return their guard: a frame is neither   *)
(* kept for ever nor given away while it is used.                          *)
(***************************************************************************)
Pinning(f) == {t \in Threads : pc[t] \in {"hit_lru", "publish", "publish_lru"}
                               /\ slot[t] = f}
PinsCountGuards ==
  \A f \in Frames : frames[f] # None =>
    frames[f].pin = Cardinality({th \in Held : GuardOf(th).frame = f})
                    + Cardinality(Pinning(f))

(***************************************************************************)
(* A guard shows what was last written to its page, by whichever thread:   *)
(* there is one copy of a page in memory, and it is the newest.            *)
(***************************************************************************)
GuardsSeeLatest ==
  \A th \in Held :
    LET g == GuardOf(th) IN
    frames[g.frame] # None => Cached(g.frame).val = latest[g.id.no]

\* The table leads to a frame that holds the page, and no frame has two entries
TableMatchesFrames ==
  \A p \in PageIds : page_table[p] # None =>
    frames[page_table[p]] # None /\ Cached(page_table[p]).id = p

(***************************************************************************)
(* For its callers the pool is the file: what fetch_page would show of a   *)
(* page changes with a write through a guard and with nothing else (not    *)
(* when the page is loaded, evicted, or fails to be written).  What the    *)
(* file holds, which is what a restart comes back to, only ever becomes    *)
(* the version callers see or, when a write fails, a mixture that nobody   *)
(* is shown before a restart.                                              *)
(***************************************************************************)
FileId(n) == [space |-> FileSpace, no |-> n]
Stored(n) == IF file[n] = None THEN 0 ELSE file[n].val
Visible(n) ==
  LET f == page_table[FileId(n)] IN
  IF f # None /\ frames[f] # None THEN Cached(f).val ELSE Stored(n)

Store == INSTANCE PageStore WITH
  WritesFail <- IOErrors,
  len <- file_len,
  mem <- [n \in PageNos |-> Visible(n)],
  durable <- [n \in PageNos |-> Stored(n)]

ImplementsPageStore == Store!Spec

\* A frame that is not dirty holds what the file holds: it may be dropped
CleanMeansOnDisk ==
  \A f \in Frames :
    frames[f] # None /\ ~frames[f].dirty =>
      Cached(f).val = file[Cached(f).id.no].val

(***************************************************************************)
(* Frames of the free list have never been used: they are empty, and       *)
(* neither the table, the LRU list, a call nor a guard knows them.         *)
(***************************************************************************)
FreeFramesUntouched ==
  \A f \in free_list :
    /\ frames[f] = None
    /\ f \notin ToSet(lru)
    /\ \A p \in PageIds : page_table[p] # f
    /\ \A t \in Threads :
         /\ slot[t] # f
         /\ f \notin ToSet(candidates[t])
         /\ \A h \in Handles : guards[t][h] # None => guards[t][h].frame # f

(***************************************************************************)
(* Whatever the threads do, the page stored at an offset of the file is    *)
(* the page of that number, and a page in a frame, or in the hands of a    *)
(* call that has read it, bears the number of a page of the file: no page  *)
(* is ever written over another one, nor past the end.                     *)
(***************************************************************************)
OnFile(id) == id.space = FileSpace /\ id.no < file_len

PagesSelfIdentifying ==
  /\ \A n \in PageNos : n < file_len => file[n].id = FileId(n)
  /\ \A f \in Frames : frames[f] # None => OnFile(Cached(f).id)
  /\ \A t \in Threads : loaded[t] # None => OnFile(loaded[t].id)

(***************************************************************************)
(* As long as no write stops half way, a page of the file, one a call has  *)
(* read, and one in a frame that need not be written has the checksum of   *)
(* its data: flush_page and evict_frame both call update_checksum before   *)
(* they write, and a page changed through a guard is written again.        *)
(***************************************************************************)
Summed(page) == page.sum = page.val

ChecksumsValid ==
  ~IOErrors =>
    /\ \A n \in 0 .. file_len - 1 : Summed(file[n])
    /\ \A f \in Frames : frames[f] # None /\ ~frames[f].dirty => Summed(Cached(f))
    /\ \A t \in Threads : loaded[t] # None => Summed(loaded[t])

\* A frame is in the LRU order once, counting the frames evict_one set aside
LruDistinct ==
  LET seqs == {lru} \cup {candidates[t] : t \in Threads} IN
  /\ \A s \in seqs : IsInjective(s)
  /\ \A t \in Threads : ToSet(lru) \cap ToSet(candidates[t]) = {}

(***************************************************************************)
(* The error "buffer pool is full: all frames are pinned" is only returned *)
(* when all frames are pinned.                                             *)
(***************************************************************************)
GivesUp(t) == pc[t] = "scan" /\ pc'[t] = "idle" /\ frames' = frames
FullMeansPinned ==
  [][\A t \in Threads : GivesUp(t) =>
       \A f \in Frames : frames[f] # None /\ frames[f].pin > 0]_vars

\* Every call returns, with a page or an error
CallsReturn ==
  \A t \in Threads : pc[t] \notin {"idle", "panicked"} ~> pc[t] \in {"idle", "panicked"}
=============================================================================
