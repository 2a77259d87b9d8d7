------------------------------ MODULE PageFile ------------------------------
(***************************************************************************)
(* The tablespace file of src/page/file_manager.rs with the checksums of   *)
(* src/page/page.rs, below one page at a time that holds a tree node.      *)
(*                                                                         *)
(* What was written is in the operating system's cache until sync_all.  A  *)
(* power failure leaves every sector of a page in any of the versions it   *)
(* had since the last sync, and the file with any length in between.       *)
(*                                                                         *)
(* The checksum of a page is the content it was computed from, so that two *)
(* contents never have the same one.  A page of zeros has checksum 0,      *)
(* which is that of no content.  The trailer's copy of the checksum, which *)
(* nothing compares, is left out.                                          *)
(***************************************************************************)
EXTENDS NodeBytes

CONSTANTS
  Nodes,        \* nodes that callers store
  Cuts,         \* cells of a page's data before a border between two sectors
  MaxPages,     \* bound on the pages of the file
  MaxWrites,    \* bound on the nodes stored
  MaxFaults     \* bound on failing writes, restarts and power failures

ASSUME PageFileAssumption ==
  /\ Cuts # {} /\ Cuts \subseteq 1 .. DataSize - 1
  /\ {MaxPages, MaxWrites, MaxFaults} \subseteq Nat
  /\ MaxPages < PageModulus

PageNos == 0 .. MaxPages - 1
Cell == Nat
Page == [sum : Seq(Cell), no : PageNos, data : Seq(Cell)]
CachedPage == [from : PageNos, page : Page, fresh : BOOLEAN, dirty : BOOLEAN]

\* serialize returns bytes, and an Option is None or something else
ASSUME NodesAssumption == \A node \in Nodes : Serialize(node) \in Seq(Nat)
ASSUME NoneAssumption == None \notin CachedPage

VARIABLES
  file,       \* page number -> page, for the whole pages of the file
  tail,       \* the file goes on after them, for less than a page
  synced,     \* the file at the last sync_all
  unsynced,   \* what writes have left on its pages since then
  cached,     \* None, or the page in memory and where it was read from
  given,      \* page number -> nodes stored there (only for properties)
  durable,    \* page number -> page last written durably, None after another
              \* attempt to write it (only for properties)
  writes, faults

disk == <<file, tail, synced, unsynced>>
vars == <<disk, cached, given, durable, writes, faults>>

-----------------------------------------------------------------------------
Zeros == [i \in 1 .. DataSize |-> 0]
ZeroPage == [sum |-> <<>>, no |-> 0, data |-> Zeros]

\* A bug: the checksum is that of the first sector
ChecksumOfHeader(page) == <<page.no>> \o SubSeq(page.data, 1, Min(Cuts))

ComputeChecksum(page) == <<page.no>> \o page.data
WithChecksum(page) == [page EXCEPT !.sum = ComputeChecksum(page)]
VerifyChecksum(page) == page.sum = ComputeChecksum(page)

\* The first sectors of one page with the last ones of another
Torn(first, last, k) ==
  [first EXCEPT !.data = SubSeq(first.data, 1, k) \o SubSeq(last.data, k + 1, DataSize)]

\* A bug: a page that is not there as a whole counts
PageCountRoundedUp == Cardinality(DOMAIN file) + (IF tail THEN 1 ELSE 0)

\* page_count, and the number allocate_page takes: the length is rounded down
PageCount == Cardinality(DOMAIN file)

\* A bug: the file ends behind the page that is written
WritePageTruncates(page) ==
  /\ file' = [n \in 0 .. page.no |->
                IF n = page.no THEN page
                ELSE IF n \in DOMAIN file THEN file[n] ELSE ZeroPage]
  /\ tail' = FALSE

\* write_page: the page goes where its header says, behind zeros if need be
WritePage(page) ==
  /\ file' = [n \in DOMAIN file \cup 0 .. page.no |->
                IF n = page.no THEN page
                ELSE IF n \in DOMAIN file THEN file[n] ELSE ZeroPage]
  /\ tail' = (tail /\ page.no \in DOMAIN file)

\* write_all stops before it begins, or between two sectors
WritePageFails(page) ==
  \/ UNCHANGED <<file, tail>>
  \/ /\ page.no \in DOMAIN file
     /\ \E k \in Cuts : file' = [file EXCEPT ![page.no] = Torn(page, @, k)]
     /\ UNCHANGED tail
  \/ /\ page.no \notin DOMAIN file
     /\ tail' = TRUE
     /\ UNCHANGED file

\* What a write has left there may reach the disk at any time
Unsynced(no) ==
  /\ unsynced' = unsynced \cup {[no |-> n, page |-> file'[n]] : n \in {no} \cap DOMAIN file'}
  /\ durable' = [durable EXCEPT ![no] = None]
  /\ UNCHANGED synced

Fault == faults < MaxFaults /\ faults' = faults + 1

-----------------------------------------------------------------------------
Init ==
  /\ file = <<>> /\ tail = FALSE
  /\ synced = <<>> /\ unsynced = {}
  /\ cached = None
  /\ given = [n \in PageNos |-> <<>>]
  /\ durable = [n \in PageNos |-> None]
  /\ writes = 0 /\ faults = 0

\* The page in memory may be given up
Free == cached # None => ~cached.dirty

InMemory(no, page, fresh) ==
  [from |-> no, page |-> page, fresh |-> fresh, dirty |-> FALSE]

\* allocate_page; nobody has a page of this number any more
Allocate ==
  LET page == WithChecksum([ZeroPage EXCEPT !.no = PageCount])
  IN /\ Free /\ PageCount < MaxPages
     /\ WritePage(page) /\ Unsynced(page.no)
     /\ cached' = InMemory(page.no, page, TRUE)
     /\ given' = [given EXCEPT ![page.no] = <<>>]
     /\ UNCHANGED <<writes, faults>>

AllocateFails ==
  LET page == WithChecksum([ZeroPage EXCEPT !.no = PageCount])
  IN /\ Free /\ PageCount < MaxPages
     /\ Fault
     /\ WritePageFails(page) /\ Unsynced(page.no)
     /\ cached' = None
     /\ UNCHANGED <<given, writes>>

\* read_page, which does not look at the page; behind the last whole page it
\* returns an error and nothing changes
Load(no) ==
  /\ Free
  /\ no \in DOMAIN file
  /\ cached' = InMemory(no, file[no], FALSE)
  /\ UNCHANGED <<disk, given, durable, writes, faults>>

\* The tree reads what is in a page before it writes to it, unless it is new
MayStore == cached # None /\ (cached.fresh \/ Deserialize(cached.page.data) # None)

\* A bug: the page is not marked dirty
StoreUnmarked(node) ==
  /\ MayStore /\ Fits(Serialize(node))
  /\ writes < MaxWrites /\ writes' = writes + 1
  /\ cached' = [cached EXCEPT !.page.data = Overwritten(@, Serialize(node)),
                              !.fresh = FALSE]
  /\ given' = [given EXCEPT ![cached.page.no] = Append(@, node)]
  /\ UNCHANGED <<disk, durable, faults>>

Store(node) ==
  /\ MayStore /\ Fits(Serialize(node))
  /\ writes < MaxWrites /\ writes' = writes + 1
  /\ cached' = [cached EXCEPT !.page.data = Overwritten(@, Serialize(node)),
                              !.fresh = FALSE, !.dirty = TRUE]
  /\ given' = [given EXCEPT ![cached.page.no] = Append(@, node)]
  /\ UNCHANGED <<disk, durable, faults>>

\* unwrap() of OutOfBounds under the frame's lock: the drop of the guard then
\* meets the poisoned lock in the middle of the panic, and the process aborts
StoreTooLong(node) ==
  /\ MayStore /\ ~Fits(Serialize(node))
  /\ Fault
  /\ cached' = None
  /\ UNCHANGED <<disk, given, durable, writes>>

\* flush_page and the eviction of a dirty page
Save ==
  /\ cached # None /\ cached.dirty
  /\ WritePage(WithChecksum(cached.page)) /\ Unsynced(cached.page.no)
  /\ cached' = [cached EXCEPT !.page = WithChecksum(@), !.dirty = FALSE]
  /\ UNCHANGED <<given, writes, faults>>

SaveFails ==
  /\ cached # None /\ cached.dirty
  /\ Fault
  /\ WritePageFails(WithChecksum(cached.page)) /\ Unsynced(cached.page.no)
  /\ cached' = [cached EXCEPT !.page = WithChecksum(@)]
  /\ UNCHANGED <<given, writes>>

\* A bug: the file is synced before the page is written
SaveDurableLate ==
  LET page == WithChecksum(cached.page)
  IN /\ cached # None /\ cached.dirty
     /\ WritePage(page)
     /\ synced' = file
     /\ unsynced' = {[no |-> page.no, page |-> page]}
     /\ durable' = [durable EXCEPT ![page.no] = page]
     /\ cached' = [cached EXCEPT !.page = page, !.dirty = FALSE]
     /\ UNCHANGED <<given, writes, faults>>

\* The same with write_page_durable, which syncs the whole file
SaveDurable ==
  LET page == WithChecksum(cached.page)
  IN /\ cached # None /\ cached.dirty
     /\ WritePage(page)
     /\ synced' = file' /\ unsynced' = {}
     /\ durable' = [durable EXCEPT ![page.no] = page]
     /\ cached' = [cached EXCEPT !.page = page, !.dirty = FALSE]
     /\ UNCHANGED <<given, writes, faults>>

SyncFails ==
  LET page == WithChecksum(cached.page)
  IN /\ cached # None /\ cached.dirty
     /\ Fault
     /\ WritePage(page) /\ Unsynced(page.no)
     /\ cached' = [cached EXCEPT !.page = page]
     /\ UNCHANGED <<given, writes>>

-----------------------------------------------------------------------------
\* The process stops; what it wrote is still in the operating system's cache
Restart ==
  /\ Fault
  /\ cached # None /\ cached' = None
  /\ UNCHANGED <<disk, given, durable, writes>>

\* The versions of a page its sectors may be found in after a power failure
Versions(no) ==
  {IF no \in DOMAIN synced THEN synced[no] ELSE ZeroPage}
  \cup {w.page : w \in {v \in unsynced : v.no = no}}

Survivors(no) ==
  Versions(no) \cup {Torn(a, b, k) : a \in Versions(no), b \in Versions(no), k \in Cuts}

PowerFailure ==
  /\ Fault
  /\ \E count \in Cardinality(DOMAIN synced) .. Cardinality(DOMAIN file) :
       LET pages == 0 .. count - 1
       IN /\ file' \in {f \in [pages -> UNION {Survivors(n) : n \in pages}] :
                          \A n \in pages : f[n] \in Survivors(n)}
          /\ tail' \in {FALSE, tail \/ count \in DOMAIN file}
  /\ synced' = file' /\ unsynced' = {}
  /\ cached' = None
  /\ UNCHANGED <<given, durable, writes>>

-----------------------------------------------------------------------------
Next ==
  \/ Allocate \/ AllocateFails
  \/ \E no \in PageNos : Load(no)
  \/ \E node \in Nodes : Store(node) \/ StoreTooLong(node)
  \/ Save \/ SaveFails \/ SaveDurable \/ SyncFails
  \/ Restart \/ PowerFailure

Spec == Init /\ [][Next]_vars

-----------------------------------------------------------------------------
(***************************************************************************)
(* Types.  Pages keep their size, and the file never gets shorter than it  *)
(* was at the last sync_all: write_page neither cuts it off nor moves its  *)
(* end (src/page/file_manager.rs).                                         *)
(***************************************************************************)
TypeOK ==
  LET pages == {file[n] : n \in DOMAIN file} \cup {w.page : w \in unsynced}
               \cup (IF cached = None THEN {} ELSE {cached.page})
  IN /\ DOMAIN file = 0 .. PageCount - 1 /\ DOMAIN file \subseteq PageNos
     /\ DOMAIN synced \subseteq DOMAIN file
     /\ tail \in BOOLEAN
     /\ pages \subseteq Page
     /\ \A p \in pages : Len(p.data) = DataSize
     /\ writes \in 0 .. MaxWrites /\ faults \in 0 .. MaxFaults

\* deserialize undoes serialize, whatever the page held before
ReadsBack(node, data) ==
  Fits(Serialize(node)) => Deserialize(Overwritten(data, Serialize(node))) = node

(***************************************************************************)
(* A node that was stored in a page is read back as it was, whatever the   *)
(* page held before: lengths are not cut off at 16 bits, the number that   *)
(* stands for "none" is no page's, and the rest of a longer node is not    *)
(* taken for entries.  So it is from the file too, if nothing went wrong.  *)
(***************************************************************************)
Unsaved(no) == cached # None /\ cached.dirty /\ cached.page.no = no

NodesReadBack ==
  /\ \A n \in PageNos : Unsaved(n) => Deserialize(cached.page.data) = Last(given[n])
  /\ faults = 0 =>
       \A n \in DOMAIN file :
         given[n] = <<>> \/ Unsaved(n) \/ Deserialize(file[n].data) = Last(given[n])

(***************************************************************************)
(* A page whose checksum verifies is the page of that number and is new or *)
(* holds a node that was stored there, although writes stop between        *)
(* sectors and power fails: verify_checksum tells torn pages.              *)
(***************************************************************************)
IntactMeansStored ==
  \A n \in DOMAIN file : VerifyChecksum(file[n]) =>
    /\ file[n].no = n
    /\ file[n].data = Zeros \/ Deserialize(file[n].data) \in ToSet(given[n])

(***************************************************************************)
(* The keys of an intact node are in the order of the numbers they were    *)
(* made from, compared as bytes and as numbers alike: the binary searches  *)
(* in nodes rest on it (the comment on Key in src/btree/key.rs).           *)
(***************************************************************************)
KeysInOrder ==
  \A n \in DOMAIN file : VerifyChecksum(file[n]) /\ file[n].data # Zeros =>
    LET entries == Deserialize(file[n].data).entries IN
    \A i, j \in DOMAIN entries : i < j =>
      /\ KeyBefore(entries[i].key, entries[j].key)
      /\ ~KeyBefore(entries[j].key, entries[i].key)
      /\ NumberOf(entries[i].key) < NumberOf(entries[j].key)

(***************************************************************************)
(* No page is written over another one.  A power failure may leave a page  *)
(* of zeros, whose header says that it is page 0; it is never written back *)
(* only because deserialize panics on it.                                  *)
(***************************************************************************)
WrittenInPlace == cached # None /\ cached.dirty => cached.page.no = cached.from

(***************************************************************************)
(* What write_page_durable has written survives every failure until the    *)
(* page is written again (the comment on write_page_durable).              *)
(***************************************************************************)
DurableSurvives ==
  \A n \in PageNos : durable[n] # None => n \in DOMAIN file /\ file[n] = durable[n]

(***************************************************************************)
(* A page number that comes into use is that of a whole, intact page: an   *)
(* allocation that failed half way leaves no hole for the next one.        *)
(***************************************************************************)
NewPagesWhole ==
  [][\A n \in DOMAIN file' \ DOMAIN file :
       file'[n].no = n /\ VerifyChecksum(file'[n])]_vars
=============================================================================
