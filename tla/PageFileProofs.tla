--------------------------- MODULE PageFileProofs ---------------------------
(***************************************************************************)
(* What the tablespace file keeps through torn writes, failing appends,    *)
(* restarts and power failures: for any number of pages, any sectors and   *)
(* any number of faults.                                                   *)
(***************************************************************************)
EXTENDS PageFile, FiniteSetTheorems, SequenceTheorems, TLAPS

-----------------------------------------------------------------------------
(***************************************************************************)
(* The inductive invariant.                                                *)
(***************************************************************************)
\* A page of full size
FilePage == {p \in Page : Len(p.data) = DataSize}

\* The files begin at page 0, and the synced one is not the longer one
SyncedCount == Cardinality(DOMAIN synced)
Sized ==
  /\ PageCount \in 0 .. MaxPages /\ file \in [0 .. PageCount - 1 -> FilePage]
  /\ SyncedCount \in 0 .. PageCount /\ synced \in [0 .. SyncedCount - 1 -> FilePage]

Typed ==
  /\ tail \in BOOLEAN
  /\ unsynced \subseteq [no : PageNos, page : FilePage]
  /\ durable \in [PageNos -> FilePage \cup {None}]
  /\ writes \in 0 .. MaxWrites /\ faults \in 0 .. MaxFaults

\* A page stands at its own number, or has no node in it
InPlace(page, n) == page.no = n \/ page.data[1] = 0

Numbered ==
  /\ \A n \in DOMAIN file : InPlace(file[n], n)
  /\ \A n \in DOMAIN synced : InPlace(synced[n], n)
  /\ \A w \in unsynced : InPlace(w.page, w.no)

\* So does the page in memory, which has its own number if it may be written
CachedInPlace ==
  /\ cached \in CachedPage \cup {None}
  /\ cached # None => cached.page \in FilePage
  /\ cached # None => /\ cached.from \in DOMAIN file
                      /\ InPlace(cached.page, cached.from)
                      /\ cached.fresh \/ cached.dirty => cached.page.no = cached.from

\* What was written durably was synced, and nothing was written over it since
KeptDurable ==
  \A n \in PageNos : durable[n] # None =>
    /\ n \in DOMAIN file /\ file[n] = durable[n]
    /\ n \in DOMAIN synced /\ synced[n] = durable[n]
    /\ \A w \in unsynced : w.no # n

FInv == Sized /\ Typed /\ Numbered /\ CachedInPlace /\ KeptDurable

-----------------------------------------------------------------------------
(***************************************************************************)
(* Pages.                                                                  *)
(***************************************************************************)
\* The constants are numbers
LEMMA Numbers ==
  /\ DataSize \in Nat /\ DataSize > 3 /\ MaxPages \in Nat
  /\ MaxWrites \in Nat /\ MaxFaults \in Nat
  /\ \A k \in Cuts : k \in Nat /\ k >= 1 /\ k < DataSize
PROOF
BY NodeBytesAssumption, PageFileAssumption

\* A sequence of the first cells of one and the last cells of another
LEMMA TornData ==
  ASSUME NEW r \in Seq(Nat), NEW s \in Seq(Nat), NEW k \in Cuts,
         Len(r) = DataSize, Len(s) = DataSize
  PROVE  LET d == SubSeq(r, 1, k) \o SubSeq(s, k + 1, DataSize)
         IN /\ d \in Seq(Nat) /\ Len(d) = DataSize
            /\ \A i \in 1 .. DataSize : d[i] = IF i <= k THEN r[i] ELSE s[i]
PROOF
<1> DEFINE u == SubSeq(r, 1, k)
           v == SubSeq(s, k + 1, DataSize)
           d == u \o v
<1>1. k \in Nat /\ k >= 1 /\ k < DataSize /\ DataSize \in Nat
  BY Numbers
<1>2. u \in Seq(Nat) /\ Len(u) = k /\ \A i \in 1 .. k : u[i] = r[i]
  <2>1. \A i \in 1 .. k : r[i] \in Nat
    BY <1>1, ElementOfSeq
  <2>2. /\ SubSeq(r, 1, k) \in Seq(Nat)
        /\ Len(SubSeq(r, 1, k)) = IF 1 <= k THEN k - 1 + 1 ELSE 0
        /\ \A i \in 1 .. k - 1 + 1 : SubSeq(r, 1, k)[i] = r[1 + i - 1]
    BY <1>1, <2>1, SubSeqProperties
  <2> QED
    BY <1>1, <2>2
<1>3. /\ v \in Seq(Nat) /\ Len(v) = DataSize - k
      /\ \A i \in 1 .. DataSize - k : v[i] = s[k + i]
  <2>1. k + 1 \in Int /\ DataSize \in Int /\ \A i \in k + 1 .. DataSize : s[i] \in Nat
    BY <1>1, ElementOfSeq
  <2>2. /\ SubSeq(s, k + 1, DataSize) \in Seq(Nat)
        /\ Len(SubSeq(s, k + 1, DataSize))
             = IF k + 1 <= DataSize THEN DataSize - (k + 1) + 1 ELSE 0
        /\ \A i \in 1 .. DataSize - (k + 1) + 1 :
             SubSeq(s, k + 1, DataSize)[i] = s[(k + 1) + i - 1]
    BY <2>1, SubSeqProperties
  <2>3. k + 1 <= DataSize /\ DataSize - (k + 1) + 1 = DataSize - k
    BY <1>1
  <2>4. \A i \in 1 .. DataSize - k : (k + 1) + i - 1 = k + i
    BY <1>1
  <2> QED
    BY <2>2, <2>3, <2>4
<1> HIDE DEF u, v
<1>4. /\ u \o v \in Seq(Nat) /\ Len(u \o v) = DataSize
      /\ \A i \in 1 .. DataSize : (u \o v)[i] = IF i <= k THEN u[i] ELSE v[i - k]
  <2>1. /\ u \o v \in Seq(Nat) /\ Len(u \o v) = Len(u) + Len(v)
        /\ \A i \in 1 .. Len(u) + Len(v) :
             (u \o v)[i] = IF i <= Len(u) THEN u[i] ELSE v[i - Len(u)]
    BY <1>2, <1>3, ConcatProperties
  <2>2. Len(u) = k /\ Len(u) + Len(v) = DataSize
    BY <1>1, <1>2, <1>3
  <2> QED
    BY <2>1, <2>2
<1>5. d \in Seq(Nat) /\ Len(d) = DataSize
  BY <1>4
<1>6. ASSUME NEW i \in 1 .. DataSize
      PROVE  d[i] = IF i <= k THEN r[i] ELSE s[i]
  <2>1. d[i] = IF i <= k THEN u[i] ELSE v[i - k]
    BY <1>4
  <2>2. CASE i <= k
    BY <1>1, <1>2, <2>1, <2>2
  <2>3. CASE ~(i <= k)
    <3>1. i - k \in 1 .. DataSize - k /\ k + (i - k) = i
      BY <1>1, <2>3
    <3> QED
      BY <1>3, <2>1, <2>3, <3>1
  <2> QED
    BY <2>2, <2>3
<1> QED
  BY <1>5, <1>6 DEF d, u, v

\* A page is torn in its data, behind the first cell
LEMMA TornPage ==
  ASSUME NEW a \in FilePage, NEW b \in FilePage, NEW k \in Cuts
  PROVE  /\ Torn(a, b, k) \in FilePage
         /\ Torn(a, b, k).no = a.no /\ Torn(a, b, k).data[1] = a.data[1]
         /\ Torn(a, a, k) = a
PROOF
<1>1. /\ a.data \in Seq(Nat) /\ Len(a.data) = DataSize
      /\ b.data \in Seq(Nat) /\ Len(b.data) = DataSize
  BY DEF FilePage, Page, Cell
<1>2. 1 <= k /\ k \in Nat /\ DataSize \in Nat /\ 1 \in 1 .. DataSize
  BY Numbers
<1> DEFINE d == SubSeq(a.data, 1, k) \o SubSeq(b.data, k + 1, DataSize)
           e == SubSeq(a.data, 1, k) \o SubSeq(a.data, k + 1, DataSize)
<1>3. d \in Seq(Nat) /\ Len(d) = DataSize /\ d[1] = a.data[1]
  BY <1>1, <1>2, TornData
<1>4. e = a.data
  <2>1. e \in Seq(Nat) /\ Len(e) = DataSize /\ \A i \in 1 .. DataSize : e[i] = a.data[i]
    BY <1>1, TornData
  <2> HIDE DEF e
  <2> QED
    BY <1>1, <2>1, SeqEqual
<1>5. Torn(a, b, k) = [a EXCEPT !.data = d] /\ Torn(a, a, k) = [a EXCEPT !.data = e]
  BY DEF Torn
<1> HIDE DEF d, e
<1> QED
  BY <1>1, <1>3, <1>4, <1>5 DEF FilePage, Page, Cell

\* A page with its checksum
LEMMA Checksummed ==
  ASSUME NEW p \in FilePage
  PROVE  /\ WithChecksum(p) \in FilePage /\ VerifyChecksum(WithChecksum(p))
         /\ WithChecksum(p).no = p.no /\ WithChecksum(p).data = p.data
PROOF
<1>1. ComputeChecksum(p) \in Seq(Cell)
  BY DEF ComputeChecksum, FilePage, Page, Cell, PageNos
<1> QED
  BY <1>1 DEF WithChecksum, VerifyChecksum, ComputeChecksum, FilePage, Page

\* A page of zeros
LEMMA ZerosPage ==
  ASSUME NEW n \in PageNos
  PROVE  /\ [ZeroPage EXCEPT !.no = n] \in FilePage /\ [ZeroPage EXCEPT !.no = n].no = n
         /\ ZeroPage \in FilePage /\ ZeroPage.data[1] = 0
PROOF
<1>1. 0 \in PageNos
  BY Numbers DEF PageNos
<1>2. Zeros \in Seq(Cell) /\ Len(Zeros) = DataSize /\ Zeros[1] = 0
  BY Numbers DEF Zeros, Cell
<1>3. <<>> \in Seq(Cell)
  OBVIOUS
<1> QED
  BY <1>1, <1>2, <1>3 DEF ZeroPage, FilePage, Page

\* Storing a node in a page leaves its number and size as they are
LEMMA StoredPage ==
  ASSUME NEW p \in FilePage, NEW node \in Nodes
  PROVE  /\ [p EXCEPT !.data = Overwritten(@, Serialize(node))] \in FilePage
         /\ [p EXCEPT !.data = Overwritten(@, Serialize(node))].no = p.no
PROOF
<1> DEFINE s == Serialize(node)
           d == Overwritten(p.data, s)
<1>1. s \in Seq(Nat) /\ p.data \in Seq(Nat) /\ Len(p.data) = DataSize
  BY NodesAssumption DEF FilePage, Page, Cell
<1> HIDE DEF s
<1>2. d \in Seq(Nat) /\ Len(d) = DataSize
  <2>1. DOMAIN p.data = 1 .. DataSize /\ DataSize \in Nat
    BY <1>1, Numbers, LenProperties
  <2>2. \A i \in 1 .. DataSize : (IF i <= Len(s) THEN s[i] ELSE p.data[i]) \in Nat
    <3>1. \A i \in 1 .. DataSize : p.data[i] \in Nat
      BY <1>1, ElementOfSeq
    <3>2. Len(s) \in Nat /\ \A i \in 1 .. Len(s) : s[i] \in Nat
      BY <1>1, ElementOfSeq, LenProperties
    <3> QED
      BY <3>1, <3>2
  <2>3. d = [i \in 1 .. DataSize |-> IF i <= Len(s) THEN s[i] ELSE p.data[i]]
    BY <2>1 DEF Overwritten
  <2> QED
    BY <2>1, <2>2, <2>3
<1> HIDE DEF d
<1>3. [p EXCEPT !.data = Overwritten(@, Serialize(node))] = [p EXCEPT !.data = d]
  BY DEF d, s
<1> QED
  BY <1>2, <1>3 DEF FilePage, Page, Cell

\* What has no node type has no node
LEMMA NoNode ==
  ASSUME NEW data, data[1] = 0
  PROVE  Deserialize(data) = None
PROOF
BY DEF Deserialize, NodeTypeLeaf, NodeTypeInternal

-----------------------------------------------------------------------------
(***************************************************************************)
(* Writes.                                                                 *)
(***************************************************************************)
\* A file with so many pages
LEMMA Counted ==
  ASSUME NEW c \in Nat, NEW f, DOMAIN f = 0 .. c - 1
  PROVE  Cardinality(DOMAIN f) = c
PROOF
BY FS_Interval

\* A step that writes to a page of the file, or puts one at its end
Touches(no) ==
  /\ \E c \in PageCount .. MaxPages : file' \in [0 .. c - 1 -> FilePage]
  /\ DOMAIN file' \subseteq DOMAIN file \cup {no}
  /\ \A n \in DOMAIN file : n # no => file'[n] = file[n]
  /\ no \in DOMAIN file' => InPlace(file'[no], no)
  /\ tail' \in BOOLEAN

\* A page that is written goes where its header says
LEMMA WritePageTouches ==
  ASSUME Sized, Typed, NEW page \in FilePage, page.no <= PageCount, WritePage(page)
  PROVE  /\ Touches(page.no) /\ page.no \in DOMAIN file' /\ file'[page.no] = page
PROOF
<1> DEFINE c == IF page.no < PageCount THEN PageCount ELSE PageCount + 1
<1>1. /\ PageCount \in Nat /\ MaxPages \in Nat /\ PageCount <= MaxPages
      /\ page.no \in Nat /\ page.no < MaxPages
      /\ DOMAIN file = 0 .. PageCount - 1
      /\ \A n \in 0 .. PageCount - 1 : file[n] \in FilePage
  BY Numbers DEF Sized, FilePage, Page, PageNos
<1>2. c \in PageCount .. MaxPages /\ DOMAIN file \cup 0 .. page.no = 0 .. c - 1
  <2>1. CASE page.no < PageCount
    <3>1. c = PageCount /\ 0 .. page.no \subseteq 0 .. PageCount - 1
      BY <1>1, <2>1
    <3> HIDE DEF c
    <3> QED
      BY <1>1, <3>1
  <2>2. CASE page.no = PageCount
    <3>1. c = PageCount + 1 /\ c - 1 = page.no /\ PageCount \in Nat
      BY <1>1, <2>2
    <3>2. 0 .. PageCount - 1 \subseteq 0 .. page.no
      BY <1>1, <2>2
    <3> HIDE DEF c
    <3>3. 0 .. PageCount - 1 \cup 0 .. page.no = 0 .. c - 1
      BY <3>1, <3>2
    <3>4. c \in PageCount .. MaxPages
      BY <1>1, <2>2, <3>1
    <3> QED
      BY <1>1, <3>3, <3>4
  <2> QED
    BY <1>1, <2>1, <2>2
<1>3. file' = [n \in 0 .. c - 1 |->
                IF n = page.no THEN page
                ELSE IF n \in DOMAIN file THEN file[n] ELSE ZeroPage]
  BY <1>2 DEF WritePage
<1>4. tail' \in BOOLEAN
  BY DEF WritePage, Typed
<1>5. page.no \in 0 .. c - 1 /\ 0 .. c - 1 \subseteq 0 .. PageCount - 1 \cup {page.no}
  BY <1>1
<1> HIDE DEF c
<1>6. file' \in [0 .. c - 1 -> FilePage]
  BY <1>1, <1>3, <1>5
<1> QED
  BY <1>1, <1>2, <1>3, <1>4, <1>5, <1>6 DEF Touches, InPlace

\* A write that fails leaves a torn page or nothing new
LEMMA WriteFailsTouches ==
  ASSUME Sized, Typed, NEW page \in FilePage, WritePageFails(page),
         \A n \in DOMAIN file : InPlace(file[n], n)
  PROVE  Touches(page.no) /\ DOMAIN file' = DOMAIN file
PROOF
<1>1. /\ PageCount \in 0 .. MaxPages /\ file \in [0 .. PageCount - 1 -> FilePage]
      /\ tail \in BOOLEAN /\ PageCount \in PageCount .. MaxPages
  BY Numbers DEF Sized, Typed
<1>2. CASE UNCHANGED file /\ tail' \in BOOLEAN
  BY <1>1, <1>2 DEF Touches
<1>3. CASE /\ page.no \in DOMAIN file /\ UNCHANGED tail
           /\ \E k \in Cuts : file' = [file EXCEPT ![page.no] = Torn(page, @, k)]
  <2>1. PICK k \in Cuts : file' = [file EXCEPT ![page.no] = Torn(page, @, k)]
    BY <1>3
  <2>2. /\ Torn(page, file[page.no], k) \in FilePage
        /\ Torn(page, file[page.no], k).no = page.no
    BY <1>1, <1>3, TornPage
  <2> QED
    BY <1>1, <1>3, <2>1, <2>2 DEF Touches, InPlace
<1> QED
  BY <1>1, <1>2, <1>3 DEF WritePageFails

\* What is written is not on the disk yet, and spares what is
LEMMA TouchKeeps ==
  ASSUME FInv, NEW no \in PageNos, Touches(no), Unsynced(no),
         writes' \in 0 .. MaxWrites, faults' \in 0 .. MaxFaults
  PROVE  Sized' /\ Typed' /\ Numbered' /\ KeptDurable'
PROOF
<1>1. PICK c \in PageCount .. MaxPages : file' \in [0 .. c - 1 -> FilePage]
  BY DEF Touches
<1>2. PageCount \in Nat /\ MaxPages \in Nat /\ c \in Nat /\ DOMAIN file = 0 .. PageCount - 1
  BY <1>1, Numbers DEF FInv, Sized
<1>3. PageCount' = c
  BY <1>1, <1>2, Counted DEF PageCount
<1>4. DOMAIN file \subseteq DOMAIN file'
  BY <1>1, <1>2
<1>5. SyncedCount' = SyncedCount /\ synced' = synced
  BY DEF Unsynced, SyncedCount
<1>6. Sized'
  BY <1>1, <1>2, <1>3, <1>5 DEF FInv, Sized
<1>7. \A n \in DOMAIN file' : n # no => n \in DOMAIN file /\ file'[n] = file[n]
  BY DEF Touches
<1>8. \A w \in unsynced' :
        \/ w \in unsynced
        \/ no \in DOMAIN file' /\ w = [no |-> no, page |-> file'[no]]
  BY DEF Unsynced
<1>9. Typed'
  <2>1. \A w \in unsynced' : w \in [no : PageNos, page : FilePage]
    BY <1>1, <1>8 DEF FInv, Typed
  <2>2. durable' \in [PageNos -> FilePage \cup {None}]
    BY DEF FInv, Typed, Unsynced
  <2> QED
    BY <2>1, <2>2 DEF Typed, Touches
<1>10. Numbered'
  BY <1>5, <1>7, <1>8 DEF FInv, Numbered, Touches
<1>11. KeptDurable'
  <2> SUFFICES ASSUME NEW n \in PageNos, durable'[n] # None
               PROVE  /\ n \in DOMAIN file' /\ file'[n] = durable'[n]
                      /\ n \in DOMAIN synced' /\ synced'[n] = durable'[n]
                      /\ \A w \in unsynced' : w.no # n
    BY DEF KeptDurable
  <2>1. n # no /\ durable'[n] = durable[n]
    BY DEF Unsynced, FInv, Typed
  <2>2. /\ n \in DOMAIN file /\ file[n] = durable[n]
        /\ n \in DOMAIN synced /\ synced[n] = durable[n]
        /\ \A w \in unsynced : w.no # n
    BY <2>1 DEF FInv, KeptDurable
  <2> QED
    BY <1>4, <1>5, <1>7, <1>8, <2>1, <2>2
<1> QED
  BY <1>6, <1>9, <1>10, <1>11

-----------------------------------------------------------------------------
(***************************************************************************)
(* The inductive invariant holds.                                          *)
(***************************************************************************)
LEMMA InitFInv ==
  ASSUME Init
  PROVE  FInv
PROOF
<1>1. file = <<>> /\ synced = <<>> /\ DOMAIN file = {} /\ DOMAIN synced = {}
  BY DEF Init
<1>2. PageCount = 0 /\ SyncedCount = 0
  BY <1>1, FS_EmptySet DEF PageCount, SyncedCount
<1>3. file \in [0 .. 0 - 1 -> FilePage] /\ synced \in [0 .. 0 - 1 -> FilePage]
  <2>1. 0 .. 0 - 1 = {}
    OBVIOUS
  <2>2. \A f : f = <<>> => f \in [{} -> FilePage]
    <3>1. <<>> = [x \in {} |-> 0]
      OBVIOUS
    <3> QED
      BY <3>1
  <2> QED
    BY <1>1, <2>1, <2>2
<1>4. Sized
  BY <1>2, <1>3, Numbers DEF Sized
<1>5. Typed
  <2>1. writes = 0 /\ faults = 0 /\ unsynced = {} /\ tail = FALSE
    BY DEF Init
  <2>2. durable \in [PageNos -> FilePage \cup {None}]
    BY DEF Init
  <2>3. 0 \in 0 .. MaxWrites /\ 0 \in 0 .. MaxFaults
    BY Numbers
  <2> QED
    BY <2>1, <2>2, <2>3 DEF Typed
<1> QED
  BY <1>1, <1>4, <1>5 DEF Init, FInv, Numbered, CachedInPlace, KeptDurable

\* The page in memory, if there is one
LEMMA InMemoryPage ==
  ASSUME FInv, cached # None
  PROVE  /\ cached.from \in DOMAIN file /\ cached.page \in FilePage
         /\ cached.page.no \in PageNos
         /\ cached = [from |-> cached.from, page |-> cached.page,
                      fresh |-> cached.fresh, dirty |-> cached.dirty]
         /\ cached.from \in PageNos /\ cached.fresh \in BOOLEAN
PROOF
BY DEF FInv, CachedInPlace, CachedPage, FilePage, Page

\* The page that allocate_page writes
LEMMA NewPage ==
  ASSUME FInv, PageCount < MaxPages
  PROVE  LET page == WithChecksum([ZeroPage EXCEPT !.no = PageCount])
         IN page \in FilePage /\ page.no = PageCount /\ VerifyChecksum(page)
PROOF
<1>1. PageCount \in PageNos
  BY Numbers DEF FInv, Sized, PageNos
<1> QED
  BY <1>1, ZerosPage, Checksummed

\* A page in its place comes into memory
LEMMA IntoMemory ==
  ASSUME NEW no \in PageNos, no \in DOMAIN file', NEW page \in FilePage,
         NEW fresh \in BOOLEAN, NEW dirty \in BOOLEAN, InPlace(page, no),
         fresh \/ dirty => page.no = no,
         cached' = [from |-> no, page |-> page, fresh |-> fresh, dirty |-> dirty]
  PROVE  CachedInPlace' /\ cached' # None
PROOF
<1>1. page \in Page
  BY DEF FilePage
<1>2. cached' \in CachedPage /\ cached' # None
  BY <1>1, NoneAssumption DEF CachedPage
<1> QED
  BY <1>2 DEF CachedInPlace, InPlace

\* A page that is appended keeps the file's invariant
LEMMA AllocateFInv ==
  ASSUME FInv, Allocate
  PROVE  FInv'
PROOF
<1> DEFINE page == WithChecksum([ZeroPage EXCEPT !.no = PageCount])
<1>1. /\ PageCount < MaxPages /\ WritePage(page) /\ Unsynced(page.no)
      /\ cached' = InMemory(page.no, page, TRUE) /\ UNCHANGED <<writes, faults>>
  BY DEF Allocate
<1>2. page \in FilePage /\ page.no = PageCount
  BY <1>1, NewPage
<1> HIDE DEF page
<1>3. PageCount \in Nat /\ page.no \in PageNos
  BY <1>2 DEF FInv, Sized, FilePage, Page
<1>4. Touches(page.no) /\ page.no \in DOMAIN file'
  BY <1>1, <1>2, <1>3, WritePageTouches DEF FInv
<1>5. Sized' /\ Typed' /\ Numbered' /\ KeptDurable'
  BY <1>1, <1>3, <1>4, TouchKeeps DEF FInv, Typed
<1>6. CachedInPlace'
  BY <1>1, <1>2, <1>3, <1>4, IntoMemory DEF InMemory, InPlace
<1> QED
  BY <1>5, <1>6 DEF FInv

\* So does an append that stops half way
LEMMA AllocateFailsFInv ==
  ASSUME FInv, AllocateFails
  PROVE  FInv'
PROOF
<1> DEFINE page == WithChecksum([ZeroPage EXCEPT !.no = PageCount])
<1>1. /\ PageCount < MaxPages /\ WritePageFails(page) /\ Unsynced(page.no)
      /\ cached' = None /\ Fault /\ UNCHANGED writes
  BY DEF AllocateFails
<1>2. page \in FilePage /\ page.no = PageCount
  BY <1>1, NewPage
<1> HIDE DEF page
<1>3. page.no \in PageNos /\ faults' \in 0 .. MaxFaults
  BY <1>1, <1>2, Numbers DEF FInv, Typed, Fault, FilePage, Page
<1>4. Touches(page.no)
  BY <1>1, <1>2, WriteFailsTouches DEF FInv, Numbered
<1>5. Sized' /\ Typed' /\ Numbered' /\ KeptDurable'
  BY <1>1, <1>3, <1>4, TouchKeeps DEF FInv, Typed
<1> QED
  BY <1>1, <1>5 DEF FInv, CachedInPlace

\* Steps that leave the disk as it is
LEMMA DiskKept ==
  ASSUME FInv, UNCHANGED <<disk, durable>>,
         writes' \in 0 .. MaxWrites, faults' \in 0 .. MaxFaults
  PROVE  Sized' /\ Typed' /\ Numbered' /\ KeptDurable'
PROOF
<1>1. Sized'
  BY DEF FInv, disk, Sized, PageCount, SyncedCount
<1>2. Typed'
  BY DEF FInv, disk, Typed
<1>3. Numbered'
  BY DEF FInv, disk, Numbered
<1>4. KeptDurable'
  BY DEF FInv, disk, KeptDurable
<1> QED
  BY <1>1, <1>2, <1>3, <1>4

\* read_page brings in a page of the file
LEMMA LoadFInv ==
  ASSUME FInv, NEW no \in PageNos, Load(no)
  PROVE  FInv'
PROOF
<1>1. Sized' /\ Typed' /\ Numbered' /\ KeptDurable'
  BY DiskKept DEF Load, FInv, Typed
<1>2. no \in DOMAIN file /\ file[no] \in FilePage /\ InPlace(file[no], no)
  BY DEF Load, FInv, Sized, Numbered
<1>3. cached' = [from |-> no, page |-> file[no], fresh |-> FALSE, dirty |-> FALSE]
  BY DEF Load, InMemory
<1>4. no \in DOMAIN file'
  BY <1>2 DEF Load, disk
<1>5. CachedInPlace'
  BY <1>2, <1>3, <1>4, IntoMemory
<1> QED
  BY <1>1, <1>5 DEF FInv

\* Only a new page or one with a node in it is written to, so that it has its number
LEMMA StoreFInv ==
  ASSUME FInv, NEW node \in Nodes, Store(node)
  PROVE  FInv'
PROOF
<1> DEFINE page == [cached.page EXCEPT !.data = Overwritten(@, Serialize(node))]
<1>1. /\ cached # None /\ (cached.fresh \/ Deserialize(cached.page.data) # None)
      /\ UNCHANGED <<disk, durable, faults>>
      /\ writes' \in 0 .. MaxWrites /\ faults' \in 0 .. MaxFaults
  BY Numbers DEF Store, MayStore, FInv, Typed
<1>2. Sized' /\ Typed' /\ Numbered' /\ KeptDurable'
  BY <1>1, DiskKept
<1>3. /\ cached.from \in DOMAIN file /\ cached.from \in PageNos /\ cached.page \in FilePage
      /\ cached = [from |-> cached.from, page |-> cached.page,
                   fresh |-> cached.fresh, dirty |-> cached.dirty]
  BY <1>1, InMemoryPage
<1>4. page \in FilePage /\ page.no = cached.page.no
  BY <1>3, StoredPage
<1>5. cached.page.no = cached.from
  BY <1>1, NoNode DEF FInv, CachedInPlace, InPlace
<1>6. cached' = [from |-> cached.from, page |-> page, fresh |-> FALSE, dirty |-> TRUE]
  BY <1>3 DEF Store
<1> HIDE DEF page
<1>7. CachedInPlace'
  BY <1>1, <1>3, <1>4, <1>5, <1>6, IntoMemory DEF InPlace, disk
<1> QED
  BY <1>2, <1>7 DEF FInv

\* The page in memory is lost
LEMMA LostFInv ==
  ASSUME FInv, Fault, cached' = None, UNCHANGED <<disk, given, durable, writes>>
  PROVE  FInv'
PROOF
<1>1. writes' \in 0 .. MaxWrites /\ faults' \in 0 .. MaxFaults
  BY Numbers DEF FInv, Typed, Fault
<1> QED
  BY <1>1, DiskKept DEF FInv, CachedInPlace

\* The page in memory before it is written
LEMMA SavedPage ==
  ASSUME FInv, cached # None, cached.dirty
  PROVE  /\ WithChecksum(cached.page) \in FilePage
         /\ WithChecksum(cached.page).no = cached.from /\ cached.page.no = cached.from
         /\ cached.from \in DOMAIN file /\ cached.from \in PageNos
         /\ cached.from \in Nat /\ cached.from <= PageCount
PROOF
<1>1. /\ cached.from \in DOMAIN file /\ cached.page \in FilePage /\ cached.from \in PageNos
      /\ cached.page.no = cached.from
  BY InMemoryPage DEF FInv, CachedInPlace
<1>2. cached.from \in Nat /\ cached.from <= PageCount
  BY <1>1 DEF FInv, Sized
<1> QED
  BY <1>1, <1>2, Checksummed

\* It stays in memory, with its checksum
LEMMA SavedCached ==
  ASSUME FInv, cached # None, cached.dirty, DOMAIN file \subseteq DOMAIN file', NEW still \in BOOLEAN,
         cached' = [cached EXCEPT !.page = WithChecksum(cached.page), !.dirty = still]
  PROVE  CachedInPlace'
PROOF
<1>1. /\ cached.from \in DOMAIN file /\ cached.from \in PageNos /\ cached.fresh \in BOOLEAN
      /\ cached = [from |-> cached.from, page |-> cached.page,
                   fresh |-> cached.fresh, dirty |-> cached.dirty]
  BY InMemoryPage
<1>2. cached' = [from |-> cached.from, page |-> WithChecksum(cached.page),
                 fresh |-> cached.fresh, dirty |-> still]
  BY <1>1
<1> QED
  BY <1>1, <1>2, SavedPage, IntoMemory DEF InPlace

\* A write of the page in memory that is not synced
LEMMA SaveFInv ==
  ASSUME FInv, \/ Save
               \/ SaveFails
               \/ SyncFails
  PROVE  FInv'
PROOF
<1> DEFINE page == WithChecksum(cached.page)
<1>1. /\ cached # None /\ cached.dirty
      /\ WritePage(page) \/ WritePageFails(page)
      /\ Unsynced(cached.page.no) \/ Unsynced(page.no)
      /\ writes' = writes /\ (faults' = faults \/ Fault)
  BY DEF Save, SaveFails, SyncFails
<1>2. \E still \in BOOLEAN :
        cached' = [cached EXCEPT !.page = WithChecksum(cached.page), !.dirty = still]
  <2>1. CASE Save
    BY <2>1 DEF Save
  <2>2. CASE SaveFails \/ SyncFails
    <3>1. cached' = [cached EXCEPT !.page = WithChecksum(cached.page)]
      BY <2>2 DEF SaveFails, SyncFails
    <3>2. /\ cached.dirty \in BOOLEAN
          /\ cached = [from |-> cached.from, page |-> cached.page,
                       fresh |-> cached.fresh, dirty |-> cached.dirty]
      BY <1>1, InMemoryPage DEF FInv, CachedInPlace, CachedPage
    <3> QED
      BY <3>1, <3>2
  <2> QED
    BY <2>1, <2>2
<1>3. /\ page \in FilePage /\ page.no = cached.page.no /\ page.no = cached.from
      /\ page.no \in PageNos /\ page.no <= PageCount
  BY <1>1, SavedPage
<1> HIDE DEF page
<1>4. Touches(page.no)
  BY <1>1, <1>3, WritePageTouches, WriteFailsTouches DEF FInv, Numbered
<1>5. writes' \in 0 .. MaxWrites /\ faults' \in 0 .. MaxFaults
  BY <1>1, Numbers DEF FInv, Typed, Fault
<1>6. Sized' /\ Typed' /\ Numbered' /\ KeptDurable'
  BY <1>1, <1>3, <1>4, <1>5, TouchKeeps
<1>7. DOMAIN file \subseteq DOMAIN file'
  BY <1>4, Numbers DEF Touches, FInv, Sized
<1>8. CachedInPlace'
  BY <1>1, <1>2, <1>7, SavedCached
<1> QED
  BY <1>6, <1>8 DEF FInv

\* A write of the page in memory that is synced: all of the file is on the disk
LEMMA SaveDurableFInv ==
  ASSUME FInv, SaveDurable
  PROVE  FInv'
PROOF
<1> DEFINE page == WithChecksum(cached.page)
<1>1. /\ cached # None /\ cached.dirty /\ WritePage(page)
      /\ synced' = file' /\ unsynced' = {}
      /\ durable' = [durable EXCEPT ![page.no] = page]
      /\ cached' = [cached EXCEPT !.page = WithChecksum(cached.page), !.dirty = FALSE]
      /\ UNCHANGED <<given, writes, faults>>
  BY DEF SaveDurable
<1>2. /\ page \in FilePage /\ page.no = cached.from
      /\ page.no \in PageNos /\ page.no <= PageCount
  BY <1>1, SavedPage
<1> HIDE DEF page
<1>3. Touches(page.no) /\ page.no \in DOMAIN file' /\ file'[page.no] = page
  BY <1>1, <1>2, WritePageTouches DEF FInv
<1>4. PICK c \in PageCount .. MaxPages : file' \in [0 .. c - 1 -> FilePage]
  BY <1>3 DEF Touches
<1>5. /\ PageCount \in Nat /\ MaxPages \in Nat /\ c \in Nat /\ c <= MaxPages
      /\ DOMAIN file = 0 .. PageCount - 1 /\ DOMAIN file \subseteq DOMAIN file'
  BY <1>4, Numbers DEF FInv, Sized
<1>6. PageCount' = c /\ SyncedCount' = c
  BY <1>1, <1>4, <1>5, Counted DEF PageCount, SyncedCount
<1>7. Sized'
  BY <1>1, <1>4, <1>5, <1>6 DEF Sized
<1>8. Typed'
  BY <1>1, <1>2, <1>3 DEF FInv, Typed, Touches
<1>9. Numbered'
  BY <1>1, <1>3 DEF FInv, Numbered, Touches
<1>10. KeptDurable'
  BY <1>1, <1>2, <1>3, <1>5 DEF FInv, Typed, KeptDurable, Touches
<1>11. CachedInPlace'
  BY <1>1, <1>5, SavedCached
<1> QED
  BY <1>7, <1>8, <1>9, <1>10, <1>11 DEF FInv

-----------------------------------------------------------------------------
(***************************************************************************)
(* Power failures.                                                         *)
(***************************************************************************)
\* What a page may be afterwards: one of its versions, or two of them torn
LEMMA SurvivingPage ==
  ASSUME FInv, NEW n \in PageNos, NEW p \in Survivors(n)
  PROVE  /\ p \in FilePage /\ InPlace(p, n)
         /\ durable[n] # None => p = durable[n]
PROOF
<1>1. ASSUME NEW v \in Versions(n)
      PROVE  /\ v \in FilePage /\ InPlace(v, n)
             /\ durable[n] # None => v = durable[n]
  <2>1. CASE \E w \in unsynced : w.no = n /\ v = w.page
    BY <2>1 DEF FInv, Typed, Numbered, KeptDurable
  <2>2. CASE n \in DOMAIN synced /\ v = synced[n]
    BY <2>2 DEF FInv, Sized, Numbered, KeptDurable
  <2>3. CASE n \notin DOMAIN synced /\ v = ZeroPage
    BY <2>3, ZerosPage DEF FInv, KeptDurable, InPlace
  <2> QED
    BY <2>1, <2>2, <2>3 DEF Versions
<1>2. CASE p \in Versions(n)
  BY <1>1, <1>2
<1>3. CASE \E a, b \in Versions(n) : \E k \in Cuts : p = Torn(a, b, k)
  <2>1. PICK a \in Versions(n), b \in Versions(n), k \in Cuts : p = Torn(a, b, k)
    BY <1>3
  <2>2. a \in FilePage /\ InPlace(a, n) /\ b \in FilePage
    BY <1>1
  <2>3. p \in FilePage /\ p.no = a.no /\ p.data[1] = a.data[1]
    BY <2>1, <2>2, TornPage
  <2>4. durable[n] # None => a = durable[n] /\ b = a
    BY <1>1
  <2>5. Torn(a, a, k) = a
    BY <2>2, TornPage
  <2> QED
    BY <2>1, <2>2, <2>3, <2>4, <2>5 DEF InPlace
<1> QED
  BY <1>2, <1>3 DEF Survivors

\* A power failure mixes only what was written to the same page
LEMMA PowerFailureFInv ==
  ASSUME FInv, PowerFailure
  PROVE  FInv' /\ DOMAIN file' \subseteq DOMAIN file
PROOF
<1>1. PICK count \in SyncedCount .. PageCount :
        /\ DOMAIN file' = 0 .. count - 1
        /\ \A n \in 0 .. count - 1 : file'[n] \in Survivors(n)
        /\ file' = [n \in 0 .. count - 1 |-> file'[n]]
        /\ tail' \in {FALSE, tail \/ count \in DOMAIN file}
  BY DEF PowerFailure, PageCount, SyncedCount
<1>2. /\ count \in Nat /\ count <= PageCount /\ SyncedCount \in Nat /\ SyncedCount <= count
      /\ PageCount \in Nat /\ PageCount <= MaxPages /\ MaxPages \in Nat
      /\ DOMAIN file = 0 .. PageCount - 1 /\ DOMAIN synced = 0 .. SyncedCount - 1
  BY Numbers DEF FInv, Sized
<1>3. DOMAIN file' \subseteq PageNos /\ DOMAIN file' \subseteq DOMAIN file
  BY <1>1, <1>2 DEF PageNos
<1>4. \A n \in DOMAIN file' : /\ file'[n] \in FilePage /\ InPlace(file'[n], n)
                              /\ durable[n] # None => file'[n] = durable[n]
  BY <1>1, <1>3, SurvivingPage
<1>5. /\ Fault /\ synced' = file' /\ unsynced' = {} /\ cached' = None
      /\ UNCHANGED <<given, durable, writes>>
  BY DEF PowerFailure
<1>6. PageCount' = count /\ SyncedCount' = count
  BY <1>1, <1>2, <1>5, Counted DEF PageCount, SyncedCount
<1>7. Sized'
  <2>1. file' \in [0 .. count - 1 -> FilePage]
    BY <1>1, <1>4
  <2> QED
    BY <1>2, <1>5, <1>6, <2>1 DEF Sized
<1>8. Typed'
  <2>1. tail' \in BOOLEAN
    BY <1>1
  <2> QED
    BY <1>5, <2>1, Numbers DEF FInv, Typed, Fault
<1>9. Numbered'
  BY <1>4, <1>5 DEF Numbered
<1>10. KeptDurable'
  <2> SUFFICES ASSUME NEW n \in PageNos, durable[n] # None
               PROVE  n \in DOMAIN file' /\ file'[n] = durable[n]
    BY <1>5 DEF KeptDurable
  <2>1. n \in 0 .. SyncedCount - 1
    BY <1>2 DEF FInv, KeptDurable
  <2>2. n \in DOMAIN file'
    BY <1>1, <1>2, <2>1
  <2> QED
    BY <1>4, <2>2
<1>11. CachedInPlace'
  BY <1>5 DEF CachedInPlace
<1> QED
  BY <1>3, <1>7, <1>8, <1>9, <1>10, <1>11 DEF FInv

-----------------------------------------------------------------------------
\* FInv is inductive
LEMMA FInvInductive ==
  ASSUME FInv, [Next]_vars
  PROVE  FInv'
PROOF
<1>1. CASE Allocate \/ AllocateFails
  BY <1>1, AllocateFInv, AllocateFailsFInv
<1>2. CASE \E no \in PageNos : Load(no)
  BY <1>2, LoadFInv
<1>3. CASE \E node \in Nodes : Store(node) \/ StoreTooLong(node)
  BY <1>3, StoreFInv, LostFInv DEF StoreTooLong
<1>4. CASE Save \/ SaveFails \/ SyncFails
  BY <1>4, SaveFInv
<1>5. CASE SaveDurable
  BY <1>5, SaveDurableFInv
<1>6. CASE Restart
  BY <1>6, LostFInv DEF Restart
<1>7. CASE PowerFailure
  BY <1>7, PowerFailureFInv
<1>8. CASE UNCHANGED vars
  <2>1. Sized' /\ Typed' /\ Numbered' /\ KeptDurable'
    BY <1>8, DiskKept DEF vars, FInv, Typed
  <2> QED
    BY <1>8, <2>1 DEF vars, disk, FInv, CachedInPlace
<1> QED
  BY <1>1, <1>2, <1>3, <1>4, <1>5, <1>6, <1>7, <1>8 DEF Next

\* The file's invariant holds at every moment
LEMMA FInvAlways == Spec => []FInv
PROOF
<1>1. Init => FInv
  BY InitFInv
<1>2. FInv /\ [Next]_vars => FInv'
  BY FInvInductive
<1> QED
  BY <1>1, <1>2, PTL DEF Spec

-----------------------------------------------------------------------------
(***************************************************************************)
(* The nodes in the pages.  That deserialize undoes serialize is the       *)
(* hypothesis: it is about every sequence of bytes, not about steps.       *)
(***************************************************************************)
ReadBack ==
  \A node \in Nodes, data \in Seq(Nat) :
    Len(data) = DataSize => ReadsBack(node, data)

\* A checksum is that of what was stored in that page, even if the page is torn
Meant(page, n) ==
  page.sum # <<>> =>
    /\ page.no = n
    /\ Tail(page.sum) = Zeros \/ Deserialize(Tail(page.sum)) \in ToSet(given[n])

\* The page in memory holds the node that was stored last
CachedMeant ==
  cached # None =>
    /\ Meant(cached.page, cached.from)
    /\ cached.dirty => /\ given[cached.from] # <<>>
                       /\ Deserialize(cached.page.data) = Last(given[cached.from])

\* So does the file as long as nothing has gone wrong
FileCurrent ==
  faults = 0 =>
    \A n \in DOMAIN file :
      given[n] = <<>> \/ Unsaved(n) \/ Deserialize(file[n].data) = Last(given[n])

OnDiskMeant ==
  /\ \A n \in DOMAIN file : Meant(file[n], n)
  /\ \A n \in DOMAIN synced : Meant(synced[n], n)
  /\ \A w \in unsynced : w.no \in DOMAIN file /\ Meant(w.page, w.no)

NInv ==
  /\ given \in [PageNos -> Seq(Nodes)]
  /\ OnDiskMeant
  /\ CachedMeant
  /\ FileCurrent

\* A checksum tells what it was computed from
LEMMA ChecksumTells ==
  ASSUME NEW p \in FilePage
  PROVE  ComputeChecksum(p) # <<>> /\ Tail(ComputeChecksum(p)) = p.data
PROOF
<1> DEFINE c == <<p.no>> \o p.data
<1>1. /\ p.data \in Seq(Nat) /\ <<p.no>> \in Seq(Nat) /\ Len(<<p.no>>) = 1
      /\ Len(p.data) \in Nat
  BY LenProperties DEF FilePage, Page, PageNos, Cell
<1>2. /\ c \in Seq(Nat) /\ Len(c) = 1 + Len(p.data)
      /\ \A i \in 1 .. 1 + Len(p.data) : c[i] = IF i <= 1 THEN <<p.no>>[i] ELSE p.data[i - 1]
  <2>1. /\ <<p.no>> \o p.data \in Seq(Nat)
        /\ Len(<<p.no>> \o p.data) = Len(<<p.no>>) + Len(p.data)
        /\ \A i \in 1 .. Len(<<p.no>>) + Len(p.data) :
             (<<p.no>> \o p.data)[i]
               = IF i <= Len(<<p.no>>) THEN <<p.no>>[i] ELSE p.data[i - Len(<<p.no>>)]
    BY <1>1, ConcatProperties
  <2> QED
    BY <1>1, <2>1
<1> HIDE DEF c
<1>3. c # <<>>
  BY <1>1, <1>2, EmptySeq
<1>4. /\ Tail(c) \in Seq(Nat) /\ Len(Tail(c)) = Len(c) - 1
      /\ \A i \in 1 .. Len(Tail(c)) : Tail(c)[i] = c[i + 1]
  BY <1>2, <1>3, HeadTailProperties
<1>5. Len(Tail(c)) = Len(p.data)
  BY <1>1, <1>2, <1>4
<1>6. ASSUME NEW i \in 1 .. Len(Tail(c))
      PROVE  Tail(c)[i] = p.data[i]
  <2>1. i + 1 \in 1 .. 1 + Len(p.data) /\ ~(i + 1 <= 1) /\ (i + 1) - 1 = i
    BY <1>1, <1>5
  <2> QED
    BY <1>2, <1>4, <2>1
<1>7. Tail(c) = p.data
  BY <1>1, <1>4, <1>5, <1>6, SeqEqual
<1> QED
  BY <1>3, <1>7 DEF c, ComputeChecksum

\* The node stored last is one of those stored
LEMMA LastStored ==
  ASSUME NEW seq \in Seq(Nodes), seq # <<>>
  PROVE  Last(seq) \in ToSet(seq)
PROOF
<1>1. Len(seq) \in Nat \ {0} /\ DOMAIN seq = 1 .. Len(seq)
  BY EmptySeq, LenProperties
<1> QED
  BY <1>1 DEF Last, ToSet

\* What was stored before is still known after one more
LEMMA OneMoreStored ==
  ASSUME NEW seq \in Seq(Nodes), NEW node \in Nodes
  PROVE  /\ Append(seq, node) \in Seq(Nodes) /\ Append(seq, node) # <<>>
         /\ Last(Append(seq, node)) = node
         /\ ToSet(seq) \subseteq ToSet(Append(seq, node))
PROOF
<1>1. /\ Append(seq, node) \in Seq(Nodes) /\ Append(seq, node) # <<>>
      /\ Len(Append(seq, node)) = Len(seq) + 1
      /\ \A i \in 1 .. Len(seq) : Append(seq, node)[i] = seq[i]
      /\ Append(seq, node)[Len(seq) + 1] = node
  BY AppendProperties
<1>2. /\ DOMAIN seq = 1 .. Len(seq) /\ Len(seq) \in Nat
      /\ DOMAIN Append(seq, node) = 1 .. Len(Append(seq, node))
  BY <1>1, LenProperties
<1>3. ToSet(seq) \subseteq ToSet(Append(seq, node))
  BY <1>1, <1>2 DEF ToSet
<1> QED
  BY <1>1, <1>3 DEF Last

\* In an empty file nothing is stored
LEMMA InitNInv ==
  ASSUME Init
  PROVE  NInv
PROOF
<1>1. given \in [PageNos -> Seq(Nodes)]
  BY EmptySeq DEF Init
<1> QED
  BY <1>1 DEF Init, NInv, OnDiskMeant, CachedMeant, FileCurrent

\* Writing a page that says what was stored keeps it so
LEMMA TouchMeans ==
  ASSUME FInv, OnDiskMeant, NEW no \in PageNos, Touches(no), Unsynced(no),
         \A n \in DOMAIN file : given'[n] = given[n],
         no \in DOMAIN file' => Meant(file[no], no)'
  PROVE  OnDiskMeant'
PROOF
<1>1. DOMAIN file \subseteq DOMAIN file' /\ DOMAIN synced \subseteq DOMAIN file
  BY Numbers DEF Touches, FInv, Sized
<1>2. \A n \in DOMAIN file' : n # no => n \in DOMAIN file /\ file'[n] = file[n]
  BY DEF Touches
<1>3. synced' = synced /\ \A w \in unsynced' :
        \/ w \in unsynced
        \/ no \in DOMAIN file' /\ w = [no |-> no, page |-> file'[no]]
  BY DEF Unsynced
<1>4. \A n \in DOMAIN file' : Meant(file[n], n)'
  BY <1>2 DEF OnDiskMeant, Meant
<1>5. \A n \in DOMAIN synced' : Meant(synced[n], n)'
  BY <1>1, <1>3 DEF OnDiskMeant, Meant
<1>6. \A w \in unsynced' : w.no \in DOMAIN file' /\ (w.page.sum # <<>> =>
        /\ w.page.no = w.no
        /\ \/ Tail(w.page.sum) = Zeros
           \/ Deserialize(Tail(w.page.sum)) \in ToSet(given'[w.no]))
  BY <1>1, <1>3, <1>4 DEF OnDiskMeant, Meant
<1> QED
  BY <1>4, <1>5, <1>6 DEF OnDiskMeant, Meant

\* So does leaving the disk as it is, when more was stored
LEMMA DiskMeans ==
  ASSUME FInv, OnDiskMeant, UNCHANGED disk,
         \A n \in DOMAIN file : ToSet(given[n]) \subseteq ToSet(given'[n])
  PROVE  OnDiskMeant'
PROOF
<1>1. file' = file /\ synced' = synced /\ unsynced' = unsynced
      /\ DOMAIN synced \subseteq DOMAIN file
  BY Numbers DEF disk, FInv, Sized
<1>2. \A n \in DOMAIN file' : Meant(file[n], n)'
  BY <1>1 DEF OnDiskMeant, Meant
<1>3. \A n \in DOMAIN synced' : Meant(synced[n], n)'
  BY <1>1 DEF OnDiskMeant, Meant
<1>4. \A w \in unsynced' : w.no \in DOMAIN file' /\ (w.page.sum # <<>> =>
        /\ w.page.no = w.no
        /\ \/ Tail(w.page.sum) = Zeros
           \/ Deserialize(Tail(w.page.sum)) \in ToSet(given'[w.no]))
  BY <1>1 DEF OnDiskMeant, Meant
<1> QED
  BY <1>2, <1>3, <1>4 DEF OnDiskMeant, Meant

\* A page that could not be written has the checksum of the old or the new one
LEMMA WriteFailsSum ==
  ASSUME FInv, NEW page \in FilePage, WritePageFails(page), page.no \in DOMAIN file'
  PROVE  \/ file'[page.no] = file[page.no]
         \/ file'[page.no].sum = page.sum /\ file'[page.no].no = page.no
PROOF
<1>1. CASE UNCHANGED file
  BY <1>1
<1>2. CASE /\ page.no \in DOMAIN file
           /\ \E k \in Cuts : file' = [file EXCEPT ![page.no] = Torn(page, @, k)]
  <2>1. PICK k \in Cuts : file' = [file EXCEPT ![page.no] = Torn(page, @, k)]
    BY <1>2
  <2>2. Torn(page, file[page.no], k).sum = page.sum /\ Torn(page, file[page.no], k).no = page.no
    BY DEF Torn, FilePage, Page
  <2> QED
    BY <1>2, <2>1, <2>2
<1> QED
  BY <1>1, <1>2 DEF WritePageFails

\* A fault has happened
LEMMA Faulty ==
  ASSUME FInv, Fault
  PROVE  faults' # 0
PROOF
BY Numbers DEF FInv, Typed, Fault

\* A page that is appended holds no node, and is intact
LEMMA AllocateNInv ==
  ASSUME FInv, NInv, Allocate
  PROVE  NInv'
PROOF
<1> DEFINE page == WithChecksum([ZeroPage EXCEPT !.no = PageCount])
<1>1. /\ PageCount < MaxPages /\ WritePage(page) /\ Unsynced(page.no) /\ Free
      /\ cached' = InMemory(page.no, page, TRUE)
      /\ given' = [given EXCEPT ![page.no] = <<>>] /\ UNCHANGED <<writes, faults>>
  BY DEF Allocate
<1>2. page \in FilePage /\ page.no = PageCount /\ Tail(page.sum) = Zeros
  <2>1. PageCount \in PageNos
    BY <1>1, Numbers DEF FInv, Sized, PageNos
  <2>2. [ZeroPage EXCEPT !.no = PageCount] \in FilePage
    BY <2>1, ZerosPage
  <2>3. [ZeroPage EXCEPT !.no = PageCount].data = Zeros
    BY DEF ZeroPage
  <2>4. page.sum = ComputeChecksum([ZeroPage EXCEPT !.no = PageCount])
    BY <2>2 DEF WithChecksum, FilePage, Page
  <2> QED
    BY <1>1, <2>2, <2>3, <2>4, NewPage, ChecksumTells
<1> HIDE DEF page
<1>3. /\ page.no \in PageNos /\ page.no <= PageCount /\ page.no \notin DOMAIN file
  BY <1>2 DEF FInv, Sized, FilePage, Page
<1>4. Touches(page.no) /\ page.no \in DOMAIN file' /\ file'[page.no] = page
  BY <1>1, <1>2, <1>3, WritePageTouches DEF FInv
<1>5. given' \in [PageNos -> Seq(Nodes)] /\ \A n \in DOMAIN file : given'[n] = given[n]
  BY <1>1, <1>3, EmptySeq DEF NInv
<1>6. OnDiskMeant'
  BY <1>1, <1>2, <1>3, <1>4, <1>5, TouchMeans DEF NInv, Meant
<1>7. CachedMeant'
  BY <1>1, <1>2 DEF CachedMeant, InMemory, Meant
<1>8. FileCurrent'
  <2> SUFFICES ASSUME faults' = 0, NEW n \in DOMAIN file'
               PROVE  given'[n] = <<>> \/ Deserialize(file'[n].data) = Last(given'[n])
    BY DEF FileCurrent
  <2>1. CASE n = page.no
    BY <1>1, <1>3, <2>1 DEF NInv
  <2>2. CASE n # page.no
    <3>1. n \in DOMAIN file /\ file'[n] = file[n] /\ given'[n] = given[n] /\ faults = 0
      BY <1>1, <1>4, <1>5, <2>2 DEF Touches
    <3>2. ~Unsaved(n)
      BY <1>1 DEF Free, Unsaved
    <3> QED
      BY <3>1, <3>2 DEF NInv, FileCurrent
  <2> QED
    BY <2>1, <2>2
<1> QED
  BY <1>5, <1>6, <1>7, <1>8 DEF NInv

\* An append that stops half way adds no page
LEMMA AllocateFailsNInv ==
  ASSUME FInv, NInv, AllocateFails
  PROVE  NInv'
PROOF
<1> DEFINE page == WithChecksum([ZeroPage EXCEPT !.no = PageCount])
<1>1. /\ PageCount < MaxPages /\ WritePageFails(page) /\ Unsynced(page.no)
      /\ cached' = None /\ Fault /\ UNCHANGED <<given, writes>>
  BY DEF AllocateFails
<1>2. page \in FilePage /\ page.no = PageCount
  BY <1>1, NewPage
<1> HIDE DEF page
<1>3. /\ page.no \in PageNos /\ page.no \notin DOMAIN file
  BY <1>2 DEF FInv, Sized, FilePage, Page
<1>4. Touches(page.no) /\ page.no \notin DOMAIN file'
  BY <1>1, <1>2, <1>3, WriteFailsTouches DEF FInv, Numbered
<1>5. OnDiskMeant'
  BY <1>1, <1>3, <1>4, TouchMeans DEF NInv
<1> QED
  BY <1>1, <1>5, Faulty DEF NInv, CachedMeant, FileCurrent

\* read_page brings in what is meant to be there, or a torn page
LEMMA LoadNInv ==
  ASSUME FInv, NInv, NEW no \in PageNos, Load(no)
  PROVE  NInv'
PROOF
<1>1. /\ no \in DOMAIN file /\ Free /\ UNCHANGED <<disk, given, faults>>
      /\ cached' = [from |-> no, page |-> file[no], fresh |-> FALSE, dirty |-> FALSE]
  BY DEF Load, InMemory
<1>2. OnDiskMeant'
  BY <1>1, DiskMeans DEF NInv
<1>3. CachedMeant'
  BY <1>1 DEF CachedMeant, Meant, NInv, OnDiskMeant
<1>4. FileCurrent'
  <2>1. \A n \in DOMAIN file : ~Unsaved(n)
    BY <1>1 DEF Free, Unsaved
  <2>2. faults' = 0 => \A n \in DOMAIN file' :
          given'[n] = <<>> \/ Deserialize(file'[n].data) = Last(given'[n])
    BY <1>1, <2>1 DEF NInv, FileCurrent, disk
  <2> QED
    BY <2>2 DEF FileCurrent
<1> QED
  BY <1>1, <1>2, <1>3, <1>4 DEF NInv

\* A node that is stored is read back from memory
LEMMA StoreNInv ==
  ASSUME FInv, NInv, ReadBack, NEW node \in Nodes, Store(node)
  PROVE  NInv'
PROOF
<1> DEFINE no == cached.page.no
           data == Overwritten(cached.page.data, Serialize(node))
<1>1. /\ cached # None /\ (cached.fresh \/ Deserialize(cached.page.data) # None)
      /\ Fits(Serialize(node)) /\ given' = [given EXCEPT ![no] = Append(@, node)]
      /\ UNCHANGED <<disk, durable, faults>>
  BY DEF Store, MayStore
<1>2. /\ cached.from \in DOMAIN file /\ cached.from \in PageNos /\ cached.page \in FilePage
      /\ cached = [from |-> cached.from, page |-> cached.page,
                   fresh |-> cached.fresh, dirty |-> cached.dirty]
  BY <1>1, InMemoryPage
<1>3. no = cached.from
  BY <1>1, NoNode DEF FInv, CachedInPlace, InPlace
<1>4. Deserialize(data) = node
  BY <1>1, <1>2 DEF ReadBack, ReadsBack, FilePage, Page, Cell
<1>5. /\ cached' # None /\ cached'.from = no /\ cached'.dirty
      /\ cached'.page = [cached.page EXCEPT !.data = data]
  <2>1. cached' = [from |-> no, page |-> [cached.page EXCEPT !.data = data],
                   fresh |-> FALSE, dirty |-> TRUE]
    BY <1>2, <1>3 DEF Store
  <2>2. [cached.page EXCEPT !.data = data] \in FilePage
    BY <1>2, StoredPage
  <2>3. [cached.page EXCEPT !.data = data].no = no /\ no \in DOMAIN file'
    BY <1>1, <1>2, <1>3, StoredPage DEF disk
  <2> QED
    BY <1>2, <1>3, <2>1, <2>2, <2>3, IntoMemory DEF InPlace
<1>6. /\ cached'.page.data = data /\ cached'.page.no = no
      /\ cached'.page.sum = cached.page.sum
  BY <1>2, <1>5 DEF FilePage, Page
<1> HIDE DEF data, no
<1>7. given \in [PageNos -> Seq(Nodes)] /\ no \in PageNos /\ given[no] \in Seq(Nodes)
  BY <1>2, <1>3 DEF NInv
<1>8. /\ given'[no] = Append(given[no], node) /\ given' \in [PageNos -> Seq(Nodes)]
      /\ \A n \in PageNos : n # no => given'[n] = given[n]
  BY <1>1, <1>7, OneMoreStored
<1>9. /\ given'[no] # <<>> /\ Last(given'[no]) = node
      /\ ToSet(given[no]) \subseteq ToSet(given'[no])
  BY <1>7, <1>8, OneMoreStored
<1>10. DOMAIN file \subseteq PageNos
  BY Numbers DEF FInv, Sized, PageNos
<1>11. OnDiskMeant'
  BY <1>1, <1>8, <1>9, <1>10, DiskMeans DEF NInv
<1>12. CachedMeant'
  <2>1. Meant(cached.page, cached.from)
    BY <1>1 DEF NInv, CachedMeant
  <2>2. Meant(cached.page, cached.from)'
    BY <1>3, <1>5, <1>6, <1>9, <2>1 DEF Meant, no
  <2> QED
    BY <1>4, <1>5, <1>6, <1>9, <2>2 DEF CachedMeant
<1>13. FileCurrent'
  <2> SUFFICES ASSUME faults' = 0, NEW n \in DOMAIN file'
               PROVE  \/ given'[n] = <<>> \/ Unsaved(n)'
                      \/ Deserialize(file'[n].data) = Last(given'[n])
    BY DEF FileCurrent
  <2>1. CASE n = no
    BY <1>5, <1>6, <2>1 DEF Unsaved
  <2>2. CASE n # no
    <3>1. n \in DOMAIN file /\ file' = file /\ given'[n] = given[n] /\ faults = 0
      BY <1>1, <1>8, <1>10, <2>2 DEF disk
    <3>2. ~Unsaved(n)
      BY <2>2 DEF Unsaved, no
    <3> QED
      BY <3>1, <3>2 DEF NInv, FileCurrent
  <2> QED
    BY <2>1, <2>2
<1> QED
  BY <1>8, <1>11, <1>12, <1>13 DEF NInv

\* Losing what is in memory takes nothing from the file
LEMMA LostNInv ==
  ASSUME FInv, NInv, Fault, cached' = None, UNCHANGED <<disk, given, durable, writes>>
  PROVE  NInv'
PROOF
<1>1. OnDiskMeant'
  BY DiskMeans DEF NInv
<1> QED
  BY <1>1, Faulty DEF NInv, CachedMeant, FileCurrent

\* What a checksum is written for was stored
LEMMA SavedMeant ==
  ASSUME FInv, NInv, cached # None, cached.dirty
  PROVE  LET page == WithChecksum(cached.page)
         IN /\ Meant(page, cached.from) /\ page.data = cached.page.data
            /\ given[cached.from] # <<>>
            /\ Deserialize(page.data) = Last(given[cached.from])
PROOF
<1> DEFINE page == WithChecksum(cached.page)
<1>1. /\ cached.page \in FilePage /\ page.no = cached.from /\ cached.from \in PageNos
  BY SavedPage, InMemoryPage
<1>2. page.data = cached.page.data /\ page.sum = ComputeChecksum(cached.page)
  BY <1>1 DEF WithChecksum, FilePage, Page
<1>3. Tail(page.sum) = cached.page.data
  BY <1>1, <1>2, ChecksumTells
<1>4. /\ given[cached.from] # <<>> /\ Deserialize(cached.page.data) = Last(given[cached.from])
      /\ Last(given[cached.from]) \in ToSet(given[cached.from])
  BY <1>1, LastStored DEF NInv, CachedMeant
<1> HIDE DEF page
<1>5. Meant(page, cached.from)
  BY <1>1, <1>3, <1>4 DEF Meant
<1> QED
  BY <1>2, <1>4, <1>5 DEF page

\* The page in memory stays what it was but for its checksum
LEMMA SavedCachedMeant ==
  ASSUME FInv, NInv, cached # None, cached.dirty, UNCHANGED given, NEW still \in BOOLEAN,
         cached' = [cached EXCEPT !.page = WithChecksum(cached.page), !.dirty = still]
  PROVE  CachedMeant'
PROOF
<1> DEFINE page == WithChecksum(cached.page)
<1>1. cached'.page = page /\ cached'.from = cached.from
  BY InMemoryPage
<1>2. /\ Meant(page, cached.from) /\ given[cached.from] # <<>>
      /\ Deserialize(page.data) = Last(given[cached.from])
  BY SavedMeant
<1> HIDE DEF page
<1> QED
  BY <1>1, <1>2 DEF CachedMeant, Meant

\* A write of the page in memory that succeeds brings the file up to date
LEMMA SavedCurrent ==
  ASSUME FInv, NInv, cached # None, cached.dirty, UNCHANGED <<given, faults>>,
         Touches(cached.from), file'[cached.from] = WithChecksum(cached.page)
  PROVE  FileCurrent'
PROOF
<1> SUFFICES ASSUME faults' = 0, NEW n \in DOMAIN file'
             PROVE  given'[n] = <<>> \/ Deserialize(file'[n].data) = Last(given'[n])
  BY DEF FileCurrent
<1>1. CASE n = cached.from
  BY <1>1, SavedMeant
<1>2. CASE n # cached.from
  <2>1. n \in DOMAIN file /\ file'[n] = file[n] /\ given'[n] = given[n] /\ faults = 0
    BY <1>2 DEF Touches
  <2>2. ~Unsaved(n)
    BY <1>2, SavedPage DEF Unsaved
  <2> QED
    BY <2>1, <2>2 DEF NInv, FileCurrent
<1> QED
  BY <1>1, <1>2

\* write_page puts what is in memory where it belongs
LEMMA SaveNInv ==
  ASSUME FInv, NInv, \/ Save
                     \/ SyncFails
                     \/ SaveFails
  PROVE  NInv'
PROOF
<1> DEFINE page == WithChecksum(cached.page)
<1>1. /\ cached # None /\ cached.dirty
      /\ WritePage(page) \/ (WritePageFails(page) /\ Fault)
      /\ WritePage(page) => UNCHANGED faults \/ Fault
      /\ Unsynced(cached.page.no) \/ Unsynced(page.no)
      /\ UNCHANGED given
  BY DEF Save, SaveFails, SyncFails
<1>2. \E still \in BOOLEAN :
        cached' = [cached EXCEPT !.page = WithChecksum(cached.page), !.dirty = still]
  <2>1. CASE Save
    BY <2>1 DEF Save
  <2>2. CASE SaveFails \/ SyncFails
    <3>1. cached' = [cached EXCEPT !.page = WithChecksum(cached.page)]
      BY <2>2 DEF SaveFails, SyncFails
    <3>2. /\ cached.dirty \in BOOLEAN
          /\ cached = [from |-> cached.from, page |-> cached.page,
                       fresh |-> cached.fresh, dirty |-> cached.dirty]
      BY <1>1, InMemoryPage DEF FInv, CachedInPlace, CachedPage
    <3> QED
      BY <3>1, <3>2
  <2> QED
    BY <2>1, <2>2
<1>2a. PICK no \in PageNos : no = cached.from
  BY <1>1, SavedPage
<1>3. /\ page \in FilePage /\ page.no = no /\ cached.page.no = no
      /\ no \in PageNos /\ no <= PageCount /\ no \in DOMAIN file
  BY <1>1, <1>2a, SavedPage
<1>4. Meant(page, no) /\ Meant(file[no], no)
  BY <1>1, <1>2a, <1>3, SavedMeant DEF NInv, OnDiskMeant
<1>5. CachedMeant'
  BY <1>1, <1>2, SavedCachedMeant
<1>6. Unsynced(no)
  BY <1>1, <1>3
<1>7. CASE WritePage(page)
  <2>1. Touches(no) /\ file'[no] = page
    BY <1>3, <1>7, WritePageTouches DEF FInv
  <2>2. OnDiskMeant'
    <3>1. Meant(file[no], no)'
      BY <1>1, <1>4, <2>1 DEF Meant
    <3> HIDE DEF page
    <3> QED
      BY <1>1, <1>3, <1>6, <2>1, <3>1, TouchMeans DEF NInv
  <2>3. FileCurrent'
    <3>1. CASE UNCHANGED faults
      BY <1>1, <1>2a, <2>1, <3>1, SavedCurrent
    <3>2. CASE Fault
      BY <3>2, Faulty DEF FileCurrent
    <3> QED
      BY <1>1, <1>7, <3>1, <3>2
  <2> QED
    BY <1>1, <1>5, <2>2, <2>3 DEF NInv
<1>8. CASE WritePageFails(page) /\ Fault
  <2>1. Touches(no)
    BY <1>3, <1>8, WriteFailsTouches DEF FInv, Numbered
  <2>2. no \in DOMAIN file' => Meant(file[no], no)'
    BY <1>1, <1>3, <1>4, <1>8, WriteFailsSum DEF Meant
  <2>3. OnDiskMeant'
    <3> HIDE DEF page
    <3> QED
      BY <1>1, <1>3, <1>6, <2>1, <2>2, TouchMeans DEF NInv
  <2>4. FileCurrent'
    BY <1>8, Faulty DEF FileCurrent
  <2> QED
    BY <1>1, <1>5, <2>3, <2>4 DEF NInv
<1> QED
  BY <1>1, <1>7, <1>8

\* The same, with nothing left in the system's cache
LEMMA SaveDurableNInv ==
  ASSUME FInv, NInv, SaveDurable
  PROVE  NInv'
PROOF
<1> DEFINE page == WithChecksum(cached.page)
           no == cached.from
<1>1. /\ cached # None /\ cached.dirty /\ WritePage(page)
      /\ synced' = file' /\ unsynced' = {}
      /\ cached' = [cached EXCEPT !.page = WithChecksum(cached.page), !.dirty = FALSE]
      /\ UNCHANGED <<given, faults>>
  BY DEF SaveDurable
<1>2. /\ page \in FilePage /\ page.no = no /\ no \in PageNos /\ no <= PageCount
  BY <1>1, SavedPage
<1>3. Touches(no) /\ file'[no] = page
  BY <1>1, <1>2, WritePageTouches DEF FInv
<1>4. Meant(page, no)
  BY <1>1, SavedMeant
<1>5. \A n \in DOMAIN file' : Meant(file[n], n)'
  <2> SUFFICES ASSUME NEW n \in DOMAIN file'
               PROVE  Meant(file[n], n)'
    OBVIOUS
  <2>1. CASE n = no
    BY <1>1, <1>3, <1>4, <2>1 DEF Meant
  <2>2. CASE n # no
    <3>1. n \in DOMAIN file /\ file'[n] = file[n]
      BY <1>3, <2>2 DEF Touches
    <3> QED
      BY <1>1, <3>1 DEF NInv, OnDiskMeant, Meant
  <2> QED
    BY <2>1, <2>2
<1>6. OnDiskMeant'
  BY <1>1, <1>5 DEF OnDiskMeant, Meant
<1>7. CachedMeant'
  BY <1>1, SavedCachedMeant
<1>8. FileCurrent'
  BY <1>1, <1>3, SavedCurrent
<1> QED
  BY <1>1, <1>6, <1>7, <1>8 DEF NInv

\* A page that is still intact after a power failure is one of its versions
LEMMA PowerFailureNInv ==
  ASSUME FInv, NInv, PowerFailure
  PROVE  NInv'
PROOF
<1>1. /\ \A n \in DOMAIN file' : file'[n] \in Survivors(n) /\ n \in PageNos
      /\ Fault /\ synced' = file' /\ unsynced' = {} /\ cached' = None /\ given' = given
  <2>1. \A n \in DOMAIN file' : file'[n] \in Survivors(n)
    BY DEF PowerFailure
  <2>2. DOMAIN file' \subseteq DOMAIN file
    BY PowerFailureFInv
  <2> QED
    BY <2>1, <2>2, Numbers DEF PowerFailure, FInv, Sized, PageNos
<1>2. ASSUME NEW n \in PageNos, NEW p \in Survivors(n)
      PROVE  Meant(p, n)
  <2>1. \A v \in Versions(n) : Meant(v, n) /\ v \in FilePage
    <3> SUFFICES ASSUME NEW v \in Versions(n)
                 PROVE  Meant(v, n) /\ v \in FilePage
      OBVIOUS
    <3>1. CASE \E w \in unsynced : w.no = n /\ v = w.page
      BY <3>1 DEF NInv, OnDiskMeant, FInv, Typed
    <3>2. CASE n \in DOMAIN synced /\ v = synced[n]
      BY <3>2 DEF NInv, OnDiskMeant, FInv, Sized
    <3>3. CASE n \notin DOMAIN synced /\ v = ZeroPage
      BY <3>3, ZerosPage DEF Meant, ZeroPage
    <3> QED
      BY <3>1, <3>2, <3>3 DEF Versions
  <2>2. CASE p \in Versions(n)
    BY <2>1, <2>2
  <2>3. CASE \E a, b \in Versions(n) : \E k \in Cuts : p = Torn(a, b, k)
    <3>1. PICK a \in Versions(n), b \in Versions(n), k \in Cuts : p = Torn(a, b, k)
      BY <2>3
    <3>2. p.sum = a.sum /\ p.no = a.no
      BY <2>1, <3>1 DEF Torn, FilePage, Page
    <3> QED
      BY <2>1, <3>1, <3>2 DEF Meant
  <2> QED
    BY <2>2, <2>3 DEF Survivors
<1>3. \A n \in DOMAIN file' : Meant(file[n], n)'
  BY <1>1, <1>2 DEF Meant
<1>4. OnDiskMeant'
  BY <1>1, <1>3 DEF OnDiskMeant, Meant
<1> QED
  BY <1>1, <1>4, Faulty DEF NInv, CachedMeant, FileCurrent

\* NInv is inductive, where nodes are read back from what serialize wrote
LEMMA NInvInductive ==
  ASSUME FInv, NInv, ReadBack, [Next]_vars
  PROVE  NInv'
PROOF
<1>1. CASE Allocate \/ AllocateFails
  BY <1>1, AllocateNInv, AllocateFailsNInv
<1>2. CASE \E no \in PageNos : Load(no)
  BY <1>2, LoadNInv
<1>3. CASE \E node \in Nodes : Store(node) \/ StoreTooLong(node)
  BY <1>3, StoreNInv, LostNInv DEF StoreTooLong
<1>4. CASE Save \/ SaveFails \/ SyncFails
  BY <1>4, SaveNInv
<1>5. CASE SaveDurable
  BY <1>5, SaveDurableNInv
<1>6. CASE Restart
  BY <1>6, LostNInv DEF Restart
<1>7. CASE PowerFailure
  BY <1>7, PowerFailureNInv
<1>8. CASE UNCHANGED vars
  BY <1>8 DEF vars, disk, NInv, OnDiskMeant, CachedMeant, FileCurrent, Meant, Unsaved
<1> QED
  BY <1>1, <1>2, <1>3, <1>4, <1>5, <1>6, <1>7, <1>8 DEF Next

-----------------------------------------------------------------------------
(***************************************************************************)
(* Pages keep their size, and the file is never shorter than what was      *)
(* synced, through failing appends and power failures (write_page,         *)
(* allocate_page and page_count of src/page/file_manager.rs).              *)
(***************************************************************************)
THEOREM FileAlwaysTyped == Spec => []TypeOK
PROOF
<1>1. FInv => TypeOK
  <2> SUFFICES ASSUME FInv PROVE TypeOK
    OBVIOUS
  <2>1. /\ PageCount \in Nat /\ PageCount <= MaxPages /\ SyncedCount \in Nat
        /\ SyncedCount <= PageCount /\ MaxPages \in Nat
        /\ DOMAIN file = 0 .. PageCount - 1 /\ DOMAIN synced = 0 .. SyncedCount - 1
        /\ \A n \in DOMAIN file : file[n] \in FilePage
    BY Numbers DEF FInv, Sized
  <2>2. DOMAIN file \subseteq PageNos /\ DOMAIN synced \subseteq DOMAIN file
    BY <2>1 DEF PageNos
  <2>3. /\ \A w \in unsynced : w.page \in FilePage
        /\ cached # None => cached.page \in FilePage
    BY DEF FInv, Typed, CachedInPlace
  <2> QED
    BY <2>1, <2>2, <2>3 DEF TypeOK, FInv, Typed, FilePage
<1> QED
  BY <1>1, FInvAlways, PTL

(***************************************************************************)
(* No page is written over another one, although a page that a power       *)
(* failure zeroed says that it is page 0: write_page goes by the number in *)
(* the header (src/page/file_manager.rs), and what has a node in it has    *)
(* its own number there.                                                   *)
(***************************************************************************)
THEOREM FileWrittenInPlace == Spec => []WrittenInPlace
PROOF
<1>1. FInv => WrittenInPlace
  BY DEF FInv, CachedInPlace, WrittenInPlace
<1> QED
  BY <1>1, FInvAlways, PTL

(***************************************************************************)
(* What write_page_durable of src/page/file_manager.rs has written is      *)
(* there after any sequence of torn writes, restarts and power failures,   *)
(* until somebody tries to write that page again.                          *)
(***************************************************************************)
THEOREM DurableAlwaysSurvives == Spec => []DurableSurvives
PROOF
<1>1. FInv => DurableSurvives
  BY DEF FInv, KeptDurable, DurableSurvives
<1> QED
  BY <1>1, FInvAlways, PTL

(***************************************************************************)
(* A page number comes into use as a whole, intact page, also after        *)
(* allocations that failed half way (allocate_page of                      *)
(* src/page/file_manager.rs).                                              *)
(***************************************************************************)
THEOREM NewPagesAlwaysWhole == Spec => NewPagesWhole
PROOF
<1> DEFINE Whole == \A n \in DOMAIN file' \ DOMAIN file :
                      file'[n].no = n /\ VerifyChecksum(file'[n])
<1>1. FInv /\ Next => Whole
  <2> SUFFICES ASSUME FInv, Next
               PROVE  Whole
    OBVIOUS
  <2>1. CASE Allocate
    <3> DEFINE page == WithChecksum([ZeroPage EXCEPT !.no = PageCount])
    <3>1. PageCount < MaxPages /\ WritePage(page)
      BY <2>1 DEF Allocate
    <3>2. page \in FilePage /\ page.no = PageCount /\ VerifyChecksum(page)
      BY <3>1, NewPage
    <3> HIDE DEF page
    <3>3. PageCount \in Nat
      BY DEF FInv, Sized
    <3>4. Touches(page.no) /\ file'[page.no] = page
      BY <3>1, <3>2, <3>3, WritePageTouches DEF FInv
    <3> QED
      BY <3>2, <3>4 DEF Touches
  <2>2. CASE AllocateFails
    <3>1. /\ PageCount < MaxPages
          /\ WritePageFails(WithChecksum([ZeroPage EXCEPT !.no = PageCount]))
      BY <2>2 DEF AllocateFails
    <3>2. DOMAIN file' = DOMAIN file
      BY <3>1, NewPage, WriteFailsTouches DEF FInv, Numbered
    <3> QED
      BY <3>2
  <2>3. CASE Save \/ SaveDurable \/ SyncFails
    <3>1. cached # None /\ cached.dirty /\ WritePage(WithChecksum(cached.page))
      BY <2>3 DEF Save, SaveDurable, SyncFails
    <3>2. Touches(WithChecksum(cached.page).no) /\ WithChecksum(cached.page).no \in DOMAIN file
      BY <3>1, SavedPage, WritePageTouches DEF FInv
    <3> QED
      BY <3>2 DEF Touches
  <2>4. CASE SaveFails
    <3>1. cached # None /\ cached.dirty /\ WritePageFails(WithChecksum(cached.page))
      BY <2>4 DEF SaveFails
    <3>2. DOMAIN file' = DOMAIN file
      BY <3>1, SavedPage, WriteFailsTouches DEF FInv, Numbered
    <3> QED
      BY <3>2
  <2>5. CASE PowerFailure
    BY <2>5, PowerFailureFInv
  <2>6. CASE \/ \E no \in PageNos : Load(no)
             \/ \E node \in Nodes : Store(node) \/ StoreTooLong(node)
             \/ Restart
    BY <2>6 DEF Load, Store, StoreTooLong, Restart, disk
  <2> QED
    BY <2>1, <2>2, <2>3, <2>4, <2>5, <2>6 DEF Next
<1> HIDE DEF Whole
<1>2. FInv /\ [Next]_vars => [Whole]_vars
  BY <1>1
<1>3. Spec => [][Whole]_vars
  BY <1>2, FInvAlways, PTL DEF Spec
<1> QED
  BY <1>3 DEF NewPagesWhole, Whole

\* Both invariants hold, if nodes are read back as they were written
LEMMA NInvAlways ==
  ASSUME ReadBack
  PROVE  Spec => []NInv
PROOF
<1>1. Init => NInv
  BY InitNInv
<1>2. FInv /\ NInv /\ [Next]_vars => NInv'
  BY NInvInductive
<1> QED
  BY <1>1, <1>2, FInvAlways, PTL DEF Spec

(***************************************************************************)
(* If deserialize undoes serialize, a page whose checksum verifies is the  *)
(* page of that number, and is new or holds a node that was stored there,  *)
(* wherever writes stop and power fails: the checksum of src/page/page.rs  *)
(* tells every torn page.                                                  *)
(***************************************************************************)
THEOREM IntactAlwaysStored ==
  ASSUME ReadBack
  PROVE  Spec => []IntactMeansStored
PROOF
<1>1. FInv /\ NInv => IntactMeansStored
  <2> SUFFICES ASSUME FInv, NInv, NEW n \in DOMAIN file, VerifyChecksum(file[n])
               PROVE  /\ file[n].no = n
                      /\ \/ file[n].data = Zeros
                         \/ Deserialize(file[n].data) \in ToSet(given[n])
    BY DEF IntactMeansStored
  <2>1. file[n] \in FilePage /\ Meant(file[n], n)
    BY DEF FInv, Sized, NInv, OnDiskMeant
  <2>2. file[n].sum # <<>> /\ Tail(file[n].sum) = file[n].data
    BY <2>1, ChecksumTells DEF VerifyChecksum
  <2> QED
    BY <2>1, <2>2 DEF Meant
<1> QED
  BY <1>1, FInvAlways, NInvAlways, PTL

(***************************************************************************)
(* If deserialize undoes serialize, what is read from a page is the node   *)
(* stored there last, in memory and, as long as nothing went wrong, in the *)
(* file (write_data of src/page/page.rs, write_page and read_page of       *)
(* src/page/file_manager.rs).                                              *)
(***************************************************************************)
THEOREM NodesAlwaysReadBack ==
  ASSUME ReadBack
  PROVE  Spec => []NodesReadBack
PROOF
<1>1. FInv /\ NInv => NodesReadBack
  BY SavedPage
  DEF NInv, CachedMeant, FileCurrent, NodesReadBack, Unsaved
<1> QED
  BY <1>1, FInvAlways, NInvAlways, PTL

=============================================================================
