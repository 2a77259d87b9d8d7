-------------------------- MODULE TreeOnPoolProofs --------------------------
(***************************************************************************)
(* The tree on the pool it owns, for any number of frames, any sizes of    *)
(* nodes, and any calls that fail: the pool shows the tree its pages, two  *)
(* frames are enough, and pages of an earlier tree are left alone.         *)
(***************************************************************************)
EXTENDS TreeOnPool, FiniteSetTheorems, SequenceTheorems, WellFoundedInduction, TLAPS

\* The pool with what is proved about it
PoolP == INSTANCE BufferPoolCarefulProofs WITH
  pc <- pool_pc, Threads <- {Caller}, Spaces <- {0, FileSpace}, InitPages <- 0,
  OverflowChecks <- TRUE, IOErrors <- TRUE, Crashes <- TRUE

(***************************************************************************)
(* The tree names its pages in space 0, and this has to be the file's.     *)
(* There are fewer guards than a pin count can count.                      *)
(***************************************************************************)
Setting ==
  /\ FileSpace = 0
  /\ IsFiniteSet(Frames)
  /\ IsFiniteSet(Handles) /\ Cardinality(Handles) + 1 < PinModulus

-----------------------------------------------------------------------------
(***************************************************************************)
(* What is proved of a pool with one caller is true of this one.           *)
(***************************************************************************)
LEMMA SameCount ==
  /\ PoolP!IsFiniteSet(Handles) = IsFiniteSet(Handles)
  /\ PoolP!Cardinality(Handles) = Cardinality(Handles)
PROOF
<1>1. PoolP!IsFiniteSet(Handles) = IsFiniteSet(Handles)
  BY DEF PoolP!IsFiniteSet, IsFiniteSet
<1>2. PoolP!Cardinality(Handles) = Cardinality(Handles)
  BY DEF PoolP!Cardinality, Cardinality, PoolP!IsFiniteSet, IsFiniteSet
<1> QED
  BY <1>1, <1>2

LEMMA PoolAssumptions ==
  ASSUME Setting
  PROVE  PoolP!OneCaller /\ PoolP!ConstantsAssumption /\ PoolP!NoneAssumption
PROOF
<1>1. {0, FileSpace} = {FileSpace}
  BY DEF Setting
<1>2. PoolP!OneCaller
  BY <1>1, SameCount DEF Setting, PoolP!OneCaller
<1>3. PoolP!ConstantsAssumption
  BY TreeOnPoolAssumption DEF Setting, PoolP!ConstantsAssumption
<1>4. PoolP!NoneAssumption
  BY TreeOnPoolAssumption DEF PoolP!NoneAssumption, PoolP!PageIds, PoolP!PageNos, PoolP!Page,
    PoolP!BufferFrame, PoolP!PageGuard, Pool!PageIds, Pool!PageNos, Pool!Page,
    Pool!BufferFrame, Pool!PageGuard
<1> QED
  BY <1>2, <1>3, <1>4

LEMMA PoolHolds == ASSUME Setting PROVE PoolP!Spec => []PoolP!CInv
PROOF
<1>1. PoolP!OneCaller
  BY PoolAssumptions
<1>2. PoolP!ConstantsAssumption
  BY PoolAssumptions
<1>3. PoolP!NoneAssumption
  BY PoolAssumptions
<1> QED
  BY <1>1, <1>2, <1>3, PoolP!OneCallerHolds, PTL

(***************************************************************************)
(* The pool below the tree is the pool of the proofs.                      *)
(***************************************************************************)
\* The steps of the two are the same, one by one
LEMMA SameContinue == Pool!Continue(Caller) => PoolP!Continue(Caller)
PROOF
<1>1. Pool!HitPin(Caller) => PoolP!HitPin(Caller)
  BY DEF Pool!HitPin, PoolP!HitPin, Pool!index, PoolP!index, Pool!disk, PoolP!disk,
    Pool!scratch, PoolP!scratch, Pool!caller, PoolP!caller, Pool!FrameHeld, PoolP!FrameHeld,
    Pool!Incremented, PoolP!Incremented, Pool!Panic, PoolP!Panic, Pool!Goto, PoolP!Goto
<1>2. Pool!HitTouch(Caller) => PoolP!HitTouch(Caller)
  BY DEF Pool!HitTouch, PoolP!HitTouch, Pool!disk, PoolP!disk, Pool!scratch, PoolP!scratch,
    Pool!LruHeld, PoolP!LruHeld, Pool!ReturnGuard, PoolP!ReturnGuard, Pool!Touched,
    PoolP!Touched, Pool!Return, PoolP!Return, Pool!Forgotten, PoolP!Forgotten, Pool!ToSet,
    PoolP!ToSet, Pool!RemoveAt, PoolP!RemoveAt
<1>3. Pool!PopFree(Caller) => PoolP!PopFree(Caller)
  BY DEF Pool!PopFree, PoolP!PopFree, Pool!disk, PoolP!disk, Pool!scratch, PoolP!scratch,
    Pool!caller, PoolP!caller
<1>4. Pool!StartScan(Caller) => PoolP!StartScan(Caller)
  BY DEF Pool!StartScan, PoolP!StartScan, Pool!pool, PoolP!pool, Pool!disk, PoolP!disk,
    Pool!scratch, PoolP!scratch, Pool!caller, PoolP!caller, Pool!LruHeld, PoolP!LruHeld,
    Pool!Goto, PoolP!Goto, Pool!index, PoolP!index
<1>5. Pool!ScanPinned(Caller) => PoolP!ScanPinned(Caller)
  BY DEF Pool!ScanPinned, PoolP!ScanPinned, Pool!disk, PoolP!disk, Pool!call, PoolP!call,
    Pool!caller, PoolP!caller, Pool!Scanning, PoolP!Scanning, Pool!Front, PoolP!Front,
    Pool!Last, PoolP!Last, Pool!FrameHeld, PoolP!FrameHeld
<1>6. Pool!ScanEmpty(Caller) => PoolP!ScanEmpty(Caller)
  BY DEF Pool!ScanEmpty, PoolP!ScanEmpty, Pool!disk, PoolP!disk, Pool!call, PoolP!call,
    Pool!scratch, PoolP!scratch, Pool!caller, PoolP!caller, Pool!Scanning, PoolP!Scanning,
    Pool!Front, PoolP!Front, Pool!Last, PoolP!Last, Pool!FrameHeld, PoolP!FrameHeld
<1>7. Pool!ScanVictim(Caller) => PoolP!ScanVictim(Caller)
  BY DEF Pool!ScanVictim, PoolP!ScanVictim, Pool!disk, PoolP!disk, Pool!caller, PoolP!caller,
    Pool!Scanning, PoolP!Scanning, Pool!Front, PoolP!Front, Pool!Last, PoolP!Last,
    Pool!FrameHeld, PoolP!FrameHeld
<1>8. Pool!ScanExhausted(Caller) => PoolP!ScanExhausted(Caller)
  BY DEF Pool!ScanExhausted, PoolP!ScanExhausted, Pool!disk, PoolP!disk, Pool!caller,
    PoolP!caller, Pool!Return, PoolP!Return
<1>9. Pool!VictimGone(Caller) => PoolP!VictimGone(Caller)
  BY DEF Pool!VictimGone, PoolP!VictimGone, Pool!pool, PoolP!pool, Pool!disk, PoolP!disk,
    Pool!scratch, PoolP!scratch, Pool!caller, PoolP!caller, Pool!FrameHeld, PoolP!FrameHeld,
    Pool!Goto, PoolP!Goto, Pool!index, PoolP!index
<1>10. Pool!VictimSaved(Caller) => PoolP!VictimSaved(Caller)
  BY DEF Pool!VictimSaved, PoolP!VictimSaved, Pool!index, PoolP!index, Pool!scratch,
    PoolP!scratch, Pool!caller, PoolP!caller, Pool!FrameHeld, PoolP!FrameHeld, Pool!Goto,
    PoolP!Goto, Pool!WithChecksum, PoolP!WithChecksum, Pool!Written, PoolP!Written
<1>11. Pool!VictimWriteFails(Caller) => PoolP!VictimWriteFails(Caller)
  BY DEF Pool!VictimWriteFails, PoolP!VictimWriteFails, Pool!index, PoolP!index, Pool!scratch,
    PoolP!scratch, Pool!caller, PoolP!caller, Pool!FrameHeld, PoolP!FrameHeld, Pool!Return,
    PoolP!Return, Pool!Dirty, PoolP!Dirty, Pool!WithChecksum, PoolP!WithChecksum,
    Pool!PartlyWritten, PoolP!PartlyWritten, Pool!Written, PoolP!Written, Pool!Torn, PoolP!Torn
<1>12. Pool!Unmap(Caller) => PoolP!Unmap(Caller)
  BY DEF Pool!Unmap, PoolP!Unmap, Pool!disk, PoolP!disk, Pool!scratch, PoolP!scratch,
    Pool!caller, PoolP!caller, Pool!TableHeld, PoolP!TableHeld, Pool!Goto, PoolP!Goto
<1>13. Pool!ReadPage(Caller) => PoolP!ReadPage(Caller)
  BY DEF Pool!ReadPage, PoolP!ReadPage, Pool!pool, PoolP!pool, Pool!disk, PoolP!disk,
    Pool!caller, PoolP!caller, Pool!Goto, PoolP!Goto, Pool!index, PoolP!index
<1>14. Pool!Allocate(Caller) => PoolP!Allocate(Caller)
  BY DEF Pool!Allocate, PoolP!Allocate, Pool!pool, PoolP!pool, Pool!caller, PoolP!caller,
    Pool!NewPage, PoolP!NewPage, Pool!index, PoolP!index
<1>15. Pool!LoadFails(Caller) => PoolP!LoadFails(Caller)
  BY DEF Pool!LoadFails, PoolP!LoadFails, Pool!pool, PoolP!pool, Pool!disk, PoolP!disk,
    Pool!scratch, PoolP!scratch, Pool!caller, PoolP!caller, Pool!Return, PoolP!Return,
    Pool!index, PoolP!index
<1>16. Pool!Install(Caller) => PoolP!Install(Caller)
  BY DEF Pool!Install, PoolP!Install, Pool!index, PoolP!index, Pool!disk, PoolP!disk,
    Pool!caller, PoolP!caller, Pool!FrameHeld, PoolP!FrameHeld, Pool!Goto, PoolP!Goto
<1>17. Pool!Publish(Caller) => PoolP!Publish(Caller)
  BY DEF Pool!Publish, PoolP!Publish, Pool!disk, PoolP!disk, Pool!scratch, PoolP!scratch,
    Pool!caller, PoolP!caller, Pool!TableHeld, PoolP!TableHeld, Pool!Goto, PoolP!Goto
<1>18. Pool!PublishTouch(Caller) => PoolP!PublishTouch(Caller)
  BY DEF Pool!PublishTouch, PoolP!PublishTouch, Pool!disk, PoolP!disk, Pool!scratch,
    PoolP!scratch, Pool!LruHeld, PoolP!LruHeld, Pool!ReturnGuard, PoolP!ReturnGuard,
    Pool!Touched, PoolP!Touched, Pool!Return, PoolP!Return, Pool!Forgotten, PoolP!Forgotten,
    Pool!ToSet, PoolP!ToSet, Pool!RemoveAt, PoolP!RemoveAt
<1>19. Pool!FlushNext(Caller) => PoolP!FlushNext(Caller)
  BY DEF Pool!FlushNext, PoolP!FlushNext, Pool!pool, PoolP!pool, Pool!disk, PoolP!disk,
    Pool!caller, PoolP!caller, Pool!TableHeld, PoolP!TableHeld, Pool!AfterFlush,
    PoolP!AfterFlush, Pool!index, PoolP!index
<1>20. Pool!FlushClean(Caller) => PoolP!FlushClean(Caller)
  BY DEF Pool!FlushClean, PoolP!FlushClean, Pool!pool, PoolP!pool, Pool!disk, PoolP!disk,
    Pool!scratch, PoolP!scratch, Pool!caller, PoolP!caller, Pool!FrameHeld, PoolP!FrameHeld,
    Pool!Dirty, PoolP!Dirty, Pool!AfterFlush, PoolP!AfterFlush, Pool!index, PoolP!index
<1>21. Pool!FlushWrite(Caller) => PoolP!FlushWrite(Caller)
  BY DEF Pool!FlushWrite, PoolP!FlushWrite, Pool!index, PoolP!index, Pool!scratch,
    PoolP!scratch, Pool!caller, PoolP!caller, Pool!FrameHeld, PoolP!FrameHeld, Pool!Dirty,
    PoolP!Dirty, Pool!WithChecksum, PoolP!WithChecksum, Pool!Written, PoolP!Written,
    Pool!AfterFlush, PoolP!AfterFlush
<1>22. Pool!FlushFails(Caller) => PoolP!FlushFails(Caller)
  BY DEF Pool!FlushFails, PoolP!FlushFails, Pool!index, PoolP!index, Pool!caller, PoolP!caller,
    Pool!FrameHeld, PoolP!FrameHeld, Pool!Return, PoolP!Return, Pool!Dirty, PoolP!Dirty,
    Pool!WithChecksum, PoolP!WithChecksum, Pool!PartlyWritten, PoolP!PartlyWritten,
    Pool!Written, PoolP!Written, Pool!Torn, PoolP!Torn
<1>23. Pool!FindFrame(Caller) => PoolP!FindFrame(Caller)
  BY <1>3, <1>4, <1>5, <1>6, <1>7, <1>8, <1>9, <1>10, <1>11, <1>12 DEF Pool!FindFrame,
    PoolP!FindFrame
<1> QED
  BY <1>1, <1>2, <1>13, <1>14, <1>15, <1>16, <1>17, <1>18, <1>19, <1>20, <1>21, <1>22, <1>23
    DEF Pool!Continue, PoolP!Continue

\* So are a beginning, and what a caller may do between calls
LEMMA SameBegin ==
  /\ Pool!Init => PoolP!Init
  /\ Pool!Restart => PoolP!Restart
  /\ \A p : Pool!FetchHit(Caller, p) => PoolP!FetchHit(Caller, p)
  /\ \A p : Pool!FetchMiss(Caller, p) => PoolP!FetchMiss(Caller, p)
  /\ Pool!StartNewPage(Caller) => PoolP!StartNewPage(Caller)
  /\ \A h : Pool!WriteGuard(Caller, h) => PoolP!WriteGuard(Caller, h)
  /\ \A h : Pool!DropGuard(Caller, h) => PoolP!DropGuard(Caller, h)
PROOF
<1>1. Pool!Init => PoolP!Init
  BY DEF Pool!Init, PoolP!Init, Pool!PageNos, PoolP!PageNos, Pool!NewPage, PoolP!NewPage,
    Pool!EmptyTable, PoolP!EmptyTable, Pool!EmptyFrames, PoolP!EmptyFrames, Pool!Nothing,
    PoolP!Nothing, Pool!NoGuards, PoolP!NoGuards, Pool!PageIds, PoolP!PageIds
<1>2. Pool!Restart => PoolP!Restart
  BY DEF Pool!Restart, PoolP!Restart, Pool!PageNos, PoolP!PageNos, Pool!EmptyTable,
    PoolP!EmptyTable, Pool!EmptyFrames, PoolP!EmptyFrames, Pool!Nothing, PoolP!Nothing,
    Pool!NoGuards, PoolP!NoGuards, Pool!Opened, PoolP!Opened, Pool!PageIds, PoolP!PageIds,
    Pool!disk, PoolP!disk
<1>3. ASSUME NEW p PROVE Pool!FetchHit(Caller, p) => PoolP!FetchHit(Caller, p)
  BY DEF Pool!FetchHit, PoolP!FetchHit, Pool!MayFetch, PoolP!MayFetch, Pool!TableHeld,
    PoolP!TableHeld, Pool!pool, PoolP!pool, Pool!index, PoolP!index, Pool!disk, PoolP!disk,
    Pool!scratch, PoolP!scratch, Pool!caller, PoolP!caller
<1>4. ASSUME NEW p PROVE Pool!FetchMiss(Caller, p) => PoolP!FetchMiss(Caller, p)
  BY DEF Pool!FetchMiss, PoolP!FetchMiss, Pool!MayFetch, PoolP!MayFetch, Pool!TableHeld,
    PoolP!TableHeld, Pool!pool, PoolP!pool, Pool!index, PoolP!index, Pool!disk, PoolP!disk,
    Pool!scratch, PoolP!scratch, Pool!caller, PoolP!caller
<1>5. Pool!StartNewPage(Caller) => PoolP!StartNewPage(Caller)
  BY DEF Pool!StartNewPage, PoolP!StartNewPage, Pool!MayFetch, PoolP!MayFetch, Pool!Goto,
    PoolP!Goto, Pool!pool, PoolP!pool, Pool!index, PoolP!index, Pool!disk, PoolP!disk,
    Pool!scratch, PoolP!scratch, Pool!caller, PoolP!caller
<1>6. ASSUME NEW h PROVE Pool!WriteGuard(Caller, h) => PoolP!WriteGuard(Caller, h)
  BY DEF Pool!WriteGuard, PoolP!WriteGuard, Pool!FrameHeld, PoolP!FrameHeld, Pool!index,
    PoolP!index, Pool!disk, PoolP!disk, Pool!call, PoolP!call, Pool!scratch, PoolP!scratch,
    Pool!Newer, PoolP!Newer
<1>7. ASSUME NEW h PROVE Pool!DropGuard(Caller, h) => PoolP!DropGuard(Caller, h)
  BY DEF Pool!DropGuard, PoolP!DropGuard, Pool!FrameHeld, PoolP!FrameHeld, Pool!index,
    PoolP!index, Pool!disk, PoolP!disk, Pool!call, PoolP!call, Pool!scratch, PoolP!scratch,
    Pool!Panic, PoolP!Panic, Pool!Decremented, PoolP!Decremented
<1> QED
  BY <1>1, <1>2, <1>3, <1>4, <1>5, <1>6, <1>7

\* A call that goes on has not panicked
LEMMA ContinueRuns == PoolP!Continue(Caller) => PoolP!Running
PROOF
<1>1. PoolP!Continue(Caller) => pool_pc[Caller] # "panicked"
  BY DEF PoolP!Continue, PoolP!FindFrame, PoolP!HitPin, PoolP!HitTouch, PoolP!PopFree,
    PoolP!StartScan, PoolP!Scanning, PoolP!ScanPinned, PoolP!ScanEmpty, PoolP!ScanVictim,
    PoolP!ScanExhausted, PoolP!VictimGone, PoolP!VictimSaved, PoolP!VictimWriteFails,
    PoolP!Unmap, PoolP!ReadPage, PoolP!Allocate, PoolP!LoadFails, PoolP!Install,
    PoolP!Publish, PoolP!PublishTouch, PoolP!FlushNext, PoolP!FlushClean, PoolP!FlushWrite,
    PoolP!FlushFails
<1> QED
  BY <1>1 DEF PoolP!Running

\* Nor has a caller that asks for a page or uses a guard
LEMMA BeginRuns ==
  /\ pool_pc[Caller] = "idle" => PoolP!Running
  /\ \A p : PoolP!FetchHit(Caller, p) => PoolP!Running
  /\ \A p : PoolP!FetchMiss(Caller, p) => PoolP!Running
  /\ PoolP!StartNewPage(Caller) => PoolP!Running
  /\ \A h : PoolP!WriteGuard(Caller, h) => PoolP!Running
  /\ \A h : PoolP!DropGuard(Caller, h) => PoolP!Running
PROOF
BY DEF PoolP!FetchHit, PoolP!FetchMiss, PoolP!StartNewPage, PoolP!WriteGuard,
  PoolP!DropGuard, PoolP!MayFetch, PoolP!Running

\* What is asked of the pool
Asks ==
  IF Needs[asked + 1] = New THEN PoolP!StartNewPage(Caller)
  ELSE LET id == [space |-> 0, no |-> Needs[asked + 1]]
       IN PoolP!FetchHit(Caller, id) \/ PoolP!FetchMiss(Caller, id)

LEMMA AskAsks == Ask => Asks
PROOF
BY SameBegin DEF Ask, Fetch, Asks

\* The page numbers a step may ask for are page numbers
AskedInRange == Answered /\ asked < Len(Needs) => Needs[asked + 1] \in {New} \cup PoolP!PageNos

LEMMA StepsThePool ==
  ASSUME AskedInRange, [Next]_vars
  PROVE  [PoolP!Next]_PoolP!vars
PROOF
<1>1. UNCHANGED pool => UNCHANGED PoolP!vars
  BY DEF pool, PoolP!vars, PoolP!pool, PoolP!index, PoolP!disk, PoolP!call, PoolP!scratch, PoolP!caller
<1>2. CASE Ask
  <2>1. Asks
    BY <1>2, AskAsks
  <2>2. Needs[asked + 1] \in {New} \cup PoolP!PageNos
    BY <1>2 DEF Ask, AskedInRange
  <2>3. CASE Needs[asked + 1] = New
    <3>1. PoolP!StartNewPage(Caller)
      BY <2>1, <2>3 DEF Asks
    <3> QED
      BY <3>1, BeginRuns DEF PoolP!Next, PoolP!Begin
  <2>4. CASE Needs[asked + 1] # New
    <3> DEFINE id == [space |-> 0, no |-> Needs[asked + 1]]
    <3>1. id \in PoolP!PageIds
      BY <2>2, <2>4 DEF PoolP!PageIds
    <3>2. PoolP!FetchHit(Caller, id) \/ PoolP!FetchMiss(Caller, id)
      BY <2>1, <2>4 DEF Asks
    <3> HIDE DEF id
    <3> QED
      BY <3>1, <3>2, BeginRuns DEF PoolP!Next, PoolP!Begin
  <2> QED
    BY <2>3, <2>4
<1>3. CASE PoolStep
  <2>1. PoolP!Continue(Caller)
    BY <1>3, SameContinue DEF PoolStep
  <2> QED
    BY <2>1, ContinueRuns DEF PoolP!Next
<1>4. CASE UseGuard
  <2>1. PICK h \in Handles : PoolP!WriteGuard(Caller, h) \/ PoolP!DropGuard(Caller, h)
    BY <1>4, SameBegin DEF UseGuard, Held
  <2> QED
    BY <2>1, BeginRuns DEF PoolP!Next, PoolP!Begin
<1>5. CASE Restart
  BY <1>5, SameBegin DEF Restart, PoolP!Next
<1>6. CASE \E e \in Inserts : Insert(e)
  BY <1>1, <1>6 DEF Insert
<1>7. CASE CallFails
  BY <1>1, <1>7 DEF CallFails
<1>8. CASE TreeStep
  BY <1>1, <1>8 DEF TreeStep
<1>9. CASE UNCHANGED vars
  BY <1>1, <1>9 DEF vars, pool
<1> QED
  BY <1>2, <1>3, <1>4, <1>5, <1>6, <1>7, <1>8, <1>9 DEF Next

LEMMA PoolStepKeeps ==
  ASSUME Setting, PoolP!CInv, [PoolP!Next]_PoolP!vars
  PROVE  PoolP!CInv'
PROOF
<1>1. PoolP!OneCaller /\ PoolP!ConstantsAssumption /\ PoolP!NoneAssumption
  BY PoolAssumptions
<1>2. PoolP!FewGuards
  BY <1>1, PoolP!OneCallerHasFewGuards
<1>3. PoolP!IInv
  BY DEF PoolP!CInv, PoolP!RInv
<1>4. PoolP!Careful
  BY <1>1, <1>3, PoolP!OneCallerIsCareful
<1> QED
  BY <1>1, <1>2, <1>4, PoolP!CarefulStep

LEMMA PoolBegins == ASSUME Setting, PoolP!Init PROVE PoolP!CInv
PROOF
<1>1. PoolP!ConstantsAssumption /\ PoolP!NoneAssumption
  BY PoolAssumptions
<1> QED
  BY <1>1, PoolP!InitialCareful

-----------------------------------------------------------------------------
(***************************************************************************)
(* The tree's side: every page a step may ask for is one of the tree's,    *)
(* that is, not an old one and not beyond the last.                        *)
(***************************************************************************)
Between(b, c) == b .. c - 1
Pages == Between(base, count)

LinkedEntries(entries, P) == \E T : entries \in Seq(T) /\ \A e \in T : e.child \in P

\* A leaf, or an internal node, with links to pages of P
LeafIn(n, P) == \E S, T : n \in [leaf : {TRUE}, entries : S, prev : T, next : P \cup {None}]
InnerIn(n, P) ==
  \E S : n \in [leaf : {FALSE}, first : P, entries : S] /\ LinkedEntries(n.entries, P)

\* Every page of the tree leads to pages of the tree
NodesIn ==
  /\ base \in Nat /\ count \in Nat /\ base <= count /\ count <= MaxPages
  /\ DOMAIN nodes = Between(0, MaxPages)
  /\ \A p \in Pages : LeafIn(nodes[p], Pages) \/ InnerIn(nodes[p], Pages)

\* So does every page the insert has come through
PathIn == path \in Seq(Pages) /\ \A i \in DOMAIN path : InnerIn(nodes[path[i]], Pages)

\* Where the insert is, and where it goes on
OnTheWay ==
  /\ pc # "new" => root \in Pages
  /\ pc \in {"visit", "split_leaf"} => at \in Pages
  /\ pc = "split_leaf" => LeafIn(nodes[at], Pages)
  /\ pc \in {"relink", "ascend", "split_internal"} => split.child \in Pages
  /\ pc = "relink" => nodes[split.child].next \in Pages
  /\ pc = "split_internal" => path # <<>>

TInv == NodesIn /\ PathIn /\ OnTheWay

\* Links into the tree stay links into it when it grows
LEMMA StillIn ==
  ASSUME NEW P, NEW Q, P \subseteq Q, NEW n
  PROVE  (LeafIn(n, P) => LeafIn(n, Q)) /\ (InnerIn(n, P) => InnerIn(n, Q))
PROOF
<1>1. ASSUME LeafIn(n, P)
      PROVE  LeafIn(n, Q)
  <2>1. PICK S, T : n \in [leaf : {TRUE}, entries : S, prev : T, next : P \cup {None}]
    BY <1>1 DEF LeafIn
  <2>2. n \in [leaf : {TRUE}, entries : S, prev : T, next : Q \cup {None}]
    BY <2>1
  <2> QED
    BY <2>2 DEF LeafIn
<1>2. ASSUME InnerIn(n, P)
      PROVE  InnerIn(n, Q)
  <2>1. PICK S : n \in [leaf : {FALSE}, first : P, entries : S] /\ LinkedEntries(n.entries, P)
    BY <1>2 DEF InnerIn
  <2>2. n \in [leaf : {FALSE}, first : Q, entries : S]
    BY <2>1
  <2>3. LinkedEntries(n.entries, Q)
    BY <2>1 DEF LinkedEntries
  <2> QED
    BY <2>2, <2>3 DEF InnerIn
<1> QED
  BY <1>1, <1>2

\* Changing a field of a node, and making one
LEMMA LeafWith ==
  ASSUME NEW P, NEW n, LeafIn(n, P), NEW v, NEW m,
         m = [n EXCEPT !.entries = v] \/ m = [n EXCEPT !.prev = v]
  PROVE  LeafIn(m, P)
PROOF
<1>1. PICK S, T : n \in [leaf : {TRUE}, entries : S, prev : T, next : P \cup {None}]
  BY DEF LeafIn
<1>2. [n EXCEPT !.entries = v] \in [leaf : {TRUE}, entries : S \cup {v}, prev : T, next : P \cup {None}]
  BY <1>1
<1>3. [n EXCEPT !.prev = v] \in [leaf : {TRUE}, entries : S, prev : T \cup {v}, next : P \cup {None}]
  BY <1>1
<1> QED
  BY <1>2, <1>3 DEF LeafIn

LEMMA InnerWith ==
  ASSUME NEW P, NEW n, InnerIn(n, P), NEW v, NEW m
  PROVE  /\ m = [n EXCEPT !.entries = v] /\ LinkedEntries(v, P) => InnerIn(m, P)
         /\ m = [n EXCEPT !.prev = v] => m = n
PROOF
<1>1. PICK S : n \in [leaf : {FALSE}, first : P, entries : S] /\ LinkedEntries(n.entries, P)
  BY DEF InnerIn
<1>2. [n EXCEPT !.entries = v] \in [leaf : {FALSE}, first : P, entries : S \cup {v}]
  BY <1>1
<1>3. [n EXCEPT !.entries = v].entries = v
  BY <1>1
<1>4. [n EXCEPT !.prev = v] = n
  BY <1>1
<1> QED
  BY <1>2, <1>3, <1>4 DEF InnerIn

LEMMA NewLeaf ==
  ASSUME NEW P, NEW es, NEW prev, NEW next \in P \cup {None}
  PROVE  LeafIn(Leaf(es, prev, next), P)
PROOF
<1>1. Leaf(es, prev, next) \in [leaf : {TRUE}, entries : {es}, prev : {prev}, next : P \cup {None}]
  BY DEF Leaf
<1> QED
  BY <1>1 DEF LeafIn

LEMMA NewInner ==
  ASSUME NEW P, NEW first \in P, NEW es, LinkedEntries(es, P)
  PROVE  InnerIn(Internal(first, es), P)
PROOF
<1>1. Internal(first, es) \in [leaf : {FALSE}, first : P, entries : {es}] /\ Internal(first, es).entries = es
  BY DEF Internal
<1> QED
  BY <1>1 DEF InnerIn

LEMMA LeastNatural ==
  ASSUME NEW T, T \subseteq Nat, T # {}
  PROVE  \E n \in T : \A m \in T : n <= m
PROOF
<1> DEFINE R == OpToRel(<, Nat)
<1>1. IsWellFoundedOn(R, Nat)
  BY NatLessThanWellFounded
<1>2. \A x, y \in Nat : <<y, x>> \in R <=> y < x
  BY DEF OpToRel
<1> HIDE DEF R
<1>3. \E x \in T : \A y \in T : ~ (<<y, x>> \in R)
  BY <1>1, WFMin
<1>4. PICK x \in T : \A y \in T : ~ (<<y, x>> \in R)
  BY <1>3
<1>5. \A y \in T : ~(y < x)
  BY <1>2, <1>4
<1> QED
  BY <1>5

\* A set of positions has a last one
LEMMA GreatestIsMax ==
  ASSUME NEW n \in Nat, NEW T, T \subseteq 1 .. n, T # {}
  PROVE  Tree!Max(T) \in T
PROOF
<1> DEFINE U == {n - m : m \in T}
<1>1. U \subseteq Nat /\ U # {}
  <2>1. \A m \in T : n - m \in Nat
    OBVIOUS
  <2> QED
    BY <2>1
<1> HIDE DEF U
<1>2. PICK u \in U : \A v \in U : u <= v
  BY <1>1, LeastNatural
<1>3. PICK t \in T : u = n - t
  BY <1>2 DEF U
<1>4. \A m \in T : n - m \in U
  BY DEF U
<1>5. \A m \in T : t >= m
  BY <1>2, <1>3, <1>4
<1> QED
  BY <1>5 DEF Tree!Max

\* A cut of a sequence
LEMMA CutIn ==
  ASSUME NEW T, NEW s \in Seq(T), NEW i \in 1 .. Len(s) + 1, NEW k \in i - 1 .. Len(s)
  PROVE  SubSeq(s, i, k) \in Seq(T) /\ Len(SubSeq(s, i, k)) = k - i + 1
PROOF
<1>1. \A j \in i .. k : s[j] \in T
  OBVIOUS
<1>2. /\ SubSeq(s, i, k) \in Seq(T)
      /\ Len(SubSeq(s, i, k)) = IF i <= k THEN k - i + 1 ELSE 0
  BY <1>1, SubSeqProperties
<1> QED
  BY <1>2

\* A descent goes on to a page of the tree
LEMMA ChildIn ==
  ASSUME NEW P, NEW n, InnerIn(n, P), NEW key
  PROVE  Tree!FindChild(n, key) \in P
PROOF
<1> DEFINE entries == n.entries
<1>1. n.first \in P /\ LinkedEntries(entries, P)
  BY DEF InnerIn
<1>2. PICK T : entries \in Seq(T) /\ \A e \in T : e.child \in P
  BY <1>1 DEF LinkedEntries
<1> DEFINE below == {i \in DOMAIN n.entries : n.entries[i].key <= key}
<1>4. ASSUME below # {}
      PROVE  n.entries[Tree!Max(below)].child \in P
  <2>1. below \subseteq 1 .. Len(entries) /\ Len(entries) \in Nat
    BY <1>2
  <2> HIDE DEF below
  <2>2. Tree!Max(below) \in below
    BY <1>4, <2>1, GreatestIsMax
  <2>3. Tree!Max(below) \in 1 .. Len(entries)
    BY <2>1, <2>2
  <2>4. entries[Tree!Max(below)] \in T
    BY <1>2, <2>3
  <2> QED
    BY <1>2, <2>4
<1> QED
  BY <1>1, <1>4 DEF Tree!FindChild

\* The tree's own Cardinality is Cardinality
LEMMA TreeCount == ASSUME NEW S PROVE Tree!Cardinality(S) = Cardinality(S)
PROOF
BY DEF Tree!Cardinality, Cardinality, Tree!IsFiniteSet, IsFiniteSet

\* An internal node gets one entry more
LEMMA EntryIn ==
  ASSUME NEW T, NEW s \in Seq(T), NEW e \in T
  PROVE  /\ Tree!EntryInserted(s, e) \in Seq(T)
         /\ Len(Tree!EntryInserted(s, e)) = Len(s) + 1
PROOF
<1> DEFINE B == {i \in DOMAIN s : s[i].key < e.key}
           b == Tree!Before(s, e.key)
           left == SubSeq(s, 1, b)
           right == SubSeq(s, b + 1, Len(s))
<1>1. b \in 0 .. Len(s)
  <2>1. Tree!Cardinality(B) = Cardinality(B)
    BY TreeCount
  <2>2. B \subseteq 1 .. Len(s)
    OBVIOUS
  <2>3. IsFiniteSet(1 .. Len(s)) /\ Cardinality(1 .. Len(s)) = Len(s)
    <3>1. /\ IsFiniteSet(1 .. Len(s))
          /\ Cardinality(1 .. Len(s)) = IF 1 > Len(s) THEN 0 ELSE Len(s) - 1 + 1
      BY FS_Interval
    <3> QED
      BY <3>1
  <2>4. b = Tree!Cardinality(B)
    BY DEF Tree!Before
  <2> HIDE DEF B
  <2>5. Cardinality(B) <= Len(s) /\ Cardinality(B) \in Nat
    BY <2>2, <2>3, FS_Subset, FS_CardinalityType
  <2> QED
    BY <2>1, <2>4, <2>5
<1>2. Tree!EntryInserted(s, e) = (left \o <<e>>) \o right
  <2>1. Tree!EntryInserted(s, e) = SubSeq(s, 1, (b + 1) - 1) \o <<e>> \o SubSeq(s, b + 1, Len(s))
    BY DEF Tree!EntryInserted, Tree!InsertAt
  <2> HIDE DEF b
  <2>2. (b + 1) - 1 = b
    BY <1>1
  <2> QED
    BY <2>1, <2>2
<1> HIDE DEF b
<1>3. left \in Seq(T) /\ Len(left) = b
  BY <1>1, CutIn
<1>4. right \in Seq(T) /\ Len(right) = Len(s) - b
  <2>1. b + 1 \in 1 .. Len(s) + 1 /\ Len(s) \in (b + 1) - 1 .. Len(s)
    BY <1>1
  <2> QED
    BY <1>1, <2>1, CutIn
<1> HIDE DEF left, right
<1>5. <<e>> \in Seq(T) /\ Len(<<e>>) = 1
  OBVIOUS
<1>6. left \o <<e>> \in Seq(T) /\ Len(left \o <<e>>) = b + 1
  BY <1>1, <1>3, <1>5, ConcatProperties
<1> QED
  BY <1>1, <1>2, <1>4, <1>6, ConcatProperties

\* ... which leads to a page of the tree as the others do
LEMMA EntryLinked ==
  ASSUME NEW P, NEW s, LinkedEntries(s, P), NEW e, e.child \in P
  PROVE  /\ LinkedEntries(Tree!EntryInserted(s, e), P)
         /\ Len(Tree!EntryInserted(s, e)) \in Nat /\ Len(Tree!EntryInserted(s, e)) >= 1
PROOF
<1>1. PICK T : s \in Seq(T) /\ \A x \in T : x.child \in P
  BY DEF LinkedEntries
<1> DEFINE U == T \cup {e}
<1>2. s \in Seq(U) /\ e \in U /\ \A x \in U : x.child \in P
  BY <1>1
<1> HIDE DEF U
<1>3. /\ Tree!EntryInserted(s, e) \in Seq(U)
      /\ Len(Tree!EntryInserted(s, e)) = Len(s) + 1
  BY <1>2, EntryIn
<1> QED
  BY <1>2, <1>3 DEF LinkedEntries

-----------------------------------------------------------------------------
(***************************************************************************)
(* The steps of the tree keep to its pages.                                *)
(***************************************************************************)
LEMMA Kinds ==
  ASSUME NEW n, NEW P
  PROVE  (LeafIn(n, P) => n.leaf) /\ (InnerIn(n, P) => ~n.leaf)
PROOF
BY DEF LeafIn, InnerIn

LEMMA LastIn ==
  ASSUME NEW T, NEW s \in Seq(T), s # <<>>
  PROVE  /\ Last(s) = s[Len(s)] /\ Len(s) \in DOMAIN s /\ Last(s) \in T
         /\ Tree!Last(s) = Last(s)
PROOF
BY DEF Last, Tree!Last

LEMMA FrontIn ==
  ASSUME NEW T, NEW s \in Seq(T), s # <<>>
  PROVE  /\ Tree!Front(s) \in Seq(T)
         /\ \A i \in DOMAIN Tree!Front(s) : i \in DOMAIN s /\ Tree!Front(s)[i] = s[i]
PROOF
<1> DEFINE k == Len(s) - 1
<1>1. k \in 0 .. Len(s) /\ \A j \in 1 .. k : s[j] \in T
  OBVIOUS
<1>2. /\ SubSeq(s, 1, k) \in Seq(T)
      /\ Len(SubSeq(s, 1, k)) = IF 1 <= k THEN k - 1 + 1 ELSE 0
      /\ \A j \in 1 .. k - 1 + 1 : SubSeq(s, 1, k)[j] = s[1 + j - 1]
  BY <1>1, SubSeqProperties
<1>3. Tree!Front(s) = SubSeq(s, 1, k)
  BY DEF Tree!Front
<1> QED
  BY <1>1, <1>2, <1>3

\* The tree has the same pages, or one more
Grows ==
  /\ base' = base /\ count' \in {count, count + 1} /\ count' <= MaxPages
  /\ DOMAIN nodes' = DOMAIN nodes

LEMMA Intervals ==
  ASSUME NEW b \in Nat, NEW c \in Nat, NEW d \in Nat, NEW m \in Nat,
         b <= c, d = c \/ d = c + 1, d <= m
  PROVE  /\ Between(b, c) \subseteq Between(b, d) /\ b <= d
         /\ d = c + 1 => c \in Between(b, d)
         /\ \A p \in Between(b, d) : p \in Between(b, c) \/ (p = c /\ d = c + 1)
         /\ Between(b, c) \subseteq Between(0, m) /\ Between(b, d) \subseteq Between(0, m)
         /\ c \notin Between(b, c)
PROOF
BY DEF Between

LEMMA PagesGrow ==
  ASSUME TInv, Grows
  PROVE  /\ Pages \subseteq Pages' /\ count' \in Nat /\ base <= count'
         /\ count' = count + 1 => count \in Pages'
         /\ \A p \in Pages' : p \in Pages \/ (p = count /\ count' = count + 1)
         /\ Pages \subseteq DOMAIN nodes /\ Pages' \subseteq DOMAIN nodes /\ count \notin Pages
PROOF
<1>1. /\ base \in Nat /\ count \in Nat /\ base <= count
      /\ count' = count \/ count' = count + 1
      /\ MaxPages \in Nat /\ count' <= MaxPages /\ DOMAIN nodes = Between(0, MaxPages)
      /\ Pages = Between(base, count) /\ Pages' = Between(base, count')
  BY TreeOnPoolAssumption DEF TInv, NodesIn, Grows, Pages, Between
<1>2. count' \in Nat
  BY <1>1
<1> QED
  BY <1>1, <1>2, Intervals

\* A node that changes, and the one that is added, must lead to pages of the tree
LEMMA NodesStayIn ==
  ASSUME TInv, Grows,
         \A p \in Pages :
           nodes'[p] = nodes[p] \/ LeafIn(nodes'[p], Pages') \/ InnerIn(nodes'[p], Pages'),
         count' = count + 1 => LeafIn(nodes'[count], Pages') \/ InnerIn(nodes'[count], Pages')
  PROVE  NodesIn'
PROOF
<1>1. ASSUME NEW p \in Pages'
      PROVE  LeafIn(nodes'[p], Pages') \/ InnerIn(nodes'[p], Pages')
  <2>1. CASE p \in Pages /\ nodes'[p] = nodes[p]
    <3>1. LeafIn(nodes[p], Pages) \/ InnerIn(nodes[p], Pages)
      BY <2>1 DEF TInv, NodesIn
    <3>2. Pages \subseteq Pages'
      BY PagesGrow
    <3> QED
      BY <2>1, <3>1, <3>2, StillIn
  <2> QED
    BY <2>1, PagesGrow
<1>2. /\ base' \in Nat /\ count' \in Nat /\ base' <= count' /\ count' <= MaxPages
      /\ DOMAIN nodes' = Between(0, MaxPages)
  BY PagesGrow DEF TInv, NodesIn, Grows
<1> QED
  BY <1>1, <1>2 DEF NodesIn

LEMMA PathStaysIn ==
  ASSUME TInv, Grows, path' = path,
         \A i \in DOMAIN path :
           nodes'[path[i]] = nodes[path[i]] \/ InnerIn(nodes'[path[i]], Pages')
  PROVE  PathIn'
PROOF
<1>1. Pages \subseteq Pages'
  BY PagesGrow
<1>2. path \in Seq(Pages')
  BY <1>1 DEF TInv, PathIn
<1>3. ASSUME NEW i \in DOMAIN path
      PROVE  InnerIn(nodes'[path[i]], Pages')
  <2>1. InnerIn(nodes[path[i]], Pages)
    BY DEF TInv, PathIn
  <2> QED
    BY <1>1, <2>1, StillIn
<1> QED
  BY <1>2, <1>3 DEF PathIn

\* Nothing but the call changes
LEMMA SameTree ==
  ASSUME TInv, UNCHANGED <<nodes, count, base>>
  PROVE  Grows /\ NodesIn' /\ (path' = path => PathIn') /\ Pages' = Pages
PROOF
<1>1. Grows
  BY DEF Grows, TInv, NodesIn
<1>2. Pages' = Pages
  BY DEF Pages
<1>3. NodesIn'
  BY <1>1, NodesStayIn DEF TInv, NodesIn
<1>4. path' = path => PathIn'
  BY <1>1, PathStaysIn
<1> QED
  BY <1>1, <1>2, <1>3, <1>4

LEMMA CallOver ==
  ASSUME Tree!Idle, NodesIn', root' \in Pages'
  PROVE  TInv'
PROOF
<1>1. PathIn'
  BY DEF Tree!Idle, PathIn
<1>2. OnTheWay'
  BY DEF Tree!Idle, OnTheWay
<1> QED
  BY <1>1, <1>2 DEF TInv

LEMMA FailIn == ASSUME TInv, pc # "new", Tree!Fail, base' = base PROVE TInv'
PROOF
<1>1. UNCHANGED <<nodes, count, base>> /\ root' = root
  BY DEF Tree!Fail, Tree!tree
<1>2. root \in Pages
  BY DEF TInv, OnTheWay
<1> QED
  BY <1>1, <1>2, SameTree, CallOver DEF Tree!Fail

LEMMA InsertIn == ASSUME TInv, NEW e, Tree!Insert(e), base' = base PROVE TInv'
PROOF
<1>1. /\ UNCHANGED <<nodes, count, base, root, path>>
      /\ pc = "idle" /\ pc' = "visit" /\ at' = root
  BY DEF Tree!Insert, Tree!tree
<1>2. NodesIn' /\ PathIn' /\ Pages' = Pages
  BY <1>1, SameTree
<1>3. OnTheWay'
  BY <1>1, <1>2 DEF TInv, OnTheWay
<1> QED
  BY <1>2, <1>3 DEF TInv

LEMMA DescendIn == ASSUME TInv, Tree!Descend, base' = base PROVE TInv'
PROOF
<1>1. /\ UNCHANGED <<nodes, count, base, root>>
      /\ pc = "visit" /\ pc' = "visit" /\ ~nodes[at].leaf
      /\ path' = Append(path, at) /\ at' = Tree!FindChild(nodes[at], entry.key)
  BY DEF Tree!Descend, Tree!tree
<1>2. NodesIn' /\ Pages' = Pages
  BY <1>1, SameTree
<1>3. at \in Pages /\ root \in Pages
  BY <1>1 DEF TInv, OnTheWay
<1>4. InnerIn(nodes[at], Pages)
  <2>1. LeafIn(nodes[at], Pages) \/ InnerIn(nodes[at], Pages)
    BY <1>3 DEF TInv, NodesIn
  <2> QED
    BY <1>1, <2>1, Kinds
<1>5. at' \in Pages
  BY <1>1, <1>4, ChildIn
<1>6. PathIn'
  <2>1. path \in Seq(Pages) /\ \A i \in DOMAIN path : InnerIn(nodes[path[i]], Pages)
    BY DEF TInv, PathIn
  <2>2. path' \in Seq(Pages)
    BY <1>1, <1>3, <2>1
  <2>3. ASSUME NEW i \in DOMAIN path'
        PROVE  InnerIn(nodes[path'[i]], Pages)
    <3>1. path'[i] = at \/ (i \in DOMAIN path /\ path'[i] = path[i])
      BY <1>1, <1>3, <2>1
    <3> QED
      BY <1>4, <2>1, <3>1
  <2> QED
    BY <1>1, <1>2, <2>2, <2>3 DEF PathIn
<1>7. OnTheWay'
  BY <1>1, <1>2, <1>3, <1>5 DEF OnTheWay
<1> QED
  BY <1>2, <1>6, <1>7 DEF TInv

LEMMA InsertInLeafIn == ASSUME TInv, Tree!InsertInLeaf, base' = base PROVE TInv'
PROOF
<1>1. /\ UNCHANGED <<count, base, root>>
      /\ pc = "visit" /\ nodes[at].leaf /\ Tree!Idle
      /\ nodes' = [nodes EXCEPT ![at].entries = Tree!LeafInserted(@, entry)]
  BY DEF Tree!InsertInLeaf, Tree!Done
<1>2. at \in Pages /\ root \in Pages
  BY <1>1 DEF TInv, OnTheWay
<1>3. Grows
  BY <1>1 DEF Grows, TInv, NodesIn
<1>4. Pages' = Pages
  BY <1>1 DEF Pages
<1>5. LeafIn(nodes[at], Pages)
  BY <1>1, <1>2, Kinds DEF TInv, NodesIn
<1>6. LeafIn(nodes'[at], Pages)
  <2>1. at \in DOMAIN nodes
    BY <1>2, <1>3, PagesGrow
  <2>2. nodes'[at] = [nodes[at] EXCEPT !.entries = Tree!LeafInserted(@, entry)]
    BY <1>1, <2>1
  <2> QED
    BY <1>5, <2>2, LeafWith
<1>7. \A p \in Pages : p # at => nodes'[p] = nodes[p]
  BY <1>1, <1>3, PagesGrow
<1>8. NodesIn'
  <2>1. count' # count + 1
    BY <1>1 DEF TInv, NodesIn
  <2> QED
    BY <1>3, <1>4, <1>6, <1>7, <2>1, NodesStayIn
<1> QED
  BY <1>1, <1>2, <1>4, <1>8, CallOver

LEMMA LeafIsFullIn == ASSUME TInv, Tree!LeafIsFull, base' = base PROVE TInv'
PROOF
<1>1. /\ UNCHANGED <<nodes, count, base, root, path, at, split>>
      /\ pc = "visit" /\ pc' = "split_leaf" /\ nodes[at].leaf
  BY DEF Tree!LeafIsFull, Tree!tree, Tree!call
<1>2. NodesIn' /\ PathIn' /\ Pages' = Pages
  BY <1>1, SameTree
<1>3. at \in Pages /\ root \in Pages
  BY <1>1 DEF TInv, OnTheWay
<1>4. LeafIn(nodes[at], Pages)
  BY <1>1, <1>3, Kinds DEF TInv, NodesIn
<1>5. OnTheWay'
  BY <1>1, <1>2, <1>3, <1>4 DEF OnTheWay
<1> QED
  BY <1>2, <1>5 DEF TInv

LEMMA ParentIsFullIn == ASSUME TInv, Tree!ParentIsFull, base' = base PROVE TInv'
PROOF
<1>1. /\ UNCHANGED <<nodes, count, base, root, path, at, split>>
      /\ pc = "ascend" /\ pc' = "split_internal" /\ path # <<>>
  BY DEF Tree!ParentIsFull, Tree!tree, Tree!call
<1>2. NodesIn' /\ PathIn' /\ Pages' = Pages
  BY <1>1, SameTree
<1>3. OnTheWay'
  BY <1>1, <1>2 DEF TInv, OnTheWay
<1> QED
  BY <1>2, <1>3 DEF TInv

LEMMA SplitLeafIn == ASSUME TInv, Tree!SplitLeaf, base' = base PROVE TInv'
PROOF
<1> DEFINE old == nodes[at]
<1>1. PICK es, fs, key :
        /\ nodes' = [nodes EXCEPT ![count] = Leaf(es, at, old.next),
                                  ![at]    = Leaf(fs, old.prev, count)]
        /\ split' = [key |-> key, child |-> count]
        /\ pc = "split_leaf" /\ count < MaxPages /\ count' = count + 1
        /\ pc' = IF old.next = None THEN "ascend" ELSE "relink"
        /\ UNCHANGED <<base, root, at, path>>
  BY DEF Tree!SplitLeaf, Tree!Leaf, Leaf
<1>2. at \in Pages /\ root \in Pages /\ LeafIn(old, Pages)
  BY <1>1 DEF TInv, OnTheWay
<1>3. Grows
  BY <1>1, TreeOnPoolAssumption DEF Grows, TInv, NodesIn
<1>4. /\ Pages \subseteq Pages' /\ count \in Pages' /\ count \notin Pages
      /\ count \in DOMAIN nodes /\ at \in DOMAIN nodes
  BY <1>1, <1>2, <1>3, PagesGrow
<1>5. old.next \in Pages \cup {None}
  BY <1>2 DEF LeafIn
<1>6. at # count
  BY <1>2, <1>4
<1>7. nodes'[count] = Leaf(es, at, old.next) /\ nodes'[at] = Leaf(fs, old.prev, count)
  BY <1>1, <1>4, <1>6
<1>8. LeafIn(nodes'[count], Pages') /\ LeafIn(nodes'[at], Pages')
  BY <1>4, <1>5, <1>7, NewLeaf
<1>9. \A p \in Pages : p # at => nodes'[p] = nodes[p]
  BY <1>1, <1>3, <1>4, PagesGrow
<1> HIDE DEF old
<1>10. NodesIn'
  BY <1>3, <1>8, <1>9, NodesStayIn
<1>11. PathIn'
  <2>1. \A i \in DOMAIN path : path[i] \in Pages /\ InnerIn(nodes[path[i]], Pages)
    BY DEF TInv, PathIn
  <2>2. ~InnerIn(nodes[at], Pages)
    BY <1>2, Kinds DEF old
  <2>3. \A i \in DOMAIN path : nodes'[path[i]] = nodes[path[i]]
    BY <1>9, <2>1, <2>2
  <2> QED
    BY <1>1, <1>3, <2>3, PathStaysIn
<1>12. OnTheWay'
  <2>1. split'.child = count /\ nodes'[count].next = old.next
    BY <1>1, <1>7 DEF Leaf
  <2>2. pc' = "relink" => old.next \in Pages'
    BY <1>1, <1>4, <1>5
  <2>3. split'.child \in Pages' /\ (pc' = "relink" => nodes'[split'.child].next \in Pages')
    BY <1>4, <2>1, <2>2
  <2>4. root' \in Pages' /\ pc' \in {"ascend", "relink"}
    BY <1>1, <1>2, <1>4
  <2> QED
    BY <2>3, <2>4 DEF OnTheWay
<1> QED
  BY <1>10, <1>11, <1>12 DEF TInv

LEMMA RelinkIn == ASSUME TInv, Tree!Relink, base' = base PROVE TInv'
PROOF
<1> DEFINE nx == nodes[split.child].next
<1>1. /\ nodes' = [nodes EXCEPT ![nx].prev = split.child]
      /\ pc = "relink" /\ pc' = "ascend"
      /\ UNCHANGED <<count, base, root, path, at, split>>
  BY DEF Tree!Relink, Tree!call
<1>2. nx \in Pages /\ root \in Pages /\ split.child \in Pages
  BY <1>1 DEF TInv, OnTheWay
<1> HIDE DEF nx
<1>3. Grows
  BY <1>1 DEF Grows, TInv, NodesIn
<1>4. Pages' = Pages /\ nx \in DOMAIN nodes /\ count' # count + 1
  BY <1>1, <1>2, <1>3, PagesGrow DEF Pages, TInv, NodesIn
<1>5. nodes'[nx] = [nodes[nx] EXCEPT !.prev = split.child]
  BY <1>1, <1>4
<1>6. /\ LeafIn(nodes[nx], Pages) => LeafIn(nodes'[nx], Pages)
      /\ InnerIn(nodes[nx], Pages) => nodes'[nx] = nodes[nx]
  BY <1>5, LeafWith, InnerWith
<1>7. \A p \in Pages : p # nx => nodes'[p] = nodes[p]
  BY <1>1, <1>3, PagesGrow
<1>8. LeafIn(nodes[nx], Pages) \/ InnerIn(nodes[nx], Pages)
  BY <1>2 DEF TInv, NodesIn
<1>9. NodesIn'
  BY <1>3, <1>4, <1>6, <1>7, <1>8, NodesStayIn
<1>10. PathIn'
  <2>1. \A i \in DOMAIN path : path[i] \in Pages /\ InnerIn(nodes[path[i]], Pages)
    BY DEF TInv, PathIn
  <2>2. \A i \in DOMAIN path : nodes'[path[i]] = nodes[path[i]]
    BY <1>6, <1>7, <2>1
  <2> QED
    BY <1>1, <1>3, <2>2, PathStaysIn
<1>11. OnTheWay'
  BY <1>1, <1>2, <1>4 DEF OnTheWay
<1> QED
  BY <1>9, <1>10, <1>11 DEF TInv

LEMMA AddToParentIn == ASSUME TInv, Tree!AddToParent, base' = base PROVE TInv'
PROOF
<1> DEFINE parent == Tree!Parent
<1>1. /\ nodes' = [nodes EXCEPT ![parent].entries = Tree!EntryInserted(@, split)]
      /\ pc = "ascend" /\ path # <<>> /\ Tree!Idle
      /\ UNCHANGED <<count, base, root>>
  BY DEF Tree!AddToParent, Tree!Done
<1>2. parent \in Pages /\ InnerIn(nodes[parent], Pages) /\ root \in Pages /\ split.child \in Pages
  <2>1. path \in Seq(Pages) /\ \A i \in DOMAIN path : InnerIn(nodes[path[i]], Pages)
    BY DEF TInv, PathIn
  <2>2. parent = path[Len(path)] /\ Len(path) \in DOMAIN path /\ parent \in Pages
    BY <1>1, <2>1, LastIn DEF Tree!Parent
  <2> QED
    BY <1>1, <2>1, <2>2 DEF TInv, OnTheWay
<1> HIDE DEF parent
<1>3. Grows
  BY <1>1 DEF Grows, TInv, NodesIn
<1>4. Pages' = Pages /\ parent \in DOMAIN nodes /\ count' # count + 1
  BY <1>1, <1>2, <1>3, PagesGrow DEF Pages, TInv, NodesIn
<1>5. InnerIn(nodes'[parent], Pages)
  <2>1. nodes'[parent] = [nodes[parent] EXCEPT !.entries = Tree!EntryInserted(@, split)]
    BY <1>1, <1>4
  <2>2. LinkedEntries(nodes[parent].entries, Pages)
    BY <1>2 DEF InnerIn
  <2>3. LinkedEntries(Tree!EntryInserted(nodes[parent].entries, split), Pages)
    BY <1>2, <2>2, EntryLinked
  <2> QED
    BY <1>2, <2>1, <2>3, InnerWith
<1>6. \A p \in Pages : p # parent => nodes'[p] = nodes[p]
  BY <1>1, <1>3, PagesGrow
<1>7. NodesIn'
  BY <1>3, <1>4, <1>5, <1>6, NodesStayIn
<1> QED
  BY <1>1, <1>2, <1>4, <1>7, CallOver

LEMMA SplitInternalIn == ASSUME TInv, Tree!SplitInternal, base' = base PROVE TInv'
PROOF
<1> DEFINE parent == Tree!Parent
           old == nodes[parent]
           all == Tree!EntryInserted(old.entries, split)
           mid == Len(all) \div 2
           up == all[mid + 1]
<1>1. /\ nodes' = [nodes EXCEPT ![count]  = Internal(up.child, SubSeq(all, mid + 2, Len(all))),
                                ![parent] = Internal(old.first, SubSeq(all, 1, mid))]
      /\ split' = [key |-> up.key, child |-> count]
      /\ pc = "split_internal" /\ pc' = "ascend" /\ count < MaxPages /\ count' = count + 1
      /\ path' = Tree!Front(path)
      /\ UNCHANGED <<base, root, at>>
  BY DEF Tree!SplitInternal, Tree!Internal, Internal
<1>2. path \in Seq(Pages) /\ path # <<>> /\ \A i \in DOMAIN path : InnerIn(nodes[path[i]], Pages)
  BY <1>1 DEF TInv, PathIn, OnTheWay
<1>3. parent \in Pages /\ InnerIn(old, Pages) /\ root \in Pages /\ split.child \in Pages
  <2>1. parent = path[Len(path)] /\ Len(path) \in DOMAIN path /\ parent \in Pages
    BY <1>2, LastIn DEF Tree!Parent
  <2> QED
    BY <1>1, <1>2, <2>1 DEF TInv, OnTheWay
<1> HIDE DEF parent
<1>4. Grows
  BY <1>1, TreeOnPoolAssumption DEF Grows, TInv, NodesIn
<1>5. /\ Pages \subseteq Pages' /\ count \in Pages' /\ count \notin Pages
      /\ count \in DOMAIN nodes /\ parent \in DOMAIN nodes
  BY <1>1, <1>3, <1>4, PagesGrow
<1>6. old.first \in Pages /\ LinkedEntries(old.entries, Pages)
  BY <1>3 DEF InnerIn
<1> HIDE DEF old
<1>8. LinkedEntries(all, Pages) /\ Len(all) \in Nat /\ Len(all) >= 1
  BY <1>3, <1>6, EntryLinked
<1> HIDE DEF all
<1>9. mid \in 0 .. Len(all) /\ mid + 1 \in 1 .. Len(all)
  BY <1>8
<1> HIDE DEF mid
<1>10. /\ up.child \in Pages
       /\ LinkedEntries(SubSeq(all, mid + 2, Len(all)), Pages)
       /\ LinkedEntries(SubSeq(all, 1, mid), Pages)
  <2>1. PICK T : all \in Seq(T) /\ \A e \in T : e.child \in Pages
    BY <1>8 DEF LinkedEntries
  <2>2. up \in T
    BY <1>9, <2>1
  <2>3. mid + 2 \in 1 .. Len(all) + 1 /\ Len(all) \in (mid + 2) - 1 .. Len(all)
    BY <1>8, <1>9
  <2>4. SubSeq(all, mid + 2, Len(all)) \in Seq(T)
    BY <2>1, <2>3, CutIn
  <2>5. 1 \in 1 .. Len(all) + 1 /\ mid \in 1 - 1 .. Len(all)
    BY <1>8, <1>9
  <2>6. SubSeq(all, 1, mid) \in Seq(T)
    BY <2>1, <2>5, CutIn
  <2> QED
    BY <2>1, <2>2, <2>4, <2>6 DEF LinkedEntries
<1> HIDE DEF up
<1>11. /\ nodes'[count] = Internal(up.child, SubSeq(all, mid + 2, Len(all)))
       /\ nodes'[parent] = Internal(old.first, SubSeq(all, 1, mid))
  BY <1>1, <1>3, <1>5
<1>12. InnerIn(nodes'[count], Pages) /\ InnerIn(nodes'[parent], Pages)
  BY <1>6, <1>10, <1>11, NewInner
<1>13. InnerIn(nodes'[count], Pages') /\ InnerIn(nodes'[parent], Pages')
  BY <1>5, <1>12, StillIn
<1>14. \A p \in Pages : p # parent => nodes'[p] = nodes[p]
  BY <1>1, <1>4, <1>5, PagesGrow
<1>15. NodesIn'
  BY <1>4, <1>13, <1>14, NodesStayIn
<1>16. PathIn'
  <2>1. path' \in Seq(Pages') /\ \A i \in DOMAIN path' : i \in DOMAIN path /\ path'[i] = path[i]
    <3>1. path' \in Seq(Pages) /\ \A i \in DOMAIN path' : i \in DOMAIN path /\ path'[i] = path[i]
      BY <1>1, <1>2, FrontIn
    <3> QED
      BY <1>5, <3>1
  <2>2. ASSUME NEW i \in DOMAIN path'
        PROVE  InnerIn(nodes'[path'[i]], Pages')
    <3>1. i \in DOMAIN path /\ path'[i] = path[i] /\ path[i] \in Pages
      BY <1>2, <2>1
    <3>2. InnerIn(nodes[path[i]], Pages)
      BY <1>2, <3>1
    <3>3. InnerIn(nodes[path[i]], Pages')
      BY <1>5, <3>2, StillIn
    <3> QED
      BY <1>13, <1>14, <3>1, <3>3
  <2> QED
    BY <2>1, <2>2 DEF PathIn
<1>17. OnTheWay'
  BY <1>1, <1>3, <1>5 DEF OnTheWay
<1> QED
  BY <1>15, <1>16, <1>17 DEF TInv

LEMMA NewRootIn == ASSUME TInv, Tree!NewRoot, base' = base PROVE TInv'
PROOF
<1>1. /\ nodes' = [nodes EXCEPT ![count] = Internal(root, <<split>>)]
      /\ pc = "ascend" /\ count < MaxPages /\ count' = count + 1
      /\ root' = count /\ base' = base /\ Tree!Idle
  BY DEF Tree!NewRoot, Tree!Done, Tree!Internal, Internal
<1>2. root \in Pages /\ split.child \in Pages
  BY <1>1 DEF TInv, OnTheWay
<1>3. Grows
  BY <1>1, TreeOnPoolAssumption DEF Grows, TInv, NodesIn
<1>4. Pages \subseteq Pages' /\ count \in Pages' /\ count \notin Pages /\ count \in DOMAIN nodes
  BY <1>1, <1>3, PagesGrow
<1>5. LinkedEntries(<<split>>, Pages)
  <2> DEFINE T == {split}
  <2>1. <<split>> \in Seq(T) /\ \A e \in T : e.child \in Pages
    BY <1>2
  <2> HIDE DEF T
  <2> QED
    BY <2>1 DEF LinkedEntries
<1>6. InnerIn(nodes'[count], Pages)
  BY <1>1, <1>2, <1>4, <1>5, NewInner
<1>7. InnerIn(nodes'[count], Pages')
  BY <1>4, <1>6, StillIn
<1>8. \A p \in Pages : nodes'[p] = nodes[p]
  BY <1>1, <1>3, <1>4, PagesGrow
<1>9. NodesIn'
  BY <1>3, <1>7, <1>8, NodesStayIn
<1> QED
  BY <1>1, <1>4, <1>9, CallOver

LEMMA CreateRootIn == ASSUME TInv, CreateRoot, count < MaxPages, base' = base PROVE TInv'
PROOF
<1>1. /\ nodes' = [nodes EXCEPT ![count] = Leaf(<<>>, None, None)]
      /\ count' = count + 1 /\ root' = count /\ pc' = "idle" /\ path' = path
  BY DEF CreateRoot, call
<1>2. Grows
  BY <1>1, TreeOnPoolAssumption DEF Grows, TInv, NodesIn
<1>3. Pages \subseteq Pages' /\ count \in Pages' /\ count \notin Pages /\ count \in DOMAIN nodes
  BY <1>1, <1>2, PagesGrow
<1>4. LeafIn(nodes'[count], Pages')
  BY <1>1, <1>3, NewLeaf
<1>5. \A p \in Pages : nodes'[p] = nodes[p]
  BY <1>1, <1>2, <1>3, PagesGrow
<1>6. NodesIn'
  BY <1>2, <1>4, <1>5, NodesStayIn
<1>7. PathIn'
  <2>1. \A i \in DOMAIN path : nodes'[path[i]] = nodes[path[i]]
    BY <1>5 DEF TInv, PathIn
  <2> QED
    BY <1>1, <1>2, <2>1, PathStaysIn
<1>8. OnTheWay'
  BY <1>1, <1>3 DEF OnTheWay
<1> QED
  BY <1>6, <1>7, <1>8 DEF TInv

LEMMA ContinueIn == ASSUME TInv, Tree!Continue, base' = base PROVE TInv'
PROOF
BY DescendIn, InsertInLeafIn, LeafIsFullIn, SplitLeafIn, RelinkIn, AddToParentIn,
  ParentIsFullIn, SplitInternalIn, NewRootIn DEF Tree!Continue

-----------------------------------------------------------------------------
(***************************************************************************)
(* The pages a step asks for.                                              *)
(***************************************************************************)
\* One that is New is the next page
Asked(i) == IF Needs[i] = New THEN count ELSE Needs[i]
Got(n) == {Asked(i) : i \in 1 .. n}

\* There are two at most, and only the last one may be new
NeedsOne(x) == Needs = <<x>> /\ (x = New \/ x \in Pages)
NeedsTwo(x) == Needs = <<x, New>> /\ x \in Pages

LEMMA PagesAre ==
  ASSUME TInv
  PROVE  /\ New \notin Pages /\ Pages \subseteq Between(0, MaxPages)
         /\ Between(0, MaxPages) = PoolP!PageNos
         /\ \A p \in Pages : p \in Nat /\ base <= p /\ p < count
         /\ \A p : p \in Nat /\ base <= p /\ p < count => p \in Pages
         /\ base \in Nat /\ count \in Nat /\ base <= count /\ count <= MaxPages /\ MaxPages \in Nat
PROOF
<1>1. /\ base \in Nat /\ count \in Nat /\ base <= count /\ count <= MaxPages /\ MaxPages \in Nat
      /\ Pages = base .. count - 1
  BY TreeOnPoolAssumption DEF TInv, NodesIn, Pages, Between
<1>2. New \notin Pages
  BY <1>1, TreeOnPoolAssumption DEF New
<1>3. Between(0, MaxPages) = PoolP!PageNos
  BY DEF Between, PoolP!PageNos
<1>4. Pages \subseteq Between(0, MaxPages)
  BY <1>1 DEF Between
<1> QED
  BY <1>1, <1>2, <1>3, <1>4

LEMMA NeedsAre ==
  ASSUME TInv
  PROVE  Needs = <<>> \/ (\E x : NeedsOne(x)) \/ \E x : NeedsTwo(x)
PROOF
<1>1. path # <<>> => Last(path) \in Pages
  BY LastIn DEF TInv, PathIn
<1>2. CASE pc = "new"
  <2>1. Needs = <<New>>
    BY <1>2 DEF Needs
  <2> QED
    BY <2>1 DEF NeedsOne
<1>3. CASE pc = "visit"
  <2>1. Needs = <<at>> /\ at \in Pages
    BY <1>3 DEF Needs, TInv, OnTheWay
  <2> QED
    BY <2>1 DEF NeedsOne
<1>4. CASE pc = "split_leaf"
  <2>1. Needs = <<at, New>> /\ at \in Pages
    BY <1>4 DEF Needs, SplitPages, TInv, OnTheWay
  <2> QED
    BY <2>1 DEF NeedsTwo
<1>5. CASE pc = "relink"
  <2>1. Needs = <<nodes[split.child].next>> /\ nodes[split.child].next \in Pages
    BY <1>5 DEF Needs, TInv, OnTheWay
  <2> QED
    BY <2>1 DEF NeedsOne
<1>6. CASE pc = "ascend"
  <2>1. Needs = <<IF path = <<>> THEN New ELSE Last(path)>>
    BY <1>6 DEF Needs
  <2> QED
    BY <1>1, <2>1 DEF NeedsOne
<1>7. CASE pc = "split_internal"
  <2>1. Needs = <<Last(path), New>> /\ path # <<>>
    BY <1>7 DEF Needs, SplitPages, TInv, OnTheWay
  <2> QED
    BY <1>1, <2>1 DEF NeedsTwo
<1>8. CASE pc \notin {"new", "visit", "split_leaf", "relink", "ascend", "split_internal"}
  BY <1>8 DEF Needs
<1> QED
  BY <1>2, <1>3, <1>4, <1>5, <1>6, <1>7, <1>8

\* What has been asked for so far, one page after the other
LEMMA GotIs ==
  ASSUME TInv
  PROVE  /\ Len(Needs) \in Nat /\ Got(0) = {}
         /\ \A n \in 1 .. Len(Needs) :
              /\ Asked(n) \notin Got(n - 1) /\ Got(n) = Got(n - 1) \cup {Asked(n)}
              /\ Needs[n] = New \/ Needs[n] \in Pages
              /\ Asked(n) = IF Needs[n] = New THEN count ELSE Needs[n]
              /\ Got(n - 1) \subseteq Pages
              /\ n # Len(Needs) => Needs[n] # New
PROOF
<1>1. Got(0) = {}
  BY DEF Got
<1>2. CASE Needs = <<>>
  BY <1>1, <1>2
<1>3. ASSUME NEW x, NeedsOne(x)
      PROVE  /\ Len(Needs) = 1 /\ Needs[1] = x /\ (x = New \/ x \in Pages)
             /\ Got(1) = {Asked(1)}
  BY <1>3 DEF NeedsOne, Got
<1>4. ASSUME NEW x, NeedsTwo(x)
      PROVE  /\ Len(Needs) = 2 /\ Needs[1] = x /\ x \in Pages /\ Needs[2] = New
             /\ Got(1) = {Asked(1)} /\ Got(2) = {Asked(1), Asked(2)}
  BY <1>4 DEF NeedsTwo, Got
<1>5. ASSUME NEW x, NeedsTwo(x)
      PROVE  Asked(1) = x /\ Asked(2) = count /\ x # count /\ x # New
  BY <1>4, <1>5, PagesAre DEF Asked
<1>6. CASE \E x : NeedsOne(x)
  <2>1. PICK x : NeedsOne(x)
    BY <1>6
  <2>2. \A n \in 1 .. Len(Needs) : n = 1
    <3>1. Len(Needs) = 1
      BY <1>3, <2>1
    <3> QED
      BY <3>1
  <2>3. Asked(1) = IF Needs[1] = New THEN count ELSE Needs[1]
    BY DEF Asked
  <2> QED
    BY <1>1, <1>3, <2>1, <2>2, <2>3
<1>7. CASE \E x : NeedsTwo(x)
  <2>1. PICK x : NeedsTwo(x)
    BY <1>7
  <2>2. \A n \in 1 .. Len(Needs) : n = 1 \/ n = 2
    <3>1. Len(Needs) = 2
      BY <1>4, <2>1
    <3> QED
      BY <3>1
  <2>3. \A n : Asked(n) = IF Needs[n] = New THEN count ELSE Needs[n]
    BY DEF Asked
  <2>4. Len(Needs) = 2 /\ Needs[1] = x /\ x \in Pages /\ Needs[2] = New /\ x # New
    BY <1>4, <1>5, <2>1
  <2>5. /\ Got(1) = Got(0) \cup {Asked(1)} /\ Asked(1) \notin Got(0) /\ Got(0) \subseteq Pages
    BY <1>1, <1>4, <2>1
  <2>6. /\ Got(2) = Got(1) \cup {Asked(2)} /\ Asked(2) \notin Got(1) /\ Got(1) \subseteq Pages
    BY <1>4, <1>5, <2>1, <2>4
  <2> QED
    BY <1>1, <2>2, <2>3, <2>4, <2>5, <2>6
<1> QED
  BY <1>2, <1>6, <1>7, NeedsAre

LEMMA TwoAtMost == ASSUME TInv PROVE Len(Needs) \in {0, 1, 2}
PROOF
<1>1. (\E x : NeedsOne(x)) => Len(Needs) = 1
  BY DEF NeedsOne
<1>2. (\E x : NeedsTwo(x)) => Len(Needs) = 2
  BY DEF NeedsTwo
<1>3. Needs = <<>> => Len(Needs) = 0
  OBVIOUS
<1> QED
  BY <1>1, <1>2, <1>3, NeedsAre, Zenon

LEMMA GotCount ==
  ASSUME TInv, NEW n \in 0 .. Len(Needs)
  PROVE  IsFiniteSet(Got(n)) /\ Cardinality(Got(n)) = n
PROOF
<1>1. Len(Needs) <= 2
  <2>1. \A m \in {0, 1, 2} : m <= 2
    OBVIOUS
  <2> QED
    BY <2>1, TwoAtMost
<1>2. IsFiniteSet(Got(0)) /\ Cardinality(Got(0)) = 0
  BY GotIs, FS_EmptySet
<1>3. ASSUME 1 <= Len(Needs)
      PROVE  IsFiniteSet(Got(1)) /\ Cardinality(Got(1)) = 1
  <2>1. Got(1) = Got(0) \cup {Asked(1)} /\ Asked(1) \notin Got(0)
    BY <1>3, GotIs
  <2> QED
    BY <1>2, <2>1, FS_AddElement
<1>4. ASSUME 2 <= Len(Needs)
      PROVE  IsFiniteSet(Got(2)) /\ Cardinality(Got(2)) = 2
  <2>1. Got(2) = Got(1) \cup {Asked(2)} /\ Asked(2) \notin Got(1)
    BY <1>4, GotIs
  <2>2. IsFiniteSet(Got(1)) /\ Cardinality(Got(1)) = 1
    BY <1>3, <1>4, GotIs
  <2> QED
    BY <2>1, <2>2, FS_AddElement
<1>5. n = 0 \/ (n = 1 /\ 1 <= Len(Needs)) \/ (n = 2 /\ 2 <= Len(Needs))
  BY <1>1, GotIs
<1> QED
  BY <1>2, <1>3, <1>4, <1>5

LEMMA AsksInRange == ASSUME TInv, asked \in Nat PROVE AskedInRange
PROOF
<1>1. ASSUME asked < Len(Needs)
      PROVE  Needs[asked + 1] = New \/ Needs[asked + 1] \in Pages
  <2>1. asked + 1 \in 1 .. Len(Needs)
    BY <1>1, GotIs
  <2> QED
    BY <2>1, GotIs
<1> QED
  BY <1>1, PagesAre DEF AskedInRange

-----------------------------------------------------------------------------
(***************************************************************************)
(* A step of the tree leaves the pages alone that it has not asked for.    *)
(***************************************************************************)
Going == {"visit", "split_leaf", "split_internal"}

Touches ==
  /\ \A p \in Pages' : p \notin Got(Len(Needs)) => p \in Pages /\ nodes'[p] = nodes[p]
  /\ Got(Len(Needs)) \subseteq Pages'
  /\ pc' \in Going => nodes' = nodes /\ count' = count
  /\ count' = IF Needs[Len(Needs)] = New THEN count + 1 ELSE count

LEMMA TouchesOne ==
  ASSUME TInv, NEW x, NeedsOne(x), base' = base,
         count' = IF x = New THEN count + 1 ELSE count,
         \A p \in Pages : p # x => nodes'[p] = nodes[p],
         pc' \in Going => nodes' = nodes /\ x # New
  PROVE  Touches
PROOF
<1>1. Len(Needs) = 1 /\ Needs[1] = x /\ (x = New \/ x \in Pages)
  BY DEF NeedsOne
<1>2. Got(1) = {IF x = New THEN count ELSE x}
  BY <1>1, GotIs
<1>3. Pages' = Between(base, count')
  BY DEF Pages
<1>4. \A p \in Pages' : p \in Pages \/ (p = count /\ x = New)
  BY <1>3, PagesAre DEF Pages, Between
<1>5. Got(1) \subseteq Pages'
  BY <1>1, <1>2, <1>3, PagesAre DEF Pages, Between
<1>6. count \notin Pages /\ New \notin Pages
  BY PagesAre
<1> QED
  BY <1>1, <1>2, <1>4, <1>5, <1>6 DEF Touches

LEMMA TouchesTwo ==
  ASSUME TInv, NEW x, NeedsTwo(x), base' = base, count' = count + 1,
         \A p \in Pages : p # x => nodes'[p] = nodes[p], pc' \notin Going
  PROVE  Touches
PROOF
<1>1. Len(Needs) = 2 /\ Needs[1] = x /\ Needs[2] = New /\ x \in Pages
  BY DEF NeedsTwo
<1>2. Got(2) = {x, count}
  <2>1. 1 \in 1 .. Len(Needs) /\ 2 \in 1 .. Len(Needs) /\ x # New
    BY <1>1, PagesAre
  <2>2. Got(1) = Got(0) \cup {Asked(1)} /\ Got(0) = {} /\ Asked(1) = x
    BY <1>1, <2>1, GotIs
  <2>3. Got(2) = Got(1) \cup {Asked(2)} /\ Asked(2) = count
    BY <1>1, <2>1, GotIs
  <2> QED
    BY <2>2, <2>3
<1>3. Pages' = Between(base, count')
  BY DEF Pages
<1>4. \A p \in Pages' : p \in Pages \/ p = count
  BY <1>3, PagesAre DEF Pages, Between
<1>5. Got(2) \subseteq Pages'
  BY <1>1, <1>2, <1>3, PagesAre DEF Pages, Between
<1> QED
  BY <1>1, <1>2, <1>4, <1>5 DEF Touches

LEMMA StepTouches ==
  ASSUME TInv, CreateRoot \/ Tree!Continue, base' = base
  PROVE  Touches
PROOF
<1>1. Pages \subseteq DOMAIN nodes /\ count \notin Pages /\ New \notin Pages
  BY PagesAre DEF TInv, NodesIn
<1>2. CASE CreateRoot
  <2>1. NeedsOne(New) /\ count' = count + 1 /\ pc' \notin Going
    BY <1>2 DEF CreateRoot, Needs, NeedsOne, Going
  <2>2. \A p \in Pages : nodes'[p] = nodes[p]
    BY <1>1, <1>2 DEF CreateRoot
  <2> QED
    BY <2>1, <2>2, TouchesOne
<1>3. CASE Tree!Descend \/ Tree!LeafIsFull
  <2>1. pc = "visit" /\ nodes' = nodes /\ count' = count
    BY <1>3 DEF Tree!Descend, Tree!LeafIsFull, Tree!tree
  <2>2. NeedsOne(at) /\ at # New
    BY <1>1, <2>1 DEF Needs, NeedsOne, TInv, OnTheWay
  <2> QED
    BY <2>1, <2>2, TouchesOne
<1>4. CASE Tree!InsertInLeaf
  <2>1. pc = "visit" /\ count' = count /\ pc' \notin Going
    BY <1>4 DEF Tree!InsertInLeaf, Tree!Done, Tree!Idle, Going
  <2>2. NeedsOne(at) /\ at # New
    BY <1>1, <2>1 DEF Needs, NeedsOne, TInv, OnTheWay
  <2>3. \A p \in Pages : p # at => nodes'[p] = nodes[p]
    BY <1>1, <1>4 DEF Tree!InsertInLeaf
  <2> QED
    BY <2>1, <2>2, <2>3, TouchesOne
<1>5. CASE Tree!SplitLeaf
  <2>1. pc = "split_leaf" /\ count' = count + 1 /\ pc' \notin Going
    BY <1>5 DEF Tree!SplitLeaf, Going
  <2>2. NeedsTwo(at)
    BY <2>1 DEF Needs, SplitPages, NeedsTwo, TInv, OnTheWay
  <2>3. \A p \in Pages : p # at => nodes'[p] = nodes[p]
    BY <1>1, <1>5 DEF Tree!SplitLeaf
  <2> QED
    BY <2>1, <2>2, <2>3, TouchesTwo
<1>6. CASE Tree!Relink
  <2> DEFINE nx == nodes[split.child].next
  <2>1. pc = "relink" /\ count' = count /\ pc' \notin Going
    BY <1>6 DEF Tree!Relink, Going
  <2>2. NeedsOne(nx) /\ nx # New
    BY <1>1, <2>1 DEF Needs, NeedsOne, TInv, OnTheWay
  <2>3. \A p \in Pages : p # nx => nodes'[p] = nodes[p]
    BY <1>1, <1>6 DEF Tree!Relink
  <2> HIDE DEF nx
  <2> QED
    BY <2>1, <2>2, <2>3, TouchesOne
<1>7. path # <<>> => Last(path) \in Pages /\ Tree!Parent = Last(path)
  BY LastIn DEF TInv, PathIn, Tree!Parent
<1>8. CASE Tree!AddToParent
  <2>1. pc = "ascend" /\ path # <<>> /\ count' = count /\ pc' \notin Going
    BY <1>8 DEF Tree!AddToParent, Tree!Done, Tree!Idle, Going
  <2>2. NeedsOne(Last(path)) /\ Last(path) # New
    BY <1>1, <1>7, <2>1 DEF Needs, NeedsOne
  <2>3. \A p \in Pages : p # Last(path) => nodes'[p] = nodes[p]
    BY <1>1, <1>7, <1>8, <2>1 DEF Tree!AddToParent
  <2> QED
    BY <2>1, <2>2, <2>3, TouchesOne
<1>9. CASE Tree!ParentIsFull
  <2>1. pc = "ascend" /\ path # <<>> /\ count' = count /\ nodes' = nodes
    BY <1>9 DEF Tree!ParentIsFull, Tree!tree
  <2>2. NeedsOne(Last(path)) /\ Last(path) # New
    BY <1>1, <1>7, <2>1 DEF Needs, NeedsOne
  <2> QED
    BY <2>1, <2>2, TouchesOne
<1>10. CASE Tree!SplitInternal
  <2>1. pc = "split_internal" /\ count' = count + 1 /\ pc' \notin Going
    BY <1>10 DEF Tree!SplitInternal, Going
  <2>2. path # <<>>
    BY <2>1 DEF TInv, OnTheWay
  <2>3. NeedsTwo(Last(path))
    BY <1>7, <2>1, <2>2 DEF Needs, SplitPages, NeedsTwo
  <2>4. \A p \in Pages : p # Last(path) => nodes'[p] = nodes[p]
    BY <1>1, <1>7, <1>10, <2>2 DEF Tree!SplitInternal
  <2> QED
    BY <2>1, <2>3, <2>4, TouchesTwo
<1>11. CASE Tree!NewRoot
  <2>1. pc = "ascend" /\ path = <<>> /\ count' = count + 1 /\ pc' \notin Going
    BY <1>11 DEF Tree!NewRoot, Tree!Done, Tree!Idle, Going
  <2>2. NeedsOne(New)
    BY <2>1 DEF Needs, NeedsOne
  <2>3. \A p \in Pages : nodes'[p] = nodes[p]
    BY <1>1, <1>11 DEF Tree!NewRoot
  <2> QED
    BY <2>1, <2>2, <2>3, TouchesOne
<1> QED
  BY <1>2, <1>3, <1>4, <1>5, <1>6, <1>8, <1>9, <1>10, <1>11 DEF Tree!Continue

-----------------------------------------------------------------------------
(***************************************************************************)
(* What a step of a call is for its caller: it gets on, it fails, or it    *)
(* returns with a guard.                                                   *)
(***************************************************************************)
Hit     == {"hit_frame", "hit_lru"}
Unread  == {"get_free", "scan", "victim", "unmap", "load"}
Brought == {"install", "publish", "publish_lru"}

Label == pool_pc[Caller]

Moves ==
  /\ UNCHANGED <<guards, latest, want, file_len>>
  /\ \/ Label \in Hit /\ Label' \in Hit
     \/ Label \in Unread /\ Label' \in Unread
     \/ Label \in Brought /\ Label' \in Brought
     \/ Label \in Unread /\ want[Caller] # None /\ Label' \in Brought

Allocates ==
  /\ UNCHANGED <<guards, latest>>
  /\ Label \in Unread /\ want[Caller] = None /\ Label' \in Brought
  /\ want'[Caller] = [space |-> FileSpace, no |-> file_len] /\ file_len' = file_len + 1

FailsCall == UNCHANGED <<guards, latest, file_len>> /\ Label \in Unread /\ Label' = "idle"

AnswersCall ==
  /\ UNCHANGED <<latest, file_len>>
  /\ Label \in {"hit_lru", "publish_lru"} /\ Label' = "idle"
  /\ \E h \in Handles :
       /\ guards[Caller][h] = None
       /\ guards' = [guards EXCEPT ![Caller][h] = [frame |-> slot[Caller], id |-> want[Caller]]]

LEMMA PoolTypes ==
  ASSUME PoolP!CInv
  PROVE  /\ DOMAIN pool_pc = {Caller} /\ DOMAIN want = {Caller} /\ DOMAIN slot = {Caller}
         /\ guards \in [{Caller} -> [Handles -> PoolP!PageGuard \cup {None}]]
         /\ file_len \in 0 .. MaxPages
         /\ latest \in [PoolP!PageNos -> Int]
         /\ frames \in [Frames -> PoolP!BufferFrame \cup {None}]
         /\ Label \in PoolP!Labels /\ Label # "panicked"
         /\ Label = "idle" => want[Caller] = None
PROOF
BY DEF PoolP!CInv, PoolP!RInv, PoolP!IInv, PoolP!TypeOK, PoolP!SharedTypes, PoolP!CallTypes,
  PoolP!Running, PoolP!Structure, PoolP!InHand, PoolP!Knows, Label

LEMMA CallStep ==
  ASSUME PoolP!CInv, PoolP!CInv', PoolP!Continue(Caller), Label \notin {"flush_next", "flush"}
  PROVE  Moves \/ Allocates \/ FailsCall \/ AnswersCall
PROOF
<1>1. /\ DOMAIN pool_pc = {Caller} /\ DOMAIN want = {Caller}
      /\ pool_pc'[Caller] # "panicked"
  BY PoolTypes DEF PoolP!CInv, PoolP!Running
<1>2. CASE PoolP!HitPin(Caller)
  <2>1. Moves
    BY <1>1, <1>2 DEF PoolP!HitPin, PoolP!Goto, PoolP!Panic, PoolP!disk, PoolP!caller, Moves,
      Hit, Label
  <2> QED
    BY <2>1
<1>3. CASE PoolP!PopFree(Caller) \/ PoolP!StartScan(Caller) \/ PoolP!ScanPinned(Caller)
        \/ PoolP!ScanEmpty(Caller) \/ PoolP!ScanVictim(Caller)
  <2>1. Moves
    BY <1>1, <1>3 DEF PoolP!PopFree, PoolP!StartScan, PoolP!ScanPinned, PoolP!ScanEmpty,
      PoolP!ScanVictim, PoolP!Scanning, PoolP!Goto, PoolP!disk, PoolP!caller, PoolP!call,
      Moves, Unread, Label
  <2> QED
    BY <2>1
<1>4. CASE PoolP!VictimGone(Caller) \/ PoolP!VictimSaved(Caller) \/ PoolP!Unmap(Caller)
  <2>1. Moves
    BY <1>1, <1>4 DEF PoolP!VictimGone, PoolP!VictimSaved, PoolP!Unmap, PoolP!Goto,
      PoolP!disk, PoolP!caller, Moves, Unread, Label
  <2> QED
    BY <2>1
<1>5. CASE PoolP!ReadPage(Caller) \/ PoolP!Install(Caller) \/ PoolP!Publish(Caller)
  <2>1. Moves
    BY <1>1, <1>5 DEF PoolP!ReadPage, PoolP!Install, PoolP!Publish, PoolP!Goto,
      PoolP!disk, PoolP!caller, Moves, Unread, Brought, Label
  <2> QED
    BY <2>1
<1>6. CASE PoolP!Allocate(Caller)
  <2>1. Allocates
    BY <1>1, <1>6 DEF PoolP!Allocate, PoolP!NewPage, PoolP!caller, Allocates, Unread, Brought, Label
  <2> QED
    BY <2>1
<1>7. CASE PoolP!ScanExhausted(Caller) \/ PoolP!VictimWriteFails(Caller) \/ PoolP!LoadFails(Caller)
  <2>1. FailsCall
    BY <1>1, <1>7 DEF PoolP!ScanExhausted, PoolP!VictimWriteFails, PoolP!LoadFails, PoolP!Return,
      PoolP!disk, PoolP!caller, FailsCall, Unread, Label
  <2> QED
    BY <2>1
<1>8. CASE PoolP!HitTouch(Caller) \/ PoolP!PublishTouch(Caller)
  <2>1. AnswersCall
    BY <1>1, <1>8 DEF PoolP!HitTouch, PoolP!PublishTouch, PoolP!ReturnGuard, PoolP!Return,
      PoolP!disk, AnswersCall, Label
  <2> QED
    BY <2>1
<1>9. ~(PoolP!FlushNext(Caller) \/ PoolP!FlushClean(Caller) \/ PoolP!FlushWrite(Caller)
         \/ PoolP!FlushFails(Caller))
  BY DEF PoolP!FlushNext, PoolP!FlushClean, PoolP!FlushWrite, PoolP!FlushFails, Label
<1> QED
  BY <1>2, <1>3, <1>4, <1>5, <1>6, <1>7, <1>8, <1>9 DEF PoolP!Continue, PoolP!FindFrame

-----------------------------------------------------------------------------
(***************************************************************************)
(* The guards of the insert.                                               *)
(***************************************************************************)
\* The page of a guard, and the guards on just these pages, one on each
PageOf(h) == guards[Caller][h].id.no

Holding(S) ==
  /\ HeldPages = S
  /\ \A g, h \in Held : PageOf(g) = PageOf(h) => g = h

LEMMA HeldCount ==
  ASSUME IsFiniteSet(Handles), NEW S, Holding(S)
  PROVE  IsFiniteSet(S) /\ Cardinality(Held) = Cardinality(S)
PROOF
<1> DEFINE f == [h \in Held |-> PageOf(h)]
<1>1. IsFiniteSet(Held)
  BY FS_Subset DEF Held
<1>2. S = {PageOf(h) : h \in Held}
  BY DEF Holding, HeldPages, PageOf
<1>3. f \in Bijection(Held, S)
  <2>1. f \in [Held -> S] /\ \A s \in S : \E h \in Held : f[h] = s
    BY <1>2
  <2>2. \A g, h \in Held : f[g] = f[h] => g = h
    BY DEF Holding
  <2> QED
    BY <2>1, <2>2 DEF Bijection, Injection, Surjection, IsInjective
<1>4. ExistsBijection(Held, S)
  BY <1>3 DEF ExistsBijection
<1> QED
  BY <1>1, <1>4, FS_Bijection

\* A new guard, and one less
LEMMA HoldsOneMore ==
  ASSUME PoolP!CInv, NEW S, Holding(S), NEW h \in Handles, guards[Caller][h] = None,
         NEW g, g # None, g.id.no \notin S,
         guards' = [guards EXCEPT ![Caller][h] = g]
  PROVE  Holding(S \cup {g.id.no})'
PROOF
<1>1. /\ guards'[Caller][h] = g
      /\ \A k \in Handles : k # h => guards'[Caller][k] = guards[Caller][k]
  BY PoolTypes
<1>2. Held' = Held \cup {h} /\ h \notin Held
  BY <1>1 DEF Held
<1>3. PageOf(h)' = g.id.no /\ \A k \in Held : PageOf(k)' = PageOf(k)
  BY <1>1, <1>2 DEF PageOf, Held
<1>4. \A k \in Held : PageOf(k) \in S
  BY DEF Holding, HeldPages, PageOf
<1>5. HeldPages' = S \cup {g.id.no}
  <2>1. HeldPages' = {PageOf(k)' : k \in Held'}
    BY DEF HeldPages, PageOf
  <2>2. S = {PageOf(k) : k \in Held}
    BY DEF Holding, HeldPages, PageOf
  <2> QED
    BY <1>2, <1>3, <2>1, <2>2
<1>6. \A j, k \in Held' : PageOf(j)' = PageOf(k)' => j = k
  BY <1>2, <1>3, <1>4 DEF Holding
<1> QED
  BY <1>5, <1>6 DEF Holding, PageOf

LEMMA HoldsOneLess ==
  ASSUME PoolP!CInv, NEW S, Holding(S), NEW h \in Held, NEW q, q = PageOf(h),
         guards' = [guards EXCEPT ![Caller][h] = None]
  PROVE  Holding(S \ {q})'
PROOF
<1>1. /\ guards'[Caller][h] = None
      /\ \A k \in Handles : k # h => guards'[Caller][k] = guards[Caller][k]
  BY PoolTypes DEF Held
<1>2. Held' = Held \ {h}
  BY <1>1 DEF Held
<1>3. \A k \in Held' : PageOf(k)' = PageOf(k)
  BY <1>1, <1>2 DEF PageOf, Held
<1>4. HeldPages' = S \ {q}
  <2>1. HeldPages' = {PageOf(k)' : k \in Held'}
    BY DEF HeldPages, PageOf
  <2>2. S = {PageOf(k) : k \in Held}
    BY DEF Holding, HeldPages, PageOf
  <2>3. \A k \in Held : PageOf(k) = PageOf(h) => k = h
    BY DEF Holding
  <2> QED
    BY <1>2, <1>3, <2>1, <2>2, <2>3
<1>5. \A j, k \in Held' : PageOf(j)' = PageOf(k)' => j = k
  BY <1>2, <1>3 DEF Holding
<1> QED
  BY <1>4, <1>5 DEF Holding, PageOf

-----------------------------------------------------------------------------
(***************************************************************************)
(* What is still to be done with the guards: a page that has been dropped  *)
(* is not used again.                                                      *)
(***************************************************************************)
Dropped(u) == {u[i].page : i \in {j \in DOMAIN u : ~u[j].write}}
Written(u) == {u[i].page : i \in {j \in DOMAIN u : u[j].write}}

InOrder(u, P) ==
  /\ u \in Seq([page : P, write : BOOLEAN])
  /\ \A i, j \in DOMAIN u : i < j /\ ~u[i].write => u[j].page # u[i].page

\* Pages, each of them once
Each(s, P, S) ==
  /\ s \in Seq(P) /\ \A i, j \in DOMAIN s : s[i] = s[j] => i = j
  /\ S = {s[i] : i \in DOMAIN s}

LEMMA OneUseLess ==
  ASSUME NEW P, NEW u, InOrder(u, P), u # <<>>
  PROVE  /\ InOrder(Tail(u), P) /\ Head(u).page \in P
         /\ Head(u).write =>
              /\ Dropped(Tail(u)) = Dropped(u)
              /\ \A p \in Written(u) : p \in Written(Tail(u)) \/ p = Head(u).page
         /\ ~Head(u).write =>
              /\ Dropped(Tail(u)) = Dropped(u) \ {Head(u).page}
              /\ Written(Tail(u)) = Written(u)
PROOF
<1> DEFINE S == [page : P, write : BOOLEAN]
           t == Tail(u)
<1>1. u \in Seq(S) /\ Len(u) \in Nat /\ Len(u) >= 1 /\ DOMAIN u = 1 .. Len(u)
  BY DEF InOrder
<1>2. t \in Seq(S) /\ Len(t) = Len(u) - 1 /\ DOMAIN t = 1 .. Len(u) - 1
  BY <1>1
<1>3. \A i \in DOMAIN t : t[i] = u[i + 1] /\ i + 1 \in DOMAIN u
  BY <1>1, <1>2
<1>4. Head(u) = u[1] /\ 1 \in DOMAIN u /\ u[1] \in S /\ u[1].page \in P
  <2>1. Head(u) = u[1] /\ 1 \in DOMAIN u
    BY <1>1
  <2>2. u[1] \in S
    <3> HIDE DEF S
    <3>1. \A i \in 1 .. Len(u) : u[i] \in S
      BY <1>1
    <3> QED
      BY <1>1, <2>1, <3>1
  <2> QED
    BY <2>1, <2>2
<1>5. \A i \in DOMAIN u : i = 1 \/ (i - 1 \in DOMAIN t /\ t[i - 1] = u[i] /\ i > 1)
  BY <1>1, <1>2
<1> HIDE DEF t
<1>6. InOrder(t, P)
  <2>1. ASSUME NEW i \in DOMAIN t, NEW j \in DOMAIN t, i < j, ~t[i].write
        PROVE  t[j].page # t[i].page
    <3>1. i + 1 < j + 1
      BY <1>2, <2>1
    <3> QED
      BY <1>3, <2>1, <3>1 DEF InOrder
  <2> QED
    BY <1>2, <2>1 DEF InOrder
<1>7. \A i \in DOMAIN t : t[i].page \in {u[k].page : k \in {k \in DOMAIN u : u[k].write = t[i].write}}
  BY <1>3
<1>8. Dropped(t) \subseteq Dropped(u) /\ Written(t) \subseteq Written(u)
  BY <1>3 DEF Dropped, Written
<1>9. ASSUME NEW i \in DOMAIN u, u[i].page \notin {u[1].page}
      PROVE  \E k \in DOMAIN t : t[k] = u[i]
  BY <1>5, <1>9
<1>10. ASSUME NEW i \in DOMAIN u, u[i].write # u[1].write
       PROVE  \E k \in DOMAIN t : t[k] = u[i]
  BY <1>5, <1>10
<1>11. CASE u[1].write
  <2>1. Dropped(u) \subseteq Dropped(t)
    BY <1>10, <1>11 DEF Dropped
  <2>2. \A p \in Written(u) : p \in Written(t) \/ p = u[1].page
    BY <1>9 DEF Written
  <2> QED
    BY <1>4, <1>6, <1>8, <1>11, <2>1, <2>2 DEF t
<1>12. CASE ~u[1].write
  <2>1. Written(u) \subseteq Written(t)
    BY <1>10, <1>12 DEF Written
  <2>2. \A p \in Dropped(u) : p \in Dropped(t) \/ p = u[1].page
    BY <1>9 DEF Dropped
  <2>3. u[1].page \notin Dropped(t)
    <3>1. \A i \in DOMAIN t : i + 1 \in DOMAIN u /\ 1 < i + 1 /\ t[i] = u[i + 1]
      BY <1>2, <1>3
    <3>2. \A i \in DOMAIN t : t[i].page # u[1].page
      BY <1>4, <1>12, <3>1 DEF InOrder
    <3> QED
      BY <3>2 DEF Dropped
  <2> QED
    BY <1>4, <1>6, <1>8, <1>12, <2>1, <2>2, <2>3 DEF t
<1> QED
  BY <1>11, <1>12

LEMMA DropsAre ==
  ASSUME NEW P, NEW S, NEW s, Each(s, P, S)
  PROVE  InOrder(Drops(s), P) /\ Dropped(Drops(s)) = S /\ Written(Drops(s)) = {}
PROOF
<1> DEFINE u == Drops(s)
<1>1. s \in Seq(P) /\ Len(s) \in Nat /\ DOMAIN s = 1 .. Len(s)
  BY DEF Each
<1>2. u = [i \in 1 .. Len(s) |-> [page |-> s[i], write |-> FALSE]]
  BY <1>1 DEF Drops
<1>3. u \in Seq([page : P, write : BOOLEAN])
  BY <1>1, <1>2
<1>4. DOMAIN u = DOMAIN s /\ \A i \in DOMAIN s : u[i].page = s[i] /\ ~u[i].write
  BY <1>1, <1>2
<1> HIDE DEF u
<1>5. InOrder(u, P)
  <2>1. ASSUME NEW i \in DOMAIN u, NEW j \in DOMAIN u, i < j
        PROVE  u[j].page # u[i].page
    <3>1. s[i] # s[j]
      BY <1>1, <1>4, <2>1 DEF Each
    <3> QED
      BY <1>4, <3>1
  <2> QED
    BY <1>3, <2>1 DEF InOrder
<1>6. Dropped(u) = S
  BY <1>4 DEF Dropped, Each
<1>7. Written(u) = {}
  BY <1>4 DEF Written
<1> QED
  BY <1>5, <1>6, <1>7 DEF u

LEMMA Halves ==
  ASSUME NEW n \in Nat
  PROVE  /\ \A i \in 1 .. 2 * n : (i + 1) \div 2 \in 1 .. n
         /\ \A i, j \in 1 .. 2 * n : i < j /\ i % 2 # 1 => (i + 1) \div 2 # (j + 1) \div 2
         /\ \A k \in 1 .. n : /\ 2 * k \in 1 .. 2 * n /\ 2 * k - 1 \in 1 .. 2 * n
                              /\ (2 * k + 1) \div 2 = k /\ ((2 * k - 1) + 1) \div 2 = k
                              /\ (2 * k) % 2 # 1 /\ (2 * k - 1) % 2 = 1
PROOF
OBVIOUS

LEMMA WritesAndDropsAre ==
  ASSUME NEW P, NEW S, NEW s, Each(s, P, S)
  PROVE  /\ InOrder(WritesAndDrops(s), P)
         /\ Dropped(WritesAndDrops(s)) = S /\ Written(WritesAndDrops(s)) = S
PROOF
<1> DEFINE u == WritesAndDrops(s)
           n == Len(s)
           of(i) == (i + 1) \div 2
<1>1. s \in Seq(P) /\ n \in Nat /\ DOMAIN s = 1 .. n
  BY DEF Each
<1>2. u = [i \in 1 .. 2 * n |-> [page |-> s[of(i)], write |-> i % 2 = 1]]
  BY DEF WritesAndDrops
<1>3. /\ \A i \in 1 .. 2 * n : of(i) \in 1 .. n
      /\ \A i, j \in 1 .. 2 * n : i < j /\ i % 2 # 1 => of(i) # of(j)
      /\ \A k \in 1 .. n : /\ 2 * k \in 1 .. 2 * n /\ 2 * k - 1 \in 1 .. 2 * n
                           /\ of(2 * k) = k /\ of(2 * k - 1) = k
                           /\ (2 * k) % 2 # 1 /\ (2 * k - 1) % 2 = 1
  BY <1>1, Halves
<1> HIDE DEF of
<1>4. DOMAIN u = 1 .. 2 * n
  BY <1>2
<1>5. \A i \in 1 .. 2 * n : u[i].page = s[of(i)] /\ u[i].write = (i % 2 = 1)
  BY <1>2
<1>6. u \in Seq([page : P, write : BOOLEAN])
  <2>1. \A i \in 1 .. 2 * n : s[of(i)] \in P
    BY <1>1, <1>3
  <2>2. 2 * n \in Nat
    BY <1>1
  <2> QED
    BY <1>2, <2>1, <2>2
<1> HIDE DEF u
<1>7. InOrder(u, P)
  <2>1. ASSUME NEW i \in DOMAIN u, NEW j \in DOMAIN u, i < j, ~u[i].write
        PROVE  u[j].page # u[i].page
    <3>1. of(i) # of(j) /\ of(i) \in DOMAIN s /\ of(j) \in DOMAIN s
      BY <1>1, <1>3, <1>4, <1>5, <2>1
    <3>2. s[of(i)] # s[of(j)]
      BY <3>1 DEF Each
    <3> QED
      BY <1>4, <1>5, <3>2
  <2> QED
    BY <1>6, <2>1 DEF InOrder
<1>8. \A i \in DOMAIN u : u[i].page \in S
  BY <1>1, <1>3, <1>4, <1>5 DEF Each
<1>9. ASSUME NEW k \in 1 .. n
      PROVE  /\ 2 * k \in DOMAIN u /\ ~u[2 * k].write /\ u[2 * k].page = s[k]
             /\ 2 * k - 1 \in DOMAIN u /\ u[2 * k - 1].write /\ u[2 * k - 1].page = s[k]
  BY <1>3, <1>4, <1>5
<1>10. Dropped(u) = S
  <2>1. \A x \in S : \E k \in 1 .. n : x = s[k]
    BY <1>1 DEF Each
  <2>2. S \subseteq Dropped(u)
    <3> SUFFICES ASSUME NEW x \in S PROVE x \in Dropped(u)
      OBVIOUS
    <3>1. PICK k \in 1 .. n : x = s[k]
      BY <2>1
    <3>2. PICK i : i = 2 * k
      OBVIOUS
    <3>3. i \in DOMAIN u /\ ~u[i].write /\ u[i].page = x
      BY <1>9, <3>1, <3>2
    <3> QED
      BY <3>3 DEF Dropped
  <2> QED
    BY <1>8, <2>2 DEF Dropped
<1>11. Written(u) = S
  <2>1. \A x \in S : \E k \in 1 .. n : x = s[k]
    BY <1>1 DEF Each
  <2>2. S \subseteq Written(u)
    <3> SUFFICES ASSUME NEW x \in S PROVE x \in Written(u)
      OBVIOUS
    <3>1. PICK k \in 1 .. n : x = s[k]
      BY <2>1
    <3>2. PICK i : i = 2 * k - 1
      OBVIOUS
    <3>3. i \in DOMAIN u /\ u[i].write /\ u[i].page = x
      BY <1>9, <3>1, <3>2
    <3> QED
      BY <3>3 DEF Written
  <2> QED
    BY <1>8, <2>2 DEF Written
<1> QED
  BY <1>7, <1>10, <1>11 DEF u

\* A finite set as a sequence
LEMMA ListOf ==
  ASSUME NEW P, NEW S, IsFiniteSet(S), S \subseteq P
  PROVE  Each(SetToSeq(S), P, S)
PROOF
<1> DEFINE n == Cardinality(S)
           s == SetToSeq(S)
<1>1. n \in Nat /\ ExistsBijection(1 .. n, S)
  BY FS_CardinalityType
<1> HIDE DEF n
<1>2. PICK b \in Bijection(1 .. n, S) : TRUE
  BY <1>1 DEF ExistsBijection
<1>3. b \in [1 .. n -> S] /\ IsInjective(b)
  BY <1>2 DEF Bijection, Injection, IsInjective
<1>4. s \in [1 .. n -> S] /\ IsInjective(s)
  BY <1>3 DEF SetToSeq, n
<1> HIDE DEF s
<1>5. \A x \in S : \E i \in 1 .. n : s[i] = x
  <2>1. s \in Injection(1 .. n, S)
    BY <1>4 DEF Injection, IsInjective
  <2>2. IsFiniteSet(1 .. n) /\ Cardinality(1 .. n) = n
    <3>1. /\ IsFiniteSet(1 .. n)
          /\ Cardinality(1 .. n) = IF 1 > n THEN 0 ELSE n - 1 + 1
      BY <1>1, FS_Interval
    <3> QED
      BY <1>1, <3>1
  <2>3. s \in Surjection(1 .. n, S)
    BY <2>1, <2>2, FS_Injection DEF n
  <2> QED
    BY <2>3 DEF Surjection
<1>6. s \in Seq(P) /\ DOMAIN s = 1 .. n
  BY <1>1, <1>4
<1>7. \A i, j \in DOMAIN s : s[i] = s[j] => i = j
  BY <1>4 DEF IsInjective
<1>8. S = {s[i] : i \in DOMAIN s}
  BY <1>4, <1>5, <1>6
<1> QED
  BY <1>6, <1>7, <1>8 DEF Each, s

\* The pages of a step, the last one first
LEMMA GotInTurn ==
  ASSUME TInv, NEW P, Got(Len(Needs)) \subseteq P
  PROVE  Each([i \in 1 .. Len(Needs) |->
                 LET p == Needs[Len(Needs) + 1 - i] IN IF p = New THEN count ELSE p],
              P, Got(Len(Needs)))
PROOF
<1> DEFINE n == Len(Needs)
           s == [i \in 1 .. n |-> LET p == Needs[n + 1 - i] IN IF p = New THEN count ELSE p]
<1>1. n \in Nat
  BY GotIs
<1>2. \A i \in 1 .. n : n + 1 - i \in 1 .. n /\ s[i] = Asked(n + 1 - i)
  BY <1>1 DEF Asked
<1>3. DOMAIN s = 1 .. n
  OBVIOUS
<1>4. \A i \in 1 .. n : Asked(i) \in Got(n)
  BY DEF Got
<1>5. s \in Seq(P)
  <2>1. s \in [1 .. n -> P]
    BY <1>2, <1>4
  <2> HIDE DEF s
  <2> QED
    BY <1>1, <2>1
<1>6. ASSUME NEW i \in 1 .. n, NEW j \in 1 .. n, i < j
      PROVE  Asked(i) # Asked(j)
  <2>1. Asked(j) \notin Got(j - 1)
    BY GotIs
  <2>2. i \in 1 .. j - 1
    BY <1>1, <1>6
  <2>3. Asked(i) \in Got(j - 1)
    BY <2>2 DEF Got
  <2> QED
    BY <2>1, <2>3
<1> HIDE DEF s
<1>7. ASSUME NEW i \in DOMAIN s, NEW j \in DOMAIN s, s[i] = s[j]
      PROVE  i = j
  <2>1. Asked(n + 1 - i) = Asked(n + 1 - j)
    BY <1>2, <1>3, <1>7
  <2>2. n + 1 - i \in 1 .. n /\ n + 1 - j \in 1 .. n
    BY <1>2, <1>3
  <2>3. n + 1 - i = n + 1 - j
    BY <1>1, <1>6, <2>1, <2>2
  <2> QED
    BY <1>1, <1>3, <2>3
<1>8. Got(n) = {s[i] : i \in DOMAIN s}
  <2>1. \A i \in 1 .. n : s[n + 1 - i] = Asked(i)
    <3> SUFFICES ASSUME NEW i \in 1 .. n
                 PROVE  s[n + 1 - i] = Asked(i)
      OBVIOUS
    <3>1. n + 1 - i \in 1 .. n /\ n + 1 - (n + 1 - i) = i
      BY <1>1
    <3> QED
      BY <1>2, <3>1
  <2> QED
    BY <1>2, <1>3, <2>1 DEF Got
<1> QED
  BY <1>5, <1>7, <1>8 DEF Each, s

-----------------------------------------------------------------------------
(***************************************************************************)
(* Where the insert is with its calls: it has guards it is still to use;   *)
(* a call is on its way; the last one has returned a guard; or it has      *)
(* failed.                                                                 *)
(***************************************************************************)
Using ==
  /\ asked = 0 /\ Label = "idle" /\ file_len = count
  /\ InOrder(uses, Pages) /\ Holding(Dropped(uses))

\* While new_page has its number, the file is one page ahead of the tree
CallingNew ==
  \/ Label \in Unread /\ want[Caller] = None /\ file_len = count
  \/ /\ Label \in Brought /\ file_len = count + 1
     /\ want[Caller] = [space |-> FileSpace, no |-> count]

CallingFor(p) ==
  /\ Label \in Hit \cup Unread \cup Brought /\ file_len = count
  /\ want[Caller] = [space |-> 0, no |-> p]

Calling ==
  /\ uses = <<>> /\ asked \in 1 .. Len(Needs) /\ Holding(Got(asked - 1))
  /\ IF Needs[asked] = New THEN CallingNew ELSE CallingFor(Needs[asked])

Answering ==
  /\ uses = <<>> /\ asked \in 1 .. Len(Needs) /\ Holding(Got(asked))
  /\ Label = "idle" /\ file_len = IF Needs[asked] = New THEN count + 1 ELSE count

Refusing ==
  /\ uses = <<>> /\ asked \in 1 .. Len(Needs) /\ Holding(Got(asked - 1))
  /\ Label = "idle" /\ file_len = count

Calls == Using \/ Calling \/ Answering \/ Refusing

\* Labels of a call
LEMMA LabelsAre ==
  /\ "idle" \notin Hit \cup Unread \cup Brought
  /\ {"flush_next", "flush"} \cap (Hit \cup Unread \cup Brought) = {}
  /\ Hit \cap Unread = {} /\ Hit \cap Brought = {} /\ Unread \cap Brought = {}
PROOF
BY DEF Hit, Unread, Brought

LEMMA CallingLabel == ASSUME Calling PROVE Label \in Hit \cup Unread \cup Brought
PROOF
BY DEF Calling, CallingNew, CallingFor

\* Nothing is held when there is nothing to do
LEMMA NothingHeld ==
  ASSUME TInv, Using, uses = <<>>
  PROVE  Holding(Got(0))
PROOF
<1>1. Dropped(<<>>) = {}
  BY DEF Dropped
<1>2. Got(0) = {}
  BY GotIs
<1> QED
  BY <1>1, <1>2 DEF Using

\* The number of guards tells an answer from an error
LEMMA AnsweredIs ==
  ASSUME Setting, TInv, Calls, Answered
  PROVE  /\ uses = <<>> /\ Label = "idle" /\ asked \in 0 .. Len(Needs) /\ Holding(Got(asked))
         /\ asked # 0 => Answering
         /\ asked = 0 => file_len = count
         /\ ~Refusing
PROOF
<1>1. uses = <<>> /\ Label = "idle" /\ asked = Cardinality(Held)
  BY DEF Answered, Label
<1>2. ~Calling
  BY <1>1, CallingLabel, LabelsAre
<1>3. ~Refusing
  <2> SUFFICES ASSUME Refusing PROVE FALSE
    OBVIOUS
  <2>1. asked \in 1 .. Len(Needs) /\ Holding(Got(asked - 1))
    BY DEF Refusing
  <2>2. asked - 1 \in 0 .. Len(Needs)
    BY <2>1, GotIs
  <2>3. Cardinality(Got(asked - 1)) = asked - 1
    BY <2>2, GotCount
  <2>4. Cardinality(Held) = Cardinality(Got(asked - 1))
    BY <2>1, HeldCount DEF Setting
  <2> QED
    BY <1>1, <2>1, <2>3, <2>4, GotIs
<1>4. CASE Using
  <2>1. asked = 0 /\ file_len = count /\ Holding(Got(0))
    BY <1>1, <1>4, NothingHeld DEF Using
  <2> QED
    BY <1>1, <1>3, <2>1, GotIs
<1>5. CASE Answering
  BY <1>1, <1>3, <1>5, GotIs DEF Answering
<1> QED
  BY <1>2, <1>3, <1>4, <1>5 DEF Calls

LEMMA RefusedIs == ASSUME Setting, TInv, Calls, Refused PROVE Refusing
PROOF
<1>1. Label = "idle" /\ asked > Cardinality(Held)
  BY DEF Refused, Label
<1>2. ~Calling
  BY <1>1, CallingLabel, LabelsAre
<1>3. ~Answering
  <2> SUFFICES ASSUME Answering PROVE FALSE
    OBVIOUS
  <2>1. asked \in 1 .. Len(Needs) /\ Holding(Got(asked))
    BY DEF Answering
  <2>2. asked \in 0 .. Len(Needs)
    BY <2>1, GotIs
  <2>3. Cardinality(Got(asked)) = asked
    BY <2>2, GotCount
  <2>4. Cardinality(Held) = Cardinality(Got(asked))
    BY <2>1, HeldCount DEF Setting
  <2> QED
    BY <1>1, <2>1, <2>3, <2>4, GotIs
<1>4. ~Using
  <2> SUFFICES ASSUME Using PROVE FALSE
    OBVIOUS
  <2>1. IsFiniteSet(Held)
    BY FS_Subset DEF Held, Setting
  <2>2. Cardinality(Held) \in Nat
    BY <2>1, FS_CardinalityType
  <2> QED
    BY <1>1, <2>2 DEF Using
<1> QED
  BY <1>2, <1>3, <1>4 DEF Calls

\* What is asked for depends on the tree only
LEMMA SameNeeds ==
  ASSUME UNCHANGED <<tree, base>>
  PROVE  /\ Needs' = Needs /\ Pages' = Pages /\ count' = count /\ nodes' = nodes
         /\ \A n : Got(n)' = Got(n)
         /\ TInv => TInv'
PROOF
<1>1. /\ nodes' = nodes /\ count' = count /\ root' = root /\ pc' = pc /\ at' = at
      /\ path' = path /\ split' = split /\ base' = base
  BY DEF tree, call
<1>2. Needs' = Needs
  BY <1>1 DEF Needs, SplitPages
<1>3. Pages' = Pages
  BY <1>1 DEF Pages
<1>4. \A n : Got(n)' = Got(n)
  BY <1>1, <1>2 DEF Got, Asked
<1>5. TInv => TInv'
  BY <1>1, <1>3 DEF TInv, NodesIn, PathIn, OnTheWay
<1> QED
  BY <1>1, <1>2, <1>3, <1>4, <1>5

LEMMA SameHolding ==
  ASSUME guards' = guards, NEW S
  PROVE  Holding(S)' <=> Holding(S)
PROOF
BY DEF Holding, HeldPages, Held, PageOf


-----------------------------------------------------------------------------
(***************************************************************************)
(* Every step leaves the insert somewhere in its calls.                    *)
(***************************************************************************)
LEMMA SamePool ==
  ASSUME UNCHANGED pool
  PROVE  UNCHANGED <<guards, latest, want, file, file_len, frames, page_table>> /\ Label' = Label
PROOF
BY DEF pool, Label

LEMMA InsertCalls ==
  ASSUME TInv, Calls, NEW e, Insert(e)
  PROVE  TInv' /\ Calls'
PROOF
<1>1. pc = "idle" /\ uses = <<>> /\ Tree!Insert(e) /\ UNCHANGED <<asked, uses, base>>
      /\ UNCHANGED <<guards, file_len>> /\ Label' = Label
  BY SamePool DEF Insert, own, Tree!Insert
<1>2. TInv'
  BY <1>1, InsertIn
<1>3. Needs = <<>>
  BY <1>1 DEF Needs
<1>4. Len(Needs) = 0
  BY <1>3
<1>5. Using
  <2>1. asked \notin 1 .. Len(Needs)
    BY <1>4
  <2> QED
    BY <2>1 DEF Calls, Calling, Answering, Refusing
<1>6. count' = count
  BY <1>1 DEF Tree!Insert, Tree!tree
<1>7. Pages' = Pages
  BY <1>1, <1>6 DEF Pages
<1>8. \A S : Holding(S)' <=> Holding(S)
  BY <1>1, SameHolding
<1>9. PICK S : S = Dropped(uses)
  OBVIOUS
<1>10. Holding(S) /\ S = Dropped(uses)'
  BY <1>1, <1>5, <1>9 DEF Using
<1>11. Holding(S)'
  BY <1>8, <1>10
<1>12. Using'
  BY <1>1, <1>5, <1>6, <1>7, <1>10, <1>11 DEF Using
<1> QED
  BY <1>2, <1>12 DEF Calls

LEMMA AskCalls ==
  ASSUME Setting, TInv, Calls, PoolP!CInv, Ask
  PROVE  TInv' /\ Calls'
PROOF
<1>1. /\ Answered /\ asked < Len(Needs) /\ asked' = asked + 1
      /\ UNCHANGED <<tree, uses, base>> /\ Asks
  BY AskAsks DEF Ask
<1>2. /\ uses = <<>> /\ Label = "idle" /\ asked \in 0 .. Len(Needs) /\ Holding(Got(asked))
      /\ asked # 0 => Answering
      /\ asked = 0 => file_len = count
  BY <1>1, AnsweredIs
<1>3. file_len = count
  <2> SUFFICES ASSUME asked # 0 PROVE file_len = count
    BY <1>2
  <2>1. asked \in 1 .. Len(Needs) /\ asked # Len(Needs)
    BY <1>1, <1>2, GotIs
  <2>2. Needs[asked] # New
    BY <2>1, GotIs
  <2> QED
    BY <1>2, <2>2 DEF Answering
<1>4. DOMAIN pool_pc = {Caller} /\ DOMAIN want = {Caller} /\ want[Caller] = None
  BY <1>2, PoolTypes
<1>5. /\ Needs' = Needs /\ Pages' = Pages /\ count' = count
      /\ \A n : Got(n)' = Got(n)
      /\ TInv'
  BY <1>1, SameNeeds
<1>6. guards' = guards /\ file_len' = file_len
  BY <1>1 DEF Asks, PoolP!StartNewPage, PoolP!FetchHit, PoolP!FetchMiss, PoolP!disk,
    PoolP!caller
<1>7. asked' \in 1 .. Len(Needs')
  BY <1>1, <1>2, <1>5, GotIs
<1>8. Holding(Got(asked - 1))'
  <2>1. PICK S : S = Got(asked)
    OBVIOUS
  <2>2. Holding(S)'
    BY <1>2, <1>6, <2>1, SameHolding
  <2>3. asked' - 1 = asked
    BY <1>1, <1>2, GotIs
  <2>4. \A i : Asked(i)' = Asked(i)
    BY <1>5 DEF Asked, New
  <2>5. Got(asked - 1)' = S
    BY <2>1, <2>3, <2>4 DEF Got
  <2> QED
    BY <2>2, <2>5
<1>9. CASE Needs[asked + 1] = New
  <2>1. PoolP!StartNewPage(Caller)
    BY <1>1, <1>9 DEF Asks
  <2>2. Label' = "get_free" /\ want' = want
    BY <1>4, <2>1 DEF PoolP!StartNewPage, PoolP!Goto, Label
  <2>3. CallingNew'
    BY <1>3, <1>4, <1>5, <1>6, <2>2 DEF CallingNew, Unread
  <2>4. Needs'[asked'] = New
    BY <1>1, <1>5, <1>9
  <2> QED
    BY <1>1, <1>2, <1>5, <1>7, <1>8, <2>3, <2>4 DEF Calls, Calling
<1>10. CASE Needs[asked + 1] # New
  <2> DEFINE id == [space |-> 0, no |-> Needs[asked + 1]]
  <2>1. PoolP!FetchHit(Caller, id) \/ PoolP!FetchMiss(Caller, id)
    BY <1>1, <1>10 DEF Asks
  <2>2. Label' \in {"get_free", "hit_frame"} /\ want'[Caller] = id
    BY <1>4, <2>1 DEF PoolP!FetchHit, PoolP!FetchMiss, Label
  <2>3. Needs'[asked'] = Needs[asked + 1]
    BY <1>1, <1>5
  <2>4. CallingFor(Needs[asked])'
    BY <1>3, <1>5, <1>6, <2>2, <2>3 DEF CallingFor, Unread, Hit
  <2>5. New = New'
    BY DEF New
  <2>6. Needs'[asked'] # New
    BY <1>10, <2>3
  <2> QED
    BY <1>1, <1>2, <1>5, <1>7, <1>8, <2>4, <2>5, <2>6 DEF Calls, Calling
<1> QED
  BY <1>9, <1>10

LEMMA PoolStepCalls ==
  ASSUME Setting, TInv, Calls, PoolP!CInv, PoolP!CInv', PoolStep
  PROVE  TInv' /\ Calls' /\ Calling /\ (FailsCall => Refusing')
PROOF
<1>1. PoolP!Continue(Caller) /\ UNCHANGED <<tree, base>> /\ UNCHANGED <<asked, uses>>
  BY SameContinue DEF PoolStep, own
<1>2. /\ Needs' = Needs /\ Pages' = Pages /\ count' = count
      /\ \A n : Got(n)' = Got(n)
      /\ TInv'
  BY <1>1, SameNeeds
<1>3. Label \notin {"flush_next", "flush"}
  BY CallingLabel, LabelsAre DEF Calls, Using, Answering, Refusing
<1>4. Moves \/ Allocates \/ FailsCall \/ AnswersCall
  BY <1>1, <1>3, CallStep
<1>5. Label # "idle"
  BY <1>4 DEF Moves, Allocates, FailsCall, AnswersCall, Hit, Unread, Brought
<1>6. Calling
  BY <1>5 DEF Calls, Using, Answering, Refusing
<1>7. \A i : Asked(i)' = Asked(i)
  BY <1>2 DEF Asked, New
<1>8. Got(asked)' = Got(asked) /\ Got(asked - 1)' = Got(asked - 1)
  BY <1>1, <1>7 DEF Got
<1>9. PICK S : S = Got(asked - 1)
  OBVIOUS
<1>10. Holding(S) /\ uses' = <<>> /\ asked' \in 1 .. Len(Needs') /\ Needs'[asked'] = Needs[asked]
       /\ New' = New
  BY <1>1, <1>2, <1>6, <1>9 DEF Calling, New
<1>11. guards' = guards => Holding(Got(asked - 1))'
  BY <1>8, <1>9, <1>10, SameHolding
<1>12. ASSUME Needs[asked] = New, CallingNew' PROVE Calling' \/ guards' # guards
  BY <1>10, <1>11, <1>12 DEF Calling
<1>13. ASSUME Needs[asked] # New, CallingFor(Needs[asked])' PROVE Calling' \/ guards' # guards
  BY <1>10, <1>11, <1>13 DEF Calling
<1>14. ASSUME Moves PROVE Calls'
  <2>1. guards' = guards /\ want' = want /\ file_len' = file_len
    BY <1>14 DEF Moves
  <2>2. CASE Needs[asked] = New
    <3>1. CallingNew
      BY <1>6, <2>2 DEF Calling
    <3>2. CallingNew'
      BY <1>2, <1>14, <2>1, <3>1, LabelsAre DEF Moves, CallingNew
    <3> QED
      BY <1>2, <1>12, <2>1, <2>2, <3>2 DEF Calls
  <2>3. CASE Needs[asked] # New
    <3>1. CallingFor(Needs[asked])
      BY <1>6, <2>3 DEF Calling
    <3>2. CallingFor(Needs[asked])'
      BY <1>2, <1>10, <1>14, <2>1, <3>1 DEF Moves, CallingFor
    <3> QED
      BY <1>2, <1>13, <2>1, <2>3, <3>2 DEF Calls
  <2> QED
    BY <1>2, <2>2, <2>3
<1>15. ASSUME Allocates PROVE Calls'
  <2>1. guards' = guards /\ want[Caller] = None /\ Label \in Unread
    BY <1>15 DEF Allocates
  <2>2. CASE Needs[asked] = New
    <3>1. file_len = count
      BY <1>6, <2>1, <2>2, LabelsAre DEF Calling, CallingNew
    <3>2. CallingNew'
      BY <1>2, <1>15, <3>1 DEF Allocates, CallingNew
    <3> QED
      BY <1>2, <1>12, <2>1, <2>2, <3>2 DEF Calls
  <2>3. CASE Needs[asked] # New
    <3>1. Needs[asked] \in Pages /\ want[Caller] = [space |-> 0, no |-> Needs[asked]]
      BY <1>6, <2>3, GotIs DEF Calling, CallingFor
    <3>2. want[Caller] \in PoolP!PageIds
      BY <3>1, PagesAre DEF PoolP!PageIds
    <3> QED
      BY <2>1, <3>2, PoolAssumptions DEF PoolP!NoneAssumption
  <2> QED
    BY <2>2, <2>3
<1>16. ASSUME FailsCall PROVE Refusing'
  <2>1. guards' = guards /\ file_len' = file_len /\ Label \in Unread /\ Label' = "idle"
    BY <1>16 DEF FailsCall
  <2>2. file_len = count
    BY <1>6, <2>1, LabelsAre DEF Calling, CallingNew, CallingFor
  <2> QED
    BY <1>2, <1>10, <1>11, <2>1, <2>2 DEF Refusing
<1>17. ASSUME AnswersCall PROVE Calls'
  <2>1. file_len' = file_len /\ Label \in Hit \cup Brought /\ Label' = "idle"
    BY <1>17 DEF AnswersCall, Hit, Brought
  <2>2. asked \in 1 .. Len(Needs)
    BY <1>6 DEF Calling
  <2>3. /\ Asked(asked) \notin S /\ Got(asked) = S \cup {Asked(asked)}
        /\ Asked(asked) = IF Needs[asked] = New THEN count ELSE Needs[asked]
    BY <1>9, <2>2, GotIs
  <2>4. want[Caller].no = Asked(asked)
    BY <1>6, <2>1, <2>3, LabelsAre DEF Calling, CallingNew, CallingFor
  <2>5. file_len = IF Needs[asked] = New THEN count + 1 ELSE count
    BY <1>6, <2>1, LabelsAre DEF Calling, CallingNew, CallingFor, Hit
  <2>6. PICK h \in Handles :
          /\ guards[Caller][h] = None
          /\ guards' = [guards EXCEPT ![Caller][h] = [frame |-> slot[Caller], id |-> want[Caller]]]
    BY <1>17 DEF AnswersCall
  <2>7. PICK g : g = [frame |-> slot[Caller], id |-> want[Caller]]
    OBVIOUS
  <2>8. g \in PoolP!PageGuard
    <3>1. PoolP!CallTypes
      BY DEF PoolP!CInv, PoolP!RInv, PoolP!IInv, PoolP!TypeOK
    <3>2. Label \in {"hit_lru", "publish_lru"}
      BY <1>17 DEF AnswersCall
    <3>3. slot[Caller] \in Frames /\ want[Caller] \in PoolP!PageIds
      BY <3>1, <3>2 DEF PoolP!CallTypes, PoolP!WithSlot, PoolP!WithWanted, Label
    <3> QED
      BY <2>7, <3>3 DEF PoolP!PageGuard
  <2>9. g # None /\ g.id.no = Asked(asked) /\ g.id.no \notin S
    BY <2>3, <2>4, <2>7, <2>8, PoolAssumptions DEF PoolP!NoneAssumption
  <2>10. guards' = [guards EXCEPT ![Caller][h] = g]
    BY <2>6, <2>7
  <2>11. Holding(S \cup {g.id.no})'
    BY <1>10, <2>6, <2>9, <2>10, HoldsOneMore
  <2>12. Got(asked)' = S \cup {g.id.no}
    BY <1>8, <2>3, <2>9
  <2>13. Holding(Got(asked))'
    BY <2>11, <2>12
  <2>14. Answering'
    BY <1>2, <1>10, <2>1, <2>5, <2>13 DEF Answering
  <2> QED
    BY <2>14 DEF Calls
<1> QED
  BY <1>2, <1>4, <1>6, <1>14, <1>15, <1>16, <1>17 DEF Calls

\* After an error the guards of the earlier calls are dropped
LEMMA CallFailsCalls ==
  ASSUME Setting, TInv, Calls, CallFails
  PROVE  TInv' /\ Calls'
PROOF
<1>1. Refused /\ pc # "new" /\ Tree!Fail /\ asked' = 0 /\ uses' = Drops(SetToSeq(HeldPages))
      /\ base' = base /\ UNCHANGED pool
  BY DEF CallFails
<1>2. TInv'
  BY <1>1, FailIn
<1>3. Refusing
  BY <1>1, RefusedIs
<1>4. PICK S : S = HeldPages
  OBVIOUS
<1>5. S = Got(asked - 1) /\ asked \in 1 .. Len(Needs) /\ Holding(S) /\ Label = "idle" /\ file_len = count
  BY <1>3, <1>4 DEF Refusing, Holding
<1>6. PICK P : P = Pages
  OBVIOUS
<1>7. S \subseteq P
  BY <1>5, <1>6, GotIs
<1>8. IsFiniteSet(S)
  BY <1>5, HeldCount DEF Setting
<1>9. Each(SetToSeq(S), P, S)
  BY <1>7, <1>8, ListOf
<1>10. InOrder(Drops(SetToSeq(S)), P) /\ Dropped(Drops(SetToSeq(S))) = S
  BY <1>9, DropsAre
<1>11. uses' = Drops(SetToSeq(S))
  BY <1>1, <1>4
<1>12. count' = count /\ Pages' = Pages
  BY <1>1 DEF Tree!Fail, Tree!tree, Pages
<1>13. UNCHANGED <<guards, file_len>> /\ Label' = Label
  BY <1>1, SamePool
<1>14. Holding(S)'
  BY <1>5, <1>13, SameHolding
<1>15. Dropped(uses)' = S
  BY <1>10, <1>11 DEF Dropped
<1>16. Holding(Dropped(uses))'
  BY <1>14, <1>15
<1>17. InOrder(uses', Pages')
  BY <1>6, <1>10, <1>11, <1>12
<1>18. Using'
  BY <1>1, <1>5, <1>12, <1>13, <1>16, <1>17 DEF Using
<1> QED
  BY <1>2, <1>18 DEF Calls

\* A step of the tree has its guards, and then uses each of them
LEMMA TreeStepKeeps ==
  ASSUME Setting, TInv, Calls, PoolP!CInv, TreeStep
  PROVE  /\ TInv' /\ Calls' /\ Touches
         /\ Written(uses)' = IF pc' \in Going THEN {} ELSE Got(Len(Needs))
         /\ Using'
PROOF
<1>1. /\ Answered /\ asked = Len(Needs) /\ asked > 0
      /\ CreateRoot \/ Tree!Continue
      /\ asked' = 0 /\ base' = base /\ UNCHANGED pool
      /\ uses' = Uses([i \in 1 .. asked |->
                         LET p == Needs[asked + 1 - i] IN IF p = New THEN count ELSE p])
  BY DEF TreeStep
<1>2. Answering
  BY <1>1, AnsweredIs, GotIs
<1>3. /\ Holding(Got(Len(Needs))) /\ Label = "idle"
      /\ file_len = IF Needs[Len(Needs)] = New THEN count + 1 ELSE count
  BY <1>1, <1>2 DEF Answering
<1>4. TInv'
  <2>1. CASE CreateRoot
    <3>1. Needs = <<New>>
      BY <2>1 DEF CreateRoot, Needs
    <3>2. file_len = count + 1 /\ file_len \in 0 .. MaxPages
      BY <1>3, <3>1, PoolTypes
    <3>3. count < MaxPages
      BY <3>2, PagesAre
    <3> QED
      BY <1>1, <2>1, <3>3, CreateRootIn
  <2>2. CASE Tree!Continue
    BY <1>1, <2>2, ContinueIn
  <2> QED
    BY <1>1, <2>1, <2>2
<1>5. Touches
  BY <1>1, StepTouches
<1>6. file_len = count'
  BY <1>3, <1>5 DEF Touches
<1>7. PICK S : S = Got(Len(Needs))
  OBVIOUS
<1>8. PICK P : P = Pages'
  OBVIOUS
<1>9. PICK s : s = [i \in 1 .. Len(Needs) |->
                      LET p == Needs[Len(Needs) + 1 - i] IN IF p = New THEN count ELSE p]
  OBVIOUS
<1>10. Each(s, P, S)
  <2>1. Got(Len(Needs)) \subseteq P
    BY <1>5, <1>8 DEF Touches
  <2> QED
    BY <1>7, <1>9, <2>1, GotInTurn
<1>11. uses' = IF pc' \in Going THEN Drops(s) ELSE WritesAndDrops(s)
  BY <1>1, <1>9 DEF Uses, Going
<1>12. InOrder(uses', P) /\ Dropped(uses') = S
  <2>1. InOrder(Drops(s), P) /\ Dropped(Drops(s)) = S
    BY <1>10, DropsAre
  <2>2. InOrder(WritesAndDrops(s), P) /\ Dropped(WritesAndDrops(s)) = S
    BY <1>10, WritesAndDropsAre
  <2> QED
    BY <1>11, <2>1, <2>2
<1>13. Written(uses') = IF pc' \in Going THEN {} ELSE S
  <2>1. Written(Drops(s)) = {}
    BY <1>10, DropsAre
  <2>2. Written(WritesAndDrops(s)) = S
    BY <1>10, WritesAndDropsAre
  <2> QED
    BY <1>11, <2>1, <2>2
<1>14. Written(uses)' = Written(uses') /\ Dropped(uses)' = Dropped(uses')
  BY DEF Written, Dropped
<1>15. UNCHANGED <<guards, file_len>> /\ Label' = Label
  BY <1>1, SamePool
<1>16. Holding(S)'
  BY <1>3, <1>7, <1>15, SameHolding
<1>17. Holding(Dropped(uses))'
  BY <1>12, <1>14, <1>16
<1>18. Using'
  BY <1>1, <1>3, <1>6, <1>8, <1>12, <1>15, <1>17 DEF Using
<1> QED
  BY <1>4, <1>5, <1>7, <1>13, <1>14, <1>18 DEF Calls

\* A guard is used as its page's turn comes
LEMMA UseGuardCalls ==
  ASSUME Setting, TInv, Calls, PoolP!CInv, PoolP!CInv', UseGuard
  PROVE  TInv' /\ Calls'
PROOF
<1>1. uses # <<>> /\ uses' = Tail(uses) /\ UNCHANGED <<tree, base>> /\ asked' = asked
  BY DEF UseGuard
<1>2. TInv' /\ Pages' = Pages /\ count' = count
  BY <1>1, SameNeeds
<1>3. Using
  BY <1>1 DEF Calls, Calling, Answering, Refusing
<1>4. PICK h \in Held :
        /\ PageOf(h) = Head(uses).page
        /\ IF Head(uses).write THEN Pool!WriteGuard(Caller, h) ELSE Pool!DropGuard(Caller, h)
  BY DEF UseGuard, PageOf
<1>5. PICK u : u = uses
  OBVIOUS
<1>6. PICK P : P = Pages
  OBVIOUS
<1>7. /\ InOrder(Tail(u), P)
      /\ Head(u).write => Dropped(Tail(u)) = Dropped(u)
      /\ ~Head(u).write => Dropped(Tail(u)) = Dropped(u) \ {Head(u).page}
  <2>1. InOrder(u, P) /\ u # <<>>
    BY <1>1, <1>3, <1>5, <1>6 DEF Using
  <2> QED
    BY <2>1, OneUseLess
<1>8. PICK S : S = Dropped(u)
  OBVIOUS
<1>9. Holding(S)
  BY <1>3, <1>5, <1>8 DEF Using
<1>10. Dropped(uses)' = Dropped(Tail(u))
  BY <1>1, <1>5 DEF Dropped
<1>11. file_len' = file_len /\ Label' = Label /\ Holding(Dropped(uses))'
  <2>1. CASE Head(uses).write
    <3>1. PoolP!WriteGuard(Caller, h)
      BY <1>4, <2>1, SameBegin
    <3>2. file_len' = file_len /\ Label' = Label /\ guards' = guards
      BY <3>1 DEF PoolP!WriteGuard, PoolP!disk, PoolP!call, Label
    <3>3. Holding(S)'
      BY <1>9, <3>2, SameHolding
    <3>4. Dropped(uses)' = S
      BY <1>5, <1>7, <1>8, <1>10, <2>1
    <3> QED
      BY <3>2, <3>3, <3>4
  <2>2. CASE ~Head(uses).write
    <3>1. PoolP!DropGuard(Caller, h)
      BY <1>4, <2>2, SameBegin
    <3>2. ~PoolP!Panic(Caller)
      BY PoolTypes DEF PoolP!Panic, PoolP!CInv, PoolP!Running
    <3>3. file_len' = file_len /\ Label' = Label /\ guards' = [guards EXCEPT ![Caller][h] = None]
      BY <3>1, <3>2 DEF PoolP!DropGuard, PoolP!disk, PoolP!call, Label
    <3>4. PICK q : q = PageOf(h)
      OBVIOUS
    <3>5. Holding(S \ {q})'
      BY <1>9, <3>3, <3>4, HoldsOneLess
    <3>6. Dropped(uses)' = S \ {q}
      BY <1>4, <1>5, <1>7, <1>8, <1>10, <2>2, <3>4
    <3> QED
      BY <3>3, <3>5, <3>6
  <2> QED
    BY <2>1, <2>2
<1>12. Using'
  BY <1>1, <1>2, <1>3, <1>5, <1>6, <1>7, <1>11 DEF Using
<1> QED
  BY <1>2, <1>12 DEF Calls

\* What has no pages yet has nothing to hold
LEMMA NothingYet ==
  /\ Dropped(<<>>) = {} /\ Written(<<>>) = {}
  /\ \A P : InOrder(<<>>, P) /\ <<>> \in Seq(P)
PROOF
BY DEF Dropped, Written, InOrder

\* The insert when the process starts
Fresh ==
  /\ base = file_len /\ count = file_len
  /\ DOMAIN nodes = Between(0, MaxPages)
  /\ pc = "new" /\ path = <<>> /\ asked = 0 /\ uses = <<>>
  /\ Label = "idle" /\ guards = PoolP!NoGuards

LEMMA FreshHolds ==
  ASSUME PoolP!CInv, Fresh
  PROVE  TInv /\ Calls
PROOF
<1>1. base \in Nat /\ count \in Nat /\ base = count /\ count <= MaxPages
  BY PoolTypes, TreeOnPoolAssumption DEF Fresh
<1>2. Pages = {}
  BY <1>1 DEF Pages, Between
<1>3. TInv
  BY <1>1, <1>2 DEF Fresh, TInv, NodesIn, PathIn, OnTheWay
<1>4. Held = {}
  BY DEF Fresh, PoolP!NoGuards, Held
<1>5. Holding({})
  BY <1>4 DEF Holding, HeldPages
<1>6. Using
  BY <1>5, NothingYet DEF Fresh, Using
<1> QED
  BY <1>3, <1>6 DEF Calls

LEMMA RestartCalls ==
  ASSUME PoolP!CInv', Restart
  PROVE  TInv' /\ Calls' /\ Fresh'
PROOF
<1>1. /\ PoolP!Restart /\ Starting /\ count' = file_len /\ base' = file_len
  BY SameBegin DEF Restart
<1>2. /\ file_len' = file_len /\ guards' = PoolP!NoGuards /\ Label' = "idle"
  BY <1>1 DEF PoolP!Restart, PoolP!Opened, PoolP!disk, Label
<1>3. Fresh'
  BY <1>1, <1>2 DEF Fresh, Starting, PoolP!NoGuards, Between
<1> QED
  BY <1>3, FreshHolds, PTL

-----------------------------------------------------------------------------
(***************************************************************************)
(* The text of a page: its last node is the one in the tree, unless that   *)
(* is still to be written, and the pool has its number.                    *)
(***************************************************************************)
Lines(s, n) == \E T : s \in Seq(T) /\ Len(s) = n

Texts ==
  /\ DOMAIN text = PoolP!PageNos
  /\ \A p \in PoolP!PageNos : base <= p => Lines(text[p], latest[p])
  /\ \A p \in Pages : p \notin Written(uses) => latest[p] > 0 /\ text[p][latest[p]] = nodes[p]

LEMMA OneLineMore ==
  ASSUME NEW s, NEW n \in Nat, Lines(s, n), NEW x
  PROVE  Lines(Append(s, x), n + 1) /\ Append(s, x)[n + 1] = x
PROOF
<1>1. PICK T : s \in Seq(T) /\ Len(s) = n
  BY DEF Lines
<1>2. s \in Seq(T \cup {x}) /\ x \in T \cup {x}
  BY <1>1
<1>3. Append(s, x) \in Seq(T \cup {x}) /\ Len(Append(s, x)) = n + 1 /\ Append(s, x)[n + 1] = x
  BY <1>1, <1>2
<1> QED
  BY <1>3 DEF Lines

LEMMA NoLines == Lines(<<>>, 0)
PROOF
<1>1. <<>> \in Seq({}) /\ Len(<<>>) = 0
  OBVIOUS
<1> QED
  BY <1>1 DEF Lines

\* As long as nothing is written, it is enough that no node changes
LEMMA SameTexts ==
  ASSUME Texts, UNCHANGED <<text, latest, base>>,
         \A p \in Pages' : p \notin Written(uses)' =>
           p \in Pages /\ p \notin Written(uses) /\ nodes'[p] = nodes[p]
  PROVE  Texts'
PROOF
<1>1. DOMAIN text' = PoolP!PageNos
  BY DEF Texts
<1>2. \A p \in PoolP!PageNos : base' <= p => Lines(text'[p], latest'[p])
  BY DEF Texts
<1>3. \A p \in Pages' : p \notin Written(uses)' => latest'[p] > 0 /\ text'[p][latest'[p]] = nodes'[p]
  BY DEF Texts
<1> QED
  BY <1>1, <1>2, <1>3 DEF Texts, PoolP!PageNos, Lines

\* Nothing is written while the insert calls the pool
LEMMA CallsKeepTexts ==
  ASSUME Calls, Texts, UNCHANGED <<tree, text, base, latest, uses>>
  PROVE  Texts'
PROOF
<1>1. Written(uses)' = Written(uses)
  BY DEF Written
<1>2. Pages' = Pages /\ nodes' = nodes
  BY DEF tree, Pages
<1> QED
  BY <1>1, <1>2, SameTexts

LEMMA AskKeepsTexts == ASSUME Calls, Texts, Ask PROVE Texts'
PROOF
<1>1. UNCHANGED <<tree, uses, text, base>> /\ Asks
  BY AskAsks DEF Ask
<1>2. latest' = latest
  BY <1>1 DEF Asks, PoolP!StartNewPage, PoolP!FetchHit, PoolP!FetchMiss, PoolP!caller
<1> QED
  BY <1>1, <1>2, CallsKeepTexts

LEMMA PoolStepKeepsTexts ==
  ASSUME Calls, Texts, PoolP!CInv, PoolP!CInv', PoolStep
  PROVE  Texts'
PROOF
<1>1. PoolP!Continue(Caller) /\ UNCHANGED <<tree, uses, text, base>>
  BY SameContinue DEF PoolStep, own
<1>2. Label \notin {"flush_next", "flush"}
  BY CallingLabel, LabelsAre DEF Calls, Using, Answering, Refusing
<1>3. latest' = latest
  BY <1>1, <1>2, CallStep DEF Moves, Allocates, FailsCall, AnswersCall
<1> QED
  BY <1>1, <1>3, CallsKeepTexts

LEMMA InsertKeepsTexts == ASSUME Texts, NEW e, Insert(e) PROVE Texts'
PROOF
<1>1. Tree!Insert(e) /\ UNCHANGED <<uses, text, base>> /\ latest' = latest
  BY SamePool DEF Insert, own
<1>2. nodes' = nodes /\ count' = count
  BY <1>1 DEF Tree!Insert, Tree!tree
<1>3. Written(uses)' = Written(uses) /\ Pages' = Pages
  BY <1>1, <1>2 DEF Written, Pages
<1> QED
  BY <1>1, <1>2, <1>3, SameTexts

LEMMA CallFailsKeepsTexts ==
  ASSUME Setting, TInv, Calls, Texts, CallFails
  PROVE  Texts'
PROOF
<1>1. Refused /\ Tree!Fail /\ UNCHANGED <<text, base>> /\ latest' = latest
  BY SamePool DEF CallFails
<1>2. nodes' = nodes /\ count' = count /\ uses = <<>>
  BY <1>1 DEF Tree!Fail, Tree!tree, Refused
<1>3. Pages' = Pages /\ Written(uses) = {}
  BY <1>1, <1>2, NothingYet DEF Pages
<1> QED
  BY <1>1, <1>2, <1>3, SameTexts

\* The step writes every page it changes
LEMMA TreeStepKeepsTexts ==
  ASSUME Setting, TInv, Calls, PoolP!CInv, Texts, TreeStep
  PROVE  Texts'
PROOF
<1>1. UNCHANGED <<text, base>> /\ latest' = latest /\ uses = <<>>
  BY SamePool DEF TreeStep, Answered
<1>2. Touches /\ Written(uses)' = IF pc' \in Going THEN {} ELSE Got(Len(Needs))
  BY TreeStepKeeps
<1>3. Written(uses) = {}
  BY <1>1, NothingYet
<1>4. ASSUME NEW p \in Pages', p \notin Written(uses)'
      PROVE  p \in Pages /\ nodes'[p] = nodes[p]
  <2>1. CASE pc' \in Going
    <3>1. nodes' = nodes /\ count' = count
      BY <1>2, <2>1 DEF Touches
    <3> QED
      BY <1>1, <1>4, <3>1 DEF Pages
  <2>2. CASE pc' \notin Going
    BY <1>2, <1>4, <2>2 DEF Touches
  <2> QED
    BY <2>1, <2>2
<1> QED
  BY <1>1, <1>3, <1>4, SameTexts

\* A write adds the node of its page
LEMMA UseGuardKeepsTexts ==
  ASSUME Setting, TInv, Calls, PoolP!CInv, Texts, UseGuard
  PROVE  Texts'
PROOF
<1>1. uses # <<>> /\ uses' = Tail(uses) /\ UNCHANGED <<tree, base>>
  BY DEF UseGuard
<1>2. Pages' = Pages /\ nodes' = nodes
  BY <1>1, SameNeeds
<1>3. Using
  BY <1>1 DEF Calls, Calling, Answering, Refusing
<1>4. PICK h \in Held :
        /\ guards[Caller][h].id.no = Head(uses).page
        /\ IF Head(uses).write
             THEN /\ Pool!WriteGuard(Caller, h)
                  /\ text' = [text EXCEPT ![Head(uses).page] = Append(@, nodes[Head(uses).page])]
             ELSE Pool!DropGuard(Caller, h) /\ text' = text
  BY DEF UseGuard
<1>5. PICK u : u = uses
  OBVIOUS
<1>6. PICK P : P = Pages
  OBVIOUS
<1>7. /\ Head(u).page \in P
      /\ Head(u).write => \A p \in Written(u) : p \in Written(Tail(u)) \/ p = Head(u).page
      /\ ~Head(u).write => Written(Tail(u)) = Written(u)
  <2>1. InOrder(u, P) /\ u # <<>>
    BY <1>1, <1>3, <1>5, <1>6 DEF Using
  <2> QED
    BY <2>1, OneUseLess
<1>8. Written(uses)' = Written(Tail(u)) /\ Written(uses) = Written(u)
  BY <1>1, <1>5 DEF Written
<1>9. CASE ~Head(uses).write
  <2>1. text' = text /\ PoolP!DropGuard(Caller, h)
    BY <1>4, <1>9, SameBegin
  <2>2. latest' = latest
    BY <2>1 DEF PoolP!DropGuard
  <2>3. Written(uses)' = Written(uses)
    BY <1>5, <1>7, <1>8, <1>9
  <2> QED
    BY <1>1, <1>2, <2>1, <2>2, <2>3, SameTexts
<1>10. CASE Head(uses).write
  <2>1. PICK q : q = Head(uses).page
    OBVIOUS
  <2>2. q \in Pages /\ q \in PoolP!PageNos /\ base <= q
    BY <1>5, <1>6, <1>7, <2>1, PagesAre
  <2>3. PoolP!WriteGuard(Caller, h) /\ text' = [text EXCEPT ![q] = Append(@, nodes[q])]
    BY <1>4, <1>10, <2>1, SameBegin
  <2>4. latest' = [latest EXCEPT ![q] = PoolP!Newer(@)]
    BY <1>4, <2>1, <2>3 DEF PoolP!WriteGuard
  <2>5. DOMAIN latest = PoolP!PageNos /\ latest[q] \in Nat /\ PoolP!Newer(latest[q]) = latest[q] + 1
    <3>1. Lines(text[q], latest[q])
      BY <2>2 DEF Texts
    <3>2. latest[q] \in Nat
      BY <3>1 DEF Lines
    <3> QED
      BY <3>2, PoolTypes DEF PoolP!Newer
  <2>6. /\ latest'[q] = latest[q] + 1 /\ text'[q] = Append(text[q], nodes[q])
        /\ \A p \in PoolP!PageNos : p # q => latest'[p] = latest[p] /\ text'[p] = text[p]
        /\ DOMAIN text' = PoolP!PageNos
    BY <2>2, <2>3, <2>4, <2>5 DEF Texts
  <2>7. Lines(text'[q], latest'[q]) /\ text'[q][latest'[q]] = nodes[q] /\ latest'[q] > 0
    <3>1. Lines(text[q], latest[q]) /\ latest[q] \in Nat
      BY <2>2, <2>5 DEF Texts
    <3>2. PICK s, n, x : s = text[q] /\ n = latest[q] /\ x = nodes[q]
      OBVIOUS
    <3>3. Lines(s, n) /\ n \in Nat
      BY <3>1, <3>2
    <3>4. Lines(Append(s, x), n + 1) /\ Append(s, x)[n + 1] = x
      BY <3>3, OneLineMore
    <3> QED
      BY <2>6, <3>2, <3>3, <3>4
  <2>8. \A p \in PoolP!PageNos : base' <= p => Lines(text'[p], latest'[p])
    BY <1>1, <2>6, <2>7 DEF Texts
  <2>9. \A p \in Pages' : p \notin Written(uses)' => latest'[p] > 0 /\ text'[p][latest'[p]] = nodes'[p]
    <3> SUFFICES ASSUME NEW p \in Pages, p \notin Written(uses)'
                 PROVE  latest'[p] > 0 /\ text'[p][latest'[p]] = nodes[p]
      BY <1>2
    <3>1. CASE p = q
      BY <2>7, <3>1
    <3>2. CASE p # q
      <4>1. p \notin Written(uses)
        BY <1>5, <1>7, <1>8, <1>10, <2>1, <3>2
      <4>2. p \in PoolP!PageNos
        BY PagesAre
      <4> QED
        BY <2>6, <3>2, <4>1, <4>2 DEF Texts
    <3> QED
      BY <3>1, <3>2
  <2> QED
    BY <2>6, <2>8, <2>9 DEF Texts, PoolP!PageNos, Lines
<1> QED
  BY <1>9, <1>10

\* A new tree has no pages yet, and no text beyond the old file
LEMMA RestartKeepsTexts ==
  ASSUME Texts, PoolP!CInv, PoolP!CInv', Restart
  PROVE  Texts'
PROOF
<1>1. /\ PoolP!Restart /\ count' = file_len /\ base' = file_len
      /\ text' = [p \in DOMAIN text |-> <<>>]
  BY SameBegin DEF Restart
<1>2. latest' = [n \in PoolP!PageNos |-> IF n < file_len THEN file[n].val ELSE 0]
  BY <1>1 DEF PoolP!Restart
<1>3. file_len \in Nat /\ PoolP!PageNos \subseteq Nat
  BY PoolTypes, TreeOnPoolAssumption DEF PoolP!PageNos
<1>4. Pages' = {}
  BY <1>1, <1>3 DEF Pages, Between
<1>5. DOMAIN text' = PoolP!PageNos
  BY <1>1 DEF Texts
<1>6. \A p \in PoolP!PageNos : base' <= p => Lines(text'[p], latest'[p])
  <2> SUFFICES ASSUME NEW p \in PoolP!PageNos, file_len <= p
               PROVE  Lines(text'[p], latest'[p])
    BY <1>1
  <2>1. ~(p < file_len) /\ p \in DOMAIN text
    BY <1>3 DEF Texts
  <2>2. text'[p] = <<>> /\ latest'[p] = 0
    BY <1>1, <1>2, <2>1
  <2> QED
    BY <2>2, NoLines
<1> QED
  BY <1>4, <1>5, <1>6 DEF Texts, PoolP!PageNos, Lines

LEMMA InitTexts == ASSUME Init, PoolP!CInv PROVE Texts
PROOF
<1>1. /\ PoolP!Init /\ base = 0 /\ count = 0
      /\ text = [p \in 0 .. MaxPages - 1 |-> <<>>]
  BY SameBegin DEF Init
<1>2. latest = [n \in PoolP!PageNos |-> 0]
  BY <1>1 DEF PoolP!Init
<1>3. Pages = {}
  BY <1>1 DEF Pages, Between
<1>4. \A p \in PoolP!PageNos : Lines(text[p], latest[p])
  BY <1>1, <1>2, NoLines DEF PoolP!PageNos
<1> QED
  BY <1>1, <1>3, <1>4 DEF Texts, PoolP!PageNos

-----------------------------------------------------------------------------
(***************************************************************************)
(* The invariant, and what the tree sees.                                  *)
(***************************************************************************)
Inv == PoolP!CInv /\ TInv /\ Calls /\ Texts

LEMMA Begins == ASSUME Setting, Init PROVE Inv
PROOF
<1>1. PoolP!Init
  BY SameBegin DEF Init
<1>2. PoolP!CInv
  BY <1>1, PoolBegins
<1>3. Fresh
  BY <1>1, PoolTypes DEF Init, Fresh, PoolP!Init, Between, Label
<1> QED
  BY <1>2, <1>3, FreshHolds, InitTexts DEF Inv

LEMMA PoolNext == ASSUME Setting, Inv, [Next]_vars PROVE PoolP!CInv'
PROOF
<1>1. asked \in Nat
  BY GotIs DEF Inv, Calls, Using, Calling, Answering, Refusing
<1>2. [PoolP!Next]_PoolP!vars
  BY <1>1, AsksInRange, StepsThePool DEF Inv
<1> QED
  BY <1>2, PoolStepKeeps DEF Inv

\* Nothing happens to the insert while nothing happens
LEMMA StutterKeeps ==
  ASSUME TInv, Calls, Texts, UNCHANGED vars
  PROVE  TInv' /\ Calls' /\ Texts' /\ (Refusing => Refusing')
PROOF
<1>1. UNCHANGED <<tree, pool, base, asked, uses, text>>
  BY DEF vars, own
<1>2. /\ Needs' = Needs /\ Pages' = Pages /\ count' = count /\ TInv'
      /\ UNCHANGED <<guards, latest, want, file_len>> /\ Label' = Label
  BY <1>1, SameNeeds, SamePool
<1>3. \A i : Asked(i)' = Asked(i)
  BY <1>2 DEF Asked, New
<1>4. Got(asked)' = Got(asked) /\ Got(asked - 1)' = Got(asked - 1)
  BY <1>1, <1>3 DEF Got
<1>5. Dropped(uses)' = Dropped(uses)
  BY <1>1 DEF Dropped
<1>6. Held' = Held /\ HeldPages' = HeldPages
  BY <1>2 DEF Held, HeldPages
<1>7. /\ Holding(Got(asked))' = Holding(Got(asked))
      /\ Holding(Got(asked - 1))' = Holding(Got(asked - 1))
      /\ Holding(Dropped(uses))' = Holding(Dropped(uses))
  BY <1>2, <1>4, <1>5, <1>6 DEF Holding, PageOf
<1>8. Using => Using'
  BY <1>1, <1>2, <1>7 DEF Using
<1>9. Calling => Calling'
  BY <1>1, <1>2, <1>7 DEF Calling, CallingNew, CallingFor, New
<1>10. (Answering => Answering') /\ (Refusing => Refusing')
  BY <1>1, <1>2, <1>7 DEF Answering, Refusing, New
<1>11. Texts'
  BY <1>1, <1>2, CallsKeepTexts
<1> QED
  BY <1>1, <1>2, <1>8, <1>9, <1>10, <1>11 DEF Calls

LEMMA InvNext == ASSUME Setting, Inv, [Next]_vars PROVE Inv'
PROOF
<1> USE DEF Inv
<1>1. PoolP!CInv'
  BY PoolNext
<1>2. CASE \E e \in Inserts : Insert(e)
  BY <1>1, <1>2, InsertCalls, InsertKeepsTexts
<1>3. CASE Ask
  BY <1>1, <1>3, AskCalls, AskKeepsTexts
<1>4. CASE PoolStep
  BY <1>1, <1>4, PoolStepCalls, PoolStepKeepsTexts
<1>5. CASE CallFails
  BY <1>1, <1>5, CallFailsCalls, CallFailsKeepsTexts
<1>6. CASE TreeStep
  BY <1>1, <1>6, TreeStepKeeps, TreeStepKeepsTexts
<1>7. CASE UseGuard
  BY <1>1, <1>7, UseGuardCalls, UseGuardKeepsTexts
<1>8. CASE Restart
  BY <1>1, <1>8, RestartCalls, RestartKeepsTexts
<1>9. CASE UNCHANGED vars
  BY <1>1, <1>9, StutterKeeps
<1> QED
  BY <1>2, <1>3, <1>4, <1>5, <1>6, <1>7, <1>8, <1>9 DEF Next

LEMMA InvHolds == ASSUME Setting PROVE Spec => []Inv
PROOF
<1>1. Setting => (Init => Inv)
  BY Begins
<1>2. Setting => (Inv /\ [Next]_vars => Inv')
  BY InvNext
<1> QED
  BY <1>1, <1>2, PTL DEF Spec

\* The version of a page is the newest
LEMMA VersionIsLatest ==
  ASSUME Setting, Inv, NEW p \in Pages
  PROVE  Version(p) = latest[p]
PROOF
<1>1. PoolP!CInv /\ TInv /\ Calls
  BY DEF Inv
<1>2. p \in PoolP!PageNos /\ p < count
  BY <1>1, PagesAre
<1>3. count <= file_len /\ file_len \in Nat
  BY <1>1, PoolTypes, PagesAre
    DEF Calls, Using, Calling, CallingNew, CallingFor, Answering, Refusing
<1>4. file[p] \in PoolP!Page
  BY <1>1, <1>2, <1>3, PagesAre DEF PoolP!CInv, PoolP!RInv, PoolP!IInv, PoolP!TypeOK, PoolP!SharedTypes
<1>5. file[p] # None
  BY <1>4, PoolAssumptions DEF PoolP!NoneAssumption
<1>6. PoolP!Shown = latest
  BY <1>1, PoolAssumptions, PoolP!ShownIsLatest
<1>7. PoolP!Visible(p) = latest[p]
  BY <1>2, <1>6 DEF PoolP!Shown
<1>8. PoolP!FileId(p) = [space |-> 0, no |-> p]
  BY DEF PoolP!FileId, Setting
<1>9. page_table[PoolP!FileId(p)] # None => frames[page_table[PoolP!FileId(p)]] # None
  <2>1. PoolP!FileId(p) \in PoolP!PageIds
    BY <1>2, <1>8 DEF PoolP!PageIds
  <2> QED
    BY <1>1, <2>1 DEF PoolP!CInv, PoolP!Structure, PoolP!TableMatchesFrames
<1> QED
  BY <1>5, <1>7, <1>8, <1>9 DEF Version, PoolP!Visible, PoolP!Stored, PoolP!Cached

LEMMA InvSees == ASSUME Setting, Inv PROVE TreeSeesItsPages
PROOF
<1>1. TInv /\ Calls /\ Texts
  BY DEF Inv
<1>2. base .. count - 1 = Pages
  BY DEF Pages, Between
<1>3. ASSUME NEW p \in Pages, ~ToBeWritten(p)
      PROVE  Version(p) > 0 /\ text[p][Version(p)] = nodes[p]
  <2>1. p \notin Written(uses)
    BY <1>3 DEF Written, ToBeWritten
  <2> QED
    BY <1>1, <2>1, VersionIsLatest DEF Texts
<1>4. ASSUME Answered, asked = Len(Needs)
      PROVE  HeldPages = {IF p = New THEN count ELSE p : p \in ToSet(Needs)}
  <2>1. HeldPages = Got(Len(Needs))
    BY <1>1, <1>4, AnsweredIs DEF Holding
  <2>2. DOMAIN Needs = 1 .. Len(Needs)
    BY <1>1, NeedsAre DEF NeedsOne, NeedsTwo
  <2> QED
    BY <2>1, <2>2 DEF Got, Asked, ToSet
<1> QED
  BY <1>2, <1>3, <1>4 DEF TreeSeesItsPages

(***************************************************************************)
(* Through hits, misses, evictions, file errors and restarts, with any     *)
(* number of frames, the pool shows the tree each of its pages as it was   *)
(* written last, and a split of src/btree/btree.rs gets the number from    *)
(* new_page that the tree expects, as long as the file is tablespace 0.    *)
(***************************************************************************)
THEOREM PagesAlwaysSeen == ASSUME Setting PROVE Spec => []TreeSeesItsPages
PROOF
<1>1. Setting => (Inv => TreeSeesItsPages)
  BY InvSees
<1> QED
  BY <1>1, InvHolds, PTL

-----------------------------------------------------------------------------
(***************************************************************************)
(* What was in the file before: no frame holds such a page, so that no     *)
(* eviction writes one.                                                    *)
(***************************************************************************)
OldClear == \A f \in Frames : frames[f] # None => base <= frames[f].page.id.no

\* A step keeps the pages of the frames, but for the one that brings a page in
Brings(id) ==
  \A f \in Frames : frames'[f] # None =>
    (frames[f] # None /\ frames'[f].page.id = frames[f].page.id) \/ frames'[f].page.id = id

LEMMA FullFrames ==
  ASSUME PoolP!CInv, NEW f \in Frames, frames[f] # None
  PROVE  /\ frames[f] \in [page : PoolP!Page, dirty : BOOLEAN, pin : Int]
         /\ frames[f].page \in PoolP!Page /\ frames[f].page.id \in PoolP!PageIds
PROOF
BY PoolTypes, TreeOnPoolAssumption DEF PoolP!BufferFrame, PoolP!Page

\* The steps that change frames
LEMMA FrameChanges ==
  ASSUME PoolP!CInv, PoolP!Continue(Caller), Label \notin {"flush_next", "flush"}
  PROVE  \/ frames' = frames
         \/ /\ PoolP!HitPin(Caller) /\ Label = "hit_frame"
            /\ frames' = [frames EXCEPT ![slot[Caller]].pin = PoolP!Incremented(@)]
         \/ /\ PoolP!VictimSaved(Caller) \/ PoolP!VictimWriteFails(Caller)
            /\ frames' = [frames EXCEPT ![slot[Caller]].page = PoolP!WithChecksum(@)]
         \/ PoolP!Unmap(Caller) /\ frames' = [frames EXCEPT ![slot[Caller]] = None]
         \/ /\ PoolP!Install(Caller) /\ Label = "install"
            /\ frames' = [frames EXCEPT
                            ![slot[Caller]] = [page |-> loaded[Caller], dirty |-> FALSE, pin |-> 1]]
PROOF
<1>1. CASE PoolP!HitPin(Caller)
  BY <1>1 DEF PoolP!HitPin, Label
<1>2. CASE PoolP!VictimSaved(Caller)
  BY <1>2 DEF PoolP!VictimSaved
<1>3. CASE PoolP!VictimWriteFails(Caller)
  BY <1>3 DEF PoolP!VictimWriteFails
<1>4. CASE PoolP!Unmap(Caller)
  BY <1>4 DEF PoolP!Unmap
<1>5. CASE PoolP!Install(Caller)
  BY <1>5 DEF PoolP!Install, Label
<1>6. CASE PoolP!PopFree(Caller) \/ PoolP!StartScan(Caller) \/ PoolP!ScanPinned(Caller)
        \/ PoolP!ScanEmpty(Caller) \/ PoolP!ScanVictim(Caller) \/ PoolP!ScanExhausted(Caller)
        \/ PoolP!VictimGone(Caller)
  BY <1>6 DEF PoolP!PopFree, PoolP!StartScan, PoolP!ScanPinned, PoolP!ScanEmpty,
    PoolP!ScanVictim, PoolP!ScanExhausted, PoolP!VictimGone, PoolP!pool
<1>7. CASE PoolP!HitTouch(Caller) \/ PoolP!ReadPage(Caller) \/ PoolP!Allocate(Caller)
        \/ PoolP!LoadFails(Caller) \/ PoolP!Publish(Caller) \/ PoolP!PublishTouch(Caller)
  BY <1>7 DEF PoolP!HitTouch, PoolP!ReadPage, PoolP!Allocate, PoolP!LoadFails, PoolP!Publish,
    PoolP!PublishTouch, PoolP!pool
<1>8. ~(PoolP!FlushNext(Caller) \/ PoolP!FlushClean(Caller) \/ PoolP!FlushWrite(Caller)
         \/ PoolP!FlushFails(Caller))
  BY DEF PoolP!FlushNext, PoolP!FlushClean, PoolP!FlushWrite, PoolP!FlushFails, Label
<1> QED
  BY <1>1, <1>2, <1>3, <1>4, <1>5, <1>6, <1>7, <1>8 DEF PoolP!Continue, PoolP!FindFrame

LEMMA StepBrings ==
  ASSUME PoolP!CInv, PoolP!Continue(Caller), Label \notin {"flush_next", "flush"}
  PROVE  Brings(None) \/ (Label = "install" /\ Brings(want[Caller]))
PROOF
<1> DEFINE f == slot[Caller]
<1>1. DOMAIN frames = Frames
  BY PoolTypes
<1>2. CASE frames' = frames
  BY <1>2 DEF Brings
<1>3. CASE PoolP!HitPin(Caller) /\ frames' = [frames EXCEPT ![f].pin = PoolP!Incremented(@)]
  <2>1. frames'[f].page = frames[f].page \/ frames' = frames \/ f \notin Frames
    BY <1>1, <1>3, FullFrames DEF PoolP!HitPin
  <2>2. frames' = frames \/ frames[f] # None
    BY <1>3 DEF PoolP!HitPin
  <2> QED
    BY <1>1, <1>3, <2>1, <2>2 DEF Brings
<1>4. CASE /\ PoolP!VictimSaved(Caller) \/ PoolP!VictimWriteFails(Caller)
           /\ frames' = [frames EXCEPT ![f].page = PoolP!WithChecksum(@)]
  <2>1. frames[f] # None
    BY <1>4 DEF PoolP!VictimSaved, PoolP!VictimWriteFails, PoolP!Dirty
  <2>2. f \in Frames => frames'[f].page.id = frames[f].page.id
    BY <1>1, <1>4, <2>1, FullFrames DEF PoolP!WithChecksum, PoolP!Page
  <2> QED
    BY <1>1, <1>4, <2>1, <2>2 DEF Brings
<1>5. CASE frames' = [frames EXCEPT ![f] = None]
  BY <1>1, <1>5 DEF Brings
<1>6. CASE /\ PoolP!Install(Caller) /\ Label = "install"
           /\ frames' = [frames EXCEPT ![f] = [page |-> loaded[Caller], dirty |-> FALSE, pin |-> 1]]
  <2>1. loaded[Caller].id = want[Caller]
    BY <1>6 DEF Label, PoolP!CInv, PoolP!Contents, PoolP!LoadedNewest
  <2>2. f \in Frames => frames'[f].page.id = want[Caller]
    BY <1>1, <1>6, <2>1
  <2> QED
    BY <1>1, <1>6, <2>2 DEF Brings
<1> QED
  BY <1>2, <1>3, <1>4, <1>5, <1>6, FrameChanges

LEMMA BringsClear ==
  ASSUME OldClear, base' = base, NEW id, Brings(id), id # None => base <= id.no,
         PoolP!CInv', PoolP!NoneAssumption
  PROVE  OldClear'
PROOF
<1> SUFFICES ASSUME NEW f \in Frames, frames'[f] # None PROVE base <= frames'[f].page.id.no
  BY DEF OldClear
<1>1. frames'[f].page.id # None
  <2>1. PoolP!TypeOK'
    BY DEF PoolP!CInv, PoolP!RInv, PoolP!IInv
  <2>2. frames' \in [Frames -> PoolP!BufferFrame \cup {None}]
    BY <2>1 DEF PoolP!TypeOK, PoolP!SharedTypes
  <2> QED
    BY <2>2 DEF PoolP!BufferFrame, PoolP!Page, PoolP!NoneAssumption
<1> QED
  BY <1>1 DEF Brings, OldClear

LEMMA OldStaysClear ==
  ASSUME Setting, Inv, Inv', OldClear, [Next]_vars
  PROVE  OldClear'
PROOF
<1>1. PoolP!CInv /\ PoolP!CInv' /\ Calls /\ TInv /\ PoolP!NoneAssumption
  BY PoolAssumptions DEF Inv
<1>2. CASE Restart
  <2>1. frames' = [f \in Frames |-> None]
    BY <1>2, SameBegin DEF Restart, PoolP!Restart, PoolP!EmptyFrames
  <2> QED
    BY <2>1 DEF OldClear
<1>3. CASE PoolStep
  <2>1. PoolP!Continue(Caller) /\ base' = base
    BY <1>3, SameContinue DEF PoolStep, own
  <2>2. Label \notin {"flush_next", "flush"}
    BY <1>1, CallingLabel, LabelsAre DEF Calls, Using, Answering, Refusing
  <2>3. Label = "install" => base <= want[Caller].no
    <3> SUFFICES ASSUME Label = "install" PROVE base <= want[Caller].no
      OBVIOUS
    <3>1. Calling /\ asked \in 1 .. Len(Needs)
      BY <1>1 DEF Calls, Using, Calling, Answering, Refusing
    <3>2. CASE Needs[asked] = New
      BY <1>1, <3>1, <3>2, PagesAre DEF Calling, CallingNew, Unread
    <3>3. CASE Needs[asked] # New
      BY <1>1, <3>1, <3>3, GotIs, PagesAre DEF Calling, CallingFor
    <3> QED
      BY <3>2, <3>3
  <2> QED
    BY <1>1, <2>1, <2>2, <2>3, StepBrings, BringsClear
<1>4. CASE UseGuard
  <2>1. PICK h \in Handles : PoolP!WriteGuard(Caller, h) \/ PoolP!DropGuard(Caller, h)
    BY <1>4, SameBegin DEF UseGuard, Held
  <2>2. base' = base
    BY <1>4 DEF UseGuard
  <2>3. DOMAIN frames = Frames
    BY <1>1, PoolTypes
  <2> DEFINE f == guards[Caller][h].frame
  <2>4. Brings(None)
    <3>1. CASE PoolP!WriteGuard(Caller, h)
      <4>1. frames[f] # None /\
            frames' = [frames EXCEPT ![f].page.val = PoolP!Newer(latest[guards[Caller][h].id.no]),
                                     ![f].dirty = TRUE]
        BY <3>1 DEF PoolP!WriteGuard
      <4>2. f \in Frames => frames'[f].page.id = frames[f].page.id
        BY <1>1, <2>3, <4>1, FullFrames DEF PoolP!Page
      <4> QED
        BY <2>3, <4>1, <4>2 DEF Brings
    <3>2. CASE PoolP!DropGuard(Caller, h)
      <4>1. frames' = frames \/ (frames[f] # None /\ frames' = [frames EXCEPT ![f].pin = PoolP!Decremented(@)])
        BY <3>2 DEF PoolP!DropGuard
      <4>2. f \in Frames /\ frames[f] # None => frames'[f].page = frames[f].page
        BY <1>1, <2>3, <4>1, FullFrames
      <4> QED
        BY <2>3, <4>1, <4>2 DEF Brings
    <3> QED
      BY <2>1, <3>1, <3>2
  <2> QED
    BY <1>1, <2>2, <2>4, BringsClear
<1>5. CASE UNCHANGED <<frames, base>>
  BY <1>5 DEF OldClear
<1>6. CASE Ask
  <2>1. frames' = frames
    BY <1>6, AskAsks DEF Asks, PoolP!StartNewPage, PoolP!FetchHit, PoolP!FetchMiss, PoolP!pool
  <2> QED
    BY <1>5, <1>6, <2>1 DEF Ask
<1>7. CASE (\E e \in Inserts : Insert(e)) \/ CallFails \/ TreeStep \/ UNCHANGED vars
  BY <1>5, <1>7, SamePool DEF Insert, CallFails, TreeStep, vars, own
<1> QED
  BY <1>2, <1>3, <1>4, <1>6, <1>7 DEF Next

\* The file changes at the end, and where a frame's page is
LEMMA FileChanges ==
  ASSUME PoolP!CInv, PoolP!Continue(Caller), Label \notin {"flush_next", "flush"},
         NEW p \in PoolP!PageNos, file'[p] # file[p]
  PROVE  p = file_len \/ \E f \in Frames : frames[f] # None /\ p = frames[f].page.id.no
PROOF
<1>1. DOMAIN file = PoolP!PageNos
  BY DEF PoolP!CInv, PoolP!RInv, PoolP!IInv, PoolP!TypeOK, PoolP!SharedTypes
<1>2. Label = "victim" => slot[Caller] \in Frames
  BY DEF PoolP!CInv, PoolP!RInv, PoolP!IInv, PoolP!TypeOK, PoolP!CallTypes, PoolP!WithSlot, Label
<1>3. ASSUME NEW page \in PoolP!Page, NEW v, file' = PoolP!Written([page EXCEPT !.val = v])
      PROVE  p = page.id.no
  <2>1. [page EXCEPT !.val = v].id = page.id
    BY DEF PoolP!Page
  <2> QED
    BY <1>1, <1>3, <2>1 DEF PoolP!Written
<1>4. CASE PoolP!VictimSaved(Caller) \/ PoolP!VictimWriteFails(Caller)
  <2>1. PICK f \in Frames : f = slot[Caller] /\ frames[f] # None
    BY <1>2, <1>4 DEF PoolP!VictimSaved, PoolP!VictimWriteFails, PoolP!Dirty, Label
  <2>2. PICK page : page = PoolP!WithChecksum(frames[f].page)
    OBVIOUS
  <2>3. page \in PoolP!Page /\ page.id = frames[f].page.id
    BY <2>1, <2>2, FullFrames DEF PoolP!WithChecksum, PoolP!Page
  <2>4. \/ file' = file \/ file' = PoolP!Written(page)
        \/ \E v : file' = PoolP!Written([page EXCEPT !.val = v])
    BY <1>4, <2>1, <2>2 DEF PoolP!VictimSaved, PoolP!VictimWriteFails, PoolP!PartlyWritten
  <2>5. file' = PoolP!Written(page) => p = page.id.no
    BY <1>1 DEF PoolP!Written
  <2>6. p = page.id.no
    BY <1>3, <2>3, <2>4, <2>5
  <2> QED
    BY <2>1, <2>3, <2>6
<1>5. CASE PoolP!Allocate(Caller)
  BY <1>1, <1>5 DEF PoolP!Allocate
<1>6. CASE PoolP!PopFree(Caller) \/ PoolP!StartScan(Caller) \/ PoolP!ScanPinned(Caller)
        \/ PoolP!ScanEmpty(Caller) \/ PoolP!ScanVictim(Caller) \/ PoolP!ScanExhausted(Caller)
        \/ PoolP!VictimGone(Caller) \/ PoolP!Unmap(Caller)
  BY <1>6 DEF PoolP!PopFree, PoolP!StartScan, PoolP!ScanPinned, PoolP!ScanEmpty,
    PoolP!ScanVictim, PoolP!ScanExhausted, PoolP!VictimGone, PoolP!Unmap, PoolP!disk
<1>7. CASE PoolP!HitPin(Caller) \/ PoolP!HitTouch(Caller) \/ PoolP!ReadPage(Caller)
        \/ PoolP!Install(Caller) \/ PoolP!LoadFails(Caller) \/ PoolP!Publish(Caller)
        \/ PoolP!PublishTouch(Caller)
  BY <1>7 DEF PoolP!HitPin, PoolP!HitTouch, PoolP!ReadPage, PoolP!Install, PoolP!LoadFails,
    PoolP!Publish, PoolP!PublishTouch, PoolP!disk
<1>8. ~(PoolP!FlushNext(Caller) \/ PoolP!FlushClean(Caller) \/ PoolP!FlushWrite(Caller)
         \/ PoolP!FlushFails(Caller))
  BY DEF PoolP!FlushNext, PoolP!FlushClean, PoolP!FlushWrite, PoolP!FlushFails, Label
<1> QED
  BY <1>3, <1>4, <1>5, <1>6, <1>7, <1>8 DEF PoolP!Continue, PoolP!FindFrame

LEMMA OldKept ==
  ASSUME Setting, Inv, OldClear, [Next]_vars, NEW p \in 0 .. base - 1
  PROVE  file'[p] = file[p]
PROOF
<1>1. PoolP!CInv /\ Calls /\ TInv
  BY DEF Inv
<1>2. p \in PoolP!PageNos /\ p < base /\ base <= count /\ base \in Nat /\ count \in Nat
  BY <1>1, PagesAre DEF PoolP!PageNos
<1>3. CASE PoolStep
  <2> SUFFICES ASSUME file'[p] # file[p] PROVE FALSE
    OBVIOUS
  <2>1. PoolP!Continue(Caller)
    BY <1>3, SameContinue DEF PoolStep
  <2>2. Label \notin {"flush_next", "flush"}
    BY <1>1, CallingLabel, LabelsAre DEF Calls, Using, Answering, Refusing
  <2>3. p = file_len \/ \E f \in Frames : frames[f] # None /\ p = frames[f].page.id.no
    BY <1>1, <1>2, <2>1, <2>2, FileChanges
  <2>4. file_len >= count /\ file_len \in Nat
    BY <1>1, PoolTypes, <1>2
      DEF Calls, Using, Calling, CallingNew, CallingFor, Answering, Refusing
  <2>5. p # file_len
    BY <1>2, <2>4
  <2>6. PICK f \in Frames : frames[f] # None /\ p = frames[f].page.id.no
    BY <2>3, <2>5
  <2> QED
    BY <1>2, <2>6 DEF OldClear
<1>4. CASE Ask
  BY <1>4, AskAsks DEF Asks, PoolP!StartNewPage, PoolP!FetchHit, PoolP!FetchMiss, PoolP!disk
<1>5. CASE UseGuard
  <2>1. PICK h \in Handles : PoolP!WriteGuard(Caller, h) \/ PoolP!DropGuard(Caller, h)
    BY <1>5, SameBegin DEF UseGuard, Held
  <2> QED
    BY <2>1 DEF PoolP!WriteGuard, PoolP!DropGuard, PoolP!disk
<1>6. CASE Restart
  BY <1>6, SameBegin DEF Restart, PoolP!Restart, PoolP!Opened, PoolP!disk
<1>7. CASE (\E e \in Inserts : Insert(e)) \/ CallFails \/ TreeStep \/ UNCHANGED vars
  BY <1>7, SamePool DEF Insert, CallFails, TreeStep, vars
<1> QED
  BY <1>3, <1>4, <1>5, <1>6, <1>7 DEF Next

(***************************************************************************)
(* A tree begun by BTree::new on a file that is there already never writes *)
(* to the pages an earlier tree has left in it, whatever is evicted.       *)
(***************************************************************************)
THEOREM OldPagesAlwaysLeftAlone == ASSUME Setting PROVE Spec => OldPagesLeftAlone
PROOF
<1>1. Setting => (Init => OldClear)
  <2>1. Init => frames = [f \in Frames |-> None]
    BY SameBegin DEF Init, PoolP!Init, PoolP!EmptyFrames
  <2> QED
    BY <2>1 DEF OldClear
<1>2. Setting => (Inv /\ Inv' /\ OldClear /\ [Next]_vars => OldClear')
  BY OldStaysClear
<1>3. Setting => (Inv /\ OldClear /\ [Next]_vars => [\A p \in 0 .. base - 1 : file'[p] = file[p]]_vars)
  BY OldKept
<1> QED
  BY <1>1, <1>2, <1>3, InvHolds, PTL DEF Spec, OldPagesLeftAlone

-----------------------------------------------------------------------------
(***************************************************************************)
(* Which frames a call may take: the ones never used, those in the order,  *)
(* those set aside in a scan, and the call's own.  A frame in none of them *)
(* is lost, to a call that has failed.                                     *)
(***************************************************************************)
Owns == {"victim", "unmap", "load", "install", "publish", "publish_lru"}

Busy == IF Label \in Owns THEN {slot[Caller]} ELSE {}
Lost == Frames \ (free_list \cup PoolP!ToSet(lru) \cup PoolP!ToSet(candidates[Caller]) \cup Busy)

\* A scan looks at frames in use, and sets the pinned ones aside
Lists ==
  /\ \A f \in PoolP!ToSet(lru) : frames[f] # None
  /\ \A f \in PoolP!ToSet(candidates[Caller]) : frames[f] # None /\ frames[f].pin > 0
  /\ Label = "scan" => free_list = {}
  /\ Label # "scan" => candidates[Caller] = <<>>

\* The lists and the labels of the caller
LEMMA ListTypes ==
  ASSUME PoolP!CInv
  PROVE  /\ lru \in Seq(Frames) /\ candidates[Caller] \in Seq(Frames)
         /\ DOMAIN candidates = {Caller} /\ DOMAIN slot = {Caller} /\ DOMAIN pool_pc = {Caller}
         /\ DOMAIN frames = Frames
         /\ Label \in {"hit_lru", "publish_lru"} \cup Owns => slot[Caller] \in Frames
         /\ Label \in {"hit_lru", "publish_lru"} => frames[slot[Caller]] # None
         /\ Label \in Owns \ {"publish_lru"} => slot[Caller] \notin PoolP!ToSet(lru)
PROOF
<1>1. PoolP!SharedTypes /\ PoolP!CallTypes
  BY DEF PoolP!CInv, PoolP!RInv, PoolP!IInv, PoolP!TypeOK
<1>2. Label \in {"hit_lru", "publish_lru"} \cup Owns => slot[Caller] \in Frames
  BY <1>1 DEF PoolP!CallTypes, PoolP!WithSlot, Label, Owns
<1>3. Label \in {"hit_lru", "publish_lru"} => frames[slot[Caller]] # None
  <2> SUFFICES ASSUME Label \in {"hit_lru", "publish_lru"} PROVE frames[slot[Caller]] # None
    OBVIOUS
  <2>1. want[Caller] \in PoolP!PageIds
    BY <1>1 DEF PoolP!CallTypes, PoolP!WithWanted, Label
  <2>2. page_table[want[Caller]] = slot[Caller]
    BY DEF PoolP!CInv, PoolP!Structure, PoolP!InHand, PoolP!Knows, Label
  <2>3. slot[Caller] # None
    BY <1>2, TreeOnPoolAssumption
  <2> QED
    BY <2>1, <2>2, <2>3 DEF PoolP!CInv, PoolP!Structure, PoolP!TableMatchesFrames
<1>4. Label \in Owns \ {"publish_lru"} => slot[Caller] \notin PoolP!ToSet(lru)
  BY DEF Owns, Label, PoolP!CInv, PoolP!Structure, PoolP!NotListed, PoolP!Owning
<1> QED
  BY <1>1, <1>2, <1>3, <1>4 DEF PoolP!SharedTypes, PoolP!CallTypes

LEMMA FrontAndLast ==
  ASSUME Setting, NEW F, NEW s \in Seq(F), s # <<>>
  PROVE  PoolP!ToSet(s) = PoolP!ToSet(PoolP!Front(s)) \cup {PoolP!Last(s)}
PROOF
<1>1. /\ PoolP!Last(s) \in PoolP!ToSet(s) /\ PoolP!Front(s) \in Seq(F)
      /\ PoolP!ToSet(PoolP!Front(s)) \subseteq PoolP!ToSet(s)
      /\ Len(PoolP!Front(s)) = Len(s) - 1
      /\ \A i \in 1 .. Len(s) - 1 : PoolP!Front(s)[i] = s[i]
  BY PoolAssumptions, PoolP!FrontLast
<1>2. PICK r, n : r = PoolP!Front(s) /\ n = Len(s)
  OBVIOUS
<1>3. PoolP!Last(s) = s[n]
  BY <1>2 DEF PoolP!Last
<1>4. DOMAIN s = 1 .. n /\ n \in Nat
  BY <1>2
<1>5. DOMAIN r = 1 .. Len(r) /\ Len(r) = n - 1 /\ \A i \in 1 .. n - 1 : r[i] = s[i]
  <2>1. r \in Seq(F) /\ Len(r) = n - 1
    BY <1>1, <1>2
  <2>2. \A i \in 1 .. n - 1 : r[i] = s[i]
    BY <1>1, <1>2, Zenon
  <2> QED
    BY <2>1, <2>2
<1>6. ASSUME NEW i \in 1 .. n
      PROVE  s[i] = PoolP!Last(s) \/ s[i] \in PoolP!ToSet(r)
  <2>1. CASE i = n
    BY <1>3, <2>1
  <2>2. CASE i # n
    <3>1. i \in 1 .. n - 1
      BY <1>4, <2>2
    <3>2. i \in DOMAIN r /\ r[i] = s[i]
      BY <1>5, <3>1
    <3> QED
      BY <3>2 DEF PoolP!ToSet
  <2> QED
    BY <2>1, <2>2
<1>7. \A x \in PoolP!ToSet(s) : x = PoolP!Last(s) \/ x \in PoolP!ToSet(r)
  BY <1>4, <1>6 DEF PoolP!ToSet
<1> QED
  BY <1>1, <1>2, <1>7

\* Steps that move no frame from one list to another
LEMMA StillListed ==
  ASSUME PoolP!CInv, Lists, UNCHANGED <<lru, candidates, slot, free_list>>,
         Label # "scan", Label' # "scan", Label \in Owns => Label' \in Owns,
         \A f \in Frames : frames'[f] = None => frames[f] = None \/ f \notin PoolP!ToSet(lru)
  PROVE  Lists' /\ Lost' \subseteq Lost
PROOF
<1>1. candidates[Caller] = <<>> /\ PoolP!ToSet(candidates[Caller]) = {}
  <2>1. candidates[Caller] = <<>>
    BY DEF Lists
  <2>2. PoolP!ToSet(<<>>) = {}
    BY DEF PoolP!ToSet
  <2> QED
    BY <2>1, <2>2
<1>2. PoolP!ToSet(lru) \subseteq Frames
  <2>1. DOMAIN lru = 1 .. Len(lru) /\ \A i \in 1 .. Len(lru) : lru[i] \in Frames
    BY ListTypes
  <2> QED
    BY <2>1 DEF PoolP!ToSet
<1>3. PoolP!ToSet(lru)' = PoolP!ToSet(lru) /\ PoolP!ToSet(candidates[Caller])' = {}
  BY <1>1 DEF PoolP!ToSet
<1>4. Lists'
  BY <1>1, <1>2, <1>3 DEF Lists
<1>5. Busy \subseteq Busy'
  BY DEF Busy
<1> QED
  BY <1>1, <1>3, <1>4, <1>5 DEF Lost

\* A call that ends well makes its frame the most recent one
LEMMA TouchListed ==
  ASSUME Setting, PoolP!CInv, Lists, Label \in {"hit_lru", "publish_lru"}, Label' = "idle",
         lru' = PoolP!Touched(lru, slot[Caller]), UNCHANGED <<candidates, free_list, frames>>
  PROVE  Lists' /\ Lost' \subseteq Lost
PROOF
<1>1. PICK l, f : l = lru /\ f = slot[Caller]
  OBVIOUS
<1>2. l \in Seq(Frames) /\ f \in Frames /\ frames[f] # None
  BY <1>1, ListTypes
<1>3. PoolP!ToSet(PoolP!Touched(l, f)) = PoolP!ToSet(l) \cup {f}
  BY <1>2, PoolAssumptions, PoolP!TouchedFrames, PoolP!TouchedKeeps
<1>4. PoolP!ToSet(lru)' = PoolP!ToSet(lru) \cup {f}
  BY <1>1, <1>3 DEF PoolP!ToSet
<1>5. candidates[Caller] = <<>> /\ PoolP!ToSet(candidates[Caller])' = PoolP!ToSet(candidates[Caller])
  BY DEF Lists, PoolP!ToSet
<1>6. PoolP!ToSet(candidates[Caller]) = {}
  <2>1. PoolP!ToSet(<<>>) = {}
    BY DEF PoolP!ToSet
  <2> QED
    BY <1>5, <2>1
<1>7. Lists'
  BY <1>2, <1>4, <1>5, <1>6 DEF Lists
<1>8. Busy \subseteq {f}
  BY <1>1 DEF Busy
<1> QED
  BY <1>4, <1>5, <1>7, <1>8 DEF Lost

\* A frame is taken from where it was
LEMMA TakeListed ==
  ASSUME Setting, PoolP!CInv, Lists,
         PoolP!PopFree(Caller) \/ PoolP!StartScan(Caller) \/ PoolP!ScanPinned(Caller)
           \/ PoolP!ScanEmpty(Caller) \/ PoolP!ScanVictim(Caller) \/ PoolP!ScanExhausted(Caller)
  PROVE  Lists' /\ Lost' \subseteq Lost
PROOF
<1>1. PICK l, c : l = lru /\ c = candidates[Caller]
  OBVIOUS
<1>2. /\ l \in Seq(Frames) /\ c \in Seq(Frames)
      /\ DOMAIN candidates = {Caller} /\ DOMAIN slot = {Caller} /\ DOMAIN pool_pc = {Caller}
      /\ PoolP!ToSet(<<>>) = {}
  BY <1>1, ListTypes DEF PoolP!ToSet
<1>3. /\ PoolP!ToSet(lru) = PoolP!ToSet(l) /\ PoolP!ToSet(candidates[Caller]) = PoolP!ToSet(c)
      /\ PoolP!ToSet(lru)' = PoolP!ToSet(lru')
      /\ PoolP!ToSet(candidates[Caller])' = PoolP!ToSet(candidates'[Caller])
  BY <1>1 DEF PoolP!ToSet
<1>4. /\ \A f \in PoolP!ToSet(l) : frames[f] # None
      /\ \A f \in PoolP!ToSet(c) : frames[f] # None /\ frames[f].pin > 0
  BY <1>3 DEF Lists
<1>5. CASE PoolP!PopFree(Caller)
  <2>1. /\ Label = "get_free" /\ Label' = "load" /\ UNCHANGED <<lru, candidates, frames>>
        /\ c = <<>>
    BY <1>1, <1>2, <1>5 DEF PoolP!PopFree, PoolP!scratch, Label, Lists
  <2>2. PICK f \in free_list : free_list' = free_list \ {f} /\ slot' = [slot EXCEPT ![Caller] = f]
    BY <1>5 DEF PoolP!PopFree
  <2>3. Busy' = {f}
    BY <1>2, <2>1, <2>2 DEF Busy, Owns
  <2>4. Lists'
    BY <1>1, <1>2, <1>3, <1>4, <2>1 DEF Lists
  <2>5. Busy = {}
    BY <2>1 DEF Busy, Owns
  <2>6. Lost' \subseteq Lost
    BY <1>1, <1>3, <2>1, <2>2, <2>3, <2>5 DEF Lost
  <2> QED
    BY <2>4, <2>6
<1>6. CASE PoolP!StartScan(Caller)
  <2>1. /\ Label = "get_free" /\ Label' = "scan" /\ free_list = {} /\ c = <<>>
        /\ UNCHANGED <<lru, candidates, frames, free_list>>
    BY <1>1, <1>2, <1>6 DEF PoolP!StartScan, PoolP!scratch, PoolP!pool, PoolP!index, PoolP!Goto,
      Label, Lists
  <2>2. Busy = {} /\ Busy' = {}
    BY <2>1 DEF Busy, Owns
  <2>3. Lists'
    BY <1>1, <1>2, <1>3, <1>4, <2>1 DEF Lists
  <2>4. Lost' \subseteq Lost
    BY <1>1, <1>3, <2>1, <2>2 DEF Lost
  <2> QED
    BY <2>3, <2>4
<1>7. ASSUME l # <<>>
      PROVE  /\ PoolP!ToSet(l) = PoolP!ToSet(PoolP!Front(l)) \cup {PoolP!Last(l)}
             /\ PoolP!Front(l) \in Seq(Frames)
             /\ PoolP!Last(l) \in Frames /\ frames[PoolP!Last(l)] # None
  <2>1. PoolP!ToSet(l) = PoolP!ToSet(PoolP!Front(l)) \cup {PoolP!Last(l)}
    BY <1>2, <1>7, FrontAndLast
  <2>2. PoolP!Front(l) \in Seq(Frames) /\ PoolP!Last(l) \in Frames
    BY <1>2, <1>7, PoolAssumptions, PoolP!FrontLast
  <2> QED
    BY <1>4, <2>1, <2>2
<1>8. CASE PoolP!ScanPinned(Caller)
  <2> DEFINE f == PoolP!Last(l)
  <2>1. /\ Label = "scan" /\ Label' = "scan" /\ l # <<>> /\ frames[f].pin > 0
        /\ UNCHANGED <<frames, free_list>>
        /\ lru' = PoolP!Front(l) /\ candidates' = [candidates EXCEPT ![Caller] = <<f>> \o c]
    BY <1>1, <1>8 DEF PoolP!ScanPinned, PoolP!Scanning, PoolP!call, Label
  <2>2. PoolP!ToSet(l) = PoolP!ToSet(PoolP!Front(l)) \cup {f} /\ f \in Frames /\ frames[f] # None
    BY <1>7, <2>1
  <2>3. <<f>> \in Seq(Frames) /\ PoolP!ToSet(<<f>>) = {f}
    BY <2>2 DEF PoolP!ToSet
  <2>4. PoolP!ToSet(<<f>> \o c) = {f} \cup PoolP!ToSet(c)
    <3>1. PICK s : s = <<f>>
      OBVIOUS
    <3>2. s \in Seq(Frames) /\ PoolP!ToSet(s) = {f}
      BY <2>3, <3>1
    <3>3. PoolP!ToSet(s \o c) = PoolP!ToSet(s) \cup PoolP!ToSet(c)
      BY <1>2, <3>2, PoolAssumptions, PoolP!ConcatFrames
    <3> QED
      BY <3>1, <3>2, <3>3
  <2>5. candidates'[Caller] = <<f>> \o c
    BY <1>2, <2>1
  <2>6. Busy = {} /\ Busy' = {}
    BY <2>1 DEF Busy, Owns
  <2>7. /\ PoolP!ToSet(lru)' = PoolP!ToSet(PoolP!Front(l))
        /\ PoolP!ToSet(candidates[Caller])' = {f} \cup PoolP!ToSet(c)
    BY <1>3, <2>1, <2>4, <2>5
  <2> HIDE DEF f
  <2>8. Lists'
    BY <1>4, <2>1, <2>2, <2>7 DEF Lists
  <2>9. Lost' \subseteq Lost
    BY <1>3, <2>1, <2>2, <2>6, <2>7 DEF Lost
  <2> QED
    BY <2>8, <2>9
<1>9. CASE PoolP!ScanEmpty(Caller)
  BY <1>1, <1>7, <1>9 DEF PoolP!ScanEmpty, PoolP!Scanning
<1>10. CASE PoolP!ScanVictim(Caller)
  <2> DEFINE f == PoolP!Last(l)
  <2>1. /\ Label = "scan" /\ Label' = "victim" /\ l # <<>>
        /\ UNCHANGED <<frames, free_list>> /\ slot' = [slot EXCEPT ![Caller] = f]
        /\ lru' = c \o PoolP!Front(l) /\ candidates' = [candidates EXCEPT ![Caller] = <<>>]
    BY <1>1, <1>2, <1>10 DEF PoolP!ScanVictim, PoolP!Scanning, Label
  <2>2. PoolP!ToSet(l) = PoolP!ToSet(PoolP!Front(l)) \cup {f} /\ PoolP!Front(l) \in Seq(Frames)
    BY <1>7, <2>1
  <2>3. PoolP!ToSet(c \o PoolP!Front(l)) = PoolP!ToSet(c) \cup PoolP!ToSet(PoolP!Front(l))
    BY <1>2, <2>2, PoolAssumptions, PoolP!ConcatFrames
  <2>4. candidates'[Caller] = <<>> /\ slot'[Caller] = f
    BY <1>2, <2>1
  <2>5. Busy = {} /\ Busy' = {f}
    BY <2>1, <2>4 DEF Busy, Owns
  <2>6. /\ PoolP!ToSet(lru)' = PoolP!ToSet(c) \cup PoolP!ToSet(PoolP!Front(l))
        /\ PoolP!ToSet(candidates[Caller])' = {}
    BY <1>2, <1>3, <2>1, <2>3, <2>4
  <2> HIDE DEF f
  <2>7. Lists'
    BY <1>4, <2>1, <2>2, <2>4, <2>6 DEF Lists
  <2>8. Lost' \subseteq Lost
    BY <1>3, <2>1, <2>2, <2>5, <2>6 DEF Lost
  <2> QED
    BY <2>7, <2>8
<1>11. CASE PoolP!ScanExhausted(Caller)
  <2>1. /\ Label = "scan" /\ Label' = "idle" /\ l = <<>>
        /\ UNCHANGED <<frames, free_list>>
        /\ lru' = c /\ candidates' = [candidates EXCEPT ![Caller] = <<>>]
    BY <1>1, <1>2, <1>11 DEF PoolP!ScanExhausted, PoolP!Return, Label
  <2>2. candidates'[Caller] = <<>>
    BY <1>2, <2>1
  <2>3. Busy = {} /\ Busy' = {}
    BY <2>1 DEF Busy, Owns
  <2>4. PoolP!ToSet(lru)' = PoolP!ToSet(c) /\ PoolP!ToSet(candidates[Caller])' = {}
    BY <1>2, <1>3, <2>1, <2>2
  <2>5. Lists'
    BY <1>4, <2>1, <2>2, <2>4 DEF Lists
  <2>6. Lost' \subseteq Lost
    BY <1>2, <1>3, <2>1, <2>3, <2>4 DEF Lost
  <2> QED
    BY <2>5, <2>6
<1> QED
  BY <1>5, <1>6, <1>8, <1>9, <1>10, <1>11

\* A step of a call loses a frame only if the call fails
LEMMA StepLoses ==
  ASSUME Setting, PoolP!CInv, Lists, PoolP!Continue(Caller), Label \notin {"flush_next", "flush"},
         Label' # "panicked"
  PROVE  /\ Lists'
         /\ Lost' \subseteq Lost \/ (FailsCall /\ Lost' \subseteq Lost \cup {slot[Caller]})
PROOF
<1>1. DOMAIN pool_pc = {Caller} /\ DOMAIN frames = Frames /\ DOMAIN slot = {Caller}
  BY ListTypes
<1>2. CASE PoolP!HitPin(Caller)
  <2>1. /\ UNCHANGED <<lru, candidates, slot, free_list>> /\ Label = "hit_frame" /\ Label' = "hit_lru"
        /\ \A f \in Frames : frames'[f] = None => frames[f] = None \/ f \notin PoolP!ToSet(lru)
    <3>1. /\ UNCHANGED <<lru, candidates, slot, free_list>> /\ Label = "hit_frame" /\ Label' = "hit_lru"
          /\ frames[slot[Caller]] # None
          /\ frames' = [frames EXCEPT ![slot[Caller]].pin = PoolP!Incremented(@)]
      BY <1>1, <1>2 DEF PoolP!HitPin, PoolP!index, PoolP!scratch, PoolP!Goto, PoolP!Panic, Label
    <3>2. ASSUME slot[Caller] \in Frames
          PROVE  frames'[slot[Caller]] # None
      <4>1. frames[slot[Caller]] \in PoolP!BufferFrame
        BY <3>1, <3>2, PoolTypes
      <4>2. frames'[slot[Caller]] = [frames[slot[Caller]] EXCEPT !.pin = PoolP!Incremented(@)]
        BY <1>1, <3>1, <3>2
      <4>3. frames'[slot[Caller]] \in PoolP!BufferFrame
        BY <4>1, <4>2, PoolAssumptions DEF PoolP!BufferFrame, PoolP!Incremented, PoolP!ConstantsAssumption
      <4> QED
        BY <4>3, PoolAssumptions DEF PoolP!NoneAssumption
    <3> QED
      BY <1>1, <3>1, <3>2
  <2>2. Label \notin Owns /\ Label # "scan" /\ Label' # "scan"
    BY <2>1 DEF Owns
  <2> QED
    BY <2>1, <2>2, StillListed
<1>3. CASE PoolP!VictimGone(Caller) \/ PoolP!ReadPage(Caller) \/ PoolP!Allocate(Caller)
        \/ PoolP!Publish(Caller)
  <2>1. /\ UNCHANGED <<lru, candidates, slot, free_list, frames>>
        /\ Label \in Owns /\ Label' \in Owns
    BY <1>1, <1>3 DEF PoolP!VictimGone, PoolP!ReadPage, PoolP!Allocate, PoolP!Publish,
      PoolP!pool, PoolP!index, PoolP!scratch, PoolP!Goto, Label, Owns
  <2> QED
    BY <2>1, StillListed DEF Owns
<1>4. CASE PoolP!VictimSaved(Caller) \/ PoolP!Unmap(Caller) \/ PoolP!Install(Caller)
  <2>1. /\ UNCHANGED <<lru, candidates, slot, free_list>>
        /\ Label \in Owns \ {"publish_lru"} /\ Label' \in Owns
    BY <1>1, <1>4 DEF PoolP!VictimSaved, PoolP!Unmap, PoolP!Install, PoolP!index, PoolP!scratch,
      PoolP!Goto, Label, Owns
  <2>2. \A f \in Frames : f # slot[Caller] => frames'[f] = frames[f]
    BY <1>1, <1>4 DEF PoolP!VictimSaved, PoolP!Unmap, PoolP!Install
  <2>3. slot[Caller] \notin PoolP!ToSet(lru)
    BY <2>1, ListTypes
  <2> QED
    BY <2>1, <2>2, <2>3, StillListed DEF Owns
<1>5. CASE PoolP!HitTouch(Caller) \/ PoolP!PublishTouch(Caller)
  <2>1. /\ Label \in {"hit_lru", "publish_lru"} /\ Label' = "idle"
        /\ lru' = PoolP!Touched(lru, slot[Caller]) /\ UNCHANGED <<candidates, free_list, frames>>
    BY <1>1, <1>5 DEF PoolP!HitTouch, PoolP!PublishTouch, PoolP!scratch, PoolP!ReturnGuard,
      PoolP!Return, Label
  <2> QED
    BY <2>1, TouchListed
<1>6. CASE PoolP!PopFree(Caller) \/ PoolP!StartScan(Caller) \/ PoolP!ScanPinned(Caller)
        \/ PoolP!ScanEmpty(Caller) \/ PoolP!ScanVictim(Caller) \/ PoolP!ScanExhausted(Caller)
  BY <1>6, TakeListed
<1>7. CASE PoolP!VictimWriteFails(Caller) \/ PoolP!LoadFails(Caller)
  <2>1. /\ UNCHANGED <<lru, candidates, free_list>>
        /\ Label \in Owns \ {"publish_lru"} /\ Label' = "idle"
    BY <1>1, <1>7 DEF PoolP!VictimWriteFails, PoolP!LoadFails, PoolP!pool, PoolP!index,
      PoolP!scratch, PoolP!Return, Label, Owns
  <2>2. FailsCall
    BY <1>1, <1>7 DEF PoolP!VictimWriteFails, PoolP!LoadFails, PoolP!Return,
      PoolP!disk, PoolP!caller, FailsCall, Unread, Label
  <2>3. \A f \in Frames : f # slot[Caller] => frames'[f] = frames[f]
    BY <1>1, <1>7 DEF PoolP!VictimWriteFails, PoolP!LoadFails, PoolP!pool
  <2>4. slot[Caller] \notin PoolP!ToSet(lru) /\ PoolP!ToSet(lru) \subseteq Frames
    <3>1. DOMAIN lru = 1 .. Len(lru) /\ \A i \in 1 .. Len(lru) : lru[i] \in Frames
      BY ListTypes
    <3>2. PoolP!ToSet(lru) \subseteq Frames
      BY <3>1 DEF PoolP!ToSet
    <3> QED
      BY <2>1, <3>2, ListTypes
  <2>5. candidates[Caller] = <<>> /\ PoolP!ToSet(candidates[Caller])' = {}
    <3>1. candidates[Caller] = <<>> /\ candidates' = candidates
      BY <2>1 DEF Lists, Owns
    <3>2. PoolP!ToSet(<<>>) = {}
      BY DEF PoolP!ToSet
    <3>3. PoolP!ToSet(candidates[Caller])' = PoolP!ToSet(<<>>)
      BY <3>1 DEF PoolP!ToSet
    <3> QED
      BY <3>1, <3>2, <3>3
  <2>6. PoolP!ToSet(lru)' = PoolP!ToSet(lru) /\ PoolP!ToSet(candidates[Caller]) = {}
    BY <2>1, <2>5 DEF PoolP!ToSet
  <2>7. Lists'
    BY <2>1, <2>3, <2>4, <2>5, <2>6 DEF Lists
  <2>8. Busy = {slot[Caller]}
    BY <2>1 DEF Busy
  <2>9. Lost' \subseteq Lost \cup {slot[Caller]}
    BY <2>1, <2>6, <2>8 DEF Lost
  <2> QED
    BY <2>2, <2>7, <2>9
<1>8. ~(PoolP!FlushNext(Caller) \/ PoolP!FlushClean(Caller) \/ PoolP!FlushWrite(Caller)
         \/ PoolP!FlushFails(Caller))
  BY DEF PoolP!FlushNext, PoolP!FlushClean, PoolP!FlushWrite, PoolP!FlushFails, Label
<1> QED
  BY <1>2, <1>3, <1>4, <1>5, <1>6, <1>7, <1>8 DEF PoolP!Continue, PoolP!FindFrame

-----------------------------------------------------------------------------
(***************************************************************************)
(* There are no more lost frames than calls that have failed, the last one *)
(* perhaps not counted yet.                                                *)
(***************************************************************************)
FewLost ==
  /\ failures \in Nat
  /\ \/ Cardinality(Lost) <= failures
     \/ Refusing /\ Cardinality(Lost) <= failures + 1

LEMMA NoMoreLost ==
  ASSUME Setting, NEW S, S \subseteq Frames, NEW T, T \subseteq S
  PROVE  /\ IsFiniteSet(S) /\ Cardinality(S) \in Nat /\ Cardinality(T) \in Nat
         /\ Cardinality(T) <= Cardinality(S)
PROOF
<1>1. IsFiniteSet(S)
  BY FS_Subset DEF Setting
<1> QED
  BY <1>1, FS_Subset, FS_CardinalityType

LEMMA OneMoreLost ==
  ASSUME Setting, NEW S, S \subseteq Frames, NEW x, NEW T, T \subseteq S \cup {x}
  PROVE  Cardinality(S) \in Nat /\ Cardinality(T) \in Nat /\ Cardinality(T) <= Cardinality(S) + 1
PROOF
<1>1. IsFiniteSet(S) /\ Cardinality(S) \in Nat
  BY NoMoreLost
<1>2. IsFiniteSet(S \cup {x}) /\ Cardinality(S \cup {x}) <= Cardinality(S) + 1
      /\ Cardinality(S \cup {x}) \in Nat
  BY <1>1, FS_AddElement, FS_CardinalityType
<1>3. Cardinality(T) \in Nat /\ Cardinality(T) <= Cardinality(S \cup {x})
  BY <1>2, FS_Subset, FS_CardinalityType
<1> QED
  BY <1>1, <1>2, <1>3

\* What moves no frame
LEMMA SameLists ==
  ASSUME Lists, UNCHANGED <<lru, candidates, slot, free_list>>, Label = "idle", Label' \notin Owns \cup {"scan"},
         \A f \in Frames : frames[f] # None => frames'[f] # None, PoolP!CInv
  PROVE  Lists' /\ Lost' = Lost
PROOF
<1>1. /\ PoolP!ToSet(lru)' = PoolP!ToSet(lru)
      /\ PoolP!ToSet(candidates[Caller])' = PoolP!ToSet(candidates[Caller])
  BY DEF PoolP!ToSet
<1>2. candidates[Caller] = <<>> /\ PoolP!ToSet(candidates[Caller]) = {}
  <2>1. candidates[Caller] = <<>>
    BY DEF Lists
  <2>2. PoolP!ToSet(<<>>) = {}
    BY DEF PoolP!ToSet
  <2> QED
    BY <2>1, <2>2
<1>3. PoolP!ToSet(lru) \subseteq Frames
  <2>1. DOMAIN lru = 1 .. Len(lru) /\ \A i \in 1 .. Len(lru) : lru[i] \in Frames
    BY ListTypes
  <2> QED
    BY <2>1 DEF PoolP!ToSet
<1>4. Busy = {} /\ Busy' = {}
  BY DEF Busy, Owns
<1> QED
  BY <1>1, <1>2, <1>3, <1>4 DEF Lists, Lost

LEMMA UnchangedLists ==
  ASSUME Lists, UNCHANGED pool
  PROVE  Lists' /\ Lost' = Lost
PROOF
<1>1. UNCHANGED <<lru, candidates, slot, free_list, frames>> /\ Label' = Label
  BY DEF pool, Label
<1>2. /\ PoolP!ToSet(lru)' = PoolP!ToSet(lru)
      /\ PoolP!ToSet(candidates[Caller])' = PoolP!ToSet(candidates[Caller])
  BY <1>1 DEF PoolP!ToSet
<1>3. Busy' = Busy
  BY <1>1 DEF Busy
<1> QED
  BY <1>1, <1>2, <1>3 DEF Lists, Lost

\* Using a guard moves no frame
LEMMA UseGuardLists ==
  ASSUME Setting, Inv, PoolP!CInv', Lists, UseGuard
  PROVE  Lists' /\ Lost' = Lost
PROOF
<1>1. PICK h \in Handles : PoolP!WriteGuard(Caller, h) \/ PoolP!DropGuard(Caller, h)
  BY SameBegin DEF UseGuard, Held
<1>2. /\ Label = "idle" /\ DOMAIN frames = Frames /\ PoolP!CInv
      /\ ~PoolP!Panic(Caller)
  BY <1>1, PoolTypes DEF PoolP!WriteGuard, PoolP!DropGuard, Label, Inv, PoolP!Panic, PoolP!CInv,
    PoolP!Running
<1>3. UNCHANGED <<lru, candidates, slot, free_list>> /\ Label' = Label
  BY <1>1, <1>2 DEF PoolP!WriteGuard, PoolP!DropGuard, PoolP!index, PoolP!call, PoolP!scratch,
    Label
<1>4. frames' \in [Frames -> PoolP!BufferFrame \cup {None}]
  <2>1. PoolP!TypeOK'
    BY DEF PoolP!CInv, PoolP!RInv, PoolP!IInv
  <2> QED
    BY <2>1 DEF PoolP!TypeOK, PoolP!SharedTypes
<1>5. ASSUME NEW f \in Frames, frames[f] # None
      PROVE  frames'[f] # None
  <2> DEFINE k == guards[Caller][h].frame
  <2>1. CASE f # k
    <3>1. frames'[f] = frames[f]
      BY <1>1, <1>2, <2>1 DEF PoolP!WriteGuard, PoolP!DropGuard
    <3> QED
      BY <1>5, <3>1
  <2>2. CASE f = k /\ PoolP!WriteGuard(Caller, h)
    <3>1. frames' = [frames EXCEPT ![k].page.val = PoolP!Newer(latest[guards[Caller][h].id.no]),
                                   ![k].dirty = TRUE]
      BY <2>2 DEF PoolP!WriteGuard
    <3>2. frames'[f] = [[frames[f] EXCEPT !.page.val = PoolP!Newer(latest[guards[Caller][h].id.no])]
                          EXCEPT !.dirty = TRUE]
      BY <1>2, <2>2, <3>1
    <3>3. frames[f] \in PoolP!BufferFrame
      BY <1>2, <1>5, PoolTypes
    <3>4. latest[guards[Caller][h].id.no] \in Int
      <4>1. guards[Caller][h] \in PoolP!PageGuard
        BY <1>2, <2>2, PoolTypes DEF PoolP!WriteGuard
      <4> QED
        BY <1>2, <4>1, PoolTypes DEF PoolP!PageGuard, PoolP!PageIds
    <3>5. PICK b, v : b = frames[f] /\ v = PoolP!Newer(latest[guards[Caller][h].id.no])
      OBVIOUS
    <3>6. b \in PoolP!BufferFrame /\ v \in Int
      BY <3>3, <3>4, <3>5 DEF PoolP!Newer
    <3>7. \A x \in PoolP!BufferFrame : \A n \in Int :
            [x EXCEPT !.page.val = n, !.dirty = TRUE] \in PoolP!BufferFrame
      BY PoolAssumptions, PoolP!Types
    <3>8. frames'[f] \in PoolP!BufferFrame
      BY <3>2, <3>5, <3>6, <3>7
    <3> QED
      BY <3>8, PoolAssumptions DEF PoolP!NoneAssumption
  <2>3. CASE f = k /\ PoolP!DropGuard(Caller, h)
    <3>1. frames' = [frames EXCEPT ![k].pin = PoolP!Decremented(@)]
      BY <1>2, <1>5, <2>3 DEF PoolP!DropGuard
    <3>2. frames'[f] = [frames[f] EXCEPT !.pin = PoolP!Decremented(@)]
      BY <1>2, <2>3, <3>1
    <3>3. frames[f] \in PoolP!BufferFrame
      BY <1>2, <1>5, PoolTypes
    <3>4. frames'[f] \in PoolP!BufferFrame
      BY <3>2, <3>3, PoolAssumptions DEF PoolP!BufferFrame, PoolP!Decremented, PoolP!ConstantsAssumption
    <3> QED
      BY <3>4, PoolAssumptions DEF PoolP!NoneAssumption
  <2> QED
    BY <1>1, <2>1, <2>2, <2>3
<1> QED
  BY <1>2, <1>3, <1>5, SameLists DEF Owns

LEMMA AskLists ==
  ASSUME Setting, Inv, Lists, Ask
  PROVE  Lists' /\ Lost' = Lost
PROOF
<1>1. Asks /\ PoolP!CInv
  BY AskAsks DEF Inv
<1>2. Label = "idle"
  BY DEF Ask, Answered, Label
<1>3. UNCHANGED <<lru, candidates, free_list, frames>>
  BY <1>1 DEF Asks, PoolP!StartNewPage, PoolP!FetchHit, PoolP!FetchMiss, PoolP!pool, PoolP!index,
    PoolP!scratch
<1>4. Label' \in {"get_free", "hit_frame"}
  BY <1>1, ListTypes DEF Asks, PoolP!StartNewPage, PoolP!FetchHit, PoolP!FetchMiss, PoolP!Goto, Label
<1>5. Busy = {} /\ Busy' = {}
  BY <1>2, <1>4 DEF Busy, Owns
<1>6. /\ PoolP!ToSet(lru)' = PoolP!ToSet(lru)
      /\ PoolP!ToSet(candidates[Caller])' = PoolP!ToSet(candidates[Caller])
  BY <1>3 DEF PoolP!ToSet
<1> QED
  BY <1>2, <1>3, <1>4, <1>5, <1>6 DEF Lists, Lost

LEMMA FreshLists ==
  ASSUME free_list = Frames, lru = <<>>, candidates[Caller] = <<>>, Label = "idle"
  PROVE  Lists /\ Lost = {}
PROOF
<1>1. PoolP!ToSet(<<>>) = {}
  BY DEF PoolP!ToSet
<1> QED
  BY <1>1 DEF Lists, Lost

Lending == Lists /\ FewLost

LEMMA LendingBegins == ASSUME Init PROVE Lending
PROOF
<1>1. PoolP!Init /\ failures = 0
  BY SameBegin DEF Init
<1>2. free_list = Frames /\ lru = <<>> /\ candidates[Caller] = <<>> /\ Label = "idle"
  BY <1>1 DEF PoolP!Init, Label
<1>3. Cardinality(Lost) = 0
  BY <1>2, FreshLists, FS_EmptySet
<1> QED
  BY <1>1, <1>2, <1>3, FreshLists DEF Lending, FewLost

LEMMA LendingNext ==
  ASSUME Setting, Inv, Inv', Lending, [Next]_vars
  PROVE  Lending'
PROOF
<1> USE DEF Lending
<1>1. PoolP!CInv /\ PoolP!CInv' /\ TInv /\ Calls /\ Texts
  BY DEF Inv
<1>2. PICK S : S = Lost
  OBVIOUS
<1>3. S \subseteq Frames /\ failures \in Nat
  BY <1>2 DEF Lost, FewLost
<1>4. Cardinality(S) <= failures \/ (Refusing /\ Cardinality(S) <= failures + 1)
  BY <1>2 DEF FewLost
<1>5. ASSUME NEW e \in Inserts, Insert(e)
      PROVE  Lending'
  <2>1. Lists' /\ Lost' = S /\ failures' = failures
    BY <1>2, <1>5, UnchangedLists DEF Insert, Tree!Insert
  <2>2. ~Refusing
    <3>1. Needs = <<>>
      BY <1>5 DEF Insert, Needs
    <3>2. Len(Needs) = 0
      BY <3>1
    <3> QED
      BY <3>2 DEF Refusing
  <2> QED
    BY <1>3, <1>4, <2>1, <2>2 DEF FewLost
<1>6. CASE Ask
  <2>1. Lists' /\ Lost' = S
    BY <1>2, <1>6, AskLists
  <2>2. failures' = failures
    BY <1>6 DEF Ask, tree
  <2>3. ~Refusing
    BY <1>1, <1>6, AnsweredIs DEF Ask
  <2> QED
    BY <1>3, <1>4, <2>1, <2>2, <2>3 DEF FewLost
<1>7. CASE PoolStep
  <2>1. /\ Calling /\ (FailsCall => Refusing')
        /\ PoolP!Continue(Caller) /\ failures' = failures
    BY <1>1, <1>7, PoolStepCalls, SameContinue DEF PoolStep, tree
  <2>2. Label \in Hit \cup Unread \cup Brought
    BY <2>1, CallingLabel
  <2>3. Label \notin {"flush_next", "flush"} /\ Label # "idle"
    BY <2>2, LabelsAre
  <2>4. Label' # "panicked"
    BY <1>1 DEF PoolP!CInv, PoolP!Running, Label
  <2>5. /\ Lists'
        /\ Lost' \subseteq Lost \/ (FailsCall /\ Lost' \subseteq Lost \cup {slot[Caller]})
    BY <1>1, <2>1, <2>3, <2>4, StepLoses
  <2>6. Cardinality(S) <= failures
    BY <1>4, <2>3 DEF Refusing
  <2>7. PICK T, x : T = Lost' /\ x = slot[Caller]
    OBVIOUS
  <2>8. CASE T \subseteq S
    <3>1. Cardinality(T) <= Cardinality(S) /\ Cardinality(T) \in Nat /\ Cardinality(S) \in Nat
      BY <1>3, <2>8, NoMoreLost
    <3>2. Cardinality(T) <= failures
      BY <1>3, <2>6, <3>1
    <3> QED
      BY <1>3, <2>1, <2>5, <2>7, <3>2 DEF FewLost
  <2>9. CASE FailsCall /\ T \subseteq S \cup {x}
    <3>1. Cardinality(T) <= Cardinality(S) + 1 /\ Cardinality(T) \in Nat /\ Cardinality(S) \in Nat
      BY <1>3, <2>9, OneMoreLost
    <3>2. Cardinality(T) <= failures + 1
      BY <1>3, <2>6, <3>1
    <3> QED
      BY <1>3, <2>1, <2>5, <2>7, <2>9, <3>2 DEF FewLost
  <2> QED
    BY <1>2, <2>5, <2>7, <2>8, <2>9
<1>8. CASE CallFails
  <2>1. Lists' /\ Lost' = S /\ failures' = failures + 1
    BY <1>2, <1>8, UnchangedLists DEF CallFails, Tree!Fail
  <2>2. Cardinality(S) \in Nat
    BY <1>3, NoMoreLost
  <2>3. Cardinality(S) <= failures + 1
    BY <1>3, <1>4, <2>2
  <2> QED
    BY <1>3, <2>1, <2>3 DEF FewLost
<1>9. CASE TreeStep
  <2>1. Lists' /\ Lost' = S
    BY <1>2, <1>9, UnchangedLists DEF TreeStep
  <2>2. failures' = failures
    BY <1>9 DEF TreeStep, CreateRoot, Tree!Continue, Tree!Descend, Tree!InsertInLeaf,
      Tree!LeafIsFull, Tree!SplitLeaf, Tree!Relink, Tree!AddToParent, Tree!ParentIsFull,
      Tree!SplitInternal, Tree!NewRoot, Tree!Done
  <2>3. ~Refusing
    BY <1>1, <1>9, AnsweredIs DEF TreeStep
  <2> QED
    BY <1>3, <1>4, <2>1, <2>2, <2>3 DEF FewLost
<1>10. CASE UseGuard
  <2>1. Lists' /\ Lost' = S
    BY <1>1, <1>2, <1>10, UseGuardLists
  <2>2. failures' = failures /\ ~Refusing
    BY <1>10 DEF UseGuard, tree, Refusing
  <2> QED
    BY <1>3, <1>4, <2>1, <2>2 DEF FewLost
<1>11. CASE Restart
  <2>1. PoolP!Restart /\ failures' = failures
    BY <1>11, SameBegin DEF Restart
  <2>2. free_list' = Frames /\ lru' = <<>> /\ candidates'[Caller] = <<>> /\ Label' = "idle"
    BY <2>1 DEF PoolP!Restart, Label
  <2>3. PoolP!ToSet(<<>>) = {}
    BY DEF PoolP!ToSet
  <2>4. Lost' = {}
    BY <2>2 DEF Lost
  <2>5. PoolP!ToSet(lru)' = {} /\ PoolP!ToSet(candidates[Caller])' = {}
    BY <2>2, <2>3 DEF PoolP!ToSet
  <2>6. Lists'
    BY <2>2, <2>5 DEF Lists
  <2>7. Cardinality({}) = 0
    BY FS_EmptySet
  <2> QED
    BY <1>3, <2>1, <2>4, <2>6, <2>7 DEF FewLost
<1>12. CASE UNCHANGED vars
  <2>1. Lists' /\ Lost' = S /\ failures' = failures /\ (Refusing => Refusing')
    BY <1>1, <1>2, <1>12, UnchangedLists, StutterKeeps DEF vars, tree
  <2> QED
    BY <1>3, <1>4, <2>1 DEF FewLost
<1> QED
  BY <1>5, <1>6, <1>7, <1>8, <1>9, <1>10, <1>11, <1>12 DEF Next

\* A pinned frame has a guard, unless a call is about to return one
LEMMA PinnedHasGuard ==
  ASSUME Setting, PoolP!CInv, Label = "scan", NEW f \in Frames, frames[f] # None, frames[f].pin > 0
  PROVE  \E h \in Held : guards[Caller][h].frame = f
PROOF
<1>1. PoolP!Pinning(f) = {}
  BY DEF PoolP!Pinning, Label
<1>2. frames[f].pin = PoolP!Cardinality({th \in PoolP!Held : PoolP!GuardOf(th).frame = f})
                       + PoolP!Cardinality(PoolP!Pinning(f))
  BY DEF PoolP!CInv, PoolP!PinsCountGuards
<1>3. PoolP!Cardinality({}) = 0
  BY PoolAssumptions, PoolP!FS_EmptySet
<1>4. {th \in PoolP!Held : PoolP!GuardOf(th).frame = f} # {}
  BY <1>1, <1>2, <1>3
<1> QED
  BY <1>4 DEF PoolP!Held, PoolP!GuardOf, Held

LEMMA ExhaustedIsSmall ==
  ASSUME Setting, Inv, Lending, Pool!ScanExhausted(Caller)
  PROVE  Cardinality(Frames) < 2 + failures
PROOF
<1>1. PoolP!CInv /\ TInv /\ Calls /\ Lists /\ FewLost
  BY DEF Inv, Lending
<1>2. Label = "scan" /\ lru = <<>>
  BY DEF Pool!ScanExhausted, Label
<1>3. Calling
  BY <1>1, <1>2 DEF Calls, Using, Answering, Refusing
<1>4. PICK S, n : S = Lost /\ n = failures
  OBVIOUS
<1>5. S \subseteq Frames /\ Cardinality(S) <= n /\ n \in Nat
  BY <1>1, <1>2, <1>4 DEF FewLost, Lost, Refusing
<1>6. PICK C : C = PoolP!ToSet(candidates[Caller])
  OBVIOUS
<1>7. Frames = S \cup C
  <2>1. free_list = {} /\ PoolP!ToSet(<<>>) = {} /\ Busy = {}
    BY <1>1, <1>2 DEF Lists, PoolP!ToSet, Busy, Owns
  <2>2. C \subseteq Frames
    <3>1. candidates[Caller] \in Seq(Frames)
      BY <1>1, ListTypes
    <3> QED
      BY <1>6, <3>1 DEF PoolP!ToSet
  <2> QED
    BY <1>2, <1>4, <1>6, <2>1, <2>2 DEF Lost
<1>8. \A f \in C : \E h \in Held : guards[Caller][h].frame = f
  BY <1>1, <1>2, <1>6, <1>7, PinnedHasGuard DEF Lists
<1>9. IsFiniteSet(Held) /\ Cardinality(Held) \in Nat /\ Cardinality(Held) <= 1
  <2>1. asked \in 1 .. Len(Needs) /\ Holding(Got(asked - 1))
    BY <1>3 DEF Calling
  <2>2. asked - 1 \in 0 .. Len(Needs) /\ asked - 1 \in {0, 1}
    <3>1. Len(Needs) \in {0, 1, 2}
      BY <1>1, TwoAtMost
    <3>2. \A m \in {0, 1, 2} : \A a \in 1 .. m : a - 1 \in 0 .. m /\ a - 1 \in {0, 1}
      OBVIOUS
    <3>3. PICK m : m = Len(Needs)
      OBVIOUS
    <3>4. m \in {0, 1, 2} /\ asked \in 1 .. m
      BY <2>1, <3>1, <3>3
    <3>5. asked - 1 \in 0 .. m /\ asked - 1 \in {0, 1}
      BY <3>2, <3>4
    <3> QED
      BY <3>3, <3>5
  <2>3. Cardinality(Got(asked - 1)) = asked - 1
    BY <1>1, <2>2, GotCount
  <2>4. Cardinality(Held) = Cardinality(Got(asked - 1))
    BY <2>1, HeldCount DEF Setting
  <2>5. IsFiniteSet(Held)
    BY FS_Subset DEF Held, Setting
  <2> QED
    BY <2>2, <2>3, <2>4, <2>5
<1>10. IsFiniteSet(C) /\ Cardinality(C) \in Nat /\ Cardinality(C) <= 1
  <2> DEFINE I == {guards[Caller][h].frame : h \in Held}
  <2>1. IsFiniteSet(I) /\ Cardinality(I) <= Cardinality(Held)
    <3> DEFINE g == [h \in Held |-> guards[Caller][h].frame]
    <3>1. g \in Surjection(Held, I)
      BY DEF Surjection
    <3> HIDE DEF g, I
    <3> QED
      BY <1>9, <3>1, FS_Surjection
  <2>2. C \subseteq I
    BY <1>8
  <2> HIDE DEF I
  <2>3. IsFiniteSet(C) /\ Cardinality(C) <= Cardinality(I)
    BY <2>1, <2>2, FS_Subset
  <2>4. Cardinality(C) \in Nat /\ Cardinality(I) \in Nat
    BY <2>1, <2>3, FS_CardinalityType
  <2> QED
    BY <1>9, <2>1, <2>3, <2>4
<1>11. IsFiniteSet(S) /\ Cardinality(S) \in Nat
  BY <1>5, NoMoreLost
<1>12. Cardinality(S \cup C) <= Cardinality(S) + Cardinality(C)
  <2>1. IsFiniteSet(S \cap C)
    BY <1>11, FS_Subset
  <2>2. /\ Cardinality(S \cup C) = Cardinality(S) + Cardinality(C) - Cardinality(S \cap C)
        /\ Cardinality(S \cap C) \in Nat
    BY <1>10, <1>11, <2>1, FS_Union, FS_CardinalityType
  <2> QED
    BY <1>10, <1>11, <2>2
<1>13. Cardinality(Frames) <= Cardinality(S) + Cardinality(C) /\ Cardinality(Frames) \in Nat
  BY <1>7, <1>12, FS_CardinalityType DEF Setting
<1>14. Cardinality(Frames) < 2 + n
  BY <1>5, <1>10, <1>11, <1>13
<1> QED
  BY <1>4, <1>14

(***************************************************************************)
(* An insert finds a frame for every page it asks for when there are two   *)
(* frames, and one more for each call that has failed, whatever the depth  *)
(* of the tree: insert_recursive holds one guard at most while it asks for *)
(* another page, and only a failed call takes a frame for good.            *)
(***************************************************************************)
THEOREM FramesAlwaysSuffice == ASSUME Setting PROVE Spec => FramesSuffice
PROOF
<1>1. Setting => (Init => Lending)
  BY LendingBegins
<1>2. Setting => (Inv /\ Inv' /\ Lending /\ [Next]_vars => Lending')
  BY LendingNext
<1>3. Setting => (Inv /\ Lending /\ [Next]_vars
                    => [Pool!ScanExhausted(Caller) => Cardinality(Frames) < 2 + failures]_vars)
  BY ExhaustedIsSmall
<1> QED
  BY <1>1, <1>2, <1>3, InvHolds, PTL DEF Spec, FramesSuffice
=============================================================================
