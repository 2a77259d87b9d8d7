----------------------------- MODULE BTreeProofs -----------------------------
(***************************************************************************)
(* The tree keeps what it promises, for any keys and sizes of nodes and    *)
(* however many inserts fail at whatever call of the pool.                 *)
(***************************************************************************)
EXTENDS BTreeProps, FiniteSetTheorems, SequenceTheorems, NaturalsInduction,
        WellFoundedInduction, TLAPS

-----------------------------------------------------------------------------
(***************************************************************************)
(* What the steps of insert rely on, without any further notion.           *)
(***************************************************************************)
Pages    == 0 .. count - 1
Items(p) == ToSet(nodes[p].entries)
KeysIn(p) == {e.key : e \in Items(p)}

Sorted(entries) == \A i, j \in DOMAIN entries : i < j => entries[i].key < entries[j].key

\* Links lead to pages that exist, calls are at such pages, and a step was
\* chosen for the node it is about
Linked ==
  \A p \in Pages :
    /\ Children(p) \subseteq Pages
    /\ nodes[p].leaf => {nodes[p].prev, nodes[p].next} \subseteq Pages \cup {None}

OnTheWay ==
  /\ at # None => at \in Pages
  /\ path \in Seq(Pages)
  /\ \A i \in DOMAIN path : ~nodes[path[i]].leaf
  /\ split # None => split.child \in Pages
  /\ pc = "split_leaf" => nodes[at].leaf /\ NeedsSplit(nodes[at].entries)
  /\ pc = "relink" => nodes[split.child].leaf /\ nodes[split.child].next # None
  /\ pc = "split_internal" => path # <<>> /\ Full(nodes[Parent])
  /\ pc = "idle" => path = <<>>

TInv == TypeOK /\ Linked /\ OnTheWay

-----------------------------------------------------------------------------
(***************************************************************************)
(* The shape of the tree.  Every page has a level, and a lower bound on    *)
(* its keys, where None stands for no bound.  The pages a search may come  *)
(* to, and those that an insert under way is about to add, are live.       *)
(***************************************************************************)
AtLeast(k, bound)   == bound = None \/ bound <= k
Above(k, bound)     == bound = None \/ bound < k
BelowKey(k, bound)  == bound # None /\ k < bound
LeftOf(bound, next) == next # None /\ Above(next, bound)

\* The node that a split has yet to add to its parent
Pending == IF split = None THEN {} ELSE {split.child}

\* A node and its entries
Leaves(level, low) ==
  \A p \in Pages : nodes[p].leaf =>
    level[p] = 0 /\ \A e \in Items(p) : AtLeast(e.key, low[p])

Inner(level, low) ==
  \A p \in Pages : ~nodes[p].leaf =>
    /\ low[nodes[p].first] = low[p]
    /\ \A e \in Items(p) : Above(e.key, low[p]) /\ low[e.child] = e.key
    /\ \A c \in Children(p) : level[p] = level[c] + 1

Bounded(level, low) ==
  /\ level \in [Pages -> Nat] /\ low \in [Pages -> Keys \cup {None}]
  /\ \A p \in Pages : level[p] < count /\ Sorted(nodes[p].entries)

\* Nothing has two parents
Forest ==
  /\ \A p, q \in Pages : p # q => Children(p) \cap Children(q) = {}
  /\ \A p \in Pages : root \notin Children(p) /\ Pending \cap Children(p) = {}
  /\ root \notin Pending

\* Live pages are the root, the pending node, and what is below them
Reached(live, level, low) ==
  /\ live \subseteq Pages /\ root \in live /\ low[root] = None
  /\ \A p \in live : Children(p) \subseteq live /\ level[p] <= level[root]
  /\ \A p \in live : p = root \/ p \in Pending \/ \E q \in live : p \in Children(q)
  /\ split # None => split.child \in live /\ low[split.child] = split.key
  /\ failures = 0 => live = Pages

\* Live pages of one level divide the keys among them
Divided(live, level, low) ==
  \A p, q \in live : p # q /\ level[p] = level[q] =>
    /\ low[p] # low[q]
    /\ LeftOf(low[p], low[q]) => \A k \in KeysIn(p) : BelowKey(k, low[q])

\* No other page of p's level is the place for k
Covers(live, level, low, p, k) ==
  /\ AtLeast(k, low[p])
  /\ \A q \in live \ Pending :
       level[q] = level[p] /\ LeftOf(low[p], low[q]) => BelowKey(k, low[q])

\* The insert has come down to p, or up to it
CameBy(p) == IF path = <<>> THEN p = root ELSE p \in Children(Last(path))

Descent(live, level) ==
  /\ path # <<>> => path[1] = root
  /\ \A i \in DOMAIN path :
       path[i] \in live \ Pending /\ level[path[i]] = level[root] - i + 1
  /\ \A i \in DOMAIN path \ {1} : path[i] \in Children(path[i - 1])

Visiting(live, level, low) ==
  pc \in {"visit", "split_leaf"} =>
    at \in live /\ CameBy(at) /\ Covers(live, level, low, at, entry.key)

Splitting(live, level, low) ==
  split # None =>
    \E p \in live \ Pending :
      /\ level[p] = level[split.child]
      /\ CameBy(p) /\ Covers(live, level, low, p, split.key) /\ low[p] # split.key

Shape(live, level, low) ==
  /\ Bounded(level, low) /\ Leaves(level, low) /\ Inner(level, low)
  /\ Forest /\ Reached(live, level, low) /\ Divided(live, level, low)
  /\ Descent(live, level) /\ Visiting(live, level, low) /\ Splitting(live, level, low)

(***************************************************************************)
(* The chain of the leaves.                                                *)
(***************************************************************************)
Chains(chain) ==
  /\ chain \in Seq(Pages) /\ chain # <<>> /\ chain[1] = 0
  /\ \A i, j \in DOMAIN chain : chain[i] = chain[j] => i = j
  /\ ToSet(chain) = {p \in Pages : nodes[p].leaf}
  /\ \A i \in DOMAIN chain :
       nodes[chain[i]].next = IF i = Len(chain) THEN None ELSE chain[i + 1]

\* Left of a live leaf, keys are below its own, in dead leaves too
Ordered(live, low, chain) ==
  \A i, j \in DOMAIN chain : i < j /\ chain[j] \in live =>
    /\ \A k \in KeysIn(chain[i]) : BelowKey(k, low[chain[j]])
    /\ chain[i] \in live => LeftOf(low[chain[i]], low[chain[j]])

Backwards(chain) ==
  \A i \in DOMAIN chain \ {1} :
    LET back == nodes[chain[i]].prev IN
    \/ back = chain[i - 1]
    \/ /\ failures > 0 \/ (pc = "relink" /\ chain[i - 1] = split.child)
       /\ \E j \in 1 .. i - 1 : back = chain[j]

\* The first entry for k in the chain has the value v
FirstIs(chain, k, v) ==
  \/ v = None /\ \A i \in DOMAIN chain : k \notin KeysIn(chain[i])
  \/ \E i \in DOMAIN chain :
       /\ \E e \in Items(chain[i]) : e.key = k /\ e.val = v
       /\ \A j \in 1 .. i - 1 : k \notin KeysIn(chain[j])

Sound(live, low, chain) == Chains(chain) /\ Ordered(live, low, chain) /\ Backwards(chain)

\* The chain holds what was inserted, and what the insert under way has put there
Inserted == split # None

Holds(chain) ==
  /\ \A k \in Keys : entry = None \/ entry.key # k \/ ~Inserted =>
       \E v \in expected[k] : FirstIs(chain, k, v)
  /\ Inserted => FirstIs(chain, entry.key, entry.val)

TreeInv ==
  /\ TInv
  /\ \E live, level, low, chain :
       Shape(live, level, low) /\ Sound(live, low, chain) /\ Holds(chain)
-----------------------------------------------------------------------------
(***************************************************************************)
(* Numbers.                                                                *)
(***************************************************************************)
LEMMA LeastNatural ==
  ASSUME NEW T, T \subseteq Nat, T # {}
  PROVE  \E n \in T : \A m \in T : n <= m
PROOF
<1> DEFINE R == OpToRel(<, Nat)
<1>1. IsWellFoundedOn(R, Nat)
  BY NatLessThanWellFounded
<1>2. \A x, y \in Nat : <<y, x>> \in R <=> y < x
  BY DEF OpToRel
<1> HIDE DEF R
<1>3. \E x \in T : \A y \in T : ~ (<<y, x>> \in R)
  BY <1>1, WFMin
<1>4. PICK x \in T : \A y \in T : ~ (<<y, x>> \in R)
  BY <1>3
<1>5. \A y \in T : ~(y < x)
  BY <1>2, <1>4
<1> QED
  BY <1>5

\* What Min and Max yield on the sets of numbers they are used on
LEMMA LeastIsMin ==
  ASSUME NEW T, T \subseteq Nat, T # {}
  PROVE  Min(T) \in T /\ \A m \in T : Min(T) <= m
BY LeastNatural DEF Min

\* The same for Max, which needs a bound
LEMMA GreatestIsMax ==
  ASSUME NEW n \in Nat, NEW T, T \subseteq 1 .. n, T # {}
  PROVE  Max(T) \in T /\ \A m \in T : m <= Max(T)
PROOF
<1> DEFINE U == {n - m : m \in T}
<1>1. U \subseteq Nat /\ U # {}
  <2>1. \A m \in T : n - m \in Nat
    OBVIOUS
  <2> QED
    BY <2>1
<1> HIDE DEF U
<1>2. PICK u \in U : \A v \in U : u <= v
  BY <1>1, LeastNatural
<1>3. PICK t \in T : u = n - t
  BY <1>2 DEF U
<1>4. \A m \in T : n - m \in U
  BY DEF U
<1>5. \A m \in T : t >= m
  BY <1>2, <1>3, <1>4
<1> QED
  BY <1>5 DEF Max

(***************************************************************************)
(* Sequences.                                                              *)
(***************************************************************************)
PutAt(t, s, i, e) ==
  /\ Len(t) = Len(s) + 1
  /\ \A j \in 1 .. Len(s) + 1 : t[j] = IF j < i THEN s[j] ELSE IF j = i THEN e ELSE s[j - 1]

\* InsertAt gives the sequence PutAt describes
LEMMA InsertAtIs ==
  ASSUME NEW T, NEW s \in Seq(T), NEW i \in 1 .. Len(s) + 1, NEW e \in T
  PROVE  InsertAt(s, i, e) \in Seq(T) /\ PutAt(InsertAt(s, i, e), s, i, e)
PROOF
<1> DEFINE a == SubSeq(s, 1, i - 1)
           b == SubSeq(s, i, Len(s))
           c == <<e>>
<1>1. /\ a \in Seq(T) /\ Len(a) = i - 1
      /\ \A j \in 1 .. i - 1 : a[j] = s[j]
  <2>1. \A j \in 1 .. i - 1 : s[j] \in T
    OBVIOUS
  <2>2. /\ a \in Seq(T)
        /\ Len(a) = IF 1 <= i - 1 THEN (i - 1) - 1 + 1 ELSE 0
        /\ \A j \in 1 .. (i - 1) - 1 + 1 : a[j] = s[1 + j - 1]
    BY <2>1, SubSeqProperties
  <2> QED
    BY <2>2
<1>2. /\ b \in Seq(T) /\ Len(b) = Len(s) - i + 1
      /\ \A j \in 1 .. Len(s) - i + 1 : b[j] = s[i + j - 1]
  <2>1. \A j \in i .. Len(s) : s[j] \in T
    OBVIOUS
  <2>2. /\ b \in Seq(T)
        /\ Len(b) = IF i <= Len(s) THEN Len(s) - i + 1 ELSE 0
        /\ \A j \in 1 .. Len(s) - i + 1 : b[j] = s[i + j - 1]
    BY <2>1, SubSeqProperties
  <2> QED
    BY <2>2
<1>3. c \in Seq(T) /\ Len(c) = 1 /\ c[1] = e
  OBVIOUS
<1> HIDE DEF a, b, c
<1>4. a \o c \in Seq(T) /\ Len(a \o c) = i
      /\ \A j \in 1 .. i : (a \o c)[j] = IF j < i THEN s[j] ELSE e
  <2>1. /\ a \o c \in Seq(T) /\ Len(a \o c) = Len(a) + Len(c)
        /\ \A j \in 1 .. Len(a) + Len(c) :
             (a \o c)[j] = IF j <= Len(a) THEN a[j] ELSE c[j - Len(a)]
    BY <1>1, <1>3, ConcatProperties
  <2> QED
    BY <1>1, <1>3, <2>1
<1>5. /\ (a \o c) \o b \in Seq(T) /\ Len((a \o c) \o b) = Len(s) + 1
      /\ \A j \in 1 .. Len(s) + 1 :
           ((a \o c) \o b)[j] = IF j <= i THEN (a \o c)[j] ELSE b[j - i]
  <2> DEFINE d == a \o c
  <2>1. d \in Seq(T) /\ Len(d) = i
    BY <1>4
  <2> HIDE DEF d
  <2>2. /\ d \o b \in Seq(T) /\ Len(d \o b) = Len(d) + Len(b)
        /\ \A j \in 1 .. Len(d) + Len(b) :
             (d \o b)[j] = IF j <= Len(d) THEN d[j] ELSE b[j - Len(d)]
    BY <1>2, <2>1, ConcatProperties
  <2>3. /\ d \o b \in Seq(T) /\ Len(d \o b) = Len(s) + 1
        /\ \A j \in 1 .. Len(s) + 1 : (d \o b)[j] = IF j <= i THEN d[j] ELSE b[j - i]
    BY <1>2, <2>1, <2>2
  <2> QED
    BY <2>3 DEF d
<1>6. InsertAt(s, i, e) = (a \o c) \o b
  BY DEF InsertAt, a, b, c
<1> QED
  BY <1>2, <1>4, <1>5, <1>6 DEF PutAt

\* What a cut of a sequence holds, entry by entry
LEMMA CutIs ==
  ASSUME NEW T, NEW s \in Seq(T), NEW i \in 1 .. Len(s) + 1, NEW k \in i - 1 .. Len(s)
  PROVE  /\ SubSeq(s, i, k) \in Seq(T)
         /\ Len(SubSeq(s, i, k)) = k - i + 1
         /\ \A j \in 1 .. k - i + 1 : SubSeq(s, i, k)[j] = s[i + j - 1]
PROOF
<1>1. \A j \in i .. k : s[j] \in T
  OBVIOUS
<1>2. /\ SubSeq(s, i, k) \in Seq(T)
      /\ Len(SubSeq(s, i, k)) = IF i <= k THEN k - i + 1 ELSE 0
      /\ \A j \in 1 .. k - i + 1 : SubSeq(s, i, k)[j] = s[i + j - 1]
  BY <1>1, SubSeqProperties
<1> QED
  BY <1>2

-----------------------------------------------------------------------------
(***************************************************************************)
(* The operations on one node (BTreeNode), for entries of any kind.        *)
(***************************************************************************)
LEMMA BeforeBounded ==
  ASSUME NEW T, NEW s \in Seq(T), NEW k
  PROVE  Before(s, k) \in 0 .. Len(s)
PROOF
<1> DEFINE B == {i \in DOMAIN s : s[i].key < k}
<1>1. B \subseteq 1 .. Len(s)
  OBVIOUS
<1>2. IsFiniteSet(1 .. Len(s)) /\ Cardinality(1 .. Len(s)) = Len(s)
  <2>1. /\ IsFiniteSet(1 .. Len(s))
        /\ Cardinality(1 .. Len(s)) = IF 1 > Len(s) THEN 0 ELSE Len(s) - 1 + 1
    BY FS_Interval
  <2> QED
    BY <2>1
<1>3. IsFiniteSet(B) /\ Cardinality(B) <= Len(s) /\ Cardinality(B) \in Nat
  BY <1>1, <1>2, FS_Subset, FS_CardinalityType
<1> QED
  BY <1>3 DEF Before

\* In order, they are the first ones
LEMMA BeforeIs ==
  ASSUME NEW T, \A x \in T : x.key \in Int,
         NEW s \in Seq(T), Sorted(s), NEW k \in Int, NEW i \in DOMAIN s
  PROVE  i <= Before(s, k) <=> s[i].key < k
PROOF
<1> DEFINE B == {j \in DOMAIN s : s[j].key < k}
<1>1. \A j \in DOMAIN s : s[j].key \in Int
  OBVIOUS
<1>2. ASSUME B = {}
      PROVE  Before(s, k) = 0
  BY <1>2, FS_EmptySet DEF Before
<1>3. ASSUME B # {}
      PROVE  Before(s, k) = Max(B)
  <2>1. B \subseteq 1 .. Len(s)
    OBVIOUS
  <2>2. Max(B) \in B /\ \A j \in B : j <= Max(B)
    BY <1>3, <2>1, GreatestIsMax
  <2>3. \A j \in DOMAIN s : j \in B <=> j <= Max(B)
    BY <1>1, <2>2 DEF Sorted
  <2>4. Max(B) \in 1 .. Len(s)
    BY <2>1, <2>2
  <2>5. B = 1 .. Max(B)
    <3>1. \A j \in 1 .. Max(B) : j \in DOMAIN s /\ j <= Max(B)
      BY <2>4
    <3>2. \A j \in B : j \in 1 .. Max(B)
      BY <2>1, <2>2, <2>4
    <3> QED
      BY <2>3, <3>1, <3>2
  <2>6. Cardinality(1 .. Max(B)) = Max(B)
    BY <2>4, FS_Interval
  <2> QED
    BY <2>5, <2>6 DEF Before
<1>4. B # {} => \A j \in DOMAIN s : j \in B <=> j <= Max(B)
  <2>1. B \subseteq 1 .. Len(s)
    OBVIOUS
  <2>2. B # {} => Max(B) \in B /\ \A j \in B : j <= Max(B)
    BY <2>1, GreatestIsMax
  <2> QED
    BY <1>1, <2>2 DEF Sorted
<1> HIDE DEF B
<1>5. i \in B <=> s[i].key < k
  BY DEF B
<1>6. B = {} => (~(i <= 0) /\ i \notin B)
  OBVIOUS
<1> QED
  BY <1>2, <1>3, <1>4, <1>5, <1>6

\* insert_entry, and the Err arm of insert
LEMMA InsertedInOrder ==
  ASSUME NEW T, \A x \in T : x.key \in Int,
         NEW s \in Seq(T), Sorted(s), NEW e \in T, Found(s, e.key) = {}
  PROVE  LET t == InsertAt(s, Before(s, e.key) + 1, e)
         IN Sorted(t) /\ ToSet(t) = ToSet(s) \cup {e}
PROOF
<1> DEFINE b == Before(s, e.key)
           t == InsertAt(s, b + 1, e)
<1>1. b \in 0 .. Len(s)
  BY BeforeBounded
<1>2. \A i \in 1 .. Len(s) : (i <= b <=> s[i].key < e.key) /\ s[i].key # e.key /\ s[i].key \in Int
  BY BeforeIs DEF Found
<1> HIDE DEF b
<1> b + 1 \in 1 .. Len(s) + 1
  BY <1>1
<1>3. /\ t \in Seq(T) /\ Len(t) = Len(s) + 1
      /\ \A j \in 1 .. Len(s) + 1 :
           t[j] = IF j < b + 1 THEN s[j] ELSE IF j = b + 1 THEN e ELSE s[j - 1]
  <2>1. t \in Seq(T) /\ PutAt(t, s, b + 1, e)
    BY InsertAtIs
  <2> QED
    BY <2>1 DEF PutAt
<1> HIDE DEF t
<1> DOMAIN t = 1 .. Len(s) + 1
  BY <1>3
<1>4. Sorted(t)
  <2> SUFFICES ASSUME NEW i \in 1 .. Len(s) + 1, NEW j \in 1 .. Len(s) + 1, i < j
               PROVE  t[i].key < t[j].key
    BY <1>3 DEF Sorted
  <2>1. CASE j < b + 1
    <3>1. t[i] = s[i] /\ t[j] = s[j] /\ i \in 1 .. Len(s) /\ j \in 1 .. Len(s)
      BY <1>1, <1>3, <2>1
    <3> QED
      BY <3>1 DEF Sorted
  <2>2. CASE j = b + 1
    <3>1. t[i] = s[i] /\ t[j] = e /\ i \in 1 .. Len(s) /\ i <= b
      BY <1>1, <1>3, <2>2
    <3> QED
      BY <1>2, <3>1
  <2>3. CASE j > b + 1 /\ i = b + 1
    <3>1. t[i] = e /\ t[j] = s[j - 1] /\ j - 1 \in 1 .. Len(s) /\ ~(j - 1 <= b)
      BY <1>1, <1>3, <2>3
    <3> QED
      BY <1>2, <3>1
  <2>4. CASE j > b + 1 /\ i < b + 1
    <3>1. t[i] = s[i] /\ t[j] = s[j - 1] /\ j - 1 \in 1 .. Len(s) /\ i \in 1 .. Len(s) /\ i < j - 1
      BY <1>1, <1>3, <2>4
    <3> QED
      BY <3>1 DEF Sorted
  <2>5. CASE j > b + 1 /\ i > b + 1
    <3>1. /\ t[i] = s[i - 1] /\ t[j] = s[j - 1] /\ i - 1 < j - 1
          /\ j - 1 \in 1 .. Len(s) /\ i - 1 \in 1 .. Len(s)
      BY <1>1, <1>3, <2>5
    <3>2. \A u, v \in 1 .. Len(s) : u < v => s[u].key < s[v].key
      BY DEF Sorted
    <3>3. s[i - 1].key < s[j - 1].key
      BY <3>1, <3>2
    <3> QED
      BY <3>1, <3>3
  <2> QED
    BY <1>1, <2>1, <2>2, <2>3, <2>4, <2>5
<1>5. ToSet(t) \subseteq ToSet(s) \cup {e}
  <2>1. \A j \in 1 .. Len(s) + 1 : t[j] = e \/ \E i \in 1 .. Len(s) : t[j] = s[i]
    <3> TAKE j \in 1 .. Len(s) + 1
    <3>1. j < b + 1 => j \in 1 .. Len(s)
      BY <1>1
    <3>2. ~(j < b + 1) /\ j # b + 1 => j - 1 \in 1 .. Len(s)
      BY <1>1
    <3> QED
      BY <1>3, <3>1, <3>2
  <2> QED
    BY <1>3, <2>1 DEF ToSet
<1>6. e \in ToSet(t)
  <2>1. t[b + 1] = e
    BY <1>1, <1>3
  <2> QED
    BY <2>1 DEF ToSet
<1>7. ToSet(s) \subseteq ToSet(t)
  <2>1. \A i \in 1 .. Len(s) : \E j \in 1 .. Len(s) + 1 : t[j] = s[i]
    <3> TAKE i \in 1 .. Len(s)
    <3>1. CASE i < b + 1
      <4>1. i \in 1 .. Len(s) + 1 /\ t[i] = s[i]
        BY <1>3, <3>1
      <4> QED
        BY <4>1
    <3>2. CASE ~(i < b + 1)
      <4>1. i + 1 \in 1 .. Len(s) + 1 /\ ~(i + 1 < b + 1) /\ i + 1 # b + 1 /\ (i + 1) - 1 = i
        BY <1>1, <3>2
      <4> QED
        BY <1>3, <4>1
    <3> QED
      BY <3>1, <3>2
  <2> QED
    BY <1>3, <2>1 DEF ToSet
<1> QED
  BY <1>4, <1>5, <1>6, <1>7 DEF t, b

\* A leaf grows by one entry, or by none when the key is replaced
LEMMA LeafInsertedIs ==
  ASSUME NEW T, NEW s \in Seq(T), NEW e \in T
  PROVE  /\ LeafInserted(s, e) \in Seq(T)
         /\ Len(LeafInserted(s, e)) = IF Found(s, e.key) = {} THEN Len(s) + 1 ELSE Len(s)
PROOF
<1>1. CASE Found(s, e.key) = {}
  <2>1. Before(s, e.key) + 1 \in 1 .. Len(s) + 1
    BY BeforeBounded
  <2>2. LeafInserted(s, e) = InsertAt(s, Before(s, e.key) + 1, e)
    BY <1>1 DEF LeafInserted
  <2> QED
    BY <1>1, <2>1, <2>2, InsertAtIs DEF PutAt
<1>2. CASE Found(s, e.key) # {}
  <2>1. LeafInserted(s, e) = [i \in DOMAIN s |-> IF s[i].key = e.key THEN e ELSE s[i]]
    BY <1>2 DEF LeafInserted
  <2>2. DOMAIN s = 1 .. Len(s)
    OBVIOUS
  <2> QED
    BY <1>2, <2>1, <2>2
<1> QED
  BY <1>1, <1>2

\* insert: the new entry comes in place of the one with its key, if there is one
LEMMA LeafInsertedInOrder ==
  ASSUME NEW T, \A x \in T : x.key \in Int,
         NEW s \in Seq(T), Sorted(s), NEW e \in T
  PROVE  /\ Sorted(LeafInserted(s, e))
         /\ ToSet(LeafInserted(s, e)) = {x \in ToSet(s) : x.key # e.key} \cup {e}
PROOF
<1>1. CASE Found(s, e.key) = {}
  <2>1. LeafInserted(s, e) = InsertAt(s, Before(s, e.key) + 1, e)
    BY <1>1 DEF LeafInserted
  <2>2. \A x \in ToSet(s) : x.key # e.key
    BY <1>1 DEF Found, ToSet
  <2> QED
    BY <1>1, <2>1, <2>2, InsertedInOrder
<1>2. CASE Found(s, e.key) # {}
  <2> DEFINE t == [i \in DOMAIN s |-> IF s[i].key = e.key THEN e ELSE s[i]]
  <2>1. LeafInserted(s, e) = t
    BY <1>2 DEF LeafInserted
  <2>2. DOMAIN t = DOMAIN s
    OBVIOUS
  <2>3. \A i \in DOMAIN s : t[i].key = s[i].key /\ t[i] = IF s[i].key = e.key THEN e ELSE s[i]
    OBVIOUS
  <2> HIDE DEF t
  <2>4. Sorted(t)
    BY <2>2, <2>3 DEF Sorted
  <2>5. PICK i \in DOMAIN s : s[i].key = e.key
    BY <1>2 DEF Found
  <2>6. t[i] = e
    BY <2>3, <2>5
  <2>7. ToSet(t) = {x \in ToSet(s) : x.key # e.key} \cup {e}
    BY <2>2, <2>3, <2>5, <2>6 DEF ToSet
  <2> QED
    BY <2>1, <2>4, <2>7
<1> QED
  BY <1>1, <1>2

\* Positions and keys are in the same order
LEMMA Ranks ==
  ASSUME NEW T, \A x \in T : x.key \in Int,
         NEW s \in Seq(T), Sorted(s), NEW i \in DOMAIN s, NEW j \in DOMAIN s
  PROVE  /\ s[i].key < s[j].key <=> i < j
         /\ s[i].key <= s[j].key <=> i <= j
         /\ s[i].key = s[j].key <=> i = j
PROOF
<1>1. s[i].key \in Int /\ s[j].key \in Int
  OBVIOUS
<1>2. i < j => s[i].key < s[j].key
  BY DEF Sorted
<1>3. j < i => s[j].key < s[i].key
  BY DEF Sorted
<1> QED
  BY <1>1, <1>2, <1>3

\* The halves of a split
LEMMA LowerHalf ==
  ASSUME NEW T, \A x \in T : x.key \in Int,
         NEW s \in Seq(T), Sorted(s), NEW m \in 0 .. Len(s) - 1
  PROVE  LET t == SubSeq(s, 1, m)
         IN /\ t \in Seq(T) /\ Len(t) = m /\ Sorted(t)
            /\ \A i \in 1 .. m : t[i] = s[i]
            /\ ToSet(t) = {x \in ToSet(s) : x.key < s[m + 1].key}
PROOF
<1> DEFINE t == SubSeq(s, 1, m)
<1>1. t \in Seq(T) /\ Len(t) = m /\ \A i \in 1 .. m : t[i] = s[i]
  <2>1. 1 \in 1 .. Len(s) + 1 /\ m \in 1 - 1 .. Len(s)
    OBVIOUS
  <2>2. /\ t \in Seq(T) /\ Len(t) = m - 1 + 1
        /\ \A i \in 1 .. m - 1 + 1 : t[i] = s[1 + i - 1]
    BY <2>1, CutIs
  <2> QED
    BY <2>2
<1> HIDE DEF t
<1>2. Sorted(t)
  BY <1>1 DEF Sorted
<1>3. \A i \in DOMAIN s : s[i].key < s[m + 1].key <=> i \in 1 .. m
  <2>1. m + 1 \in DOMAIN s
    OBVIOUS
  <2>2. \A i \in DOMAIN s : s[i].key < s[m + 1].key <=> i < m + 1
    BY <2>1, Ranks
  <2> QED
    BY <2>2
<1>4. ToSet(t) = {x \in ToSet(s) : x.key < s[m + 1].key}
  <2>1. DOMAIN t = 1 .. m /\ 1 .. m \subseteq DOMAIN s
    BY <1>1
  <2> QED
    BY <1>1, <1>3, <2>1 DEF ToSet
<1> QED
  BY <1>1, <1>2, <1>4 DEF t

\* The right half of ordered entries: those from the middle key on
LEMMA UpperHalf ==
  ASSUME NEW T, \A x \in T : x.key \in Int,
         NEW s \in Seq(T), Sorted(s), NEW m \in 1 .. Len(s) + 1
  PROVE  LET t == SubSeq(s, m, Len(s))
         IN /\ t \in Seq(T) /\ Len(t) = Len(s) - m + 1 /\ Sorted(t)
            /\ \A i \in 1 .. Len(s) - m + 1 : t[i] = s[m + i - 1]
            /\ m <= Len(s) => ToSet(t) = {x \in ToSet(s) : s[m].key <= x.key}
            /\ m > 1 => ToSet(t) = {x \in ToSet(s) : s[m - 1].key < x.key}
PROOF
<1> DEFINE t == SubSeq(s, m, Len(s))
<1>1. /\ t \in Seq(T) /\ Len(t) = Len(s) - m + 1
      /\ \A i \in 1 .. Len(s) - m + 1 : t[i] = s[m + i - 1]
  <2>1. Len(s) \in m - 1 .. Len(s)
    OBVIOUS
  <2> QED
    BY <2>1, CutIs
<1> HIDE DEF t
<1>2. Sorted(t)
  <2> SUFFICES ASSUME NEW i \in 1 .. Len(s) - m + 1, NEW j \in 1 .. Len(s) - m + 1, i < j
               PROVE  t[i].key < t[j].key
    BY <1>1 DEF Sorted
  <2>1. m + i - 1 \in DOMAIN s /\ m + j - 1 \in DOMAIN s /\ m + i - 1 < m + j - 1
    OBVIOUS
  <2>2. \A u, v \in DOMAIN s : u < v => s[u].key < s[v].key
    BY DEF Sorted
  <2>3. s[m + i - 1].key < s[m + j - 1].key
    BY <2>1, <2>2
  <2> QED
    BY <1>1, <2>3
<1>3. ToSet(t) = {s[i] : i \in m .. Len(s)}
  <2>1. DOMAIN t = 1 .. Len(s) - m + 1
    BY <1>1
  <2>2. \A i \in 1 .. Len(s) - m + 1 : m + i - 1 \in m .. Len(s)
    OBVIOUS
  <2>3. \A j \in m .. Len(s) : j - m + 1 \in 1 .. Len(s) - m + 1 /\ m + (j - m + 1) - 1 = j
    OBVIOUS
  <2>4. \A j \in m .. Len(s) : t[j - m + 1] = s[j]
    BY <1>1, <2>3
  <2>5. \A i \in DOMAIN t : \E j \in m .. Len(s) : t[i] = s[j]
    BY <1>1, <2>1, <2>2
  <2>6. \A j \in m .. Len(s) : \E i \in DOMAIN t : s[j] = t[i]
    BY <2>1, <2>3, <2>4
  <2> QED
    BY <2>5, <2>6 DEF ToSet
<1>4. m .. Len(s) \subseteq DOMAIN s
  OBVIOUS
<1>5. ASSUME m <= Len(s)
      PROVE  ToSet(t) = {x \in ToSet(s) : s[m].key <= x.key}
  <2>1. m \in DOMAIN s
    BY <1>5
  <2>2. \A i \in DOMAIN s : s[m].key <= s[i].key <=> m <= i
    BY <2>1, Ranks
  <2>3. \A i \in DOMAIN s : s[m].key <= s[i].key <=> i \in m .. Len(s)
    BY <2>2
  <2> QED
    BY <1>3, <1>4, <2>3 DEF ToSet
<1>6. ASSUME m > 1
      PROVE  ToSet(t) = {x \in ToSet(s) : s[m - 1].key < x.key}
  <2>1. m - 1 \in DOMAIN s
    BY <1>6
  <2>2. \A i \in DOMAIN s : s[m - 1].key < s[i].key <=> m - 1 < i
    BY <2>1, Ranks
  <2>3. \A i \in DOMAIN s : s[m - 1].key < s[i].key <=> i \in m .. Len(s)
    BY <2>2
  <2> QED
    BY <1>3, <1>4, <2>3 DEF ToSet
<1> QED
  BY <1>1, <1>2, <1>5, <1>6 DEF t

\* find_child
LEMMA FindChildIs ==
  ASSUME NEW T, \A x \in T : x.key \in Int,
         NEW node, node.entries \in Seq(T), Sorted(node.entries), NEW k \in Int
  PROVE  LET there == ToSet(node.entries) IN
         \/ FindChild(node, k) = node.first /\ \A e \in there : k < e.key
         \/ \E e \in there :
              /\ FindChild(node, k) = e.child /\ e.key <= k
              /\ \A f \in there : f.key <= k => f.key <= e.key
PROOF
<1> DEFINE s == node.entries
           B == {i \in DOMAIN s : s[i].key <= k}
<1>1. \A i \in DOMAIN s : s[i].key \in Int
  OBVIOUS
<1>2. CASE B = {}
  <2>1. FindChild(node, k) = node.first
    BY <1>2 DEF FindChild
  <2>2. \A i \in DOMAIN s : k < s[i].key
    BY <1>1, <1>2
  <2> QED
    BY <2>1, <2>2 DEF ToSet
<1>3. CASE B # {}
  <2>1. B \subseteq 1 .. Len(s) /\ Len(s) \in Nat
    OBVIOUS
  <2>2. Max(B) \in B /\ \A j \in B : j <= Max(B)
    BY <1>3, <2>1, GreatestIsMax
  <2>3. FindChild(node, k) = s[Max(B)].child
    BY <1>3 DEF FindChild
  <2>4. PICK m \in DOMAIN s : m \in B /\ m = Max(B)
    BY <2>2
  <2>5. \A j \in DOMAIN s : s[j].key <= k => s[j].key <= s[m].key
    <3>1. \A j \in DOMAIN s : s[j].key <= k => j <= m
      BY <2>2, <2>4
    <3>2. \A j \in DOMAIN s : s[j].key <= s[m].key <=> j <= m
      BY Ranks
    <3> QED
      BY <3>1, <3>2
  <2> QED
    BY <2>3, <2>4, <2>5 DEF ToSet
<1> QED
  BY <1>2, <1>3

-----------------------------------------------------------------------------
(***************************************************************************)
(* Types.                                                                  *)
(***************************************************************************)
TreeTypes ==
  /\ count \in 1 .. MaxPages /\ root \in Pages
  /\ DOMAIN nodes = PageNos
  /\ \A p \in Pages : Fits(nodes[p])
  /\ \A p \in PageNos : p >= count => nodes[p] = None

CallTypes ==
  /\ pc \in {"idle", "visit", "split_leaf", "relink", "ascend", "split_internal"}
  /\ entry \in Entry \cup {None} /\ at \in MaybePage /\ path \in Seq(PageNos)
  /\ split \in ChildEntry \cup {None}
  /\ (pc = "idle") <=> (entry = None)
  /\ (pc = "idle") <=> (at = None)
  /\ pc \in {"relink", "ascend", "split_internal"} <=> split # None
  /\ failures \in 0 .. MaxFailures
  /\ expected \in [Keys -> SUBSET (Values \cup {None})]

\* The type invariant, apart for the tree and for the insert under way
LEMMA TypesAre == TypeOK <=> TreeTypes /\ CallTypes
BY DEF TypeOK, TreeTypes, CallTypes, Pages

\* Pages in use are page numbers, and None is not one
LEMMA PagesAre ==
  ASSUME TreeTypes
  PROVE  /\ Pages \subseteq PageNos /\ count \in Nat /\ MaxPages \in Nat /\ None \notin PageNos
         /\ \A p \in Pages : p \in 0 .. MaxPages - 1
         /\ None \notin Pages /\ 0 \in Pages
BY BTreeAssumption DEF TreeTypes, Pages, PageNos

\* Every entry has a key, and keys are integers
LEMMA EntriesHaveKeys ==
  /\ \A x \in Entry : x.key \in Int /\ x.key \in Keys
  /\ \A x \in ChildEntry : x.key \in Int /\ x.key \in Keys
BY BTreeAssumption DEF Entry, ChildEntry

\* A page in use holds a leaf or an internal node that fits its page
LEMMA NodesAre ==
  ASSUME TreeTypes, NEW p \in Pages
  PROVE  /\ nodes[p].leaf \in BOOLEAN
         /\ nodes[p].leaf => nodes[p] \in LeafNode /\ Len(nodes[p].entries) <= MaxLeafEntries
         /\ ~nodes[p].leaf =>
              nodes[p] \in InternalNode /\ Len(nodes[p].entries) <= MaxInternalEntries
BY DEF TreeTypes, Fits, LeafNode, InternalNode

\* Leaf makes a node of the type of leaves
LEMMA LeafFits ==
  ASSUME NEW s \in Seq(Entry), Len(s) <= MaxLeafEntries, NEW l \in MaybePage, NEW r \in MaybePage
  PROVE  /\ Fits(Leaf(s, l, r)) /\ Leaf(s, l, r) \in LeafNode
         /\ Leaf(s, l, r).leaf /\ Leaf(s, l, r).entries = s
         /\ Leaf(s, l, r).prev = l /\ Leaf(s, l, r).next = r
BY DEF Fits, Leaf, LeafNode

\* Internal makes a node of the type of internal nodes
LEMMA InternalFits ==
  ASSUME NEW s \in Seq(ChildEntry), Len(s) <= MaxInternalEntries, NEW f \in PageNos
  PROVE  /\ Fits(Internal(f, s)) /\ Internal(f, s) \in InternalNode
         /\ ~Internal(f, s).leaf /\ Internal(f, s).entries = s /\ Internal(f, s).first = f
BY DEF Fits, Internal, InternalNode

\* BTree::new leaves one empty leaf
LEMMA InitTyped == Init => TInv
PROOF
<1> SUFFICES ASSUME Init PROVE TInv
  OBVIOUS
<1>1. MaxPages \in Nat \ {0} /\ 0 \in PageNos /\ None \notin PageNos /\ MaxLeafEntries \in Nat
  BY BTreeAssumption DEF PageNos
<1>2. <<>> \in Seq(Entry) /\ Len(<<>>) = 0 /\ None \in MaybePage
  BY DEF MaybePage
<1>3. /\ Fits(Leaf(<<>>, None, None)) /\ Leaf(<<>>, None, None).leaf
      /\ Leaf(<<>>, None, None).prev = None /\ Leaf(<<>>, None, None).next = None
  <2>1. Len(<<>>) <= MaxLeafEntries
    BY <1>1, <1>2
  <2> DEFINE s == <<>>
  <2>2. s \in Seq(Entry) /\ Len(s) <= MaxLeafEntries
    BY <1>2, <2>1
  <2> HIDE DEF s
  <2>3. /\ Fits(Leaf(s, None, None)) /\ Leaf(s, None, None).leaf
        /\ Leaf(s, None, None).prev = None /\ Leaf(s, None, None).next = None
    BY <1>2, <2>2, LeafFits
  <2> QED
    BY <2>3 DEF s
<1>4. Pages = {0} /\ nodes[0] = Leaf(<<>>, None, None)
  BY <1>1 DEF Init, Pages
<1>5. TreeTypes
  BY <1>1, <1>3, <1>4 DEF Init, TreeTypes
<1>6. CallTypes
  BY <1>1, BTreeAssumption DEF Init, CallTypes, MaybePage
<1>7. Linked
  BY <1>3, <1>4 DEF Linked, Children
<1>8. OnTheWay
  BY DEF Init, OnTheWay
<1> QED
  BY <1>5, <1>6, <1>7, <1>8, TypesAre DEF TInv

\* A step that leaves the pages alone
LEMMA TreeUntouched ==
  ASSUME TreeTypes, Linked, UNCHANGED tree
  PROVE  TreeTypes' /\ Linked'
BY DEF TreeTypes, Linked, Children, tree, Pages

\* The end of an insert
LEMMA IdleTyped ==
  ASSUME CallTypes, Idle, failures' \in 0 .. MaxFailures,
         expected' \in [Keys -> SUBSET (Values \cup {None})]
  PROVE  CallTypes' /\ OnTheWay'
PROOF
<1>1. CallTypes'
  BY DEF CallTypes, Idle, MaybePage
<1>2. OnTheWay'
  BY DEF OnTheWay, Idle
<1> QED
  BY <1>1, <1>2

\* What every return from insert leaves of the call
LEMMA DoneTyped ==
  ASSUME CallTypes, pc # "idle", Done
  PROVE  CallTypes' /\ OnTheWay'
PROOF
<1>1. entry \in Entry
  BY DEF CallTypes
<1>2. expected' \in [Keys -> SUBSET (Values \cup {None})]
  BY <1>1 DEF CallTypes, Done, Entry
<1> QED
  BY <1>2, IdleTyped DEF Done, CallTypes

\* An error leaves the pages as they are
LEMMA FailTyped == TInv /\ Fail => TInv'
PROOF
<1> SUFFICES ASSUME TInv, Fail PROVE TInv'
  OBVIOUS
<1>1. TreeTypes /\ CallTypes /\ Linked
  BY TypesAre DEF TInv
<1>2. TreeTypes' /\ Linked'
  BY <1>1, TreeUntouched DEF Fail
<1>3. entry \in Entry
  BY <1>1 DEF CallTypes, Fail
<1>4. expected' \in [Keys -> SUBSET (Values \cup {None})]
  BY <1>1, <1>3 DEF CallTypes, Fail, Entry
<1>5. failures' \in 0 .. MaxFailures
  BY <1>1, BTreeAssumption DEF CallTypes, Fail
<1>6. CallTypes' /\ OnTheWay'
  BY <1>1, <1>4, <1>5, IdleTyped DEF Fail
<1> QED
  BY <1>2, <1>6, TypesAre, PTL DEF TInv

\* A call of insert starts at the root
LEMMA InsertTyped ==
  ASSUME TInv, NEW e \in Inserts, Insert(e)
  PROVE  TInv'
PROOF
<1>1. TreeTypes /\ CallTypes /\ Linked
  BY TypesAre DEF TInv
<1>2. TreeTypes' /\ Linked'
  BY <1>1, TreeUntouched DEF Insert
<1>3. e \in Entry /\ e # None
  BY BTreeAssumption, NoneAssumption DEF Entry
<1>4. root \in PageNos /\ root # None
  BY <1>1, PagesAre DEF TreeTypes
<1>5. CallTypes'
  BY <1>1, <1>3, <1>4 DEF Insert, CallTypes, MaybePage
<1>6. OnTheWay'
  <2>1. root' \in Pages' /\ path = <<>> /\ split = None
    BY <1>1, <1>2 DEF TInv, OnTheWay, CallTypes, TreeTypes, Insert, Pages, tree
  <2> QED
    BY <2>1 DEF Insert, OnTheWay, tree, Pages
<1> QED
  BY <1>2, <1>5, <1>6, TypesAre, PTL DEF TInv

\* The child a descent goes on to exists
LEMMA ChildIsChild ==
  ASSUME TreeTypes, NEW p \in Pages, ~nodes[p].leaf, NEW k \in Int
  PROVE  FindChild(nodes[p], k) \in Children(p)
PROOF
<1> DEFINE s == nodes[p].entries
           B == {i \in DOMAIN s : s[i].key <= k}
<1>1. s \in Seq(ChildEntry)
  BY NodesAre DEF InternalNode
<1>2. CASE B = {}
  BY <1>2 DEF FindChild, Children
<1>3. CASE B # {}
  <2>1. B \subseteq 1 .. Len(s) /\ Len(s) \in Nat
    BY <1>1
  <2>2. Max(B) \in B
    BY <1>3, <2>1, GreatestIsMax
  <2>3. FindChild(nodes[p], k) = s[Max(B)].child
    BY <1>3 DEF FindChild
  <2> QED
    BY <2>2, <2>3 DEF Children, ToSet
<1> QED
  BY <1>2, <1>3

\* The step down to a child comes to a page in use
LEMMA DescendTyped == TInv /\ Descend => TInv'
PROOF
<1> SUFFICES ASSUME TInv, Descend PROVE TInv'
  OBVIOUS
<1>1. TreeTypes /\ CallTypes /\ Linked /\ OnTheWay
  BY TypesAre DEF TInv
<1>2. TreeTypes' /\ Linked'
  BY <1>1, TreeUntouched DEF Descend
<1>3. at \in Pages /\ entry.key \in Int /\ split = None
  BY <1>1, EntriesHaveKeys DEF CallTypes, OnTheWay, Descend
<1>4. at' \in Pages /\ Pages \subseteq PageNos /\ None \notin Pages
  BY <1>1, <1>3, ChildIsChild, PagesAre DEF Descend, Linked
<1>5. path' \in Seq(Pages) /\ Pages' = Pages /\ Len(path') = Len(path) + 1
      /\ \A i \in 1 .. Len(path) + 1 : path'[i] = IF i <= Len(path) THEN path[i] ELSE at
  <2>1. path \in Seq(Pages)
    BY <1>1 DEF OnTheWay
  <2> QED
    BY <1>3, <2>1, AppendProperties DEF Descend, tree, Pages
<1>6. CallTypes'
  <2>1. path' \in Seq(PageNos)
    BY <1>4, <1>5
  <2> QED
    BY <1>1, <1>4, <2>1 DEF Descend, CallTypes, MaybePage
<1>7. OnTheWay'
  <2>1. \A i \in DOMAIN path' : ~nodes[path'[i]].leaf
    <3>1. DOMAIN path' = 1 .. Len(path) + 1 /\ DOMAIN path = 1 .. Len(path) /\ Len(path) \in Nat
      BY <1>1, <1>5 DEF CallTypes
    <3>2. \A i \in DOMAIN path : ~nodes[path[i]].leaf
      BY <1>1 DEF OnTheWay
    <3> QED
      BY <1>5, <3>1, <3>2 DEF Descend
  <2> QED
    BY <1>3, <1>4, <1>5, <2>1 DEF Descend, OnTheWay, tree
<1> QED
  BY <1>2, <1>6, <1>7, TypesAre, PTL DEF TInv

\* Deciding on a split writes nothing
LEMMA LeafIsFullTyped == TInv /\ LeafIsFull => TInv'
PROOF
<1> SUFFICES ASSUME TInv, LeafIsFull PROVE TInv'
  OBVIOUS
<1>1. TreeTypes /\ CallTypes /\ Linked /\ OnTheWay
  BY TypesAre DEF TInv
<1>2. TreeTypes' /\ Linked'
  BY <1>1, TreeUntouched DEF LeafIsFull
<1>3. CallTypes'
  BY <1>1 DEF LeafIsFull, CallTypes, call
<1>4. OnTheWay'
  BY <1>1 DEF LeafIsFull, OnTheWay, tree, call, Pages, NeedsSplit
<1> QED
  BY <1>2, <1>3, <1>4, TypesAre, PTL DEF TInv

\* Deciding on a split of the parent writes nothing
LEMMA ParentIsFullTyped == TInv /\ ParentIsFull => TInv'
PROOF
<1> SUFFICES ASSUME TInv, ParentIsFull PROVE TInv'
  OBVIOUS
<1>1. TreeTypes /\ CallTypes /\ Linked /\ OnTheWay
  BY TypesAre DEF TInv
<1>2. TreeTypes' /\ Linked'
  BY <1>1, TreeUntouched DEF ParentIsFull
<1>3. CallTypes'
  BY <1>1 DEF ParentIsFull, CallTypes, call
<1>4. OnTheWay'
  BY <1>1 DEF ParentIsFull, OnTheWay, tree, call, Pages, Full, Parent
<1> QED
  BY <1>2, <1>3, <1>4, TypesAre, PTL DEF TInv

-----------------------------------------------------------------------------
(***************************************************************************)
(* What the steps write.                                                   *)
(***************************************************************************)
\* The pages in W are written, the others are left alone
Writes(W) ==
  /\ DOMAIN nodes' = PageNos
  /\ \A p \in PageNos \ W : nodes'[p] = nodes[p]

\* A new page, of number count
NewPage == count' = count + 1 /\ count < MaxPages

\* new_page gives the number after the last one
LEMMA NewPageIs ==
  ASSUME TreeTypes, NewPage
  PROVE  /\ Pages' = Pages \cup {count} /\ count \in PageNos /\ count \notin Pages
         /\ count' \in 1 .. MaxPages /\ count # None
BY PagesAre DEF TreeTypes, NewPage, Pages, PageNos

\* A step keeps the types if the pages it writes have them
LEMMA WritesTyped ==
  ASSUME TreeTypes, Linked, NEW W \in SUBSET Pages', Writes(W),
         count' = count \/ (NewPage /\ count \in W), root' \in Pages',
         \A p \in W : /\ Fits(nodes'[p])
                      /\ Children(p)' \subseteq Pages'
                      /\ nodes'[p].leaf =>
                           {nodes'[p].prev, nodes'[p].next} \subseteq Pages' \cup {None}
  PROVE  TreeTypes' /\ Linked'
PROOF
<1>1. /\ Pages \subseteq PageNos /\ Pages' \subseteq PageNos /\ Pages \subseteq Pages'
      /\ count' \in 1 .. MaxPages /\ \A p \in Pages' \ W : p \in Pages
  <2>1. CASE count' = count
    BY <2>1, PagesAre DEF TreeTypes, Pages
  <2>2. CASE NewPage /\ count \in W
    BY <2>2, PagesAre, NewPageIs
  <2> QED
    BY <2>1, <2>2
<1>2. \A p \in PageNos \ W : nodes'[p] = nodes[p]
  BY DEF Writes
<1>3. \A p \in Pages' : Fits(nodes'[p])
  BY <1>1, <1>2 DEF TreeTypes
<1>4. ASSUME NEW q \in PageNos, q >= count'
      PROVE  nodes'[q] = None
  <2>1. count' >= count /\ count' \in Int /\ count \in Int /\ q \in Int
    BY <1>1 DEF TreeTypes, NewPage, PageNos
  <2>2. Pages' = 0 .. count' - 1
    BY DEF Pages
  <2>3. q \notin 0 .. count' - 1 /\ q >= count
    <3>1. \A m, n, x \in Int : m >= n /\ x >= m => x \notin 0 .. m - 1 /\ x >= n
      OBVIOUS
    <3> QED
      BY <1>4, <2>1, <3>1
  <2> QED
    BY <1>2, <1>4, <2>2, <2>3 DEF TreeTypes
<1>5. TreeTypes'
  BY <1>1, <1>3, <1>4 DEF TreeTypes, Writes
<1>6. \A p \in Pages' \ W : Children(p)' = Children(p)
  BY <1>1, <1>2 DEF Children
<1>7. Linked'
  BY <1>1, <1>2, <1>6 DEF Linked
<1> QED
  BY <1>5, <1>7

\* The middle of two or more entries leaves neither half empty
LEMMA HalfIs ==
  ASSUME NEW n \in Nat, n > 1
  PROVE  n \div 2 \in 1 .. n - 1
BY SMT

-----------------------------------------------------------------------------
Grown    == LeafInserted(nodes[at].entries, entry)
GrownUp  == EntryInserted(nodes[Parent].entries, split)
Mid(all) == Len(all) \div 2

\* The entries a leaf has with the one that is inserted
LEMMA GrownIs ==
  ASSUME TInv, pc \in {"visit", "split_leaf"}, nodes[at].leaf
  PROVE  /\ at \in Pages /\ entry \in Entry /\ split = None
         /\ nodes[at] \in LeafNode /\ Len(nodes[at].entries) <= MaxLeafEntries
         /\ nodes[at].entries \in Seq(Entry) /\ Grown \in Seq(Entry)
         /\ Len(Grown) = IF Found(nodes[at].entries, entry.key) = {}
                         THEN Len(nodes[at].entries) + 1 ELSE Len(nodes[at].entries)
PROOF
<1>1. at \in Pages /\ entry \in Entry /\ split = None
  BY TypesAre DEF TInv, CallTypes, OnTheWay
<1>2. nodes[at] \in LeafNode /\ Len(nodes[at].entries) <= MaxLeafEntries
  BY <1>1, TypesAre, NodesAre DEF TInv
<1>3. nodes[at].entries \in Seq(Entry)
  BY <1>2 DEF LeafNode
<1> QED
  BY <1>1, <1>2, <1>3, LeafInsertedIs DEF Grown

\* InsertInLeaf writes its leaf, with the links it had
LEMMA InsertInLeafWrites ==
  ASSUME TInv, InsertInLeaf
  PROVE  /\ Writes({at}) /\ UNCHANGED <<count, root>>
         /\ nodes'[at].leaf /\ nodes'[at].entries = Grown /\ nodes'[at] \in LeafNode
         /\ nodes'[at].prev = nodes[at].prev /\ nodes'[at].next = nodes[at].next
         /\ Len(Grown) <= MaxLeafEntries
PROOF
<1>1. /\ at \in Pages /\ nodes[at] \in LeafNode /\ Len(nodes[at].entries) <= MaxLeafEntries
      /\ nodes[at].entries \in Seq(Entry) /\ Grown \in Seq(Entry)
      /\ Len(Grown) = IF Found(nodes[at].entries, entry.key) = {}
                      THEN Len(nodes[at].entries) + 1 ELSE Len(nodes[at].entries)
  BY GrownIs DEF InsertInLeaf
<1>2. Len(Grown) <= MaxLeafEntries
  BY <1>1, BTreeAssumption DEF InsertInLeaf, NeedsSplit
<1>3. DOMAIN nodes = PageNos /\ at \in PageNos
  BY <1>1, TypesAre, PagesAre DEF TInv, TreeTypes
<1>4. nodes' = [nodes EXCEPT ![at] = [nodes[at] EXCEPT !.entries = Grown]]
  BY DEF InsertInLeaf, Grown
<1>5. /\ DOMAIN nodes' = PageNos
      /\ \A p \in PageNos \ {at} : nodes'[p] = nodes[p]
      /\ nodes'[at] = [nodes[at] EXCEPT !.entries = Grown]
  BY <1>3, <1>4
<1>6. /\ nodes'[at].leaf /\ nodes'[at].entries = Grown /\ nodes'[at] \in LeafNode
      /\ nodes'[at].prev = nodes[at].prev /\ nodes'[at].next = nodes[at].next
  BY <1>1, <1>5 DEF LeafNode
<1> QED
  BY <1>2, <1>5, <1>6 DEF Writes, InsertInLeaf

\* InsertInLeaf keeps types and links
LEMMA InsertInLeafTyped == TInv /\ InsertInLeaf => TInv'
PROOF
<1> SUFFICES ASSUME TInv, InsertInLeaf PROVE TInv'
  OBVIOUS
<1>1. TreeTypes /\ CallTypes /\ Linked /\ OnTheWay
  BY TypesAre DEF TInv
<1>2. at \in Pages /\ nodes[at].leaf
  BY GrownIs DEF InsertInLeaf
<1>3. Pages' = Pages /\ root' \in Pages'
  BY <1>1 DEF TreeTypes, InsertInLeaf, Pages
<1>4. Writes({at}) /\ count' = count
  BY InsertInLeafWrites
<1>5. Fits(nodes'[at]) /\ nodes'[at].leaf
  BY InsertInLeafWrites DEF Fits
<1>6. {nodes'[at].prev, nodes'[at].next} \subseteq Pages' \cup {None}
  BY <1>1, <1>2, <1>3, InsertInLeafWrites DEF Linked
<1>8. TreeTypes' /\ Linked'
  <2> DEFINE W == {at}
  <2>1. W \in SUBSET Pages'
    BY <1>2, <1>3
  <2>2. \A p \in W : /\ Fits(nodes'[p])
                     /\ Children(p)' \subseteq Pages'
                     /\ nodes'[p].leaf =>
                          {nodes'[p].prev, nodes'[p].next} \subseteq Pages' \cup {None}
    BY <1>5, <1>6 DEF Children
  <2>3. Writes(W)
    BY <1>4
  <2> HIDE DEF W
  <2> QED
    BY <1>1, <1>3, <1>4, <2>1, <2>2, <2>3, WritesTyped
<1>9. CallTypes' /\ OnTheWay'
  BY <1>1, DoneTyped DEF InsertInLeaf
<1> QED
  BY <1>8, <1>9, TypesAre, PTL DEF TInv

\* split_leaf writes the two halves, linked to each other
LEMMA SplitLeafWrites ==
  ASSUME TInv, SplitLeaf
  PROVE  /\ Writes({at, count}) /\ NewPage /\ at # count /\ at \in Pages
         /\ Mid(Grown) \in 1 .. Len(Grown) - 1 /\ Len(Grown) \in Nat
         /\ nodes'[at].leaf /\ nodes'[at].entries = SubSeq(Grown, 1, Mid(Grown))
         /\ nodes'[at].prev = nodes[at].prev /\ nodes'[at].next = count
         /\ nodes'[count].leaf
         /\ nodes'[count].entries = SubSeq(Grown, Mid(Grown) + 1, Len(Grown))
         /\ nodes'[count].prev = at /\ nodes'[count].next = nodes[at].next
         /\ Fits(nodes'[at]) /\ Fits(nodes'[count])
         /\ split' = [key |-> Grown[Mid(Grown) + 1].key, child |-> count]
         /\ split' \in ChildEntry
         /\ nodes[at].next \in MaybePage /\ nodes[at].prev \in MaybePage
         /\ Found(nodes[at].entries, entry.key) = {}
PROOF
<1>1. TreeTypes /\ CallTypes /\ Linked /\ OnTheWay
  BY TypesAre DEF TInv
<1>2. nodes[at].leaf /\ NeedsSplit(nodes[at].entries)
  BY <1>1 DEF OnTheWay, SplitLeaf
<1>3. /\ at \in Pages /\ nodes[at] \in LeafNode /\ Len(nodes[at].entries) <= MaxLeafEntries
      /\ nodes[at].entries \in Seq(Entry) /\ Grown \in Seq(Entry)
      /\ Len(Grown) = IF Found(nodes[at].entries, entry.key) = {}
                      THEN Len(nodes[at].entries) + 1 ELSE Len(nodes[at].entries)
  BY <1>2, GrownIs DEF SplitLeaf
<1>4. Found(nodes[at].entries, entry.key) = {}
  BY <1>2 DEF NeedsSplit
<1>5. Len(Grown) = MaxLeafEntries + 1 /\ MaxLeafEntries \in Nat \ {0} /\ Len(Grown) \in Nat
  BY <1>2, <1>3, BTreeAssumption DEF NeedsSplit
<1>6. Mid(Grown) \in 1 .. Len(Grown) - 1
  BY <1>5, HalfIs DEF Mid
<1> DEFINE left == SubSeq(Grown, 1, Mid(Grown))
           right == SubSeq(Grown, Mid(Grown) + 1, Len(Grown))
<1>7. left \in Seq(Entry) /\ Len(left) <= MaxLeafEntries
  <2>1. 1 \in 1 .. Len(Grown) + 1 /\ Mid(Grown) \in 1 - 1 .. Len(Grown)
    BY <1>5, <1>6
  <2>2. left \in Seq(Entry) /\ Len(left) = Mid(Grown) - 1 + 1
    BY <1>3, <2>1, CutIs
  <2> QED
    BY <1>5, <1>6, <2>2
<1>8. /\ right \in Seq(Entry) /\ Len(right) <= MaxLeafEntries
      /\ right[1] = Grown[Mid(Grown) + 1] /\ Grown[Mid(Grown) + 1] \in Entry
  <2>1. Mid(Grown) + 1 \in 1 .. Len(Grown) + 1 /\ Len(Grown) \in (Mid(Grown) + 1) - 1 .. Len(Grown)
    BY <1>5, <1>6
  <2>2. /\ right \in Seq(Entry) /\ Len(right) = Len(Grown) - (Mid(Grown) + 1) + 1
        /\ \A j \in 1 .. Len(Grown) - (Mid(Grown) + 1) + 1 : right[j] = Grown[(Mid(Grown) + 1) + j - 1]
    BY <1>3, <2>1, CutIs
  <2>3. 1 \in 1 .. Len(Grown) - (Mid(Grown) + 1) + 1 /\ (Mid(Grown) + 1) + 1 - 1 = Mid(Grown) + 1
    BY <1>5, <1>6
  <2>4. Mid(Grown) + 1 \in DOMAIN Grown
    BY <1>3, <1>5, <1>6
  <2> QED
    <3>1. right[1] = Grown[(Mid(Grown) + 1) + 1 - 1]
      BY <2>2, <2>3
    <3>2. Grown[Mid(Grown) + 1] \in Entry
      BY <1>3, <2>4
    <3>3. Len(right) <= MaxLeafEntries
      BY <1>5, <1>6, <2>2
    <3> QED
      BY <2>2, <2>3, <3>1, <3>2, <3>3
<1> HIDE DEF left, right
<1>9. /\ nodes' = [nodes EXCEPT ![count] = Leaf(right, at, nodes[at].next),
                                ![at] = Leaf(left, nodes[at].prev, count)]
      /\ count' = count + 1 /\ count < MaxPages
      /\ split' = [key |-> right[1].key, child |-> count]
  BY DEF SplitLeaf, left, right, Grown, Mid
<1>10. NewPage
  BY <1>9 DEF NewPage
<1>11. /\ at # count /\ at \in PageNos /\ count \in PageNos /\ DOMAIN nodes = PageNos
       /\ at \in MaybePage /\ count \in MaybePage
       /\ nodes[at].prev \in MaybePage /\ nodes[at].next \in MaybePage
  BY <1>1, <1>3, <1>10, NewPageIs, PagesAre DEF TreeTypes, MaybePage, LeafNode
<1>12. /\ nodes'[at] = Leaf(left, nodes[at].prev, count)
       /\ nodes'[count] = Leaf(right, at, nodes[at].next)
       /\ DOMAIN nodes' = PageNos
       /\ \A p \in PageNos \ {at, count} : nodes'[p] = nodes[p]
  BY <1>9, <1>11
<1>13. /\ nodes'[at].leaf /\ nodes'[at].entries = left
       /\ nodes'[at].prev = nodes[at].prev /\ nodes'[at].next = count
       /\ Fits(nodes'[at])
  BY <1>7, <1>11, <1>12, LeafFits
<1>14. /\ nodes'[count].leaf /\ nodes'[count].entries = right
       /\ nodes'[count].prev = at /\ nodes'[count].next = nodes[at].next
       /\ Fits(nodes'[count])
  BY <1>8, <1>11, <1>12, LeafFits
<1>15. /\ split' = [key |-> Grown[Mid(Grown) + 1].key, child |-> count]
       /\ split' \in ChildEntry
  BY <1>8, <1>9, <1>11 DEF ChildEntry, Entry
<1> QED
  BY <1>3, <1>4, <1>5, <1>6, <1>10, <1>11, <1>12, <1>13, <1>14, <1>15 DEF Writes, left, right

\* split_leaf keeps types and links
LEMMA SplitLeafTyped == TInv /\ SplitLeaf => TInv'
PROOF
<1> SUFFICES ASSUME TInv, SplitLeaf PROVE TInv'
  OBVIOUS
<1>1. TreeTypes /\ CallTypes /\ Linked /\ OnTheWay
  BY TypesAre DEF TInv
<1>2. /\ Writes({at, count}) /\ NewPage /\ at # count /\ at \in Pages
      /\ nodes'[at].leaf /\ nodes'[at].prev = nodes[at].prev /\ nodes'[at].next = count
      /\ nodes'[count].leaf /\ nodes'[count].prev = at /\ nodes'[count].next = nodes[at].next
      /\ Fits(nodes'[at]) /\ Fits(nodes'[count])
      /\ split' = [key |-> Grown[Mid(Grown) + 1].key, child |-> count]
      /\ split' \in ChildEntry
  BY SplitLeafWrites
<1>3. /\ Pages' = Pages \cup {count} /\ count \in PageNos /\ count \notin Pages
      /\ count # None
  BY <1>1, <1>2, NewPageIs
<1>4. nodes[at].leaf
  BY <1>1 DEF OnTheWay, SplitLeaf
<1>5. {nodes[at].prev, nodes[at].next} \subseteq Pages \cup {None}
  BY <1>1, <1>2, <1>4 DEF Linked
<1>6. TreeTypes' /\ Linked'
  <2> DEFINE W == {at, count}
  <2>1. W \in SUBSET Pages' /\ count \in W
    BY <1>2, <1>3
  <2>2. \A p \in W : /\ Fits(nodes'[p])
                     /\ Children(p)' \subseteq Pages'
                     /\ nodes'[p].leaf =>
                          {nodes'[p].prev, nodes'[p].next} \subseteq Pages' \cup {None}
    BY <1>2, <1>3, <1>5 DEF Children
  <2>3. Writes(W) /\ root' \in Pages'
    BY <1>1, <1>2, <1>3 DEF SplitLeaf, TreeTypes
  <2> HIDE DEF W
  <2> QED
    BY <1>1, <1>2, <2>1, <2>2, <2>3, WritesTyped
<1>7. split' # None
  BY <1>2, NoneAssumption
<1>8. CallTypes'
  BY <1>1, <1>2, <1>7 DEF CallTypes, SplitLeaf
<1>9. split'.child = count
  BY <1>2
<1>10. \A i \in DOMAIN path : path[i] \in Pages /\ path[i] # at /\ path[i] # count
  BY <1>1, <1>3, <1>4 DEF OnTheWay
<1>11. \A i \in DOMAIN path' : ~nodes'[path'[i]].leaf
  BY <1>1, <1>2, <1>10, PagesAre DEF OnTheWay, SplitLeaf, Writes
<1>12. path' \in Seq(Pages')
  BY <1>1, <1>3 DEF OnTheWay, SplitLeaf
<1>13. OnTheWay'
  BY <1>1, <1>2, <1>3, <1>7, <1>9, <1>11, <1>12 DEF OnTheWay, SplitLeaf
<1> QED
  BY <1>6, <1>8, <1>13, TypesAre, PTL DEF TInv

\* The last step of split_leaf writes one link of the next leaf
LEMMA RelinkWrites ==
  ASSUME TInv, Relink
  PROVE  LET p == nodes[split.child].next IN
         /\ p \in Pages /\ Writes({p}) /\ split # None
         /\ nodes'[p].leaf = nodes[p].leaf /\ nodes'[p].entries = nodes[p].entries
         /\ nodes[p].leaf => /\ nodes'[p].next = nodes[p].next
                             /\ nodes'[p].prev = split.child
                             /\ nodes'[p] \in LeafNode
         /\ ~nodes[p].leaf => nodes'[p] = nodes[p]
PROOF
<1> DEFINE p == nodes[split.child].next
<1>1. TreeTypes /\ CallTypes /\ Linked /\ OnTheWay
  BY TypesAre DEF TInv
<1>2. split # None /\ split.child \in Pages /\ nodes[split.child].leaf /\ p # None
  BY <1>1 DEF OnTheWay, CallTypes, Relink
<1>3. p \in Pages /\ p \in PageNos /\ DOMAIN nodes = PageNos
  BY <1>1, <1>2, PagesAre DEF Linked, TreeTypes
<1>4. nodes' = [nodes EXCEPT ![p] = [nodes[p] EXCEPT !.prev = split.child]]
  BY DEF Relink
<1>5. split.child \in MaybePage
  BY <1>1, <1>2, PagesAre DEF MaybePage
<1> HIDE DEF p
<1>6. /\ DOMAIN nodes' = PageNos /\ \A q \in PageNos \ {p} : nodes'[q] = nodes[q]
      /\ nodes'[p] = [nodes[p] EXCEPT !.prev = split.child]
  BY <1>3, <1>4
<1>7. CASE nodes[p].leaf
  <2>1. nodes[p] \in LeafNode
    BY <1>1, <1>3, <1>7, NodesAre
  <2>2. /\ nodes'[p] \in LeafNode /\ nodes'[p].leaf = nodes[p].leaf
        /\ nodes'[p].entries = nodes[p].entries
        /\ nodes'[p].next = nodes[p].next /\ nodes'[p].prev = split.child
    BY <1>5, <1>6, <2>1 DEF LeafNode
  <2> QED
    BY <1>2, <1>3, <1>6, <1>7, <2>2 DEF Writes, p
<1>8. CASE ~nodes[p].leaf
  <2>1. nodes[p] \in InternalNode
    BY <1>1, <1>3, <1>8, NodesAre
  <2>2. nodes'[p] = nodes[p]
    BY <1>6, <2>1 DEF InternalNode
  <2> QED
    BY <1>2, <1>3, <1>6, <1>8, <2>2 DEF Writes, p
<1> QED
  BY <1>7, <1>8

\* The last step of split_leaf keeps types and links
LEMMA RelinkTyped == TInv /\ Relink => TInv'
PROOF
<1> SUFFICES ASSUME TInv, Relink PROVE TInv'
  OBVIOUS
<1> DEFINE p == nodes[split.child].next
<1>1. TreeTypes /\ CallTypes /\ Linked /\ OnTheWay
  BY TypesAre DEF TInv
<1>2. /\ p \in Pages /\ Writes({p}) /\ split # None
      /\ nodes'[p].leaf = nodes[p].leaf /\ nodes'[p].entries = nodes[p].entries
      /\ nodes[p].leaf => /\ nodes'[p].next = nodes[p].next
                          /\ nodes'[p].prev = split.child
                          /\ nodes'[p] \in LeafNode
      /\ ~nodes[p].leaf => nodes'[p] = nodes[p]
  BY RelinkWrites
<1> HIDE DEF p
<1>3. Pages' = Pages /\ root' = root /\ count' = count
  BY DEF Relink, Pages
<1>4. Fits(nodes'[p])
  BY <1>1, <1>2, NodesAre DEF Fits
<1>5. ASSUME NEW q, q = p
      PROVE  Children(q)' = Children(q)
  <2>1. CASE nodes[p].leaf
    BY <1>2, <1>5, <2>1 DEF Children
  <2>2. CASE ~nodes[p].leaf
    <3>1. nodes'[q] = nodes[q]
      BY <1>2, <1>5, <2>2
    <3> QED
      BY <3>1 DEF Children
  <2> QED
    BY <2>1, <2>2
<1>6. TreeTypes' /\ Linked'
  <2> DEFINE W == {p}
  <2>1. W \in SUBSET Pages'
    BY <1>2, <1>3
  <2>2. \A q \in W : /\ Fits(nodes'[q])
                     /\ Children(q)' \subseteq Pages'
                     /\ nodes'[q].leaf =>
                          {nodes'[q].prev, nodes'[q].next} \subseteq Pages' \cup {None}
    <3> SUFFICES ASSUME NEW q, q = p
                 PROVE  /\ Fits(nodes'[q])
                        /\ Children(q)' \subseteq Pages'
                        /\ nodes'[q].leaf =>
                             {nodes'[q].prev, nodes'[q].next} \subseteq Pages' \cup {None}
      OBVIOUS
    <3>1. Children(q) \subseteq Pages /\ (nodes[q].leaf => nodes[q].next \in Pages \cup {None})
      BY <1>1, <1>2 DEF Linked
    <3>2. Children(q)' \subseteq Pages'
      BY <1>3, <1>5, <3>1
    <3>3. split.child \in Pages
      BY <1>1, <1>2 DEF OnTheWay
    <3> QED
      BY <1>2, <1>3, <1>4, <3>1, <3>2, <3>3
  <2>3. Writes(W) /\ root' \in Pages'
    BY <1>1, <1>2, <1>3 DEF TreeTypes
  <2> HIDE DEF W
  <2> QED
    BY <1>1, <1>3, <2>1, <2>2, <2>3, WritesTyped
<1>7. CallTypes'
  BY <1>1 DEF CallTypes, Relink, call
<1>8. \A q \in Pages : nodes'[q].leaf = nodes[q].leaf
  BY <1>1, <1>2, PagesAre DEF Writes
<1>9. path \in Seq(Pages) /\ \A i \in DOMAIN path : path[i] \in Pages
  BY <1>1 DEF OnTheWay
<1>10. OnTheWay'
  BY <1>1, <1>3, <1>8, <1>9 DEF OnTheWay, Relink, call
<1> QED
  BY <1>6, <1>7, <1>10, TypesAre, PTL DEF TInv


-----------------------------------------------------------------------------
\* An internal node grows by the entry that is inserted
LEMMA EntryInsertedIs ==
  ASSUME NEW T, NEW s \in Seq(T), NEW e \in T
  PROVE  /\ EntryInserted(s, e) \in Seq(T)
         /\ Len(EntryInserted(s, e)) = Len(s) + 1
         /\ ToSet(EntryInserted(s, e)) \subseteq ToSet(s) \cup {e}
PROOF
<1> DEFINE i == Before(s, e.key) + 1
           t == EntryInserted(s, e)
<1>1. i \in 1 .. Len(s) + 1
  <2>1. Before(s, e.key) \in 0 .. Len(s)
    BY BeforeBounded
  <2> QED
    BY <2>1
<1>2. /\ t \in Seq(T) /\ Len(t) = Len(s) + 1
      /\ \A j \in 1 .. Len(s) + 1 :
           t[j] = IF j < i THEN s[j] ELSE IF j = i THEN e ELSE s[j - 1]
  <2> HIDE DEF i
  <2>1. InsertAt(s, i, e) \in Seq(T) /\ PutAt(InsertAt(s, i, e), s, i, e)
    BY <1>1, InsertAtIs
  <2> QED
    BY <2>1 DEF PutAt, EntryInserted, i
<1> HIDE DEF i, t
<1>3. \A j \in DOMAIN t : t[j] \in ToSet(s) \cup {e}
  <2> SUFFICES ASSUME NEW j \in 1 .. Len(s) + 1
               PROVE  t[j] \in ToSet(s) \cup {e}
    BY <1>2
  <2>1. j < i => j \in DOMAIN s
    BY <1>1
  <2>2. j > i => j - 1 \in DOMAIN s
    BY <1>1
  <2>3. j \in Int /\ i \in Int
    BY <1>1
  <2> QED
    BY <1>2, <2>1, <2>2, <2>3 DEF ToSet
<1>4. ToSet(t) \subseteq ToSet(s) \cup {e}
  BY <1>3 DEF ToSet
<1> QED
  BY <1>2, <1>4 DEF t

\* While a split waits for its parent, the path ends in an internal node
LEMMA ParentIs ==
  ASSUME TInv, pc \in {"ascend", "split_internal"}, path # <<>>
  PROVE  /\ Parent \in Pages /\ Parent = path[Len(path)] /\ Len(path) \in Nat \ {0}
         /\ ~nodes[Parent].leaf /\ nodes[Parent] \in InternalNode
         /\ nodes[Parent].entries \in Seq(ChildEntry) /\ nodes[Parent].first \in PageNos
         /\ Len(nodes[Parent].entries) <= MaxInternalEntries
         /\ split \in ChildEntry /\ split # None /\ split.child \in Pages
         /\ GrownUp \in Seq(ChildEntry) /\ Len(GrownUp) = Len(nodes[Parent].entries) + 1
         /\ ToSet(GrownUp) \subseteq ToSet(nodes[Parent].entries) \cup {split}
         /\ Front(path) \in Seq(Pages) /\ Len(Front(path)) = Len(path) - 1
         /\ \A i \in 1 .. Len(path) - 1 : Front(path)[i] = path[i]
PROOF
<1>1. TreeTypes /\ CallTypes /\ Linked /\ OnTheWay
  BY TypesAre DEF TInv
<1>2. Len(path) \in Nat \ {0} /\ Parent = path[Len(path)] /\ Len(path) \in DOMAIN path
  BY <1>1 DEF OnTheWay, Parent, Last
<1>3. Parent \in Pages /\ ~nodes[Parent].leaf
  BY <1>1, <1>2 DEF OnTheWay
<1>4. nodes[Parent] \in InternalNode /\ Len(nodes[Parent].entries) <= MaxInternalEntries
  BY <1>1, <1>3, NodesAre
<1>5. nodes[Parent].entries \in Seq(ChildEntry) /\ nodes[Parent].first \in PageNos
  BY <1>4 DEF InternalNode
<1>6. split \in ChildEntry /\ split # None /\ split.child \in Pages
  BY <1>1 DEF CallTypes, OnTheWay
<1>7. /\ GrownUp \in Seq(ChildEntry) /\ Len(GrownUp) = Len(nodes[Parent].entries) + 1
      /\ ToSet(GrownUp) \subseteq ToSet(nodes[Parent].entries) \cup {split}
  BY <1>5, <1>6, EntryInsertedIs DEF GrownUp
<1>8. /\ Front(path) \in Seq(Pages) /\ Len(Front(path)) = Len(path) - 1
      /\ \A i \in 1 .. Len(path) - 1 : Front(path)[i] = path[i]
  <2>1. path \in Seq(Pages) /\ 1 \in 1 .. Len(path) + 1 /\ Len(path) - 1 \in 1 - 1 .. Len(path)
    BY <1>1, <1>2 DEF OnTheWay
  <2> DEFINE n == Len(path) - 1
  <2>2. n - 1 + 1 = n /\ \A j \in 1 .. n : 1 + j - 1 = j
    BY <1>2
  <2>3. /\ SubSeq(path, 1, n) \in Seq(Pages) /\ Len(SubSeq(path, 1, n)) = n - 1 + 1
        /\ \A j \in 1 .. n - 1 + 1 : SubSeq(path, 1, n)[j] = path[1 + j - 1]
    <3> HIDE DEF n
    <3>1. n \in 1 - 1 .. Len(path)
      BY <2>1 DEF n
    <3> QED
      BY <2>1, <3>1, CutIs
  <2> QED
    BY <2>2, <2>3 DEF Front
<1> QED
  BY <1>2, <1>3, <1>4, <1>5, <1>6, <1>7, <1>8

\* AddToParent writes the parent
LEMMA AddToParentWrites ==
  ASSUME TInv, AddToParent
  PROVE  /\ Parent \in Pages /\ Writes({Parent}) /\ UNCHANGED <<count, root>>
         /\ nodes[Parent] \in InternalNode /\ nodes'[Parent] \in InternalNode
         /\ ~nodes'[Parent].leaf /\ ~nodes[Parent].leaf
         /\ nodes'[Parent].first = nodes[Parent].first
         /\ nodes'[Parent].entries = GrownUp /\ Len(GrownUp) <= MaxInternalEntries
PROOF
<1>1. /\ Parent \in Pages /\ ~nodes[Parent].leaf /\ nodes[Parent] \in InternalNode
      /\ nodes[Parent].entries \in Seq(ChildEntry)
      /\ Len(nodes[Parent].entries) <= MaxInternalEntries
      /\ GrownUp \in Seq(ChildEntry) /\ Len(GrownUp) = Len(nodes[Parent].entries) + 1
  BY ParentIs DEF AddToParent
<1>2. Len(GrownUp) <= MaxInternalEntries
  BY <1>1, BTreeAssumption DEF AddToParent, Full
<1>3. DOMAIN nodes = PageNos /\ Parent \in PageNos
  BY <1>1, TypesAre, PagesAre DEF TInv, TreeTypes
<1>4. nodes' = [nodes EXCEPT ![Parent] = [nodes[Parent] EXCEPT !.entries = GrownUp]]
  BY DEF AddToParent, GrownUp
<1>5. /\ DOMAIN nodes' = PageNos
      /\ \A p \in PageNos \ {Parent} : nodes'[p] = nodes[p]
      /\ nodes'[Parent] = [nodes[Parent] EXCEPT !.entries = GrownUp]
  BY <1>3, <1>4
<1>6. /\ ~nodes'[Parent].leaf /\ nodes'[Parent].entries = GrownUp
      /\ nodes'[Parent] \in InternalNode /\ nodes'[Parent].first = nodes[Parent].first
  BY <1>1, <1>5 DEF InternalNode
<1> QED
  BY <1>1, <1>2, <1>5, <1>6 DEF Writes, AddToParent

\* AddToParent keeps types and links
LEMMA AddToParentTyped == TInv /\ AddToParent => TInv'
PROOF
<1> SUFFICES ASSUME TInv, AddToParent PROVE TInv'
  OBVIOUS
<1> DEFINE p == Parent
<1>1. TreeTypes /\ CallTypes /\ Linked /\ OnTheWay
  BY TypesAre DEF TInv
<1>2. /\ p \in Pages /\ Writes({p}) /\ count' = count /\ root' = root
      /\ nodes'[p] \in InternalNode /\ ~nodes'[p].leaf /\ ~nodes[p].leaf
      /\ nodes'[p].first = nodes[p].first
      /\ nodes'[p].entries = GrownUp /\ Len(GrownUp) <= MaxInternalEntries
  BY AddToParentWrites
<1>3. split.child \in Pages /\ ToSet(GrownUp) \subseteq ToSet(nodes[p].entries) \cup {split}
  BY ParentIs DEF AddToParent
<1> HIDE DEF p
<1>4. Pages' = Pages /\ root' \in Pages'
  BY <1>1, <1>2 DEF TreeTypes, Pages
<1>5. Fits(nodes'[p])
  BY <1>2 DEF Fits
<1>6. ASSUME NEW q, q = p
      PROVE  Children(q)' \subseteq Pages'
  <2>1. {nodes[p].first} \cup {e.child : e \in ToSet(nodes[p].entries)} \subseteq Pages
    BY <1>1, <1>2 DEF Linked, Children
  <2>2. \A e \in ToSet(GrownUp) : e.child \in Pages
    BY <1>3, <2>1
  <2> QED
    BY <1>2, <1>4, <1>6, <2>1, <2>2 DEF Children
<1>7. TreeTypes' /\ Linked'
  <2> DEFINE W == {p}
  <2>1. W \in SUBSET Pages' /\ Writes(W)
    BY <1>2, <1>4
  <2>2. \A q \in W : /\ Fits(nodes'[q])
                     /\ Children(q)' \subseteq Pages'
                     /\ nodes'[q].leaf =>
                          {nodes'[q].prev, nodes'[q].next} \subseteq Pages' \cup {None}
    BY <1>2, <1>5, <1>6
  <2> HIDE DEF W
  <2> QED
    BY <1>1, <1>2, <1>4, <2>1, <2>2, WritesTyped
<1>8. CallTypes' /\ OnTheWay'
  BY <1>1, DoneTyped DEF AddToParent
<1> QED
  BY <1>7, <1>8, TypesAre, PTL DEF TInv

Up == GrownUp[Mid(GrownUp) + 1]

\* split_internal writes the entries left and right of the middle one
LEMMA SplitInternalWrites ==
  ASSUME TInv, SplitInternal
  PROVE  /\ path # <<>> /\ Writes({Parent, count}) /\ NewPage
         /\ Parent # count /\ Parent \in Pages
         /\ nodes[Parent] \in InternalNode /\ ~nodes[Parent].leaf
         /\ Mid(GrownUp) \in 1 .. Len(GrownUp) - 1 /\ Len(GrownUp) \in Nat
         /\ Up \in ChildEntry /\ Mid(GrownUp) + 1 \in DOMAIN GrownUp
         /\ ~nodes'[Parent].leaf /\ nodes'[Parent].first = nodes[Parent].first
         /\ nodes'[Parent].entries = SubSeq(GrownUp, 1, Mid(GrownUp))
         /\ ~nodes'[count].leaf /\ nodes'[count].first = Up.child
         /\ nodes'[count].entries = SubSeq(GrownUp, Mid(GrownUp) + 2, Len(GrownUp))
         /\ nodes'[Parent] \in InternalNode /\ nodes'[count] \in InternalNode
         /\ Fits(nodes'[Parent]) /\ Fits(nodes'[count])
         /\ ToSet(nodes'[Parent].entries) \subseteq ToSet(GrownUp)
         /\ ToSet(nodes'[count].entries) \subseteq ToSet(GrownUp)
         /\ split' = [key |-> Up.key, child |-> count] /\ split' \in ChildEntry
PROOF
<1>1. TreeTypes /\ CallTypes /\ Linked /\ OnTheWay
  BY TypesAre DEF TInv
<1>2. path # <<>> /\ Full(nodes[Parent])
  BY <1>1 DEF OnTheWay, SplitInternal
<1>3. /\ Parent \in Pages /\ ~nodes[Parent].leaf /\ nodes[Parent] \in InternalNode
      /\ nodes[Parent].entries \in Seq(ChildEntry) /\ nodes[Parent].first \in PageNos
      /\ Len(nodes[Parent].entries) <= MaxInternalEntries
      /\ GrownUp \in Seq(ChildEntry) /\ Len(GrownUp) = Len(nodes[Parent].entries) + 1
  BY <1>2, ParentIs DEF SplitInternal
<1>4. /\ Len(GrownUp) = MaxInternalEntries + 1 /\ MaxInternalEntries \in Nat \ {0}
      /\ Len(GrownUp) \in Nat
  BY <1>2, <1>3, BTreeAssumption DEF Full
<1>5. Mid(GrownUp) \in 1 .. Len(GrownUp) - 1
  BY <1>4, HalfIs DEF Mid
<1> DEFINE n == Len(GrownUp)
           m == Mid(GrownUp)
           left == SubSeq(GrownUp, 1, m)
           right == SubSeq(GrownUp, m + 2, n)
<1>6. left \in Seq(ChildEntry) /\ Len(left) = m /\ \A j \in 1 .. m : left[j] = GrownUp[j]
  <2>1. 1 \in 1 .. n + 1 /\ m \in 1 - 1 .. n /\ m - 1 + 1 = m /\ \A j \in 1 .. m : 1 + j - 1 = j
    BY <1>4, <1>5
  <2>2. /\ left \in Seq(ChildEntry) /\ Len(left) = m - 1 + 1
        /\ \A j \in 1 .. m - 1 + 1 : left[j] = GrownUp[1 + j - 1]
    BY <1>3, <2>1, CutIs
  <2> QED
    BY <2>1, <2>2
<1>7. /\ right \in Seq(ChildEntry) /\ Len(right) = n - m - 1
      /\ \A j \in 1 .. n - m - 1 : right[j] = GrownUp[m + 1 + j]
  <2>1. m + 2 \in 1 .. n + 1 /\ n \in (m + 2) - 1 .. n
    BY <1>4, <1>5
  <2>2. n - (m + 2) + 1 = n - m - 1 /\ \A j \in 1 .. n - m - 1 : (m + 2) + j - 1 = m + 1 + j
    BY <1>4, <1>5
  <2>3. /\ right \in Seq(ChildEntry) /\ Len(right) = n - (m + 2) + 1
        /\ \A j \in 1 .. n - (m + 2) + 1 : right[j] = GrownUp[(m + 2) + j - 1]
    BY <1>3, <2>1, CutIs
  <2> QED
    BY <2>2, <2>3
<1> HIDE DEF left, right
<1>8. Len(left) <= MaxInternalEntries /\ Len(right) <= MaxInternalEntries
  BY <1>4, <1>5, <1>6, <1>7
<1>9. ToSet(left) \subseteq ToSet(GrownUp) /\ ToSet(right) \subseteq ToSet(GrownUp)
  <2>1. \A j \in DOMAIN left : left[j] \in ToSet(GrownUp)
    <3> SUFFICES ASSUME NEW j \in 1 .. m
                 PROVE  left[j] \in ToSet(GrownUp)
      BY <1>6
    <3>1. j \in DOMAIN GrownUp
      BY <1>3, <1>4, <1>5
    <3> QED
      BY <1>6, <3>1 DEF ToSet
  <2>2. \A j \in DOMAIN right : right[j] \in ToSet(GrownUp)
    <3> SUFFICES ASSUME NEW j \in 1 .. n - m - 1
                 PROVE  right[j] \in ToSet(GrownUp)
      BY <1>7
    <3>1. m + 1 + j \in DOMAIN GrownUp
      BY <1>3, <1>4, <1>5
    <3> QED
      BY <1>7, <3>1 DEF ToSet
  <2> QED
    BY <2>1, <2>2 DEF ToSet
<1>10. m + 1 \in DOMAIN GrownUp /\ Up \in ChildEntry /\ Up.child \in PageNos /\ Up.key \in Keys
  <2>1. m + 1 \in DOMAIN GrownUp
    BY <1>3, <1>4, <1>5
  <2>2. Up \in ChildEntry
    BY <1>3, <2>1 DEF Up
  <2> QED
    BY <2>1, <2>2 DEF ChildEntry
<1>11. /\ nodes' = [nodes EXCEPT ![count]  = Internal(Up.child, right),
                                 ![Parent] = Internal(nodes[Parent].first, left)]
       /\ count' = count + 1 /\ count < MaxPages
       /\ split' = [key |-> Up.key, child |-> count]
  BY DEF SplitInternal, left, right, GrownUp, Mid, Up
<1>12. NewPage
  BY <1>11 DEF NewPage
<1>13. Parent # count /\ Parent \in PageNos /\ count \in PageNos /\ DOMAIN nodes = PageNos
  BY <1>1, <1>3, <1>12, NewPageIs, PagesAre DEF TreeTypes
<1>14. /\ nodes'[Parent] = Internal(nodes[Parent].first, left)
       /\ nodes'[count] = Internal(Up.child, right)
       /\ DOMAIN nodes' = PageNos
       /\ \A p \in PageNos \ {Parent, count} : nodes'[p] = nodes[p]
  BY <1>11, <1>13
<1>15. /\ Fits(nodes'[Parent]) /\ nodes'[Parent] \in InternalNode /\ ~nodes'[Parent].leaf
       /\ nodes'[Parent].entries = left /\ nodes'[Parent].first = nodes[Parent].first
  BY <1>3, <1>6, <1>8, <1>14, InternalFits
<1>16. /\ Fits(nodes'[count]) /\ nodes'[count] \in InternalNode /\ ~nodes'[count].leaf
       /\ nodes'[count].entries = right /\ nodes'[count].first = Up.child
  BY <1>7, <1>8, <1>10, <1>14, InternalFits
<1>17. split' \in ChildEntry
  BY <1>10, <1>11, <1>13 DEF ChildEntry
<1> QED
  BY <1>2, <1>3, <1>4, <1>5, <1>9, <1>10, <1>11, <1>12, <1>13, <1>14, <1>15, <1>16, <1>17
     DEF Writes, left, right

\* split_internal keeps types and links
LEMMA SplitInternalTyped == TInv /\ SplitInternal => TInv'
PROOF
<1> SUFFICES ASSUME TInv, SplitInternal PROVE TInv'
  OBVIOUS
<1> DEFINE p == Parent
<1>1. TreeTypes /\ CallTypes /\ Linked /\ OnTheWay
  BY TypesAre DEF TInv
<1>2. /\ path # <<>> /\ Writes({p, count}) /\ NewPage /\ p # count /\ p \in Pages
      /\ ~nodes[p].leaf /\ Up \in ChildEntry /\ Mid(GrownUp) + 1 \in DOMAIN GrownUp
      /\ ~nodes'[p].leaf /\ nodes'[p].first = nodes[p].first
      /\ ~nodes'[count].leaf /\ nodes'[count].first = Up.child
      /\ Fits(nodes'[p]) /\ Fits(nodes'[count])
      /\ ToSet(nodes'[p].entries) \subseteq ToSet(GrownUp)
      /\ ToSet(nodes'[count].entries) \subseteq ToSet(GrownUp)
      /\ split' = [key |-> Up.key, child |-> count] /\ split' \in ChildEntry
  BY SplitInternalWrites
<1>3. /\ split.child \in Pages /\ ToSet(GrownUp) \subseteq ToSet(nodes[p].entries) \cup {split}
      /\ GrownUp \in Seq(ChildEntry)
      /\ Front(path) \in Seq(Pages) /\ Len(Front(path)) = Len(path) - 1
      /\ \A i \in 1 .. Len(path) - 1 : Front(path)[i] = path[i]
      /\ Len(path) \in Nat \ {0}
  BY <1>2, ParentIs DEF SplitInternal
<1> HIDE DEF p
<1>4. /\ Pages' = Pages \cup {count} /\ count \in PageNos /\ count \notin Pages
      /\ count # None
  BY <1>1, <1>2, NewPageIs
<1>5. {nodes[p].first} \cup {e.child : e \in ToSet(nodes[p].entries)} \subseteq Pages
  BY <1>1, <1>2 DEF Linked, Children
<1>6. \A e \in ToSet(GrownUp) : e.child \in Pages
  BY <1>3, <1>5
<1>7. Up.child \in Pages
  BY <1>2, <1>3, <1>6 DEF Up, ToSet
<1>8. ASSUME NEW q \in {p, count}
      PROVE  Children(q)' \subseteq Pages'
  BY <1>2, <1>4, <1>5, <1>6, <1>7, <1>8 DEF Children
<1>9. TreeTypes' /\ Linked'
  <2> DEFINE W == {p, count}
  <2>1. W \in SUBSET Pages' /\ count \in W
    BY <1>2, <1>4
  <2>2. \A q \in W : /\ Fits(nodes'[q])
                     /\ Children(q)' \subseteq Pages'
                     /\ nodes'[q].leaf =>
                          {nodes'[q].prev, nodes'[q].next} \subseteq Pages' \cup {None}
    BY <1>2, <1>8
  <2>3. Writes(W) /\ root' \in Pages'
    BY <1>1, <1>2, <1>4 DEF SplitInternal, TreeTypes
  <2> HIDE DEF W
  <2> QED
    BY <1>1, <1>2, <2>1, <2>2, <2>3, WritesTyped
<1>10. split' # None /\ split'.child = count
  BY <1>2, NoneAssumption
<1>11. path' \in Seq(Pages) /\ Len(path') = Len(path) - 1 /\ \A i \in DOMAIN path' : path'[i] = path[i]
  BY <1>3 DEF SplitInternal
<1>12. path' \in Seq(PageNos) /\ path' \in Seq(Pages')
  BY <1>1, <1>4, <1>11, PagesAre
<1>13. CallTypes'
  BY <1>1, <1>2, <1>10, <1>12 DEF CallTypes, SplitInternal
<1>14. \A i \in DOMAIN path' : path[i] \in Pages /\ ~nodes[path[i]].leaf
  <2> SUFFICES ASSUME NEW i \in DOMAIN path'
               PROVE  path[i] \in Pages /\ ~nodes[path[i]].leaf
    OBVIOUS
  <2>1. i \in DOMAIN path
    BY <1>1, <1>3, <1>11 DEF OnTheWay
  <2> QED
    BY <1>1, <2>1 DEF OnTheWay
<1>15. \A i \in DOMAIN path' : ~nodes'[path'[i]].leaf
  <2>1. \A q \in Pages : ~nodes[q].leaf => ~nodes'[q].leaf
    BY <1>1, <1>2, PagesAre DEF Writes
  <2> QED
    BY <1>11, <1>14, <2>1
<1>16. OnTheWay'
  BY <1>1, <1>4, <1>10, <1>12, <1>15 DEF OnTheWay, SplitInternal
<1> QED
  BY <1>9, <1>13, <1>16, TypesAre, PTL DEF TInv

\* NewRoot writes a node over the old root and its sibling
LEMMA NewRootWrites ==
  ASSUME TInv, NewRoot
  PROVE  /\ Writes({count}) /\ NewPage /\ root' = count /\ root \in Pages
         /\ split \in ChildEntry /\ split # None /\ split.child \in Pages
         /\ ~nodes'[count].leaf /\ nodes'[count].first = root
         /\ nodes'[count].entries = <<split>> /\ ToSet(nodes'[count].entries) = {split}
         /\ nodes'[count] \in InternalNode /\ Fits(nodes'[count])
PROOF
<1>1. TreeTypes /\ CallTypes /\ Linked /\ OnTheWay
  BY TypesAre DEF TInv
<1>2. split \in ChildEntry /\ split # None /\ split.child \in Pages
  BY <1>1 DEF CallTypes, OnTheWay, NewRoot
<1>3. NewPage
  BY DEF NewRoot, NewPage
<1>4. count \in PageNos /\ DOMAIN nodes = PageNos /\ root \in Pages /\ root \in PageNos
  BY <1>1, <1>3, NewPageIs, PagesAre DEF TreeTypes
<1>5. /\ nodes'[count] = Internal(root, <<split>>) /\ DOMAIN nodes' = PageNos
      /\ \A p \in PageNos \ {count} : nodes'[p] = nodes[p]
  BY <1>4 DEF NewRoot
<1>6. <<split>> \in Seq(ChildEntry) /\ Len(<<split>>) = 1 /\ ToSet(<<split>>) = {split}
  BY <1>2 DEF ToSet
<1>7. Len(<<split>>) <= MaxInternalEntries
  BY <1>6, BTreeAssumption
<1>8. /\ Fits(nodes'[count]) /\ nodes'[count] \in InternalNode /\ ~nodes'[count].leaf
      /\ nodes'[count].entries = <<split>> /\ nodes'[count].first = root
  <2> DEFINE s == <<split>>
  <2>1. s \in Seq(ChildEntry) /\ Len(s) <= MaxInternalEntries /\ root \in PageNos
        /\ nodes'[count] = Internal(root, s)
    BY <1>4, <1>5, <1>6, <1>7
  <2> HIDE DEF s
  <2>2. /\ Fits(nodes'[count]) /\ nodes'[count] \in InternalNode /\ ~nodes'[count].leaf
        /\ nodes'[count].entries = s /\ nodes'[count].first = root
    BY <2>1, InternalFits
  <2> QED
    BY <2>2 DEF s
<1> QED
  BY <1>2, <1>3, <1>4, <1>5, <1>6, <1>8 DEF Writes, NewRoot

\* NewRoot keeps types and links
LEMMA NewRootTyped == TInv /\ NewRoot => TInv'
PROOF
<1> SUFFICES ASSUME TInv, NewRoot PROVE TInv'
  OBVIOUS
<1>1. TreeTypes /\ CallTypes /\ Linked /\ OnTheWay
  BY TypesAre DEF TInv
<1>2. /\ Writes({count}) /\ NewPage /\ root' = count /\ root \in Pages /\ split.child \in Pages
      /\ ~nodes'[count].leaf /\ nodes'[count].first = root
      /\ ToSet(nodes'[count].entries) = {split} /\ Fits(nodes'[count])
  BY NewRootWrites
<1>3. Pages' = Pages \cup {count} /\ count \in PageNos /\ count \notin Pages
  BY <1>1, <1>2, NewPageIs
<1>4. ASSUME NEW q, q = count
      PROVE  Children(q)' \subseteq Pages'
  BY <1>2, <1>3, <1>4 DEF Children
<1>5. TreeTypes' /\ Linked'
  <2> DEFINE W == {count}
  <2>1. W \in SUBSET Pages' /\ count \in W /\ Writes(W) /\ root' \in Pages'
    BY <1>2, <1>3
  <2>2. \A q \in W : /\ Fits(nodes'[q])
                     /\ Children(q)' \subseteq Pages'
                     /\ nodes'[q].leaf =>
                          {nodes'[q].prev, nodes'[q].next} \subseteq Pages' \cup {None}
    BY <1>2, <1>4
  <2> HIDE DEF W
  <2> QED
    BY <1>1, <1>2, <2>1, <2>2, WritesTyped
<1>6. CallTypes' /\ OnTheWay'
  BY <1>1, DoneTyped DEF NewRoot
<1> QED
  BY <1>5, <1>6, TypesAre, PTL DEF TInv

-----------------------------------------------------------------------------
\* TInv is inductive
LEMMA NextTyped == TInv /\ [Next]_vars => TInv'
PROOF
<1> SUFFICES ASSUME TInv, [Next]_vars PROVE TInv'
  OBVIOUS
<1>1. ASSUME NEW e \in Inserts, Insert(e) PROVE TInv'
  BY <1>1, InsertTyped
<1>2. CASE Fail
  BY <1>2, FailTyped
<1>3. CASE Descend
  BY <1>3, DescendTyped
<1>4. CASE InsertInLeaf
  BY <1>4, InsertInLeafTyped
<1>5. CASE LeafIsFull
  BY <1>5, LeafIsFullTyped
<1>6. CASE SplitLeaf
  BY <1>6, SplitLeafTyped
<1>7. CASE Relink
  BY <1>7, RelinkTyped
<1>8. CASE AddToParent
  BY <1>8, AddToParentTyped
<1>9. CASE ParentIsFull
  BY <1>9, ParentIsFullTyped
<1>10. CASE SplitInternal
  BY <1>10, SplitInternalTyped
<1>11. CASE NewRoot
  BY <1>11, NewRootTyped
<1>12. CASE UNCHANGED vars
  <2>1. TreeTypes /\ CallTypes /\ Linked /\ OnTheWay
    BY TypesAre DEF TInv
  <2>2. TreeTypes' /\ Linked'
    BY <1>12, <2>1, TreeUntouched DEF vars
  <2>3. CallTypes' /\ OnTheWay'
    BY <1>12, <2>1 DEF CallTypes, OnTheWay, vars, tree, call, Pages, NeedsSplit, Full, Parent
  <2> QED
    BY <2>2, <2>3, TypesAre, PTL DEF TInv
<1> QED
  BY <1>1, <1>2, <1>3, <1>4, <1>5, <1>6, <1>7, <1>8, <1>9, <1>10, <1>11, <1>12
     DEF Next, Continue

(***************************************************************************)
(* Nodes always have the kind and size of their pages, and calls the       *)
(* fields of their step, however long inserts go on and whichever fail.    *)
(***************************************************************************)
THEOREM TreeAlwaysTyped == Spec => []TypeOK
PROOF
<1>1. TInv => TypeOK
  BY DEF TInv
<1> QED
  BY <1>1, InitTyped, NextTyped, PTL DEF Spec

-----------------------------------------------------------------------------
(***************************************************************************)
(* The steps of insert keep the shape of the tree.                         *)
(***************************************************************************)
\* No node gets or loses an entry
Same ==
  /\ count' = count /\ root' = root
  /\ \A p \in Pages :
       /\ nodes'[p].leaf = nodes[p].leaf /\ nodes'[p].entries = nodes[p].entries
       /\ ~nodes[p].leaf => nodes'[p].first = nodes[p].first

\* When only links of leaves change, keys and children stay
LEMMA SameNodes ==
  ASSUME TreeTypes, Linked, Same
  PROVE  /\ Pages' = Pages /\ root' = root
         /\ \A p \in Pages :
              /\ nodes'[p].leaf = nodes[p].leaf /\ nodes'[p].entries = nodes[p].entries
              /\ Items(p)' = Items(p) /\ KeysIn(p)' = KeysIn(p) /\ Children(p)' = Children(p)
              /\ ~nodes[p].leaf => nodes'[p].first = nodes[p].first
              /\ Children(p) \subseteq Pages
PROOF
<1>1. Pages' = Pages /\ root' = root
  BY DEF Same, Pages
<1>2. ASSUME NEW p \in Pages
      PROVE  /\ Items(p)' = Items(p) /\ KeysIn(p)' = KeysIn(p) /\ Children(p)' = Children(p)
             /\ Children(p) \subseteq Pages
  <2>1. nodes'[p].leaf = nodes[p].leaf /\ nodes'[p].entries = nodes[p].entries
    BY DEF Same
  <2>2. ~nodes[p].leaf => nodes'[p].first = nodes[p].first
    BY DEF Same
  <2>3. Items(p)' = Items(p) /\ KeysIn(p)' = KeysIn(p)
    BY <2>1 DEF Items, KeysIn
  <2>4. nodes[p].leaf \in BOOLEAN
    BY NodesAre
  <2>5. Children(p)' = Children(p)
    <3>1. CASE nodes[p].leaf
      BY <2>1, <3>1 DEF Children
    <3>2. CASE ~nodes[p].leaf
      BY <2>1, <2>2, <3>2 DEF Children
    <3> QED
      BY <3>1, <3>2
  <2> QED
    BY <2>3, <2>5 DEF Linked
<1> QED
  BY <1>1, <1>2 DEF Same

\* When only links of leaves change, so does what the shape says of nodes
LEMMA SameShape ==
  ASSUME TInv, Same, failures' = failures, Pending' = Pending, split' = split,
         NEW live, NEW level, NEW low, Shape(live, level, low)
  PROVE  /\ Bounded(level, low)' /\ Leaves(level, low)' /\ Inner(level, low)'
         /\ Forest' /\ Reached(live, level, low)' /\ Divided(live, level, low)'
PROOF
<1>1. /\ Bounded(level, low) /\ Leaves(level, low) /\ Inner(level, low)
      /\ Forest /\ Reached(live, level, low) /\ Divided(live, level, low)
  BY DEF Shape
<1>2. /\ Pages' = Pages /\ root' = root
      /\ \A p \in Pages :
           /\ nodes'[p].leaf = nodes[p].leaf /\ nodes'[p].entries = nodes[p].entries
           /\ Items(p)' = Items(p) /\ KeysIn(p)' = KeysIn(p) /\ Children(p)' = Children(p)
           /\ ~nodes[p].leaf => nodes'[p].first = nodes[p].first
           /\ Children(p) \subseteq Pages
  BY TypesAre, SameNodes DEF TInv
<1>3. count' = count
  BY DEF Same
<1>4. Bounded(level, low)'
  BY <1>1, <1>2, <1>3 DEF Bounded
<1>5. Leaves(level, low)'
  BY <1>1, <1>2 DEF Leaves
<1>6. Inner(level, low)'
  BY <1>1, <1>2 DEF Inner
<1>7. Forest'
  BY <1>1, <1>2 DEF Forest
<1>8. live \subseteq Pages
  BY <1>1 DEF Reached
<1>9. Reached(live, level, low)'
  BY <1>1, <1>2, <1>8 DEF Reached
<1>10. Divided(live, level, low)'
  BY <1>1, <1>2, <1>8 DEF Divided
<1> QED
  BY <1>4, <1>5, <1>6, <1>7, <1>9, <1>10

\* A step that only chooses the next one keeps the way the insert has come
LEMMA SameWay ==
  ASSUME TInv, Same, UNCHANGED <<call, failures>>,
         NEW live, NEW level, NEW low, Shape(live, level, low),
         pc' \in {"visit", "split_leaf"} => pc \in {"visit", "split_leaf"}
  PROVE  Shape(live, level, low)'
PROOF
<1>1. /\ Pages' = Pages /\ root' = root
      /\ \A p \in Pages : Children(p)' = Children(p)
  BY TypesAre, SameNodes DEF TInv
<1>2. /\ at' = at /\ path' = path /\ split' = split /\ entry' = entry /\ Pending' = Pending
  BY DEF call, Pending
<1>3. path \in Seq(Pages)
  BY DEF TInv, OnTheWay
<1>4. Descent(live, level)'
  <2>1. \A i \in DOMAIN path \ {1} : i - 1 \in DOMAIN path
    BY <1>3
  <2>2. \A i \in DOMAIN path : path[i] \in Pages
    BY <1>3
  <2>3. Descent(live, level)
    BY DEF Shape
  <2>4. \A i \in DOMAIN path \ {1} : path[i] \in Children(path[i - 1])'
    <3> SUFFICES ASSUME NEW i \in DOMAIN path \ {1}
                 PROVE  path[i] \in Children(path[i - 1])'
      OBVIOUS
    <3> DEFINE p == path[i - 1]
    <3>1. p \in Pages /\ path[i] \in Children(p)
      BY <2>1, <2>2, <2>3 DEF Descent
    <3>2. PICK q \in Pages : q = p
      BY <3>1
    <3>3. path[i] \in Children(q)'
      BY <1>1, <3>1, <3>2
    <3> QED
      BY <1>2, <3>2, <3>3
  <2> QED
    BY <1>1, <1>2, <2>3, <2>4 DEF Descent
<1>5. ASSUME NEW p PROVE CameBy(p)' <=> CameBy(p)
  <2>1. path # <<>> => Last(path) \in Pages
    BY <1>3 DEF Last
  <2> QED
    BY <1>1, <1>2, <2>1 DEF CameBy
<1>6. ASSUME NEW p, NEW k PROVE Covers(live, level, low, p, k)' <=> Covers(live, level, low, p, k)
  BY <1>2 DEF Covers
<1>7. Visiting(live, level, low)'
  BY <1>2, <1>5, <1>6 DEF Shape, Visiting
<1>8. Splitting(live, level, low)'
  BY <1>2, <1>5, <1>6 DEF Shape, Splitting
<1>9. failures' = failures
  OBVIOUS
<1> QED
  BY <1>2, <1>4, <1>7, <1>8, <1>9, SameShape DEF Shape

\* Deciding on a split keeps the shape
LEMMA LeafIsFullShape ==
  ASSUME TInv, LeafIsFull, NEW live, NEW level, NEW low, Shape(live, level, low)
  PROVE  Shape(live, level, low)'
PROOF
<1>1. Same
  BY DEF LeafIsFull, tree, Same
<1> QED
  BY <1>1, SameWay DEF LeafIsFull

\* Deciding on a split of the parent keeps the shape
LEMMA ParentIsFullShape ==
  ASSUME TInv, ParentIsFull, NEW live, NEW level, NEW low, Shape(live, level, low)
  PROVE  Shape(live, level, low)'
PROOF
<1>1. Same
  BY DEF ParentIsFull, tree, Same
<1> QED
  BY <1>1, SameWay DEF ParentIsFull

\* The last step of split_leaf changes only a link
LEMMA RelinkSame ==
  ASSUME TInv, Relink
  PROVE  Same
PROOF
<1> DEFINE q == nodes[split.child].next
<1>1. /\ q \in Pages /\ Writes({q})
      /\ nodes'[q].leaf = nodes[q].leaf /\ nodes'[q].entries = nodes[q].entries
      /\ ~nodes[q].leaf => nodes'[q] = nodes[q]
  BY RelinkWrites
<1> HIDE DEF q
<1>2. ASSUME NEW p \in Pages, p # q PROVE nodes'[p] = nodes[p]
  BY <1>1, <1>2, TypesAre, PagesAre DEF Writes, TInv
<1> QED
  BY <1>1, <1>2 DEF Same, Relink

\* The last step of split_leaf keeps the shape
LEMMA RelinkShape ==
  ASSUME TInv, Relink, NEW live, NEW level, NEW low, Shape(live, level, low)
  PROVE  Shape(live, level, low)'
BY RelinkSame, SameWay DEF Relink

-----------------------------------------------------------------------------
\* The ranges of levels, bounds and keys, for the arithmetic
LEMMA BoundsAre ==
  ASSUME TInv, NEW live, NEW level, NEW low, Shape(live, level, low)
  PROVE  /\ None \notin Int
         /\ \A p \in Pages : /\ low[p] \in Int \cup {None} /\ level[p] \in Nat
                             /\ \A k \in KeysIn(p) : k \in Int /\ k \in Keys
                             /\ \A e \in Items(p) : e.key \in KeysIn(p) /\ e.key \in Int
                             /\ Children(p) \subseteq Pages
         /\ live \subseteq Pages /\ root \in live
PROOF
<1>1. None \notin Int /\ Keys \subseteq Int
  BY BTreeAssumption
<1>2. \A p \in Pages : low[p] \in Int \cup {None} /\ level[p] \in Nat
  BY <1>1 DEF Shape, Bounded
<1>3. ASSUME NEW p \in Pages
      PROVE  \A e \in Items(p) : e.key \in Keys /\ e.key \in KeysIn(p)
  <2>1. nodes[p].entries \in Seq(Entry) \/ nodes[p].entries \in Seq(ChildEntry)
    BY <1>3, TypesAre, NodesAre DEF TInv, LeafNode, InternalNode
  <2>2. \A e \in Items(p) : e \in Entry \/ e \in ChildEntry
    BY <2>1 DEF Items, ToSet
  <2> QED
    BY <2>2, EntriesHaveKeys DEF KeysIn
<1>4. \A p \in Pages : \A k \in KeysIn(p) : k \in Int /\ k \in Keys
  BY <1>1, <1>3 DEF KeysIn
<1> QED
  BY <1>1, <1>2, <1>3, <1>4 DEF Shape, Reached, TInv, Linked

\* A child is one level down, bounded by its parent's bound or one of its keys
LEMMA ChildLow ==
  ASSUME TInv, NEW live, NEW level, NEW low, Shape(live, level, low),
         NEW p \in Pages, NEW c \in Children(p)
  PROVE  /\ c \in Pages /\ ~nodes[p].leaf /\ level[p] = level[c] + 1
         /\ low[c] = low[p] \/ (low[c] \in KeysIn(p) /\ Above(low[c], low[p]))
PROOF
<1>1. ~nodes[p].leaf
  BY DEF Children
<1>2. c = nodes[p].first \/ \E e \in Items(p) : c = e.child
  BY <1>1 DEF Children, Items
<1>3. Inner(level, low)
  BY DEF Shape
<1> QED
  BY <1>1, <1>2, <1>3 DEF Inner, KeysIn, TInv, Linked

\* No other live page is as high as the root
LEMMA AloneAtTheTop ==
  ASSUME TInv, NEW live, NEW level, NEW low, Shape(live, level, low),
         NEW p \in live \ Pending, level[p] = level[root]
  PROVE  p = root
PROOF
<1>1. SUFFICES ASSUME NEW q \in live, p \in Children(q) PROVE FALSE
  BY DEF Shape, Reached
<1>2. q \in Pages /\ root \in Pages
  BY BoundsAre
<1>3. level[q] = level[p] + 1 /\ p \in Pages /\ level[q] <= level[root]
  BY <1>1, <1>2, ChildLow DEF Shape, Reached
<1>4. level[q] \in Nat /\ level[p] \in Nat /\ level[root] \in Nat
  BY <1>2, <1>3, BoundsAre
<1> QED
  BY <1>3, <1>4

\* Every key belongs below the root
LEMMA RootCovers ==
  ASSUME TInv, NEW live, NEW level, NEW low, Shape(live, level, low), NEW k
  PROVE  Covers(live, level, low, root, k)
PROOF
<1>1. low[root] = None
  BY DEF Shape, Reached
<1>2. \A q \in live \ Pending : level[q] = level[root] => low[q] = None
  BY <1>1, AloneAtTheTop
<1> QED
  BY <1>1, <1>2 DEF Covers, AtLeast, LeftOf

(***************************************************************************)
(* A child that has no neighbour for a key leaves none in its parent.      *)
(***************************************************************************)
LEMMA CoversUp ==
  ASSUME TInv, NEW live, NEW level, NEW low, Shape(live, level, low),
         NEW p \in live, NEW c \in Children(p), NEW k \in Int,
         Covers(live, level, low, c, k), low[c] # k
  PROVE  Covers(live, level, low, p, k) /\ Above(k, low[p])
PROOF
<1>1. /\ None \notin Int /\ live \subseteq Pages
      /\ \A q \in Pages : /\ low[q] \in Int \cup {None} /\ level[q] \in Nat
                          /\ \A j \in KeysIn(q) : j \in Int
                          /\ Children(q) \subseteq Pages
  BY BoundsAre
<1>2. /\ c \in Pages /\ ~nodes[p].leaf /\ level[p] = level[c] + 1
      /\ low[c] = low[p] \/ (low[c] \in KeysIn(p) /\ Above(low[c], low[p]))
  BY <1>1, ChildLow
<1>3. Above(k, low[c])
  BY <1>1, <1>2 DEF Covers, AtLeast, Above
<1>4. Above(k, low[p])
  BY <1>1, <1>2, <1>3 DEF Above
<1>5. ASSUME NEW q \in live, level[q] = level[p], LeftOf(low[p], low[q])
      PROVE  BelowKey(k, low[q])
  <2> DEFINE f == nodes[q].first
  <2>1. ~nodes[q].leaf
    BY <1>1, <1>2, <1>5 DEF Shape, Leaves
  <2>2. f \in Children(q) /\ low[f] = low[q]
    BY <1>1, <2>1 DEF Children, Shape, Inner
  <2>3. f \in live /\ f \notin Pending /\ level[q] = level[f] + 1
    BY <1>1, <2>2, ChildLow DEF Shape, Reached, Forest
  <2>4. LeftOf(low[c], low[f])
    <3>1. \A j \in KeysIn(p) : BelowKey(j, low[q])
      <4>1. p # q
        BY <1>1, <1>5 DEF LeftOf, Above
      <4> QED
        BY <1>5, <4>1 DEF Shape, Divided
    <3> QED
      BY <1>1, <1>2, <1>5, <2>2, <3>1 DEF LeftOf, Above, BelowKey
  <2>5. level[f] = level[c]
    BY <1>1, <1>2, <1>5, <2>3
  <2> QED
    BY <2>2, <2>3, <2>4, <2>5 DEF Covers
<1> QED
  BY <1>1, <1>4, <1>5 DEF Covers, Above, AtLeast

(***************************************************************************)
(* The child that find_child picks has no neighbour for the key, if the    *)
(* node had none.                                                          *)
(***************************************************************************)
LEMMA CoversDown ==
  ASSUME TInv, NEW live, NEW level, NEW low, Shape(live, level, low), Pending = {},
         NEW p \in live, ~nodes[p].leaf, NEW k \in Int, Covers(live, level, low, p, k)
  PROVE  LET c == FindChild(nodes[p], k) IN
         c \in live /\ c \in Children(p) /\ Covers(live, level, low, c, k)
PROOF
<1> DEFINE c == FindChild(nodes[p], k)
<1>1. /\ None \notin Int /\ live \subseteq Pages /\ p \in Pages
      /\ \A q \in Pages : /\ low[q] \in Int \cup {None} /\ level[q] \in Nat
                          /\ \A j \in KeysIn(q) : j \in Int
                          /\ \A e \in Items(q) : e.key \in KeysIn(q) /\ e.key \in Int
                          /\ Children(q) \subseteq Pages
  BY BoundsAre
<1>2. c \in Children(p)
  BY <1>1, ChildIsChild, TypesAre DEF TInv
<1>3. c \in live /\ c \in Pages /\ level[p] = level[c] + 1
  BY <1>1, <1>2, ChildLow DEF Shape, Reached
<1>4. \/ c = nodes[p].first /\ \A e \in Items(p) : k < e.key
      \/ \E e \in Items(p) : /\ c = e.child /\ e.key <= k
                             /\ \A f \in Items(p) : f.key <= k => f.key <= e.key
  <2>1. nodes[p].entries \in Seq(ChildEntry) /\ Sorted(nodes[p].entries)
    BY <1>1, TypesAre, NodesAre DEF TInv, InternalNode, Shape, Bounded
  <2>2. \A x \in ChildEntry : x.key \in Int
    BY EntriesHaveKeys
  <2> DEFINE n == nodes[p]
  <2>3. n.entries \in Seq(ChildEntry) /\ Sorted(n.entries)
    BY <2>1
  <2> HIDE DEF n, c
  <2>4. LET there == ToSet(n.entries) IN
        \/ FindChild(n, k) = n.first /\ \A e \in there : k < e.key
        \/ \E e \in there : /\ FindChild(n, k) = e.child /\ e.key <= k
                            /\ \A f \in there : f.key <= k => f.key <= e.key
    BY <2>2, <2>3, FindChildIs
  <2> QED
    BY <2>4 DEF n, c, Items
<1> HIDE DEF c
<1>5. /\ low[nodes[p].first] = low[p]
      /\ \A e \in Items(p) : Above(e.key, low[p]) /\ low[e.child] = e.key
  BY <1>1 DEF Shape, Inner
<1>6. AtLeast(k, low[c])
  BY <1>4, <1>5 DEF Covers, AtLeast
<1>7. ASSUME NEW q \in live, level[q] = level[c], LeftOf(low[c], low[q])
      PROVE  BelowKey(k, low[q])
  <2>1. level[root] \in Nat /\ level[p] <= level[root]
    BY <1>1, BoundsAre DEF Shape, Reached
  <2>2. PICK r \in live : q \in Children(r)
    BY <1>1, <1>3, <1>7, <2>1 DEF Shape, Reached
  <2>3. /\ level[r] = level[q] + 1
        /\ low[q] = low[r] \/ (low[q] \in KeysIn(r) /\ Above(low[q], low[r]))
    BY <1>1, <2>2, ChildLow
  <2>4. CASE r = p
    <3>1. q = nodes[p].first \/ \E f \in Items(p) : q = f.child
      BY <2>2, <2>4 DEF Children, Items
    <3> QED
      BY <1>1, <1>4, <1>5, <1>7, <3>1 DEF LeftOf, Above, BelowKey
  <2>5. CASE r # p
    <3>1. level[r] = level[p]
      BY <1>1, <1>3, <1>7, <2>3
    <3>2. low[r] # low[p]
      BY <2>5, <3>1 DEF Shape, Divided
    <3>3. CASE LeftOf(low[p], low[r])
      <4>1. BelowKey(k, low[r])
        BY <3>1, <3>3 DEF Covers
      <4> QED
        BY <1>1, <2>3, <4>1 DEF BelowKey, Above
    <3>4. CASE LeftOf(low[r], low[p])
      <4>1. \A j \in KeysIn(r) : BelowKey(j, low[p])
        BY <2>5, <3>1, <3>4 DEF Shape, Divided
      <4>2. low[c] = low[p] \/ (low[c] \in Int /\ Above(low[c], low[p]))
        BY <1>1, <1>4, <1>5
      <4>3. low[p] \in Int /\ \A j \in KeysIn(r) : j \in Int /\ j < low[p]
        BY <1>1, <2>2, <3>4, <4>1 DEF LeftOf, BelowKey
      <4>4. low[q] = None \/ (low[q] \in Int /\ low[q] < low[p])
        BY <1>1, <2>2, <2>3, <3>4, <4>3 DEF LeftOf, Above
      <4>5. low[c] \in Int /\ low[p] <= low[c]
        BY <4>2, <4>3, <1>1 DEF Above
      <4> QED
        BY <1>1, <1>7, <4>3, <4>4, <4>5 DEF LeftOf, Above
    <3> QED
      BY <1>1, <3>2, <3>3, <3>4 DEF LeftOf, Above
  <2> QED
    BY <2>4, <2>5
<1> QED
  BY <1>2, <1>3, <1>6, <1>7 DEF Covers, c

-----------------------------------------------------------------------------
\* The tree that BTree::new leaves has the shape
LEMMA InitShape ==
  Init => \E live, level, low : Shape(live, level, low)
PROOF
<1> SUFFICES ASSUME Init PROVE \E live, level, low : Shape(live, level, low)
  OBVIOUS
<1> DEFINE level == [p \in Pages |-> 0]
           low == [p \in Pages |-> None]
<1>1. Pages = {0} /\ count = 1
  BY DEF Init, Pages
<1>2. 0 \in PageNos
  BY BTreeAssumption DEF PageNos
<1>3. nodes[0].leaf /\ nodes[0].entries = <<>>
  BY <1>2 DEF Init, Leaf
<1>4. Items(0) = {} /\ KeysIn(0) = {} /\ Children(0) = {} /\ Sorted(nodes[0].entries)
  BY <1>3 DEF Items, KeysIn, Children, ToSet, Sorted
<1>5. /\ Pending = {} /\ split = None /\ root = 0 /\ path = <<>> /\ pc = "idle"
      /\ failures = 0
  BY DEF Init, Pending
<1>6. /\ level \in [Pages -> Nat] /\ low \in [Pages -> Keys \cup {None}]
      /\ level[0] = 0 /\ low[0] = None
  BY <1>1
<1> HIDE DEF level, low
<1>7. Bounded(level, low) /\ Leaves(level, low) /\ Inner(level, low)
  BY <1>1, <1>3, <1>4, <1>6 DEF Bounded, Leaves, Inner
<1>8. Forest /\ Reached(Pages, level, low) /\ Divided(Pages, level, low)
  BY <1>1, <1>4, <1>5, <1>6 DEF Forest, Reached, Divided
<1>9. Descent(Pages, level) /\ Visiting(Pages, level, low) /\ Splitting(Pages, level, low)
  BY <1>5 DEF Descent, Visiting, Splitting
<1> QED
  BY <1>7, <1>8, <1>9 DEF Shape

\* Before a split nothing waits to be added
LEMMA NoneUnderWay ==
  ASSUME TInv, pc \in {"idle", "visit", "split_leaf"}
  PROVE  split = None /\ Pending = {} /\ (pc = "idle" => path = <<>>)
BY DEF TInv, TypeOK, OnTheWay, Pending

\* Between inserts there is no way to speak of
LEMMA IdleWay ==
  ASSUME Idle, NEW live, NEW level, NEW low
  PROVE  /\ Descent(live, level)' /\ Visiting(live, level, low)' /\ Splitting(live, level, low)'
         /\ split' = None /\ Pending' = {}
BY DEF Idle, Descent, Visiting, Splitting, Pending

\* A call of insert changes nothing in the tree
LEMMA InsertShape ==
  ASSUME TInv, NEW e \in Inserts, Insert(e),
         NEW live, NEW level, NEW low, Shape(live, level, low)
  PROVE  Shape(live, level, low)'
PROOF
<1>1. Same
  BY DEF Insert, tree, Same
<1>2. /\ path = <<>> /\ path' = path /\ split = None /\ split' = split /\ root' = root
      /\ at' = root /\ entry' = e /\ failures' = failures /\ Pending' = Pending
  BY NoneUnderWay DEF Insert, tree, Pending
<1>3. Covers(live, level, low, root, e.key)
  BY RootCovers
<1>4. Covers(live, level, low, root, e.key)'
  BY <1>2, <1>3 DEF Covers
<1>5. root \in live
  BY BoundsAre
<1>6. Visiting(live, level, low)'
  BY <1>2, <1>4, <1>5 DEF Visiting, CameBy
<1>7. Descent(live, level)' /\ Splitting(live, level, low)'
  BY <1>2 DEF Descent, Splitting
<1> QED
  BY <1>1, <1>2, <1>6, <1>7, SameShape DEF Shape

\* The step down stays at live pages that cover the key
LEMMA DescendShape ==
  ASSUME TInv, Descend, NEW live, NEW level, NEW low, Shape(live, level, low)
  PROVE  Shape(live, level, low)'
PROOF
<1> DEFINE c == FindChild(nodes[at], entry.key)
<1>1. Same
  BY DEF Descend, tree, Same
<1>2. /\ Pending = {} /\ split = None /\ split' = split /\ root' = root /\ nodes' = nodes
      /\ path' = Append(path, at) /\ at' = c /\ entry' = entry /\ failures' = failures
      /\ Pending' = Pending
  BY NoneUnderWay DEF Descend, tree, Pending
<1>3. /\ at \in live /\ CameBy(at) /\ Covers(live, level, low, at, entry.key)
      /\ ~nodes[at].leaf
  BY DEF Shape, Visiting, Descend
<1>4. entry.key \in Int
  BY EntriesHaveKeys DEF TInv, TypeOK, Descend
<1>5. c \in live /\ c \in Children(at) /\ Covers(live, level, low, c, entry.key)
  BY <1>2, <1>3, <1>4, CoversDown
<1> HIDE DEF c
<1>6. path \in Seq(Pages) /\ at \in Pages
  BY <1>3, BoundsAre DEF TInv, OnTheWay
<1>7. /\ path' \in Seq(Pages) /\ Len(path') = Len(path) + 1 /\ Len(path) \in Nat
      /\ \A i \in 1 .. Len(path) : path'[i] = path[i]
      /\ path'[Len(path) + 1] = at /\ path' # <<>> /\ Last(path') = at
  <2>1. /\ path' \in Seq(Pages) /\ Len(path') = Len(path) + 1 /\ Len(path) \in Nat
        /\ \A i \in 1 .. Len(path) : path'[i] = path[i]
        /\ path'[Len(path) + 1] = at
    BY <1>2, <1>6, AppendProperties
  <2> QED
    BY <2>1 DEF Last
<1>8. /\ path = <<>> => at = root /\ Len(path) = 0
      /\ path # <<>> => at \in Children(path[Len(path)]) /\ Len(path) > 0
  BY <1>3, <1>6 DEF CameBy, Last
<1>9. /\ path # <<>> => path[1] = root
      /\ \A i \in 1 .. Len(path) :
           path[i] \in live \ Pending /\ level[path[i]] = level[root] - i + 1
      /\ \A i \in 1 .. Len(path) : i # 1 => path[i] \in Children(path[i - 1])
  <2>1. Descent(live, level)
    BY DEF Shape
  <2>2. DOMAIN path = 1 .. Len(path)
    BY <1>6
  <2> QED
    BY <2>1, <2>2 DEF Descent
<1>10. level[at] = level[root] - Len(path)
  <2>1. CASE path = <<>>
    BY <1>8, <2>1, BoundsAre
  <2>2. CASE path # <<>>
    <3> DEFINE n == Len(path)
    <3>1. n \in 1 .. Len(path) /\ path[n] \in Pages
      BY <1>6, <1>7, <1>8, <2>2
    <3>2. level[path[n]] = level[root] - n + 1 /\ level[path[n]] = level[at] + 1
      BY <1>8, <1>9, <2>2, <3>1, ChildLow
    <3>3. level[at] \in Nat /\ level[root] \in Nat /\ n \in Nat
      BY <1>6, <1>7, BoundsAre
    <3> QED
      BY <3>2, <3>3
  <2> QED
    BY <2>1, <2>2
<1>11. ASSUME NEW i \in DOMAIN path'
       PROVE  /\ path'[i] \in live \ Pending /\ level[path'[i]] = level[root] - i + 1
              /\ i # 1 => path'[i] \in Children(path'[i - 1])
  <2>1. CASE i <= Len(path)
    <3>1. i \in 1 .. Len(path) /\ (i # 1 => i - 1 \in 1 .. Len(path))
      BY <1>7, <2>1
    <3> QED
      BY <1>7, <1>9, <3>1
  <2>2. CASE i > Len(path)
    <3>1. i = Len(path) + 1
      BY <1>7, <2>2
    <3>2. level[at] \in Nat /\ level[root] \in Nat
      BY <1>6, BoundsAre
    <3>3. level[at] = level[root] - i + 1
      BY <1>7, <1>10, <3>1, <3>2
    <3>4. i # 1 => i - 1 = Len(path) /\ path # <<>> /\ Len(path) \in 1 .. Len(path)
      BY <1>7, <1>8, <3>1
    <3> QED
      BY <1>2, <1>3, <1>7, <1>8, <3>1, <3>3, <3>4
  <2> QED
    BY <1>7, <2>1, <2>2
<1>12. path'[1] = root
  <2>1. CASE path = <<>>
    BY <1>7, <1>8, <2>1
  <2>2. CASE path # <<>>
    BY <1>7, <1>8, <1>9, <2>2
  <2> QED
    BY <2>1, <2>2
<1>13. Descent(live, level)'
  <2>1. ASSUME NEW p PROVE Children(p)' = Children(p)
    BY <1>2 DEF Children
  <2>2. \A i \in DOMAIN path' \ {1} : path'[i] \in Children(path[i - 1])'
    <3> SUFFICES ASSUME NEW i \in DOMAIN path' \ {1}
                 PROVE  path'[i] \in Children(path[i - 1])'
      OBVIOUS
    <3>1. PICK p : p = path'[i - 1]
      OBVIOUS
    <3>2. path'[i] \in Children(p)'
      BY <1>11, <2>1, <3>1
    <3> QED
      BY <3>1, <3>2
  <2> QED
    BY <1>2, <1>11, <1>12, <2>2 DEF Descent
<1>14. Visiting(live, level, low)'
  <2>1. c \in Children(at)
    BY <1>5
  <2>2. ASSUME NEW p PROVE Children(p)' = Children(p)
    BY <1>2 DEF Children
  <2>3. CameBy(at)'
    <3>1. PICK p : p = at
      OBVIOUS
    <3>2. c \in Children(p)'
      BY <2>1, <2>2, <3>1
    <3>3. Last(path)' = p
      BY <1>7, <3>1
    <3> QED
      BY <1>2, <1>7, <3>2, <3>3 DEF CameBy
  <2>4. Covers(live, level, low, at, entry.key)'
    BY <1>2, <1>5 DEF Covers
  <2> QED
    BY <1>2, <1>5, <2>3, <2>4 DEF Visiting
<1>15. Splitting(live, level, low)'
  BY <1>2 DEF Splitting
<1> QED
  BY <1>1, <1>2, <1>13, <1>14, <1>15, SameShape DEF Shape

-----------------------------------------------------------------------------
(***************************************************************************)
(* When an insert fails with a split on its way up, the new node and all   *)
(* that is below it are cut off, and nothing else is.                      *)
(***************************************************************************)
LEMMA CutOff ==
  ASSUME TInv, NEW live, NEW level, NEW low, Shape(live, level, low), split # None
  PROVE  \E rest \in SUBSET live :
           /\ root \in rest
           /\ \A p \in rest : Children(p) \subseteq rest
           /\ \A p \in rest : p = root \/ \E q \in rest : p \in Children(q)
PROOF
<1> DEFINE Closed(S) == split.child \in S /\ \A q \in S : Children(q) \subseteq S
           under == {p \in Pages : \A S \in SUBSET Pages : Closed(S) => p \in S}
           rest == live \ under
<1>1. /\ live \subseteq Pages /\ root \in live /\ split.child \in Pages
      /\ \A p \in Pages : Children(p) \subseteq Pages
  BY BoundsAre DEF TInv, OnTheWay
<1>2. /\ \A p, q \in Pages : p # q => Children(p) \cap Children(q) = {}
      /\ \A p \in Pages : root \notin Children(p) /\ split.child \notin Children(p)
      /\ root # split.child
  BY DEF Shape, Forest, Pending
<1>3. /\ \A p \in live : Children(p) \subseteq live
      /\ \A p \in live : p = root \/ p = split.child \/ \E q \in live : p \in Children(q)
  BY DEF Shape, Reached, Pending
<1>4. Closed(under)
  BY <1>1
<1>5. root \notin under
  <2>1. Closed(Pages \ {root})
    BY <1>1, <1>2
  <2>2. Pages \ {root} \in SUBSET Pages
    OBVIOUS
  <2> QED
    BY <2>1, <2>2
<1>6. ASSUME NEW p \in Pages \ under, NEW c \in Children(p)
      PROVE  c \notin under
  <2>1. SUFFICES ASSUME c \in under PROVE FALSE
    OBVIOUS
  <2> DEFINE S == under \ {c}
  <2>2. split.child \in S
    BY <1>2, <1>4
  <2>3. ASSUME NEW q \in S PROVE Children(q) \subseteq S
    <3>1. Children(q) \subseteq under
      BY <1>4
    <3>2. c \notin Children(q)
      BY <1>2, <1>6
    <3> QED
      BY <3>1, <3>2
  <2>4. Closed(S) /\ S \in SUBSET Pages
    BY <2>2, <2>3
  <2> QED
    BY <2>1, <2>4
<1> HIDE DEF under
<1>7. split.child \in under /\ \A q \in under : Children(q) \subseteq under
  BY <1>4
<1>8. ASSUME NEW p \in rest, p # root
      PROVE  \E q \in rest : p \in Children(q)
  <2>1. PICK q \in live : p \in Children(q)
    BY <1>3, <1>7, <1>8
  <2> QED
    BY <1>7, <2>1
<1>9. \A p \in rest : Children(p) \subseteq rest
  BY <1>1, <1>3, <1>6
<1>10. root \in rest /\ rest \in SUBSET live
  BY <1>1, <1>5
<1> HIDE DEF rest
<1> QED
  BY <1>8, <1>9, <1>10

\* An error may cut a subtree off, and the rest keeps the shape
LEMMA FailShape ==
  ASSUME TInv, Fail, NEW live, NEW level, NEW low, Shape(live, level, low)
  PROVE  \E rest \in SUBSET live : Shape(rest, level, low)'
PROOF
<1>1. PICK rest \in SUBSET live :
        /\ root \in rest
        /\ \A p \in rest : Children(p) \subseteq rest
        /\ \A p \in rest : p = root \/ \E q \in rest : p \in Children(q)
  <2>1. CASE split # None
    BY <2>1, CutOff
  <2>2. CASE split = None
    BY <2>2 DEF Shape, Reached, Pending
  <2> QED
    BY <2>1, <2>2
<1>2. /\ nodes' = nodes /\ count' = count /\ root' = root
      /\ failures' = failures + 1 /\ failures \in Nat
  <2>1. MaxFailures \in Nat /\ failures \in 0 .. MaxFailures
    BY BTreeAssumption DEF TInv, TypeOK
  <2> QED
    BY <2>1 DEF Fail, tree
<1>3. /\ Pages' = Pages
      /\ \A p : Children(p)' = Children(p) /\ Items(p)' = Items(p) /\ KeysIn(p)' = KeysIn(p)
  BY <1>2 DEF Pages, Children, Items, KeysIn
<1>4. /\ Bounded(level, low) /\ Leaves(level, low) /\ Inner(level, low)
      /\ Forest /\ Reached(live, level, low) /\ Divided(live, level, low)
  BY DEF Shape
<1>5. /\ Descent(rest, level)' /\ Visiting(rest, level, low)' /\ Splitting(rest, level, low)'
      /\ split' = None /\ Pending' = {}
  BY IdleWay DEF Fail
<1>6. Bounded(level, low)' /\ Leaves(level, low)' /\ Inner(level, low)' /\ Forest'
  BY <1>2, <1>3, <1>4, <1>5 DEF Bounded, Leaves, Inner, Forest
<1>7. Reached(rest, level, low)'
  BY <1>1, <1>2, <1>3, <1>4, <1>5 DEF Reached
<1>8. Divided(rest, level, low)'
  BY <1>1, <1>3, <1>4 DEF Divided
<1> QED
  BY <1>5, <1>6, <1>7, <1>8 DEF Shape

-----------------------------------------------------------------------------
\* What InsertInLeaf changes, in terms of items and keys
LEMMA InsertInLeafItems ==
  ASSUME TInv, InsertInLeaf, NEW live, NEW level, NEW low, Shape(live, level, low)
  PROVE  /\ at \in live /\ at \in Pages /\ nodes[at].leaf
         /\ Pages' = Pages /\ root' = root /\ count' = count
         /\ \A p \in Pages : /\ nodes'[p].leaf = nodes[p].leaf
                             /\ Sorted(nodes'[p].entries) /\ Children(p)' = Children(p)
                             /\ ~nodes[p].leaf => nodes'[p] = nodes[p]
                             /\ p # at => nodes'[p] = nodes[p]
         /\ nodes'[at].next = nodes[at].next /\ nodes'[at].prev = nodes[at].prev
         /\ \A p \in Pages \ {at} : Items(p)' = Items(p) /\ KeysIn(p)' = KeysIn(p)
         /\ ToSet(nodes'[at].entries) = {x \in Items(at) : x.key # entry.key} \cup {entry}
         /\ \A p : p = at => /\ Items(p)' = {x \in Items(p) : x.key # entry.key} \cup {entry}
                             /\ KeysIn(p)' = KeysIn(p) \cup {entry.key}
         /\ Pending = {} /\ Covers(live, level, low, at, entry.key) /\ entry \in Entry
PROOF
<1>1. /\ at \in live /\ Covers(live, level, low, at, entry.key) /\ live \subseteq Pages
      /\ nodes[at].leaf /\ split = None /\ Pending = {}
  BY NoneUnderWay, BoundsAre DEF Shape, Visiting, InsertInLeaf
<1>2. /\ Writes({at}) /\ count' = count /\ root' = root
      /\ nodes'[at].leaf /\ nodes'[at].entries = Grown
      /\ nodes'[at].prev = nodes[at].prev /\ nodes'[at].next = nodes[at].next
  BY InsertInLeafWrites
<1>3. Pages' = Pages /\ \A p \in Pages \ {at} : nodes'[p] = nodes[p]
  BY <1>2, TypesAre, PagesAre DEF TInv, Writes, Pages
<1>4. nodes[at].entries \in Seq(Entry) /\ entry \in Entry /\ Sorted(nodes[at].entries)
  BY <1>1, GrownIs DEF InsertInLeaf, Shape, Bounded
<1>5. Sorted(Grown) /\ ToSet(Grown) = {x \in Items(at) : x.key # entry.key} \cup {entry}
  <2> DEFINE s == nodes[at].entries
  <2>1. s \in Seq(Entry) /\ Sorted(s) /\ \A x \in Entry : x.key \in Int
    BY <1>4, EntriesHaveKeys
  <2> HIDE DEF s
  <2>2. /\ Sorted(LeafInserted(s, entry))
        /\ ToSet(LeafInserted(s, entry)) = {x \in ToSet(s) : x.key # entry.key} \cup {entry}
    BY <1>4, <2>1, LeafInsertedInOrder
  <2> QED
    BY <2>2 DEF s, Grown, Items
<1>6. ASSUME NEW p \in Pages
      PROVE  /\ nodes'[p].leaf = nodes[p].leaf /\ Sorted(nodes'[p].entries)
             /\ Children(p)' = Children(p)
             /\ ~nodes[p].leaf => nodes'[p] = nodes[p]
  <2>1. CASE p = at
    BY <1>1, <1>2, <1>5, <2>1, NodesAre, TypesAre DEF Children, TInv, LeafNode
  <2>2. CASE p # at
    <3>1. nodes'[p] = nodes[p]
      BY <1>3, <2>2
    <3> QED
      BY <3>1 DEF Shape, Bounded, Children
  <2> QED
    BY <2>1, <2>2
<1>7. \A p \in Pages \ {at} : Items(p)' = Items(p) /\ KeysIn(p)' = KeysIn(p)
  BY <1>3 DEF Items, KeysIn
<1>8. ASSUME NEW p, p = at
      PROVE  /\ Items(p)' = {x \in Items(p) : x.key # entry.key} \cup {entry}
             /\ KeysIn(p)' = KeysIn(p) \cup {entry.key}
  <2>1. Items(p)' = {x \in Items(p) : x.key # entry.key} \cup {entry}
    BY <1>2, <1>5, <1>8 DEF Items
  <2>2. KeysIn(p)' = {x.key : x \in Items(p)'}
    BY DEF KeysIn
  <2> QED
    BY <2>1, <2>2 DEF KeysIn
<1> QED
  BY <1>1, <1>2, <1>3, <1>4, <1>5, <1>6, <1>7, <1>8

\* InsertInLeaf keeps the shape
LEMMA InsertInLeafShape ==
  ASSUME TInv, InsertInLeaf, NEW live, NEW level, NEW low, Shape(live, level, low)
  PROVE  Shape(live, level, low)'
PROOF
<1>1. /\ at \in live /\ at \in Pages /\ nodes[at].leaf
      /\ Pages' = Pages /\ root' = root /\ count' = count
      /\ \A p \in Pages : /\ nodes'[p].leaf = nodes[p].leaf
                          /\ Sorted(nodes'[p].entries) /\ Children(p)' = Children(p)
                          /\ ~nodes[p].leaf => nodes'[p] = nodes[p]
      /\ \A p \in Pages \ {at} : Items(p)' = Items(p) /\ KeysIn(p)' = KeysIn(p)
      /\ \A p : p = at => /\ Items(p)' = {x \in Items(p) : x.key # entry.key} \cup {entry}
                          /\ KeysIn(p)' = KeysIn(p) \cup {entry.key}
      /\ Pending = {} /\ Covers(live, level, low, at, entry.key)
  BY InsertInLeafItems
<1>2. failures' = failures /\ Idle
  BY DEF InsertInLeaf, Done
<1>3. /\ Bounded(level, low) /\ Leaves(level, low) /\ Inner(level, low)
      /\ Forest /\ Reached(live, level, low) /\ Divided(live, level, low)
  BY DEF Shape
<1>4. /\ Descent(live, level)' /\ Visiting(live, level, low)' /\ Splitting(live, level, low)'
      /\ split' = None /\ Pending' = {}
  BY <1>2, IdleWay
<1>5. live \subseteq Pages
  BY BoundsAre
<1>6. Bounded(level, low)'
  BY <1>1, <1>3 DEF Bounded
<1>7. Leaves(level, low)'
  <2> SUFFICES ASSUME NEW p \in Pages, nodes[p].leaf
               PROVE  level[p] = 0 /\ \A e \in Items(p)' : AtLeast(e.key, low[p])
    BY <1>1 DEF Leaves
  <2>1. CASE p # at
    BY <1>1, <1>3, <2>1 DEF Leaves
  <2>2. CASE p = at
    <3>1. AtLeast(entry.key, low[p])
      BY <1>1, <2>2 DEF Covers
    <3> QED
      BY <1>1, <1>3, <2>2, <3>1 DEF Leaves
  <2> QED
    BY <2>1, <2>2
<1>8. Inner(level, low)'
  <2>1. \A p \in Pages : ~nodes[p].leaf => p # at
    BY <1>1
  <2> QED
    BY <1>1, <1>3, <2>1 DEF Inner
<1>9. Forest'
  BY <1>1, <1>3, <1>4 DEF Forest
<1>10. Reached(live, level, low)'
  BY <1>1, <1>2, <1>3, <1>4, <1>5 DEF Reached
<1>11. Divided(live, level, low)'
  <2> SUFFICES ASSUME NEW p \in live, NEW q \in live, p # q, level[p] = level[q]
               PROVE  /\ low[p] # low[q]
                      /\ LeftOf(low[p], low[q]) => \A k \in KeysIn(p)' : BelowKey(k, low[q])
    BY DEF Divided
  <2>1. /\ low[p] # low[q]
        /\ LeftOf(low[p], low[q]) => \A k \in KeysIn(p) : BelowKey(k, low[q])
    BY <1>3 DEF Divided
  <2>2. CASE p # at
    BY <1>1, <1>5, <2>1, <2>2
  <2>3. CASE p = at
    <3>1. LeftOf(low[p], low[q]) => BelowKey(entry.key, low[q])
      BY <1>1, <2>3 DEF Covers
    <3> QED
      BY <1>1, <2>1, <2>3, <3>1
  <2> QED
    BY <2>2, <2>3
<1> QED
  BY <1>4, <1>6, <1>7, <1>8, <1>9, <1>10, <1>11 DEF Shape

-----------------------------------------------------------------------------
(***************************************************************************)
(* A node that is split in two at a key of its own, with keys for which it *)
(* had no neighbour, leaves its level divided.                             *)
(***************************************************************************)
LEMMA Halved ==
  ASSUME TInv, NEW live, NEW level, NEW low, Shape(live, level, low),
         NEW p \in live, NEW new, new \notin Pages,
         NEW all \in SUBSET Int, NEW u \in all, Above(u, low[p]),
         \A q \in live : level[q] = level[p] /\ LeftOf(low[p], low[q]) =>
           \A k \in all : BelowKey(k, low[q]),
         NEW level2, NEW low2, NEW keys,
         level2[new] = level[p] /\ low2[new] = u,
         \A q \in live : level2[q] = level[q] /\ low2[q] = low[q],
         keys[p] \subseteq {k \in all : k < u} /\ keys[new] \subseteq all,
         \A q \in live \ {p} : keys[q] = KeysIn(q)
  PROVE  \A a, b \in live \cup {new} : a # b /\ level2[a] = level2[b] =>
           /\ low2[a] # low2[b]
           /\ LeftOf(low2[a], low2[b]) => \A k \in keys[a] : BelowKey(k, low2[b])
PROOF
<1>1. /\ None \notin Int /\ live \subseteq Pages /\ new \notin live
      /\ \A q \in live : low[q] \in Int \cup {None} /\ \A j \in KeysIn(q) : j \in Int
  BY BoundsAre
<1>2. \A a, b \in live : a # b /\ level[a] = level[b] =>
        /\ low[a] # low[b]
        /\ LeftOf(low[a], low[b]) => \A k \in KeysIn(a) : BelowKey(k, low[b])
  BY DEF Shape, Divided
<1>3. u \in Int /\ low[p] # u /\ ~LeftOf(u, low[p]) /\ u # None
  <2>1. u \in Int /\ low[p] \in Int \cup {None} /\ None \notin Int
    BY <1>1
  <2> QED
    BY <2>1 DEF Above, LeftOf
<1> SUFFICES ASSUME NEW a \in live \cup {new}, NEW b \in live \cup {new},
                    a # b, level2[a] = level2[b]
             PROVE  /\ low2[a] # low2[b]
                    /\ LeftOf(low2[a], low2[b]) => \A k \in keys[a] : BelowKey(k, low2[b])
  OBVIOUS
<1>4. CASE a = p /\ b = new
  BY <1>1, <1>3, <1>4 DEF BelowKey
<1>5. CASE a = new /\ b = p
  BY <1>1, <1>3, <1>5
<1>6. CASE a = p /\ b \in live
  BY <1>1, <1>2, <1>6
<1>7. CASE a \in live \ {p} /\ b \in live
  BY <1>1, <1>2, <1>7
<1>8. CASE a = new /\ b \in live \ {p}
  <2>1. level[b] = level[p] /\ low[b] # low[p]
    BY <1>2, <1>8
  <2>2. LeftOf(u, low[b]) => LeftOf(low[p], low[b])
    BY <1>1, <1>8 DEF LeftOf, Above
  <2>3. LeftOf(low[p], low[b]) => u # low[b]
    BY <1>1, <1>8, <2>1 DEF BelowKey
  <2>4. ~LeftOf(low[p], low[b]) => u # low[b]
    BY <1>1, <1>3, <1>8 DEF LeftOf, Above
  <2> QED
    BY <1>1, <1>8, <2>1, <2>2, <2>3, <2>4
<1>9. CASE a \in live \ {p} /\ b = new
  <2>1. level[a] = level[p] /\ low[a] # low[p]
    BY <1>2, <1>9
  <2>2. CASE LeftOf(low[p], low[a])
    <3>1. BelowKey(u, low[a])
      BY <1>9, <2>1, <2>2
    <3>2. low[a] # u /\ ~LeftOf(low[a], u)
      BY <1>1, <1>9, <3>1 DEF BelowKey, LeftOf, Above
    <3> QED
      BY <1>9, <3>2
  <2>3. CASE LeftOf(low[a], low[p])
    <3>1. \A k \in KeysIn(a) : BelowKey(k, low[p])
      BY <1>2, <1>9, <2>1, <2>3
    <3>2. low[p] \in Int /\ low[p] < u
      BY <1>1, <2>3 DEF LeftOf, Above
    <3>3. \A k \in KeysIn(a) : BelowKey(k, u)
      BY <1>1, <1>3, <1>9, <3>1, <3>2 DEF BelowKey
    <3>4. low[a] # u
      BY <1>1, <1>9, <2>3, <3>2 DEF LeftOf, Above
    <3> QED
      BY <1>9, <3>3, <3>4
  <2> QED
    BY <1>1, <1>9, <2>1, <2>2, <2>3 DEF LeftOf, Above
<1> QED
  BY <1>1, <1>4, <1>5, <1>6, <1>7, <1>8, <1>9

-----------------------------------------------------------------------------
\* What split_leaf changes, in terms of items and keys
LEMMA SplitLeafItems ==
  ASSUME TInv, SplitLeaf, NEW live, NEW level, NEW low, Shape(live, level, low)
  PROVE  /\ at \in live /\ at \in Pages /\ nodes[at].leaf /\ at # count
         /\ Pages' = Pages \cup {count} /\ root' = root /\ count \notin Pages
         /\ count' = count + 1 /\ count \in Nat
         /\ \A p \in Pages : /\ nodes'[p].leaf = nodes[p].leaf
                             /\ Children(p)' = Children(p)
                             /\ ~nodes[p].leaf => nodes'[p] = nodes[p]
                             /\ p # at => nodes'[p] = nodes[p]
         /\ \A p \in Pages' : Sorted(nodes'[p].entries)
         /\ nodes'[count].leaf /\ \A p : p = count => Children(p)' = {}
         /\ \A p \in Pages \ {at} : Items(p)' = Items(p) /\ KeysIn(p)' = KeysIn(p)
         /\ split'.key \in Int /\ split'.key \in Keys /\ split'.child = count /\ split' # None
         /\ split'.key \in KeysIn(at) \cup {entry.key} /\ Above(split'.key, low[at])
         /\ \A p : p = at =>
              /\ Items(p)' = {x \in Items(p) \cup {entry} : x.key < split'.key}
              /\ KeysIn(p)' = {k \in KeysIn(p) \cup {entry.key} : k < split'.key}
         /\ \A p : p = count =>
              /\ Items(p)' = {x \in Items(at) \cup {entry} : split'.key <= x.key}
              /\ KeysIn(p)' = {k \in KeysIn(at) \cup {entry.key} : split'.key <= k}
         /\ \A x \in Items(at) : x.key # entry.key
         /\ Pending = {} /\ Covers(live, level, low, at, entry.key) /\ entry \in Entry
PROOF
<1>1. /\ at \in live /\ Covers(live, level, low, at, entry.key) /\ live \subseteq Pages
      /\ split = None /\ Pending = {} /\ nodes[at].leaf
  BY NoneUnderWay, BoundsAre DEF Shape, Visiting, SplitLeaf, TInv, OnTheWay
<1>2. /\ Writes({at, count}) /\ NewPage /\ at # count /\ at \in Pages
      /\ Mid(Grown) \in 1 .. Len(Grown) - 1 /\ Len(Grown) \in Nat
      /\ nodes'[at].leaf /\ nodes'[at].entries = SubSeq(Grown, 1, Mid(Grown))
      /\ nodes'[count].leaf
      /\ nodes'[count].entries = SubSeq(Grown, Mid(Grown) + 1, Len(Grown))
      /\ split' = [key |-> Grown[Mid(Grown) + 1].key, child |-> count]
      /\ split' \in ChildEntry
      /\ Found(nodes[at].entries, entry.key) = {}
  BY SplitLeafWrites
<1>3. /\ Pages' = Pages \cup {count} /\ count \in PageNos /\ count \notin Pages
      /\ \A p \in Pages : p \in PageNos
  BY <1>2, NewPageIs, TypesAre, PagesAre DEF TInv
<1>4. \A p \in Pages \ {at} : nodes'[p] = nodes[p]
  BY <1>2, <1>3 DEF Writes
<1>5. /\ nodes[at].entries \in Seq(Entry) /\ entry \in Entry /\ Sorted(nodes[at].entries)
      /\ Grown \in Seq(Entry)
  BY <1>1, GrownIs DEF SplitLeaf, Shape, Bounded
<1>6. \A x \in Items(at) : x.key # entry.key
  BY <1>2 DEF Found, Items, ToSet
<1>7. Sorted(Grown) /\ ToSet(Grown) = Items(at) \cup {entry}
  <2> DEFINE s == nodes[at].entries
  <2>1. s \in Seq(Entry) /\ Sorted(s) /\ \A x \in Entry : x.key \in Int
    BY <1>5, EntriesHaveKeys
  <2> HIDE DEF s
  <2>2. /\ Sorted(LeafInserted(s, entry))
        /\ ToSet(LeafInserted(s, entry)) = {x \in ToSet(s) : x.key # entry.key} \cup {entry}
    BY <1>5, <2>1, LeafInsertedInOrder
  <2> QED
    BY <1>6, <2>2 DEF s, Grown, Items
<1> DEFINE m == Mid(Grown)
           u == Grown[m + 1].key
<1>8. /\ m \in 0 .. Len(Grown) - 1 /\ m + 1 \in 1 .. Len(Grown) + 1 /\ m + 1 <= Len(Grown)
      /\ 1 \in DOMAIN Grown /\ m + 1 \in DOMAIN Grown /\ 1 < m + 1
  <2> HIDE DEF m
  <2>1. m \in 1 .. Len(Grown) - 1 /\ Len(Grown) \in Nat /\ DOMAIN Grown = 1 .. Len(Grown)
    BY <1>2, <1>5 DEF m
  <2> QED
    BY <2>1
<1>9. \A x \in Entry : x.key \in Int /\ x.key \in Keys
  BY EntriesHaveKeys
<1>10. /\ Sorted(nodes'[at].entries)
       /\ ToSet(nodes'[at].entries) = {x \in Items(at) \cup {entry} : x.key < u}
  <2> DEFINE s == Grown
  <2>1. s \in Seq(Entry) /\ Sorted(s) /\ m \in 0 .. Len(s) - 1
    BY <1>5, <1>7, <1>8
  <2> HIDE DEF m, s
  <2>2. LET t == SubSeq(s, 1, m)
        IN /\ t \in Seq(Entry) /\ Len(t) = m /\ Sorted(t)
           /\ \A i \in 1 .. m : t[i] = s[i]
           /\ ToSet(t) = {x \in ToSet(s) : x.key < s[m + 1].key}
    BY <1>9, <2>1, LowerHalf
  <2> QED
    BY <1>2, <1>7, <2>2 DEF m, s
<1>11. /\ Sorted(nodes'[count].entries)
       /\ ToSet(nodes'[count].entries) = {x \in Items(at) \cup {entry} : u <= x.key}
  <2> DEFINE i == m + 1
  <2>1. i \in 1 .. Len(Grown) + 1 /\ i <= Len(Grown)
    BY <1>8
  <2> HIDE DEF m, i
  <2>2. LET t == SubSeq(Grown, i, Len(Grown))
        IN /\ t \in Seq(Entry) /\ Len(t) = Len(Grown) - i + 1 /\ Sorted(t)
           /\ \A j \in 1 .. Len(Grown) - i + 1 : t[j] = Grown[i + j - 1]
           /\ i <= Len(Grown) => ToSet(t) = {x \in ToSet(Grown) : Grown[i].key <= x.key}
           /\ i > 1 => ToSet(t) = {x \in ToSet(Grown) : Grown[i - 1].key < x.key}
    BY <1>5, <1>7, <1>9, <2>1, UpperHalf
  <2> QED
    BY <1>2, <1>7, <2>1, <2>2 DEF m, i
<1>12. Grown[m + 1] \in Items(at) \cup {entry} /\ Grown[1] \in Items(at) \cup {entry}
  BY <1>7, <1>8 DEF ToSet
<1>13. u \in Int /\ u \in Keys /\ u \in KeysIn(at) \cup {entry.key}
  BY <1>5, <1>8, <1>9, <1>12 DEF KeysIn
<1>14. Above(u, low[at])
  <2>1. Grown[1].key < u
    BY <1>7, <1>8 DEF Sorted
  <2>2. AtLeast(entry.key, low[at])
    BY <1>1 DEF Covers
  <2>3. AtLeast(Grown[1].key, low[at])
    BY <1>1, <1>2, <1>12, <2>2 DEF Shape, Leaves
  <2>4. Grown[1].key \in Int /\ low[at] \in Int \cup {None}
    <3>1. Grown[1] \in Entry
      BY <1>5, <1>8
    <3>2. low[at] \in Int \cup {None}
      BY <1>2, BoundsAre
    <3> QED
      BY <1>9, <3>1, <3>2
  <2> QED
    BY <1>13, <2>1, <2>3, <2>4 DEF AtLeast, Above
<1>15. split'.key = u /\ split'.child = count /\ split' # None
  BY <1>2, NoneAssumption
<1> HIDE DEF m, u
<1>16. ASSUME NEW p \in Pages
       PROVE  /\ nodes'[p].leaf = nodes[p].leaf /\ Sorted(nodes'[p].entries)
              /\ Children(p)' = Children(p) /\ (~nodes[p].leaf => nodes'[p] = nodes[p])
  <2>1. CASE p = at
    BY <1>1, <1>2, <1>10, <2>1, NodesAre, TypesAre DEF Children, TInv, LeafNode
  <2>2. CASE p # at
    <3>1. nodes'[p] = nodes[p]
      BY <1>4, <2>2
    <3> QED
      BY <3>1 DEF Shape, Bounded, Children
  <2> QED
    BY <2>1, <2>2
<1>17. \A p \in Pages \ {at} : Items(p)' = Items(p) /\ KeysIn(p)' = KeysIn(p)
  BY <1>4 DEF Items, KeysIn
<1>18. ASSUME NEW p, p = at
       PROVE  /\ Items(p)' = {x \in Items(p) \cup {entry} : x.key < u}
              /\ KeysIn(p)' = {k \in KeysIn(p) \cup {entry.key} : k < u}
  <2>1. Items(p)' = {x \in Items(p) \cup {entry} : x.key < u}
    BY <1>10, <1>18 DEF Items
  <2>2. KeysIn(p)' = {x.key : x \in Items(p)'}
    BY DEF KeysIn
  <2> QED
    BY <2>1, <2>2 DEF KeysIn
<1>19. ASSUME NEW p, p = count
       PROVE  /\ Items(p)' = {x \in Items(at) \cup {entry} : u <= x.key}
              /\ KeysIn(p)' = {k \in KeysIn(at) \cup {entry.key} : u <= k}
  <2>1. Items(p)' = {x \in Items(at) \cup {entry} : u <= x.key}
    BY <1>11, <1>19 DEF Items
  <2>2. KeysIn(p)' = {x.key : x \in Items(p)'}
    BY DEF KeysIn
  <2> QED
    BY <2>1, <2>2 DEF KeysIn
<1>20. ASSUME NEW p, p = count PROVE Children(p)' = {}
  BY <1>2, <1>20 DEF Children
<1>21. \A p \in Pages' : Sorted(nodes'[p].entries)
  BY <1>3, <1>11, <1>16
<1>22. count' = count + 1 /\ count \in Nat /\ root' = root
  BY TypesAre, PagesAre DEF TInv, SplitLeaf
<1> QED
  BY <1>1, <1>2, <1>3, <1>4, <1>5, <1>6, <1>13, <1>14, <1>15, <1>16, <1>17, <1>18, <1>19,
     <1>20, <1>21, <1>22

\* Ghosts extended to a new page
Extends(old, new, p, v) ==
  new[p] = v /\ \A q \in Pages : new[q] = old[q]

\* split_leaf keeps the shape, with the new leaf bounded by the separator
LEMMA SplitLeafShape ==
  ASSUME TInv, SplitLeaf, NEW live, NEW level, NEW low, Shape(live, level, low),
         NEW live2, live2 = live \cup {count},
         NEW level2, level2 \in [Pages' -> Nat], Extends(level, level2, count, 0),
         NEW low2, low2 \in [Pages' -> Keys \cup {None}], Extends(low, low2, count, split'.key)
  PROVE  Shape(live2, level2, low2)'
PROOF
<1> DEFINE u == split'.key
<1>1. /\ at \in live /\ at \in Pages /\ nodes[at].leaf /\ at # count
      /\ Pages' = Pages \cup {count} /\ root' = root /\ count \notin Pages
      /\ count' = count + 1 /\ count \in Nat
      /\ \A p \in Pages : /\ nodes'[p].leaf = nodes[p].leaf
                          /\ Children(p)' = Children(p)
                          /\ ~nodes[p].leaf => nodes'[p] = nodes[p]
      /\ \A p \in Pages' : Sorted(nodes'[p].entries)
      /\ nodes'[count].leaf /\ \A p : p = count => Children(p)' = {}
      /\ \A p \in Pages \ {at} : Items(p)' = Items(p) /\ KeysIn(p)' = KeysIn(p)
      /\ u \in Int /\ u \in Keys /\ split'.child = count /\ split' # None
      /\ u \in KeysIn(at) \cup {entry.key} /\ Above(u, low[at])
      /\ \A p : p = at =>
           /\ Items(p)' = {x \in Items(p) \cup {entry} : x.key < u}
           /\ KeysIn(p)' = {k \in KeysIn(p) \cup {entry.key} : k < u}
      /\ \A p : p = count =>
           /\ Items(p)' = {x \in Items(at) \cup {entry} : u <= x.key}
           /\ KeysIn(p)' = {k \in KeysIn(at) \cup {entry.key} : u <= k}
      /\ Pending = {} /\ Covers(live, level, low, at, entry.key)
  BY SplitLeafItems
<1> HIDE DEF u
<1>2. /\ Bounded(level, low) /\ Leaves(level, low) /\ Inner(level, low)
      /\ Forest /\ Reached(live, level, low) /\ Divided(live, level, low)
      /\ Descent(live, level) /\ Visiting(live, level, low)
  BY DEF Shape
<1>3. /\ None \notin Int /\ live \subseteq Pages /\ root \in live /\ root \in Pages
      /\ \A p \in Pages : /\ low[p] \in Int \cup {None} /\ level[p] \in Nat
                          /\ \A k \in KeysIn(p) : k \in Int
                          /\ Children(p) \subseteq Pages
  BY BoundsAre
<1>4. /\ level2[count] = 0 /\ low2[count] = u
      /\ \A p \in Pages : level2[p] = level[p] /\ low2[p] = low[p]
  BY DEF Extends, u
<1>5. Pending' = {count} /\ path' = path /\ failures' = failures
  BY <1>1 DEF Pending, SplitLeaf
<1>6. entry.key \in Int /\ level[at] = 0
  BY <1>1, <1>2, EntriesHaveKeys DEF TInv, TypeOK, SplitLeaf, Leaves
<1>7. Bounded(level2, low2)'
  <2>1. \A p \in Pages' : level2[p] < count'
    BY <1>1, <1>2, <1>3, <1>4 DEF Bounded
  <2> QED
    BY <1>1, <2>1 DEF Bounded
<1>8. Leaves(level2, low2)'
  <2> SUFFICES ASSUME NEW p \in Pages', nodes'[p].leaf
               PROVE  level2[p] = 0 /\ \A e \in Items(p)' : AtLeast(e.key, low2[p])
    BY DEF Leaves
  <2>1. CASE p = count
    BY <1>1, <1>4, <2>1 DEF AtLeast
  <2>2. CASE p = at
    <3>1. \A e \in Items(p) \cup {entry} : AtLeast(e.key, low[p])
      BY <1>1, <1>2, <2>2 DEF Covers, Leaves
    <3> QED
      BY <1>1, <1>4, <1>6, <2>2, <3>1
  <2>3. CASE p \in Pages \ {at}
    BY <1>1, <1>2, <1>4, <2>3 DEF Leaves
  <2> QED
    BY <1>1, <2>1, <2>2, <2>3
<1>9. Inner(level2, low2)'
  <2> SUFFICES ASSUME NEW p \in Pages', ~nodes'[p].leaf
               PROVE  /\ low2[nodes'[p].first] = low2[p]
                      /\ \A e \in Items(p)' : Above(e.key, low2[p]) /\ low2[e.child] = e.key
                      /\ \A c \in Children(p)' : level2[p] = level2[c] + 1
    BY DEF Inner
  <2>1. p \in Pages \ {at} /\ ~nodes[p].leaf /\ nodes'[p] = nodes[p]
    BY <1>1
  <2>2. nodes[p].first \in Children(p) /\ \A e \in Items(p) : e.child \in Children(p)
    BY <2>1 DEF Children, Items
  <2> QED
    BY <1>1, <1>2, <1>3, <1>4, <2>1, <2>2 DEF Inner
<1>10. Forest'
  <2>1. \A p, q \in Pages' : p # q => Children(p)' \cap Children(q)' = {}
    BY <1>1, <1>2 DEF Forest
  <2>2. \A p \in Pages' : root' \notin Children(p)' /\ Pending' \cap Children(p)' = {}
    BY <1>1, <1>2, <1>3, <1>5 DEF Forest
  <2> QED
    BY <1>1, <1>3, <1>5, <2>1, <2>2 DEF Forest
<1>11. Reached(live2, level2, low2)'
  <2>1. \A p \in live2 : Children(p)' \subseteq live2 /\ level2[p] <= level2[root]
    BY <1>1, <1>2, <1>3, <1>4 DEF Reached
  <2>2. \A p \in live2 : p = root' \/ p \in Pending' \/ \E q \in live2 : p \in Children(q)'
    BY <1>1, <1>2, <1>3, <1>5 DEF Reached
  <2>3. live2 \subseteq Pages' /\ root' \in live2 /\ low2[root'] = None
    BY <1>1, <1>2, <1>3, <1>4 DEF Reached
  <2>4. split'.child \in live2 /\ low2[split'.child] = split'.key
    BY <1>1, <1>4 DEF u
  <2>5. failures' = 0 => live2 = Pages'
    BY <1>1, <1>2, <1>5 DEF Reached
  <2> QED
    BY <1>1, <2>1, <2>2, <2>3, <2>4, <2>5 DEF Reached
<1>12. \A q \in live : level[q] = level[at] /\ LeftOf(low[at], low[q]) =>
         \A k \in KeysIn(at) \cup {entry.key} : BelowKey(k, low[q])
  <2> SUFFICES ASSUME NEW q \in live, level[q] = level[at], LeftOf(low[at], low[q]),
                      NEW k \in KeysIn(at) \cup {entry.key}
               PROVE  BelowKey(k, low[q])
    OBVIOUS
  <2>1. q # at
    BY <1>1, <1>3 DEF LeftOf, Above
  <2> QED
    BY <1>1, <1>2, <2>1 DEF Covers, Divided
<1>13. Divided(live2, level2, low2)'
  <2> DEFINE all == KeysIn(at) \cup {entry.key}
  <2>1. all \in SUBSET Int /\ u \in all
    BY <1>1, <1>3, <1>6
  <2>2. \A q \in live : level[q] = level[at] /\ LeftOf(low[at], low[q]) =>
          \A k \in all : BelowKey(k, low[q])
    BY <1>12
  <2>3. PICK keys : keys = [q \in Pages' |-> KeysIn(q)']
    OBVIOUS
  <2>4. /\ keys[at] \subseteq {k \in all : k < u} /\ keys[count] \subseteq all
        /\ \A q \in live \ {at} : keys[q] = KeysIn(q)
    BY <1>1, <1>3, <2>3
  <2>5. level2[count] = level[at] /\ \A q \in live : level2[q] = level[q] /\ low2[q] = low[q]
    BY <1>3, <1>4, <1>6
  <2> HIDE DEF all
  <2>6. \A a, b \in live \cup {count} : a # b /\ level2[a] = level2[b] =>
          /\ low2[a] # low2[b]
          /\ LeftOf(low2[a], low2[b]) => \A k \in keys[a] : BelowKey(k, low2[b])
    <3>1. at \in live /\ count \notin Pages /\ Above(u, low[at]) /\ low2[count] = u
      BY <1>1, <1>4
    <3> QED
      BY <2>1, <2>2, <2>4, <2>5, <3>1, Halved
  <2>7. \A a \in live2 : keys[a] = KeysIn(a)'
    BY <1>1, <1>3, <2>3
  <2> QED
    BY <2>6, <2>7 DEF Divided
<1>14. path \in Seq(Pages) /\ \A i \in DOMAIN path : path[i] \in Pages /\ path[i] # count
  BY <1>1 DEF TInv, OnTheWay
<1>15. Descent(live2, level2)'
  <2>1. \A i \in DOMAIN path \ {1} : path[i] \in Children(path[i - 1])'
    <3> SUFFICES ASSUME NEW i \in DOMAIN path \ {1}
                 PROVE  path[i] \in Children(path[i - 1])'
      OBVIOUS
    <3>1. i - 1 \in DOMAIN path
      BY <1>14
    <3>2. PICK p \in Pages : p = path[i - 1]
      BY <1>14, <3>1
    <3>3. path[i] \in Children(p)'
      BY <1>1, <1>2, <3>2 DEF Descent
    <3> QED
      BY <1>5, <3>2, <3>3
  <2>2. \A i \in DOMAIN path : path[i] \in live2 \ {count} /\ level2[path[i]] = level2[root] - i + 1
    BY <1>2, <1>3, <1>4, <1>14 DEF Descent
  <2> QED
    BY <1>1, <1>2, <1>5, <2>1, <2>2 DEF Descent
<1>16. Visiting(live2, level2, low2)'
  BY DEF Visiting, SplitLeaf
<1>17. Splitting(live2, level2, low2)'
  <2>1. PICK p : p = at
    OBVIOUS
  <2>2. p \in live2 \ Pending' /\ level2[p] = level2[split'.child] /\ low2[p] # split'.key
    <3>1. low[p] # u
      BY <1>1, <1>3, <2>1 DEF Above
    <3> QED
      BY <1>1, <1>4, <1>5, <1>6, <2>1, <3>1 DEF u
  <2>3. CameBy(p)'
    <3>1. CameBy(p)
      BY <1>2, <2>1 DEF Visiting, SplitLeaf
    <3>2. path # <<>> => Last(path) \in Pages
      BY <1>14 DEF Last
    <3>3. PICK r : r = Last(path)
      OBVIOUS
    <3>4. path # <<>> => p \in Children(r)'
      BY <1>1, <3>1, <3>2, <3>3 DEF CameBy
    <3>5. Last(path)' = r
      BY <1>5, <3>3
    <3> QED
      BY <1>1, <1>5, <3>1, <3>4, <3>5 DEF CameBy
  <2>4. Covers(live2, level2, low2, p, split.key)'
    <3>1. AtLeast(u, low2[p])
      BY <1>1, <1>3, <1>4, <2>1 DEF AtLeast, Above
    <3>2. ASSUME NEW q \in live2 \ Pending', level2[q] = level2[p], LeftOf(low2[p], low2[q])
          PROVE  BelowKey(u, low2[q])
      <4>1. q \in live /\ level[q] = level[at] /\ LeftOf(low[at], low[q]) /\ low2[q] = low[q]
        BY <1>1, <1>3, <1>4, <1>5, <2>1, <3>2
      <4> QED
        BY <1>1, <1>12, <4>1
    <3> QED
      BY <3>1, <3>2 DEF Covers, u
  <2> QED
    BY <2>2, <2>3, <2>4 DEF Splitting
<1> QED
  BY <1>7, <1>8, <1>9, <1>10, <1>11, <1>13, <1>15, <1>16, <1>17 DEF Shape

-----------------------------------------------------------------------------
(***************************************************************************)
(* A split that has come up to a node: the new entry fits between the      *)
(* node's own, and the node had no neighbour for its key.                  *)
(***************************************************************************)
LEMMA ParentShape ==
  ASSUME TInv, pc \in {"ascend", "split_internal"}, path # <<>>,
         NEW live, NEW level, NEW low, Shape(live, level, low)
  PROVE  /\ Parent \in live /\ Parent \in Pages /\ Parent \notin Pending
         /\ ~nodes[Parent].leaf
         /\ split \in ChildEntry /\ split # None /\ split.key \in Int /\ split.key \in Keys
         /\ split.child \in live /\ split.child \in Pages /\ Pending = {split.child}
         /\ low[split.child] = split.key
         /\ level[Parent] = level[split.child] + 1
         /\ level[Parent] = level[root] - Len(path) + 1 /\ Len(path) \in Nat \ {0}
         /\ Above(split.key, low[Parent])
         /\ \A e \in Items(Parent) : e.key # split.key
         /\ \A q \in live : level[q] = level[Parent] /\ LeftOf(low[Parent], low[q]) =>
              \A k \in KeysIn(Parent) \cup {split.key} : BelowKey(k, low[q])
         /\ GrownUp \in Seq(ChildEntry)
         /\ Sorted(GrownUp) /\ ToSet(GrownUp) = Items(Parent) \cup {split}
PROOF
<1> DEFINE P == Parent
           s == split.key
           c == split.child
<1>1. /\ P \in Pages /\ P = path[Len(path)] /\ Len(path) \in Nat \ {0} /\ ~nodes[P].leaf
      /\ nodes[P].entries \in Seq(ChildEntry)
      /\ split \in ChildEntry /\ split # None /\ c \in Pages
      /\ GrownUp \in Seq(ChildEntry)
  BY ParentIs
<1>2. s \in Int /\ s \in Keys /\ Pending = {c}
  BY <1>1, EntriesHaveKeys DEF Pending
<1>3. /\ Bounded(level, low) /\ Inner(level, low) /\ Forest /\ Reached(live, level, low)
      /\ Divided(live, level, low) /\ Descent(live, level) /\ Splitting(live, level, low)
  BY DEF Shape
<1>4. /\ None \notin Int /\ live \subseteq Pages
      /\ \A p \in Pages : /\ low[p] \in Int \cup {None} /\ level[p] \in Nat
                          /\ \A k \in KeysIn(p) : k \in Int
                          /\ \A e \in Items(p) : e.key \in KeysIn(p) /\ e.key \in Int
                          /\ Children(p) \subseteq Pages
  BY BoundsAre
<1>5. P \in live \ Pending /\ level[P] = level[root] - Len(path) + 1
  <2>1. Len(path) \in DOMAIN path
    BY <1>1 DEF TInv, OnTheWay
  <2> QED
    BY <1>1, <1>3, <2>1 DEF Descent
<1>6. c \in live /\ low[c] = s
  BY <1>1, <1>3 DEF Reached
<1>7. PICK p \in live \ Pending :
        /\ level[p] = level[c] /\ CameBy(p) /\ Covers(live, level, low, p, s) /\ low[p] # s
  BY <1>1, <1>3 DEF Splitting
<1>8. p \in Children(P) /\ p \in Pages
  BY <1>4, <1>7 DEF CameBy, Parent
<1> HIDE DEF P, s, c
<1>9. level[P] = level[p] + 1
  BY <1>1, <1>8, ChildLow
<1>10. Covers(live, level, low, P, s) /\ Above(s, low[P])
  BY <1>2, <1>5, <1>7, <1>8, CoversUp
<1>11. ASSUME NEW e \in Items(P), e.key = s
       PROVE  FALSE
  <2> DEFINE f == e.child
  <2>1. f \in Children(P) /\ low[f] = s
    BY <1>1, <1>3, <1>11 DEF Children, Items, Inner
  <2>2. f \in live \ Pending /\ level[P] = level[f] + 1 /\ f \in Pages
    BY <1>1, <1>3, <1>5, <2>1, ChildLow DEF Reached, Forest
  <2>3. level[f] = level[p]
    BY <1>4, <1>8, <1>9, <2>2
  <2>4. LeftOf(low[p], low[f])
    BY <1>2, <1>4, <1>7, <1>8, <2>1 DEF Covers, AtLeast, LeftOf, Above
  <2>5. BelowKey(s, low[f])
    BY <1>7, <2>2, <2>3, <2>4 DEF Covers
  <2> QED
    BY <1>2, <2>1, <2>5 DEF BelowKey
<1>12. ASSUME NEW q \in live, level[q] = level[P], LeftOf(low[P], low[q]),
              NEW k \in KeysIn(P) \cup {s}
       PROVE  BelowKey(k, low[q])
  <2>1. q # P
    BY <1>1, <1>4, <1>12 DEF LeftOf, Above
  <2>2. CASE k \in KeysIn(P)
    BY <1>3, <1>5, <1>12, <2>1, <2>2 DEF Divided
  <2>3. CASE k = s
    <3>1. q # c
      BY <1>1, <1>4, <1>7, <1>8, <1>9, <1>12
    <3> QED
      BY <1>2, <1>10, <1>12, <2>3, <3>1 DEF Covers
  <2> QED
    BY <2>2, <2>3
<1>13. Sorted(GrownUp) /\ ToSet(GrownUp) = Items(P) \cup {split}
  <2> DEFINE t == nodes[P].entries
  <2>1. t \in Seq(ChildEntry) /\ Sorted(t) /\ \A x \in ChildEntry : x.key \in Int
    BY <1>1, <1>3, EntriesHaveKeys DEF Bounded
  <2>2. Found(t, split.key) = {}
    BY <1>11 DEF Found, Items, ToSet, s
  <2> HIDE DEF t
  <2>3. LET u == InsertAt(t, Before(t, split.key) + 1, split)
        IN Sorted(u) /\ ToSet(u) = ToSet(t) \cup {split}
    BY <1>1, <2>1, <2>2, InsertedInOrder
  <2> QED
    BY <2>3 DEF t, GrownUp, EntryInserted, Items, P
<1>14. level[P] = level[c] + 1
  BY <1>7, <1>9
<1> QED
  BY <1>1, <1>2, <1>4, <1>5, <1>6, <1>10, <1>11, <1>12, <1>13, <1>14 DEF P, s, c

\* What AddToParent changes, in terms of items and keys
LEMMA AddToParentItems ==
  ASSUME TInv, AddToParent, NEW live, NEW level, NEW low, Shape(live, level, low)
  PROVE  /\ Pages' = Pages /\ root' = root /\ count' = count
         /\ \A p \in Pages : /\ nodes'[p].leaf = nodes[p].leaf
                             /\ Sorted(nodes'[p].entries)
                             /\ ~nodes[p].leaf => nodes'[p].first = nodes[p].first
                             /\ nodes[p].leaf => nodes'[p] = nodes[p]
         /\ \A p \in Pages \ {Parent} :
              Items(p)' = Items(p) /\ KeysIn(p)' = KeysIn(p) /\ Children(p)' = Children(p)
         /\ \A p : p = Parent =>
              /\ Items(p)' = Items(p) \cup {split} /\ KeysIn(p)' = KeysIn(p) \cup {split.key}
              /\ Children(p)' = Children(p) \cup {split.child}
PROOF
<1>1. /\ Parent \in Pages /\ Writes({Parent}) /\ UNCHANGED <<count, root>>
      /\ nodes[Parent] \in InternalNode /\ nodes'[Parent] \in InternalNode
      /\ ~nodes'[Parent].leaf /\ ~nodes[Parent].leaf
      /\ nodes'[Parent].first = nodes[Parent].first /\ nodes'[Parent].entries = GrownUp
  BY AddToParentWrites
<1>2. Pages' = Pages /\ \A p \in Pages \ {Parent} : nodes'[p] = nodes[p]
  BY <1>1, TypesAre, PagesAre DEF TInv, Writes, Pages
<1>3. Sorted(GrownUp) /\ ToSet(GrownUp) = Items(Parent) \cup {split}
  BY ParentShape DEF AddToParent
<1>4. ASSUME NEW p \in Pages \ {Parent}
      PROVE  Items(p)' = Items(p) /\ KeysIn(p)' = KeysIn(p) /\ Children(p)' = Children(p)
  BY <1>2 DEF Items, KeysIn, Children
<1>5. ASSUME NEW p, p = Parent
      PROVE  /\ Items(p)' = Items(p) \cup {split} /\ KeysIn(p)' = KeysIn(p) \cup {split.key}
             /\ Children(p)' = Children(p) \cup {split.child}
  <2>1. Items(p)' = Items(p) \cup {split}
    BY <1>1, <1>3, <1>5 DEF Items
  <2>2. KeysIn(p)' = {x.key : x \in Items(p)'}
    BY DEF KeysIn
  <2>3. Children(p)' = {nodes'[p].first} \cup {x.child : x \in Items(p)'}
    BY <1>1, <1>5 DEF Children, Items
  <2>4. Children(p) = {nodes[p].first} \cup {x.child : x \in Items(p)}
    BY <1>1, <1>5 DEF Children, Items
  <2>5. KeysIn(p) = {x.key : x \in Items(p)}
    BY DEF KeysIn
  <2>6. nodes'[p].first = nodes[p].first
    BY <1>1, <1>5
  <2> QED
    BY <2>1, <2>2, <2>3, <2>4, <2>5, <2>6
<1>6. \A p \in Pages : /\ nodes'[p].leaf = nodes[p].leaf
                       /\ Sorted(nodes'[p].entries)
                       /\ ~nodes[p].leaf => nodes'[p].first = nodes[p].first
                       /\ nodes[p].leaf => nodes'[p] = nodes[p]
  <2> SUFFICES ASSUME NEW p \in Pages
               PROVE  /\ nodes'[p].leaf = nodes[p].leaf /\ Sorted(nodes'[p].entries)
                      /\ ~nodes[p].leaf => nodes'[p].first = nodes[p].first
                      /\ nodes[p].leaf => nodes'[p] = nodes[p]
    OBVIOUS
  <2>1. CASE p = Parent
    BY <1>1, <1>3, <2>1 DEF InternalNode
  <2>2. CASE p # Parent
    <3>1. nodes'[p] = nodes[p]
      BY <1>2, <2>2
    <3> QED
      BY <3>1 DEF Shape, Bounded
  <2> QED
    BY <2>1, <2>2
<1> QED
  BY <1>1, <1>2, <1>4, <1>5, <1>6

\* AddToParent keeps the shape, and the new node is reached from the root
LEMMA AddToParentShape ==
  ASSUME TInv, AddToParent, NEW live, NEW level, NEW low, Shape(live, level, low)
  PROVE  Shape(live, level, low)'
PROOF
<1>1. /\ Pages' = Pages /\ root' = root /\ count' = count
      /\ \A p \in Pages : /\ nodes'[p].leaf = nodes[p].leaf
                          /\ Sorted(nodes'[p].entries)
                          /\ ~nodes[p].leaf => nodes'[p].first = nodes[p].first
                          /\ nodes[p].leaf => nodes'[p] = nodes[p]
      /\ \A p \in Pages \ {Parent} :
           Items(p)' = Items(p) /\ KeysIn(p)' = KeysIn(p) /\ Children(p)' = Children(p)
      /\ \A p : p = Parent =>
           /\ Items(p)' = Items(p) \cup {split} /\ KeysIn(p)' = KeysIn(p) \cup {split.key}
           /\ Children(p)' = Children(p) \cup {split.child}
  BY AddToParentItems
<1>2. /\ Parent \in live /\ Parent \in Pages /\ ~nodes[Parent].leaf
      /\ split.child \in live /\ split.child \in Pages /\ Pending = {split.child}
      /\ low[split.child] = split.key /\ level[Parent] = level[split.child] + 1
      /\ Above(split.key, low[Parent])
      /\ \A q \in live : level[q] = level[Parent] /\ LeftOf(low[Parent], low[q]) =>
           \A k \in KeysIn(Parent) \cup {split.key} : BelowKey(k, low[q])
  BY ParentShape DEF AddToParent
<1>3. /\ Bounded(level, low) /\ Leaves(level, low) /\ Inner(level, low)
      /\ Forest /\ Reached(live, level, low) /\ Divided(live, level, low)
  BY DEF Shape
<1>4. failures' = failures /\ Idle
  BY DEF AddToParent, Done
<1>5. /\ Descent(live, level)' /\ Visiting(live, level, low)' /\ Splitting(live, level, low)'
      /\ split' = None /\ Pending' = {}
  BY <1>4, IdleWay
<1>6. live \subseteq Pages /\ \A p \in Pages : Children(p) \subseteq Pages
  BY BoundsAre
<1>7. Bounded(level, low)'
  BY <1>1, <1>3 DEF Bounded
<1>8. Leaves(level, low)'
  <2>1. \A p \in Pages : nodes[p].leaf => p # Parent
    BY <1>2
  <2> QED
    BY <1>1, <1>3, <2>1 DEF Leaves
<1>9. Inner(level, low)'
  <2> SUFFICES ASSUME NEW p \in Pages, ~nodes[p].leaf
               PROVE  /\ low[nodes[p].first] = low[p]
                      /\ \A e \in Items(p)' : Above(e.key, low[p]) /\ low[e.child] = e.key
                      /\ \A c \in Children(p)' : level[p] = level[c] + 1
    BY <1>1 DEF Inner
  <2>1. CASE p = Parent
    BY <1>1, <1>2, <1>3, <2>1 DEF Inner
  <2>2. CASE p # Parent
    BY <1>1, <1>3, <2>2 DEF Inner
  <2> QED
    BY <2>1, <2>2
<1>10. Forest'
  <2>1. ASSUME NEW p \in Pages, NEW q \in Pages, p # q
        PROVE  Children(p)' \cap Children(q)' = {}
    <3>1. Children(p) \cap Children(q) = {}
      BY <1>3, <2>1 DEF Forest
    <3>2. split.child \notin Children(p) /\ split.child \notin Children(q)
      BY <1>2, <1>3 DEF Forest
    <3>3. p # Parent => Children(p)' = Children(p)
      BY <1>1
    <3>4. q # Parent => Children(q)' = Children(q)
      BY <1>1
    <3>5. p = Parent => Children(p)' = Children(p) \cup {split.child}
      BY <1>1
    <3>6. q = Parent => Children(q)' = Children(q) \cup {split.child}
      BY <1>1
    <3> QED
      BY <2>1, <3>1, <3>2, <3>3, <3>4, <3>5, <3>6
  <2>2. \A p \in Pages : root \notin Children(p)'
    BY <1>1, <1>2, <1>3 DEF Forest
  <2> QED
    BY <1>1, <1>5, <2>1, <2>2 DEF Forest
<1>11. Reached(live, level, low)'
  <2>1. \A p \in live : Children(p)' \subseteq live
    BY <1>1, <1>2, <1>3, <1>6 DEF Reached
  <2>2. \A p \in live : p = root \/ \E q \in live : p \in Children(q)'
    <3> SUFFICES ASSUME NEW p \in live, p # root
                 PROVE  \E q \in live : p \in Children(q)'
      OBVIOUS
    <3>1. CASE p = split.child
      BY <1>1, <1>2, <3>1
    <3>2. CASE p # split.child
      <4>1. PICK q \in live : p \in Children(q)
        BY <1>2, <1>3, <3>2 DEF Reached
      <4>2. Children(q) \subseteq Children(q)'
        <5>1. CASE q = Parent
          BY <1>1, <5>1
        <5>2. CASE q # Parent
          BY <1>1, <1>6, <5>2
        <5> QED
          BY <5>1, <5>2
      <4> QED
        BY <4>1, <4>2
    <3> QED
      BY <3>1, <3>2
  <2> QED
    BY <1>1, <1>3, <1>4, <1>5, <2>1, <2>2 DEF Reached
<1>12. Divided(live, level, low)'
  <2> SUFFICES ASSUME NEW p \in live, NEW q \in live, p # q, level[p] = level[q]
               PROVE  /\ low[p] # low[q]
                      /\ LeftOf(low[p], low[q]) => \A k \in KeysIn(p)' : BelowKey(k, low[q])
    BY DEF Divided
  <2>1. /\ low[p] # low[q]
        /\ LeftOf(low[p], low[q]) => \A k \in KeysIn(p) : BelowKey(k, low[q])
    BY <1>3 DEF Divided
  <2>2. CASE p # Parent
    BY <1>1, <1>6, <2>1, <2>2
  <2>3. CASE p = Parent
    BY <1>1, <1>2, <2>1, <2>3
  <2> QED
    BY <2>2, <2>3
<1> QED
  BY <1>5, <1>7, <1>8, <1>9, <1>10, <1>11, <1>12 DEF Shape

-----------------------------------------------------------------------------
\* What split_internal changes, in terms of items and keys
LEMMA SplitInternalItems ==
  ASSUME TInv, SplitInternal, NEW live, NEW level, NEW low, Shape(live, level, low)
  PROVE  /\ path # <<>> /\ Parent \in Pages /\ Parent # count /\ ~nodes[Parent].leaf
         /\ Pages' = Pages \cup {count} /\ root' = root /\ count \notin Pages
         /\ count' = count + 1 /\ count \in Nat
         /\ Up \in Items(Parent) \cup {split} /\ Up.key \in Int /\ Up.key \in Keys
         /\ split'.key = Up.key /\ split'.child = count /\ split' # None
         /\ \A p \in Pages : /\ nodes'[p].leaf = nodes[p].leaf
                             /\ ~nodes[p].leaf => nodes'[p].first = nodes[p].first
                             /\ nodes[p].leaf => nodes'[p] = nodes[p]
         /\ ~nodes'[count].leaf /\ nodes'[count].first = Up.child
         /\ \A p \in Pages' : Sorted(nodes'[p].entries)
         /\ \A p \in Pages \ {Parent} :
              Items(p)' = Items(p) /\ KeysIn(p)' = KeysIn(p) /\ Children(p)' = Children(p)
         /\ \A p : p = Parent =>
              Items(p)' = {x \in Items(p) \cup {split} : x.key < Up.key}
         /\ \A p : p = count =>
              Items(p)' = {x \in Items(Parent) \cup {split} : Up.key < x.key}
         /\ \A p \in {Parent, count} :
              /\ KeysIn(p)' = {x.key : x \in Items(p)'}
              /\ Children(p)' = {nodes'[p].first} \cup {x.child : x \in Items(p)'}
PROOF
<1>1. /\ path # <<>> /\ Writes({Parent, count}) /\ NewPage
      /\ Parent # count /\ Parent \in Pages
      /\ nodes[Parent] \in InternalNode /\ ~nodes[Parent].leaf
      /\ Mid(GrownUp) \in 1 .. Len(GrownUp) - 1 /\ Len(GrownUp) \in Nat
      /\ Up \in ChildEntry /\ Mid(GrownUp) + 1 \in DOMAIN GrownUp
      /\ ~nodes'[Parent].leaf /\ nodes'[Parent].first = nodes[Parent].first
      /\ nodes'[Parent].entries = SubSeq(GrownUp, 1, Mid(GrownUp))
      /\ ~nodes'[count].leaf /\ nodes'[count].first = Up.child
      /\ nodes'[count].entries = SubSeq(GrownUp, Mid(GrownUp) + 2, Len(GrownUp))
      /\ nodes'[Parent] \in InternalNode /\ nodes'[count] \in InternalNode
      /\ split' = [key |-> Up.key, child |-> count] /\ split' \in ChildEntry
  BY SplitInternalWrites
<1>2. /\ Pages' = Pages \cup {count} /\ count \in PageNos /\ count \notin Pages
      /\ \A p \in Pages : p \in PageNos
  BY <1>1, NewPageIs, TypesAre, PagesAre DEF TInv
<1>3. \A p \in Pages \ {Parent} : nodes'[p] = nodes[p]
  BY <1>1, <1>2 DEF Writes
<1>4. /\ GrownUp \in Seq(ChildEntry) /\ Sorted(GrownUp)
      /\ ToSet(GrownUp) = Items(Parent) \cup {split}
  BY <1>1, ParentShape DEF SplitInternal
<1>5. \A x \in ChildEntry : x.key \in Int /\ x.key \in Keys
  BY EntriesHaveKeys
<1> DEFINE m == Mid(GrownUp)
<1>6. Up = GrownUp[m + 1]
  BY DEF Up
<1>7. m \in 1 .. Len(GrownUp) - 1 /\ Len(GrownUp) \in Nat
  BY <1>1
<1> HIDE DEF m
<1>8. /\ Sorted(nodes'[Parent].entries)
      /\ ToSet(nodes'[Parent].entries) = {x \in Items(Parent) \cup {split} : x.key < Up.key}
  <2> DEFINE s == GrownUp
  <2>1. s \in Seq(ChildEntry) /\ Sorted(s) /\ m \in 0 .. Len(s) - 1
    BY <1>4, <1>7
  <2> HIDE DEF s
  <2>2. LET t == SubSeq(s, 1, m)
        IN /\ t \in Seq(ChildEntry) /\ Len(t) = m /\ Sorted(t)
           /\ \A i \in 1 .. m : t[i] = s[i]
           /\ ToSet(t) = {x \in ToSet(s) : x.key < s[m + 1].key}
    BY <1>5, <2>1, LowerHalf
  <2> QED
    BY <1>1, <1>4, <1>6, <2>2 DEF m, s
<1>9. /\ Sorted(nodes'[count].entries)
      /\ ToSet(nodes'[count].entries) = {x \in Items(Parent) \cup {split} : Up.key < x.key}
  <2> DEFINE s == GrownUp
             i == m + 2
  <2>1. s \in Seq(ChildEntry) /\ Sorted(s) /\ i \in 1 .. Len(s) + 1 /\ i > 1 /\ i - 1 = m + 1
    BY <1>4, <1>7
  <2> HIDE DEF s, i
  <2>2. LET t == SubSeq(s, i, Len(s))
        IN /\ t \in Seq(ChildEntry) /\ Len(t) = Len(s) - i + 1 /\ Sorted(t)
           /\ \A j \in 1 .. Len(s) - i + 1 : t[j] = s[i + j - 1]
           /\ i <= Len(s) => ToSet(t) = {x \in ToSet(s) : s[i].key <= x.key}
           /\ i > 1 => ToSet(t) = {x \in ToSet(s) : s[i - 1].key < x.key}
    BY <1>5, <2>1, UpperHalf
  <2>3. ToSet(SubSeq(s, i, Len(s))) = {x \in ToSet(s) : Up.key < x.key}
    BY <1>6, <2>1, <2>2 DEF s
  <2>4. nodes'[count].entries = SubSeq(s, i, Len(s))
    BY <1>1 DEF m, s, i
  <2> QED
    BY <1>4, <2>2, <2>3, <2>4 DEF s
<1>10. Up \in Items(Parent) \cup {split} /\ Up.key \in Int /\ Up.key \in Keys
  <2>1. Up \in ToSet(GrownUp)
    BY <1>1, <1>6 DEF ToSet, m
  <2> QED
    BY <1>1, <1>4, <1>5, <2>1
<1>11. split'.key = Up.key /\ split'.child = count /\ split' # None
  BY <1>1, NoneAssumption
<1>12. \A p \in Pages \ {Parent} :
         Items(p)' = Items(p) /\ KeysIn(p)' = KeysIn(p) /\ Children(p)' = Children(p)
  BY <1>3 DEF Items, KeysIn, Children
<1>13. ASSUME NEW p, p = Parent
       PROVE  Items(p)' = {x \in Items(p) \cup {split} : x.key < Up.key}
  BY <1>8, <1>13 DEF Items
<1>14. ASSUME NEW p, p = count
       PROVE  Items(p)' = {x \in Items(Parent) \cup {split} : Up.key < x.key}
  BY <1>9, <1>14 DEF Items
<1>15. ASSUME NEW p \in {Parent, count}
       PROVE  /\ KeysIn(p)' = {x.key : x \in Items(p)'}
              /\ Children(p)' = {nodes'[p].first} \cup {x.child : x \in Items(p)'}
  BY <1>1, <1>15 DEF KeysIn, Children, Items
<1>16. ASSUME NEW p \in Pages
       PROVE  /\ nodes'[p].leaf = nodes[p].leaf /\ Sorted(nodes'[p].entries)
              /\ ~nodes[p].leaf => nodes'[p].first = nodes[p].first
              /\ nodes[p].leaf => nodes'[p] = nodes[p]
  <2>1. CASE p = Parent
    BY <1>1, <1>8, <2>1 DEF InternalNode
  <2>2. CASE p # Parent
    <3>1. nodes'[p] = nodes[p]
      BY <1>3, <2>2
    <3> QED
      BY <3>1 DEF Shape, Bounded
  <2> QED
    BY <2>1, <2>2
<1>17. \A p \in Pages' : Sorted(nodes'[p].entries)
  BY <1>2, <1>9, <1>16
<1>18. count' = count + 1 /\ count \in Nat /\ root' = root
  BY TypesAre, PagesAre DEF TInv, SplitInternal
<1> QED
  BY <1>1, <1>2, <1>10, <1>11, <1>12, <1>13, <1>14, <1>15, <1>16, <1>17, <1>18

\* split_internal keeps the shape: the middle key bounds the new node
LEMMA SplitInternalShape ==
  ASSUME TInv, SplitInternal, NEW live, NEW level, NEW low, Shape(live, level, low),
         NEW live2, live2 = live \cup {count},
         NEW level2, level2 \in [Pages' -> Nat], Extends(level, level2, count, level[Parent]),
         NEW low2, low2 \in [Pages' -> Keys \cup {None}], Extends(low, low2, count, split'.key)
  PROVE  Shape(live2, level2, low2)'
PROOF
<1>0. PICK P, c, u, s, new : P = Parent /\ c = split.child /\ u = Up.key /\ s = split.key /\ new = count
  OBVIOUS
<1>1. /\ path # <<>> /\ P \in Pages /\ P # new /\ ~nodes[P].leaf
      /\ Pages' = Pages \cup {new} /\ root' = root /\ new \notin Pages
      /\ count' = new + 1 /\ new \in Nat
      /\ Up \in Items(P) \cup {split} /\ u \in Int
      /\ split'.key = u /\ split'.child = new /\ split' # None
      /\ \A p \in Pages : /\ nodes'[p].leaf = nodes[p].leaf
                          /\ ~nodes[p].leaf => nodes'[p].first = nodes[p].first
                          /\ nodes[p].leaf => nodes'[p] = nodes[p]
      /\ ~nodes'[new].leaf /\ nodes'[new].first = Up.child
      /\ \A p \in Pages' : Sorted(nodes'[p].entries)
      /\ \A p \in Pages \ {P} :
           Items(p)' = Items(p) /\ KeysIn(p)' = KeysIn(p) /\ Children(p)' = Children(p)
      /\ Items(P)' = {x \in Items(P) \cup {split} : x.key < u}
      /\ Items(new)' = {x \in Items(P) \cup {split} : u < x.key}
      /\ \A p \in {P, new} :
           /\ KeysIn(p)' = {x.key : x \in Items(p)'}
           /\ Children(p)' = {nodes'[p].first} \cup {x.child : x \in Items(p)'}
  BY <1>0, SplitInternalItems
<1>2. /\ P \in live /\ P \notin Pending /\ s \in Int
      /\ c \in live /\ c \in Pages /\ Pending = {c} /\ low[c] = s
      /\ level[P] = level[c] + 1 /\ level[P] = level[root] - Len(path) + 1
      /\ Len(path) \in Nat \ {0} /\ Above(s, low[P])
      /\ \A e \in Items(P) : e.key # s
      /\ \A q \in live : level[q] = level[P] /\ LeftOf(low[P], low[q]) =>
           \A k \in KeysIn(P) \cup {s} : BelowKey(k, low[q])
  <2>1. /\ Parent \in live /\ Parent \notin Pending /\ split.key \in Int
        /\ split.child \in live /\ split.child \in Pages /\ Pending = {split.child}
        /\ low[split.child] = split.key
        /\ level[Parent] = level[split.child] + 1
        /\ level[Parent] = level[root] - Len(path) + 1
        /\ Len(path) \in Nat \ {0} /\ Above(split.key, low[Parent])
        /\ \A e \in Items(Parent) : e.key # split.key
        /\ \A q \in live : level[q] = level[Parent] /\ LeftOf(low[Parent], low[q]) =>
             \A k \in KeysIn(Parent) \cup {split.key} : BelowKey(k, low[q])
    <3>1. path # <<>> /\ pc \in {"ascend", "split_internal"}
      BY <1>1 DEF SplitInternal
    <3> QED
      BY <3>1, ParentShape
  <2> QED
    BY <1>0, <2>1
<1>3. /\ Bounded(level, low) /\ Leaves(level, low) /\ Inner(level, low)
      /\ Forest /\ Reached(live, level, low) /\ Divided(live, level, low)
      /\ Descent(live, level)
  BY DEF Shape
<1>4. /\ None \notin Int /\ live \subseteq Pages /\ root \in live /\ root \in Pages
      /\ \A p \in Pages : /\ low[p] \in Int \cup {None} /\ level[p] \in Nat
                          /\ \A k \in KeysIn(p) : k \in Int
                          /\ \A e \in Items(p) : e.key \in KeysIn(p) /\ e.key \in Int
                          /\ Children(p) \subseteq Pages
  BY BoundsAre
<1>5. /\ level2[new] = level[P] /\ low2[new] = u
      /\ \A p \in Pages : level2[p] = level[p] /\ low2[p] = low[p]
  BY <1>0, <1>1 DEF Extends
<1>6. Pending' = {new} /\ failures' = failures
  BY <1>1 DEF Pending, SplitInternal
<1>7. /\ path \in Seq(Pages) /\ path' \in Seq(Pages) /\ Len(path') = Len(path) - 1
      /\ \A i \in 1 .. Len(path) - 1 : path'[i] = path[i]
      /\ P = path[Len(path)]
  BY <1>0, <1>1, ParentIs DEF SplitInternal, TInv, OnTheWay
\* The entries of the two halves, and the one between them
<1>8. ASSUME NEW e \in Items(P) \cup {split}
      PROVE  /\ e.key \in Int /\ Above(e.key, low[P]) /\ low[e.child] = e.key
             /\ e.child \in live /\ e.child \in Pages /\ level[P] = level[e.child] + 1
             /\ e.child \in Children(P) \cup {c} /\ e.key \in KeysIn(P) \cup {s}
  <2>1. CASE e = split
    BY <1>0, <1>1, <1>2, <2>1
  <2>2. CASE e \in Items(P)
    <3>1. e.child \in Children(P)
      BY <1>1, <2>2 DEF Children, Items
    <3> QED
      BY <1>1, <1>2, <1>3, <1>4, <2>2, <3>1 DEF Inner, Reached
  <2> QED
    BY <2>1, <2>2
<1> DEFINE f == nodes[P].first
<1>9. /\ f \in Children(P) /\ low[f] = low[P] /\ f \in live /\ f \in Pages
      /\ level[P] = level[f] + 1
  <2>1. f \in Children(P)
    BY <1>1 DEF Children
  <2> QED
    BY <1>1, <1>2, <1>3, <1>4, <2>1 DEF Inner, Reached
<1>10. /\ nodes'[P].first = f
       /\ Children(P)' = {f} \cup {x.child : x \in Items(P)'}
       /\ Children(new)' = {Up.child} \cup {x.child : x \in Items(new)'}
  BY <1>1
<1> HIDE DEF f
<1>11. Up.key = u
  BY <1>0
<1>12. Children(P)' \cup Children(new)' = Children(P) \cup {c}
  <2>1. Children(P) \cup {c} = {f} \cup {x.child : x \in Items(P) \cup {split}}
    <3>1. Children(P) = {nodes[P].first} \cup {x.child : x \in Items(P)}
      BY <1>1 DEF Children, Items
    <3> QED
      BY <1>0, <3>1 DEF f
  <2>2. ASSUME NEW x \in Items(P) \cup {split}
        PROVE  x \in Items(P)' \/ x \in Items(new)' \/ x.child = Up.child
    <3>1. x.key < u \/ u < x.key \/ x.key = u
      BY <1>1, <1>8
    <3>2. ASSUME x.key = u PROVE x.child = Up.child
      <4>1. \A e \in Items(P) : e.key = u => e = Up \/ Up = split
        <5> SUFFICES ASSUME NEW e \in Items(P), e.key = u, Up # split PROVE e = Up
          OBVIOUS
        <5>1. Up \in Items(P)
          BY <1>1
        <5>2. PICK i, j \in DOMAIN nodes[P].entries : e = nodes[P].entries[i] /\ Up = nodes[P].entries[j]
          BY <5>1 DEF Items, ToSet
        <5>3. i = j
          <6>1. nodes[P].entries \in Seq(ChildEntry)
            BY <1>1, NodesAre, TypesAre DEF TInv, InternalNode
          <6>2. Sorted(nodes[P].entries)
            BY <1>1, <1>3 DEF Bounded
          <6>3. ~(i < j) /\ ~(j < i)
            BY <1>0, <1>1, <5>2, <6>2 DEF Sorted
          <6> QED
            BY <6>1, <6>3
        <5> QED
          BY <5>2, <5>3
      <4> QED
        BY <1>0, <1>1, <1>2, <3>2, <4>1
    <3> QED
      BY <1>1, <3>1, <3>2
  <2> QED
    BY <1>1, <1>10, <2>1, <2>2
<1>13. Children(P)' \cap Children(new)' = {}
  <2> SUFFICES ASSUME NEW x \in Children(P)', x \in Children(new)' PROVE FALSE
    OBVIOUS
  <2>1. low[x] = low[P] \/ (low[x] \in Int /\ low[x] < u)
    BY <1>1, <1>8, <1>9, <1>10
  <2>2. low[x] \in Int /\ low[x] >= u /\ Above(low[x], low[P])
    BY <1>1, <1>8, <1>10, <1>11
  <2> QED
    BY <1>1, <1>4, <2>1, <2>2 DEF Above
<1>14. ASSUME NEW x \in Children(P)' \cup Children(new)'
       PROVE  /\ x \in live /\ x \in Pages /\ level[P] = level[x] + 1
              /\ x # root /\ \A q \in Pages \ {P} : x \notin Children(q)
  <2>1. x \in live /\ x \in Pages /\ level[P] = level[x] + 1
    BY <1>1, <1>8, <1>9, <1>10
  <2>2. x \in Children(P) \/ x = c
    BY <1>12
  <2> QED
    BY <1>1, <1>2, <1>3, <1>4, <2>1, <2>2 DEF Forest
<1>15. Bounded(level2, low2)'
  <2>1. \A p \in Pages' : level2[p] < count'
    <3>1. count = new
      BY <1>0
    <3>2. \A p \in Pages : level[p] < new
      BY <1>3, <3>1 DEF Bounded
    <3> QED
      BY <1>1, <1>4, <1>5, <3>2
  <2> QED
    BY <1>1, <2>1 DEF Bounded
<1>16. Leaves(level2, low2)'
  <2>1. \A p \in Pages' : nodes'[p].leaf => p \in Pages \ {P} /\ nodes[p].leaf
    BY <1>1
  <2> QED
    BY <1>1, <1>3, <1>5, <2>1 DEF Leaves
<1>17. Inner(level2, low2)'
  <2> SUFFICES ASSUME NEW p \in Pages', ~nodes'[p].leaf
               PROVE  /\ low2[nodes'[p].first] = low2[p]
                      /\ \A e \in Items(p)' : Above(e.key, low2[p]) /\ low2[e.child] = e.key
                      /\ \A x \in Children(p)' : level2[p] = level2[x] + 1
    BY DEF Inner
  <2>1. CASE p = P
    BY <1>1, <1>5, <1>8, <1>9, <1>10, <1>14, <2>1
  <2>2. CASE p = new
    <3>1. low2[nodes'[p].first] = low2[p]
      BY <1>1, <1>5, <1>8, <1>11, <2>2
    <3>2. \A e \in Items(p)' : Above(e.key, low2[p]) /\ low2[e.child] = e.key
      BY <1>1, <1>5, <1>8, <2>2 DEF Above
    <3>3. \A x \in Children(p)' : level2[p] = level2[x] + 1
      BY <1>5, <1>14, <2>2
    <3> QED
      BY <3>1, <3>2, <3>3
  <2>3. CASE p \in Pages \ {P}
    <3>1. ~nodes[p].leaf /\ nodes'[p].first = nodes[p].first /\ Items(p)' = Items(p)
          /\ Children(p)' = Children(p)
      BY <1>1, <2>3
    <3>2. nodes[p].first \in Children(p) /\ \A e \in Items(p) : e.child \in Children(p)
      BY <3>1 DEF Children, Items
    <3> QED
      BY <1>3, <1>4, <1>5, <2>3, <3>1, <3>2 DEF Inner
  <2> QED
    BY <1>1, <2>1, <2>2, <2>3
<1>18. Forest'
  <2>1. ASSUME NEW p \in Pages', NEW q \in Pages', p # q, p \notin {P, new}
        PROVE  Children(p)' \cap Children(q)' = {}
    <3>1. p \in Pages \ {P} /\ Children(p)' = Children(p)
      BY <1>1, <2>1
    <3>2. CASE q \in {P, new}
      BY <1>14, <3>1, <3>2
    <3>3. CASE q \notin {P, new}
      BY <1>1, <1>3, <2>1, <3>1, <3>3 DEF Forest
    <3> QED
      BY <3>2, <3>3
  <2>2. \A p, q \in Pages' : p # q => Children(p)' \cap Children(q)' = {}
    <3> SUFFICES ASSUME NEW p \in Pages', NEW q \in Pages', p # q
                 PROVE  Children(p)' \cap Children(q)' = {}
      OBVIOUS
    <3>1. CASE p \notin {P, new}
      BY <2>1, <3>1
    <3>2. CASE q \notin {P, new}
      BY <2>1, <3>2
    <3>3. CASE p \in {P, new} /\ q \in {P, new}
      BY <1>13, <3>3
    <3> QED
      BY <3>1, <3>2, <3>3
  <2>3. ASSUME NEW p \in Pages'
        PROVE  root \notin Children(p)' /\ new \notin Children(p)'
    <3>1. CASE p \in {P, new}
      BY <1>1, <1>14, <3>1
    <3>2. CASE p \notin {P, new}
      BY <1>1, <1>3, <1>4, <3>2 DEF Forest
    <3> QED
      BY <3>1, <3>2
  <2> QED
    BY <1>1, <1>4, <1>6, <2>2, <2>3 DEF Forest
<1>19. live2 = live \cup {new}
  BY <1>0
<1>20. Reached(live2, level2, low2)'
  <2>1. \A p \in live2 : Children(p)' \subseteq live2
    <3> SUFFICES ASSUME NEW p \in live2 PROVE Children(p)' \subseteq live2
      OBVIOUS
    <3>1. CASE p \in {P, new}
      BY <1>14, <1>19, <3>1
    <3>2. CASE p \notin {P, new}
      BY <1>1, <1>3, <1>4, <1>19, <3>2 DEF Reached
    <3> QED
      BY <3>1, <3>2
  <2>2. \A p \in live2 : level2[p] <= level2[root]
    BY <1>2, <1>3, <1>4, <1>5, <1>19 DEF Reached
  <2>3. ASSUME NEW p \in live2, p # root, p # new
        PROVE  \E q \in live2 : p \in Children(q)'
    <3>1. p = c \/ \E q \in live : p \in Children(q)
      BY <1>2, <1>3, <1>19, <2>3 DEF Reached
    <3>2. CASE p \in Children(P) \cup {c}
      BY <1>2, <1>12, <1>19, <3>2
    <3>3. CASE p \notin Children(P) \cup {c}
      <4>1. PICK q \in live : p \in Children(q)
        BY <3>1, <3>3
      <4>2. q \in Pages \ {P}
        BY <1>4, <3>3, <4>1
      <4> QED
        BY <1>1, <1>19, <4>1, <4>2
    <3> QED
      BY <3>2, <3>3
  <2>4. live2 \subseteq Pages' /\ root' \in live2 /\ low2[root'] = None
    BY <1>1, <1>3, <1>4, <1>5, <1>19 DEF Reached
  <2>5. split'.child \in live2 /\ low2[split'.child] = split'.key
    BY <1>1, <1>5, <1>19
  <2>6. failures' = 0 => live2 = Pages'
    BY <1>1, <1>3, <1>6, <1>19 DEF Reached
  <2> QED
    BY <1>1, <1>6, <2>1, <2>2, <2>3, <2>4, <2>5, <2>6 DEF Reached
<1>21. Above(u, low[P])
  BY <1>1, <1>8, <1>11
<1>22. Divided(live2, level2, low2)'
  <2> DEFINE all == KeysIn(P) \cup {s}
  <2>1. all \in SUBSET Int /\ u \in all
    BY <1>1, <1>2, <1>4, <1>8, <1>11
  <2>2. \A q \in live : level[q] = level[P] /\ LeftOf(low[P], low[q]) =>
          \A k \in all : BelowKey(k, low[q])
    BY <1>2
  <2>3. PICK keys : keys = [q \in Pages' |-> KeysIn(q)']
    OBVIOUS
  <2>4. /\ keys[P] \subseteq {k \in all : k < u} /\ keys[new] \subseteq all
        /\ \A q \in live \ {P} : keys[q] = KeysIn(q)
    <3>1. keys[P] = {x.key : x \in Items(P)'} /\ keys[new] = {x.key : x \in Items(new)'}
      BY <1>1, <2>3
    <3>2. \A q \in live \ {P} : keys[q] = KeysIn(q)
      BY <1>1, <1>4, <2>3
    <3> QED
      BY <1>1, <1>8, <3>1, <3>2
  <2>5. \A q \in live : level2[q] = level[q] /\ low2[q] = low[q]
    BY <1>4, <1>5
  <2> HIDE DEF all
  <2>6. \A a, b \in live \cup {new} : a # b /\ level2[a] = level2[b] =>
          /\ low2[a] # low2[b]
          /\ LeftOf(low2[a], low2[b]) => \A k \in keys[a] : BelowKey(k, low2[b])
    <3>1. P \in live /\ new \notin Pages /\ Above(u, low[P]) /\ low2[new] = u
          /\ level2[new] = level[P]
      BY <1>1, <1>2, <1>5, <1>21
    <3> QED
      BY <2>1, <2>2, <2>4, <2>5, <3>1, Halved
  <2>7. \A a \in live2 : keys[a] = KeysIn(a)'
    BY <1>1, <1>4, <1>19, <2>3
  <2> QED
    BY <1>19, <2>6, <2>7 DEF Divided
<1> DEFINE n == Len(path) - 1
<1>23. /\ n \in Nat /\ Len(path') = n
       /\ \A i \in 1 .. n : i \in DOMAIN path /\ path[i] \in live \ Pending
                            /\ level[path[i]] = level[root] - i + 1 /\ path[i] # P
  <2>1. n \in Nat /\ Len(path') = n /\ \A i \in 1 .. n : i \in DOMAIN path
    BY <1>2, <1>7
  <2>2. ASSUME NEW i \in 1 .. n
        PROVE  path[i] \in live \ Pending /\ level[path[i]] = level[root] - i + 1 /\ path[i] # P
    <3>1. path[i] \in live \ Pending /\ level[path[i]] = level[root] - i + 1
      BY <1>3, <2>1 DEF Descent
    <3>2. level[root] - i + 1 # level[root] - Len(path) + 1
      BY <1>2, <1>4, <2>1
    <3> QED
      BY <1>2, <3>1, <3>2
  <2> QED
    BY <2>1, <2>2
<1>24. ASSUME NEW i \in 1 .. n, NEW x, x \in Children(path[i])
       PROVE  x \in Children(path[i])'
  <2>1. PICK q : q = path[i]
    OBVIOUS
  <2>2. q \in Pages \ {P} /\ path'[i] = q
    BY <1>4, <1>7, <1>23, <2>1
  <2>3. x \in Children(q)'
    BY <1>1, <1>24, <2>1, <2>2
  <2> QED
    BY <2>1, <2>2, <2>3
<1>25. \A i \in DOMAIN path \ {1} : path[i] \in Children(path[i - 1])
  BY <1>3 DEF Descent
<1>26. Descent(live2, level2)'
  <2>1. path' # <<>> => path'[1] = root'
    <3> SUFFICES ASSUME path' # <<>> PROVE path'[1] = root'
      OBVIOUS
    <3>1. n > 0
      BY <1>7, <1>23
    <3>2. 1 \in 1 .. Len(path) - 1 /\ path # <<>>
      BY <1>1, <1>23, <3>1
    <3> QED
      BY <1>1, <1>3, <1>7, <3>2 DEF Descent
  <2>2. \A i \in DOMAIN path' :
          path'[i] \in live2 \ Pending' /\ level2[path'[i]] = level2[root'] - i + 1
    <3> SUFFICES ASSUME NEW i \in 1 .. n
                 PROVE  path'[i] \in live2 \ Pending' /\ level2[path'[i]] = level2[root'] - i + 1
      BY <1>7, <1>23
    <3>1. path'[i] = path[i] /\ path[i] \in Pages
      BY <1>4, <1>7, <1>23
    <3>2. path[i] \in live /\ path[i] # new /\ level2[path[i]] = level[path[i]]
      BY <1>1, <1>4, <1>5, <1>23, <3>1
    <3>3. level2[path[i]] = level2[root] - i + 1
      BY <1>4, <1>5, <1>23, <3>2
    <3> QED
      BY <1>1, <1>6, <1>19, <3>1, <3>2, <3>3
  <2>3. \A i \in DOMAIN path' \ {1} : path'[i] \in Children(path[i - 1])'
    <3> SUFFICES ASSUME NEW i \in 1 .. n, i # 1
                 PROVE  path'[i] \in Children(path[i - 1])'
      BY <1>7, <1>23
    <3>6. n \in Nat
      BY <1>23
    <3>7. i - 1 \in 1 .. n
      BY <3>6
    <3>1. i - 1 \in 1 .. n /\ i \in DOMAIN path \ {1} /\ path'[i] = path[i]
      BY <1>7, <1>23, <3>7
    <3>2. path[i] \in Children(path[i - 1])
      BY <1>25, <3>1
    <3>3. PICK j : j = i - 1
      OBVIOUS
    <3>4. path[i] \in Children(path[j])'
      BY <1>24, <3>1, <3>2, <3>3
    <3> QED
      BY <3>1, <3>3, <3>4
  <2> QED
    BY <2>1, <2>2, <2>3 DEF Descent
<1>27. Visiting(live2, level2, low2)'
  BY DEF Visiting, SplitInternal
<1>28. CameBy(P)'
  <2>1. CASE path' = <<>>
    <3>1. Len(path) = 1
      BY <1>2, <1>7, <1>23, <2>1
    <3>2. P = root
      BY <1>1, <1>3, <1>7, <3>1 DEF Descent
    <3> QED
      BY <1>1, <2>1, <3>2 DEF CameBy
  <2>2. CASE path' # <<>>
    <3>1. n \in 1 .. n /\ Len(path) \in DOMAIN path \ {1}
      BY <1>2, <1>7, <1>23, <2>2
    <3>2. P \in Children(path[n])
      BY <1>7, <1>25, <3>1
    <3>3. PICK j : j = n
      OBVIOUS
    <3>4. P \in Children(path[j])'
      BY <1>24, <3>1, <3>2, <3>3
    <3>5. PICK q : q = path'[j]
      OBVIOUS
    <3>6. Last(path)' = q
      BY <1>23, <3>3, <3>5 DEF Last
    <3>7. P \in Children(q)'
      BY <3>4, <3>5
    <3> QED
      BY <2>2, <3>6, <3>7 DEF CameBy
  <2> QED
    BY <2>1, <2>2
<1>29. Splitting(live2, level2, low2)'
  <2>1. P \in live2 \ Pending' /\ level2[P] = level2[split'.child] /\ low2[P] # split'.key
    <3>1. low[P] # u
      BY <1>1, <1>4, <1>21 DEF Above
    <3> QED
      BY <1>1, <1>2, <1>5, <1>6, <1>19, <3>1
  <2>2. Covers(live2, level2, low2, P, split.key)'
    <3>1. AtLeast(u, low2[P])
      BY <1>1, <1>4, <1>5, <1>21 DEF AtLeast, Above
    <3>2. ASSUME NEW q \in live2 \ Pending', level2[q] = level2[P], LeftOf(low2[P], low2[q])
          PROVE  BelowKey(u, low2[q])
      <4>1. q \in live /\ level[q] = level[P] /\ LeftOf(low[P], low[q]) /\ low2[q] = low[q]
        BY <1>1, <1>4, <1>5, <1>6, <1>19, <3>2
      <4>2. u \in KeysIn(P) \cup {s}
        BY <1>1, <1>8, <1>11
      <4> QED
        BY <1>2, <4>1, <4>2
    <3> QED
      BY <1>1, <3>1, <3>2 DEF Covers
  <2> QED
    BY <1>28, <2>1, <2>2 DEF Splitting
<1> QED
  BY <1>15, <1>16, <1>17, <1>18, <1>20, <1>22, <1>26, <1>27, <1>29 DEF Shape

-----------------------------------------------------------------------------
\* What NewRoot changes, in terms of items and keys
LEMMA NewRootItems ==
  ASSUME TInv, NewRoot
  PROVE  /\ Pages' = Pages \cup {count} /\ count \notin Pages /\ count' = count + 1
         /\ count \in Nat /\ root \in Pages /\ root' = count
         /\ \A p \in Pages : /\ nodes'[p] = nodes[p]
                             /\ Items(p)' = Items(p) /\ KeysIn(p)' = KeysIn(p)
                             /\ Children(p)' = Children(p)
         /\ ~nodes'[count].leaf /\ nodes'[count].first = root
         /\ nodes'[count].entries = <<split>>
         /\ \A p : p = count => /\ Items(p)' = {split} /\ KeysIn(p)' = {split.key}
                                /\ Children(p)' = {root, split.child}
PROOF
<1>1. /\ Writes({count}) /\ NewPage /\ root' = count /\ root \in Pages
      /\ ~nodes'[count].leaf /\ nodes'[count].first = root
      /\ nodes'[count].entries = <<split>> /\ ToSet(nodes'[count].entries) = {split}
  BY NewRootWrites
<1>2. /\ Pages' = Pages \cup {count} /\ count \in PageNos /\ count \notin Pages
      /\ \A p \in Pages : p \in PageNos
      /\ count \in Nat
  BY <1>1, NewPageIs, TypesAre, PagesAre DEF TInv
<1>3. \A p \in Pages : nodes'[p] = nodes[p]
  BY <1>1, <1>2 DEF Writes
<1>4. \A p \in Pages : /\ Items(p)' = Items(p) /\ KeysIn(p)' = KeysIn(p)
                       /\ Children(p)' = Children(p)
  BY <1>3 DEF Items, KeysIn, Children
<1>5. ASSUME NEW p, p = count
      PROVE  Items(p)' = {split} /\ KeysIn(p)' = {split.key} /\ Children(p)' = {root, split.child}
  <2>1. Items(p)' = {split}
    BY <1>1, <1>5 DEF Items
  <2>2. KeysIn(p)' = {x.key : x \in Items(p)'}
    BY DEF KeysIn
  <2>3. Children(p)' = {nodes'[p].first} \cup {x.child : x \in Items(p)'}
    BY <1>1, <1>5 DEF Children, Items
  <2> QED
    BY <1>1, <1>5, <2>1, <2>2, <2>3
<1> QED
  BY <1>1, <1>2, <1>3, <1>4, <1>5 DEF NewPage

\* NewRoot keeps the shape, one level higher
LEMMA NewRootShape ==
  ASSUME TInv, NewRoot, NEW live, NEW level, NEW low, Shape(live, level, low),
         NEW live2, live2 = live \cup {count},
         NEW level2, level2 \in [Pages' -> Nat], Extends(level, level2, count, level[root] + 1),
         NEW low2, low2 \in [Pages' -> Keys \cup {None}], Extends(low, low2, count, None)
  PROVE  Shape(live2, level2, low2)'
PROOF
<1>0. PICK new, c, s : new = count /\ c = split.child /\ s = split.key
  OBVIOUS
<1>1. /\ Pages' = Pages \cup {new} /\ new \notin Pages /\ count' = new + 1
      /\ new \in Nat /\ root \in Pages /\ root' = new
      /\ \A p \in Pages : /\ nodes'[p] = nodes[p]
                          /\ Items(p)' = Items(p) /\ KeysIn(p)' = KeysIn(p)
                          /\ Children(p)' = Children(p)
      /\ ~nodes'[new].leaf /\ nodes'[new].first = root
      /\ nodes'[new].entries = <<split>>
      /\ Items(new)' = {split} /\ KeysIn(new)' = {s} /\ Children(new)' = {root, c}
  BY <1>0, NewRootItems
<1>2. /\ Bounded(level, low) /\ Leaves(level, low) /\ Inner(level, low)
      /\ Forest /\ Reached(live, level, low) /\ Divided(live, level, low)
      /\ Splitting(live, level, low)
  BY DEF Shape
<1>3. /\ None \notin Int /\ live \subseteq Pages /\ root \in live
      /\ \A p \in Pages : /\ low[p] \in Int \cup {None} /\ level[p] \in Nat
                          /\ Children(p) \subseteq Pages
  BY BoundsAre
<1>4. /\ level2[new] = level[root] + 1 /\ low2[new] = None
      /\ \A p \in Pages : level2[p] = level[p] /\ low2[p] = low[p]
  BY <1>0 DEF Extends
<1>5. split # None /\ Pending = {c} /\ c \in Pages /\ s \in Int
  <2>1. split # None /\ split \in ChildEntry /\ split.child \in Pages
    BY NewRootWrites
  <2> QED
    BY <1>0, <2>1, EntriesHaveKeys DEF Pending
<1>6. c \in live /\ low[c] = s /\ level[root] = level[c]
  <2>1. c \in live /\ low[c] = s
    BY <1>0, <1>2, <1>5 DEF Reached
  <2>2. path = <<>>
    BY DEF NewRoot
  <2>3. \A p : CameBy(p) => p = root
    BY <2>2 DEF CameBy
  <2> QED
    BY <1>0, <1>2, <1>5, <2>1, <2>3 DEF Splitting
<1>7. live2 = live \cup {new}
  BY <1>0
<1>8. failures' = failures /\ Idle
  BY DEF NewRoot, Done
<1>9. /\ Descent(live2, level2)' /\ Visiting(live2, level2, low2)' /\ Splitting(live2, level2, low2)'
      /\ split' = None /\ Pending' = {}
  BY <1>8, IdleWay
<1>10. Bounded(level2, low2)'
  <2>1. \A p \in Pages' : level2[p] < count'
    <3>1. \A p \in Pages : level[p] < new
      BY <1>0, <1>2 DEF Bounded
    <3> QED
      BY <1>1, <1>3, <1>4, <3>1
  <2>2. Sorted(<<split>>)
    BY DEF Sorted
  <2>3. \A p \in Pages' : Sorted(nodes'[p].entries)
    BY <1>1, <1>2, <2>2 DEF Bounded
  <2> QED
    BY <2>1, <2>3 DEF Bounded
<1>11. Leaves(level2, low2)'
  <2>1. \A p \in Pages' : nodes'[p].leaf => p \in Pages
    BY <1>1
  <2> QED
    BY <1>1, <1>2, <1>4, <2>1 DEF Leaves
<1>12. Inner(level2, low2)'
  <2> SUFFICES ASSUME NEW p \in Pages', ~nodes'[p].leaf
               PROVE  /\ low2[nodes'[p].first] = low2[p]
                      /\ \A e \in Items(p)' : Above(e.key, low2[p]) /\ low2[e.child] = e.key
                      /\ \A x \in Children(p)' : level2[p] = level2[x] + 1
    BY DEF Inner
  <2>1. CASE p = new
    <3>1. low2[nodes'[p].first] = low2[p]
      BY <1>1, <1>2, <1>4, <2>1 DEF Reached
    <3>2. \A e \in Items(p)' : Above(e.key, low2[p]) /\ low2[e.child] = e.key
      BY <1>0, <1>1, <1>4, <1>5, <1>6, <2>1 DEF Above
    <3>3. \A x \in Children(p)' : level2[p] = level2[x] + 1
      BY <1>1, <1>4, <1>5, <1>6, <2>1
    <3> QED
      BY <3>1, <3>2, <3>3
  <2>2. CASE p \in Pages
    <3>1. /\ ~nodes[p].leaf /\ nodes'[p].first = nodes[p].first /\ Items(p)' = Items(p)
          /\ Children(p)' = Children(p)
      BY <1>1, <2>2
    <3>2. nodes[p].first \in Children(p) /\ \A e \in Items(p) : e.child \in Children(p)
      BY <3>1 DEF Children, Items
    <3> QED
      BY <1>2, <1>3, <1>4, <2>2, <3>1, <3>2 DEF Inner
  <2> QED
    BY <1>1, <2>1, <2>2
<1>13. Forest'
  <2>1. \A p \in Pages : Children(p)' \cap Children(new)' = {}
    BY <1>1, <1>2, <1>5 DEF Forest
  <2>2. \A p, q \in Pages' : p # q => Children(p)' \cap Children(q)' = {}
    BY <1>1, <1>2, <2>1 DEF Forest
  <2>3. \A p \in Pages' : new \notin Children(p)'
    BY <1>1, <1>3, <1>5
  <2> QED
    BY <1>1, <1>9, <2>2, <2>3 DEF Forest
<1>14. Reached(live2, level2, low2)'
  <2>1. \A p \in live2 : Children(p)' \subseteq live2 /\ level2[p] <= level2[new]
    BY <1>1, <1>2, <1>3, <1>4, <1>6, <1>7 DEF Reached
  <2>2. \A p \in live2 : p = new \/ \E q \in live2 : p \in Children(q)'
    <3> SUFFICES ASSUME NEW p \in live2, p # new
                 PROVE  \E q \in live2 : p \in Children(q)'
      OBVIOUS
    <3>1. CASE p \in {root, c}
      BY <1>1, <1>7, <3>1
    <3>2. CASE p \notin {root, c}
      <4>1. PICK q \in live : p \in Children(q)
        BY <1>2, <1>5, <1>7, <3>2 DEF Reached
      <4> QED
        BY <1>1, <1>3, <1>7, <4>1
    <3> QED
      BY <3>1, <3>2
  <2>3. live2 \subseteq Pages' /\ root' \in live2 /\ low2[root'] = None
    BY <1>1, <1>3, <1>4, <1>7
  <2>4. failures' = 0 => live2 = Pages'
    BY <1>1, <1>2, <1>7, <1>8 DEF Reached
  <2> QED
    BY <1>1, <1>9, <2>1, <2>2, <2>3, <2>4 DEF Reached
<1>15. Divided(live2, level2, low2)'
  <2> SUFFICES ASSUME NEW p \in live2, NEW q \in live2, p # q, level2[p] = level2[q]
               PROVE  /\ low2[p] # low2[q]
                      /\ LeftOf(low2[p], low2[q]) => \A k \in KeysIn(p)' : BelowKey(k, low2[q])
    BY DEF Divided
  <2>1. \A r \in live : level[r] <= level[root] /\ level[r] \in Nat /\ level2[r] = level[r]
    BY <1>2, <1>3, <1>4 DEF Reached
  <2>2. p \in live /\ q \in live
    BY <1>3, <1>4, <1>7, <2>1
  <2> QED
    BY <1>1, <1>2, <1>3, <1>4, <2>2 DEF Divided
<1> QED
  BY <1>9, <1>10, <1>11, <1>12, <1>13, <1>14, <1>15 DEF Shape

-----------------------------------------------------------------------------
(***************************************************************************)
(* The steps of insert keep the chain of the leaves, and what it holds.    *)
(***************************************************************************)
\* No leaf gets or loses an entry, and the links onwards stay
SameLeaves ==
  /\ Pages \subseteq Pages'
  /\ \A p \in Pages : /\ nodes'[p].leaf = nodes[p].leaf
                      /\ nodes[p].leaf => /\ nodes'[p].entries = nodes[p].entries
                                          /\ nodes'[p].next = nodes[p].next
  /\ \A p \in Pages' \ Pages : ~nodes'[p].leaf

\* While the leaves stay as they are, so does their chain and what it holds
LEMMA LeavesKept ==
  ASSUME TInv, SameLeaves, NEW chain, Chains(chain),
         NEW live, NEW low, Ordered(live, low, chain), NEW live2, NEW low2,
         \A p \in Pages : (p \in live2 => p \in live) /\ low2[p] = low[p]
  PROVE  /\ Chains(chain)' /\ Ordered(live2, low2, chain)'
         /\ \A k, v : FirstIs(chain, k, v) => FirstIs(chain, k, v)'
PROOF
<1>1. /\ chain \in Seq(Pages) /\ chain # <<>> /\ chain[1] = 0
      /\ \A i, j \in DOMAIN chain : chain[i] = chain[j] => i = j
      /\ ToSet(chain) = {p \in Pages : nodes[p].leaf}
      /\ \A i \in DOMAIN chain :
           nodes[chain[i]].next = IF i = Len(chain) THEN None ELSE chain[i + 1]
  BY DEF Chains
<1>2. \A i \in DOMAIN chain : chain[i] \in Pages /\ nodes[chain[i]].leaf
  BY <1>1 DEF ToSet
<1>3. \A i \in DOMAIN chain :
        Items(chain[i])' = Items(chain[i]) /\ KeysIn(chain[i])' = KeysIn(chain[i])
  <2> SUFFICES ASSUME NEW i \in DOMAIN chain
               PROVE  Items(chain[i])' = Items(chain[i]) /\ KeysIn(chain[i])' = KeysIn(chain[i])
    OBVIOUS
  <2>1. nodes'[chain[i]].entries = nodes[chain[i]].entries
    BY <1>2 DEF SameLeaves
  <2> QED
    BY <2>1 DEF Items, KeysIn
<1>4. Chains(chain)'
  <2>1. chain \in Seq(Pages')
    BY <1>1 DEF SameLeaves
  <2>2. {p \in Pages' : nodes'[p].leaf} = {p \in Pages : nodes[p].leaf}
    BY DEF SameLeaves
  <2>3. \A i \in DOMAIN chain :
          nodes'[chain[i]].next = IF i = Len(chain) THEN None ELSE chain[i + 1]
    BY <1>1, <1>2 DEF SameLeaves
  <2> QED
    BY <1>1, <2>1, <2>2, <2>3 DEF Chains
<1>5. Ordered(live2, low2, chain)'
  BY <1>2, <1>3 DEF Ordered
<1>6. \A k, v : FirstIs(chain, k, v) => FirstIs(chain, k, v)'
  <2>1. \A i \in DOMAIN chain : \A j \in 1 .. i - 1 : j \in DOMAIN chain
    BY <1>1
  <2> SUFFICES ASSUME NEW k, NEW v, FirstIs(chain, k, v) PROVE FirstIs(chain, k, v)'
    OBVIOUS
  <2>2. CASE v = None /\ \A i \in DOMAIN chain : k \notin KeysIn(chain[i])
    BY <1>3, <2>2 DEF FirstIs
  <2>3. CASE \E i \in DOMAIN chain :
               /\ \E e \in Items(chain[i]) : e.key = k /\ e.val = v
               /\ \A j \in 1 .. i - 1 : k \notin KeysIn(chain[j])
    <3>1. PICK i \in DOMAIN chain :
               /\ \E e \in Items(chain[i]) : e.key = k /\ e.val = v
               /\ \A j \in 1 .. i - 1 : k \notin KeysIn(chain[j])
      BY <2>3
    <3>2. \E e \in Items(chain[i])' : e.key = k /\ e.val = v
      BY <1>3, <3>1
    <3>3. \A j \in 1 .. i - 1 : k \notin KeysIn(chain[j])'
      BY <1>3, <2>1, <3>1
    <3> QED
      BY <3>2, <3>3 DEF FirstIs
  <2> QED
    BY <2>2, <2>3 DEF FirstIs
<1> QED
  BY <1>4, <1>5, <1>6

\* While no link backwards is written, the links lead backwards
LEMMA BackwardsKept ==
  ASSUME NEW chain, Chains(chain), Backwards(chain),
         \A p \in Pages : nodes[p].leaf => nodes'[p].prev = nodes[p].prev,
         failures > 0 \/ pc = "relink" => failures' > 0
  PROVE  Backwards(chain)'
PROOF
<1>1. \A i \in DOMAIN chain : nodes'[chain[i]].prev = nodes[chain[i]].prev
  BY DEF Chains, ToSet
<1> QED
  BY <1>1 DEF Backwards

\* The last step of split_leaf puts the link where it belongs
LEMMA RelinkSound ==
  ASSUME TInv, Relink, NEW chain, Chains(chain), Backwards(chain)
  PROVE  SameLeaves /\ Backwards(chain)'
PROOF
<1>0. PICK c, q : c = split.child /\ q = nodes[split.child].next
  OBVIOUS
<1>1. /\ q \in Pages /\ Writes({q})
      /\ nodes'[q].leaf = nodes[q].leaf /\ nodes'[q].entries = nodes[q].entries
      /\ nodes[q].leaf => /\ nodes'[q].next = nodes[q].next /\ nodes'[q].prev = c
      /\ ~nodes[q].leaf => nodes'[q] = nodes[q]
  BY <1>0, RelinkWrites
<1>2. ASSUME NEW p \in Pages, p # q PROVE nodes'[p] = nodes[p]
  BY <1>1, <1>2, TypesAre, PagesAre DEF Writes, TInv
<1>3. Pages' = Pages /\ failures' = failures /\ split' = split /\ pc = "relink"
  BY DEF Relink, Pages, call
<1>4. SameLeaves
  BY <1>1, <1>2, <1>3 DEF SameLeaves
<1>5. /\ chain \in Seq(Pages)
      /\ \A i, j \in DOMAIN chain : chain[i] = chain[j] => i = j
      /\ ToSet(chain) = {p \in Pages : nodes[p].leaf}
      /\ \A i \in DOMAIN chain :
           nodes[chain[i]].next = IF i = Len(chain) THEN None ELSE chain[i + 1]
  BY DEF Chains
<1>6. c \in Pages /\ nodes[c].leaf /\ q # None
  BY <1>0, <1>3 DEF TInv, OnTheWay, TypeOK
<1>7. PICK b \in DOMAIN chain : chain[b] = c
  BY <1>5, <1>6 DEF ToSet
<1>8. b # Len(chain) /\ q = chain[b + 1] /\ b + 1 \in DOMAIN chain
  <2>1. q = IF b = Len(chain) THEN None ELSE chain[b + 1]
    BY <1>0, <1>5, <1>7
  <2>2. b # Len(chain)
    BY <1>6, <2>1
  <2> QED
    BY <1>5, <2>1, <2>2
<1>9. nodes[q].leaf /\ nodes'[q].prev = c
  BY <1>1, <1>5, <1>8 DEF ToSet
<1>10. ASSUME NEW i \in DOMAIN chain \ {1}
       PROVE  \/ nodes'[chain[i]].prev = chain[i - 1]
              \/ /\ failures' > 0
                 /\ \E j \in 1 .. i - 1 : nodes'[chain[i]].prev = chain[j]
  <2>1. CASE chain[i] = q
    <3>1. i = b + 1 /\ i - 1 = b
      BY <1>5, <1>8, <2>1
    <3> QED
      BY <1>7, <1>9, <2>1, <3>1
  <2>2. CASE chain[i] # q
    <3>1. nodes'[chain[i]] = nodes[chain[i]]
      BY <1>2, <1>5, <2>2
    <3>2. i - 1 \in DOMAIN chain
      BY <1>5
    <3>3. chain[i - 1] # c
      <4> SUFFICES ASSUME chain[i - 1] = c PROVE FALSE
        OBVIOUS
      <4>1. i - 1 = b
        BY <1>5, <1>7, <3>2
      <4>2. i = b + 1
        BY <1>5, <4>1
      <4> QED
        BY <1>8, <2>2, <4>2
    <3> QED
      BY <1>0, <1>3, <3>1, <3>3 DEF Backwards
  <2> QED
    BY <2>1, <2>2
<1> QED
  BY <1>4, <1>10 DEF Backwards

-----------------------------------------------------------------------------
\* InsertInLeaf keeps the chain in order and changes one key in it
LEMMA InsertInLeafSound ==
  ASSUME TInv, InsertInLeaf, NEW live, NEW level, NEW low, Shape(live, level, low),
         NEW chain, Sound(live, low, chain)
  PROVE  /\ Sound(live, low, chain)'
         /\ \A k, v : k # entry.key /\ FirstIs(chain, k, v) => FirstIs(chain, k, v)'
         /\ \A k, v : k = entry.key /\ v = entry.val => FirstIs(chain, k, v)'
PROOF
<1>0. PICK p, e : p = at /\ e = entry
  OBVIOUS
<1>1. /\ p \in live /\ p \in Pages /\ nodes[p].leaf
      /\ Pages' = Pages
      /\ \A q \in Pages : nodes'[q].leaf = nodes[q].leaf
      /\ \A q \in Pages \ {p} :
           nodes'[q] = nodes[q] /\ Items(q)' = Items(q) /\ KeysIn(q)' = KeysIn(q)
      /\ nodes'[p].next = nodes[p].next /\ nodes'[p].prev = nodes[p].prev
      /\ Items(p)' = {x \in Items(p) : x.key # e.key} \cup {e}
      /\ KeysIn(p)' = KeysIn(p) \cup {e.key}
      /\ Pending = {} /\ Covers(live, level, low, p, e.key) /\ e \in Entry
  BY <1>0, InsertInLeafItems
<1>2. /\ chain \in Seq(Pages) /\ chain # <<>> /\ chain[1] = 0
      /\ \A i, j \in DOMAIN chain : chain[i] = chain[j] => i = j
      /\ ToSet(chain) = {q \in Pages : nodes[q].leaf}
      /\ \A i \in DOMAIN chain :
           nodes[chain[i]].next = IF i = Len(chain) THEN None ELSE chain[i + 1]
  BY DEF Sound, Chains
<1>3. \A i \in DOMAIN chain : chain[i] \in Pages /\ nodes[chain[i]].leaf
  BY <1>2 DEF ToSet
<1>4. PICK a \in DOMAIN chain : chain[a] = p
  BY <1>1, <1>2 DEF ToSet
<1>5. /\ None \notin Int
      /\ \A q \in Pages : low[q] \in Int \cup {None} /\ \A k \in KeysIn(q) : k \in Int
  BY BoundsAre
<1>6. e.key \in Int
  BY <1>1, EntriesHaveKeys
<1>7. ASSUME NEW i \in DOMAIN chain, NEW j \in DOMAIN chain, i < j, chain[j] \in live
      PROVE  /\ \A k \in KeysIn(chain[i])' : BelowKey(k, low[chain[j]])
             /\ chain[i] \in live => LeftOf(low[chain[i]], low[chain[j]])
  <2>1. /\ \A k \in KeysIn(chain[i]) : BelowKey(k, low[chain[j]])
        /\ chain[i] \in live => LeftOf(low[chain[i]], low[chain[j]])
    BY <1>7 DEF Sound, Ordered
  <2>2. CASE chain[i] # p
    BY <1>1, <1>3, <2>1, <2>2
  <2>3. CASE chain[i] = p
    <3>1. level[p] = 0 /\ level[chain[j]] = 0
      BY <1>1, <1>3 DEF Shape, Leaves
    <3>2. BelowKey(e.key, low[chain[j]])
      BY <1>1, <1>7, <2>1, <2>3, <3>1 DEF Covers
    <3> QED
      BY <1>1, <2>1, <2>3, <3>2
  <2> QED
    BY <2>2, <2>3
<1>8. Ordered(live, low, chain)'
  BY <1>7 DEF Ordered
<1>9. Chains(chain)'
  <2>1. {q \in Pages' : nodes'[q].leaf} = {q \in Pages : nodes[q].leaf}
    BY <1>1
  <2>2. \A i \in DOMAIN chain : nodes'[chain[i]].next = nodes[chain[i]].next
    BY <1>1, <1>3
  <2> QED
    BY <1>1, <1>2, <2>1, <2>2 DEF Chains
<1>10. Backwards(chain)'
  <2>1. \A q \in Pages : nodes[q].leaf => nodes'[q].prev = nodes[q].prev
    BY <1>1
  <2>2. failures' = failures /\ pc # "relink"
    BY DEF InsertInLeaf, Done
  <2> QED
    BY <2>1, <2>2, BackwardsKept DEF Sound
\* The leaves before the one of the key do not hold it
<1>11. \A j \in 1 .. a - 1 : j \in DOMAIN chain /\ chain[j] # p /\ e.key \notin KeysIn(chain[j])
  <2> SUFFICES ASSUME NEW j \in 1 .. a - 1
               PROVE  j \in DOMAIN chain /\ chain[j] # p /\ e.key \notin KeysIn(chain[j])
    OBVIOUS
  <2>1. j \in DOMAIN chain /\ j < a
    BY <1>2
  <2>2. \A k \in KeysIn(chain[j]) : BelowKey(k, low[p])
    BY <1>1, <1>4, <2>1 DEF Sound, Ordered
  <2>3. AtLeast(e.key, low[p])
    BY <1>1 DEF Covers
  <2> QED
    BY <1>1, <1>2, <1>3, <1>4, <1>5, <1>6, <2>1, <2>2, <2>3 DEF BelowKey, AtLeast
<1>12. FirstIs(chain, e.key, e.val)'
  <2>1. \E x \in Items(chain[a])' : x.key = e.key /\ x.val = e.val
    BY <1>1, <1>4
  <2>2. \A j \in 1 .. a - 1 : e.key \notin KeysIn(chain[j])'
    BY <1>1, <1>3, <1>11
  <2> QED
    BY <2>1, <2>2 DEF FirstIs
<1>13. ASSUME NEW k, NEW v, k # e.key, FirstIs(chain, k, v)
       PROVE  FirstIs(chain, k, v)'
  <2>1. ASSUME NEW i \in DOMAIN chain
        PROVE  /\ k \notin KeysIn(chain[i]) => k \notin KeysIn(chain[i])'
               /\ \A x \in Items(chain[i]) : x.key = k => x \in Items(chain[i])'
    <3>1. CASE chain[i] = p
      BY <1>1, <1>13, <3>1
    <3>2. CASE chain[i] # p
      BY <1>1, <1>3, <3>2
    <3> QED
      BY <3>1, <3>2
  <2>2. CASE v = None /\ \A i \in DOMAIN chain : k \notin KeysIn(chain[i])
    BY <2>1, <2>2 DEF FirstIs
  <2>3. CASE \E i \in DOMAIN chain :
               /\ \E x \in Items(chain[i]) : x.key = k /\ x.val = v
               /\ \A j \in 1 .. i - 1 : k \notin KeysIn(chain[j])
    <3>1. PICK i \in DOMAIN chain :
               /\ \E x \in Items(chain[i]) : x.key = k /\ x.val = v
               /\ \A j \in 1 .. i - 1 : k \notin KeysIn(chain[j])
      BY <2>3
    <3>2. \E x \in Items(chain[i])' : x.key = k /\ x.val = v
      BY <2>1, <3>1
    <3>3. \A j \in 1 .. i - 1 : j \in DOMAIN chain
      BY <1>2
    <3>4. \A j \in 1 .. i - 1 : k \notin KeysIn(chain[j])'
      BY <2>1, <3>1, <3>3
    <3> QED
      BY <3>2, <3>4 DEF FirstIs
  <2> QED
    BY <1>13, <2>2, <2>3 DEF FirstIs
<1>14. \A k, v : k # e.key /\ FirstIs(chain, k, v) => FirstIs(chain, k, v)'
  BY <1>13
<1>15. \A k, v : k = e.key /\ v = e.val => FirstIs(chain, k, v)'
  BY <1>12
<1> QED
  BY <1>0, <1>8, <1>9, <1>10, <1>14, <1>15 DEF Sound

-----------------------------------------------------------------------------
(***************************************************************************)
(* The new leaf stands behind the one that was split.                      *)
(***************************************************************************)
LEMMA SplitLeafSound ==
  ASSUME TInv, SplitLeaf, NEW live, NEW level, NEW low, Shape(live, level, low),
         NEW chain, Sound(live, low, chain),
         NEW live2, live2 = live \cup {count}, NEW low2, Extends(low, low2, count, split'.key)
  PROVE  \E chain2 :
           /\ Sound(live2, low2, chain2)'
           /\ \A k, v : k # entry.key /\ FirstIs(chain, k, v) => FirstIs(chain2, k, v)'
           /\ \A k, v : k = entry.key /\ v = entry.val => FirstIs(chain2, k, v)'
PROOF
<1>0. PICK p, e, new, u : p = at /\ e = entry /\ new = count /\ u = split'.key
  OBVIOUS
<1>1. /\ p \in live /\ p \in Pages /\ nodes[p].leaf /\ p # new
      /\ Pages' = Pages \cup {new} /\ new \notin Pages
      /\ \A q \in Pages : nodes'[q].leaf = nodes[q].leaf
      /\ nodes'[new].leaf
      /\ \A q \in Pages \ {p} :
           nodes'[q] = nodes[q] /\ Items(q)' = Items(q) /\ KeysIn(q)' = KeysIn(q)
      /\ u \in Int /\ u \in KeysIn(p) \cup {e.key} /\ Above(u, low[p])
      /\ Items(p)' = {x \in Items(p) \cup {e} : x.key < u}
      /\ KeysIn(p)' = {k \in KeysIn(p) \cup {e.key} : k < u}
      /\ Items(new)' = {x \in Items(p) \cup {e} : u <= x.key}
      /\ KeysIn(new)' = {k \in KeysIn(p) \cup {e.key} : u <= k}
      /\ Pending = {} /\ Covers(live, level, low, p, e.key) /\ e \in Entry
  BY <1>0, SplitLeafItems
<1>2. /\ nodes'[p].prev = nodes[p].prev /\ nodes'[p].next = new
      /\ nodes'[new].prev = p /\ nodes'[new].next = nodes[p].next
  BY <1>0, SplitLeafWrites
<1>3. /\ chain \in Seq(Pages) /\ chain # <<>> /\ chain[1] = 0
      /\ \A i, j \in DOMAIN chain : chain[i] = chain[j] => i = j
      /\ ToSet(chain) = {q \in Pages : nodes[q].leaf}
      /\ \A i \in DOMAIN chain :
           nodes[chain[i]].next = IF i = Len(chain) THEN None ELSE chain[i + 1]
  BY DEF Sound, Chains
<1>4. \A i \in DOMAIN chain : chain[i] \in Pages /\ nodes[chain[i]].leaf /\ chain[i] # new
  BY <1>1, <1>3 DEF ToSet
<1>5. PICK a \in DOMAIN chain : chain[a] = p
  BY <1>1, <1>3 DEF ToSet
<1>6. /\ None \notin Int /\ None \notin Pages /\ live \subseteq Pages
      /\ \A q \in Pages : low[q] \in Int \cup {None} /\ \A k \in KeysIn(q) : k \in Int
  BY BoundsAre, TypesAre, PagesAre DEF TInv
<1>7. e.key \in Int
  BY <1>1, EntriesHaveKeys
<1>8. /\ low2[new] = u /\ \A q \in Pages : low2[q] = low[q]
      /\ live2 = live \cup {new}
  BY <1>0 DEF Extends
<1>9. /\ failures' = failures /\ split'.child = new /\ pc = "split_leaf"
      /\ pc' = IF nodes[p].next = None THEN "ascend" ELSE "relink"
  BY <1>0, SplitLeafItems DEF SplitLeaf
<1>longer. PICK n, chain2 : n = Len(chain) /\ chain2 = InsertAt(chain, a + 1, new)
  OBVIOUS
<1>10. n \in Nat /\ a \in 1 .. n /\ DOMAIN chain = 1 .. n
  BY <1>3, <1>5, <1>longer
<1>11. /\ chain2 \in Seq(Pages') /\ Len(chain2) = n + 1
       /\ \A j \in 1 .. n + 1 :
            chain2[j] = IF j < a + 1 THEN chain[j] ELSE IF j = a + 1 THEN new ELSE chain[j - 1]
  <2>1. PICK T : T = Pages'
    OBVIOUS
  <2>2. chain \in Seq(T) /\ a + 1 \in 1 .. Len(chain) + 1 /\ new \in T
    BY <1>1, <1>3, <1>10, <1>longer, <2>1
  <2>3. chain2 \in Seq(T) /\ PutAt(chain2, chain, a + 1, new)
    BY <1>longer, <2>2, InsertAtIs
  <2> QED
    BY <1>longer, <2>1, <2>3 DEF PutAt
<1>12. DOMAIN chain2 = 1 .. n + 1
  BY <1>10, <1>11
<1>13. /\ \A j \in 1 .. a : chain2[j] = chain[j]
       /\ chain2[a + 1] = new
       /\ \A j \in a + 1 .. n : chain2[j + 1] = chain[j]
  <2>1. \A j \in 1 .. a : j \in 1 .. n + 1 /\ j < a + 1
    BY <1>10
  <2>2. a + 1 \in 1 .. n + 1 /\ ~(a + 1 < a + 1)
    BY <1>10
  <2>3. \A j \in a + 1 .. n : j + 1 \in 1 .. n + 1 /\ ~(j + 1 < a + 1) /\ j + 1 # a + 1 /\ (j + 1) - 1 = j
    BY <1>10
  <2> QED
    BY <1>11, <2>1, <2>2, <2>3
\* Where a leaf of the new chain was in the old one
<1>14. ASSUME NEW i \in DOMAIN chain2, i # a + 1
       PROVE  \E j \in DOMAIN chain : chain2[i] = chain[j] /\ ((i <= a /\ j = i) \/ (i > a + 1 /\ j = i - 1))
  <2>1. CASE i <= a
    <3>1. i \in 1 .. a /\ i \in DOMAIN chain
      BY <1>10, <1>12, <2>1
    <3> QED
      BY <1>13, <2>1, <3>1
  <2>2. CASE i > a
    <3>1. i > a + 1 /\ i - 1 \in a + 1 .. n /\ i - 1 \in DOMAIN chain /\ (i - 1) + 1 = i
      BY <1>10, <1>12, <1>14, <2>2
    <3> QED
      BY <1>13, <3>1
  <2> QED
    BY <1>10, <1>12, <2>1, <2>2
<1>15. chain2 # <<>> /\ chain2[1] = 0
  BY <1>3, <1>10, <1>11, <1>13
<1>16. ASSUME NEW i \in DOMAIN chain2, NEW j \in DOMAIN chain2, chain2[i] = chain2[j]
       PROVE  i = j
  <2>1. CASE i = a + 1 \/ j = a + 1
    BY <1>4, <1>13, <1>14, <1>16, <2>1
  <2>2. CASE i # a + 1 /\ j # a + 1
    <3>1. PICK x \in DOMAIN chain : chain2[i] = chain[x] /\ ((i <= a /\ x = i) \/ (i > a + 1 /\ x = i - 1))
      BY <1>14, <2>2
    <3>2. PICK y \in DOMAIN chain : chain2[j] = chain[y] /\ ((j <= a /\ y = j) \/ (j > a + 1 /\ y = j - 1))
      BY <1>14, <2>2
    <3>3. x = y
      BY <1>3, <1>16, <3>1, <3>2
    <3> QED
      BY <1>10, <1>12, <3>1, <3>2, <3>3
  <2> QED
    BY <2>1, <2>2
<1>17. ToSet(chain2) = {q \in Pages' : nodes'[q].leaf}
  <2>1. ASSUME NEW i \in DOMAIN chain2 PROVE chain2[i] \in Pages' /\ nodes'[chain2[i]].leaf
    <3>1. CASE i = a + 1
      BY <1>1, <1>13, <3>1
    <3>2. CASE i # a + 1
      BY <1>1, <1>4, <1>14, <3>2
    <3> QED
      BY <3>1, <3>2
  <2>2. ASSUME NEW q \in Pages', nodes'[q].leaf PROVE \E i \in DOMAIN chain2 : chain2[i] = q
    <3>1. CASE q = new
      <4>1. a + 1 \in DOMAIN chain2
        BY <1>10, <1>12
      <4> QED
        BY <1>13, <3>1, <4>1
    <3>2. CASE q # new
      <4>1. q \in Pages /\ nodes[q].leaf
        BY <1>1, <2>2, <3>2
      <4>2. PICK j \in DOMAIN chain : chain[j] = q
        BY <1>3, <4>1 DEF ToSet
      <4>3. CASE j <= a
        <5>1. j \in 1 .. a /\ j \in DOMAIN chain2
          BY <1>10, <1>12, <4>3
        <5> QED
          BY <1>13, <4>2, <5>1
      <4>4. CASE j > a
        <5>1. j \in a + 1 .. n /\ j + 1 \in DOMAIN chain2
          BY <1>10, <1>12, <4>4
        <5> QED
          BY <1>13, <4>2, <5>1
      <4> QED
        BY <1>10, <4>3, <4>4
    <3> QED
      BY <3>1, <3>2
  <2> QED
    BY <2>1, <2>2 DEF ToSet
<1>18. ASSUME NEW i \in DOMAIN chain2
       PROVE  nodes'[chain2[i]].next = IF i = n + 1 THEN None ELSE chain2[i + 1]
  <2>1. CASE i < a
    <3>1. i \in 1 .. a /\ i + 1 \in 1 .. a /\ i \in DOMAIN chain /\ i # n /\ i # n + 1 /\ i # a
      BY <1>10, <1>12, <2>1
    <3>2. chain[i] # p
      BY <1>3, <1>5, <3>1
    <3>3. nodes[chain[i]].next = chain[i + 1]
      BY <1>longer, <1>3, <3>1
    <3> QED
      BY <1>1, <1>4, <1>13, <3>1, <3>2, <3>3
  <2>2. CASE i = a
    <3>1. i # n + 1 /\ i \in 1 .. a
      BY <1>10, <2>2
    <3> QED
      BY <1>2, <1>5, <1>13, <2>2, <3>1
  <2>3. CASE i = a + 1
    <3>1. nodes[p].next = IF a = n THEN None ELSE chain[a + 1]
      BY <1>longer, <1>3, <1>5
    <3>2. a # n => a + 1 \in a + 1 .. n
      BY <1>10
    <3>3. i = n + 1 <=> a = n
      BY <1>10, <2>3
    <3> QED
      BY <1>2, <1>13, <2>3, <3>1, <3>2, <3>3
  <2>4. CASE i > a + 1
    <3>1. i - 1 \in a + 1 .. n /\ i - 1 \in DOMAIN chain /\ (i - 1) + 1 = i /\ i - 1 # a
      BY <1>10, <1>12, <2>4
    <3>2. chain2[i] = chain[i - 1]
      BY <1>13, <3>1
    <3>3. nodes'[chain2[i]].next = IF i - 1 = n THEN None ELSE chain[i]
      <4>1. chain[i - 1] # p
        BY <1>3, <1>5, <3>1
      <4>2. nodes[chain[i - 1]].next = IF i - 1 = n THEN None ELSE chain[(i - 1) + 1]
        BY <1>longer, <1>3, <3>1
      <4> QED
        BY <1>1, <1>4, <3>1, <3>2, <4>1, <4>2
    <3>4. i - 1 = n <=> i = n + 1
      BY <1>10, <1>12
    <3>5. i # n + 1 => i \in a + 1 .. n
      BY <1>10, <1>12, <2>4
    <3> QED
      BY <1>13, <3>3, <3>4, <3>5
  <2> QED
    BY <1>10, <1>12, <2>1, <2>2, <2>3, <2>4
<1>19. Chains(chain2)'
  BY <1>11, <1>12, <1>15, <1>16, <1>17, <1>18 DEF Chains
\* Keys to the left of later leaves
<1>20. ASSUME NEW j \in DOMAIN chain, a < j, chain[j] \in live
       PROVE  /\ \A k \in KeysIn(p) \cup {e.key} : BelowKey(k, low[chain[j]])
              /\ LeftOf(low[p], low[chain[j]])
  <2>1. /\ \A k \in KeysIn(p) : BelowKey(k, low[chain[j]])
        /\ LeftOf(low[p], low[chain[j]])
    BY <1>1, <1>5, <1>20 DEF Sound, Ordered
  <2>2. level[p] = 0 /\ level[chain[j]] = 0
    BY <1>1, <1>4 DEF Shape, Leaves
  <2>3. BelowKey(e.key, low[chain[j]])
    BY <1>1, <1>20, <2>1, <2>2 DEF Covers
  <2> QED
    BY <2>1, <2>3
<1>21. ASSUME NEW i \in DOMAIN chain, i < a
       PROVE  /\ chain[i] # p /\ \A k \in KeysIn(chain[i]) : BelowKey(k, u) /\ k # e.key
              /\ chain[i] \in live => LeftOf(low[chain[i]], u)
  <2>1. /\ \A k \in KeysIn(chain[i]) : BelowKey(k, low[p])
        /\ chain[i] \in live => LeftOf(low[chain[i]], low[p])
    BY <1>1, <1>5, <1>21 DEF Sound, Ordered
  <2>2. chain[i] # p
    BY <1>3, <1>5, <1>10, <1>21
  <2>3. AtLeast(e.key, low[p])
    BY <1>1 DEF Covers
  <2>4. /\ \A k \in KeysIn(chain[i]) : k \in Int
        /\ low[p] \in Int \cup {None} /\ low[chain[i]] \in Int \cup {None}
    BY <1>1, <1>4, <1>6
  <2>5. low[p] # None => low[p] \in Int /\ low[p] < u /\ low[p] <= e.key
    BY <1>1, <2>3, <2>4 DEF AtLeast, Above
  <2>6. \A k \in KeysIn(chain[i]) : BelowKey(k, u) /\ k # e.key
    BY <1>1, <1>6, <1>7, <2>1, <2>4, <2>5 DEF BelowKey
  <2>7. chain[i] \in live => LeftOf(low[chain[i]], u)
    BY <1>1, <1>6, <2>1, <2>4, <2>5 DEF LeftOf, Above
  <2> QED
    BY <2>2, <2>6, <2>7
<1>22. BelowKey(u, u) = FALSE /\ u # None
  BY <1>1, <1>6 DEF BelowKey
<1>23. ASSUME NEW i \in DOMAIN chain2, NEW j \in DOMAIN chain2, i < j, chain2[j] \in live2
       PROVE  /\ \A k \in KeysIn(chain2[i])' : BelowKey(k, low2[chain2[j]])
              /\ chain2[i] \in live2 => LeftOf(low2[chain2[i]], low2[chain2[j]])
  <2>1. CASE i = a + 1
    <3>1. PICK y \in DOMAIN chain : chain2[j] = chain[y] /\ y > a
      BY <1>10, <1>12, <1>14, <1>23, <2>1
    <3>2. chain[y] \in live /\ low2[chain[y]] = low[chain[y]] /\ low[chain[y]] \in Int \cup {None}
      BY <1>4, <1>6, <1>8, <1>23, <3>1
    <3>3. \A k \in KeysIn(p) \cup {e.key} : BelowKey(k, low[chain[y]])
      BY <1>20, <3>1, <3>2
    <3>4. LeftOf(u, low[chain[y]])
      BY <1>1, <1>6, <3>2, <3>3 DEF BelowKey, LeftOf, Above
    <3> QED
      BY <1>1, <1>8, <1>13, <2>1, <3>1, <3>2, <3>3, <3>4
  <2>2. CASE i # a + 1 /\ j = a + 1
    <3>1. PICK x \in DOMAIN chain : chain2[i] = chain[x] /\ x <= a
      BY <1>10, <1>12, <1>14, <1>23, <2>2
    <3>2. low2[chain2[j]] = u
      BY <1>8, <1>13, <2>2
    <3>3. CASE x = a
      <4>1. \A k \in KeysIn(p)' : BelowKey(k, u)
        BY <1>1, <1>22 DEF BelowKey
      <4>2. LeftOf(low2[p], u)
        BY <1>1, <1>8, <1>22 DEF LeftOf
      <4> QED
        BY <1>5, <3>1, <3>2, <3>3, <4>1, <4>2
    <3>4. CASE x < a
      <4>1. /\ chain[x] # p /\ \A k \in KeysIn(chain[x]) : BelowKey(k, u)
            /\ chain[x] \in live => LeftOf(low[chain[x]], u)
        BY <1>21, <3>4
      <4>2. chain[x] \in Pages /\ chain[x] # new
        BY <1>4
      <4>3. KeysIn(chain[x])' = KeysIn(chain[x]) /\ low2[chain[x]] = low[chain[x]]
        BY <1>1, <1>8, <4>1, <4>2
      <4>4. chain[x] \in live2 => chain[x] \in live
        BY <1>8, <4>2
      <4> QED
        BY <3>1, <3>2, <4>1, <4>3, <4>4
    <3> QED
      BY <1>10, <3>1, <3>3, <3>4
  <2>3. CASE i # a + 1 /\ j # a + 1
    <3>1. PICK x \in DOMAIN chain : chain2[i] = chain[x] /\ ((i <= a /\ x = i) \/ (i > a + 1 /\ x = i - 1))
      BY <1>14, <2>3
    <3>2. PICK y \in DOMAIN chain : chain2[j] = chain[y] /\ ((j <= a /\ y = j) \/ (j > a + 1 /\ y = j - 1))
      BY <1>14, <2>3
    <3>3. x < y
      BY <1>10, <1>12, <1>23, <3>1, <3>2
    <3>4. /\ chain[x] \in Pages /\ chain[y] \in Pages /\ chain[x] # new /\ chain[y] # new
          /\ chain[y] \in live /\ (chain2[i] \in live2 => chain[x] \in live)
          /\ low2[chain2[i]] = low[chain[x]] /\ low2[chain2[j]] = low[chain[y]]
      BY <1>4, <1>8, <1>23, <3>1, <3>2
    <3>5. /\ \A k \in KeysIn(chain[x]) : BelowKey(k, low[chain[y]])
          /\ chain[x] \in live => LeftOf(low[chain[x]], low[chain[y]])
      BY <3>3, <3>4 DEF Sound, Ordered
    <3>6. CASE chain[x] = p
      <4>1. x = a
        BY <1>3, <1>5, <3>6
      <4>2. \A k \in KeysIn(p) \cup {e.key} : BelowKey(k, low[chain[y]])
        BY <1>20, <3>3, <3>4, <4>1
      <4> QED
        BY <1>1, <3>1, <3>4, <3>5, <3>6, <4>2
    <3>7. CASE chain[x] # p
      BY <1>1, <3>1, <3>4, <3>5, <3>7
    <3> QED
      BY <3>6, <3>7
  <2> QED
    BY <2>1, <2>2, <2>3
<1>24. Ordered(live2, low2, chain2)'
  BY <1>23 DEF Ordered
<1>25. ASSUME NEW i \in DOMAIN chain2 \ {1}
       PROVE  LET back == nodes'[chain2[i]].prev IN
              \/ back = chain2[i - 1]
              \/ /\ failures > 0 \/ (pc' = "relink" /\ chain2[i - 1] = new)
                 /\ \E j \in 1 .. i - 1 : back = chain2[j]
  <2> DEFINE back == nodes'[chain2[i]].prev
  <2>0. \A j \in DOMAIN chain \ {1} :
          \/ nodes[chain[j]].prev = chain[j - 1]
          \/ failures > 0 /\ \E y \in 1 .. j - 1 : nodes[chain[j]].prev = chain[y]
    BY <1>9 DEF Sound, Backwards
  <2>1. CASE i <= a
    <3>1. i \in DOMAIN chain \ {1} /\ i \in 1 .. a /\ i - 1 \in 1 .. a
          /\ \A y \in 1 .. i - 1 : y \in 1 .. a
      BY <1>10, <1>12, <2>1
    <3>2. back = nodes[chain[i]].prev
      BY <1>1, <1>2, <1>4, <1>13, <3>1
    <3>3. chain2[i - 1] = chain[i - 1] /\ \A y \in 1 .. i - 1 : chain2[y] = chain[y]
      BY <1>13, <3>1
    <3> HIDE DEF back
    <3>4. back = chain2[i - 1] \/ (failures > 0 /\ \E y \in 1 .. i - 1 : back = chain2[y])
      BY <2>0, <3>1, <3>2, <3>3
    <3> QED
      BY <3>4 DEF back
  <2>2. CASE i = a + 1
    <3>1. i - 1 = a /\ a \in 1 .. a
      BY <1>10, <2>2
    <3> QED
      BY <1>2, <1>5, <1>13, <2>2, <3>1
  <2>3. CASE i = a + 2
    <3>1. a + 1 \in DOMAIN chain \ {1} /\ a + 1 \in a + 1 .. n /\ i = (a + 1) + 1
          /\ i - 1 = a + 1 /\ a # n /\ (a + 1) - 1 = a
      BY <1>10, <1>12, <2>3
    <3>2. chain2[i] = chain[a + 1] /\ chain2[i - 1] = new
      BY <1>13, <3>1
    <3>3. back = nodes[chain[a + 1]].prev
      <4>1. chain[a + 1] # p
        BY <1>3, <1>5, <3>1
      <4> QED
        BY <1>1, <1>4, <3>1, <3>2, <4>1
    <3>4. pc' = "relink"
      <4>1. nodes[p].next = chain[a + 1]
        BY <1>longer, <1>3, <1>5, <3>1
      <4>2. chain[a + 1] # None
        BY <1>4, <1>6, <3>1
      <4> QED
        BY <1>9, <4>1, <4>2
    <3>5. \A y \in 1 .. a : y \in 1 .. i - 1 /\ chain2[y] = chain[y]
      BY <1>10, <1>13, <3>1
    <3>6. \E y \in 1 .. a : nodes[chain[a + 1]].prev = chain[y]
      <4>1. a \in 1 .. a
        BY <1>10
      <4> QED
        BY <2>0, <3>1, <4>1
    <3>7. \E y \in 1 .. i - 1 : back = chain2[y]
      BY <3>3, <3>5, <3>6
    <3> QED
      BY <3>2, <3>4, <3>7
  <2>4. CASE i > a + 2
    <3>1. i - 1 \in DOMAIN chain \ {1} /\ i - 1 \in a + 1 .. n /\ (i - 1) + 1 = i
          /\ (i - 1) - 1 \in a + 1 .. n /\ ((i - 1) - 1) + 1 = i - 1 /\ i - 1 # a
      BY <1>10, <1>12, <2>4
    <3>2. chain2[i] = chain[i - 1] /\ chain2[i - 1] = chain[(i - 1) - 1]
      BY <1>13, <3>1
    <3>3. back = nodes[chain[i - 1]].prev
      <4>1. chain[i - 1] # p
        BY <1>3, <1>5, <3>1
      <4> QED
        BY <1>1, <1>4, <3>1, <3>2, <4>1
    <3>4. \A y \in 1 .. (i - 1) - 1 : \E z \in 1 .. i - 1 : chain[y] = chain2[z]
      <4> SUFFICES ASSUME NEW y \in 1 .. (i - 1) - 1
                   PROVE  \E z \in 1 .. i - 1 : chain[y] = chain2[z]
        OBVIOUS
      <4>1. CASE y <= a
        <5>1. y \in 1 .. a /\ y \in 1 .. i - 1
          BY <1>10, <3>1, <4>1
        <5> QED
          BY <1>13, <5>1
      <4>2. CASE y > a
        <5>1. y \in a + 1 .. n /\ y + 1 \in 1 .. i - 1
          BY <1>10, <1>12, <3>1, <4>2
        <5> QED
          BY <1>13, <5>1
      <4> QED
        BY <1>10, <4>1, <4>2
    <3> HIDE DEF back
    <3>5. back = chain2[i - 1] \/ (failures > 0 /\ \E z \in 1 .. i - 1 : back = chain2[z])
      BY <2>0, <3>1, <3>2, <3>3, <3>4
    <3> QED
      BY <3>5 DEF back
  <2> QED
    BY <1>10, <1>12, <2>1, <2>2, <2>3, <2>4
<1>26. Backwards(chain2)'
  BY <1>9, <1>25 DEF Backwards
<1>27. Sound(live2, low2, chain2)'
  BY <1>19, <1>24, <1>26 DEF Sound
\* What the chain holds
<1>28. ASSUME NEW i \in 1 .. a - 1
       PROVE  /\ i \in DOMAIN chain /\ i \in DOMAIN chain2 /\ chain2[i] = chain[i]
              /\ KeysIn(chain2[i])' = KeysIn(chain[i]) /\ Items(chain2[i])' = Items(chain[i])
              /\ e.key \notin KeysIn(chain[i])
  <2>1. i \in DOMAIN chain /\ i < a /\ i \in 1 .. a /\ i \in DOMAIN chain2
    BY <1>10, <1>12
  <2>2. chain[i] # p /\ e.key \notin KeysIn(chain[i]) /\ chain2[i] = chain[i]
    BY <1>13, <1>21, <2>1
  <2> QED
    BY <1>1, <1>4, <2>1, <2>2
<1>29. a \in DOMAIN chain2 /\ chain2[a] = p /\ a + 1 \in DOMAIN chain2 /\ chain2[a + 1] = new
  <2>1. a \in 1 .. a /\ a \in DOMAIN chain2 /\ a + 1 \in DOMAIN chain2
    BY <1>10, <1>12
  <2> QED
    BY <1>5, <1>13, <2>1
<1>30. ASSUME NEW k, k \in Int, k \notin KeysIn(p) \cup {e.key} \/ u <= k
       PROVE  k \notin KeysIn(p)'
  BY <1>1, <1>30
\* An entry of the leaf that was split is in one of the two
<1>31. ASSUME NEW x \in Items(p) \cup {e}, x.key \in Int,
              \A i \in 1 .. a - 1 : x.key \notin KeysIn(chain[i])
       PROVE  FirstIs(chain2, x.key, x.val)'
  <2>1. CASE x.key < u
    <3>1. x \in Items(chain2[a])'
      BY <1>1, <1>29, <2>1
    <3>2. \A j \in 1 .. a - 1 : x.key \notin KeysIn(chain2[j])'
      BY <1>28, <1>31
    <3> QED
      BY <1>29, <3>1, <3>2 DEF FirstIs
  <2>2. CASE u <= x.key
    <3>1. x \in Items(chain2[a + 1])'
      BY <1>1, <1>29, <2>2
    <3>2. \A j \in 1 .. (a + 1) - 1 : x.key \notin KeysIn(chain2[j])'
      <4> SUFFICES ASSUME NEW j \in 1 .. (a + 1) - 1
                   PROVE  x.key \notin KeysIn(chain2[j])'
        OBVIOUS
      <4>1. CASE j = a
        BY <1>29, <1>30, <1>31, <2>2, <4>1
      <4>2. CASE j # a
        <5>1. j \in 1 .. a - 1
          BY <1>10, <4>2
        <5> QED
          BY <1>28, <1>31, <5>1
      <4> QED
        BY <4>1, <4>2
    <3> QED
      BY <1>29, <3>1, <3>2 DEF FirstIs
  <2> QED
    BY <1>1, <1>31, <2>1, <2>2
<1>32. FirstIs(chain2, e.key, e.val)'
  BY <1>7, <1>28, <1>31
<1>33. ASSUME NEW k, NEW v, k # e.key, FirstIs(chain, k, v)
       PROVE  FirstIs(chain2, k, v)'
  <2>1. ASSUME NEW i \in DOMAIN chain, NEW j \in DOMAIN chain2, k \notin KeysIn(chain[i]),
               chain2[j] = chain[i] \/ (j = a + 1 /\ i = a)
        PROVE  k \notin KeysIn(chain2[j])'
    <3>1. CASE i = a
      BY <1>1, <1>5, <1>13, <1>33, <2>1, <3>1
    <3>2. CASE i # a
      <4>1. chain[i] # p
        BY <1>3, <1>5, <3>2
      <4> QED
        BY <1>1, <1>4, <2>1, <3>2, <4>1
    <3> QED
      BY <3>1, <3>2
  <2>2. CASE v = None /\ \A i \in DOMAIN chain : k \notin KeysIn(chain[i])
    <3>1. \A j \in DOMAIN chain2 : k \notin KeysIn(chain2[j])'
      BY <1>14, <2>1, <2>2
    <3> QED
      BY <2>2, <3>1 DEF FirstIs
  <2>3. CASE \E i \in DOMAIN chain :
               /\ \E x \in Items(chain[i]) : x.key = k /\ x.val = v
               /\ \A j \in 1 .. i - 1 : k \notin KeysIn(chain[j])
    <3>0. PICK i \in DOMAIN chain :
               /\ \E x \in Items(chain[i]) : x.key = k /\ x.val = v
               /\ \A j \in 1 .. i - 1 : k \notin KeysIn(chain[j])
      BY <2>3
    <3>1. PICK x \in Items(chain[i]) :
               /\ x.key = k /\ x.val = v
               /\ \A j \in 1 .. i - 1 : k \notin KeysIn(chain[j])
      BY <3>0
    <3>2. CASE i < a
      <4>1. i \in 1 .. a - 1 /\ \A j \in 1 .. i - 1 : j \in 1 .. a - 1
        BY <1>10, <3>2
      <4>2. x \in Items(chain2[i])'
        BY <1>28, <3>1, <4>1
      <4>3. \A j \in 1 .. i - 1 : k \notin KeysIn(chain2[j])'
        BY <1>28, <3>1, <4>1
      <4> QED
        BY <1>28, <3>1, <4>1, <4>2, <4>3 DEF FirstIs
    <3>3. CASE i = a
      <4>1. x \in Items(p)
        BY <1>5, <3>1, <3>3
      <4>2. x.key \in Int
        BY <1>1, <1>6, <4>1 DEF KeysIn
      <4> QED
        BY <1>31, <3>1, <3>3, <4>1, <4>2
    <3>4. CASE i > a
      <4>1. i \in a + 1 .. n /\ i + 1 \in DOMAIN chain2 /\ i # a
        BY <1>10, <1>12, <3>4
      <4>2. chain2[i + 1] = chain[i] /\ chain[i] # p
        BY <1>3, <1>5, <1>13, <4>1
      <4>3. x \in Items(chain2[i + 1])'
        BY <1>1, <1>4, <3>1, <4>2
      <4>4. ASSUME NEW j \in 1 .. (i + 1) - 1
            PROVE  k \notin KeysIn(chain2[j])'
        <5>1. j \in DOMAIN chain2 /\ j <= i
          BY <1>10, <1>12
        <5>2. CASE j = a + 1
          <6>1. a \in 1 .. i - 1
            BY <1>10, <3>4
          <6> QED
            BY <2>1, <3>1, <5>1, <5>2, <6>1
        <5>3. CASE j # a + 1
          <6>1. PICK y \in DOMAIN chain : chain2[j] = chain[y] /\ ((j <= a /\ y = j) \/ (j > a + 1 /\ y = j - 1))
            BY <1>14, <5>1, <5>3
          <6>2. y \in 1 .. i - 1
            BY <1>10, <3>4, <5>1, <6>1
          <6> QED
            BY <2>1, <3>1, <5>1, <6>1, <6>2
        <5> QED
          BY <5>2, <5>3
      <4> QED
        BY <3>1, <4>1, <4>3, <4>4 DEF FirstIs
    <3> QED
      BY <1>10, <3>2, <3>3, <3>4
  <2> QED
    BY <1>33, <2>2, <2>3 DEF FirstIs
<1>34. \A k, v : k # e.key /\ FirstIs(chain, k, v) => FirstIs(chain2, k, v)'
  BY <1>33
<1>35. \A k, v : k = e.key /\ v = e.val => FirstIs(chain2, k, v)'
  BY <1>32
<1> QED
  BY <1>0, <1>27, <1>34, <1>35

-----------------------------------------------------------------------------
(***************************************************************************)
(* Steps that leave the leaves alone, and what the chain holds after each. *)
(***************************************************************************)
LEMMA CallOnlySound ==
  ASSUME TInv, UNCHANGED tree, NEW live, NEW low, NEW chain, Sound(live, low, chain),
         NEW live2 \in SUBSET live, failures > 0 \/ pc = "relink" => failures' > 0
  PROVE  /\ Sound(live2, low, chain)'
         /\ \A k, v : FirstIs(chain, k, v) => FirstIs(chain, k, v)'
PROOF
<1>1. SameLeaves
  BY DEF SameLeaves, tree, Pages
<1>2. /\ Chains(chain)' /\ Ordered(live2, low, chain)'
      /\ \A k, v : FirstIs(chain, k, v) => FirstIs(chain, k, v)'
  BY <1>1, LeavesKept DEF Sound
<1>3. Backwards(chain)'
  BY BackwardsKept DEF tree, Sound
<1> QED
  BY <1>2, <1>3 DEF Sound

\* AddToParent leaves the chain alone
LEMMA AddToParentSound ==
  ASSUME TInv, AddToParent, NEW live, NEW level, NEW low, Shape(live, level, low),
         NEW chain, Sound(live, low, chain)
  PROVE  /\ Sound(live, low, chain)'
         /\ \A k, v : FirstIs(chain, k, v) => FirstIs(chain, k, v)'
PROOF
<1>1. /\ Pages' = Pages
      /\ \A p \in Pages : /\ nodes'[p].leaf = nodes[p].leaf
                          /\ nodes[p].leaf => nodes'[p] = nodes[p]
  BY AddToParentItems
<1>2. SameLeaves
  BY <1>1 DEF SameLeaves
<1>3. /\ Chains(chain)' /\ Ordered(live, low, chain)'
      /\ \A k, v : FirstIs(chain, k, v) => FirstIs(chain, k, v)'
  BY <1>2, LeavesKept DEF Sound
<1>4. pc # "relink" /\ failures' = failures
  BY DEF AddToParent, Done
<1>5. Backwards(chain)'
  BY <1>1, <1>4, BackwardsKept DEF Sound
<1> QED
  BY <1>3, <1>5 DEF Sound

\* split_internal leaves the chain alone
LEMMA SplitInternalSound ==
  ASSUME TInv, SplitInternal, NEW live, NEW level, NEW low, Shape(live, level, low),
         NEW chain, Sound(live, low, chain),
         NEW live2, live2 = live \cup {count}, NEW low2, Extends(low, low2, count, split'.key)
  PROVE  /\ Sound(live2, low2, chain)'
         /\ \A k, v : FirstIs(chain, k, v) => FirstIs(chain, k, v)'
PROOF
<1>1. /\ Pages' = Pages \cup {count} /\ count \notin Pages
      /\ \A p \in Pages : /\ nodes'[p].leaf = nodes[p].leaf
                          /\ nodes[p].leaf => nodes'[p] = nodes[p]
      /\ ~nodes'[count].leaf
  BY SplitInternalItems
<1>2. SameLeaves
  BY <1>1 DEF SameLeaves
<1>3. \A p \in Pages : (p \in live2 => p \in live) /\ low2[p] = low[p]
  BY <1>1 DEF Extends
<1>4. /\ Chains(chain)' /\ Ordered(live2, low2, chain)'
      /\ \A k, v : FirstIs(chain, k, v) => FirstIs(chain, k, v)'
  BY <1>2, <1>3, LeavesKept DEF Sound
<1>5. pc # "relink" /\ failures' = failures
  BY DEF SplitInternal
<1>6. Backwards(chain)'
  BY <1>1, <1>5, BackwardsKept DEF Sound
<1> QED
  BY <1>4, <1>6 DEF Sound

\* NewRoot leaves the chain alone
LEMMA NewRootSound ==
  ASSUME TInv, NewRoot, NEW live, NEW level, NEW low, Shape(live, level, low),
         NEW chain, Sound(live, low, chain),
         NEW live2, live2 = live \cup {count}, NEW low2, Extends(low, low2, count, None)
  PROVE  /\ Sound(live2, low2, chain)'
         /\ \A k, v : FirstIs(chain, k, v) => FirstIs(chain, k, v)'
PROOF
<1>1. /\ Pages' = Pages \cup {count} /\ count \notin Pages
      /\ \A p \in Pages : nodes'[p] = nodes[p]
      /\ ~nodes'[count].leaf
  BY NewRootItems
<1>2. SameLeaves
  BY <1>1 DEF SameLeaves
<1>3. \A p \in Pages : (p \in live2 => p \in live) /\ low2[p] = low[p]
  BY <1>1 DEF Extends
<1>4. /\ Chains(chain)' /\ Ordered(live2, low2, chain)'
      /\ \A k, v : FirstIs(chain, k, v) => FirstIs(chain, k, v)'
  BY <1>2, <1>3, LeavesKept DEF Sound
<1>5. pc # "relink" /\ failures' = failures
  BY DEF NewRoot, Done
<1>6. Backwards(chain)'
  BY <1>1, <1>5, BackwardsKept DEF Sound
<1> QED
  BY <1>4, <1>6 DEF Sound

-----------------------------------------------------------------------------
\* A step that loses no entry of the chain keeps what it holds
LEMMA HeldOn ==
  ASSUME NEW chain, Holds(chain), \A k, v : FirstIs(chain, k, v) => FirstIs(chain, k, v)',
         UNCHANGED <<expected, entry>>, split = None <=> split' = None
  PROVE  Holds(chain)'
PROOF
<1>1. \A k \in Keys : entry' = None \/ entry'.key # k \/ ~Inserted' =>
        \E v \in expected'[k] : FirstIs(chain, k, v)'
  BY DEF Holds, Inserted
<1>2. PICK k, v : k = entry.key /\ v = entry.val
  OBVIOUS
<1>3. Inserted' => FirstIs(chain, k, v)'
  BY <1>2 DEF Holds, Inserted
<1>4. k = entry'.key /\ v = entry'.val
  BY <1>2
<1> QED
  BY <1>1, <1>3, <1>4 DEF Holds

\* An insert that has returned, or failed
LEMMA HeldAtDone ==
  ASSUME TInv, pc # "idle", Done, NEW chain, Holds(chain), NEW chain2,
         \A k, v : k # entry.key /\ FirstIs(chain, k, v) => FirstIs(chain2, k, v)',
         \A k, v : k = entry.key /\ v = entry.val => FirstIs(chain2, k, v)'
  PROVE  Holds(chain2)'
PROOF
<1>1. /\ entry \in Entry /\ entry.key \in Keys /\ entry # None /\ DOMAIN expected = Keys
  BY DEF TInv, TypeOK, Entry
<1>2. entry' = None /\ split' = None /\ ~Inserted'
      /\ expected' = [expected EXCEPT ![entry.key] = {entry.val}]
  BY DEF Done, Idle, Inserted
<1>3. ASSUME NEW k \in Keys
      PROVE  \E v \in expected'[k] : FirstIs(chain2, k, v)'
  <2>1. CASE k = entry.key
    BY <1>1, <1>2, <2>1
  <2>2. CASE k # entry.key
    BY <1>1, <1>2, <2>2 DEF Holds
  <2> QED
    BY <2>1, <2>2
<1> QED
  BY <1>2, <1>3 DEF Holds

\* An error widens what may be found for its key, and loses nothing
LEMMA HeldAtFail ==
  ASSUME TInv, Fail, NEW chain, Holds(chain),
         \A k, v : FirstIs(chain, k, v) => FirstIs(chain, k, v)'
  PROVE  Holds(chain)'
PROOF
<1>1. /\ entry \in Entry /\ entry.key \in Keys /\ entry # None /\ DOMAIN expected = Keys
  BY DEF TInv, TypeOK, Entry, Fail
<1>2. entry' = None /\ split' = None /\ ~Inserted'
      /\ expected' = [expected EXCEPT ![entry.key] = expected[entry.key] \cup {entry.val}]
  BY DEF Fail, Idle, Inserted
<1>3. ASSUME NEW k \in Keys
      PROVE  \E v \in expected'[k] : FirstIs(chain, k, v)'
  <2>1. CASE k = entry.key /\ Inserted
    BY <1>1, <1>2, <2>1 DEF Holds
  <2>2. CASE k # entry.key \/ ~Inserted
    BY <1>1, <1>2, <2>2 DEF Holds
  <2> QED
    BY <2>1, <2>2
<1> QED
  BY <1>2, <1>3 DEF Holds

\* A call of insert takes nothing away
LEMMA HeldAtInsert ==
  ASSUME TInv, NEW e \in Inserts, Insert(e), NEW chain, Holds(chain),
         \A k, v : FirstIs(chain, k, v) => FirstIs(chain, k, v)'
  PROVE  Holds(chain)'
PROOF
<1>1. entry = None /\ split = None
  BY DEF TInv, TypeOK, Insert
<1>2. split' = None /\ ~Inserted' /\ expected' = expected
  BY <1>1 DEF Insert, Inserted
<1>3. ASSUME NEW k \in Keys
      PROVE  \E v \in expected'[k] : FirstIs(chain, k, v)'
  BY <1>1, <1>2 DEF Holds
<1> QED
  BY <1>2, <1>3 DEF Holds

\* split_leaf holds the new entry before insert returns
LEMMA HeldAtSplit ==
  ASSUME TInv, SplitLeaf, split' # None, NEW chain, Holds(chain), NEW chain2,
         \A k, v : k # entry.key /\ FirstIs(chain, k, v) => FirstIs(chain2, k, v)',
         \A k, v : k = entry.key /\ v = entry.val => FirstIs(chain2, k, v)'
  PROVE  Holds(chain2)'
PROOF
<1>1. entry # None
  BY DEF TInv, TypeOK, SplitLeaf
<1>2. entry' = entry /\ expected' = expected /\ Inserted'
  BY DEF SplitLeaf, Inserted
<1>3. ASSUME NEW k \in Keys, k # entry.key
      PROVE  \E v \in expected'[k] : FirstIs(chain2, k, v)'
  BY <1>1, <1>2, <1>3 DEF Holds
<1>4. PICK k, v : k = entry.key /\ v = entry.val
  OBVIOUS
<1>5. FirstIs(chain2, k, v)' /\ k = entry'.key /\ v = entry'.val
  BY <1>2, <1>4
<1> QED
  BY <1>1, <1>2, <1>3, <1>5 DEF Holds

-----------------------------------------------------------------------------
(***************************************************************************)
(* The invariant.                                                          *)
(***************************************************************************)
LEMMA InitHolds ==
  ASSUME Init
  PROVE  TreeInv
PROOF
<1>1. TInv
  BY InitTyped
<1>2. PICK live, level, low : Shape(live, level, low)
  BY InitShape
<1>3. /\ Pages = {0} /\ nodes[0].leaf /\ nodes[0].next = None /\ nodes[0].entries = <<>>
      /\ 0 \in PageNos
  BY BTreeAssumption DEF Init, Pages, PageNos, Leaf
<1>4. KeysIn(0) = {}
  BY <1>3 DEF KeysIn, Items, ToSet
<1> DEFINE chain == <<0>>
<1>5. chain \in Seq(Pages) /\ DOMAIN chain = {1} /\ Len(chain) = 1 /\ chain[1] = 0
  BY <1>3
<1> HIDE DEF chain
<1>6. ToSet(chain) = {0}
  BY <1>5 DEF ToSet
<1>7. Chains(chain)
  <2>1. {p \in Pages : nodes[p].leaf} = {0}
    BY <1>3
  <2>2. chain # <<>>
    BY DEF chain
  <2>3. \A i, j \in DOMAIN chain : chain[i] = chain[j] => i = j
    BY <1>5
  <2>4. \A i \in DOMAIN chain :
          nodes[chain[i]].next = IF i = Len(chain) THEN None ELSE chain[i + 1]
    BY <1>3, <1>5
  <2> QED
    BY <1>5, <1>6, <2>1, <2>2, <2>3, <2>4 DEF Chains
<1>8. Sound(live, low, chain)
  BY <1>5, <1>7 DEF Sound, Ordered, Backwards
<1>9. Holds(chain)
  <2>1. entry = None /\ split = None /\ ~Inserted /\ \A k \in Keys : None \in expected[k]
    BY DEF Init, Inserted
  <2>2. \A k : FirstIs(chain, k, None)
    BY <1>4, <1>5 DEF FirstIs
  <2> QED
    BY <2>1, <2>2 DEF Holds
<1> QED
  BY <1>1, <1>2, <1>8, <1>9 DEF TreeInv

\* A map on one more page
LEMMA OnOneMore ==
  ASSUME NEW T, NEW f \in [Pages -> T], Pages' = Pages \cup {count}, count \notin Pages,
         NEW v \in T
  PROVE  \E g \in [Pages' -> T] : Extends(f, g, count, v)
PROOF
<1> DEFINE g == [q \in Pages' |-> IF q = count THEN v ELSE f[q]]
<1>1. g \in [Pages' -> T] /\ g[count] = v /\ \A q \in Pages : g[q] = f[q]
  OBVIOUS
<1> QED
  BY <1>1 DEF Extends

\* Levels and bounds extended to a new page
LEMMA BothOnOneMore ==
  ASSUME TInv, NEW live, NEW level, NEW low, Shape(live, level, low),
         Pages' = Pages \cup {count}, count \notin Pages, NEW n \in Nat, NEW u \in Keys \cup {None}
  PROVE  \E level2 \in [Pages' -> Nat], low2 \in [Pages' -> Keys \cup {None}] :
           Extends(level, level2, count, n) /\ Extends(low, low2, count, u)
PROOF
<1>1. level \in [Pages -> Nat] /\ low \in [Pages -> Keys \cup {None}]
  BY DEF Shape, Bounded
<1>2. PICK level2 \in [Pages' -> Nat] : Extends(level, level2, count, n)
  BY <1>1, OnOneMore
<1>3. PICK low2 \in [Pages' -> Keys \cup {None}] : Extends(low, low2, count, u)
  BY <1>1, OnOneMore
<1> QED
  BY <1>2, <1>3

\* What a step does to what the chain holds
Passes(chain, chain2) ==
  \/ \A k, v : FirstIs(chain, k, v) => FirstIs(chain2, k, v)'
  \/ /\ entry \in Entry
     /\ \A k, v : k # entry.key /\ FirstIs(chain, k, v) => FirstIs(chain2, k, v)'
     /\ \A k, v : k = entry.key /\ v = entry.val => FirstIs(chain2, k, v)'

Good(live, level, low, chain) ==
  Shape(live, level, low) /\ Sound(live, low, chain) /\ Holds(chain)

\* Every step keeps the invariant, with a chain that holds what it held
LEMMA NextPasses ==
  ASSUME TInv, Next, NEW live, NEW level, NEW low, NEW chain, Good(live, level, low, chain)
  PROVE  \E live2, level2, low2, chain2 :
           Good(live2, level2, low2, chain2)' /\ Passes(chain, chain2)
PROOF
<1>1. TInv
  OBVIOUS
<1>2. Shape(live, level, low) /\ Sound(live, low, chain) /\ Holds(chain)
  BY DEF Good
<1>4. live \in SUBSET live
  OBVIOUS
<1>5. ASSUME NEW e \in Inserts, Insert(e)
      PROVE  \E live2, level2, low2, chain2 :
               Good(live2, level2, low2, chain2)' /\ Passes(chain, chain2)
  <2>1. UNCHANGED tree /\ (failures > 0 \/ pc = "relink" => failures' > 0)
    BY <1>5 DEF Insert
  <2>2. /\ Sound(live, low, chain)'
        /\ \A k, v : FirstIs(chain, k, v) => FirstIs(chain, k, v)'
    BY <1>1, <1>2, <1>4, <2>1, CallOnlySound
  <2>3. Holds(chain)'
    BY <1>1, <1>2, <1>5, <2>2, HeldAtInsert
  <2>4. Shape(live, level, low)'
    BY <1>1, <1>2, <1>5, InsertShape
  <2>passes. Passes(chain, chain)
    BY <2>2 DEF Passes
  <2> QED
    BY <2>2, <2>3, <2>4, <2>passes DEF Good
<1>6. ASSUME Descend \/ LeafIsFull \/ ParentIsFull
      PROVE  \E live2, level2, low2, chain2 :
               Good(live2, level2, low2, chain2)' /\ Passes(chain, chain2)
  <2>1. /\ UNCHANGED tree /\ (failures > 0 \/ pc = "relink" => failures' > 0)
        /\ UNCHANGED <<expected, entry, split>>
    BY <1>6 DEF Descend, LeafIsFull, ParentIsFull, call
  <2>2. /\ Sound(live, low, chain)'
        /\ \A k, v : FirstIs(chain, k, v) => FirstIs(chain, k, v)'
    BY <1>1, <1>2, <1>4, <2>1, CallOnlySound
  <2>3. Holds(chain)'
    BY <1>2, <2>1, <2>2, HeldOn
  <2>4. Shape(live, level, low)'
    BY <1>1, <1>2, <1>6, DescendShape, LeafIsFullShape, ParentIsFullShape
  <2>passes. Passes(chain, chain)
    BY <2>2 DEF Passes
  <2> QED
    BY <2>2, <2>3, <2>4, <2>passes DEF Good
<1>7. ASSUME InsertInLeaf
      PROVE  \E live2, level2, low2, chain2 :
               Good(live2, level2, low2, chain2)' /\ Passes(chain, chain2)
  <2>1. /\ Sound(live, low, chain)'
        /\ \A k, v : k # entry.key /\ FirstIs(chain, k, v) => FirstIs(chain, k, v)'
        /\ \A k, v : k = entry.key /\ v = entry.val => FirstIs(chain, k, v)'
    BY <1>1, <1>2, <1>7, InsertInLeafSound
  <2>2. pc # "idle" /\ Done
    BY <1>7 DEF InsertInLeaf
  <2>3. Holds(chain)'
    BY <1>1, <1>2, <2>1, <2>2, HeldAtDone
  <2>4. Shape(live, level, low)'
    BY <1>1, <1>2, <1>7, InsertInLeafShape
  <2>5. entry \in Entry
    BY <1>1, <2>2 DEF TInv, TypeOK
  <2>passes. Passes(chain, chain)
    BY <2>1, <2>5 DEF Passes
  <2> QED
    BY <2>1, <2>3, <2>4, <2>passes DEF Good
<1>8. ASSUME SplitLeaf
      PROVE  \E live2, level2, low2, chain2 :
               Good(live2, level2, low2, chain2)' /\ Passes(chain, chain2)
  <2>1. PICK u, live2 : u = split'.key /\ live2 = live \cup {count}
    OBVIOUS
  <2>2. /\ Pages' = Pages \cup {count} /\ count \notin Pages
        /\ u \in Keys \cup {None} /\ split' # None
    BY <1>1, <1>2, <1>8, <2>1, SplitLeafItems
  <2>3. PICK level2 \in [Pages' -> Nat], low2 \in [Pages' -> Keys \cup {None}] :
          Extends(level, level2, count, 0) /\ Extends(low, low2, count, u)
    BY <1>1, <1>2, <2>2, BothOnOneMore
  <2>4. Extends(low, low2, count, split'.key)
    BY <2>1, <2>3
  <2>5. Shape(live2, level2, low2)'
    BY <1>1, <1>2, <1>8, <2>1, <2>3, <2>4, SplitLeafShape
  <2>6. PICK chain2 :
          /\ Sound(live2, low2, chain2)'
          /\ \A k, v : k # entry.key /\ FirstIs(chain, k, v) => FirstIs(chain2, k, v)'
          /\ \A k, v : k = entry.key /\ v = entry.val => FirstIs(chain2, k, v)'
    BY <1>1, <1>2, <1>8, <2>1, <2>4, SplitLeafSound
  <2>7. Holds(chain2)'
    BY <1>1, <1>2, <1>8, <2>2, <2>6, HeldAtSplit
  <2>8. entry \in Entry
    BY <1>1, <1>8 DEF TInv, TypeOK, SplitLeaf
  <2>passes. Passes(chain, chain2)
    BY <2>6, <2>8 DEF Passes
  <2> QED
    BY <2>5, <2>6, <2>7, <2>passes DEF Good
<1>9. ASSUME Relink
      PROVE  \E live2, level2, low2, chain2 :
               Good(live2, level2, low2, chain2)' /\ Passes(chain, chain2)
  <2>1. SameLeaves /\ Backwards(chain)'
    BY <1>1, <1>2, <1>9, RelinkSound DEF Sound
  <2>2. /\ Chains(chain)' /\ Ordered(live, low, chain)'
        /\ \A k, v : FirstIs(chain, k, v) => FirstIs(chain, k, v)'
    BY <1>1, <1>2, <2>1, LeavesKept DEF Sound
  <2>3. Sound(live, low, chain)'
    BY <2>1, <2>2 DEF Sound
  <2>4. Holds(chain)'
    <3>1. UNCHANGED <<expected, entry, split>>
      BY <1>9 DEF Relink, call
    <3> QED
      BY <1>2, <2>2, <3>1, HeldOn
  <2>5. Shape(live, level, low)'
    BY <1>1, <1>2, <1>9, RelinkShape
  <2>passes. Passes(chain, chain)
    BY <2>2 DEF Passes
  <2> QED
    BY <2>3, <2>4, <2>5, <2>passes DEF Good
<1>10. ASSUME AddToParent
       PROVE  \E live2, level2, low2, chain2 :
               Good(live2, level2, low2, chain2)' /\ Passes(chain, chain2)
  <2>1. /\ Sound(live, low, chain)'
        /\ \A k, v : FirstIs(chain, k, v) => FirstIs(chain, k, v)'
    BY <1>1, <1>2, <1>10, AddToParentSound
  <2>2. pc # "idle" /\ Done /\ split # None
    BY <1>1, <1>10 DEF AddToParent, TInv, TypeOK
  <2>3. \A k, v : k = entry.key /\ v = entry.val => FirstIs(chain, k, v)'
    BY <1>2, <2>1, <2>2 DEF Holds, Inserted
  <2>4. Holds(chain)'
    BY <1>1, <1>2, <2>1, <2>2, <2>3, HeldAtDone
  <2>5. Shape(live, level, low)'
    BY <1>1, <1>2, <1>10, AddToParentShape
  <2>passes. Passes(chain, chain)
    BY <2>1 DEF Passes
  <2> QED
    BY <2>1, <2>4, <2>5, <2>passes DEF Good
<1>11. ASSUME SplitInternal
       PROVE  \E live2, level2, low2, chain2 :
               Good(live2, level2, low2, chain2)' /\ Passes(chain, chain2)
  <2>1. PICK u, live2, n : u = split'.key /\ live2 = live \cup {count} /\ n = level[Parent]
    OBVIOUS
  <2>2. /\ Pages' = Pages \cup {count} /\ count \notin Pages
        /\ u \in Keys \cup {None} /\ split' # None /\ Parent \in Pages
    BY <1>1, <1>2, <1>11, <2>1, SplitInternalItems
  <2>3. n \in Nat
    BY <1>2, <2>1, <2>2 DEF Shape, Bounded
  <2>4. PICK level2 \in [Pages' -> Nat], low2 \in [Pages' -> Keys \cup {None}] :
          Extends(level, level2, count, n) /\ Extends(low, low2, count, u)
    BY <1>1, <1>2, <2>2, <2>3, BothOnOneMore
  <2>5. Extends(level, level2, count, level[Parent]) /\ Extends(low, low2, count, split'.key)
    BY <2>1, <2>4
  <2>6. Shape(live2, level2, low2)'
    BY <1>1, <1>2, <1>11, <2>1, <2>4, <2>5, SplitInternalShape
  <2>7. /\ Sound(live2, low2, chain)'
        /\ \A k, v : FirstIs(chain, k, v) => FirstIs(chain, k, v)'
    BY <1>1, <1>2, <1>11, <2>1, <2>5, SplitInternalSound
  <2>8. Holds(chain)'
    <3>1. UNCHANGED <<expected, entry>> /\ split # None
      BY <1>1, <1>11 DEF SplitInternal, TInv, TypeOK
    <3> QED
      BY <1>2, <2>2, <2>7, <3>1, HeldOn
  <2>passes. Passes(chain, chain)
    BY <2>7 DEF Passes
  <2> QED
    BY <2>6, <2>7, <2>8, <2>passes DEF Good
<1>12. ASSUME NewRoot
       PROVE  \E live2, level2, low2, chain2 :
               Good(live2, level2, low2, chain2)' /\ Passes(chain, chain2)
  <2>1. PICK live2, n : live2 = live \cup {count} /\ n = level[root] + 1
    OBVIOUS
  <2>2. Pages' = Pages \cup {count} /\ count \notin Pages /\ root \in Pages
    BY <1>1, <1>12, NewRootItems
  <2>3. n \in Nat /\ None \in Keys \cup {None}
    BY <1>2, <2>1, <2>2 DEF Shape, Bounded
  <2>4. PICK level2 \in [Pages' -> Nat], low2 \in [Pages' -> Keys \cup {None}] :
          Extends(level, level2, count, n) /\ Extends(low, low2, count, None)
    BY <1>1, <1>2, <2>2, <2>3, BothOnOneMore
  <2>5. Extends(level, level2, count, level[root] + 1)
    BY <2>1, <2>4
  <2>6. Shape(live2, level2, low2)'
    BY <1>1, <1>2, <1>12, <2>1, <2>4, <2>5, NewRootShape
  <2>7. /\ Sound(live2, low2, chain)'
        /\ \A k, v : FirstIs(chain, k, v) => FirstIs(chain, k, v)'
    BY <1>1, <1>2, <1>12, <2>1, <2>4, NewRootSound
  <2>8. pc # "idle" /\ Done /\ split # None
    BY <1>1, <1>12 DEF NewRoot, TInv, TypeOK
  <2>9. \A k, v : k = entry.key /\ v = entry.val => FirstIs(chain, k, v)'
    BY <1>2, <2>7, <2>8 DEF Holds, Inserted
  <2>10. Holds(chain)'
    BY <1>1, <1>2, <2>7, <2>8, <2>9, HeldAtDone
  <2>passes. Passes(chain, chain)
    BY <2>7 DEF Passes
  <2> QED
    BY <2>6, <2>7, <2>10, <2>passes DEF Good
<1>13. ASSUME Fail
       PROVE  \E live2, level2, low2, chain2 :
               Good(live2, level2, low2, chain2)' /\ Passes(chain, chain2)
  <2>1. PICK rest \in SUBSET live : Shape(rest, level, low)'
    BY <1>1, <1>2, <1>13, FailShape
  <2>2. UNCHANGED tree /\ (failures > 0 \/ pc = "relink" => failures' > 0)
    BY <1>1, <1>13 DEF Fail, TInv, TypeOK
  <2>3. /\ Sound(rest, low, chain)'
        /\ \A k, v : FirstIs(chain, k, v) => FirstIs(chain, k, v)'
    BY <1>1, <1>2, <2>2, CallOnlySound
  <2>4. Holds(chain)'
    BY <1>1, <1>2, <1>13, <2>3, HeldAtFail
  <2>passes. Passes(chain, chain)
    BY <2>3 DEF Passes
  <2> QED
    BY <2>1, <2>3, <2>4, <2>passes DEF Good
<1> QED
  BY <1>5, <1>6, <1>7, <1>8, <1>9, <1>10, <1>11, <1>12, <1>13 DEF Next, Continue

\* TreeInv is inductive
LEMMA NextHolds ==
  ASSUME TreeInv, Next
  PROVE  TreeInv'
PROOF
<1>1. TInv /\ TInv'
  BY NextTyped DEF TreeInv
<1>2. PICK live, level, low, chain : Good(live, level, low, chain)
  BY DEF TreeInv, Good
<1>3. \E live2, level2, low2, chain2 : Good(live2, level2, low2, chain2)'
  BY <1>1, <1>2, NextPasses
<1> QED
  BY <1>1, <1>3 DEF TreeInv, Good

\* A step that changes nothing keeps TreeInv
LEMMA StutterHolds ==
  ASSUME TreeInv, UNCHANGED vars
  PROVE  TreeInv'
PROOF
<1>1. UNCHANGED <<nodes, count, root, pc, entry, at, path, split, failures, expected>>
  BY DEF vars, tree, call
<1>2. TInv /\ TInv'
  BY NextTyped DEF TreeInv
<1>3. PICK live, level, low, chain :
        Shape(live, level, low) /\ Sound(live, low, chain) /\ Holds(chain)
  BY DEF TreeInv
<1>4. Shape(live, level, low)'
  <2>1. Same
    BY <1>1 DEF Same
  <2>2. UNCHANGED <<call, failures>> /\ pc' = pc
    BY <1>1 DEF call
  <2> QED
    BY <1>2, <1>3, <2>1, <2>2, SameWay
<1>5. SameLeaves
  BY <1>1 DEF SameLeaves, Pages
<1>6. /\ Chains(chain)' /\ Ordered(live, low, chain)'
      /\ \A k, v : FirstIs(chain, k, v) => FirstIs(chain, k, v)'
  BY <1>2, <1>3, <1>5, LeavesKept DEF Sound
<1>7. Backwards(chain)'
  BY <1>1, <1>3 DEF Backwards, Sound
<1>8. Holds(chain)'
  BY <1>1, <1>3, <1>6, HeldOn
<1> QED
  BY <1>2, <1>4, <1>6, <1>7, <1>8 DEF TreeInv, Sound

\* The invariant holds at every moment of every behaviour
LEMMA TreeHolds == Spec => []TreeInv
PROOF
<1>1. Init => TreeInv
  BY InitHolds
<1>2. TreeInv /\ [Next]_vars => TreeInv'
  BY NextHolds, StutterHolds
<1> QED
  BY <1>1, <1>2, PTL DEF Spec

-----------------------------------------------------------------------------
(***************************************************************************)
(* What the loops of search and range_scan come to.                        *)
(***************************************************************************)
LEMMA FirstInChainIs ==
  ASSUME NEW k, NEW g, g = [i \in 1 .. count |-> IF i = 1 THEN 0 ELSE Onward(k)[g[i - 1]]]
  PROVE  \E f : /\ f = [i \in 1 .. count |-> IF i = 1 THEN 0 ELSE Onward(k)[f[i - 1]]]
                /\ FirstInChain(k) = ValueIn(k)[f[count]]
PROOF
<1> DEFINE f == CHOOSE h : h = [i \in 1 .. count |-> IF i = 1 THEN 0 ELSE Onward(k)[h[i - 1]]]
<1>1. f = [i \in 1 .. count |-> IF i = 1 THEN 0 ELSE Onward(k)[f[i - 1]]]
  OBVIOUS
<1>2. FirstInChain(k) = ValueIn(k)[f[count]]
  BY DEF FirstInChain
<1> QED
  BY <1>1, <1>2

\* Two functions with the same recursion are the same
StepsOn(f, n, start, step) ==
  \A i \in 1 .. n : f[i] = IF i = 1 THEN start ELSE step[f[i - 1]]

\* Two functions that take the same steps are the same
LEMMA SameSteps ==
  ASSUME NEW n \in Nat, NEW step, NEW start, NEW f, NEW g,
         StepsOn(f, n, start, step), StepsOn(g, n, start, step)
  PROVE  \A i \in 1 .. n : f[i] = g[i]
PROOF
<1>0. /\ \A i \in 1 .. n : f[i] = IF i = 1 THEN start ELSE step[f[i - 1]]
      /\ \A i \in 1 .. n : g[i] = IF i = 1 THEN start ELSE step[g[i - 1]]
  BY DEF StepsOn
<1>1. SUFFICES ASSUME NEW i \in 1 .. n, f[i] # g[i] PROVE FALSE
  OBVIOUS
<1>2. PICK T : T = {j \in 1 .. n : f[j] # g[j]}
  OBVIOUS
<1>3. T \subseteq Nat /\ i \in T
  BY <1>1, <1>2
<1>4. PICK j \in T : \A m \in T : j <= m
  BY <1>3, LeastNatural
<1>5. j \in 1 .. n /\ f[j] # g[j]
  BY <1>2, <1>4
<1>6. j # 1
  BY <1>0, <1>5
<1>7. j - 1 \in 1 .. n /\ ~(j <= j - 1)
  BY <1>5, <1>6
<1>8. f[j - 1] = g[j - 1]
  BY <1>2, <1>4, <1>7
<1> QED
  BY <1>0, <1>5, <1>6, <1>7, <1>8

\* No more leaves than pages
LEMMA ChainFitsIn ==
  ASSUME TInv, NEW chain, Chains(chain)
  PROVE  /\ Len(chain) \in 1 .. count /\ DOMAIN chain = 1 .. Len(chain)
         /\ \A i \in DOMAIN chain : chain[i] \in Pages /\ nodes[chain[i]].leaf
PROOF
<1>1. /\ chain \in Seq(Pages) /\ chain # <<>>
      /\ \A i, j \in DOMAIN chain : chain[i] = chain[j] => i = j
  BY DEF Chains
<1> DEFINE m == Len(chain)
<1>2. m \in Nat \ {0} /\ DOMAIN chain = 1 .. m /\ chain \in [1 .. m -> Pages]
  BY <1>1
<1>3. \A i \in DOMAIN chain : chain[i] \in Pages /\ nodes[chain[i]].leaf
  BY DEF Chains, ToSet
<1> HIDE DEF m
<1>4. chain \in Injection(1 .. m, Pages)
  BY <1>1, <1>2 DEF Injection, IsInjective
<1>5. count \in Nat /\ count > 0
  BY DEF TInv, TypeOK
<1>6. IsFiniteSet(Pages) /\ Cardinality(Pages) = count /\ Cardinality(1 .. m) = m
  BY <1>2, <1>5, FS_Interval DEF Pages
<1>7. m <= count
  BY <1>4, <1>6, FS_Injection
<1> QED
  BY <1>2, <1>3, <1>5, <1>7 DEF m

\* Found finds the entries of a key
LEMMA FoundIs ==
  ASSUME TInv, NEW p \in Pages, nodes[p].leaf, NEW k
  PROVE  /\ Found(nodes[p].entries, k) # {} <=> k \in KeysIn(p)
         /\ Found(nodes[p].entries, k) \subseteq Nat
         /\ \A i \in Found(nodes[p].entries, k) :
              nodes[p].entries[i] \in Items(p) /\ nodes[p].entries[i].key = k
PROOF
<1>1. nodes[p].entries \in Seq(Entry)
  BY TypesAre, NodesAre DEF TInv, LeafNode
<1> QED
  BY <1>1 DEF Found, KeysIn, Items, ToSet

\* The walk along the chain ends at the first entry of the key
LEMMA FirstIsFirst ==
  ASSUME TInv, NEW chain, Chains(chain), NEW k
  PROVE  FirstIs(chain, k, FirstInChain(k))
PROOF
<1> DEFINE m == Len(chain)
           step == Onward(k)
           value == ValueIn(k)
<1>1. /\ m \in 1 .. count /\ DOMAIN chain = 1 .. m /\ count \in Nat
      /\ \A i \in 1 .. m : chain[i] \in Pages /\ nodes[chain[i]].leaf
      /\ chain[1] = 0
      /\ \A i \in 1 .. m : nodes[chain[i]].next = IF i = m THEN None ELSE chain[i + 1]
  <2>1. count \in Nat
    BY DEF TInv, TypeOK
  <2>2. /\ m \in 1 .. count /\ DOMAIN chain = 1 .. m
        /\ \A i \in DOMAIN chain : chain[i] \in Pages /\ nodes[chain[i]].leaf
    BY ChainFitsIn
  <2> QED
    BY <2>1, <2>2 DEF Chains
<1>2. /\ None \notin Pages
      /\ step[None] = None /\ value[None] = None
      /\ \A p \in Pages : /\ step[p] = IF p = None \/ Found(nodes[p].entries, k) # {}
                                       THEN p ELSE nodes[p].next
                          /\ value[p] = IF p = None \/ Found(nodes[p].entries, k) = {} THEN None
                                        ELSE nodes[p].entries[Min(Found(nodes[p].entries, k))].val
  <2>1. Pages \subseteq MaybePage /\ None \in MaybePage /\ None \notin Pages
    BY TypesAre, PagesAre DEF MaybePage, TInv
  <2>2. step[None] = None /\ value[None] = None
    BY <2>1 DEF Onward, ValueIn
  <2> QED
    BY <2>1, <2>2 DEF Onward, ValueIn
<1> HIDE DEF m, step, value
<1>3. \A i \in 1 .. m :
        step[chain[i]] = IF k \in KeysIn(chain[i]) THEN chain[i]
                         ELSE IF i = m THEN None ELSE chain[i + 1]
  <2> SUFFICES ASSUME NEW i \in 1 .. m
               PROVE  step[chain[i]] = IF k \in KeysIn(chain[i]) THEN chain[i]
                                       ELSE IF i = m THEN None ELSE chain[i + 1]
    OBVIOUS
  <2>1. PICK p : p = chain[i]
    OBVIOUS
  <2>2. p \in Pages /\ nodes[p].leaf /\ p # None
        /\ nodes[p].next = IF i = m THEN None ELSE chain[i + 1]
    BY <1>1, <1>2, <2>1
  <2>3. Found(nodes[p].entries, k) # {} <=> k \in KeysIn(p)
    BY <2>2, FoundIs
  <2> QED
    BY <1>2, <2>1, <2>2, <2>3
\* The loop stops at a leaf with k, or behind the chain
<1>4. ASSUME NEW b \in 1 .. m, NEW stop, step[stop] = stop,
             IF k \in KeysIn(chain[b]) THEN stop = chain[b] ELSE b = m /\ stop = None,
             \A j \in 1 .. b - 1 : k \notin KeysIn(chain[j])
      PROVE  FirstInChain(k) = value[IF count <= b THEN chain[b] ELSE stop]
  <2> DEFINE g == [i \in 1 .. count |-> IF i <= b THEN chain[i] ELSE stop]
  <2>1. ASSUME NEW i \in 1 .. count
        PROVE  g[i] = IF i = 1 THEN 0 ELSE step[g[i - 1]]
    <3>1. CASE i = 1
      BY <1>1, <1>4, <3>1
    <3>2. CASE i # 1 /\ i <= b
      <4>1. i - 1 \in 1 .. b - 1 /\ i - 1 \in 1 .. m /\ i - 1 # m /\ (i - 1) + 1 = i
            /\ i - 1 <= b /\ i - 1 \in 1 .. count
        BY <1>1, <1>4, <3>2
      <4>2. step[chain[i - 1]] = chain[i]
        BY <1>3, <1>4, <4>1
      <4> QED
        BY <3>2, <4>1, <4>2
    <3>3. CASE i = b + 1
      <4>1. i # 1 /\ i - 1 = b /\ ~(i <= b) /\ b <= b /\ i - 1 \in 1 .. count
        BY <1>1, <1>4, <3>3
      <4>2. step[chain[b]] = stop
        BY <1>3, <1>4
      <4> QED
        BY <4>1, <4>2
    <3>4. CASE i > b + 1
      <4>1. i # 1 /\ ~(i - 1 <= b) /\ ~(i <= b) /\ i - 1 \in 1 .. count
        BY <1>1, <1>4, <3>4
      <4> QED
        BY <1>4, <4>1
    <3> QED
      BY <1>1, <1>4, <3>1, <3>2, <3>3, <3>4
  <2>2. g = [i \in 1 .. count |-> IF i = 1 THEN 0 ELSE step[g[i - 1]]]
    <3> HIDE DEF g
    <3>1. DOMAIN g = 1 .. count /\ g = [i \in 1 .. count |-> g[i]]
      BY DEF g
    <3> QED
      BY <2>1, <3>1
  <2>3. g[count] = IF count <= b THEN chain[b] ELSE stop
    BY <1>1, <1>4
  <2> HIDE DEF g
  <2>4. PICK f : /\ f = [i \in 1 .. count |-> IF i = 1 THEN 0 ELSE step[f[i - 1]]]
                 /\ FirstInChain(k) = value[f[count]]
    BY <2>2, FirstInChainIs DEF step, value
  <2>5. \A i \in 1 .. count : f[i] = IF i = 1 THEN 0 ELSE step[f[i - 1]]
    BY <2>4
  <2>6. count \in 1 .. count /\ count \in Nat
    BY <1>1
  <2>7. StepsOn(f, count, 0, step) /\ StepsOn(g, count, 0, step)
    BY <2>1, <2>5 DEF StepsOn
  <2>8. \A i \in 1 .. count : f[i] = g[i]
    BY <2>6, <2>7, SameSteps
  <2> QED
    BY <2>3, <2>4, <2>6, <2>8
<1>5. CASE \A i \in 1 .. m : k \notin KeysIn(chain[i])
  <2>1. m \in 1 .. m /\ k \notin KeysIn(chain[m]) /\ \A j \in 1 .. m - 1 : k \notin KeysIn(chain[j])
    BY <1>1, <1>5
  <2>2. FirstInChain(k) = value[IF count <= m THEN chain[m] ELSE None]
    BY <1>2, <1>4, <2>1
  <2>3. value[chain[m]] = None
    BY <1>1, <1>2, <2>1, FoundIs
  <2> QED
    BY <1>1, <1>2, <1>5, <2>2, <2>3 DEF FirstIs
<1>6. CASE \E i \in 1 .. m : k \in KeysIn(chain[i])
  <2> DEFINE T == {i \in 1 .. m : k \in KeysIn(chain[i])}
  <2>1. PICK a \in T : \A j \in T : a <= j
    <3>1. T \subseteq Nat /\ T # {}
      BY <1>1, <1>6
    <3> QED
      BY <3>1, LeastNatural
  <2>2. a \in 1 .. m /\ k \in KeysIn(chain[a])
    BY <2>1
  <2>3. \A j \in 1 .. a - 1 : k \notin KeysIn(chain[j])
    BY <1>1, <2>1
  <2>4. step[chain[a]] = chain[a]
    BY <1>3, <2>2
  <2>5. FirstInChain(k) = value[chain[a]]
    BY <1>4, <2>2, <2>3, <2>4
  <2> DEFINE there == Found(nodes[chain[a]].entries, k)
  <2>6. /\ there # {} /\ there \subseteq Nat
        /\ \A i \in there : /\ nodes[chain[a]].entries[i] \in Items(chain[a])
                            /\ nodes[chain[a]].entries[i].key = k
    BY <1>1, <2>2, FoundIs
  <2>7. value[chain[a]] = nodes[chain[a]].entries[Min(there)].val
    BY <1>1, <1>2, <2>2, <2>6
  <2>8. Min(there) \in there
    BY <2>6, LeastIsMin
  <2>9. \E e \in Items(chain[a]) : e.key = k /\ e.val = FirstInChain(k)
    BY <2>5, <2>6, <2>7, <2>8
  <2> QED
    BY <1>1, <2>2, <2>3, <2>9 DEF FirstIs
<1> QED
  BY <1>5, <1>6

\* No key has two values at its first place
LEMMA FirstIsOne ==
  ASSUME TInv, NEW live, NEW level, NEW low, Shape(live, level, low),
         NEW chain, Chains(chain), NEW k, NEW v, NEW w, FirstIs(chain, k, v), FirstIs(chain, k, w)
  PROVE  v = w
PROOF
<1>1. DOMAIN chain = 1 .. Len(chain) /\ Len(chain) \in Nat
      /\ \A i \in DOMAIN chain : chain[i] \in Pages /\ nodes[chain[i]].leaf
  BY ChainFitsIn DEF TInv, TypeOK
<1>2. ASSUME NEW p \in Pages, nodes[p].leaf, NEW x \in Items(p), NEW y \in Items(p), x.key = y.key
      PROVE  x = y
  <2>1. nodes[p].entries \in Seq(Entry)
    BY <1>2, TypesAre, NodesAre DEF TInv, LeafNode
  <2>2. Sorted(nodes[p].entries)
    BY DEF Shape, Bounded
  <2>3. PICK i, j \in DOMAIN nodes[p].entries : x = nodes[p].entries[i] /\ y = nodes[p].entries[j]
    BY DEF Items, ToSet
  <2>4. i \in Nat /\ j \in Nat /\ x.key \in Int
    BY <2>1, <2>3, EntriesHaveKeys
  <2>5. ~(i < j) /\ ~(j < i)
    BY <1>2, <2>2, <2>3, <2>4 DEF Sorted
  <2> QED
    BY <2>3, <2>4, <2>5
<1>3. CASE \A i \in DOMAIN chain : k \notin KeysIn(chain[i])
  BY <1>3 DEF FirstIs, KeysIn
<1>4. CASE \E i \in DOMAIN chain : k \in KeysIn(chain[i])
  <2>1. PICK i \in DOMAIN chain :
          /\ \E e \in Items(chain[i]) : e.key = k /\ e.val = v
          /\ \A j \in 1 .. i - 1 : k \notin KeysIn(chain[j])
    BY <1>4 DEF FirstIs
  <2>2. PICK h \in DOMAIN chain :
          /\ \E e \in Items(chain[h]) : e.key = k /\ e.val = w
          /\ \A j \in 1 .. h - 1 : k \notin KeysIn(chain[j])
    BY <1>4 DEF FirstIs
  <2>3. k \in KeysIn(chain[i]) /\ k \in KeysIn(chain[h])
    BY <2>1, <2>2 DEF KeysIn
  <2>4. i = h
    BY <1>1, <2>1, <2>2, <2>3
  <2> QED
    BY <1>1, <1>2, <2>1, <2>2, <2>4
<1> QED
  BY <1>3, <1>4

-----------------------------------------------------------------------------
(***************************************************************************)
(* The chain of the leaves is an ordered map.                              *)
(***************************************************************************)
LEMMA MapIs ==
  TInv => \A live, level, low, chain : Good(live, level, low, chain) =>
            /\ \A k \in Keys : FirstIs(chain, k, ChainMap[k])
            /\ \A k \in Keys : \A v : FirstIs(chain, k, v) => ChainMap[k] = v
PROOF
<1> SUFFICES ASSUME TInv, NEW live, NEW level, NEW low, NEW chain, Good(live, level, low, chain)
             PROVE  /\ \A k \in Keys : FirstIs(chain, k, ChainMap[k])
                    /\ \A k \in Keys : \A v : FirstIs(chain, k, v) => ChainMap[k] = v
  OBVIOUS
<1>1. Shape(live, level, low) /\ Chains(chain)
  BY DEF Good, Sound
<1>2. ASSUME NEW k \in Keys
      PROVE  FirstIs(chain, k, ChainMap[k])
  <2>1. ChainMap[k] = FirstInChain(k)
    BY DEF ChainMap
  <2> QED
    BY <1>1, <2>1, FirstIsFirst
<1>3. ASSUME NEW k \in Keys, NEW v, FirstIs(chain, k, v)
      PROVE  ChainMap[k] = v
  BY <1>1, <1>2, <1>3, FirstIsOne
<1> QED
  BY <1>2, <1>3

\* Every step of the tree is one of the map, or none
LEMMA NextMaps ==
  ASSUME TreeInv, Next
  PROVE  [Map!Next]_ChainMap
PROOF
<1>0. (TInv => \A live, level, low, chain : Good(live, level, low, chain) =>
                 /\ \A k \in Keys : FirstIs(chain, k, ChainMap[k])
                 /\ \A k \in Keys : \A v : FirstIs(chain, k, v) => ChainMap[k] = v)'
  BY MapIs, PTL
<1>1. TInv /\ TInv'
  BY NextTyped DEF TreeInv
<1>2. PICK live, level, low, chain : Good(live, level, low, chain)
  BY DEF TreeInv, Good
<1>3. PICK live2, level2, low2, chain2 :
        Good(live2, level2, low2, chain2)' /\ Passes(chain, chain2)
  BY <1>1, <1>2, NextPasses
<1>4. \A k \in Keys : FirstIs(chain, k, ChainMap[k])
  BY <1>1, <1>2, MapIs
<1>5. \A k \in Keys : \A v : FirstIs(chain2, k, v)' => ChainMap'[k] = v
  BY <1>0, <1>1, <1>3
<1>6. ChainMap = [k \in Keys |-> ChainMap[k]] /\ ChainMap' = [k \in Keys |-> ChainMap'[k]]
  BY DEF ChainMap
<1>7. CASE \A k, v : FirstIs(chain, k, v) => FirstIs(chain2, k, v)'
  <2>1. \A k \in Keys : ChainMap'[k] = ChainMap[k]
    BY <1>4, <1>5, <1>7
  <2>2. ChainMap' = ChainMap
    BY <1>6, <2>1
  <2> QED
    BY <2>2
<1>8. CASE /\ entry \in Entry
           /\ \A k, v : k # entry.key /\ FirstIs(chain, k, v) => FirstIs(chain2, k, v)'
           /\ \A k, v : k = entry.key /\ v = entry.val => FirstIs(chain2, k, v)'
  <2>1. PICK e : e = entry
    OBVIOUS
  <2>2. e.key \in Keys /\ e.val \in Values
    BY <1>8, <2>1 DEF Entry
  <2>3. ChainMap'[e.key] = e.val
    BY <1>5, <1>8, <2>1, <2>2
  <2>4. \A k \in Keys \ {e.key} : ChainMap'[k] = ChainMap[k]
    BY <1>4, <1>5, <1>8, <2>1
  <2>5. Map!Insert(e.key, e.val)
    BY <2>3, <2>4 DEF Map!Insert
  <2> QED
    BY <2>2, <2>5 DEF Map!Next
<1> QED
  BY <1>3, <1>7, <1>8 DEF Passes

(***************************************************************************)
(* A split moves entries from leaf to leaf without losing one, and an      *)
(* insert appears in one step, whatever fails: read along their chain, the *)
(* leaves behave as a map.                                                 *)
(***************************************************************************)
THEOREM ChainIsOrderedMap == Spec => ImplementsOrderedMap
PROOF
<1>1. Init => Map!Init
  <2> SUFFICES ASSUME Init PROVE Map!Init
    OBVIOUS
  <2>1. TreeInv
    BY InitHolds
  <2>2. PICK live, level, low, chain : Good(live, level, low, chain)
    BY <2>1 DEF TreeInv, Good
  <2>3. \A k \in Keys : FirstIs(chain, k, None)
    BY <2>2 DEF Init, Good, Holds
  <2>4. \A k \in Keys : ChainMap[k] = None
    BY <2>1, <2>2, <2>3, MapIs DEF TreeInv
  <2> QED
    BY <2>4 DEF Map!Init, ChainMap
<1>2. TreeInv /\ [Next]_vars => [Map!Next]_ChainMap
  <2>1. UNCHANGED vars => ChainMap' = ChainMap
    <3> SUFFICES ASSUME UNCHANGED vars PROVE ChainMap' = ChainMap
      OBVIOUS
    <3>1. nodes' = nodes /\ count' = count
      BY DEF vars, tree
    <3>2. \A k \in Keys : FirstInChain(k)' = FirstInChain(k)
      BY <3>1 DEF FirstInChain, Onward, ValueIn
    <3> QED
      BY <3>2 DEF ChainMap
  <2> QED
    BY <2>1, NextMaps
<1> QED
  BY <1>1, <1>2, TreeHolds, PTL DEF Spec, ImplementsOrderedMap, Map!Spec

(***************************************************************************)
(* An insert that has returned is in the chain, even if later ones fail.   *)
(***************************************************************************)
THEOREM ChainAlwaysKeepsInserts == Spec => []ChainKeepsInserts
PROOF
<1>1. TreeInv => ChainKeepsInserts
  <2> SUFFICES ASSUME TreeInv, pc = "idle", NEW k \in Keys
               PROVE  ChainMap[k] \in expected[k]
    BY DEF ChainKeepsInserts
  <2>1. PICK live, level, low, chain : Good(live, level, low, chain)
    BY DEF TreeInv, Good
  <2>2. entry = None
    BY DEF TreeInv, TInv, TypeOK
  <2>3. PICK v \in expected[k] : FirstIs(chain, k, v)
    BY <2>1, <2>2 DEF Good, Holds
  <2> QED
    BY <2>1, <2>3, MapIs DEF TreeInv
<1> QED
  BY <1>1, TreeHolds, PTL

-----------------------------------------------------------------------------
\* A prefix of the chain is extended by the next leaf
LEMMA ExtendedIs ==
  ASSUME TInv, NEW chain, Chains(chain), NEW i \in DOMAIN chain, NEW a \in 1 .. i
  PROVE  /\ SubSeq(chain, a, i) \in Seq(Pages) /\ Len(SubSeq(chain, a, i)) = i - a + 1
         /\ i = Len(chain) => Extended(SubSeq(chain, a, i)) = SubSeq(chain, a, i)
         /\ i # Len(chain) => Extended(SubSeq(chain, a, i)) = SubSeq(chain, a, i + 1)
PROOF
<1>1. /\ chain \in Seq(Pages) /\ Len(chain) \in Nat /\ DOMAIN chain = 1 .. Len(chain)
      /\ \A j \in DOMAIN chain :
           nodes[chain[j]].next = IF j = Len(chain) THEN None ELSE chain[j + 1]
      /\ \A j \in DOMAIN chain : chain[j] \in Pages
  BY ChainFitsIn DEF Chains
<1> DEFINE s == SubSeq(chain, a, i)
<1>2. s \in Seq(Pages) /\ Len(s) = i - a + 1 /\ \A j \in 1 .. i - a + 1 : s[j] = chain[a + j - 1]
  <2>1. a \in 1 .. Len(chain) + 1 /\ i \in a - 1 .. Len(chain)
    BY <1>1
  <2> QED
    BY <1>1, <2>1, CutIs
<1>3. Last(s) = chain[i]
  <2>1. i - a + 1 \in 1 .. i - a + 1 /\ a + (i - a + 1) - 1 = i
    BY <1>1
  <2> HIDE DEF s
  <2> QED
    BY <1>2, <2>1 DEF Last
<1>4. i = Len(chain) => Extended(s) = s
  <2> HIDE DEF s
  <2> QED
    BY <1>1, <1>3 DEF Extended
<1>5. i # Len(chain) => Extended(s) = SubSeq(chain, a, i + 1)
  <2> SUFFICES ASSUME i # Len(chain) PROVE Extended(s) = SubSeq(chain, a, i + 1)
    OBVIOUS
  <2>1. i + 1 \in DOMAIN chain /\ chain[i + 1] \in Pages
    BY <1>1
  <2>2. chain[i + 1] # None
    BY <2>1, TypesAre, PagesAre DEF TInv
  <2>3. Extended(s) = Append(s, chain[i + 1])
    <3> HIDE DEF s
    <3> QED
      BY <1>1, <1>3, <2>2 DEF Extended
  <2>4. Append(s, chain[i + 1]) = SubSeq(chain, a, i + 1)
    <3>1. PICK t, n : t = SubSeq(chain, a, i + 1) /\ n = i - a + 1
      OBVIOUS
    <3>2. a \in 1 .. Len(chain) + 1 /\ i + 1 \in a - 1 .. Len(chain) /\ (i + 1) - a + 1 = n + 1
      BY <1>1, <2>1, <3>1
    <3>3. t \in Seq(Pages) /\ Len(t) = n + 1 /\ \A j \in 1 .. n + 1 : t[j] = chain[a + j - 1]
      BY <1>1, <3>1, <3>2, CutIs
    <3>4. a + (n + 1) - 1 = i + 1 /\ n \in Nat
      BY <1>1, <3>1
    <3> HIDE DEF s
    <3>5. Len(s) = n /\ \A j \in 1 .. n : s[j] = t[j]
      BY <1>2, <3>1, <3>3, <3>4
    <3>6. t[n + 1] = chain[i + 1]
      BY <3>3, <3>4
    <3>7. PICK u : u = Append(s, chain[i + 1])
      OBVIOUS
    <3>8. /\ u \in Seq(Pages) /\ Len(u) = n + 1 /\ u[n + 1] = chain[i + 1]
          /\ \A j \in 1 .. n : u[j] = s[j]
      BY <1>2, <2>1, <3>1, <3>7
    <3>9. \A j \in 1 .. n + 1 : u[j] = t[j]
      BY <3>4, <3>5, <3>6, <3>8
    <3>10. u = t
      BY <3>3, <3>8, <3>9, SeqEqual
    <3> QED
      BY <3>1, <3>7, <3>10
  <2> QED
    BY <2>3, <2>4
<1> QED
  BY <1>2, <1>4, <1>5

\* ChainFrom is the last value of its recursive function
LEMMA ChainFromIs ==
  ASSUME NEW p, NEW g, g = [i \in 1 .. count |-> IF i = 1 THEN <<p>> ELSE Extended(g[i - 1])]
  PROVE  \E f : /\ f = [i \in 1 .. count |-> IF i = 1 THEN <<p>> ELSE Extended(f[i - 1])]
                /\ ChainFrom(p) = f[count]
PROOF
<1> DEFINE f == CHOOSE h : h = [i \in 1 .. count |-> IF i = 1 THEN <<p>> ELSE Extended(h[i - 1])]
<1>1. f = [i \in 1 .. count |-> IF i = 1 THEN <<p>> ELSE Extended(f[i - 1])]
  OBVIOUS
<1>2. ChainFrom(p) = f[count]
  BY DEF ChainFrom
<1> QED
  BY <1>1, <1>2

\* The walk from a leaf meets the rest of the chain
LEMMA ChainFromOn ==
  ASSUME TInv, NEW chain, Chains(chain), NEW a \in DOMAIN chain
  PROVE  ChainFrom(chain[a]) = SubSeq(chain, a, Len(chain))
PROOF
<1>1. PICK m : m = Len(chain)
  OBVIOUS
<1>2. /\ m \in 1 .. count /\ DOMAIN chain = 1 .. m /\ count \in Nat
      /\ chain \in Seq(Pages) /\ a \in 1 .. m
  <2>1. count \in Nat
    BY DEF TInv, TypeOK
  <2>2. m \in 1 .. count /\ DOMAIN chain = 1 .. m
    BY <1>1, ChainFitsIn
  <2> QED
    BY <2>1, <2>2 DEF Chains
<1> DEFINE p == chain[a]
           To(i) == IF a + i - 1 <= m THEN a + i - 1 ELSE m
           g == [i \in 1 .. count |-> SubSeq(chain, a, To(i))]
<1>3. ASSUME NEW i \in 1 .. count
      PROVE  g[i] = IF i = 1 THEN <<p>> ELSE Extended(g[i - 1])
  <2>1. CASE i = 1
    <3>1. SubSeq(chain, a, a) = <<p>>
      <4>1. Len(chain) \in Nat \ {0} /\ a \in 1 .. Len(chain) + 1 /\ a \in a - 1 .. Len(chain)
            /\ a - a + 1 = 1 /\ a + 1 - 1 = a
        BY <1>1, <1>2
      <4>2. PICK s : s = SubSeq(chain, a, a)
        OBVIOUS
      <4>3. s \in Seq(Pages) /\ Len(s) = 1 /\ s[1] = chain[a]
        BY <1>2, <4>1, <4>2, CutIs
      <4>4. s = <<s[1]>>
        BY <4>3
      <4> QED
        BY <4>2, <4>3, <4>4
    <3>2. To(i) = a
      BY <1>2, <2>1
    <3> QED
      BY <1>2, <2>1, <3>1, <3>2
  <2>2. CASE i # 1 /\ a + i - 1 <= m
    <3>1. /\ a + i - 2 \in DOMAIN chain /\ i - 1 \in 1 .. count /\ a + i - 2 # m
          /\ a \in 1 .. a + i - 2 /\ (a + i - 2) + 1 = a + i - 1
          /\ To(i) = a + i - 1 /\ To(i - 1) = a + i - 2
      BY <1>2, <2>2
    <3>2. Extended(SubSeq(chain, a, a + i - 2)) = SubSeq(chain, a, a + i - 1)
      BY <1>1, <3>1, ExtendedIs
    <3>3. g[i - 1] = SubSeq(chain, a, a + i - 2) /\ g[i] = SubSeq(chain, a, a + i - 1)
      BY <3>1
    <3> QED
      BY <2>2, <3>2, <3>3
  <2>3. CASE a + i - 1 > m
    <3>1. /\ i # 1 /\ i - 1 \in 1 .. count /\ m \in DOMAIN chain
          /\ To(i) = m /\ To(i - 1) = m
      BY <1>2, <2>3
    <3>2. Extended(SubSeq(chain, a, m)) = SubSeq(chain, a, m)
      BY <1>1, <1>2, <3>1, ExtendedIs
    <3>3. g[i - 1] = SubSeq(chain, a, m) /\ g[i] = SubSeq(chain, a, m)
      BY <3>1
    <3> QED
      BY <3>1, <3>2, <3>3
  <2>4. i = 1 \/ (i # 1 /\ a + i - 1 <= m) \/ a + i - 1 > m
    BY <1>2
  <2> QED
    BY <2>1, <2>2, <2>3, <2>4
<1>4. g[count] = SubSeq(chain, a, m)
  <2>1. count \in 1 .. count /\ To(count) = m
    BY <1>2
  <2> QED
    BY <2>1
<1>5. g = [i \in 1 .. count |-> IF i = 1 THEN <<p>> ELSE Extended(g[i - 1])]
  <2>1. g = [i \in 1 .. count |-> g[i]]
    OBVIOUS
  <2> HIDE DEF g, p
  <2> QED
    BY <1>3, <2>1
<1> HIDE DEF g, p
<1>6. PICK f : /\ f = [i \in 1 .. count |-> IF i = 1 THEN <<p>> ELSE Extended(f[i - 1])]
               /\ ChainFrom(p) = f[count]
  BY <1>5, ChainFromIs
<1>7. \A i \in 1 .. count : f[i] = IF i = 1 THEN <<p>> ELSE Extended(f[i - 1])
  BY <1>6
<1>8. ASSUME NEW i \in 1 .. count, f[i] # g[i] PROVE FALSE
  <2>1. PICK T : T = {j \in 1 .. count : f[j] # g[j]}
    OBVIOUS
  <2>2. T \subseteq Nat /\ i \in T
    BY <1>8, <2>1
  <2>3. PICK j \in T : \A n \in T : j <= n
    BY <2>2, LeastNatural
  <2>4. j \in 1 .. count /\ f[j] # g[j]
    BY <2>1, <2>3
  <2>5. j # 1
    BY <1>3, <1>7, <2>4
  <2>6. j - 1 \in 1 .. count /\ ~(j <= j - 1)
    BY <1>2, <2>4, <2>5
  <2>7. f[j - 1] = g[j - 1]
    BY <2>1, <2>3, <2>6
  <2> QED
    BY <1>3, <1>7, <2>4, <2>5, <2>7
<1> QED
  BY <1>1, <1>2, <1>4, <1>6, <1>8 DEF p

(***************************************************************************)
(* The two directions of the chain agree, but for the link that a split    *)
(* is about to set, or failed to.                                          *)
(***************************************************************************)
THEOREM ChainAlwaysMirrored == Spec => []ChainMirrored
PROOF
<1>1. TreeInv => ChainMirrored
  <2> SUFFICES ASSUME TreeInv PROVE ChainMirrored
    OBVIOUS
  <2>1. PICK live, level, low, chain : Good(live, level, low, chain)
    BY DEF TreeInv, Good
  <2>2. Chains(chain) /\ Backwards(chain) /\ TInv
    BY <2>1 DEF Good, Sound, TreeInv
  <2>3. ChainFrom(0) = chain
    <3>1. 1 \in DOMAIN chain /\ chain[1] = 0 /\ SubSeq(chain, 1, Len(chain)) = chain
      BY <2>2 DEF Chains
    <3> QED
      BY <2>2, <3>1, ChainFromOn
  <2>4. chain \in Seq(Pages) /\ Len(chain) \in Nat /\ DOMAIN chain = 1 .. Len(chain)
    BY <2>2 DEF Chains
  <2>5. ASSUME NEW i \in 2 .. Len(chain)
        PROVE  LET back == nodes[chain[i]].prev IN
               \/ back = chain[i - 1]
               \/ /\ failures > 0 \/ (pc = "relink" /\ chain[i - 1] = split.child)
                  /\ back \in ToSet(SubSeq(chain, 1, i - 1))
    <3>1. i \in DOMAIN chain \ {1} /\ i - 1 \in 0 .. Len(chain)
      BY <2>4
    <3>2. ToSet(SubSeq(chain, 1, i - 1)) = {chain[j] : j \in 1 .. i - 1}
      <4>1. PICK s, h : s = SubSeq(chain, 1, i - 1) /\ h = i - 1
        OBVIOUS
      <4>2. s \in Seq(Pages) /\ Len(s) = h /\ h \in Nat /\ \A j \in 1 .. h : s[j] = chain[j]
        BY <2>4, <3>1, <4>1
      <4>3. DOMAIN s = 1 .. h
        BY <4>2
      <4>4. ToSet(s) = {chain[j] : j \in 1 .. h}
        BY <4>2, <4>3 DEF ToSet
      <4> QED
        BY <4>1, <4>4
    <3> QED
      BY <2>2, <3>1, <3>2 DEF Backwards
  <2> QED
    BY <2>3, <2>5 DEF ChainMirrored
<1> QED
  BY <1>1, TreeHolds, PTL

-----------------------------------------------------------------------------
(***************************************************************************)
(* A search goes down one level with every round, and comes to the leaf    *)
(* that is the place for its key.                                          *)
(***************************************************************************)
LEMMA OneCovers ==
  ASSUME TInv, NEW live, NEW level, NEW low, Shape(live, level, low), Pending = {},
         NEW k \in Int, NEW p \in live, NEW q \in live, level[p] = level[q],
         Covers(live, level, low, p, k), Covers(live, level, low, q, k)
  PROVE  p = q
PROOF
<1>1. /\ None \notin Int /\ live \subseteq Pages
      /\ low[p] \in Int \cup {None} /\ low[q] \in Int \cup {None}
  BY BoundsAre
<1>2. SUFFICES ASSUME p # q PROVE FALSE
  OBVIOUS
<1>3. low[p] # low[q]
  BY <1>2 DEF Shape, Divided
<1>4. LeftOf(low[p], low[q]) \/ LeftOf(low[q], low[p])
  BY <1>1, <1>3 DEF LeftOf, Above
<1>5. /\ AtLeast(k, low[p]) /\ AtLeast(k, low[q])
      /\ LeftOf(low[p], low[q]) => BelowKey(k, low[q])
      /\ LeftOf(low[q], low[p]) => BelowKey(k, low[p])
  BY DEF Covers
<1> QED
  BY <1>1, <1>4, <1>5 DEF AtLeast, BelowKey

\* Leaves are the live pages of level 0
LEMMA LowestIsLeaf ==
  ASSUME TInv, NEW live, NEW level, NEW low, Shape(live, level, low), NEW p \in live
  PROVE  p \in Pages /\ (nodes[p].leaf <=> level[p] = 0) /\ level[p] \in Nat
PROOF
<1>1. p \in Pages /\ level[p] \in Nat
  BY BoundsAre
<1>2. nodes[p].leaf => level[p] = 0
  BY <1>1 DEF Shape, Leaves
<1>3. ~nodes[p].leaf => level[p] # 0
  <2> SUFFICES ASSUME ~nodes[p].leaf PROVE level[p] # 0
    OBVIOUS
  <2>1. PICK c : c = nodes[p].first
    OBVIOUS
  <2>2. c \in Children(p)
    BY <2>1 DEF Children
  <2>3. level[p] = level[c] + 1 /\ c \in Pages
    BY <1>1, <2>2, ChildLow
  <2>4. level[c] \in Nat
    BY <2>3, BoundsAre
  <2> QED
    BY <2>3, <2>4
<1>4. nodes[p].leaf \in BOOLEAN
  BY <1>1, TypesAre, NodesAre DEF TInv
<1> QED
  BY <1>1, <1>2, <1>3, <1>4

\* FindLeaf is the last value of its recursive function
LEMMA FindLeafIs ==
  ASSUME NEW k, NEW g, g = [i \in 0 .. count |-> IF i = 0 THEN root ELSE Downward(k)[g[i - 1]]]
  PROVE  \E f : /\ f = [i \in 0 .. count |-> IF i = 0 THEN root ELSE Downward(k)[f[i - 1]]]
                /\ FindLeaf(k) = f[count]
PROOF
<1> DEFINE f == CHOOSE h : h = [i \in 0 .. count |-> IF i = 0 THEN root ELSE Downward(k)[h[i - 1]]]
<1>1. f = [i \in 0 .. count |-> IF i = 0 THEN root ELSE Downward(k)[f[i - 1]]]
  OBVIOUS
<1>2. FindLeaf(k) = f[count]
  BY DEF FindLeaf
<1> QED
  BY <1>1, <1>2

\* The way down ends in the live leaf that the key belongs to
LEMMA FindLeafFinds ==
  ASSUME TInv, NEW live, NEW level, NEW low, Shape(live, level, low), Pending = {}, NEW k \in Int
  PROVE  LET p == FindLeaf(k) IN
         p \in live /\ nodes[p].leaf /\ Covers(live, level, low, p, k)
PROOF
<1>1. PICK h, step : h = level[root] /\ step = Downward(k)
  OBVIOUS
<1>2. /\ count \in Nat /\ h \in 0 .. count - 1 /\ root \in live /\ live \subseteq Pages
  <2>1. count \in Nat /\ root \in live /\ live \subseteq Pages
    BY BoundsAre DEF TInv, TypeOK
  <2>2. level[root] \in Nat /\ level[root] < count
    BY <2>1 DEF Shape, Bounded
  <2> QED
    BY <1>1, <2>1, <2>2
<1>3. \A p \in live : /\ p \in Pages /\ level[p] \in Nat /\ (nodes[p].leaf <=> level[p] = 0)
                      /\ step[p] = IF nodes[p].leaf THEN p ELSE FindChild(nodes[p], k)
  <2> SUFFICES ASSUME NEW p \in live
               PROVE  /\ p \in Pages /\ level[p] \in Nat /\ (nodes[p].leaf <=> level[p] = 0)
                      /\ step[p] = IF nodes[p].leaf THEN p ELSE FindChild(nodes[p], k)
    OBVIOUS
  <2>1. p \in Pages /\ level[p] \in Nat /\ (nodes[p].leaf <=> level[p] = 0)
    BY LowestIsLeaf
  <2>2. p \in PageNos
    BY <2>1, TypesAre, PagesAre DEF TInv
  <2> QED
    BY <1>1, <2>1, <2>2 DEF Downward
\* The page at a depth that is the place for k
<1> DEFINE depth(i) == IF i <= h THEN h - i ELSE 0
           Place(i, p) == p \in live /\ level[p] = depth(i) /\ Covers(live, level, low, p, k)
<1>4. Place(0, root)
  BY <1>1, <1>2, RootCovers
<1>5. ASSUME NEW i \in Nat, i # 0, NEW p, Place(i - 1, p)
      PROVE  Place(i, step[p])
  <2>1. CASE i <= h
    <3>1. level[p] = (h - i) + 1 /\ h - i \in Nat
      BY <1>2, <1>5, <2>1
    <3>2. ~nodes[p].leaf
      BY <1>3, <1>5, <3>1
    <3>3. PICK c : c = FindChild(nodes[p], k)
      OBVIOUS
    <3>4. c \in live /\ c \in Children(p) /\ Covers(live, level, low, c, k)
      BY <1>5, <3>2, <3>3, CoversDown
    <3>5. level[p] = level[c] + 1
      BY <1>3, <1>5, <3>4, ChildLow
    <3>6. level[c] = h - i
      BY <1>3, <3>1, <3>4, <3>5
    <3>7. step[p] = c
      BY <1>3, <1>5, <3>2, <3>3
    <3> QED
      BY <2>1, <3>4, <3>6, <3>7
  <2>2. CASE i > h
    <3>1. level[p] = 0 /\ depth(i) = 0
      BY <1>2, <1>5, <2>2
    <3>2. step[p] = p
      BY <1>3, <1>5, <3>1
    <3> QED
      BY <1>5, <3>1, <3>2
  <2> QED
    BY <1>2, <2>1, <2>2
<1>6. ASSUME NEW i \in Nat, NEW p, NEW q, Place(i, p), Place(i, q)
      PROVE  p = q
  BY <1>6, OneCovers
<1> HIDE DEF Place, depth
<1>7. \A i \in Nat : \E p : Place(i, p)
  <2> SUFFICES ASSUME NEW i \in Nat, ~ \E p : Place(i, p) PROVE FALSE
    OBVIOUS
  <2>1. PICK T : T = {j \in Nat : ~ \E p : Place(j, p)}
    OBVIOUS
  <2>2. T \subseteq Nat /\ i \in T
    BY <2>1
  <2>3. PICK j \in T : \A n \in T : j <= n
    BY <2>2, LeastNatural
  <2>4. j \in Nat /\ ~ \E p : Place(j, p)
    BY <2>1, <2>3
  <2>5. j # 0
    BY <1>4, <2>4
  <2>6. j - 1 \in Nat /\ ~(j <= j - 1)
    BY <2>4, <2>5
  <2>7. \E p : Place(j - 1, p)
    BY <2>1, <2>3, <2>6
  <2> QED
    BY <1>5, <2>4, <2>5, <2>7
<1> DEFINE g == [i \in 0 .. count |-> CHOOSE p : Place(i, p)]
<1>8. \A i \in 0 .. count : Place(i, g[i])
  BY <1>7
<1>9. \A i \in 0 .. count : i # 0 => i \in Nat /\ i - 1 \in 0 .. count
  BY <1>2
<1>10. ASSUME NEW i \in 0 .. count
       PROVE  g[i] = IF i = 0 THEN root ELSE step[g[i - 1]]
  <2> HIDE DEF g
  <2>1. CASE i = 0
    BY <1>4, <1>6, <1>8, <2>1
  <2>2. CASE i # 0
    <3>1. i \in Nat /\ i - 1 \in 0 .. count
      BY <1>9, <2>2
    <3>2. Place(i - 1, g[i - 1]) /\ Place(i, g[i])
      BY <1>8, <3>1
    <3>3. Place(i, step[g[i - 1]])
      BY <1>5, <2>2, <3>1, <3>2
    <3>4. g[i] = step[g[i - 1]]
      BY <1>6, <3>1, <3>2, <3>3
    <3> QED
      BY <2>2, <3>4
  <2> QED
    BY <2>1, <2>2
<1>11. g = [i \in 0 .. count |-> IF i = 0 THEN root ELSE step[g[i - 1]]]
  <2>1. g = [i \in 0 .. count |-> g[i]]
    OBVIOUS
  <2> HIDE DEF g
  <2> QED
    BY <1>10, <2>1
<1> HIDE DEF g
<1>12. PICK f : /\ f = [i \in 0 .. count |-> IF i = 0 THEN root ELSE step[f[i - 1]]]
                /\ FindLeaf(k) = f[count]
  BY <1>1, <1>11, FindLeafIs
<1>13. \A i \in 0 .. count : f[i] = IF i = 0 THEN root ELSE step[f[i - 1]]
  BY <1>12
<1>14. ASSUME NEW i \in 0 .. count, ~Place(i, f[i]) PROVE FALSE
  <2>1. PICK T : T = {j \in 0 .. count : ~Place(j, f[j])}
    OBVIOUS
  <2>2. T \subseteq Nat /\ i \in T
    BY <1>14, <2>1
  <2>3. PICK j \in T : \A n \in T : j <= n
    BY <2>2, LeastNatural
  <2>4. j \in 0 .. count /\ ~Place(j, f[j])
    BY <2>1, <2>3
  <2>5. j # 0
    BY <1>4, <1>13, <2>4
  <2>6. j \in Nat /\ j - 1 \in 0 .. count /\ ~(j <= j - 1)
    BY <1>2, <2>4, <2>5
  <2>7. Place(j - 1, f[j - 1])
    BY <2>1, <2>3, <2>6
  <2> QED
    BY <1>5, <1>13, <2>4, <2>5, <2>6, <2>7
<1>15. Place(count, FindLeaf(k))
  <2>1. count \in 0 .. count
    BY <1>2
  <2> QED
    BY <1>12, <1>14, <2>1
<1>16. depth(count) = 0
  BY <1>2 DEF depth
<1> QED
  BY <1>3, <1>15, <1>16 DEF Place

\* Between inserts, a search finds the first entry of the key in the chain, or,
\* after an error, nothing
LEMMA SearchIs ==
  ASSUME TInv, NEW live, NEW level, NEW low, NEW chain, Good(live, level, low, chain),
         Pending = {}, NEW k \in Keys
  PROVE  FirstIs(chain, k, Search(k)) \/ (failures > 0 /\ Search(k) = None)
PROOF
<1>0. Shape(live, level, low) /\ Chains(chain) /\ Ordered(live, low, chain)
  BY DEF Good, Sound
<1>1. k \in Int
  BY BTreeAssumption
<1>2. PICK p : p = FindLeaf(k)
  OBVIOUS
<1>3. p \in live /\ nodes[p].leaf /\ Covers(live, level, low, p, k)
  BY <1>0, <1>1, <1>2, FindLeafFinds
<1>4. p \in Pages /\ live \subseteq Pages /\ None \notin Int
      /\ \A q \in Pages : low[q] \in Int \cup {None}
  BY <1>0, <1>3, BoundsAre
<1>5. /\ \A i \in DOMAIN chain : chain[i] \in Pages /\ nodes[chain[i]].leaf
      /\ DOMAIN chain = 1 .. Len(chain) /\ Len(chain) \in Nat
  BY <1>0, ChainFitsIn DEF TInv, TypeOK
<1>6. PICK a \in DOMAIN chain : chain[a] = p
  BY <1>0, <1>3, <1>4 DEF Chains, ToSet
<1>7. ASSUME NEW j \in 1 .. a - 1
      PROVE  j \in DOMAIN chain /\ k \notin KeysIn(chain[j])
  <2>1. j \in DOMAIN chain /\ j < a
    BY <1>5
  <2>2. \A x \in KeysIn(chain[j]) : BelowKey(x, low[p])
    BY <1>0, <1>3, <1>6, <2>1 DEF Ordered
  <2>3. AtLeast(k, low[p])
    BY <1>3 DEF Covers
  <2> QED
    BY <1>1, <1>4, <2>1, <2>2, <2>3 DEF AtLeast, BelowKey
<1> DEFINE entries == nodes[p].entries
           there == Found(entries, k)
<1>8. /\ there # {} <=> k \in KeysIn(p)
      /\ \A i \in there : entries[i] \in Items(p) /\ entries[i].key = k
  BY <1>3, <1>4, FoundIs
<1>9. Search(k) = IF there = {} THEN None ELSE entries[Max(there)].val
  BY <1>2 DEF Search
<1>10. CASE there # {}
  <2>1. Len(entries) \in Nat /\ there \subseteq 1 .. Len(entries)
    <3>1. entries \in Seq(Entry)
      BY <1>3, <1>4, TypesAre, NodesAre DEF TInv, LeafNode
    <3> QED
      BY <3>1 DEF Found
  <2>2. Max(there) \in there
    <3> HIDE DEF there
    <3> QED
      BY <1>10, <2>1, GreatestIsMax
  <2>3. \E e \in Items(chain[a]) : e.key = k /\ e.val = Search(k)
    BY <1>6, <1>8, <1>9, <1>10, <2>2
  <2> QED
    BY <1>7, <2>3 DEF FirstIs
<1>11. CASE there = {}
  <2>1. Search(k) = None /\ k \notin KeysIn(p)
    BY <1>8, <1>9, <1>11
  <2>2. CASE failures > 0
    BY <2>1, <2>2
  <2>3. CASE ~(failures > 0)
    <3>1. live = Pages
      BY <1>0, <2>3 DEF Shape, Reached, TInv, TypeOK
    <3>2. ASSUME NEW j \in DOMAIN chain
          PROVE  k \notin KeysIn(chain[j])
      <4>1. CASE j < a
        BY <1>5, <1>7, <4>1
      <4>2. CASE j = a
        BY <1>6, <2>1, <4>2
      <4>3. CASE j > a
        <5>1. PICK q : q = chain[j]
          OBVIOUS
        <5>2. q \in live /\ nodes[q].leaf
          BY <1>5, <3>1, <5>1
        <5>3. LeftOf(low[p], low[q])
          BY <1>0, <1>3, <1>6, <4>3, <5>1, <5>2 DEF Ordered
        <5>4. level[p] = 0 /\ level[q] = 0
          BY <1>0, <1>3, <1>4, <5>2 DEF Shape, Leaves
        <5>5. BelowKey(k, low[q])
          BY <1>3, <5>2, <5>3, <5>4 DEF Covers
        <5>6. \A x \in KeysIn(q) : AtLeast(x, low[q])
          BY <1>0, <1>4, <5>2 DEF Shape, Leaves, KeysIn
        <5> QED
          BY <1>1, <1>4, <5>1, <5>2, <5>5, <5>6 DEF AtLeast, BelowKey
      <4> QED
        BY <1>5, <4>1, <4>2, <4>3
    <3> QED
      BY <2>1, <3>2 DEF FirstIs
  <2> QED
    BY <2>2, <2>3
<1> QED
  BY <1>10, <1>11

(***************************************************************************)
(* Between inserts a search finds the last value inserted for its key;     *)
(* only after a failure may it find nothing instead.                       *)
(***************************************************************************)
THEOREM SearchAlwaysFresh == Spec => []SearchNeverStale
PROOF
<1>1. TreeInv => SearchNeverStale
  <2> SUFFICES ASSUME TreeInv, pc = "idle", NEW k \in Keys
               PROVE  Search(k) \in expected[k] \/ (failures > 0 /\ Search(k) = None)
    BY DEF SearchNeverStale
  <2>1. PICK live, level, low, chain : Good(live, level, low, chain)
    BY DEF TreeInv, Good
  <2>2. entry = None /\ Pending = {} /\ TInv
    BY NoneUnderWay DEF TreeInv, TInv, TypeOK
  <2>3. PICK v \in expected[k] : FirstIs(chain, k, v)
    BY <2>1, <2>2 DEF Good, Holds
  <2>4. FirstIs(chain, k, Search(k)) => Search(k) = v
    BY <2>1, <2>2, <2>3, FirstIsOne DEF Good, Sound
  <2> QED
    BY <2>1, <2>2, <2>3, <2>4, SearchIs
<1> QED
  BY <1>1, TreeHolds, PTL

-----------------------------------------------------------------------------
(***************************************************************************)
(* Rows of the tree are levels.                                            *)
(***************************************************************************)
LEMMA ChildrenCounted ==
  ASSUME TInv, NEW live, NEW level, NEW low, Shape(live, level, low),
         NEW p \in Pages, ~nodes[p].leaf
  PROVE  Cardinality(Children(p)) = 1 + Len(nodes[p].entries)
PROOF
<1>1. PICK s, c0, n, C : /\ s = nodes[p].entries /\ c0 = nodes[p].first
                         /\ n = Len(nodes[p].entries) /\ C = Children(p)
  OBVIOUS
<1>2. s \in Seq(ChildEntry) /\ n \in Nat /\ DOMAIN s = 1 .. n
  <2>1. nodes[p].entries \in Seq(ChildEntry)
    BY TypesAre, NodesAre DEF TInv, InternalNode
  <2> QED
    BY <1>1, <2>1
<1>3. C = {c0} \cup {s[i].child : i \in 1 .. n}
  <2>1. C = {c0} \cup {e.child : e \in ToSet(s)}
    BY <1>1 DEF Children
  <2>2. ToSet(s) = {s[i] : i \in 1 .. n}
    BY <1>2 DEF ToSet
  <2> QED
    BY <2>1, <2>2
<1>4. /\ low[c0] = low[p] /\ None \notin Int
      /\ \A i \in 1 .. n : /\ s[i].key \in Int /\ Above(s[i].key, low[p])
                           /\ low[s[i].child] = s[i].key
  <2>1. /\ low[c0] = low[p]
        /\ \A e \in Items(p) : Above(e.key, low[p]) /\ low[e.child] = e.key
    BY <1>1 DEF Shape, Inner
  <2>2. \A i \in 1 .. n : s[i] \in Items(p) /\ s[i].key \in Int
    BY <1>1, <1>2, EntriesHaveKeys DEF Items, ToSet
  <2> QED
    BY <2>1, <2>2, BoundsAre
<1>5. low[p] \in Int \cup {None}
  BY BoundsAre
<1>6. \A i, j \in 1 .. n : i < j => s[i].key < s[j].key
  BY <1>1, <1>2 DEF Shape, Bounded, Sorted
<1>7. \A i \in 1 .. n : s[i].child # c0
  BY <1>4, <1>5 DEF Above
<1>8. \A i, j \in 1 .. n : s[i].child = s[j].child => i = j
  <2> SUFFICES ASSUME NEW i \in 1 .. n, NEW j \in 1 .. n, s[i].child = s[j].child
               PROVE  i = j
    OBVIOUS
  <2>1. s[i].key = s[j].key /\ s[i].key \in Int
    BY <1>4
  <2>2. ~(i < j) /\ ~(j < i)
    BY <1>6, <2>1
  <2> QED
    BY <1>2, <2>2
<1> DEFINE f == [i \in 0 .. n |-> IF i = 0 THEN c0 ELSE s[i].child]
<1>9. \A i \in 0 .. n : i = 0 \/ i \in 1 .. n
  BY <1>2
<1>10. f \in [0 .. n -> C]
  BY <1>3, <1>9
<1>11. \A i, j \in 0 .. n : f[i] = f[j] => i = j
  BY <1>7, <1>8, <1>9
<1>12. \A c \in C : \E i \in 0 .. n : f[i] = c
  <2>1. 0 \in 0 .. n /\ f[0] = c0
    BY <1>2
  <2>2. \A i \in 1 .. n : i \in 0 .. n /\ f[i] = s[i].child
    BY <1>2
  <2> QED
    BY <1>3, <2>1, <2>2
<1> HIDE DEF f
<1>13. f \in Injection(0 .. n, C)
  BY <1>10, <1>11 DEF Injection, IsInjective
<1>14. f \in Surjection(0 .. n, C)
  BY <1>10, <1>12 DEF Surjection
<1>15. IsFiniteSet(0 .. n) /\ Cardinality(0 .. n) = n + 1
  BY <1>2, FS_Interval
<1>16. Cardinality(C) = Cardinality(0 .. n)
  BY <1>13, <1>14, <1>15, FS_Surjection
<1> QED
  BY <1>1, <1>2, <1>15, <1>16

\* The rows of pages exist as a function
LEMMA RowsExist ==
  ASSUME NEW n \in Nat
  PROVE  \E g : g = [i \in 0 .. n |-> IF i = 0 THEN <<{root}>> ELSE Deeper(g[i - 1])]
PROOF
<1> DEFINE Steps(f, m) == \A i \in 0 .. m : f[i] = IF i = 0 THEN <<{root}>> ELSE Deeper(f[i - 1])
<1>1. SUFFICES ASSUME ~ \E f : Steps(f, n) PROVE FALSE
  <2> SUFFICES ASSUME NEW f, Steps(f, n)
               PROVE  \E g : g = [i \in 0 .. n |-> IF i = 0 THEN <<{root}>> ELSE Deeper(g[i - 1])]
    OBVIOUS
  <2> DEFINE g == [i \in 0 .. n |-> f[i]]
  <2>1. \A i \in 0 .. n : i # 0 => i - 1 \in 0 .. n
    OBVIOUS
  <2>2. \A i \in 0 .. n : g[i] = IF i = 0 THEN <<{root}>> ELSE Deeper(g[i - 1])
    BY <2>1
  <2>3. g = [i \in 0 .. n |-> g[i]]
    OBVIOUS
  <2> HIDE DEF g
  <2>4. g = [i \in 0 .. n |-> IF i = 0 THEN <<{root}>> ELSE Deeper(g[i - 1])]
    BY <2>2, <2>3
  <2> QED
    BY <2>4
<1> HIDE DEF Steps
<1>2. PICK T : T = {m \in Nat : ~ \E f : Steps(f, m)}
  OBVIOUS
<1>3. T \subseteq Nat /\ n \in T
  BY <1>1, <1>2
<1>4. PICK m \in T : \A j \in T : m <= j
  BY <1>3, LeastNatural
<1>5. m \in Nat /\ ~ \E f : Steps(f, m)
  BY <1>2, <1>4
<1>6. m # 0
  <2> SUFFICES Steps([i \in 0 .. 0 |-> <<{root}>>], 0)
    BY <1>5
  <2> QED
    BY DEF Steps
<1>7. m - 1 \in Nat /\ ~(m <= m - 1)
  BY <1>5, <1>6
<1>8. PICK f : Steps(f, m - 1)
  BY <1>2, <1>4, <1>7
<1> DEFINE g == [i \in 0 .. m |-> IF i = m THEN Deeper(f[m - 1]) ELSE f[i]]
<1>9. ASSUME NEW i \in 0 .. m
      PROVE  g[i] = IF i = 0 THEN <<{root}>> ELSE Deeper(g[i - 1])
  <2>1. CASE i = m
    <3>1. i # 0 /\ i - 1 \in 0 .. m /\ i - 1 # m
      BY <1>5, <1>6, <2>1
    <3> QED
      BY <2>1, <3>1
  <2>2. CASE i # m
    <3>1. i \in 0 .. m - 1
      BY <1>5, <2>2
    <3>2. i # 0 => i - 1 \in 0 .. m /\ i - 1 # m
      BY <1>5
    <3>3. f[i] = IF i = 0 THEN <<{root}>> ELSE Deeper(f[i - 1])
      BY <1>8, <3>1 DEF Steps
    <3> QED
      BY <2>2, <3>2, <3>3
  <2> QED
    BY <2>1, <2>2
<1>10. Steps(g, m)
  <2> HIDE DEF g
  <2> QED
    BY <1>9 DEF Steps
<1> QED
  BY <1>5, <1>10

\* Rows is the last value of its recursive function
LEMMA RowsAre ==
  ASSUME count \in Nat
  PROVE  \E f : /\ f = [i \in 0 .. count |-> IF i = 0 THEN <<{root}>> ELSE Deeper(f[i - 1])]
                /\ Rows = f[count]
PROOF
<1> DEFINE f == CHOOSE h : h = [i \in 0 .. count |-> IF i = 0 THEN <<{root}>> ELSE Deeper(h[i - 1])]
<1>1. \E h : h = [i \in 0 .. count |-> IF i = 0 THEN <<{root}>> ELSE Deeper(h[i - 1])]
  BY RowsExist
<1>2. f = [i \in 0 .. count |-> IF i = 0 THEN <<{root}>> ELSE Deeper(f[i - 1])]
  BY <1>1
<1>3. Rows = f[count]
  BY DEF Rows
<1> QED
  BY <1>2, <1>3

\* Row by row, the pages on the way down are one level lower
LEMMA RowsAreLevels ==
  ASSUME TInv, NEW live, NEW level, NEW low, Shape(live, level, low)
  PROVE  /\ Rows \in Seq(SUBSET Pages) /\ Len(Rows) = count + 1
         /\ \A j \in 1 .. count + 1 : \A p \in Rows[j] :
              p \in live /\ level[p] + (j - 1) = level[root]
PROOF
<1>1. /\ count \in Nat /\ root \in live /\ live \subseteq Pages
      /\ \A p \in Pages : level[p] \in Nat
  BY BoundsAre DEF TInv, TypeOK
<1>2. PICK f : /\ f = [i \in 0 .. count |-> IF i = 0 THEN <<{root}>> ELSE Deeper(f[i - 1])]
               /\ Rows = f[count]
  BY <1>1, RowsAre
<1>3. \A i \in 0 .. count : f[i] = IF i = 0 THEN <<{root}>> ELSE Deeper(f[i - 1])
  BY <1>2
<1>4. Rows = f[count]
  BY <1>2
<1> DEFINE Leveled(i) ==
             /\ f[i] \in Seq(SUBSET Pages) /\ Len(f[i]) = i + 1
             /\ \A j \in 1 .. i + 1 : \A p \in f[i][j] : p \in live /\ level[p] + (j - 1) = level[root]
<1>5. Leveled(0)
  <2>1. 0 \in 0 .. count /\ f[0] = <<{root}>>
    BY <1>1, <1>3
  <2>2. {root} \in SUBSET Pages
    BY <1>1
  <2>3. \A j \in 1 .. 0 + 1 : f[0][j] = {root} /\ j - 1 = 0
    BY <2>1
  <2> QED
    BY <1>1, <2>1, <2>2, <2>3
<1>6. ASSUME NEW i \in 0 .. count, i # 0, Leveled(i - 1)
      PROVE  Leveled(i)
  <2>1. PICK rows, new : rows = f[i - 1] /\ new = UNION {Children(p) : p \in rows[i]}
    OBVIOUS
  <2>2. /\ rows \in Seq(SUBSET Pages) /\ Len(rows) = i /\ i \in Nat \ {0}
        /\ \A j \in 1 .. i : \A p \in rows[j] : p \in live /\ level[p] + (j - 1) = level[root]
    <3>1. (i - 1) + 1 = i /\ i \in Nat \ {0}
      BY <1>1, <1>6
    <3> QED
      BY <1>6, <2>1, <3>1
  <2>3. f[i] = Append(rows, new)
    <3>1. Last(rows) = rows[i]
      BY <2>2 DEF Last
    <3> QED
      BY <1>3, <1>6, <2>1, <3>1 DEF Deeper
  <2>4. ASSUME NEW c \in new
        PROVE  c \in live /\ level[c] + i = level[root]
    <3>1. PICK p \in rows[i] : c \in Children(p)
      BY <2>1
    <3>2. p \in live /\ level[p] + (i - 1) = level[root]
      BY <2>2, <3>1
    <3>3. c \in live
      BY <3>1, <3>2 DEF Shape, Reached
    <3>4. level[p] = level[c] + 1
      BY <1>1, <3>1, <3>2, ChildLow
    <3>5. level[c] \in Nat /\ level[root] \in Nat
      BY <1>1, <3>3
    <3> QED
      BY <2>2, <3>2, <3>3, <3>4, <3>5
  <2>5. new \in SUBSET Pages
    BY <1>1, <2>4
  <2>6. f[i] \in Seq(SUBSET Pages) /\ Len(f[i]) = i + 1
    BY <2>2, <2>3, <2>5
  <2>7. ASSUME NEW j \in 1 .. i + 1, NEW p \in f[i][j]
        PROVE  p \in live /\ level[p] + (j - 1) = level[root]
    <3>1. CASE j <= i
      <4>1. j \in 1 .. i
        BY <2>2, <3>1
      <4>2. f[i][j] = rows[j]
        BY <2>2, <2>3, <2>5, <4>1
      <4> QED
        BY <2>2, <2>7, <4>1, <4>2
    <3>2. CASE j = i + 1
      <4>1. f[i][j] = new /\ j - 1 = i
        BY <2>2, <2>3, <2>5, <3>2
      <4> QED
        BY <2>4, <2>7, <4>1
    <3> QED
      BY <2>2, <3>1, <3>2
  <2> QED
    BY <2>6, <2>7
<1> HIDE DEF Leveled
<1>7. ASSUME NEW i \in 0 .. count, ~Leveled(i) PROVE FALSE
  <2>1. PICK T : T = {j \in 0 .. count : ~Leveled(j)}
    OBVIOUS
  <2>2. T \subseteq Nat /\ i \in T
    BY <1>7, <2>1
  <2>3. PICK j \in T : \A n \in T : j <= n
    BY <2>2, LeastNatural
  <2>4. j \in 0 .. count /\ ~Leveled(j)
    BY <2>1, <2>3
  <2>5. j # 0
    BY <1>5, <2>4
  <2>6. j - 1 \in 0 .. count /\ ~(j <= j - 1)
    BY <1>1, <2>4, <2>5
  <2>7. Leveled(j - 1)
    BY <2>1, <2>3, <2>6
  <2> QED
    BY <1>6, <2>4, <2>5, <2>7
<1>8. Leveled(count)
  <2>1. count \in 0 .. count
    BY <1>1
  <2> QED
    BY <1>7, <2>1
<1> QED
  BY <1>4, <1>8 DEF Leveled

(***************************************************************************)
(* The pages below the root are a tree whose leaves are all equally deep.  *)
(***************************************************************************)
THEOREM TreeAlwaysBalanced == Spec => []Balanced
PROOF
<1>1. TreeInv => Balanced
  <2> SUFFICES ASSUME TreeInv PROVE Balanced
    OBVIOUS
  <2>1. PICK live, level, low, chain : Good(live, level, low, chain)
    BY DEF TreeInv, Good
  <2>2. Shape(live, level, low) /\ TInv
    BY <2>1 DEF Good, TreeInv
  <2>3. count \in Nat /\ Pages = 0 .. count - 1
    BY <2>2 DEF TInv, TypeOK, Pages
  <2>4. /\ \A p \in Pages : root \notin Children(p)
        /\ \A p, q \in Pages : p # q => Children(p) \cap Children(q) = {}
    BY <2>2 DEF Shape, Forest
  <2>5. ASSUME NEW p \in Pages
        PROVE  /\ root \notin Children(p)
               /\ \A q \in 0 .. p - 1 : Children(p) \cap Children(q) = {}
               /\ nodes[p].leaf \/ Cardinality(Children(p)) = 1 + Len(nodes[p].entries)
    <3>1. \A q \in 0 .. p - 1 : q \in Pages /\ p # q
      BY <2>3
    <3>2. nodes[p].leaf \/ Cardinality(Children(p)) = 1 + Len(nodes[p].entries)
      BY <2>2, ChildrenCounted
    <3> QED
      BY <2>4, <3>1, <3>2
  <2>6. /\ Rows \in Seq(SUBSET Pages) /\ Len(Rows) = count + 1
        /\ \A j \in 1 .. count + 1 : \A p \in Rows[j] :
             p \in live /\ level[p] + (j - 1) = level[root]
    BY <2>2, RowsAreLevels
  <2>7. \A p \in live : p \in Pages /\ level[p] \in Nat /\ (nodes[p].leaf <=> level[p] = 0)
    BY <2>2, LowestIsLeaf
  <2>8. ASSUME NEW i \in 1 .. count, NEW p \in Rows[i], NEW q \in Rows[i]
        PROVE  nodes[p].leaf <=> nodes[q].leaf
    <3>1. i \in 1 .. count + 1
      BY <2>3
    <3>2. /\ p \in live /\ q \in live
          /\ level[p] + (i - 1) = level[root] /\ level[q] + (i - 1) = level[root]
      BY <2>6, <3>1
    <3>3. level[p] = level[q]
      BY <2>7, <3>2
    <3> QED
      BY <2>7, <3>2, <3>3
  <2>9. Last(Rows) = {}
    <3>1. Last(Rows) = Rows[count + 1]
      BY <2>6 DEF Last
    <3>2. ASSUME NEW p \in Rows[count + 1] PROVE FALSE
      <4>1. count + 1 \in 1 .. count + 1 /\ (count + 1) - 1 = count
        BY <2>3
      <4>2. p \in live /\ level[p] + count = level[root]
        BY <2>6, <4>1
      <4>3. root \in Pages /\ level[root] < count
        BY <2>2, BoundsAre DEF Shape, Bounded
      <4>4. level[root] \in Nat /\ level[p] \in Nat
        BY <2>2, <2>7, <4>2, <4>3, BoundsAre
      <4> QED
        BY <2>3, <4>2, <4>3, <4>4
    <3> QED
      BY <3>1, <3>2
  <2> QED
    BY <2>3, <2>5, <2>8, <2>9 DEF Balanced
<1> QED
  BY <1>1, TreeHolds, PTL

-----------------------------------------------------------------------------
(***************************************************************************)
(* A result that grows step by step, as in the loops of range_scan.        *)
(***************************************************************************)
StepIn(R, step, n) == \A i \in 1 .. n, r \in R : step[i][r] \in R

Grows(g, start, step, n) ==
  \A i \in 0 .. n : g[i] = IF i = 0 THEN start ELSE step[i][g[i - 1]]

\* Such a function exists when its steps stay in one set of results
LEMMA Accumulates ==
  ASSUME NEW R, NEW start, start \in R, NEW n, n \in Nat, NEW step, StepIn(R, step, n)
  PROVE  \E g \in [0 .. n -> R] : Grows(g, start, step, n)
PROOF
<1> DEFINE Steps(f, m) == /\ f \in [0 .. m -> R]
                          /\ \A i \in 0 .. m : f[i] = IF i = 0 THEN start ELSE step[i][f[i - 1]]
<1>1. SUFFICES ASSUME ~ \E f : Steps(f, n) PROVE FALSE
  BY DEF Grows
<1> HIDE DEF Steps
<1>2. PICK T : T = {m \in 0 .. n : ~ \E f : Steps(f, m)}
  OBVIOUS
<1>3. T \subseteq Nat /\ n \in T
  BY <1>1, <1>2
<1>4. PICK m \in T : \A j \in T : m <= j
  BY <1>3, LeastNatural
<1>5. m \in 0 .. n /\ ~ \E f : Steps(f, m)
  BY <1>2, <1>4
<1>6. m # 0
  <2> SUFFICES Steps([i \in 0 .. 0 |-> start], 0)
    BY <1>5
  <2> QED
    BY DEF Steps
<1>7. m - 1 \in 0 .. n /\ ~(m <= m - 1)
  BY <1>5, <1>6
<1>8. PICK f : Steps(f, m - 1)
  BY <1>2, <1>4, <1>7
<1> DEFINE g == [i \in 0 .. m |-> IF i = m THEN step[m][f[m - 1]] ELSE f[i]]
<1>9. ASSUME NEW i \in 0 .. m
      PROVE  g[i] \in R /\ g[i] = IF i = 0 THEN start ELSE step[i][g[i - 1]]
  <2>1. CASE i = m
    <3>1. i # 0 /\ i - 1 \in 0 .. m /\ i - 1 # m /\ m \in 1 .. n /\ m - 1 \in 0 .. m - 1
      BY <1>5, <1>6, <2>1
    <3>2. f[m - 1] \in R
      BY <1>8, <3>1 DEF Steps
    <3>3. step[m][f[m - 1]] \in R
      BY <3>1, <3>2 DEF StepIn
    <3> QED
      BY <2>1, <3>1, <3>3
  <2>2. CASE i # m
    <3>1. i \in 0 .. m - 1
      BY <1>5, <2>2
    <3>2. i # 0 => i - 1 \in 0 .. m /\ i - 1 # m
      BY <1>5
    <3>3. f[i] \in R /\ f[i] = IF i = 0 THEN start ELSE step[i][f[i - 1]]
      BY <1>8, <3>1 DEF Steps
    <3> QED
      BY <2>2, <3>2, <3>3
  <2> QED
    BY <2>1, <2>2
<1>10. Steps(g, m)
  <2>1. g \in [0 .. m -> R]
    BY <1>9
  <2> HIDE DEF g
  <2> QED
    BY <1>9, <2>1 DEF Steps
<1> QED
  BY <1>5, <1>10

\* Entries in order, and others whose keys come after them, are in order together
LEMMA JoinedInOrder ==
  ASSUME NEW T, \A x \in T : x.key \in Int, NEW r \in Seq(T), NEW s \in Seq(T),
         Sorted(r), Sorted(s), \A x \in ToSet(r), y \in ToSet(s) : x.key < y.key
  PROVE  /\ r \o s \in Seq(T) /\ Sorted(r \o s)
         /\ ToSet(r \o s) = ToSet(r) \cup ToSet(s)
PROOF
<1>1. PICK m, n : m = Len(r) /\ n = Len(s)
  OBVIOUS
<1>2. m \in Nat /\ n \in Nat /\ DOMAIN r = 1 .. m /\ DOMAIN s = 1 .. n
  BY <1>1
<1>3. PICK t : t = r \o s
  OBVIOUS
<1>4. /\ t \in Seq(T) /\ Len(t) = m + n /\ DOMAIN t = 1 .. m + n
      /\ \A i \in 1 .. m + n : t[i] = IF i <= m THEN r[i] ELSE s[i - m]
  <2>1. t \in Seq(T) /\ Len(t) = m + n
    BY <1>1, <1>3
  <2>2. \A i \in 1 .. m + n : t[i] = IF i <= m THEN r[i] ELSE s[i - m]
    BY <1>1, <1>3
  <2> QED
    BY <2>1, <2>2
<1>5. /\ \A i \in 1 .. m : i \in 1 .. m + n /\ t[i] = r[i]
      /\ \A i \in 1 .. n : m + i \in 1 .. m + n /\ t[m + i] = s[i]
  <2>1. \A i \in 1 .. m : i \in 1 .. m + n /\ i <= m
    BY <1>2
  <2>2. \A i \in 1 .. n : m + i \in 1 .. m + n /\ ~(m + i <= m) /\ (m + i) - m = i
    BY <1>2
  <2> QED
    BY <1>4, <2>1, <2>2
<1>6. \A i \in 1 .. m + n : i \in 1 .. m \/ (i - m \in 1 .. n /\ ~(i <= m))
  BY <1>2
<1>7. ToSet(t) = ToSet(r) \cup ToSet(s)
  <2>1. /\ ToSet(t) = {t[i] : i \in 1 .. m + n}
        /\ ToSet(r) = {r[i] : i \in 1 .. m} /\ ToSet(s) = {s[i] : i \in 1 .. n}
    BY <1>2, <1>4 DEF ToSet
  <2>2. \A i \in 1 .. m + n : t[i] \in {r[j] : j \in 1 .. m} \cup {s[j] : j \in 1 .. n}
    BY <1>4, <1>6
  <2>3. /\ \A i \in 1 .. m : r[i] \in {t[j] : j \in 1 .. m + n}
        /\ \A i \in 1 .. n : s[i] \in {t[j] : j \in 1 .. m + n}
    BY <1>5
  <2> QED
    BY <2>1, <2>2, <2>3
<1>8. ASSUME NEW i \in 1 .. m + n, NEW j \in 1 .. m + n, i < j
      PROVE  t[i].key < t[j].key
  <2>1. CASE j \in 1 .. m
    <3>1. i \in 1 .. m
      BY <1>2, <1>8, <2>1
    <3> QED
      BY <1>2, <1>5, <1>8, <2>1, <3>1 DEF Sorted
  <2>2. CASE i \in 1 .. m /\ j - m \in 1 .. n /\ ~(j <= m)
    <3>1. t[i] \in ToSet(r) /\ t[j] \in ToSet(s)
      BY <1>2, <1>4, <1>5, <2>2 DEF ToSet
    <3> QED
      BY <3>1
  <2>3. CASE i - m \in 1 .. n /\ ~(i <= m) /\ j - m \in 1 .. n /\ ~(j <= m)
    <3>1. i - m < j - m
      BY <1>2, <1>8
    <3>2. t[i] = s[i - m] /\ t[j] = s[j - m]
      BY <1>4, <2>3
    <3> QED
      BY <1>2, <2>3, <3>1, <3>2 DEF Sorted
  <2>4. CASE j - m \in 1 .. n /\ ~(j <= m) /\ i \in 1 .. m
    BY <2>2, <2>4
  <2> QED
    BY <1>6, <2>1, <2>2, <2>3
<1> QED
  BY <1>3, <1>4, <1>7, <1>8 DEF Sorted

\* A single entry is in order
LEMMA OneInOrder ==
  ASSUME NEW T, NEW e \in T
  PROVE  <<e>> \in Seq(T) /\ Sorted(<<e>>) /\ ToSet(<<e>>) = {e}
PROOF
<1>1. <<e>> \in Seq(T) /\ DOMAIN <<e>> = {1} /\ <<e>>[1] = e
  OBVIOUS
<1>2. Sorted(<<e>>)
  BY <1>1 DEF Sorted
<1>3. ToSet(<<e>>) = {e}
  BY <1>1 DEF ToSet
<1> QED
  BY <1>1, <1>2, <1>3

-----------------------------------------------------------------------------
(***************************************************************************)
(* The filter of range_scan takes the entries of the range, in order.      *)
(***************************************************************************)
LEMMA WithinIs ==
  ASSUME NEW s \in Seq(Entry), Sorted(s), NEW a \in Int, NEW b \in Int
  PROVE  /\ Within(s, a, b) \in Seq(Entry) /\ Sorted(Within(s, a, b))
         /\ ToSet(Within(s, a, b)) = {x \in ToSet(s) : a <= x.key /\ x.key <= b}
PROOF
<1> DEFINE n == Len(s)
           step == [i \in 1 .. n |-> [r \in Seq(Entry) |-> Pushed(r, s[i], a, b)]]
<1>1. n \in Nat /\ DOMAIN s = 1 .. n /\ (\A i \in 1 .. n : s[i] \in Entry)
      /\ <<>> \in Seq(Entry) /\ (\A x \in Entry : x.key \in Int)
  BY EntriesHaveKeys
<1>2. \A r \in Seq(Entry), i \in 1 .. n :
        /\ step[i][r] = Pushed(r, s[i], a, b)
        /\ Pushed(r, s[i], a, b) \in Seq(Entry)
  <2>1. \A r \in Seq(Entry), i \in 1 .. n : Pushed(r, s[i], a, b) \in Seq(Entry)
    BY <1>1, AppendProperties DEF Pushed
  <2> QED
    BY <2>1
<1> HIDE DEF n, step
<1>3. PICK R, start : R = Seq(Entry) /\ start = <<>>
  OBVIOUS
<1>4. PICK g \in [0 .. n -> R] : Grows(g, start, step, n)
  <2>1. start \in R /\ n \in Nat /\ StepIn(R, step, n)
    BY <1>1, <1>2, <1>3 DEF StepIn
  <2> QED
    BY <2>1, Accumulates
<1>5. g = [i \in 0 .. n |-> IF i = 0 THEN <<>> ELSE Pushed(g[i - 1], s[i], a, b)]
  <2>1. \A i \in 0 .. n : i # 0 => i - 1 \in 0 .. n /\ i \in 1 .. n
    BY <1>1
  <2>2. \A i \in 0 .. n : g[i] = IF i = 0 THEN <<>> ELSE Pushed(g[i - 1], s[i], a, b)
    BY <1>2, <1>3, <1>4, <2>1 DEF Grows
  <2>3. g = [i \in 0 .. n |-> g[i]]
    BY <1>4
  <2> QED
    BY <2>2, <2>3
<1> DEFINE f == CHOOSE h : h = [i \in 0 .. n |-> IF i = 0 THEN <<>> ELSE Pushed(h[i - 1], s[i], a, b)]
<1>6. /\ f = [i \in 0 .. n |-> IF i = 0 THEN <<>> ELSE Pushed(f[i - 1], s[i], a, b)]
      /\ Within(s, a, b) = f[n]
  <2>1. f = [i \in 0 .. n |-> IF i = 0 THEN <<>> ELSE Pushed(f[i - 1], s[i], a, b)]
    BY <1>5
  <2>2. Within(s, a, b) = f[n]
    BY DEF Within, n
  <2> QED
    BY <2>1, <2>2
<1> HIDE DEF f
<1>7. \A i \in 0 .. n : f[i] = IF i = 0 THEN <<>> ELSE Pushed(f[i - 1], s[i], a, b)
  BY <1>6
<1> DEFINE In(x) == a <= x.key /\ x.key <= b
           Good2(i) == /\ f[i] \in Seq(Entry) /\ Sorted(f[i])
                       /\ ToSet(f[i]) = {x \in {s[j] : j \in 1 .. i} : In(x)}
<1>8. Good2(0)
  <2>1. f[0] = <<>>
    BY <1>1, <1>7
  <2>2. DOMAIN <<>> = {}
    OBVIOUS
  <2>3. Sorted(<<>>) /\ ToSet(<<>>) = {}
    BY <2>2 DEF Sorted, ToSet
  <2>4. 1 .. 0 = {}
    OBVIOUS
  <2> QED
    BY <1>1, <2>1, <2>3, <2>4
<1>9. ASSUME NEW i \in 1 .. n, Good2(i - 1) PROVE Good2(i)
  <2>1. i \in 0 .. n /\ i # 0 /\ 1 .. i = (1 .. i - 1) \cup {i} /\ s[i] \in Entry
    BY <1>1
  <2>2. f[i] = Pushed(f[i - 1], s[i], a, b)
    BY <1>7, <2>1
  <2>3. {s[j] : j \in 1 .. i} = {s[j] : j \in 1 .. i - 1} \cup {s[i]}
    BY <2>1
  <2>4. CASE ~In(s[i])
    <3>1. f[i] = f[i - 1]
      BY <2>2, <2>4 DEF Pushed
    <3>2. {x \in {s[j] : j \in 1 .. i} : In(x)} = {x \in {s[j] : j \in 1 .. i - 1} : In(x)}
      BY <2>3, <2>4
    <3> QED
      BY <1>9, <3>1, <3>2
  <2>5. CASE In(s[i])
    <3>1. f[i] = Append(f[i - 1], s[i])
      BY <2>2, <2>5 DEF Pushed
    <3>2. PICK r, e : r = f[i - 1] /\ e = s[i]
      OBVIOUS
    <3>3. r \in Seq(Entry) /\ Sorted(r) /\ ToSet(r) = {x \in {s[j] : j \in 1 .. i - 1} : In(x)}
      BY <1>9, <3>2
    <3>4. \A x \in ToSet(r) : x.key < e.key
      <4>1. \A j \in 1 .. i - 1 : j \in 1 .. n /\ j < i
        BY <1>1
      <4>2. \A j \in 1 .. i - 1 : s[j].key < s[i].key
        BY <1>1, <4>1 DEF Sorted
      <4> QED
        BY <3>2, <3>3, <4>2
    <3>5. <<e>> \in Seq(Entry) /\ Sorted(<<e>>) /\ ToSet(<<e>>) = {e}
      BY <2>1, <3>2, OneInOrder
    <3>6. r \o <<e>> \in Seq(Entry) /\ Sorted(r \o <<e>>) /\ ToSet(r \o <<e>>) = ToSet(r) \cup {e}
      <4>1. \A x \in ToSet(r), y \in ToSet(<<e>>) : x.key < y.key
        BY <3>4, <3>5
      <4>2. \A x \in Entry : x.key \in Int
        BY <1>1
      <4>3. PICK U, u : U = Entry /\ u = <<e>>
        OBVIOUS
      <4>4. /\ \A x \in U : x.key \in Int
            /\ r \in Seq(U) /\ u \in Seq(U) /\ Sorted(r) /\ Sorted(u)
            /\ \A x \in ToSet(r), y \in ToSet(u) : x.key < y.key
        BY <3>3, <3>5, <4>1, <4>2, <4>3
      <4>5. r \o u \in Seq(U) /\ Sorted(r \o u) /\ ToSet(r \o u) = ToSet(r) \cup ToSet(u)
        BY <4>4, JoinedInOrder
      <4> QED
        BY <3>5, <4>3, <4>5
    <3>7. f[i] = r \o <<e>>
      <4>1. f[i] = Append(r, e) /\ e \in Entry
        BY <2>1, <3>1, <3>2
      <4> QED
        BY <3>3, <4>1, AppendIsConcat
    <3>8. ToSet(r) \cup {e} = {x \in {s[j] : j \in 1 .. i} : In(x)}
      BY <2>3, <2>5, <3>2, <3>3
    <3> QED
      BY <3>6, <3>7, <3>8
  <2> QED
    BY <2>4, <2>5
<1> HIDE DEF Good2
<1>10. Good2(n)
  <2>1. SUFFICES ASSUME ~Good2(n) PROVE FALSE
    OBVIOUS
  <2>2. PICK T : T = {j \in 0 .. n : ~Good2(j)}
    OBVIOUS
  <2>3. T \subseteq Nat /\ n \in T
    BY <1>1, <2>1, <2>2
  <2>4. PICK j \in T : \A m \in T : j <= m
    BY <2>3, LeastNatural
  <2>5. j \in 0 .. n /\ ~Good2(j) /\ j # 0
    BY <1>8, <2>2, <2>4
  <2>6. j - 1 \in 0 .. n /\ ~(j <= j - 1) /\ j \in 1 .. n
    BY <1>1, <2>5
  <2>7. Good2(j - 1)
    BY <2>2, <2>4, <2>6
  <2> QED
    BY <1>9, <2>5, <2>6, <2>7
<1>11. ToSet(s) = {s[j] : j \in 1 .. n}
  BY <1>1 DEF ToSet
<1> QED
  BY <1>6, <1>10, <1>11 DEF Good2

-----------------------------------------------------------------------------
(***************************************************************************)
(* Entries in order, part by part, are in order when flattened.            *)
(***************************************************************************)
LEMMA FlattenIs ==
  ASSUME NEW parts, parts \in Seq(Seq(Entry)), Len(parts) # 0,
         \A i \in DOMAIN parts : Sorted(parts[i]),
         \A i, j \in DOMAIN parts : i < j =>
           \A x \in ToSet(parts[i]), y \in ToSet(parts[j]) : x.key < y.key
  PROVE  /\ FlattenSeq(parts) \in Seq(Entry) /\ Sorted(FlattenSeq(parts))
         /\ ToSet(FlattenSeq(parts)) = UNION {ToSet(parts[i]) : i \in DOMAIN parts}
PROOF
<1> DEFINE n == Len(parts)
           step == [i \in 1 .. n |-> [r \in Seq(Entry) |-> r \o parts[i]]]
<1>1. /\ n \in Nat /\ n # 0 /\ DOMAIN parts = 1 .. n
      /\ \A i \in 1 .. n : parts[i] \in Seq(Entry)
      /\ <<>> \in Seq(Entry) /\ (\A x \in Entry : x.key \in Int)
  BY EntriesHaveKeys
<1>2. \A r \in Seq(Entry), i \in 1 .. n :
        step[i][r] = r \o parts[i] /\ r \o parts[i] \in Seq(Entry)
  BY <1>1
<1> HIDE DEF n, step
<1>3. PICK R, start : R = Seq(Entry) /\ start = <<>>
  OBVIOUS
<1>4. PICK g \in [0 .. n -> R] : Grows(g, start, step, n)
  <2>1. start \in R /\ n \in Nat /\ StepIn(R, step, n)
    BY <1>1, <1>2, <1>3 DEF StepIn
  <2> QED
    BY <2>1, Accumulates
<1> DEFINE h == [i \in 1 .. n |-> g[i]]
<1>5. h = [i \in 1 .. n |-> IF i = 1 THEN parts[i] ELSE h[i - 1] \o parts[i]]
  <2>1. ASSUME NEW i \in 1 .. n
        PROVE  h[i] = IF i = 1 THEN parts[i] ELSE h[i - 1] \o parts[i]
    <3>1. i \in 0 .. n /\ i - 1 \in 0 .. n /\ i # 0 /\ (i # 1 => i - 1 \in 1 .. n)
      BY <1>1
    <3>2. g[i] = step[i][g[i - 1]] /\ g[i - 1] \in Seq(Entry)
      BY <1>3, <1>4, <3>1 DEF Grows
    <3>3. g[i] = g[i - 1] \o parts[i]
      BY <1>2, <3>2
    <3>4. CASE i = 1
      <4>1. 0 \in 0 .. n /\ 0 # 1 /\ i - 1 = 0
        BY <1>1, <3>4
      <4>2. g[i - 1] = <<>>
        BY <1>3, <1>4, <4>1 DEF Grows
      <4>3. g[i] = parts[i]
        BY <1>1, <3>3, <4>2, ConcatEmptySeq
      <4> QED
        BY <3>4, <4>3
    <3>5. CASE i # 1
      BY <3>1, <3>3, <3>5
    <3> QED
      BY <3>4, <3>5
  <2>2. h = [i \in 1 .. n |-> h[i]]
    OBVIOUS
  <2> HIDE DEF h
  <2> QED
    BY <2>1, <2>2
<1> HIDE DEF h
<1> DEFINE f == CHOOSE f : f = [i \in 1 .. n |-> IF i = 1 THEN parts[i] ELSE f[i - 1] \o parts[i]]
<1>6. /\ f = [i \in 1 .. n |-> IF i = 1 THEN parts[i] ELSE f[i - 1] \o parts[i]]
      /\ FlattenSeq(parts) = f[n]
  <2>1. f = [i \in 1 .. n |-> IF i = 1 THEN parts[i] ELSE f[i - 1] \o parts[i]]
    BY <1>5
  <2>2. FlattenSeq(parts) = f[n]
    BY <1>1 DEF FlattenSeq, n
  <2> QED
    BY <2>1, <2>2
<1> HIDE DEF f
<1>7. \A i \in 1 .. n : f[i] = IF i = 1 THEN parts[i] ELSE f[i - 1] \o parts[i]
  BY <1>6
<1> DEFINE Right(i) == /\ f[i] \in Seq(Entry) /\ Sorted(f[i])
                       /\ ToSet(f[i]) = UNION {ToSet(parts[j]) : j \in 1 .. i}
<1>8. Right(1)
  <2>1. 1 \in 1 .. n /\ 1 .. 1 = {1}
    BY <1>1
  <2>2. f[1] = parts[1] /\ Sorted(parts[1]) /\ parts[1] \in Seq(Entry)
    BY <1>1, <1>7, <2>1
  <2>3. UNION {ToSet(parts[j]) : j \in 1 .. 1} = ToSet(parts[1])
    BY <2>1
  <2> QED
    BY <2>2, <2>3
<1>9. ASSUME NEW i \in 1 .. n, i # 1, Right(i - 1) PROVE Right(i)
  <2>1. /\ i - 1 \in 1 .. n /\ 1 .. i = (1 .. i - 1) \cup {i}
        /\ \A j \in 1 .. i - 1 : j \in 1 .. n /\ j < i
    BY <1>1, <1>9
  <2>2. PICK U, r, s : U = Entry /\ r = f[i - 1] /\ s = parts[i]
    OBVIOUS
  <2>3. f[i] = r \o s
    BY <1>7, <1>9, <2>2
  <2>4. ToSet(r) = UNION {ToSet(parts[j]) : j \in 1 .. i - 1}
    BY <1>9, <2>2
  <2>5. \A x \in ToSet(r), y \in ToSet(s) : x.key < y.key
    BY <1>1, <2>1, <2>2, <2>4
  <2>6. /\ \A x \in U : x.key \in Int
        /\ r \in Seq(U) /\ s \in Seq(U) /\ Sorted(r) /\ Sorted(s)
    BY <1>1, <1>9, <2>2
  <2>7. r \o s \in Seq(U) /\ Sorted(r \o s) /\ ToSet(r \o s) = ToSet(r) \cup ToSet(s)
    BY <2>5, <2>6, JoinedInOrder
  <2>8. UNION {ToSet(parts[j]) : j \in 1 .. i} = ToSet(r) \cup ToSet(s)
    BY <2>1, <2>2, <2>4
  <2> QED
    BY <2>2, <2>3, <2>7, <2>8
<1> HIDE DEF Right
<1>10. Right(n)
  <2>1. SUFFICES ASSUME ~Right(n) PROVE FALSE
    OBVIOUS
  <2>2. PICK T : T = {j \in 1 .. n : ~Right(j)}
    OBVIOUS
  <2>3. T \subseteq Nat /\ n \in T
    BY <1>1, <2>1, <2>2
  <2>4. PICK j \in T : \A m \in T : j <= m
    BY <2>3, LeastNatural
  <2>5. j \in 1 .. n /\ ~Right(j) /\ j # 1
    BY <1>8, <2>2, <2>4
  <2>6. j - 1 \in 1 .. n /\ ~(j <= j - 1)
    BY <1>1, <2>5
  <2>7. Right(j - 1)
    BY <2>2, <2>4, <2>6
  <2> QED
    BY <1>9, <2>5, <2>7
<1> QED
  BY <1>1, <1>6, <1>10 DEF Right

-----------------------------------------------------------------------------
\* The entries of a leaf
LEMMA LeafItemsAre ==
  ASSUME TInv, NEW p \in Pages, nodes[p].leaf
  PROVE  \A x \in Items(p) : x \in Entry
PROOF
<1>1. nodes[p].entries \in Seq(Entry)
  BY TypesAre, NodesAre DEF TInv, LeafNode
<1> QED
  BY <1>1 DEF Items, ToSet

(***************************************************************************)
(* Without failures, keys grow along the chain.                            *)
(***************************************************************************)
LEMMA KeysGrowAlong ==
  ASSUME TInv, NEW live, NEW level, NEW low, NEW chain, Good(live, level, low, chain),
         failures = 0, NEW i \in DOMAIN chain, NEW j \in DOMAIN chain, i < j
  PROVE  \A x \in Items(chain[i]), y \in Items(chain[j]) : x.key < y.key
PROOF
<1>0. Shape(live, level, low) /\ Chains(chain) /\ Ordered(live, low, chain)
  BY DEF Good, Sound
<1>1. \A a \in DOMAIN chain : chain[a] \in Pages /\ nodes[chain[a]].leaf
  BY <1>0, ChainFitsIn
<1>2. live = Pages
  BY <1>0 DEF Shape, Reached
<1>3. /\ \A q \in Pages : low[q] \in Int \cup {None}
      /\ None \notin Int
  BY <1>0, BoundsAre
<1>4. ASSUME NEW x \in Items(chain[i]), NEW y \in Items(chain[j])
      PROVE  x.key < y.key
  <2>1. PICK p, q : p = chain[i] /\ q = chain[j]
    OBVIOUS
  <2>2. p \in Pages /\ nodes[p].leaf /\ q \in Pages /\ nodes[q].leaf
    BY <1>1, <2>1
  <2>3. x \in Entry /\ y \in Entry
    BY <1>4, <2>1, <2>2, LeafItemsAre
  <2>4. x.key \in Int /\ y.key \in Int
    BY <2>3, EntriesHaveKeys
  <2>5. BelowKey(x.key, low[q])
    BY <1>0, <1>2, <1>4, <2>1, <2>2 DEF Ordered, KeysIn
  <2>6. AtLeast(y.key, low[q])
    BY <1>0, <1>4, <2>1, <2>2 DEF Shape, Leaves
  <2> QED
    BY <1>3, <2>2, <2>4, <2>5, <2>6 DEF AtLeast, BelowKey
<1> QED
  BY <1>4

\* The entries that the loop of range_scan collects are those from its leaf on
LEMMA ChainedIs ==
  ASSUME TInv, NEW live, NEW level, NEW low, NEW chain, Good(live, level, low, chain),
         failures = 0, NEW a \in DOMAIN chain
  PROVE  /\ Chained(chain[a]) \in Seq(Entry) /\ Sorted(Chained(chain[a]))
         /\ ToSet(Chained(chain[a])) = UNION {Items(chain[i]) : i \in a .. Len(chain)}
PROOF
<1>0. Shape(live, level, low) /\ Chains(chain)
  BY DEF Good, Sound
<1>1. /\ DOMAIN chain = 1 .. Len(chain) /\ Len(chain) \in Nat
      /\ \A i \in DOMAIN chain : chain[i] \in Pages /\ nodes[chain[i]].leaf
  BY <1>0, ChainFitsIn DEF TInv, TypeOK
<1>2. PICK m, n : m = Len(chain) /\ n = Len(chain) - a + 1
  OBVIOUS
<1>3. m \in Nat /\ n \in Nat /\ n # 0 /\ a \in 1 .. m /\ n = m - a + 1 /\ DOMAIN chain = 1 .. m
  BY <1>1, <1>2
<1>4. PICK part : part = ChainFrom(chain[a])
  OBVIOUS
<1>5. /\ DOMAIN part = 1 .. n
      /\ \A i \in 1 .. n : part[i] = chain[a + i - 1]
  <2>1. part = SubSeq(chain, a, m)
    BY <1>0, <1>2, <1>4, ChainFromOn
  <2>2. chain \in Seq(Pages) /\ a \in 1 .. Len(chain) + 1 /\ m \in a - 1 .. Len(chain)
    BY <1>0, <1>1, <1>2 DEF Chains
  <2>3. /\ part \in Seq(Pages) /\ Len(part) = m - a + 1
        /\ \A i \in 1 .. m - a + 1 : part[i] = chain[a + i - 1]
    BY <2>1, <2>2, CutIs
  <2> QED
    BY <1>3, <2>3
<1> DEFINE parts == [i \in DOMAIN part |-> nodes[part[i]].entries]
<1>6. /\ \A i \in 1 .. n : parts[i] = nodes[chain[a + i - 1]].entries
      /\ \A i \in 1 .. n : a + i - 1 \in DOMAIN chain
  <2>1. \A i \in 1 .. n : a + i - 1 \in 1 .. m
    BY <1>3
  <2> QED
    BY <1>3, <1>5, <2>1
<1>7. \A i \in 1 .. n : parts[i] \in Seq(Entry) /\ Sorted(parts[i])
  <2>1. SUFFICES ASSUME NEW i \in 1 .. n
                 PROVE  parts[i] \in Seq(Entry) /\ Sorted(parts[i])
    OBVIOUS
  <2>2. PICK p : p = chain[a + i - 1]
    OBVIOUS
  <2>3. p \in Pages /\ nodes[p].leaf /\ parts[i] = nodes[p].entries
    BY <1>1, <1>6, <2>2
  <2>4. nodes[p].entries \in Seq(Entry)
    BY <2>3, TypesAre, NodesAre DEF TInv, LeafNode
  <2>5. Sorted(nodes[p].entries)
    BY <1>0, <2>3 DEF Shape, Bounded
  <2> QED
    BY <2>3, <2>4, <2>5
<1>8. parts \in Seq(Seq(Entry)) /\ Len(parts) = n /\ DOMAIN parts = 1 .. n
  <2>1. DOMAIN parts = 1 .. n
    BY <1>5
  <2>2. parts = [i \in 1 .. n |-> parts[i]]
    BY <2>1
  <2> HIDE DEF parts
  <2>3. parts \in [1 .. n -> Seq(Entry)]
    BY <1>7, <2>2
  <2> QED
    BY <1>3, <2>1, <2>3
<1>9. \A i \in 1 .. n : ToSet(parts[i]) = Items(chain[a + i - 1])
  BY <1>6 DEF Items
<1>10. \A i, j \in 1 .. n : i < j =>
         \A x \in ToSet(parts[i]), y \in ToSet(parts[j]) : x.key < y.key
  <2>1. SUFFICES ASSUME NEW i \in 1 .. n, NEW j \in 1 .. n, i < j
                 PROVE  \A x \in ToSet(parts[i]), y \in ToSet(parts[j]) : x.key < y.key
    OBVIOUS
  <2>2. PICK b, c : b = a + i - 1 /\ c = a + j - 1
    OBVIOUS
  <2>3. b \in DOMAIN chain /\ c \in DOMAIN chain /\ b < c
    BY <1>3, <1>6, <2>1, <2>2
  <2>4. \A x \in Items(chain[b]), y \in Items(chain[c]) : x.key < y.key
    BY <2>3, KeysGrowAlong
  <2> QED
    BY <1>9, <2>2, <2>4
<1>11. Chained(chain[a]) = FlattenSeq(parts)
  BY <1>4 DEF Chained
<1> HIDE DEF parts
<1>12. /\ FlattenSeq(parts) \in Seq(Entry) /\ Sorted(FlattenSeq(parts))
       /\ ToSet(FlattenSeq(parts)) = UNION {ToSet(parts[i]) : i \in 1 .. n}
  BY <1>3, <1>7, <1>8, <1>10, FlattenIs
<1>13. UNION {ToSet(parts[i]) : i \in 1 .. n} = UNION {Items(chain[i]) : i \in a .. m}
  <2>1. \A i \in 1 .. n : a + i - 1 \in a .. m
    BY <1>3
  <2>2. \A i \in a .. m : i - a + 1 \in 1 .. n /\ a + (i - a + 1) - 1 = i
    BY <1>3
  <2>3. ASSUME NEW x \in UNION {ToSet(parts[i]) : i \in 1 .. n}
        PROVE  x \in UNION {Items(chain[i]) : i \in a .. m}
    BY <1>9, <2>1
  <2>4. ASSUME NEW x \in UNION {Items(chain[i]) : i \in a .. m}
        PROVE  x \in UNION {ToSet(parts[i]) : i \in 1 .. n}
    <3>1. PICK i \in a .. m : x \in Items(chain[i])
      BY <2>4
    <3>2. PICK j : j = i - a + 1
      OBVIOUS
    <3>3. j \in 1 .. n /\ a + j - 1 = i
      BY <2>2, <3>2
    <3> QED
      BY <1>9, <3>1, <3>3
  <2> QED
    BY <2>3, <2>4
<1> QED
  BY <1>2, <1>11, <1>12, <1>13

-----------------------------------------------------------------------------
(***************************************************************************)
(* Without failures, an entry in the chain is the first for its key.       *)
(***************************************************************************)
LEMMA OneEntryForKey ==
  ASSUME TInv, NEW live, NEW level, NEW low, NEW chain, Good(live, level, low, chain),
         failures = 0, NEW i \in DOMAIN chain, NEW x \in Items(chain[i])
  PROVE  x \in Entry /\ FirstIs(chain, x.key, x.val)
PROOF
<1>0. Shape(live, level, low) /\ Chains(chain)
  BY DEF Good, Sound
<1>1. /\ DOMAIN chain = 1 .. Len(chain) /\ Len(chain) \in Nat
      /\ \A j \in DOMAIN chain : chain[j] \in Pages /\ nodes[chain[j]].leaf
  BY <1>0, ChainFitsIn DEF TInv, TypeOK
<1>2. x \in Entry
  BY <1>1, LeafItemsAre
<1>3. ASSUME NEW j \in 1 .. i - 1
      PROVE  x.key \notin KeysIn(chain[j])
  <2>1. j \in DOMAIN chain /\ j < i
    BY <1>1
  <2>2. \A y \in Items(chain[j]) : y.key < x.key
    BY <2>1, KeysGrowAlong
  <2>3. \A y \in Items(chain[j]) : y.key # x.key
    <3>1. SUFFICES ASSUME NEW y \in Items(chain[j]) PROVE y.key # x.key
      OBVIOUS
    <3>2. y \in Entry
      BY <1>1, <2>1, LeafItemsAre
    <3>3. y.key \in Int /\ x.key \in Int
      BY <1>2, <3>2, EntriesHaveKeys
    <3> QED
      BY <2>2, <3>3
  <2> QED
    BY <2>3 DEF KeysIn
<1> QED
  BY <1>2, <1>3 DEF FirstIs

(***************************************************************************)
(* As long as no insert has failed, a range scan returns the keys of the   *)
(* range, each once, in order, and with the values that searches find.     *)
(***************************************************************************)
THEOREM ScanAlwaysMatchesSearch == Spec => []ScanMatchesSearch
PROOF
<1>1. ASSUME TreeInv, pc = "idle", failures = 0, NEW a \in Keys, NEW b \in Keys,
             NEW there, there = {e \in {[key |-> k, val |-> Search(k)] : k \in Keys} : e.val # None},
             NEW found, found = Within(Chained(FindLeaf(a)), a, b)
      PROVE  /\ \A i \in 1 .. Len(found) - 1 : found[i].key < found[i + 1].key
             /\ Range(found) = {e \in there : a <= e.key /\ e.key <= b}
  <2>1. PICK live, level, low, chain : Good(live, level, low, chain)
    BY <1>1 DEF TreeInv, Good
  <2>2. TInv /\ Pending = {} /\ a \in Int /\ b \in Int
    BY <1>1, NoneUnderWay, BTreeAssumption DEF TreeInv
  <2>3. Shape(live, level, low) /\ Chains(chain) /\ Ordered(live, low, chain)
    BY <2>1 DEF Good, Sound
  <2>4. /\ DOMAIN chain = 1 .. Len(chain) /\ Len(chain) \in Nat
        /\ \A j \in DOMAIN chain : chain[j] \in Pages /\ nodes[chain[j]].leaf
    BY <2>2, <2>3, ChainFitsIn DEF TInv, TypeOK
  <2>5. PICK p : p = FindLeaf(a)
    OBVIOUS
  <2>6. p \in live /\ p \in Pages /\ nodes[p].leaf /\ Covers(live, level, low, p, a)
    BY <2>2, <2>3, <2>5, FindLeafFinds, BoundsAre
  <2>7. PICK m \in DOMAIN chain : chain[m] = p
    BY <2>3, <2>6 DEF Chains, ToSet
  <2>8. PICK s : s = Chained(p)
    OBVIOUS
  <2>9. /\ s \in Seq(Entry) /\ Sorted(s)
        /\ ToSet(s) = UNION {Items(chain[i]) : i \in m .. Len(chain)}
    BY <1>1, <2>1, <2>2, <2>7, <2>8, ChainedIs
  <2>10. /\ found \in Seq(Entry) /\ Sorted(found)
         /\ ToSet(found) = {x \in ToSet(s) : a <= x.key /\ x.key <= b}
    BY <1>1, <2>2, <2>5, <2>8, <2>9, WithinIs
  <2>11. \A i \in 1 .. Len(found) - 1 : found[i].key < found[i + 1].key
    <3>1. SUFFICES ASSUME NEW i \in 1 .. Len(found) - 1
                   PROVE  found[i].key < found[i + 1].key
      OBVIOUS
    <3>2. i \in DOMAIN found /\ i + 1 \in DOMAIN found /\ i < i + 1
      BY <2>10
    <3> QED
      BY <2>10, <3>2 DEF Sorted
  <2>12. Range(found) = ToSet(found)
    BY <2>10 DEF Range, ToSet
  <2>13. \A k \in Keys : FirstIs(chain, k, Search(k))
    <3>1. ~(failures > 0)
      BY <1>1
    <3> QED
      BY <2>1, <2>2, <3>1, SearchIs
  <2>14. ASSUME NEW x \in ToSet(found)
         PROVE  x \in there /\ a <= x.key /\ x.key <= b
    <3>1. x \in ToSet(s) /\ a <= x.key /\ x.key <= b
      BY <2>10, <2>14
    <3>2. PICK i \in m .. Len(chain) : x \in Items(chain[i])
      BY <2>9, <3>1
    <3>3. i \in DOMAIN chain
      BY <2>4
    <3>4. x \in Entry /\ FirstIs(chain, x.key, x.val)
      BY <1>1, <2>1, <2>2, <3>2, <3>3, OneEntryForKey
    <3>5. x.key \in Keys /\ x.val \in Values /\ x = [key |-> x.key, val |-> x.val]
      BY <3>4 DEF Entry
    <3>6. Search(x.key) = x.val
      BY <2>2, <2>3, <2>13, <3>4, <3>5, FirstIsOne
    <3>7. x.val # None
      BY <3>5, BTreeAssumption
    <3>8. x = [key |-> x.key, val |-> Search(x.key)]
      BY <3>5, <3>6
    <3> QED
      BY <1>1, <3>1, <3>5, <3>7, <3>8
  <2>15. ASSUME NEW e \in there, a <= e.key, e.key <= b
         PROVE  e \in ToSet(found)
    <3>1. PICK k \in Keys : e = [key |-> k, val |-> Search(k)]
      BY <1>1, <2>15
    <3>2. e.key = k /\ e.val = Search(k) /\ Search(k) # None /\ k \in Int
      BY <1>1, <2>15, <3>1, BTreeAssumption
    <3>3. FirstIs(chain, k, Search(k))
      BY <2>13
    <3>4. PICK i \in DOMAIN chain : \E x \in Items(chain[i]) : x.key = k /\ x.val = Search(k)
      BY <3>2, <3>3 DEF FirstIs
    <3>5. PICK x \in Items(chain[i]) : x.key = k /\ x.val = Search(k)
      BY <3>4
    <3>6. x \in Entry
      BY <2>2, <2>4, <3>5, LeafItemsAre
    <3>7. x = e
      <4>1. x = [key |-> x.key, val |-> x.val]
        BY <3>6 DEF Entry
      <4> QED
        BY <3>1, <3>5, <4>1
    <3>8. ~(i < m)
      <4>1. SUFFICES ASSUME i < m PROVE FALSE
        OBVIOUS
      <4>2. BelowKey(k, low[p])
        BY <2>3, <2>6, <2>7, <3>5, <4>1 DEF Ordered, KeysIn
      <4>3. AtLeast(a, low[p])
        BY <2>6 DEF Covers
      <4>4. low[p] \in Int \cup {None} /\ None \notin Int
        BY <2>2, <2>3, <2>6, BoundsAre
      <4> QED
        BY <2>2, <2>15, <3>2, <4>2, <4>3, <4>4 DEF AtLeast, BelowKey
    <3>9. i \in m .. Len(chain)
      BY <2>4, <3>8
    <3> QED
      BY <2>9, <2>10, <2>15, <3>5, <3>7, <3>9
  <2> QED
    BY <2>11, <2>12, <2>14, <2>15
<1>2. ASSUME TreeInv
      PROVE  ScanMatchesSearch
  <2> DEFINE there == {e \in {[key |-> k, val |-> Search(k)] : k \in Keys} : e.val # None}
             found(a, b) == Within(Chained(FindLeaf(a)), a, b)
             Agrees(a, b) ==
               /\ \A i \in 1 .. Len(found(a, b)) - 1 : found(a, b)[i].key < found(a, b)[i + 1].key
               /\ Range(found(a, b)) = {e \in there : a <= e.key /\ e.key <= b}
  <2>1. ASSUME pc = "idle", failures = 0, NEW a \in Keys, NEW b \in Keys
        PROVE  Agrees(a, b)
    <3>1. PICK t, f : t = there /\ f = found(a, b)
      OBVIOUS
    <3>2. /\ \A i \in 1 .. Len(f) - 1 : f[i].key < f[i + 1].key
          /\ Range(f) = {e \in t : a <= e.key /\ e.key <= b}
      BY <1>1, <1>2, <2>1, <3>1
    <3> QED
      BY <3>1, <3>2
  <2>2. ASSUME pc = "idle", failures = 0
        PROVE  \A a \in Keys : \A b \in Keys : Agrees(a, b)
    <3> HIDE DEF Agrees
    <3> QED
      BY <2>1, <2>2
  <2>3. (pc = "idle" /\ failures = 0 => \A a \in Keys : \A b \in Keys : Agrees(a, b))
        => ScanMatchesSearch
    BY DEF ScanMatchesSearch
  <2> QED
    BY <2>2, <2>3
<1> QED
  BY <1>2, TreeHolds, PTL
==============================================================================
