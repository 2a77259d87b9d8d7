---------------------------- MODULE LruListProofs ----------------------------
(***************************************************************************)
(* The linked list of LruList is sound for every set of frames.            *)
(*                                                                         *)
(* LinksMirrored alone is not inductive: nothing in it excludes a cycle of *)
(* frames beside the frames reached from the head, and removing the last   *)
(* of those would leave an empty list with frames in its map.  What is     *)
(* inductive is that the list is some recency order, written as links.     *)
(***************************************************************************)
EXTENDS LruList, RecencyProofs, FiniteSetTheorems, WellFoundedInduction

\* l is the order s: the head is its first frame, the tail its last one, and
\* the links of a frame lead to its neighbours in s
Represents(l, s) ==
  /\ s \in Seq(Frames) /\ IsInjective(s)
  /\ l \in [entries : [ToSet(s) -> Node], head : MaybeFrame, tail : MaybeFrame]
  /\ l.head = IF s = <<>> THEN NoFrame ELSE s[1]
  /\ l.tail = IF s = <<>> THEN NoFrame ELSE s[Len(s)]
  /\ \A i \in 1 .. Len(s) :
       /\ l.entries[s[i]].prev = IF i = 1 THEN NoFrame ELSE s[i - 1]
       /\ l.entries[s[i]].next = IF i = Len(s) THEN NoFrame ELSE s[i + 1]

IsOrder == \E s \in Seq(Frames) : Represents(list, s)

IInv == IsOrder /\ evicted \in MaybeFrame

-----------------------------------------------------------------------------
\* LruList::new is the empty order
LEMMA EmptyRepresents == Represents(Empty, <<>>)
PROOF
<1>1. <<>> \in Seq(Frames) /\ Len(<<>>) = 0 /\ DOMAIN <<>> = {}
  BY EmptySeq, LenProperties
<1>2. ToSet(<<>>) = {} /\ IsInjective(<<>>)
  BY <1>1 DEF ToSet, IsInjective
<1>3. Empty.entries \in [{} -> Node]
  BY DEF Empty
<1> QED
  BY <1>1, <1>2, <1>3 DEF Represents, Empty, MaybeFrame

\* push_front puts a frame that is not in the list before all others
LEMMA PushRepresents ==
  ASSUME NEW l, NEW s, Represents(l, s), NEW f \in Frames, f \notin ToSet(s)
  PROVE  Represents(PushedFront(l, f), <<f>> \o s)
PROOF
<1> DEFINE u == <<f>> \o s
           m == PushedFront(l, f)
<1>1. s \in Seq(Frames) /\ IsInjective(s)
  BY DEF Represents
<1>2. /\ Len(s) \in Nat /\ DOMAIN s = 1 .. Len(s) /\ s \in [1 .. Len(s) -> Frames]
      /\ s = <<>> <=> Len(s) = 0
  BY <1>1, LenProperties, EmptySeq
<1>3. u \in Seq(Frames) /\ ToSet(u) = ToSet(s) \cup {f} /\ IsInjective(u)
  <2> DEFINE a == <<f>>
  <2>1. a \in Seq(Frames) /\ ToSet(a) = {f} /\ IsInjective(a)
    BY SingleFrame
  <2> HIDE DEF a
  <2>2. /\ a \o s \in Seq(Frames) /\ ToSet(a \o s) = ToSet(a) \cup ToSet(s)
        /\ IsInjective(a) /\ IsInjective(s) /\ ToSet(a) \cap ToSet(s) = {}
             => IsInjective(a \o s)
    BY <2>1, <1>1, ConcatFrames
  <2> QED
    BY <2>1, <2>2, <1>1 DEF a
<1>4. /\ Len(u) = Len(s) + 1 /\ u[1] = f
      /\ \A i \in 2 .. Len(s) + 1 : u[i] = s[i - 1]
  <2>1. <<f>> \in Seq(Frames) /\ Len(<<f>>) = 1 /\ <<f>>[1] = f
    OBVIOUS
  <2> QED
    BY <2>1, <1>1, <1>2, ConcatProperties
<1>5. u # <<>>
  BY <1>3, <1>4, <1>2, EmptySeq
<1> HIDE DEF u
<1>6. \A g \in ToSet(s) : g # f
  OBVIOUS
<1>7. \A i \in 1 .. Len(s) : s[i] \in ToSet(s) /\ (s[i] = l.head <=> i = 1)
  <2> SUFFICES ASSUME NEW i \in 1 .. Len(s)
               PROVE  s[i] \in ToSet(s) /\ (s[i] = l.head <=> i = 1)
    OBVIOUS
  <2>1. s[i] \in ToSet(s)
    BY <1>2 DEF ToSet
  <2>2. l.head = s[1] /\ 1 \in 1 .. Len(s)
    BY <1>2 DEF Represents
  <2>3. s[i] = s[1] => i = 1
    BY <2>2, <1>1, <1>2 DEF IsInjective
  <2> QED
    BY <2>1, <2>2, <2>3
<1>8. DOMAIN l.entries = ToSet(s)
  BY DEF Represents
<1>9. /\ m.head = f
      /\ m.tail = IF s = <<>> THEN f ELSE s[Len(s)]
  <2>1. s # <<>> => s[Len(s)] \in Frames
    BY <1>2
  <2> QED
    BY <2>1, NoFrameAssumption DEF Represents, PushedFront
<1>10. m.entries \in [ToSet(u) -> Node]
  <2>1. l.head \in MaybeFrame /\ \A g \in ToSet(s) : l.entries[g] \in Node
    BY DEF Represents
  <2>2. m.entries = [g \in ToSet(s) \cup {f} |->
                       IF g = f THEN [prev |-> NoFrame, next |-> l.head]
                       ELSE IF g = l.head THEN [l.entries[g] EXCEPT !.prev = f]
                       ELSE l.entries[g]]
    BY <1>8 DEF PushedFront
  <2> HIDE DEF m
  <2> QED
    BY <1>3, <2>1, <2>2 DEF Node, MaybeFrame
<1>11. m \in [entries : [ToSet(u) -> Node], head : MaybeFrame, tail : MaybeFrame]
  <2>1. m = [entries |-> m.entries, head |-> m.head, tail |-> m.tail]
    BY DEF PushedFront
  <2>2. m.head \in MaybeFrame /\ m.tail \in MaybeFrame
    BY <1>9, <1>2 DEF MaybeFrame
  <2> HIDE DEF m
  <2> QED
    BY <2>1, <2>2, <1>10
<1>12. ASSUME NEW i \in 1 .. Len(u)
       PROVE  /\ m.entries[u[i]].prev = IF i = 1 THEN NoFrame ELSE u[i - 1]
              /\ m.entries[u[i]].next = IF i = Len(u) THEN NoFrame ELSE u[i + 1]
  <2>1. CASE i = 1
    <3>1. m.entries[f] = [prev |-> NoFrame, next |-> l.head]
      BY <1>8 DEF PushedFront
    <3>2. l.head = IF 1 = Len(u) THEN NoFrame ELSE u[2]
      <4>1. CASE s = <<>>
        BY <4>1, <1>2, <1>4 DEF Represents
      <4>2. CASE s # <<>>
        <5>1. 2 \in 2 .. Len(s) + 1 /\ Len(u) # 1
          BY <4>2, <1>2, <1>4
        <5>2. u[2] = s[1]
          BY <5>1, <1>4
        <5> QED
          BY <4>2, <5>1, <5>2 DEF Represents
      <4> QED
        BY <4>1, <4>2
    <3> HIDE DEF m
    <3> QED
      BY <2>1, <3>1, <3>2, <1>4
  <2>2. CASE i # 1
    <3> DEFINE j == i - 1
    <3>1. j \in 1 .. Len(s) /\ i = j + 1 /\ u[i] = s[j]
      BY <2>2, <1>2, <1>4
    <3>2. u[i - 1] = IF j = 1 THEN f ELSE s[j - 1]
      BY <3>1, <1>2, <1>4
    <3>3. i # Len(u) => u[i + 1] = s[j + 1]
      BY <3>1, <1>2, <1>4
    <3>3a. i = Len(u) <=> j = Len(s)
      BY <3>1, <1>2, <1>4
    <3> HIDE DEF j
    <3>4. /\ l.entries[s[j]].prev = IF j = 1 THEN NoFrame ELSE s[j - 1]
          /\ l.entries[s[j]].next = IF j = Len(s) THEN NoFrame ELSE s[j + 1]
          /\ l.entries[s[j]] \in Node
      BY <3>1, <1>7 DEF Represents
    <3>5. m.entries[s[j]] = IF s[j] = l.head THEN [l.entries[s[j]] EXCEPT !.prev = f]
                            ELSE l.entries[s[j]]
      BY <3>1, <1>6, <1>7, <1>8 DEF PushedFront
    <3> HIDE DEF m
    <3>6. CASE j = 1
      BY <3>6, <3>1, <3>2, <3>3, <3>3a, <3>4, <3>5, <1>7, <2>2 DEF Node
    <3>7. CASE j # 1
      BY <3>7, <3>1, <3>2, <3>3, <3>3a, <3>4, <3>5, <1>7, <2>2 DEF Node
    <3> QED
      BY <3>6, <3>7
  <2> QED
    BY <2>1, <2>2
<1>13. m.tail = u[Len(u)]
  BY <1>2, <1>4, <1>9
<1> HIDE DEF m
<1> QED
  BY <1>3, <1>4, <1>5, <1>9, <1>11, <1>12, <1>13 DEF Represents, u, m

\* remove takes a frame out of the order and leaves the order of the others
LEMMA UnlinkRepresents ==
  ASSUME NEW l, NEW s, Represents(l, s), NEW f \in ToSet(s)
  PROVE  Represents(Unlinked(l, f), Forgotten(s, f))
PROOF
<1> DEFINE m == Unlinked(l, f)
           k == CHOOSE i \in DOMAIN s : s[i] = f
           r == RemoveAt(s, k)
           n == Len(s)
<1>1. s \in Seq(Frames) /\ IsInjective(s)
  BY DEF Represents
<1>2. /\ n \in Nat /\ DOMAIN s = 1 .. n /\ s \in [1 .. n -> Frames]
      /\ s # <<>>
  BY <1>1, LenProperties, EmptySeq DEF ToSet
<1>3. k \in 1 .. n /\ s[k] = f
  BY <1>2 DEF ToSet
<1>4. Forgotten(s, f) = r
  BY DEF Forgotten
<1> HIDE DEF k
<1>5. /\ r \in Seq(Frames) /\ Len(r) = n - 1
      /\ \A j \in 1 .. n - 1 : r[j] = IF j < k THEN s[j] ELSE s[j + 1]
  BY <1>1, <1>3, WithoutPosition
<1>5a. n \in Int /\ k \in Int /\ 1 <= k /\ k <= n
  BY <1>2, <1>3
<1>6. DOMAIN r = 1 .. n - 1 /\ (r = <<>> <=> n = 1)
  BY <1>2, <1>5, LenProperties, EmptySeq
<1>7. IsInjective(r) /\ ToSet(r) \subseteq ToSet(s) /\ f \notin ToSet(r)
  BY <1>1, <1>4, ForgottenFrames
<1> HIDE DEF r
<1>8. ToSet(r) = ToSet(s) \ {f}
  <2> SUFFICES ASSUME NEW g \in ToSet(s), g # f
               PROVE  g \in ToSet(r)
    BY <1>7
  <2>1. PICK i \in 1 .. n : g = s[i]
    BY <1>2 DEF ToSet
  <2>2. i # k
    BY <2>1, <1>3
  <2>3. CASE i < k
    BY <2>1, <2>3, <1>2, <1>3, <1>5, <1>6 DEF ToSet
  <2>4. CASE i > k
    <3>1. i - 1 \in 1 .. n - 1 /\ ~(i - 1 < k) /\ (i - 1) + 1 = i
      BY <2>4, <1>2, <1>3
    <3>2. r[i - 1] = s[i]
      BY <3>1, <1>5
    <3> QED
      BY <2>1, <3>1, <3>2, <1>6 DEF ToSet
  <2> QED
    BY <2>2, <2>3, <2>4, <1>2, <1>3
\* the links of the list, read in s
<1>9. /\ DOMAIN l.entries = ToSet(s)
      /\ l.head = s[1] /\ l.tail = s[n]
      /\ \A i \in 1 .. n :
           /\ l.entries[s[i]] \in Node
           /\ l.entries[s[i]].prev = IF i = 1 THEN NoFrame ELSE s[i - 1]
           /\ l.entries[s[i]].next = IF i = n THEN NoFrame ELSE s[i + 1]
  <2>1. \A i \in 1 .. n : s[i] \in ToSet(s)
    BY <1>2 DEF ToSet
  <2> QED
    BY <2>1, <1>2 DEF Represents
<1>10. \A i, j \in 1 .. n : s[i] = s[j] => i = j
  BY <1>1, <1>2 DEF IsInjective
<1>11. \A i \in 1 .. n : s[i] \in Frames /\ s[i] # NoFrame
  BY <1>2, NoFrameAssumption
<1> DEFINE node == l.entries[f]
<1>12. /\ node.prev = IF k = 1 THEN NoFrame ELSE s[k - 1]
       /\ node.next = IF k = n THEN NoFrame ELSE s[k + 1]
       /\ node \in Node
  BY <1>3, <1>9
<1>13. m = [entries |-> [g \in ToSet(s) \ {f} |->
              [prev |-> IF g = node.next THEN node.prev ELSE l.entries[g].prev,
               next |-> IF g = node.prev THEN node.next ELSE l.entries[g].next]],
            head |-> IF node.prev = NoFrame THEN node.next ELSE l.head,
            tail |-> IF node.next = NoFrame THEN node.prev ELSE l.tail]
  BY <1>9 DEF Unlinked
<1> HIDE DEF m, node
<1>14. m.head = IF r = <<>> THEN NoFrame ELSE r[1]
  <2>1. m.head = IF k = 1 THEN (IF n = 1 THEN NoFrame ELSE s[2]) ELSE s[1]
    <3>1. k # 1 => node.prev # NoFrame
      BY <1>12, <1>11, <1>3, <1>2
    <3>2. k = 1 => node.next = IF n = 1 THEN NoFrame ELSE s[2]
      BY <1>12
    <3>3. k = 1 => node.prev = NoFrame
      BY <1>12
    <3>4. m.head = IF node.prev = NoFrame THEN node.next ELSE l.head
      BY <1>13
    <3> QED
      BY <3>1, <3>2, <3>3, <3>4, <1>9
  <2>2. n # 1 => r[1] = IF k = 1 THEN s[2] ELSE s[1]
    BY <1>2, <1>3, <1>5
  <2> QED
    BY <2>1, <2>2, <1>6, <1>3
<1>15. m.tail = IF r = <<>> THEN NoFrame ELSE r[Len(r)]
  <2>1. m.tail = IF k = n THEN (IF n = 1 THEN NoFrame ELSE s[n - 1]) ELSE s[n]
    <3>1. k # n => node.next # NoFrame
      BY <1>12, <1>11, <1>3, <1>2
    <3> QED
      BY <3>1, <1>2, <1>3, <1>9, <1>12, <1>13
  <2>2. n # 1 => r[n - 1] = IF k = n THEN s[n - 1] ELSE s[n]
    <3>1. /\ n # 1 => n - 1 \in 1 .. n - 1
          /\ n - 1 < k <=> k = n
          /\ (n - 1) + 1 = n
      BY <1>5a
    <3>2. n # 1 => r[n - 1] = IF n - 1 < k THEN s[n - 1] ELSE s[(n - 1) + 1]
      BY <3>1, <1>5
    <3> QED
      BY <3>1, <3>2
  <2> QED
    BY <2>1, <2>2, <1>5, <1>6, <1>3
<1>16. ASSUME NEW j \in 1 .. Len(r)
       PROVE  /\ m.entries[r[j]].prev = IF j = 1 THEN NoFrame ELSE r[j - 1]
              /\ m.entries[r[j]].next = IF j = Len(r) THEN NoFrame ELSE r[j + 1]
  <2> DEFINE i == IF j < k THEN j ELSE j + 1
  <2>1. i \in 1 .. n /\ i # k /\ r[j] = s[i] /\ j \in 1 .. n - 1
    BY <1>2, <1>3, <1>5
  <2>0. j \in Int /\ 1 <= j /\ j <= n - 1 /\ Len(r) = n - 1
    BY <2>1, <1>5, <1>5a
  <2>2. s[i] \in ToSet(s) \ {f}
    BY <2>1, <1>2, <1>3, <1>10 DEF ToSet
  <2>3. /\ m.entries[s[i]].prev = IF s[i] = node.next THEN node.prev
                                  ELSE l.entries[s[i]].prev
        /\ m.entries[s[i]].next = IF s[i] = node.prev THEN node.next
                                  ELSE l.entries[s[i]].next
    BY <2>2, <1>13
  <2>4. s[i] = node.next <=> i = k + 1
    BY <2>1, <1>2, <1>3, <1>10, <1>11, <1>12
  <2>5. s[i] = node.prev <=> i = k - 1
    BY <2>1, <1>2, <1>3, <1>10, <1>11, <1>12
  <2>6. /\ l.entries[s[i]].prev = IF i = 1 THEN NoFrame ELSE s[i - 1]
        /\ l.entries[s[i]].next = IF i = n THEN NoFrame ELSE s[i + 1]
    BY <2>1, <1>9
  <2>7. m.entries[s[i]].prev = IF j = 1 THEN NoFrame ELSE r[j - 1]
    <3>1. CASE j < k
      <4>1. i = j /\ i # k + 1 /\ (j # 1 => r[j - 1] = s[j - 1])
        BY <3>1, <2>1, <1>2, <1>3, <1>5
      <4> QED
        BY <4>1, <2>3, <2>4, <2>6
    <3>2. CASE j = k
      <4>1. i = k + 1 /\ (j # 1 => r[j - 1] = s[k - 1])
        BY <3>2, <2>1, <1>2, <1>3, <1>5
      <4> QED
        BY <4>1, <3>2, <2>3, <2>4, <1>12
    <3>3. CASE j > k
      <4>1. i = j + 1 /\ i # k + 1 /\ j # 1 /\ i # 1 /\ r[j - 1] = s[i - 1]
        <5>1. i = j + 1 /\ i # k + 1 /\ j # 1 /\ i # 1
          BY <3>3, <2>1, <1>2, <1>3
        <5>2. j - 1 \in 1 .. n - 1 /\ ~(j - 1 < k) /\ (j - 1) + 1 = i - 1
          BY <3>3, <5>1, <2>1, <1>2, <1>3
        <5>3. r[j - 1] = s[(j - 1) + 1]
          BY <5>2, <1>5
        <5> QED
          BY <5>1, <5>2, <5>3
      <4> QED
        BY <4>1, <2>3, <2>4, <2>6
    <3> QED
      BY <3>1, <3>2, <3>3, <2>1, <1>2, <1>3
  <2>8. m.entries[s[i]].next = IF j = Len(r) THEN NoFrame ELSE r[j + 1]
    <3>1. CASE j < k - 1
      <4>1. /\ i = j /\ i # k - 1 /\ i # n /\ j # Len(r)
            /\ r[j + 1] = s[j + 1]
        <5>1. i = j /\ i # k - 1 /\ i # n /\ j # Len(r)
          BY <3>1, <2>0, <1>5a
        <5>2. j + 1 \in 1 .. n - 1 /\ j + 1 < k
          BY <3>1, <2>0, <1>5a
        <5> QED
          BY <5>1, <5>2, <1>5
      <4> QED
        BY <4>1, <2>3, <2>5, <2>6
    <3>2. CASE j = k - 1
      <4>1. i = k - 1 /\ (j = Len(r) <=> k = n) /\ (k # n => r[j + 1] = s[k + 1])
        <5>1. i = k - 1 /\ (j = Len(r) <=> k = n) /\ j + 1 = k
          BY <3>2, <2>1, <1>2, <1>3, <1>5
        <5>2. k # n => k \in 1 .. n - 1 /\ ~(k < k)
          BY <1>5a
        <5>3. k # n => r[k] = s[k + 1]
          BY <5>2, <1>5
        <5> QED
          BY <5>1, <5>3
      <4> QED
        BY <4>1, <2>3, <2>5, <1>12
    <3>3. CASE j >= k
      <4>1. i = j + 1 /\ i # k - 1 /\ (j = Len(r) <=> i = n)
        BY <3>3, <2>0, <1>5a
      <4>2. j # Len(r) => r[j + 1] = s[i + 1]
        <5> SUFFICES ASSUME j # Len(r) PROVE r[j + 1] = s[i + 1]
          OBVIOUS
        <5>1. j + 1 \in 1 .. n - 1 /\ ~(j + 1 < k) /\ (j + 1) + 1 = i + 1
          BY <3>3, <4>1, <2>0, <1>5a
        <5> QED
          BY <5>1, <1>5
      <4> QED
        BY <4>1, <4>2, <2>3, <2>5, <2>6
    <3> QED
      BY <3>1, <3>2, <3>3, <2>1, <1>2, <1>3
  <2> QED
    BY <2>1, <2>7, <2>8
<1>17. m \in [entries : [ToSet(r) -> Node], head : MaybeFrame, tail : MaybeFrame]
  <2>1. m.entries \in [ToSet(r) -> Node]
    <3>1. \A g \in ToSet(s) : l.entries[g] \in Node
      BY DEF Represents
    <3> QED
      BY <3>1, <1>8, <1>12, <1>13 DEF Node
  <2>2. m.head \in MaybeFrame
    BY <1>2, <1>11, <1>12, <1>9, <1>13 DEF Node, MaybeFrame
  <2>3. m.tail \in MaybeFrame
    BY <1>2, <1>11, <1>12, <1>9, <1>13 DEF Node, MaybeFrame
  <2>4. m = [entries |-> m.entries, head |-> m.head, tail |-> m.tail]
    BY <1>13
  <2> QED
    BY <2>1, <2>2, <2>3, <2>4
<1> QED
  BY <1>4, <1>5, <1>7, <1>14, <1>15, <1>16, <1>17 DEF Represents, m

\* The last frame of an order is forgotten by taking it off the end
LEMMA ForgetLast ==
  ASSUME NEW F, NEW s \in Seq(F), s # <<>>, IsInjective(s)
  PROVE  Forgotten(s, Last(s)) = Front(s)
PROOF
<1> DEFINE n == Len(s)
           f == Last(s)
           k == CHOOSE i \in DOMAIN s : s[i] = f
<1>1. n \in Nat \ {0} /\ DOMAIN s = 1 .. n /\ s \in [1 .. n -> F]
  BY EmptySeq, LenProperties
<1>2. s[n] = f /\ f \in ToSet(s)
  BY <1>1 DEF Last, ToSet
<1>3. k = n
  <2>1. k \in DOMAIN s /\ s[k] = f
    BY <1>1, <1>2
  <2> QED
    BY <2>1, <1>1, <1>2 DEF IsInjective
<1>4. Forgotten(s, f) = RemoveAt(s, n)
  BY <1>2, <1>3 DEF Forgotten
<1>5. SubSeq(s, n + 1, n) = <<>>
  BY <1>1, SubSeqEmpty
<1>6. Front(s) \in Seq(F) /\ Front(s) \o <<>> = Front(s)
  BY FrontLast, ConcatEmptySeq
<1> QED
  BY <1>4, <1>5, <1>6 DEF RemoveAt, Front

\* remove, touch and evict, each as its operation on the order
LEMMA RemovedRepresents ==
  ASSUME NEW l, NEW s, Represents(l, s), NEW f
  PROVE  Represents(Removed(l, f), Forgotten(s, f))
PROOF
<1>1. DOMAIN l.entries = ToSet(s)
  BY DEF Represents
<1> QED
  BY <1>1, UnlinkRepresents DEF Removed, Forgotten

\* touch represents the order with the frame in front
LEMMA MovedRepresents ==
  ASSUME NEW l, NEW s, Represents(l, s), NEW f \in Frames
  PROVE  Represents(MovedToFront(l, f), Touched(s, f))
PROOF
<1>1. s \in Seq(Frames) /\ IsInjective(s)
  BY DEF Represents
<1>2. f \notin ToSet(Forgotten(s, f))
  BY <1>1, ForgottenFrames
<1>3. Represents(Removed(l, f), Forgotten(s, f))
  BY RemovedRepresents
<1> QED
  BY <1>2, <1>3, PushRepresents DEF MovedToFront, Touched

\* The tail of the list is the last frame of the order
LEMMA TailRepresents ==
  ASSUME NEW l, NEW s, Represents(l, s)
  PROVE  /\ l.tail = NoFrame <=> s = <<>>
         /\ s # <<>> => /\ l.tail = Last(s)
                        /\ Represents(Removed(l, l.tail), Front(s))
PROOF
<1>1. s \in Seq(Frames) /\ IsInjective(s)
  BY DEF Represents
<1>2. s # <<>> => l.tail = Last(s) /\ Last(s) \in Frames
  BY <1>1, FrontLast DEF Represents, Last
<1>3. s = <<>> => l.tail = NoFrame
  BY DEF Represents
<1> QED
  BY <1>1, <1>2, <1>3, NoFrameAssumption, RemovedRepresents, ForgetLast

-----------------------------------------------------------------------------
(***************************************************************************)
(* What one call does to the order and to its result: the steps of         *)
(* RecencyOrder, on the order s.                                           *)
(***************************************************************************)
OrderStep(s, u, result, newResult) ==
  \/ \E f \in Frames : u \in {Touched(s, f), Forgotten(s, f)} /\ newResult = result
  \/ s # <<>> /\ u = Front(s) /\ newResult = Last(s)
  \/ s = <<>> /\ u = s /\ newResult = NoFrame
  \/ u = s /\ newResult = result

(***************************************************************************)
(* The list implements the recency order of src/buffer/lru.rs whatever the *)
(* number of frames: each call of touch, evict or remove takes a list that *)
(* is the order s to one that is the order the abstract step leads to, and *)
(* evict returns the least recently used frame.                            *)
(***************************************************************************)
THEOREM StepsFollowTheOrder ==
  ASSUME NEW s, Represents(list, s), [Next]_vars
  PROVE  \E u : Represents(list', u) /\ OrderStep(s, u, evicted, evicted')
PROOF
<1>1. CASE \E f \in Frames : Touch(f)
  BY <1>1, MovedRepresents DEF Touch, OrderStep
<1>2. CASE \E f \in Frames : RemoveFrame(f)
  BY <1>2, RemovedRepresents DEF RemoveFrame, OrderStep
<1>3. CASE Evict
  <2>1. CASE s = <<>>
    BY <1>3, <2>1, TailRepresents DEF Evict, OrderStep
  <2>2. CASE s # <<>>
    BY <1>3, <2>2, TailRepresents DEF Evict, OrderStep
  <2> QED
    BY <2>1, <2>2
<1>4. CASE UNCHANGED vars
  BY <1>4 DEF vars, OrderStep
<1> QED
  BY <1>1, <1>2, <1>3, <1>4 DEF Next

\* An order written as links has all its links mirrored, and the type it should
LEMMA OrderIsMirrored ==
  ASSUME NEW s, Represents(list, s), evicted \in MaybeFrame
  PROVE  TypeOK /\ LinksMirrored
PROOF
<1> DEFINE n == Len(s)
<1>1. /\ s \in Seq(Frames) /\ n \in Nat /\ s \in [1 .. n -> Frames]
      /\ DOMAIN s = 1 .. n /\ (s = <<>> <=> n = 0)
  BY LenProperties, EmptySeq DEF Represents
<1>2. /\ DOMAIN list.entries = ToSet(s)
      /\ list \in [entries : [ToSet(s) -> Node], head : MaybeFrame, tail : MaybeFrame]
  BY DEF Represents
<1>3. ToSet(s) \subseteq Frames /\ NoFrame \notin ToSet(s)
  BY <1>1, NoFrameAssumption DEF ToSet
<1>4. TypeOK
  BY <1>2, <1>3 DEF TypeOK
<1>5. \A i, j \in 1 .. n : s[i] = s[j] => i = j
  BY <1>1 DEF Represents, IsInjective
<1>6. \A i \in 1 .. n : s[i] \in ToSet(s) /\ s[i] # NoFrame
  BY <1>1, <1>3 DEF ToSet
<1>7. \A i \in 1 .. n :
        /\ list.entries[s[i]].prev = IF i = 1 THEN NoFrame ELSE s[i - 1]
        /\ list.entries[s[i]].next = IF i = n THEN NoFrame ELSE s[i + 1]
  BY DEF Represents
<1>8. /\ list.head = IF n = 0 THEN NoFrame ELSE s[1]
      /\ list.tail = IF n = 0 THEN NoFrame ELSE s[n]
  BY <1>1 DEF Represents
<1>9. \A f \in ToSet(s) : \E i \in 1 .. n : f = s[i]
  BY <1>1 DEF ToSet
<1> HIDE DEF n
<1>10. n = 0 <=> ToSet(s) = {}
  <2>1. n # 0 => 1 \in 1 .. n
    BY <1>1
  <2> QED
    BY <2>1, <1>1, <1>6, <1>9
<1>11. /\ {list.head, list.tail} \subseteq ToSet(s) \cup {NoFrame}
       /\ (list.head = NoFrame) <=> (ToSet(s) = {})
       /\ (list.tail = NoFrame) <=> (ToSet(s) = {})
  <2>1. n # 0 => 1 \in 1 .. n /\ n \in 1 .. n
    BY <1>1
  <2> QED
    BY <2>1, <1>6, <1>8, <1>10
<1>12. ASSUME NEW f \in ToSet(s)
       PROVE  LET node(g) == list.entries[g] IN
              /\ {node(f).prev, node(f).next} \subseteq ToSet(s) \cup {NoFrame}
              /\ (node(f).prev = NoFrame) <=> (list.head = f)
              /\ (node(f).next = NoFrame) <=> (list.tail = f)
              /\ \A g \in ToSet(s) : (node(f).next = g) <=> (node(g).prev = f)
  <2>1. PICK i \in 1 .. n : f = s[i]
    BY <1>9
  <2>2. n # 0 /\ 1 \in 1 .. n /\ n \in 1 .. n
    BY <1>1
  <2>3. /\ i # 1 => i - 1 \in 1 .. n
        /\ i # n => i + 1 \in 1 .. n
    BY <1>1
  <2>4. {list.entries[f].prev, list.entries[f].next} \subseteq ToSet(s) \cup {NoFrame}
    BY <2>1, <2>3, <1>6, <1>7
  <2>5. (list.entries[f].prev = NoFrame) <=> (list.head = f)
    BY <2>1, <2>2, <2>3, <1>5, <1>6, <1>7, <1>8
  <2>6. (list.entries[f].next = NoFrame) <=> (list.tail = f)
    BY <2>1, <2>2, <2>3, <1>5, <1>6, <1>7, <1>8
  <2>7. ASSUME NEW g \in ToSet(s)
        PROVE  (list.entries[f].next = g) <=> (list.entries[g].prev = f)
    <3>1. PICK j \in 1 .. n : g = s[j]
      BY <1>9
    <3>2. list.entries[f].next = g <=> j = i + 1
      <4>1. list.entries[f].next = IF i = n THEN NoFrame ELSE s[i + 1]
        BY <2>1, <1>7
      <4>2. i = n => j # i + 1
        BY <1>1
      <4>3. i # n => (s[i + 1] = s[j] <=> i + 1 = j)
        BY <2>3, <1>5
      <4> QED
        BY <4>1, <4>2, <4>3, <3>1, <1>6
    <3>3. j # 1 => j - 1 \in 1 .. n
      BY <1>1
    <3>4. list.entries[g].prev = f <=> i = j - 1
      <4>1. list.entries[g].prev = IF j = 1 THEN NoFrame ELSE s[j - 1]
        BY <3>1, <1>7
      <4>2. j = 1 => i # j - 1
        BY <1>1
      <4>3. j # 1 => (s[j - 1] = s[i] <=> i = j - 1)
        BY <3>3, <1>5
      <4> QED
        BY <4>1, <4>2, <4>3, <2>1, <1>6
    <3> QED
      BY <3>2, <3>4, <1>1
  <2> QED
    BY <2>4, <2>5, <2>6, <2>7
<1>13. LinksMirrored
  BY <1>2, <1>11, <1>12 DEF LinksMirrored
<1> QED
  BY <1>4, <1>13

-----------------------------------------------------------------------------
(***************************************************************************)
(* The invariant: it holds at first, every step keeps it.                  *)
(***************************************************************************)
LEMMA IInvHolds == Spec => []IInv
PROOF
<1>1. Init => IInv
  <2>1. <<>> \in Seq(Frames)
    BY EmptySeq
  <2> QED
    BY <2>1, EmptyRepresents DEF Init, IInv, IsOrder, MaybeFrame
<1>2. IInv /\ [Next]_vars => IInv'
  <2> SUFFICES ASSUME IInv, [Next]_vars
               PROVE  IInv'
    OBVIOUS
  <2>1. PICK s \in Seq(Frames) : Represents(list, s)
    BY DEF IInv, IsOrder
  <2>2. PICK u : Represents(list', u) /\ OrderStep(s, u, evicted, evicted')
    BY <2>1, StepsFollowTheOrder
  <2>3. u \in Seq(Frames)
    BY <2>2 DEF Represents
  <2>4. s # <<>> => Last(s) \in Frames
    BY FrontLast
  <2>5. evicted' \in MaybeFrame
    BY <2>2, <2>4 DEF OrderStep, IInv, MaybeFrame
  <2>6. IsOrder'
    BY <2>2, <2>3 DEF IsOrder, Represents
  <2> QED
    BY <2>5, <2>6 DEF IInv
<1> QED
  BY <1>1, <1>2, PTL DEF Spec

(***************************************************************************)
(* The map and the links of the LRU list have the right types, for any set *)
(* of frames.                                                              *)
(***************************************************************************)
THEOREM TypeCorrect == Spec => []TypeOK
PROOF
<1>1. IInv => TypeOK
  BY OrderIsMirrored DEF IInv, IsOrder
<1> QED
  BY <1>1, IInvHolds, PTL

(***************************************************************************)
(* The unwrap() calls of src/buffer/lru.rs never meet a missing node, and  *)
(* every link is mirrored by its neighbour's, for any set of frames and    *)
(* any sequence of calls.                                                  *)
(***************************************************************************)
THEOREM LinksAlwaysMirrored == Spec => []LinksMirrored
PROOF
<1>1. IInv => LinksMirrored
  BY OrderIsMirrored DEF IInv, IsOrder
<1> QED
  BY <1>1, IInvHolds, PTL

-----------------------------------------------------------------------------
(***************************************************************************)
(* Following the links from the head reads the order off the list.  That   *)
(* the walk goes right is shown where it would first go wrong.             *)
(***************************************************************************)
LEMMA FirstOf ==
  ASSUME NEW T, T \subseteq Nat, T # {}
  PROVE  \E n \in T : \A m \in T : n <= m
PROOF
<1> DEFINE R == OpToRel(<, Nat)
<1>1. IsWellFoundedOn(R, Nat)
  BY NatLessThanWellFounded
<1>2. \A x, y \in Nat : <<y, x>> \in R <=> y < x
  BY DEF OpToRel
<1> HIDE DEF R
<1>3. PICK x \in T : \A y \in T : ~ (<<y, x>> \in R)
  BY <1>1, WFMin
<1>4. \A y \in T : ~(y < x)
  BY <1>2, <1>3
<1> QED
  BY <1>4

\* The map of a list has as many nodes as its order has frames
LEMMA NodesCounted ==
  ASSUME NEW l, NEW s, Represents(l, s)
  PROVE  /\ Cardinality(DOMAIN l.entries) = Len(s) /\ Len(s) \in Nat
         /\ s \in [1 .. Len(s) -> Frames] /\ (s = <<>> <=> Len(s) = 0)
PROOF
<1>1. s \in Seq(Frames) /\ IsInjective(s) /\ DOMAIN l.entries = ToSet(s)
  BY DEF Represents
<1>2. Len(s) \in Nat /\ s \in [1 .. Len(s) -> Frames] /\ (s = <<>> <=> Len(s) = 0)
  BY <1>1, LenProperties, EmptySeq
<1>3. s \in Bijection(1 .. Len(s), ToSet(s))
  <2>1. DOMAIN s = 1 .. Len(s) /\ s \in [1 .. Len(s) -> ToSet(s)]
    BY <1>2 DEF ToSet
  <2>2. s \in Injection(1 .. Len(s), ToSet(s))
    BY <1>1, <2>1 DEF Injection
  <2>3. \A f \in ToSet(s) : \E i \in 1 .. Len(s) : s[i] = f
    BY <2>1 DEF ToSet
  <2> QED
    BY <2>1, <2>2, <2>3 DEF Bijection, Surjection
<1>4. Cardinality(ToSet(s)) = Len(s)
  BY <1>2, <1>3, FS_CountingElements DEF ExistsBijection
<1> QED
  BY <1>1, <1>2, <1>4

\* The walk meets the frames of the order, one by one
LEMMA WalkIs == \A s : Represents(list, s) => Walk = s
PROOF
<1> SUFFICES ASSUME NEW s, Represents(list, s)
             PROVE  Walk = s
  OBVIOUS
<1> DEFINE n == Cardinality(DOMAIN list.entries)
           Following(v, i) ==
             IF i = 1 THEN list.head
             ELSE IF v[i - 1] \in DOMAIN list.entries
                    THEN list.entries[v[i - 1]].next
                    ELSE NoFrame
           visit == CHOOSE v : v = [i \in 1 .. n |-> Following(v, i)]
<1>1. n = Len(s) /\ n \in Nat /\ s \in [1 .. n -> Frames] /\ (s = <<>> <=> n = 0)
  BY NodesCounted
<1>2. Walk = visit
  BY DEF Walk
<1> HIDE DEF n
<1>3. \A i \in 1 .. n : s[i] = Following(s, i)
  <2> SUFFICES ASSUME NEW i \in 1 .. n
               PROVE  s[i] = Following(s, i)
    OBVIOUS
  <2>1. CASE i = 1
    <3>1. s # <<>>
      BY <1>1
    <3>2. list.head = s[1]
      BY <3>1 DEF Represents
    <3> QED
      BY <2>1, <3>2
  <2>2. CASE i # 1
    <3>1. i - 1 \in 1 .. Len(s) /\ i - 1 # Len(s) /\ (i - 1) + 1 = i
      BY <1>1, <2>2
    <3>2. list.entries[s[i - 1]].next = s[i]
      BY <3>1 DEF Represents
    <3>3. s[i - 1] \in ToSet(s) /\ DOMAIN list.entries = ToSet(s)
      BY <1>1, <3>1 DEF Represents, ToSet
    <3> QED
      BY <2>2, <3>2, <3>3
  <2> QED
    BY <2>1, <2>2
<1>4. visit = [i \in 1 .. n |-> Following(visit, i)]
  <2>1. s = [i \in 1 .. n |-> s[i]]
    BY <1>1
  <2>2. s = [i \in 1 .. n |-> Following(s, i)]
    BY <1>3, <2>1
  <2> QED
    BY <2>2
<1> HIDE DEF visit
<1>5. ASSUME NEW i \in 1 .. n, visit[i] # s[i]
      PROVE  FALSE
  <2>1. PICK T : T = {j \in 1 .. n : visit[j] # s[j]}
    OBVIOUS
  <2>2. T \subseteq Nat /\ T # {}
    BY <1>1, <1>5, <2>1
  <2>3. PICK j \in T : \A m \in T : j <= m
    BY <2>2, FirstOf
  <2>4. j \in 1 .. n /\ visit[j] # s[j]
    BY <2>1, <2>3
  <2>5. visit[j] = Following(visit, j) /\ s[j] = Following(s, j)
    BY <1>3, <1>4, <2>4
  <2>6. j # 1
    BY <2>4, <2>5
  <2>7. j - 1 \in 1 .. n /\ ~(j <= j - 1)
    BY <1>1, <2>4, <2>6
  <2>8. visit[j - 1] = s[j - 1]
    BY <2>1, <2>3, <2>7
  <2> QED
    BY <2>4, <2>5, <2>6, <2>8
<1>6. visit = [i \in 1 .. n |-> visit[i]]
  BY <1>4
<1>7. s = [i \in 1 .. n |-> s[i]]
  BY <1>1
<1> QED
  BY <1>2, <1>5, <1>6, <1>7

\* The operators of Recency and of the abstract module are the same
LEMMA SameOperators ==
  /\ \A s, f : Recency!Forgotten(s, f) = Forgotten(s, f)
  /\ \A s, f : Recency!Touched(s, f) = Touched(s, f)
  /\ \A s : Recency!Last(s) = Last(s) /\ Recency!Front(s) = Front(s)
PROOF
<1>1. \A s : Recency!ToSet(s) = ToSet(s)
  BY DEF Recency!ToSet, ToSet
<1>2. \A s, i : Recency!RemoveAt(s, i) = RemoveAt(s, i)
  BY DEF Recency!RemoveAt, RemoveAt
<1>3. \A s, f : Recency!Forgotten(s, f) = Forgotten(s, f)
  BY <1>1, <1>2 DEF Recency!Forgotten, Forgotten
<1>4. \A s, f : Recency!Touched(s, f) = Touched(s, f)
  BY <1>3 DEF Recency!Touched, Touched
<1>5. \A s : Recency!Last(s) = Last(s) /\ Recency!Front(s) = Front(s)
  BY DEF Recency!Last, Last, Recency!Front, Front
<1> QED
  BY <1>3, <1>4, <1>5

(***************************************************************************)
(* The linked list of src/buffer/lru.rs implements the recency order that  *)
(* the pool is modelled with: read along its links, a call of touch, evict *)
(* or remove does to it what RecencyOrder says.                            *)
(***************************************************************************)
THEOREM ListIsRecencyOrder == Spec => ImplementsRecencyOrder
PROOF
<1>1. Init => Recency!Init
  <2> SUFFICES ASSUME Init PROVE Recency!Init
    OBVIOUS
  <2>1. Walk = <<>>
    BY EmptyRepresents, WalkIs DEF Init
  <2> QED
    BY <2>1 DEF Init, Recency!Init
<1>2. (\A s : Represents(list, s) => Walk = s)'
  BY WalkIs, PTL
<1>3. IInv /\ [Next]_vars => [Recency!Next]_Recency!vars
  <2> SUFFICES ASSUME IInv, [Next]_vars
               PROVE  [Recency!Next]_Recency!vars
    OBVIOUS
  <2>1. PICK s \in Seq(Frames) : Represents(list, s)
    BY DEF IInv, IsOrder
  <2>2. PICK u : Represents(list', u) /\ OrderStep(s, u, evicted, evicted')
    BY <2>1, StepsFollowTheOrder
  <2>3. Walk = s
    BY <2>1, WalkIs
  <2>4. Walk' = u
    <3>1. Represents(list, u)'
      BY <2>2 DEF Represents
    <3> QED
      BY <1>2, <3>1
  <2>5. CASE \E f \in Frames : u \in {Touched(s, f), Forgotten(s, f)} /\ evicted' = evicted
    BY <2>3, <2>4, <2>5, SameOperators
       DEF Recency!Next, Recency!TouchFrame, Recency!RemoveFrame
  <2>6. CASE s # <<>> /\ u = Front(s) /\ evicted' = Last(s)
    BY <2>3, <2>4, <2>6, SameOperators DEF Recency!Next, Recency!EvictOldest
  <2>7. CASE s = <<>> /\ u = s /\ evicted' = NoFrame
    BY <2>3, <2>4, <2>7 DEF Recency!Next, Recency!EvictNothing
  <2>8. CASE u = s /\ evicted' = evicted
    BY <2>3, <2>4, <2>8 DEF Recency!vars
  <2> QED
    BY <2>2, <2>5, <2>6, <2>7, <2>8 DEF OrderStep
<1> QED
  BY <1>1, <1>3, IInvHolds, PTL DEF Spec, ImplementsRecencyOrder, Recency!Spec
=============================================================================
