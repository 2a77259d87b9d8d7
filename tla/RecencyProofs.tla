---------------------------- MODULE RecencyProofs ----------------------------
(***************************************************************************)
(* What the operators of Recency do to the frames of an order.             *)
(***************************************************************************)
EXTENDS Recency, SequenceTheorems, TLAPS

\* An order whose last element is taken off: its tail and the rest
LEMMA FrontLast ==
  ASSUME NEW F, NEW s \in Seq(F), s # <<>>
  PROVE  /\ Last(s) \in F /\ Last(s) \in ToSet(s)
         /\ Front(s) \in Seq(F)
         /\ ToSet(Front(s)) \subseteq ToSet(s)
         /\ Len(Front(s)) = Len(s) - 1
         /\ \A i \in 1 .. Len(s) - 1 : Front(s)[i] = s[i]
PROOF
<1>1. Len(s) \in Nat \ {0} /\ s \in [1 .. Len(s) -> F] /\ DOMAIN s = 1 .. Len(s)
  BY EmptySeq, LenProperties
<1>2. /\ Front(s) \in Seq(F)
      /\ Len(Front(s)) = Len(s) - 1
      /\ \A i \in 1 .. Len(s) - 1 : Front(s)[i] = s[i]
  BY <1>1, SubSeqProperties DEF Front
<1>3. DOMAIN Front(s) = 1 .. Len(s) - 1
  BY <1>2, LenProperties
<1> QED
  BY <1>1, <1>2, <1>3 DEF Last, ToSet

\* A sequence without one of its positions
LEMMA WithoutPosition ==
  ASSUME NEW F, NEW s \in Seq(F), NEW i \in 1 .. Len(s)
  PROVE  /\ RemoveAt(s, i) \in Seq(F)
         /\ Len(RemoveAt(s, i)) = Len(s) - 1
         /\ \A j \in 1 .. Len(s) - 1 :
              RemoveAt(s, i)[j] = IF j < i THEN s[j] ELSE s[j + 1]
PROOF
<1>1. Len(s) \in Nat /\ s \in [1 .. Len(s) -> F]
  BY LenProperties
<1> DEFINE a == SubSeq(s, 1, i - 1)
           b == SubSeq(s, i + 1, Len(s))
<1>2. /\ a \in Seq(F) /\ Len(a) = i - 1
      /\ \A j \in 1 .. i - 1 : a[j] = s[j]
  BY <1>1, SubSeqProperties
<1>3. /\ b \in Seq(F) /\ Len(b) = Len(s) - i
      /\ \A j \in 1 .. Len(s) - i : b[j] = s[i + j]
  <2> DEFINE m == i + 1
             n == Len(s)
  <2>1. \A j \in m .. n : s[j] \in F
    BY <1>1
  <2>2. /\ m \in Int /\ n \in Int
        /\ n - m + 1 = Len(s) - i
        /\ ~(m <= n) => Len(s) - i = 0
    <3>1. Len(s) \in Int /\ i \in Int /\ i <= Len(s)
      BY <1>1
    <3> HIDE DEF m, n
    <3>2. m = i + 1 /\ n = Len(s)
      BY DEF m, n
    <3> QED
      BY <3>1, <3>2
  <2>3. \A j : j \in 1 .. Len(s) - i => m + j - 1 = i + j
    BY <1>1
  <2> HIDE DEF m, n
  <2>4. /\ SubSeq(s, m, n) \in Seq(F)
        /\ Len(SubSeq(s, m, n)) = IF m <= n THEN n - m + 1 ELSE 0
        /\ \A j \in 1 .. n - m + 1 : SubSeq(s, m, n)[j] = s[m + j - 1]
    BY <2>1, <2>2, SubSeqProperties
  <2>5. b = SubSeq(s, m, n)
    BY DEF b, m, n
  <2> HIDE DEF b
  <2> QED
    BY <2>2, <2>3, <2>4, <2>5
<1>4. /\ a \o b \in Seq(F) /\ Len(a \o b) = Len(a) + Len(b)
      /\ \A j \in 1 .. Len(a) + Len(b) :
           (a \o b)[j] = IF j <= Len(a) THEN a[j] ELSE b[j - Len(a)]
  BY <1>2, <1>3, ConcatProperties
<1> HIDE DEF a, b
<1>5. RemoveAt(s, i) = a \o b
  BY DEF RemoveAt, a, b
<1>6. \A j \in 1 .. Len(s) - 1 : (a \o b)[j] = IF j < i THEN s[j] ELSE s[j + 1]
  <2> SUFFICES ASSUME NEW j \in 1 .. Len(s) - 1
               PROVE  (a \o b)[j] = IF j < i THEN s[j] ELSE s[j + 1]
    OBVIOUS
  <2>1. CASE j < i
    BY <2>1, <1>1, <1>2, <1>3, <1>4
  <2>2. CASE ~(j < i)
    <3>1. (a \o b)[j] = b[j - Len(a)]
      BY <2>2, <1>1, <1>2, <1>3, <1>4
    <3>2. b[j - (i - 1)] = s[i + (j - (i - 1))]
      BY <2>2, <1>1, <1>3
    <3>3. i + (j - (i - 1)) = j + 1
      BY <1>1
    <3> QED
      BY <3>1, <3>2, <3>3, <2>2, <1>2
  <2> QED
    BY <2>1, <2>2
<1>7. Len(a \o b) = Len(s) - 1
  BY <1>1, <1>2, <1>3, <1>4
<1> QED
  BY <1>4, <1>5, <1>6, <1>7

\* Forgetting a frame keeps the others and their order; f itself is gone when
\* it was there once
LEMMA ForgottenFrames ==
  ASSUME NEW F, NEW s \in Seq(F), NEW f
  PROVE  /\ Forgotten(s, f) \in Seq(F)
         /\ ToSet(Forgotten(s, f)) \subseteq ToSet(s)
         /\ IsInjective(s) => /\ IsInjective(Forgotten(s, f))
                              /\ f \notin ToSet(Forgotten(s, f))
PROOF
<1>1. Len(s) \in Nat /\ s \in [1 .. Len(s) -> F] /\ DOMAIN s = 1 .. Len(s)
  BY LenProperties
<1>2. CASE f \notin ToSet(s)
  BY <1>2 DEF Forgotten
<1>3. CASE f \in ToSet(s)
  <2> DEFINE i == CHOOSE k \in DOMAIN s : s[k] = f
  <2>1. i \in 1 .. Len(s) /\ s[i] = f
    BY <1>1, <1>3 DEF ToSet
  <2> DEFINE r == RemoveAt(s, i)
  <2>2. Forgotten(s, f) = r
    BY <1>3 DEF Forgotten
  <2> HIDE DEF i
  <2>3. /\ r \in Seq(F) /\ Len(r) = Len(s) - 1
        /\ \A j \in 1 .. Len(s) - 1 : r[j] = IF j < i THEN s[j] ELSE s[j + 1]
    BY <2>1, WithoutPosition
  <2>4. DOMAIN r = 1 .. Len(s) - 1
    BY <2>3, LenProperties
  <2> HIDE DEF r
  <2>5. \A j \in DOMAIN r : \E k \in DOMAIN s :
          r[j] = s[k] /\ k # i /\ k = IF j < i THEN j ELSE j + 1
    BY <2>1, <2>3, <2>4, <1>1
  <2>6. ToSet(r) \subseteq ToSet(s)
    BY <2>5 DEF ToSet
  <2>7. ASSUME IsInjective(s)
        PROVE  IsInjective(r) /\ f \notin ToSet(r)
    <3>1. \A k \in DOMAIN s : s[k] = f => k = i
      BY <2>7, <2>1, <1>1 DEF IsInjective
    <3>2. f \notin ToSet(r)
      BY <3>1, <2>5 DEF ToSet
    <3>3. ASSUME NEW j1 \in DOMAIN r, NEW j2 \in DOMAIN r, r[j1] = r[j2]
          PROVE  j1 = j2
      <4>1. PICK k1 \in DOMAIN s : r[j1] = s[k1] /\ k1 = IF j1 < i THEN j1 ELSE j1 + 1
        BY <2>5
      <4>2. PICK k2 \in DOMAIN s : r[j2] = s[k2] /\ k2 = IF j2 < i THEN j2 ELSE j2 + 1
        BY <2>5
      <4>3. k1 = k2
        BY <4>1, <4>2, <3>3, <2>7 DEF IsInjective
      <4> QED
        BY <4>1, <4>2, <4>3, <2>1, <2>4, <1>1
    <3> QED
      BY <3>2, <3>3 DEF IsInjective
  <2> QED
    BY <2>2, <2>3, <2>6, <2>7
<1> QED
  BY <1>2, <1>3

\* Concatenation: elements and injectivity
LEMMA ConcatFrames ==
  ASSUME NEW F, NEW s \in Seq(F), NEW t \in Seq(F)
  PROVE  /\ s \o t \in Seq(F)
         /\ ToSet(s \o t) = ToSet(s) \cup ToSet(t)
         /\ IsInjective(s) /\ IsInjective(t) /\ ToSet(s) \cap ToSet(t) = {}
              => IsInjective(s \o t)
PROOF
<1>1. /\ s \o t \in Seq(F) /\ Len(s \o t) = Len(s) + Len(t)
      /\ \A i \in 1 .. Len(s) + Len(t) :
           (s \o t)[i] = IF i <= Len(s) THEN s[i] ELSE t[i - Len(s)]
  BY ConcatProperties
<1>2. /\ Len(s) \in Nat /\ Len(t) \in Nat
      /\ DOMAIN s = 1 .. Len(s) /\ DOMAIN t = 1 .. Len(t)
      /\ DOMAIN (s \o t) = 1 .. Len(s) + Len(t)
  BY <1>1, LenProperties
<1> DEFINE u == s \o t
<1> HIDE DEF u
<1>3. \A i \in DOMAIN u :
        \/ i \in DOMAIN s /\ u[i] = s[i]
        \/ i - Len(s) \in DOMAIN t /\ u[i] = t[i - Len(s)]
  BY <1>1, <1>2 DEF u
<1>4. \A i \in DOMAIN s : i \in DOMAIN u /\ u[i] = s[i]
  BY <1>1, <1>2 DEF u
<1>5. \A i \in DOMAIN t : i + Len(s) \in DOMAIN u /\ u[i + Len(s)] = t[i]
  <2> SUFFICES ASSUME NEW i \in DOMAIN t
               PROVE  i + Len(s) \in DOMAIN u /\ u[i + Len(s)] = t[i]
    OBVIOUS
  <2>1. i + Len(s) \in 1 .. Len(s) + Len(t) /\ ~(i + Len(s) <= Len(s))
        /\ (i + Len(s)) - Len(s) = i
    BY <1>2
  <2> QED
    BY <2>1, <1>1, <1>2 DEF u
<1>6. ToSet(u) = ToSet(s) \cup ToSet(t)
  <2>1. ToSet(u) \subseteq ToSet(s) \cup ToSet(t)
    BY <1>3 DEF ToSet
  <2>2. ToSet(s) \subseteq ToSet(u)
    BY <1>4 DEF ToSet
  <2>3. ToSet(t) \subseteq ToSet(u)
    BY <1>5 DEF ToSet
  <2> QED
    BY <2>1, <2>2, <2>3
<1>7. ASSUME IsInjective(s), IsInjective(t), ToSet(s) \cap ToSet(t) = {}
      PROVE  IsInjective(u)
  <2> SUFFICES ASSUME NEW i \in DOMAIN u, NEW j \in DOMAIN u, u[i] = u[j]
               PROVE  i = j
    BY DEF IsInjective
  <2>1. CASE i \in DOMAIN s /\ u[i] = s[i] /\ j \in DOMAIN s /\ u[j] = s[j]
    BY <2>1, <1>7 DEF IsInjective
  <2>2. CASE /\ i - Len(s) \in DOMAIN t /\ u[i] = t[i - Len(s)]
             /\ j - Len(s) \in DOMAIN t /\ u[j] = t[j - Len(s)]
    <3>1. i - Len(s) = j - Len(s)
      BY <2>2, <1>7 DEF IsInjective
    <3> QED
      BY <3>1, <1>2 DEF u
  <2>3. CASE \/ /\ i \in DOMAIN s /\ u[i] = s[i]
                /\ j - Len(s) \in DOMAIN t /\ u[j] = t[j - Len(s)]
             \/ /\ j \in DOMAIN s /\ u[j] = s[j]
                /\ i - Len(s) \in DOMAIN t /\ u[i] = t[i - Len(s)]
    BY <2>3, <1>7 DEF ToSet
  <2> QED
    BY <2>1, <2>2, <2>3, <1>3
<1> QED
  BY <1>1, <1>6, <1>7 DEF u

\* A sequence of one frame
LEMMA SingleFrame ==
  ASSUME NEW F, NEW f \in F
  PROVE  <<f>> \in Seq(F) /\ ToSet(<<f>>) = {f} /\ IsInjective(<<f>>)
PROOF
  BY DEF ToSet, IsInjective

\* A touched frame is in the order, once
LEMMA TouchedFrames ==
  ASSUME NEW F, NEW s \in Seq(F), NEW f \in F
  PROVE  /\ Touched(s, f) \in Seq(F)
         /\ ToSet(Touched(s, f)) \subseteq ToSet(s) \cup {f}
         /\ IsInjective(s) => IsInjective(Touched(s, f))
PROOF
<1> DEFINE a == <<f>>
           r == Forgotten(s, f)
<1>1. a \in Seq(F) /\ ToSet(a) = {f} /\ IsInjective(a)
  BY SingleFrame
<1>2. /\ r \in Seq(F) /\ ToSet(r) \subseteq ToSet(s)
      /\ IsInjective(s) => IsInjective(r) /\ f \notin ToSet(r)
  BY ForgottenFrames
<1> HIDE DEF a, r
<1>3. /\ a \o r \in Seq(F)
      /\ ToSet(a \o r) = ToSet(a) \cup ToSet(r)
      /\ IsInjective(a) /\ IsInjective(r) /\ ToSet(a) \cap ToSet(r) = {}
           => IsInjective(a \o r)
  BY <1>1, <1>2, ConcatFrames
<1>4. Touched(s, f) = a \o r
  BY DEF Touched, a, r
<1> QED
  BY <1>1, <1>2, <1>3, <1>4

\* A touched frame is in the order, and no other one has left it
LEMMA TouchedKeeps ==
  ASSUME NEW F, NEW s \in Seq(F), NEW f \in F
  PROVE  ToSet(s) \cup {f} \subseteq ToSet(Touched(s, f))
PROOF
<1> DEFINE a == <<f>>
           r == Forgotten(s, f)
<1>1. a \in Seq(F) /\ ToSet(a) = {f}
  BY SingleFrame
<1>2. r \in Seq(F)
  BY ForgottenFrames
<1>3. ASSUME NEW g \in ToSet(s), g # f
      PROVE  g \in ToSet(r)
  <2>1. CASE f \notin ToSet(s)
    BY <2>1 DEF Forgotten
  <2>2. CASE f \in ToSet(s)
    <3> DEFINE i == CHOOSE k \in DOMAIN s : s[k] = f
    <3>1. Len(s) \in Nat /\ DOMAIN s = 1 .. Len(s)
      BY LenProperties
    <3>2. i \in 1 .. Len(s) /\ s[i] = f
      BY <2>2, <3>1 DEF ToSet
    <3>3. r = RemoveAt(s, i)
      BY <2>2 DEF Forgotten
    <3> HIDE DEF i, r
    <3>4. /\ Len(r) = Len(s) - 1
          /\ \A j \in 1 .. Len(s) - 1 : r[j] = IF j < i THEN s[j] ELSE s[j + 1]
      BY <3>2, <3>3, WithoutPosition
    <3>5. DOMAIN r = 1 .. Len(s) - 1
      BY <1>2, <3>4, LenProperties
    <3>6. PICK k \in 1 .. Len(s) : s[k] = g
      BY <3>1 DEF ToSet
    <3>7. PICK j \in 1 .. Len(s) - 1 : k = IF j < i THEN j ELSE j + 1
      <4>1. CASE k < i
        BY <3>1, <3>2, <4>1
      <4>2. CASE k > i
        <5>1. k - 1 \in 1 .. Len(s) - 1 /\ ~(k - 1 < i) /\ k = (k - 1) + 1
          BY <3>1, <3>2, <4>2
        <5> QED
          BY <5>1
      <4> QED
        BY <1>3, <3>1, <3>2, <3>6, <4>1, <4>2
    <3>8. r[j] = g
      BY <3>4, <3>6, <3>7
    <3> QED
      BY <3>5, <3>8 DEF ToSet
  <2> QED
    BY <2>1, <2>2
<1> HIDE DEF a, r
<1>4. ToSet(a \o r) = ToSet(a) \cup ToSet(r)
  BY <1>1, <1>2, ConcatFrames
<1>5. Touched(s, f) = a \o r
  BY DEF Touched, a, r
<1> QED
  BY <1>1, <1>3, <1>4, <1>5

\* The frames of a sequence without its last one
LEMMA FrontDistinct ==
  ASSUME NEW F, NEW s \in Seq(F), s # <<>>, IsInjective(s)
  PROVE  IsInjective(Front(s)) /\ Last(s) \notin ToSet(Front(s))
PROOF
<1>1. Len(s) \in Nat \ {0} /\ DOMAIN s = 1 .. Len(s)
  BY EmptySeq, LenProperties
<1>2. /\ Front(s) \in Seq(F) /\ Len(Front(s)) = Len(s) - 1
      /\ \A i \in 1 .. Len(s) - 1 : Front(s)[i] = s[i]
  BY FrontLast
<1>3. DOMAIN Front(s) = 1 .. Len(s) - 1
  BY <1>2, LenProperties
<1> QED
  BY <1>1, <1>2, <1>3 DEF Last, ToSet, IsInjective

\* Nothing is in the empty sequence
LEMMA NoFrames == ToSet(<<>>) = {} /\ IsInjective(<<>>)
PROOF
<1>1. DOMAIN <<>> = {}
  BY EmptySeq, LenProperties
<1> QED
  BY <1>1 DEF ToSet, IsInjective
=============================================================================
