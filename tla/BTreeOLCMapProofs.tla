-------------------------- MODULE BTreeOLCMapProofs --------------------------
(***************************************************************************)
(* The concurrent B+-tree is a map: for any number of threads, any         *)
(* requests and any capacities it implements KVMap.  The invariant says    *)
(* which keys belong where, with two functions on the nodes that no        *)
(* variable of the tree holds: what a search finds below a node, and what  *)
(* its parent sends there.  They differ between the split of a node and    *)
(* the link of its new half, when both nodes are still locked.             *)
(***************************************************************************)
EXTENDS BTreeOLCProofs

\* The keys of a node are in order, each of them once.
Sorted(keys) == \A i, j \in DOMAIN keys : i < j => keys[i] < keys[j]

\* The first j keys, and no other, are below k.
Position(keys, k, j) ==
  /\ j \in 0 .. Len(keys)
  /\ \A i \in DOMAIN keys : IF i <= j THEN keys[i] < k ELSE k <= keys[i]

\* Keys are numbers, and so are the keys of a node.
LEMMA KeysAreNumbers ==
  ASSUME NEW keys \in Seq(Keys)
  PROVE  /\ Len(keys) \in Nat /\ DOMAIN keys = 1 .. Len(keys)
         /\ \A i \in 1 .. Len(keys) : keys[i] \in Keys /\ keys[i] \in Nat
<1>1. Len(keys) \in Nat /\ DOMAIN keys = 1 .. Len(keys)
  OBVIOUS
<1>2. \A i \in 1 .. Len(keys) : keys[i] \in Keys
  OBVIOUS
<1> QED
  BY <1>1, <1>2, KeyAssumption

\* The binary search of a sorted node finds the position.
LEMMA LowerBoundIsThere ==
  ASSUME NEW keys \in Seq(Keys), Sorted(keys), NEW k \in Keys
  PROVE  Position(keys, k, LowerBound(keys, k))
<1> DEFINE below == {i \in DOMAIN keys : keys[i] < k}
           j == LowerBound(keys, k)
<1>0. /\ DOMAIN keys = 1 .. Len(keys) /\ Len(keys) \in Nat /\ k \in Nat
      /\ \A h \in DOMAIN keys : keys[h] \in Nat
  BY KeysAreNumbers, KeyAssumption
<1>1. j \in 0 .. Len(keys) /\ DOMAIN keys = 1 .. Len(keys) /\ Len(keys) \in Nat
  BY <1>0, LowerBoundIsPosition
<1>2. j = Cardinality(below)
  BY DEF LowerBound
<1>3. below \in SUBSET (1 .. Len(keys)) /\ IsFiniteSet(1 .. Len(keys))
  BY <1>1, FS_Interval
<1>4. IsFiniteSet(below)
  BY <1>3, FS_Subset
<1> HIDE DEF j
<1>5. ASSUME NEW i \in DOMAIN keys, i <= j, ~(keys[i] < k) PROVE FALSE
  <2>1. below \subseteq 1 .. i - 1
    <3>1. \A h \in DOMAIN keys : i < h => keys[i] < keys[h]
      BY DEF Sorted
    <3> QED
      BY <1>0, <1>5, <3>1
  <2>2. IsFiniteSet(1 .. i - 1) /\ Cardinality(1 .. i - 1) = i - 1
    <3>1. 1 \in Int /\ i - 1 \in Int /\ 0 <= i - 1
      BY <1>1
    <3>2. /\ IsFiniteSet(1 .. i - 1)
          /\ Cardinality(1 .. i - 1) = IF 1 > i - 1 THEN 0 ELSE (i - 1) - 1 + 1
      BY <3>1, FS_Interval
    <3> QED
      BY <3>1, <3>2
  <2>3. Cardinality(below) <= i - 1
    BY <2>1, <2>2, FS_Subset
  <2> QED
    BY <1>1, <1>2, <1>5, <2>3
<1>6. ASSUME NEW i \in DOMAIN keys, ~(i <= j), ~(k <= keys[i]) PROVE FALSE
  <2>1. 1 .. i \subseteq below
    <3>1. \A h \in DOMAIN keys : h < i => keys[h] < keys[i]
      BY DEF Sorted
    <3>2. ASSUME NEW h \in 1 .. i PROVE h \in DOMAIN keys /\ keys[h] < k
      <4>1. h \in DOMAIN keys /\ (h = i \/ h < i)
        BY <1>1
      <4> QED
        BY <1>0, <1>6, <3>1, <4>1
    <3> QED
      BY <3>2
  <2>2. Cardinality(1 .. i) = i
    BY <1>1, FS_Interval
  <2>3. i <= Cardinality(below)
    BY <1>4, <2>1, <2>2, FS_Subset
  <2> QED
    BY <1>1, <1>2, <1>6, <2>3
<1> QED
  BY <1>1, <1>5, <1>6 DEF Position, j

\* There is one position.
LEMMA OnePosition ==
  ASSUME NEW keys \in Seq(Keys), NEW k \in Keys,
         NEW i, Position(keys, k, i), NEW j, Position(keys, k, j)
  PROVE  i = j
<1>1. /\ i \in 0 .. Len(keys) /\ j \in 0 .. Len(keys) /\ Len(keys) \in Nat
      /\ DOMAIN keys = 1 .. Len(keys) /\ \A h \in 1 .. Len(keys) : keys[h] \in Nat
      /\ k \in Nat
  BY KeysAreNumbers, KeyAssumption DEF Position
<1>2. ASSUME NEW a \in 0 .. Len(keys), NEW b \in 0 .. Len(keys), a < b,
             Position(keys, k, a), Position(keys, k, b)
      PROVE  FALSE
  <2>1. a + 1 \in DOMAIN keys /\ a + 1 <= b /\ ~(a + 1 <= a)
    BY <1>1, <1>2
  <2>2. keys[a + 1] < k /\ k <= keys[a + 1]
    BY <1>2, <2>1 DEF Position
  <2> QED
    BY <1>1, <2>1, <2>2
<1> QED
  BY <1>1, <1>2

\* The key at place i is found at place i.
LEMMA KeyIsFound ==
  ASSUME NEW keys \in Seq(Keys), Sorted(keys), NEW i \in DOMAIN keys
  PROVE  LowerBound(keys, keys[i]) = i - 1
<1>1. DOMAIN keys = 1 .. Len(keys) /\ Len(keys) \in Nat /\ \A h \in 1 .. Len(keys) : keys[h] \in Nat
  BY KeysAreNumbers
<1>2. Position(keys, keys[i], i - 1)
  BY <1>1 DEF Position, Sorted
<1>3. keys[i] \in Keys
  BY <1>1
<1>4. Position(keys, keys[i], LowerBound(keys, keys[i]))
  BY <1>3, LowerBoundIsThere
<1> QED
  BY <1>2, <1>3, <1>4, OnePosition

\* What is where when an element has been inserted.
HasInserted(S, s, i, e, x) ==
  /\ x \in Seq(S) /\ Len(x) = Len(s) + 1
  /\ \A j \in 1 .. Len(s) + 1 :
       /\ j < i => x[j] = s[j]
       /\ j = i => x[j] = e
       /\ j > i => x[j] = s[j - 1]

LEMMA InsertAtInserts ==
  ASSUME NEW S, NEW s \in Seq(S), NEW e \in S, NEW i \in 1 .. Len(s) + 1
  PROVE  HasInserted(S, s, i, e, InsertAt(s, i, e))
<1> DEFINE a == SubSeq(s, 1, i - 1)
           b == SubSeq(s, i, Len(s))
<1>1. /\ a \in Seq(S) /\ Len(a) = i - 1 /\ \A j \in 1 .. i - 1 : a[j] = s[j]
      /\ b \in Seq(S) /\ Len(b) = Len(s) - i + 1
      /\ \A j \in 1 .. Len(s) - i + 1 : b[j] = s[i + j - 1]
  OBVIOUS
<1>2. InsertAt(s, i, e) = a \o <<e>> \o b
  BY DEF InsertAt
<1> HIDE DEF a, b
<1>3. Len(s) \in Nat
  OBVIOUS
<1> DEFINE c == a \o <<e>>
<1>4. /\ c \in Seq(S) /\ Len(c) = i
      /\ \A j \in 1 .. i : c[j] = IF j < i THEN s[j] ELSE e
  BY <1>1, <1>3
<1> HIDE DEF c
<1>5. /\ c \o b \in Seq(S) /\ Len(c \o b) = Len(s) + 1
      /\ \A j \in 1 .. Len(s) + 1 : (c \o b)[j] = IF j <= i THEN c[j] ELSE b[j - i]
  <2>1. c \in Seq(S) /\ b \in Seq(S) /\ Len(c) = i /\ Len(c) + Len(b) = Len(s) + 1
    BY <1>1, <1>3, <1>4
  <2>2. c \o b \in Seq(S) /\ Len(c \o b) = Len(s) + 1
    BY <2>1, Joined
  <2>3. \A j \in 1 .. Len(c) + Len(b) : (c \o b)[j] = IF j <= Len(c) THEN c[j] ELSE b[j - Len(c)]
    BY <2>1
  <2> QED
    BY <2>1, <2>2, <2>3
<1>6. ASSUME NEW j \in 1 .. Len(s) + 1
      PROVE  /\ j < i => (c \o b)[j] = s[j]
             /\ j = i => (c \o b)[j] = e
             /\ j > i => (c \o b)[j] = s[j - 1]
  <2>1. CASE j <= i
    BY <1>3, <1>4, <1>5, <2>1
  <2>2. CASE ~(j <= i)
    <3>1. j - i \in 1 .. Len(s) - i + 1 /\ i + (j - i) - 1 = j - 1 /\ ~(j < i) /\ j # i
      BY <1>3, <2>2
    <3> QED
      BY <1>1, <1>5, <2>2, <3>1
  <2> QED
    BY <2>1, <2>2
<1>7. HasInserted(S, s, i, e, c \o b)
  BY <1>5, <1>6 DEF HasInserted
<1> QED
  BY <1>2, <1>7 DEF c

\* The elements of a segment.
LEMMA SegmentAt ==
  ASSUME NEW S, NEW s \in Seq(S), NEW i \in Nat, NEW j \in Nat, 1 <= i, j <= Len(s), i <= j + 1
  PROVE  /\ SubSeq(s, i, j) \in Seq(S) /\ Len(SubSeq(s, i, j)) = j - i + 1
         /\ \A h \in 1 .. j - i + 1 : SubSeq(s, i, j)[h] = s[i + h - 1]
OBVIOUS

\* A key that is inserted where the search for it ends, and is not there yet,
\* leaves the keys in order.
LEMMA SortedInsert ==
  ASSUME NEW keys \in Seq(Keys), Sorted(keys), NEW e \in Keys,
         NEW j \in 0 .. Len(keys), Position(keys, e, j),
         j + 1 \in DOMAIN keys => e # keys[j + 1]
  PROVE  LET more == InsertAt(keys, j + 1, e)
         IN  /\ Sorted(more) /\ more \in Seq(Keys) /\ Len(more) = Len(keys) + 1
             /\ \A h \in 1 .. Len(keys) + 1 :
                  /\ h < j + 1 => more[h] = keys[h]
                  /\ h = j + 1 => more[h] = e
                  /\ h > j + 1 => more[h] = keys[h - 1]
             /\ \A h \in DOMAIN keys : h > j => e < keys[h]
<1> DEFINE more == InsertAt(keys, j + 1, e)
<1>1. /\ j \in 0 .. Len(keys) /\ Len(keys) \in Nat
      /\ DOMAIN keys = 1 .. Len(keys) /\ \A h \in 1 .. Len(keys) : keys[h] \in Nat
      /\ e \in Nat
  BY KeysAreNumbers, KeyAssumption DEF Position
<1>2. /\ more \in Seq(Keys) /\ Len(more) = Len(keys) + 1
      /\ \A h \in 1 .. Len(keys) + 1 :
           /\ h < j + 1 => more[h] = keys[h]
           /\ h = j + 1 => more[h] = e
           /\ h > j + 1 => more[h] = keys[h - 1]
  <2>1. j + 1 \in 1 .. Len(keys) + 1
    BY <1>1
  <2>2. keys \in Seq(Keys) /\ e \in Keys
    OBVIOUS
  <2>3. HasInserted(Keys, keys, j + 1, e, InsertAt(keys, j + 1, e))
    BY <2>1, <2>2, InsertAtInserts
  <2> QED
    BY <2>3 DEF HasInserted
<1> HIDE DEF more
<1>3. \A h \in DOMAIN keys : h > j => e < keys[h]
  <2>1. \A h \in DOMAIN keys : h > j => e <= keys[h]
    BY <1>1 DEF Position
  <2>2. \A h \in DOMAIN keys : h > j + 1 => keys[j + 1] < keys[h]
    BY <1>1 DEF Sorted
  <2> QED
    BY <1>1, <2>1, <2>2
<1>4. \A h \in DOMAIN keys : h <= j => keys[h] < e
  BY <1>1 DEF Position
<1>5. ASSUME NEW a \in 1 .. Len(keys) + 1, NEW b \in 1 .. Len(keys) + 1, a < b
      PROVE  more[a] < more[b]
  <2>1. \A g, h \in DOMAIN keys : g < h => keys[g] < keys[h]
    BY DEF Sorted
  <2>2. CASE b < j + 1
    <3>1. a \in DOMAIN keys /\ b \in DOMAIN keys /\ a < j + 1
      BY <1>1, <1>5, <2>2
    <3>2. more[a] = keys[a] /\ more[b] = keys[b]
      BY <1>2, <2>2, <3>1
    <3> QED
      BY <1>5, <2>1, <3>1, <3>2
  <2>3. CASE b = j + 1
    <3>1. a \in DOMAIN keys /\ a < j + 1 /\ a <= j
      BY <1>1, <1>5, <2>3
    <3>2. more[a] = keys[a] /\ more[b] = e
      BY <1>1, <1>2, <2>3, <3>1
    <3> QED
      BY <1>4, <3>1, <3>2
  <2>4. CASE b > j + 1
    <3>1. b - 1 \in DOMAIN keys /\ b - 1 > j /\ keys[b - 1] \in Nat
      BY <1>1, <2>4
    <3>0. more[b] = keys[b - 1]
      BY <1>2, <2>4
    <3>2. CASE a = j + 1
      <4>1. more[a] = e
        BY <1>1, <1>2, <3>2
      <4> QED
        BY <1>3, <3>0, <3>1, <4>1
    <3>3. CASE a < j + 1
      <4>1. a \in DOMAIN keys /\ a < b - 1
        BY <1>1, <3>1, <3>3
      <4>2. more[a] = keys[a]
        BY <1>2, <3>3
      <4> QED
        BY <2>1, <3>0, <3>1, <4>1, <4>2
    <3>4. CASE a > j + 1
      <4>1. a - 1 \in DOMAIN keys /\ a - 1 < b - 1
        BY <1>1, <1>5, <3>4
      <4>2. more[a] = keys[a - 1]
        BY <1>2, <3>4
      <4> QED
        BY <2>1, <3>0, <3>1, <4>1, <4>2
    <3> QED
      BY <1>1, <3>2, <3>3, <3>4
  <2> QED
    BY <1>1, <2>2, <2>3, <2>4
<1>6. DOMAIN more = 1 .. Len(keys) + 1
  BY <1>2
<1> QED
  BY <1>2, <1>3, <1>5, <1>6 DEF Sorted, more

\* Where a search ends when the separator e of child j + 1 has been inserted.
LEMMA PositionInserted ==
  ASSUME NEW keys \in Seq(Keys), Sorted(keys), NEW e \in Keys,
         NEW j \in 0 .. Len(keys), Position(keys, e, j),
         j + 1 \in DOMAIN keys => e # keys[j + 1],
         NEW more, more = InsertAt(keys, j + 1, e), NEW k \in Keys, NEW h \in 0 .. Len(keys) + 1
  PROVE  Position(more, k, h) <=> IF h < j THEN Position(keys, k, h)
                                  ELSE IF h = j THEN Position(keys, k, j) /\ k <= e
                                  ELSE IF h = j + 1 THEN Position(keys, k, j) /\ e < k
                                  ELSE Position(keys, k, h - 1)
<1>1. /\ j \in 0 .. Len(keys) /\ Len(keys) \in Nat
      /\ DOMAIN keys = 1 .. Len(keys) /\ \A i \in 1 .. Len(keys) : keys[i] \in Nat
      /\ e \in Nat /\ k \in Nat
  BY KeysAreNumbers, KeyAssumption DEF Position
<1>2. /\ DOMAIN more = 1 .. Len(keys) + 1 /\ Len(more) = Len(keys) + 1
      /\ \A i \in 1 .. Len(keys) + 1 :
           /\ i < j + 1 => more[i] = keys[i]
           /\ i = j + 1 => more[i] = e
           /\ i > j + 1 => more[i] = keys[i - 1]
      /\ \A i \in DOMAIN keys : i > j => e < keys[i]
  BY SortedInsert
<1>3. \A i \in DOMAIN keys : i <= j => keys[i] < e
  BY <1>1 DEF Position
<1>4. /\ \A i \in DOMAIN keys : i <= j => more[i] = keys[i]
      /\ more[j + 1] = e
      /\ \A i \in DOMAIN keys : i > j => more[i + 1] = keys[i]
  <2>1. ASSUME NEW i \in DOMAIN keys, i <= j PROVE more[i] = keys[i]
    <3>1. i \in 1 .. Len(keys) + 1 /\ i < j + 1
      BY <1>1, <2>1
    <3> QED
      BY <1>2, <3>1
  <2>2. more[j + 1] = e
    <3>1. j + 1 \in 1 .. Len(keys) + 1
      BY <1>1
    <3> QED
      BY <1>2, <3>1
  <2>3. ASSUME NEW i \in DOMAIN keys, i > j PROVE more[i + 1] = keys[i]
    <3>1. i + 1 \in 1 .. Len(keys) + 1 /\ i + 1 > j + 1 /\ (i + 1) - 1 = i
      BY <1>1, <2>3
    <3> QED
      BY <1>2, <3>1
  <2> QED
    BY <2>1, <2>2, <2>3
<1>5. j \in Int /\ h \in Int
  BY <1>1
<1>6. Position(more, k, h) <=> /\ \A i \in DOMAIN keys : i <= j =>
                                     IF i <= h THEN keys[i] < k ELSE k <= keys[i]
                               /\ IF j + 1 <= h THEN e < k ELSE k <= e
                               /\ \A i \in DOMAIN keys : i > j =>
                                     IF i + 1 <= h THEN keys[i] < k ELSE k <= keys[i]
  <2> DEFINE Right(i) == IF i <= h THEN more[i] < k ELSE k <= more[i]
  <2>1. Position(more, k, h) <=> \A i \in 1 .. Len(keys) + 1 : Right(i)
    BY <1>2 DEF Position
  <2>2. (\A i \in 1 .. Len(keys) + 1 : Right(i)) <=>
          /\ \A i \in DOMAIN keys : i <= j => Right(i)
          /\ Right(j + 1)
          /\ \A i \in DOMAIN keys : i > j => Right(i + 1)
    <3> HIDE DEF Right
    <3>1. /\ \A i \in DOMAIN keys : i \in 1 .. Len(keys) + 1 /\ i + 1 \in 1 .. Len(keys) + 1
          /\ j + 1 \in 1 .. Len(keys) + 1
      BY <1>1
    <3>2. \A i \in 1 .. Len(keys) + 1 :
            \/ i \in DOMAIN keys /\ i <= j
            \/ i = j + 1
            \/ i - 1 \in DOMAIN keys /\ i - 1 > j /\ (i - 1) + 1 = i
      BY <1>1
    <3> QED
      BY <3>1, <3>2
  <2> QED
    BY <1>4, <2>1, <2>2
<1>7. CASE h < j
  <2>1. Position(keys, k, h) <=> \A i \in DOMAIN keys : IF i <= h THEN keys[i] < k ELSE k <= keys[i]
    BY <1>1, <1>7 DEF Position
  <2>2. ASSUME \A i \in DOMAIN keys : IF i <= h THEN keys[i] < k ELSE k <= keys[i]
        PROVE  k <= e
    <3>1. j \in DOMAIN keys /\ ~(j <= h) /\ keys[j] \in Nat
      BY <1>1, <1>7
    <3>2. k <= keys[j]
      BY <2>2, <3>1
    <3>3. keys[j] < e
      BY <1>1, <1>3, <3>1
    <3> QED
      BY <1>1, <3>1, <3>2, <3>3
  <2>3. ASSUME k <= e PROVE \A i \in DOMAIN keys : i > j => k <= keys[i]
    BY <1>1, <1>2, <2>3
  <2> QED
    BY <1>1, <1>6, <1>7, <2>1, <2>2, <2>3
<1>8. CASE h = j
  <2>1. Position(keys, k, j) <=> \A i \in DOMAIN keys : IF i <= j THEN keys[i] < k ELSE k <= keys[i]
    BY <1>1, <1>8 DEF Position
  <2>2. ~(j + 1 <= h) /\ \A i \in DOMAIN keys : /\ i <= j => i <= h
                                                /\ i > j => ~(i <= j) /\ ~(i + 1 <= h)
    BY <1>1, <1>8
  <2>3. \A i \in DOMAIN keys : i <= j \/ i > j
    BY <1>1
  <2> QED
    BY <1>6, <1>8, <2>1, <2>2, <2>3
<1>9. CASE h = j + 1
  <2>1. Position(keys, k, j) <=> \A i \in DOMAIN keys : IF i <= j THEN keys[i] < k ELSE k <= keys[i]
    BY <1>1 DEF Position
  <2> QED
    BY <1>1, <1>6, <1>9, <2>1
<1>10. CASE h > j + 1
  <2>1. Position(keys, k, h - 1) <=>
          \A i \in DOMAIN keys : IF i <= h - 1 THEN keys[i] < k ELSE k <= keys[i]
    BY <1>1, <1>10 DEF Position
  <2>2. ASSUME \A i \in DOMAIN keys : IF i <= h - 1 THEN keys[i] < k ELSE k <= keys[i]
        PROVE  e < k
    <3>1. j + 1 \in DOMAIN keys /\ j + 1 <= h - 1 /\ keys[j + 1] \in Nat /\ j + 1 > j
      BY <1>1, <1>10
    <3>2. e < keys[j + 1] /\ keys[j + 1] < k
      BY <1>2, <2>2, <3>1
    <3> QED
      BY <1>1, <3>1, <3>2
  <2>3. ASSUME e < k PROVE \A i \in DOMAIN keys : i <= j => keys[i] < k
    BY <1>1, <1>3, <2>3
  <2> QED
    BY <1>1, <1>6, <1>10, <2>1, <2>2, <2>3
<1> QED
  BY <1>1, <1>7, <1>8, <1>9, <1>10

\* The halves of sorted keys are sorted; where a search ends in a half is where
\* it ends in the whole, on either side of the key between them.
LEMMA HalvesSorted ==
  ASSUME NEW keys \in Seq(Keys), Sorted(keys), NEW i \in Nat, NEW j \in Nat, 1 <= i,
         j <= Len(keys), i <= j + 1
  PROVE  Sorted(SubSeq(keys, i, j))
<1>1. /\ Len(SubSeq(keys, i, j)) = j - i + 1 /\ SubSeq(keys, i, j) \in Seq(Keys)
      /\ \A h \in 1 .. j - i + 1 : SubSeq(keys, i, j)[h] = keys[i + h - 1]
  BY SegmentAt
<1>2. DOMAIN SubSeq(keys, i, j) = 1 .. j - i + 1 /\ DOMAIN keys = 1 .. Len(keys)
  BY <1>1
<1> DEFINE half == SubSeq(keys, i, j)
<1> HIDE DEF half
<1>3. SUFFICES ASSUME NEW a \in 1 .. j - i + 1, NEW b \in 1 .. j - i + 1, a < b
               PROVE  half[a] < half[b]
  BY <1>2 DEF Sorted, half
<1>4. /\ i + a - 1 \in DOMAIN keys /\ i + b - 1 \in DOMAIN keys /\ i + a - 1 < i + b - 1
  <2>1. Len(keys) \in Nat /\ DOMAIN keys = 1 .. Len(keys)
    BY KeysAreNumbers
  <2> QED
    BY <1>3, <2>1
<1>5. half[a] = keys[i + a - 1] /\ half[b] = keys[i + b - 1]
  BY <1>1 DEF half
<1> QED
  BY <1>4, <1>5 DEF Sorted

\* Below the key that goes up.
LEMMA PositionLeft ==
  ASSUME NEW keys \in Seq(Keys), Sorted(keys), NEW keep \in Nat, keep + 1 <= Len(keys),
         NEW k \in Keys, NEW j \in 0 .. keep, NEW half, half = SubSeq(keys, 1, keep)
  PROVE  Position(keys, k, j) <=> Position(half, k, j) /\ k <= keys[keep + 1]
<1>1. /\ DOMAIN keys = 1 .. Len(keys) /\ Len(keys) \in Nat
      /\ \A h \in 1 .. Len(keys) : keys[h] \in Nat
      /\ k \in Nat
  BY KeysAreNumbers, KeyAssumption
<1>2. /\ DOMAIN half = 1 .. keep /\ Len(half) = keep
      /\ \A h \in 1 .. keep : half[h] = keys[h]
  BY <1>1
<1>3. keep + 1 \in DOMAIN keys /\ \A h \in DOMAIN keys : h > keep + 1 => keys[keep + 1] < keys[h]
  BY <1>1 DEF Sorted
<1>4. Position(half, k, j) <=> \A i \in 1 .. keep : IF i <= j THEN keys[i] < k ELSE k <= keys[i]
  BY <1>2 DEF Position
<1>5. Position(keys, k, j) <=> \A i \in DOMAIN keys : IF i <= j THEN keys[i] < k ELSE k <= keys[i]
  BY <1>1 DEF Position
<1>6. ASSUME Position(keys, k, j) PROVE Position(half, k, j) /\ k <= keys[keep + 1]
  <2>1. \A i \in 1 .. keep : i \in DOMAIN keys
    BY <1>1
  <2>2. ~(keep + 1 <= j)
    OBVIOUS
  <2> QED
    BY <1>3, <1>4, <1>5, <1>6, <2>1, <2>2
<1>7. ASSUME Position(half, k, j), k <= keys[keep + 1] PROVE Position(keys, k, j)
  <2>1. ASSUME NEW i \in DOMAIN keys PROVE IF i <= j THEN keys[i] < k ELSE k <= keys[i]
    <3>1. CASE i <= keep
      BY <1>1, <1>4, <1>7, <3>1
    <3>2. CASE i = keep + 1
      BY <1>7, <3>2
    <3>3. CASE i > keep + 1
      BY <1>1, <1>3, <1>7, <3>3
    <3> QED
      BY <1>1, <3>1, <3>2, <3>3
  <2> QED
    BY <1>5, <2>1
<1> QED
  BY <1>6, <1>7

\* Above the key that goes up.
LEMMA PositionRight ==
  ASSUME NEW keys \in Seq(Keys), Sorted(keys), NEW keep \in Nat, keep + 1 <= Len(keys),
         NEW k \in Keys, NEW j \in 0 .. Len(keys) - keep - 1,
         NEW half, half = SubSeq(keys, keep + 2, Len(keys))
  PROVE  Position(keys, k, keep + 1 + j) <=> Position(half, k, j) /\ keys[keep + 1] < k
<1>1. /\ DOMAIN keys = 1 .. Len(keys) /\ Len(keys) \in Nat
      /\ \A h \in 1 .. Len(keys) : keys[h] \in Nat
      /\ k \in Nat
  BY KeysAreNumbers, KeyAssumption
<1> DEFINE last == Len(keys) - keep - 1
<1>2. /\ DOMAIN half = 1 .. last /\ Len(half) = last /\ last \in Nat
      /\ \A h \in 1 .. last : half[h] = keys[keep + 1 + h]
  <2>1. keep + 2 <= Len(keys) + 1 /\ Len(keys) - (keep + 2) + 1 = last /\ keep + 2 \in Nat
    BY <1>1
  <2>2. /\ half \in Seq(Keys) /\ Len(half) = last
        /\ \A h \in 1 .. last : half[h] = keys[keep + 2 + h - 1]
    <3>1. Len(keys) \in Nat /\ 1 <= keep + 2 /\ Len(keys) <= Len(keys) /\ keys \in Seq(Keys)
      BY <1>1
    <3>2. /\ half \in Seq(Keys) /\ Len(half) = Len(keys) - (keep + 2) + 1
          /\ \A h \in 1 .. Len(keys) - (keep + 2) + 1 : half[h] = keys[keep + 2 + h - 1]
      <4> DEFINE from == keep + 2
                 to == Len(keys)
      <4> HIDE DEF from, to
      <4>1. from \in Nat /\ to \in Nat /\ 1 <= from /\ to <= Len(keys) /\ from <= to + 1
        BY <2>1, <3>1 DEF from, to
      <4>2. /\ SubSeq(keys, from, to) \in Seq(Keys) /\ Len(SubSeq(keys, from, to)) = to - from + 1
            /\ \A h \in 1 .. to - from + 1 : SubSeq(keys, from, to)[h] = keys[from + h - 1]
        BY <3>1, <4>1, SegmentAt
      <4> QED
        BY <4>2 DEF from, to
    <3> QED
      BY <2>1, <3>2
  <2>3. \A h \in 1 .. last : keep + 2 + h - 1 = keep + 1 + h
    BY <1>1
  <2>4. last \in Nat /\ DOMAIN half = 1 .. last
    <3>1. last \in Nat
      BY <1>1
    <3>2. DOMAIN half = 1 .. Len(half)
      BY <2>2
    <3> QED
      BY <2>2, <3>1, <3>2
  <2> QED
    BY <2>2, <2>3, <2>4
<1>3. keep + 1 \in DOMAIN keys /\ \A h \in DOMAIN keys : h < keep + 1 => keys[h] < keys[keep + 1]
  <2>1. keep + 1 \in DOMAIN keys
    BY <1>1
  <2> QED
    BY <2>1 DEF Sorted
<1>4. Position(half, k, j) <=>
        \A h \in 1 .. last : IF h <= j THEN keys[keep + 1 + h] < k ELSE k <= keys[keep + 1 + h]
  BY <1>2 DEF Position
<1>5. Position(keys, k, keep + 1 + j) <=>
        \A i \in DOMAIN keys : IF i <= keep + 1 + j THEN keys[i] < k ELSE k <= keys[i]
  <2>1. keep + 1 + j \in 0 .. Len(keys)
    BY <1>1
  <2> QED
    BY <2>1 DEF Position
<1>6. ASSUME Position(keys, k, keep + 1 + j) PROVE Position(half, k, j) /\ keys[keep + 1] < k
  <2>1. \A h \in 1 .. last : keep + 1 + h \in DOMAIN keys /\ (keep + 1 + h <= keep + 1 + j <=> h <= j)
    BY <1>1
  <2>2. keep + 1 <= keep + 1 + j
    BY <1>1
  <2> QED
    BY <1>3, <1>4, <1>5, <1>6, <2>1, <2>2
<1>7. ASSUME Position(half, k, j), keys[keep + 1] < k PROVE Position(keys, k, keep + 1 + j)
  <2>1. ASSUME NEW i \in DOMAIN keys
        PROVE IF i <= keep + 1 + j THEN keys[i] < k ELSE k <= keys[i]
    <3>1. CASE i <= keep + 1
      <4>1. i <= keep + 1 + j /\ (i = keep + 1 \/ i < keep + 1)
        BY <1>1, <3>1
      <4>2. keys[i] < k
        BY <1>1, <1>3, <1>7, <4>1
      <4> QED
        BY <4>1, <4>2
    <3>2. CASE i > keep + 1
      <4>1. PICK h \in 1 .. last : keep + 1 + h = i
        <5>1. i \in Int /\ keep \in Int /\ Len(keys) \in Int
          BY <1>1
        <5>2. i - keep - 1 \in 1 .. last
          BY <1>1, <3>2, <5>1
        <5>3. keep + 1 + (i - keep - 1) = i
          BY <5>1
        <5> QED
          BY <5>2, <5>3
      <4>2. (h <= j) <=> (i <= keep + 1 + j)
        BY <1>1, <4>1
      <4> QED
        BY <1>4, <1>7, <4>1, <4>2
    <3> QED
      BY <1>1, <3>1, <3>2
  <2> QED
    BY <1>5, <2>1
<1> QED
  BY <1>6, <1>7

-----------------------------------------------------------------------------
(* Which keys belong where.  Two functions on the nodes say it: c[n] are    *)
(* the keys that a search finds in node n, or below it, and s[n] those that *)
(* the parent of n sends there.  They differ while n has been split and its *)
(* new half is not linked yet.                                              *)

Inners == {n \in Nodes : IsInner(n)}

\* Thread t has split its node, and the new half has no parent.
Pending(t) == pc[t] \in {"linkParent", "makeRoot"}

\* The keys of a node are in order, and are among those that belong there.
NodeCovers(c, s, n) ==
  /\ c[n] \subseteq Keys /\ s[n] \subseteq Keys
  /\ Sorted(tree[n].keys)
  /\ \A i \in DOMAIN tree[n].keys : tree[n].keys[i] \in c[n]
  /\ c[n] = s[n] \/ \E t \in Threads : Pending(t) /\ node[t] = n

\* No key belongs to two leaves.
LeavesApart(c) == \A m, n \in Leaves : \A k : k \in c[m] /\ k \in c[n] => m = n

\* An inner node sends every key of its own to one child.
Routes(c, s, p) ==
  \A i \in DOMAIN tree[p].kids : \A k \in Keys :
    k \in s[tree[p].kids[i]] <=> k \in c[p] /\ Position(tree[p].keys, k, i - 1)

\* A node has one parent, and the root has none.
IsKid(n) == \E p \in Inners : \E i \in DOMAIN tree[p].kids : tree[p].kids[i] = n

OneParent ==
  /\ \A p, q \in Inners : \A i \in DOMAIN tree[p].kids : \A j \in DOMAIN tree[q].kids :
       tree[p].kids[i] = tree[q].kids[j] => p = q /\ i = j
  /\ ~IsKid(root)

\* The halves of a node that has been split share its keys.
Shares(c, s, n, e, m) ==
  /\ e \in s[n] /\ s[m] = c[m] /\ \E k \in Keys : k \in c[m]
  /\ \A k \in Keys : /\ k \in c[n] <=> k \in s[n] /\ k <= e
                     /\ k \in c[m] <=> k \in s[n] /\ e < k

Halved(c, s, t) == Pending(t) =>
  /\ sep[t].new \in Nodes /\ sep[t].new # root /\ ~IsKid(sep[t].new)
  /\ Shares(c, s, node[t], sep[t].key, sep[t].new)

\* No half is linked by two threads.
HalvesApart == \A t, u \in Threads :
  Pending(t) /\ Pending(u) /\ sep[t].new = sep[u].new => t = u

\* If the parent has not moved, the key belongs to it and it has sent the thread
\* to the node; under its lock it still has the node for a child.
SeeksBelow(c, t) ==
  /\ pc[t] \in {"readRoot", "lockRoot", "checkRoot"} => parent[t] = None
  /\ parent[t] # None /\ Intact(parent[t], vParent[t]) =>
       op[t].key \in c[parent[t]] /\ node[t] = ChildFor(parent[t], op[t].key)
  /\ pc[t] \in {"lockSplit", "split", "linkParent"} /\ parent[t] # None =>
       \E i \in DOMAIN tree[parent[t]].kids : tree[parent[t]].kids[i] = node[t]
  /\ pc[t] \in {"split", "makeRoot"} /\ parent[t] = None => node[t] = root
  /\ pc[t] \in {"checkParent", "leafParent", "lookupParent"} => parent[t] # None

\* The places where a thread knows that the key belongs to its node, if that has
\* not moved.
Arrived(t) ==
  \/ pc[t] \in {"readChild", "lookupLeaf"}
  \/ parent[t] = None /\ pc[t] \in {"visit", "lockLeaf", "readLeaf"}

\* Then a lookup has the answer; and an insert into a locked leaf is in the
\* right one.
SeeksHere(c, t) ==
  /\ Arrived(t) /\ Intact(node[t], vNode[t]) => op[t].key \in c[node[t]]
  /\ pc[t] = "insert" => op[t].key \in c[node[t]]
  /\ pc[t] \in {"lookupParent", "lookupLeaf"} /\ Intact(node[t], vNode[t]) =>
       result[t] = ValueIn(node[t], op[t].key)
  /\ pc[t] \in {"readLeaf", "lookupParent", "lookupLeaf"} => op[t] \in Lookups

Seeks(c, t) == SeeksBelow(c, t) /\ SeeksHere(c, t)

\* The tree is a search tree for the keys c and s give to the nodes.
Mapped(c, s) ==
  /\ \A n \in Nodes : NodeCovers(c, s, n)
  /\ LeavesApart(c)
  /\ \A p \in Inners : Routes(c, s, p)
  /\ OneParent /\ s[root] = Keys
  /\ \A t \in Threads : Halved(c, s, t)
  /\ HalvesApart
  /\ \A t \in Threads : Seeks(c, t)

\* The inductive invariant of the search tree.
MInv == \E c, s : Mapped(c, s)

-----------------------------------------------------------------------------
\* What a step of thread t does at least.
StepOf(t) ==
  /\ Others(t) /\ OtherTasks(t) /\ Nodes \subseteq Nodes'
  /\ \A n \in Nodes : NodeStep(t, n)

\* What belongs to a node changes under its lock only.
Reassigns(t, c, d) == \A n \in Nodes : d[n] = c[n] \/ Holds(t, n)

\* A free node has not been split, nor one that its owner has not split.
LEMMA FreeIsWhole ==
  ASSUME IInv, NEW c, NEW s, Mapped(c, s), NEW n \in Nodes,
         ~IsLocked(tree[n].word) \/ \E t \in Threads : Holds(t, n) /\ ~Pending(t)
  PROVE  c[n] = s[n]
<1>1. ASSUME NEW u \in Threads, Pending(u), node[u] = n PROVE FALSE
  <2>1. Holds(u, n)
    BY <1>1 DEF Pending, Holds, IInv, ThreadOK
  <2>2. LockOK(n)
    BY DEF IInv
  <2> QED
    BY <1>1, <2>1, <2>2 DEF LockOK
<1> QED
  BY <1>1 DEF Mapped, NodeCovers

\* Where a parent that has not moved sends a thread, the key belongs.
LEMMA SentThere ==
  ASSUME IInv, RInv, NEW c, NEW s, Mapped(c, s), NEW t \in Threads, parent[t] # None,
         Intact(parent[t], vParent[t])
  PROVE  /\ op[t].key \in s[node[t]]
         /\ \E i \in DOMAIN tree[parent[t]].kids : tree[parent[t]].kids[i] = node[t]
<1> DEFINE p == parent[t]
           k == op[t].key
           i == LowerBound(tree[p].keys, k) + 1
<1>1. p \in Inners /\ k \in c[p] /\ node[t] = ChildFor(p, k)
  BY DEF IInv, ThreadOK, RInv, Knows, KnowsParent, Mapped, Seeks, SeeksBelow, Inners
<1>2. k \in Keys /\ Sorted(tree[p].keys) /\ Routes(c, s, p)
  BY <1>1 DEF Mapped, NodeCovers, Inners
<1>3. /\ tree[p].keys \in Seq(Keys) /\ tree[p].kids \in Seq(Nodes)
      /\ Len(tree[p].kids) = Len(tree[p].keys) + 1
  BY <1>1 DEF RInv, ContentsOK, ContentOK, Inners, IsInner
<1>4. Position(tree[p].keys, k, LowerBound(tree[p].keys, k))
  BY <1>2, <1>3, LowerBoundIsThere
<1>5. LowerBound(tree[p].keys, k) \in 0 .. Len(tree[p].keys)
  BY <1>4 DEF Position
<1>6. tree[p].kids[i] = node[t]
  BY <1>1 DEF ChildFor
<1> HIDE DEF p, k
<1>7. i \in DOMAIN tree[p].kids /\ i - 1 = LowerBound(tree[p].keys, k)
  BY <1>3, <1>5
<1> HIDE DEF i
<1>8. k \in s[tree[p].kids[i]]
  BY <1>1, <1>2, <1>4, <1>7 DEF Routes
<1> QED
  BY <1>6, <1>7, <1>8 DEF p, k

\* What a thread knows of its parent it knows after a step, another thread's or
\* one of its own along the path.
LEMMA BelowStands ==
  ASSUME IInv, RInv, NEW t \in Threads, StepOf(t), NEW u \in Threads, NEW c, NEW d,
         Reassigns(t, c, d), SeeksBelow(c, u), node'[u] = node[u], parent'[u] = parent[u],
         vParent'[u] = vParent[u], op'[u] = op[u]
  PROVE  parent'[u] # None /\ Intact(parent[u], vParent[u])' =>
           op'[u].key \in d[parent'[u]] /\ node'[u] = ChildFor(parent[u], op[u].key)'
<1> SUFFICES ASSUME parent'[u] # None, Intact(parent[u], vParent[u])'
             PROVE  op'[u].key \in d[parent'[u]] /\ node'[u] = ChildFor(parent[u], op[u].key)'
  OBVIOUS
<1> DEFINE p == parent[u]
<1>1. /\ p \in Nodes /\ vParent[u] \in Nat /\ ~IsLocked(vParent[u])
      /\ vParent[u] <= tree[p].word
  BY DEF IInv, ThreadOK, RInv, Knows, KnowsParent
<1>2. tree'[p] = tree[p] /\ tree[p].word = vParent[u]
  <2>1. NodeStep(t, p)
    BY <1>1 DEF StepOf
  <2>2. tree'[p].word = vParent[u]
    BY DEF Intact
  <2> QED
    BY <1>1, <2>1, <2>2, VersionTells
<1>3. d[p] = c[p]
  <2>1. ~Holds(t, p)
    BY <1>1, <1>2 DEF IInv, LockOK
  <2> QED
    BY <1>1, <2>1 DEF Reassigns
<1>4. op[u].key \in c[p] /\ node[u] = ChildFor(p, op[u].key)
  BY <1>2 DEF SeeksBelow, Intact
<1>5. ChildFor(parent[u], op[u].key)' = ChildFor(p, op[u].key)
  BY <1>2 DEF ChildFor
<1> QED
  BY <1>3, <1>4, <1>5

\* What another thread seeks, it seeks after the step of t.
LEMMA SeeksStands ==
  ASSUME IInv, RInv, NEW t \in Threads, StepOf(t), NEW c, NEW d, Reassigns(t, c, d),
         root' = root \/ Holds(t, root), NEW u \in Threads, u # t, Seeks(c, u)
  PROVE  Seeks(d, u)'
<1>1. /\ pc'[u] = pc[u] /\ node'[u] = node[u] /\ parent'[u] = parent[u]
      /\ vNode'[u] = vNode[u] /\ vParent'[u] = vParent[u]
      /\ op'[u] = op[u] /\ result'[u] = result[u]
  BY DEF StepOf, Others, OtherTasks
<1>2. ThreadOK(u) /\ Knows(u)
  BY DEF IInv, RInv
<1>3. SeeksBelow(d, u)'
  <2>1. parent'[u] # None /\ Intact(parent[u], vParent[u])' =>
          op'[u].key \in d[parent'[u]] /\ node'[u] = ChildFor(parent[u], op[u].key)'
    BY <1>1, BelowStands DEF Seeks
  <2>2. ASSUME pc[u] \in {"lockSplit", "split", "linkParent"}, parent[u] # None
        PROVE  tree'[parent[u]] = tree[parent[u]]
    <3>1. parent[u] \in Nodes /\ Holds(u, parent[u])
      BY <1>2, <2>2 DEF ThreadOK, Holds
    <3> QED
      BY <3>1, LockKeepsOthersOut DEF StepOf
  <2>3. ASSUME pc[u] \in {"split", "makeRoot"}, parent[u] = None
        PROVE  node[u] = root'
    <3>1. node[u] = root /\ Holds(u, root) /\ root \in Nodes
      BY <2>3 DEF Seeks, SeeksBelow, Holds, IInv, TreeOK
    <3>2. ~Holds(t, root)
      BY <3>1 DEF IInv, LockOK
    <3> QED
      BY <3>1, <3>2
  <2> QED
    BY <1>1, <2>1, <2>2, <2>3 DEF Seeks, SeeksBelow
<1>4. SeeksHere(d, u)'
  <2> DEFINE n == node[u]
  <2>1. ASSUME pc[u] \in Versioned, Intact(node[u], vNode[u])'
        PROVE  tree'[n] = tree[n] /\ tree[n].word = vNode[u] /\ d[n] = c[n]
    <3>1. n \in Nodes /\ vNode[u] \in Nat /\ ~IsLocked(vNode[u]) /\ vNode[u] <= tree[n].word
      BY <1>2, <2>1 DEF ThreadOK, Versioned, Knows, KnowsNode
    <3>2. tree'[n] = tree[n] /\ tree[n].word = vNode[u]
      <4>1. NodeStep(t, n) /\ tree'[n].word = vNode[u]
        BY <1>1, <2>1, <3>1 DEF StepOf, Intact
      <4> QED
        BY <3>1, <4>1, VersionTells
    <3>3. ~Holds(t, n)
      BY <3>1, <3>2 DEF IInv, LockOK
    <3> QED
      BY <3>1, <3>2, <3>3 DEF Reassigns
  <2>2. pc[u] = "insert" => d[n] = c[n]
    <3>1. pc[u] = "insert" => n \in Nodes /\ Holds(u, n)
      BY <1>2 DEF ThreadOK, AtNode, Holds
    <3> QED
      BY <3>1 DEF Reassigns, IInv, LockOK
  <2>3. Arrived(u)' <=> Arrived(u)
    BY <1>1 DEF Arrived
  <2>4. Arrived(u) => pc[u] \in Versioned
    BY DEF Arrived, Versioned, AtNode
  <2>5. pc[u] \in {"lookupParent", "lookupLeaf"} => pc[u] \in Versioned
    BY DEF Versioned, AtNode
  <2>6. ASSUME tree'[n] = tree[n], tree[n].word = vNode[u]
        PROVE  Intact(n, vNode[u]) /\ ValueIn(node[u], op[u].key)' = ValueIn(n, op[u].key)
    BY <1>1, <2>6 DEF Intact, ValueIn
  <2> HIDE DEF n
  <2>7. node'[u] = n /\ node[u] = n
    BY <1>1 DEF n
  <2>8. Arrived(u)' /\ Intact(node[u], vNode[u])' => op'[u].key \in d[node'[u]]
    BY <1>1, <2>1, <2>3, <2>4, <2>6, <2>7 DEF Seeks, SeeksHere
  <2>9. pc'[u] = "insert" => op'[u].key \in d[node'[u]]
    BY <1>1, <2>2, <2>7 DEF Seeks, SeeksHere
  <2>10. pc'[u] \in {"lookupParent", "lookupLeaf"} /\ Intact(node[u], vNode[u])' =>
           result'[u] = ValueIn(node[u], op[u].key)'
    BY <1>1, <2>1, <2>5, <2>6, <2>7 DEF Seeks, SeeksHere
  <2>11. pc'[u] \in {"readLeaf", "lookupParent", "lookupLeaf"} => op'[u] \in Lookups
    BY <1>1 DEF Seeks, SeeksHere
  <2> QED
    BY <2>8, <2>9, <2>10, <2>11 DEF SeeksHere
<1> QED
  BY <1>3, <1>4 DEF Seeks

\* A step keeps the shape of the tree: the inner nodes have the children and the
\* keys they had, and the keys of a leaf belong there.
KeepsShape(t, c) ==
  /\ Nodes' = Nodes /\ root' = root /\ ~Pending(t) /\ ~Pending(t)'
  /\ \A n \in Nodes : /\ tree'[n].type = tree[n].type
                      /\ IsInner(n) => tree'[n].keys = tree[n].keys /\ tree'[n].kids = tree[n].kids
                      /\ Sorted(tree'[n].keys)
                      /\ \A i \in DOMAIN tree'[n].keys : tree'[n].keys[i] \in c[n]

\* Such a step keeps the search tree, if its thread is where it should be.
LEMMA ShapeKept ==
  ASSUME IInv, RInv, NEW c, NEW s, Mapped(c, s), NEW t \in Threads, StepOf(t),
         KeepsShape(t, c), Seeks(c, t)'
  PROVE  Mapped(c, s)'
<1>1. /\ Nodes' = Nodes /\ Inners' = Inners /\ Leaves' = Leaves /\ root' = root
      /\ \A p \in Inners : tree'[p].keys = tree[p].keys /\ tree'[p].kids = tree[p].kids
  BY DEF KeepsShape, Inners, Leaves, IsInner
<1>2. \A u \in Threads : Pending(u)' <=> Pending(u)
  BY DEF KeepsShape, StepOf, Others, Pending
<1>3. \A u \in Threads : Pending(u) => u # t /\ node'[u] = node[u] /\ sep'[u] = sep[u]
  BY DEF KeepsShape, StepOf, Others, OtherTasks
<1>4. \A n : IsKid(n)' <=> IsKid(n)
  BY <1>1 DEF IsKid
<1>5. \A n \in Nodes : NodeCovers(c, s, n)'
  <2> SUFFICES ASSUME NEW n \in Nodes PROVE NodeCovers(c, s, n)'
    OBVIOUS
  <2>1. NodeCovers(c, s, n)
    BY DEF Mapped
  <2>2. c[n] = s[n] \/ \E u \in Threads : Pending(u)' /\ node'[u] = n
    BY <1>2, <1>3, <2>1 DEF NodeCovers
  <2>3. Sorted(tree'[n].keys) /\ \A i \in DOMAIN tree'[n].keys : tree'[n].keys[i] \in c[n]
    BY DEF KeepsShape
  <2> QED
    BY <2>1, <2>2, <2>3 DEF NodeCovers
<1>6. LeavesApart(c)'
  BY <1>1 DEF Mapped, LeavesApart
<1>7. \A p \in Inners : Routes(c, s, p)'
  BY <1>1 DEF Mapped, Routes
<1>8. OneParent'
  BY <1>1, <1>4 DEF Mapped, OneParent
<1>9. \A u \in Threads : Halved(c, s, u)'
  <2> SUFFICES ASSUME NEW u \in Threads, Pending(u) PROVE Halved(c, s, u)'
    BY <1>2 DEF Halved
  <2>1. Halved(c, s, u)
    BY DEF Mapped
  <2> QED
    BY <1>1, <1>3, <1>4, <2>1 DEF Halved, Shares
<1>10. HalvesApart'
  BY <1>2, <1>3 DEF Mapped, HalvesApart
<1>11. \A u \in Threads : Seeks(c, u)'
  <2> SUFFICES ASSUME NEW u \in Threads, u # t PROVE Seeks(c, u)'
    OBVIOUS
  <2>1. Seeks(c, u)
    BY DEF Mapped
  <2> QED
    BY <1>1, <2>1, SeeksStands DEF Reassigns
<1> QED
  BY <1>1, <1>5, <1>6, <1>7, <1>8, <1>9, <1>10, <1>11 DEF Mapped

\* A step that changes the word of a node at most.
LEMMA ContentsKept ==
  ASSUME IInv, RInv, NEW c, NEW s, Mapped(c, s), NEW t \in Threads, StepOf(t),
         Nodes' = Nodes, root' = root, ~Pending(t), ~Pending(t)',
         \A n \in Nodes : /\ tree'[n].type = tree[n].type /\ tree'[n].keys = tree[n].keys
                          /\ tree'[n].kids = tree[n].kids,
         Seeks(c, t)'
  PROVE  Mapped(c, s)'
<1>1. \A n \in Nodes : NodeCovers(c, s, n)
  BY DEF Mapped
<1>2. KeepsShape(t, c)
  BY <1>1 DEF KeepsShape, NodeCovers
<1> QED
  BY <1>2, ShapeKept

\* A step that writes no node.
LEMMA QuietKept ==
  ASSUME IInv, RInv, NEW c, NEW s, Mapped(c, s), NEW t \in Threads, Others(t), OtherTasks(t),
         tree' = tree, root' = root, ~Pending(t), ~Pending(t)', Seeks(c, t)'
  PROVE  Mapped(c, s)'
<1>1. Nodes' = Nodes
  BY DEF Nodes
<1>2. \A n \in Nodes : NodeStep(t, n)
  BY DEF NodeStep, IInv, TreeOK, IsNode
<1>3. StepOf(t)
  BY <1>1, <1>2 DEF StepOf
<1> QED
  BY <1>1, <1>3, ContentsKept

-----------------------------------------------------------------------------
(* The steps that write no keys and no children.                           *)

\* A thread without a path seeks nothing.
LEMMA NothingSought ==
  ASSUME NEW c, NEW t \in Threads, parent'[t] = None,
         pc'[t] \in {"idle", "readRoot", "lockRoot", "checkRoot"}
  PROVE  Seeks(c, t)' /\ ~Pending(t)'
BY DEF Seeks, SeeksBelow, SeeksHere, Arrived, Pending

\* Starting over, with nothing written.
LEMMA RestartSeeks ==
  ASSUME IInv, RInv, NEW c, NEW s, Mapped(c, s), NEW t \in Threads, Restart(t),
         tree' = tree, root' = root, OtherTasks(t), ~Pending(t)
  PROVE  Mapped(c, s)'
<1>1. Others(t) /\ pc'[t] = "readRoot"
  BY RestartMoves
<1>2. parent'[t] = None
  BY DEF Restart, Forget, IInv, PerThread
<1> QED
  BY <1>1, <1>2, NothingSought, QuietKept

\* A step along the path.
LEMMA GotoSeeks ==
  ASSUME IInv, RInv, NEW c, NEW s, Mapped(c, s), NEW t \in Threads, NEW p, Goto(t, p),
         UNCHANGED path, tree' = tree, root' = root, op' = op, OtherTasks(t),
         ~Pending(t), p \notin {"linkParent", "makeRoot", "readRoot", "lockRoot", "checkRoot"},
         p \in {"lockSplit", "split"} /\ parent[t] # None => pc[t] = "lockSplit",
         p = "split" /\ parent[t] = None => node[t] = root,
         p \in {"checkParent", "leafParent", "lookupParent"} => parent[t] # None,
         SeeksHere(c, t)'
  PROVE  Mapped(c, s)'
<1>1. /\ Others(t) /\ pc'[t] = p /\ node' = node /\ parent' = parent /\ vNode' = vNode
      /\ vParent' = vParent
  BY GotoMoves
<1>2. Seeks(c, t)
  BY DEF Mapped
<1>3. SeeksBelow(c, t)'
  BY <1>1, <1>2 DEF Seeks, SeeksBelow, Intact, ChildFor
<1> QED
  BY <1>1, <1>3, QuietKept DEF Seeks, Pending

\* Calling and returning.
LEMMA CallSeeks ==
  ASSUME IInv, RInv, NEW c, NEW s, Mapped(c, s), NEW t \in Threads,
         Begin(t) \/ ReturnLookup(t)
  PROVE  Mapped(c, s)'
<1>1. tree' = tree /\ root' = root /\ sep' = sep
  BY DEF Begin, ReturnLookup, shape
<1>2. RInv' /\ ~Pending(t)
  BY BeginKnows, LookupKnows DEF Begin, ReturnLookup, Lookup, At, Pending
<1>3. Others(t) /\ parent'[t] = None /\ pc'[t] \in {"idle", "readRoot"}
  <2>1. CASE Begin(t)
    BY <2>1, RestartMoves DEF Begin, Restart, Forget, IInv, PerThread
  <2>2. CASE ReturnLookup(t)
    BY <2>2, ForgetMoves DEF ReturnLookup, Return, Forget, AtNode, IInv, PerThread
  <2> QED
    BY <2>1, <2>2
<1>4. OtherTasks(t)
  BY <1>1, <1>2 DEF Begin, ReturnLookup, Return, RInv, OtherTasks, TasksPerThread
<1> QED
  BY <1>1, <1>2, <1>3, <1>4, NothingSought, QuietKept

\* Every key belongs to the root, and a node whose version was just found to be
\* that of a free one has all its keys.
LEMMA RootHasAll ==
  ASSUME IInv, NEW c, NEW s, Mapped(c, s), ~IsLocked(tree[root].word)
  PROVE  c[root] = Keys
<1>1. root \in Nodes /\ s[root] = Keys
  BY DEF IInv, TreeOK, Mapped
<1> QED
  BY <1>1, FreeIsWhole

\* What a thread is asked for is a key.
LEMMA AskedForKey ==
  ASSUME RInv, NEW t \in Threads, pc[t] # "idle"
  PROVE  op[t].key \in Keys
BY DEF RInv, Knows, KnowsTask, Inserts, Lookups

\* The root is read and its version taken.
LEMMA ToRootSeeks ==
  ASSUME IInv, RInv, NEW c, NEW s, Mapped(c, s), NEW t \in Threads,
         ReadRoot(t) \/ LockRoot(t) \/ CheckRoot(t)
  PROVE  Mapped(c, s)'
<1>1. /\ tree' = tree /\ root' = root /\ op' = op /\ OtherTasks(t)
      /\ pc[t] \in {"readRoot", "lockRoot", "checkRoot"} /\ ~Pending(t)
  BY TasksStay DEF ReadRoot, LockRoot, CheckRoot, shape, workload, At, Pending
<1>2. parent[t] = None
  BY <1>1 DEF Mapped, Seeks, SeeksBelow
<1>3. CASE Restart(t)
  BY <1>1, <1>3, RestartSeeks
<1>4. CASE ReadRoot(t) \/ (LockRoot(t) /\ ~Restart(t))
  <2>1. Others(t) /\ parent' = parent /\ pc'[t] \in {"lockRoot", "checkRoot"}
    BY <1>4 DEF ReadRoot, LockRoot, LockNode, Goto, IInv, PerThread, Others
  <2> QED
    BY <1>1, <1>2, <2>1, NothingSought, QuietKept
<1>5. CASE CheckRoot(t) /\ ~Restart(t)
  <2>1. Goto(t, "visit") /\ UNCHANGED path /\ node[t] = root /\ result' = result
    BY <1>5 DEF CheckRoot
  <2>2. /\ Others(t) /\ pc'[t] = "visit" /\ node' = node /\ vNode' = vNode
    BY <2>1, GotoMoves
  <2>3. Intact(node[t], vNode[t]) => op[t].key \in c[node[t]]
    <3>1. ~IsLocked(vNode[t])
      BY DEF IInv, ThreadOK
    <3> QED
      BY <1>1, <2>1, <3>1, AskedForKey, RootHasAll DEF Intact
  <2>4. SeeksHere(c, t)'
    BY <1>1, <2>2, <2>3 DEF SeeksHere, Arrived, Intact
  <2> QED
    BY <1>1, <2>1, <2>4, GotoSeeks
<1> QED
  BY <1>3, <1>4, <1>5

\* The test of a node leads on.
LEMMA VisitSeeks ==
  ASSUME IInv, RInv, NEW c, NEW s, Mapped(c, s), NEW t \in Threads, Visit(t)
  PROVE  Mapped(c, s)'
<1>1. /\ pc[t] = "visit" /\ tree' = tree /\ root' = root /\ UNCHANGED path
      /\ op' = op /\ result' = result /\ OtherTasks(t) /\ ~Pending(t)
  BY TasksStay DEF Visit, At, shape, workload, Pending
<1>2. PICK p : /\ Goto(t, p)
               /\ \/ p = "lockParent" /\ parent[t] # None
                  \/ p = "lockSplit" /\ parent[t] = None
                  \/ p = "checkParent" /\ parent[t] # None
                  \/ p = "readChild" /\ parent[t] = None
                  \/ p = "lockLeaf"
                  \/ p = "readLeaf" /\ op[t].kind # "insert"
  <2>1. PICK full \in BOOLEAN :
          Goto(t, CASE op[t].kind = "insert" /\ full ->
                         IF parent[t] # None THEN "lockParent" ELSE "lockSplit"
                    [] ~(op[t].kind = "insert" /\ full) /\ IsInner(node[t]) ->
                         IF parent[t] # None THEN "checkParent" ELSE "readChild"
                    [] OTHER ->
                         IF op[t].kind = "insert" THEN "lockLeaf" ELSE "readLeaf")
    BY DEF Visit
  <2>2. CASE op[t].kind = "insert" /\ full
    <3>1. Goto(t, IF parent[t] # None THEN "lockParent" ELSE "lockSplit")
      BY <2>1, <2>2
    <3> QED
      BY <3>1
  <2>3. CASE ~(op[t].kind = "insert" /\ full) /\ IsInner(node[t])
    <3>1. Goto(t, IF parent[t] # None THEN "checkParent" ELSE "readChild")
      BY <2>1, <2>3
    <3> QED
      BY <3>1
  <2>4. CASE ~(op[t].kind = "insert" /\ full) /\ ~IsInner(node[t])
    <3>1. Goto(t, IF op[t].kind = "insert" THEN "lockLeaf" ELSE "readLeaf")
      BY <2>1, <2>4
    <3> QED
      BY <3>1
  <2> QED
    BY <2>2, <2>3, <2>4
<1>3. /\ pc'[t] = p /\ node' = node /\ parent' = parent /\ vNode' = vNode
  BY <1>1, <1>2, GotoMoves
<1>4. op[t].kind # "insert" => op[t] \in Lookups
  BY <1>1 DEF RInv, Knows, KnowsTask, Inserts, Lookups
<1>5. Intact(node[t], vNode[t]) /\ parent[t] = None => op[t].key \in c[node[t]]
  BY <1>1 DEF Mapped, Seeks, SeeksHere, Arrived
<1>6. SeeksHere(c, t)'
  BY <1>1, <1>2, <1>3, <1>4, <1>5 DEF SeeksHere, Arrived, Intact
<1> QED
  BY <1>1, <1>2, <1>6, GotoSeeks

\* The parent has not moved: the key belongs to the node, if that has not
\* moved either, for then it is not being split.
LEMMA ParentVouches ==
  ASSUME IInv, RInv, NEW c, NEW s, Mapped(c, s), NEW t \in Threads,
         pc[t] \in {"checkParent", "leafParent", "lookupParent"}, parent[t] # None,
         Intact(parent[t], vParent[t]), Intact(node[t], vNode[t]) \/ pc[t] = "leafParent"
  PROVE  op[t].key \in c[node[t]]
<1>1. op[t].key \in s[node[t]]
  BY SentThere
<1>2. node[t] \in Nodes /\ ~IsLocked(vNode[t]) /\ ~Pending(t)
  BY DEF IInv, ThreadOK, AtNode, Pending
<1>3. pc[t] = "leafParent" => Holds(t, node[t])
  BY DEF Holds
<1>4. c[node[t]] = s[node[t]]
  BY <1>2, <1>3, FreeIsWhole DEF Intact
<1> QED
  BY <1>1, <1>4

\* The node has been read, and the child is the one for the key.
LEMMA ReadChildSeeks ==
  ASSUME IInv, RInv, NEW c, NEW s, Mapped(c, s), NEW t \in Threads, ReadChild(t)
  PROVE  Mapped(c, s)'
<1>1. /\ pc[t] = "readChild" /\ tree' = tree /\ root' = root /\ op' = op /\ OtherTasks(t)
      /\ ~Pending(t)
  BY TasksStay DEF ReadChild, At, shape, workload, Pending
<1>2. /\ Others(t) /\ pc'[t] = "checkChild" /\ parent'[t] = node[t] /\ vParent'[t] = vNode[t]
      /\ node'[t] = IF Intact(node[t], vNode[t]) THEN ChildFor(node[t], op[t].key) ELSE Torn
  BY DEF ReadChild, Goto, IInv, PerThread, Others
<1>3. Intact(node[t], vNode[t]) => op[t].key \in c[node[t]]
  BY <1>1 DEF Mapped, Seeks, SeeksHere, Arrived
<1>4. SeeksBelow(c, t)'
  BY <1>1, <1>2, <1>3 DEF SeeksBelow, Intact, ChildFor
<1>5. SeeksHere(c, t)' /\ ~Pending(t)'
  BY <1>2 DEF SeeksHere, Arrived, Pending
<1> QED
  BY <1>1, <1>2, <1>4, <1>5, QuietKept DEF Seeks

\* The version of the child is taken.
LEMMA LockChildSeeks ==
  ASSUME IInv, RInv, NEW c, NEW s, Mapped(c, s), NEW t \in Threads, LockChild(t)
  PROVE  Mapped(c, s)'
<1>1. /\ pc[t] = "lockChild" /\ tree' = tree /\ root' = root /\ op' = op /\ OtherTasks(t)
      /\ ~Pending(t) /\ parent[t] # None
  BY TasksStay DEF LockChild, At, shape, workload, Pending, RInv, Knows, KnowsParent
<1>2. CASE Restart(t)
  BY <1>1, <1>2, RestartSeeks
<1>3. CASE ~Restart(t)
  <2>1. /\ Others(t) /\ pc'[t] = "visit" /\ parent' = parent /\ vParent' = vParent
        /\ node' = node
    BY <1>3 DEF LockChild, LockNode, Goto, IInv, PerThread, Others
  <2>2. Seeks(c, t)
    BY DEF Mapped
  <2>3. SeeksBelow(c, t)'
    BY <1>1, <2>1, <2>2 DEF Seeks, SeeksBelow, Intact, ChildFor
  <2>4. SeeksHere(c, t)' /\ ~Pending(t)'
    BY <1>1, <2>1 DEF SeeksHere, Arrived, Pending
  <2> QED
    BY <1>1, <2>1, <2>3, <2>4, QuietKept DEF Seeks
<1> QED
  BY <1>2, <1>3

\* The places where a thread tests something and writes nothing.
Testing == {"checkParent", "checkChild", "recheckRoot", "leafParent", "readLeaf",
            "lookupParent", "lookupLeaf"}

\* What has to be known where a test leads.
LEMMA TestSeeks ==
  ASSUME IInv, RInv, NEW c, NEW s, Mapped(c, s), NEW t \in Threads,
         \/ CheckParent(t) \/ CheckChild(t) \/ RecheckRoot(t) \/ LeafParent(t)
         \/ ReadLeaf(t) \/ LookupParent(t) \/ LookupLeaf(t)
  PROVE  Mapped(c, s)'
<1>1. /\ pc[t] \in Testing /\ tree' = tree /\ root' = root /\ op' = op /\ ~Pending(t)
  BY DEF CheckParent, CheckChild, RecheckRoot, LeafParent, ReadLeaf, LookupParent, LookupLeaf,
         At, shape, workload, Pending, Testing
<1>2. OtherTasks(t)
  BY DEF CheckParent, CheckChild, RecheckRoot, LeafParent, ReadLeaf, LookupParent, LookupLeaf,
         workload, RInv, OtherTasks, TasksPerThread
<1>3. CASE Restart(t)
  BY <1>1, <1>2, <1>3, RestartSeeks
<1>4. Seeks(c, t) /\ Knows(t) /\ ThreadOK(t)
  BY DEF Mapped, RInv, IInv
<1>5. CASE CheckParent(t) /\ ~Restart(t)
  <2>1. /\ pc[t] = "checkParent" /\ Goto(t, "readChild") /\ UNCHANGED path
        /\ Intact(parent[t], vParent[t])
    BY <1>5 DEF CheckParent, At
  <2>2. /\ pc'[t] = "readChild" /\ node' = node /\ vNode' = vNode
    BY <2>1, GotoMoves
  <2>3. Intact(node[t], vNode[t]) => op[t].key \in c[node[t]]
    <3>1. parent[t] # None
      BY <1>4, <2>1 DEF Seeks, SeeksBelow
    <3> QED
      BY <2>1, <3>1, ParentVouches
  <2>4. SeeksHere(c, t)'
    BY <1>1, <2>2, <2>3 DEF SeeksHere, Intact
  <2> QED
    BY <1>1, <1>2, <2>1, <2>4, GotoSeeks
<1>6. CASE CheckChild(t) /\ ~Restart(t)
  <2>1. Goto(t, "lockChild") /\ UNCHANGED path
    BY <1>6 DEF CheckChild
  <2>2. pc'[t] = "lockChild"
    BY <2>1, GotoMoves
  <2>3. SeeksHere(c, t)'
    BY <2>2 DEF SeeksHere, Arrived
  <2> QED
    BY <1>1, <1>2, <2>1, <2>3, GotoSeeks
<1>7. CASE RecheckRoot(t)
  <2>1. PICK p \in {"split", "unlockNode"} : Goto(t, p) /\ (p = "split" => node[t] = root)
    BY <1>7 DEF RecheckRoot
  <2>2. UNCHANGED path /\ parent[t] = None
    BY <1>4, <1>7 DEF RecheckRoot, ThreadOK, At
  <2>3. pc'[t] = p
    BY <2>1, <2>2, GotoMoves
  <2>4. SeeksHere(c, t)'
    BY <2>3 DEF SeeksHere, Arrived
  <2> QED
    BY <1>1, <1>2, <2>1, <2>2, <2>4, GotoSeeks
<1>8. CASE LeafParent(t)
  <2>1. PICK p \in {"insert", "abandonLeaf"} :
          Goto(t, p) /\ (p = "insert" => Intact(parent[t], vParent[t]))
    BY <1>8 DEF LeafParent
  <2>2. UNCHANGED path /\ pc[t] = "leafParent"
    BY <1>8 DEF LeafParent, At
  <2>3. pc'[t] = p /\ node' = node
    BY <2>1, <2>2, GotoMoves
  <2>4. p = "insert" => op[t].key \in c[node[t]]
    <3>1. parent[t] # None
      BY <1>4, <2>2 DEF Seeks, SeeksBelow
    <3> QED
      BY <2>1, <2>2, <3>1, ParentVouches
  <2>5. SeeksHere(c, t)'
    BY <1>1, <2>3, <2>4 DEF SeeksHere, Arrived
  <2> QED
    BY <1>1, <1>2, <2>1, <2>2, <2>5, GotoSeeks
<1>9. CASE ReadLeaf(t)
  <2>1. /\ pc[t] = "readLeaf" /\ UNCHANGED path
        /\ Goto(t, IF parent[t] # None THEN "lookupParent" ELSE "lookupLeaf")
        /\ result'[t] = IF Intact(node[t], vNode[t]) THEN ValueIn(node[t], op[t].key) ELSE Torn
    BY <1>9 DEF ReadLeaf, At, RInv, TasksPerThread
  <2>2. PICK p : Goto(t, p) /\ \/ p = "lookupParent" /\ parent[t] # None
                               \/ p = "lookupLeaf" /\ parent[t] = None
    BY <2>1
  <2>3. pc'[t] = p /\ node' = node /\ parent' = parent /\ vNode' = vNode
    BY <2>1, <2>2, GotoMoves
  <2>4. /\ op[t] \in Lookups
        /\ parent[t] = None /\ Intact(node[t], vNode[t]) => op[t].key \in c[node[t]]
    BY <1>4, <2>1 DEF Seeks, SeeksHere, Arrived
  <2>5. SeeksHere(c, t)'
    BY <1>1, <2>1, <2>2, <2>3, <2>4 DEF SeeksHere, Arrived, Intact, ValueIn
  <2> QED
    BY <1>1, <1>2, <2>1, <2>2, <2>5, GotoSeeks
<1>10. CASE LookupParent(t) /\ ~Restart(t)
  <2>1. /\ pc[t] = "lookupParent" /\ Goto(t, "lookupLeaf") /\ UNCHANGED path
        /\ Intact(parent[t], vParent[t]) /\ result' = result
    BY <1>10 DEF LookupParent, At
  <2>2. pc'[t] = "lookupLeaf" /\ node' = node /\ vNode' = vNode
    BY <2>1, GotoMoves
  <2>3. Intact(node[t], vNode[t]) => op[t].key \in c[node[t]]
    <3>1. parent[t] # None
      BY <1>4, <2>1 DEF Seeks, SeeksBelow
    <3> QED
      BY <2>1, <3>1, ParentVouches
  <2>4. SeeksHere(c, t)'
    BY <1>1, <1>4, <2>1, <2>2, <2>3 DEF Seeks, SeeksHere, Intact, ValueIn
  <2> QED
    BY <1>1, <1>2, <2>1, <2>4, GotoSeeks
<1>11. CASE LookupLeaf(t) /\ ~Restart(t)
  <2>1. Goto(t, "found") /\ UNCHANGED path
    BY <1>11 DEF LookupLeaf
  <2>2. pc'[t] = "found"
    BY <2>1, GotoMoves
  <2>3. SeeksHere(c, t)'
    BY <2>2 DEF SeeksHere, Arrived
  <2> QED
    BY <1>1, <1>2, <2>1, <2>3, GotoSeeks
<1> QED
  BY <1>3, <1>5, <1>6, <1>7, <1>8, <1>9, <1>10, <1>11


-----------------------------------------------------------------------------
(* The locks: a step that changes the word of a node keeps its contents.    *)

\* A step of thread t changes no more than words.
Rewords(t) ==
  /\ Nodes' = Nodes /\ root' = root
  /\ \A n \in Nodes : /\ NodeStep(t, n)
                      /\ tree'[n].type = tree[n].type /\ tree'[n].keys = tree[n].keys
                      /\ tree'[n].kids = tree[n].kids /\ tree'[n].vals = tree[n].vals
                      /\ tree'[n].next = tree[n].next

\* Taking a lock and giving it back do no more.
LEMMA LocksReword ==
  ASSUME IInv, RInv, NEW t \in Threads, NEW n \in Nodes, root' = root,
         \/ \E v \in Nat : ~IsLocked(v) /\ Upgrade(n, v)
         \/ Holds(t, n) /\ Unlock(n)
  PROVE  Rewords(t)
<1>1. ASSUME NEW v \in Nat, ~IsLocked(v), Upgrade(n, v) PROVE Rewords(t)
  <2>1. /\ Nodes' = Nodes /\ \A m \in Nodes : NodeStep(t, m)
        /\ \A m \in Nodes : /\ tree'[m].keys = tree[m].keys /\ tree'[m].type = tree[m].type
                            /\ tree'[m].kids = tree[m].kids /\ tree'[m].vals = tree[m].vals
                            /\ tree'[m].next = tree[m].next
    BY <1>1, UpgradeRewords
  <2> QED
    BY <2>1 DEF Rewords
<1>2. ASSUME Holds(t, n), Unlock(n) PROVE Rewords(t)
  <2>1. /\ Nodes' = Nodes /\ \A m \in Nodes : NodeStep(t, m)
        /\ \A m \in Nodes : /\ tree'[m].keys = tree[m].keys /\ tree'[m].type = tree[m].type
                            /\ tree'[m].kids = tree[m].kids /\ tree'[m].vals = tree[m].vals
                            /\ tree'[m].next = tree[m].next
    BY <1>2, UnlockRewords
  <2> QED
    BY <2>1 DEF Rewords
<1> QED
  BY <1>1, <1>2

\* The thread goes on along its path.
LEMMA RewordedGoto ==
  ASSUME IInv, RInv, NEW c, NEW s, Mapped(c, s), NEW t \in Threads, Rewords(t), NEW p, Goto(t, p),
         UNCHANGED path, op' = op, OtherTasks(t), ~Pending(t),
         p \in {"lockSplit", "split", "recheckRoot", "unlockParent", "leafParent", "insert"},
         p = "split" => parent[t] # None, p = "leafParent" => parent[t] # None,
         p \in {"lockSplit", "split"} /\ parent[t] # None =>
           \E i \in DOMAIN tree[parent[t]].kids : tree[parent[t]].kids[i] = node[t],
         p = "insert" => op[t].key \in c[node[t]]
  PROVE  Mapped(c, s)'
<1>1. /\ Others(t) /\ pc'[t] = p /\ node' = node /\ parent' = parent /\ vNode' = vNode
      /\ vParent' = vParent
  BY GotoMoves
<1>2. StepOf(t)
  BY <1>1 DEF StepOf, Rewords
<1>3. SeeksBelow(c, t)
  BY DEF Mapped, Seeks
<1>4. parent'[t] # None /\ Intact(parent[t], vParent[t])' =>
        op'[t].key \in c[parent'[t]] /\ node'[t] = ChildFor(parent[t], op[t].key)'
  BY <1>1, <1>2, <1>3, BelowStands DEF Reassigns
<1>5. parent[t] # None => tree'[parent[t]].kids = tree[parent[t]].kids
  BY DEF Rewords, IInv, ThreadOK
<1>6. SeeksBelow(c, t)'
  BY <1>1, <1>4, <1>5 DEF SeeksBelow
<1>7. SeeksHere(c, t)' /\ ~Pending(t)'
  BY <1>1 DEF SeeksHere, Arrived, Pending
<1> QED
  BY <1>2, <1>6, <1>7, ContentsKept DEF Seeks, Rewords

\* The thread starts over, or returns.
LEMMA RewordedLeave ==
  ASSUME IInv, RInv, NEW c, NEW s, Mapped(c, s), NEW t \in Threads, Rewords(t),
         NEW p \in {"idle", "readRoot"}, Goto(t, p), Forget(t), OtherTasks(t), ~Pending(t)
  PROVE  Mapped(c, s)'
<1>1. Others(t) /\ pc'[t] = p
  BY ForgetMoves DEF AtNode
<1>2. parent'[t] = None
  BY DEF Forget, IInv, PerThread
<1>3. StepOf(t)
  BY <1>1 DEF StepOf, Rewords
<1> QED
  BY <1>1, <1>2, <1>3, NothingSought, ContentsKept DEF Rewords

\* The parent is locked: it has the node for a child.
LEMMA LockParentSeeks ==
  ASSUME IInv, RInv, NEW c, NEW s, Mapped(c, s), NEW t \in Threads, LockParent(t)
  PROVE  Mapped(c, s)'
<1>1. /\ pc[t] = "lockParent" /\ root' = root /\ op' = op /\ OtherTasks(t) /\ ~Pending(t)
  BY TasksStay DEF LockParent, At, shape, workload, Pending
<1>2. CASE Restart(t) /\ UNCHANGED tree
  BY <1>1, <1>2, RestartSeeks
<1>3. CASE Upgrade(parent[t], vParent[t]) /\ Goto(t, "lockSplit") /\ UNCHANGED path
  <2>1. /\ parent[t] \in Nodes /\ vParent[t] \in Nat /\ ~IsLocked(vParent[t])
        /\ parent[t] # None
    BY <1>1 DEF IInv, ThreadOK
  <2>2. Rewords(t)
    BY <1>1, <1>3, <2>1, LocksReword
  <2>3. \E i \in DOMAIN tree[parent[t]].kids : tree[parent[t]].kids[i] = node[t]
    BY <1>3, <2>1, SentThere DEF Upgrade
  <2> QED
    BY <1>1, <1>3, <2>2, <2>3, RewordedGoto
<1> QED
  BY <1>2, <1>3 DEF LockParent

\* Then the node is locked, or the parent is let go.
LEMMA LockSplitSeeks ==
  ASSUME IInv, RInv, NEW c, NEW s, Mapped(c, s), NEW t \in Threads, LockSplit(t)
  PROVE  Mapped(c, s)'
<1>1. /\ pc[t] = "lockSplit" /\ root' = root /\ op' = op /\ OtherTasks(t) /\ ~Pending(t)
  BY TasksStay DEF LockSplit, At, shape, workload, Pending
<1>2. CASE Restart(t) /\ UNCHANGED tree
  BY <1>1, <1>2, RestartSeeks
<1>3. CASE tree' = tree /\ Goto(t, "unlockParent") /\ UNCHANGED path
  <2>1. pc'[t] = "unlockParent"
    BY <1>3, GotoMoves
  <2>2. SeeksHere(c, t)'
    BY <2>1 DEF SeeksHere, Arrived
  <2> QED
    BY <1>1, <1>3, <2>2, GotoSeeks
<1>4. CASE /\ Upgrade(node[t], vNode[t]) /\ UNCHANGED path
           /\ Goto(t, IF parent[t] # None THEN "split" ELSE "recheckRoot")
  <2>1. node[t] \in Nodes /\ vNode[t] \in Nat /\ ~IsLocked(vNode[t])
    BY <1>1 DEF IInv, ThreadOK, AtNode
  <2>2. Rewords(t)
    BY <1>1, <1>4, <2>1, LocksReword
  <2>3. parent[t] # None =>
          \E i \in DOMAIN tree[parent[t]].kids : tree[parent[t]].kids[i] = node[t]
    BY <1>1 DEF Mapped, Seeks, SeeksBelow
  <2>4. CASE parent[t] # None
    <3>1. Goto(t, "split")
      BY <1>4, <2>4
    <3> QED
      BY <1>1, <1>4, <2>2, <2>3, <2>4, <3>1, RewordedGoto
  <2>5. CASE parent[t] = None
    <3>1. Goto(t, "recheckRoot")
      BY <1>4, <2>5
    <3> QED
      BY <1>1, <1>4, <2>2, <3>1, RewordedGoto
  <2> QED
    BY <2>4, <2>5
<1> QED
  BY <1>2, <1>3, <1>4 DEF LockSplit

\* The leaf is locked: if it is the root it is the right one, and has not moved.
LEMMA LockLeafSeeks ==
  ASSUME IInv, RInv, NEW c, NEW s, Mapped(c, s), NEW t \in Threads, LockLeaf(t)
  PROVE  Mapped(c, s)'
<1>1. /\ pc[t] = "lockLeaf" /\ root' = root /\ op' = op /\ OtherTasks(t) /\ ~Pending(t)
  BY TasksStay DEF LockLeaf, At, shape, workload, Pending
<1>2. CASE Restart(t) /\ UNCHANGED tree
  BY <1>1, <1>2, RestartSeeks
<1>3. CASE /\ Upgrade(node[t], vNode[t]) /\ UNCHANGED path
           /\ Goto(t, IF parent[t] # None THEN "leafParent" ELSE "insert")
  <2>1. node[t] \in Nodes /\ vNode[t] \in Nat /\ ~IsLocked(vNode[t])
    BY <1>1 DEF IInv, ThreadOK, AtNode
  <2>2. Rewords(t)
    BY <1>1, <1>3, <2>1, LocksReword
  <2>3. CASE parent[t] # None
    <3>1. Goto(t, "leafParent")
      BY <1>3, <2>3
    <3> QED
      BY <1>1, <1>3, <2>2, <2>3, <3>1, RewordedGoto
  <2>4. CASE parent[t] = None
    <3>1. Goto(t, "insert")
      BY <1>3, <2>4
    <3>2. op[t].key \in c[node[t]]
      BY <1>1, <1>3, <2>4 DEF Mapped, Seeks, SeeksHere, Arrived, Upgrade
    <3> QED
      BY <1>1, <1>3, <2>2, <3>1, <3>2, RewordedGoto
  <2> QED
    BY <2>3, <2>4
<1> QED
  BY <1>2, <1>3 DEF LockLeaf

\* The locks are given back.
LEMMA UnlockSeeks ==
  ASSUME IInv, RInv, NEW c, NEW s, Mapped(c, s), NEW t \in Threads,
         UnlockNode(t) \/ UnlockParent(t) \/ AbandonLeaf(t) \/ ReturnInsert(t)
  PROVE  Mapped(c, s)'
<1>1. /\ root' = root /\ ~Pending(t) /\ sep' = sep /\ result' = result
      /\ pc[t] \in {"unlockNode", "unlockParent", "abandonLeaf", "inserted"}
  BY DEF UnlockNode, UnlockParent, AbandonLeaf, ReturnInsert, At, Pending, shape
<1>2. PICK n \in Nodes : Holds(t, n) /\ Unlock(n)
  <2>1. node[t] \in Nodes /\ (parent[t] \in Nodes \/ ~UnlockParent(t))
    BY <1>1 DEF IInv, ThreadOK, AtNode, UnlockParent, At
  <2> QED
    BY <1>1, <2>1 DEF UnlockNode, UnlockParent, AbandonLeaf, ReturnInsert, Holds, At
<1>3. Rewords(t)
  BY <1>1, <1>2, LocksReword
<1>4. CASE ReturnInsert(t)
  <2>1. Goto(t, "idle") /\ Forget(t) /\ op' = [op EXCEPT ![t] = NoOp]
    BY <1>4 DEF ReturnInsert, Return
  <2>2. toBuild' \in Seq(Inserts)
    BY <1>4, ReturnKnows DEF ReturnInsert
  <2>3. OtherTasks(t)
    BY <1>1, <2>1, <2>2 DEF RInv, OtherTasks, TasksPerThread
  <2> QED
    BY <1>1, <1>3, <2>1, <2>3, RewordedLeave
<1>5. CASE ~ReturnInsert(t)
  <2>1. op' = op /\ OtherTasks(t)
    BY <1>1, <1>5, TasksStay DEF UnlockNode, UnlockParent, AbandonLeaf, workload
  <2>2. CASE Restart(t)
    BY <1>1, <1>3, <2>1, <2>2, RewordedLeave DEF Restart
  <2>3. CASE UnlockNode(t) /\ Goto(t, "unlockParent") /\ UNCHANGED path
    BY <1>1, <1>3, <2>1, <2>3, RewordedGoto
  <2> QED
    BY <1>5, <2>2, <2>3 DEF UnlockNode, UnlockParent, AbandonLeaf
<1> QED
  BY <1>4, <1>5

-----------------------------------------------------------------------------
(* The insert into a leaf.                                                  *)

\* Leaf x has value v for key k.
Has(x, k, v) == \E i \in DOMAIN x.keys : x.keys[i] = k /\ x.vals[i] = v

\* An insert leaves the keys of a leaf in order, and the leaf has the new value
\* for its key and the old ones for the others.
LEMMA LeafInserted ==
  ASSUME NEW x, IsNode(x), x.keys \in Seq(Keys), x.vals \in Seq(Values),
         Len(x.vals) = Len(x.keys), Sorted(x.keys), NEW k \in Keys, NEW v \in Values,
         NEW y, y = LeafInsert(x, k, v)
  PROVE  /\ Sorted(y.keys) /\ y.kids = x.kids /\ y.next = x.next
         /\ \A i \in DOMAIN y.keys :
              y.keys[i] = k \/ \E j \in DOMAIN x.keys : y.keys[i] = x.keys[j]
         /\ \A e, w : Has(y, e, w) <=> IF e = k THEN w = v ELSE Has(x, e, w)
<1> DEFINE j == LowerBound(x.keys, k)
<1>1. /\ Len(x.keys) \in Nat /\ DOMAIN x.keys = 1 .. Len(x.keys)
      /\ DOMAIN x.vals = 1 .. Len(x.keys)
      /\ \A i \in 1 .. Len(x.keys) : x.keys[i] \in Nat
  BY KeysAreNumbers
<1>2. j \in 0 .. Len(x.keys) /\ Position(x.keys, k, j)
  BY LowerBoundIsThere DEF Position
<1>3. CASE j + 1 <= Len(x.keys) /\ x.keys[j + 1] = k
  <2> DEFINE w == [x.vals EXCEPT ![j + 1] = v]
  <2>1. y = [x EXCEPT !.vals = w]
    BY <1>3 DEF LeafInsert
  <2>2. j + 1 \in DOMAIN x.keys
    BY <1>1, <1>2, <1>3
  <2> HIDE DEF j
  <2>3. \A i \in DOMAIN x.keys : w[i] = IF i = j + 1 THEN v ELSE x.vals[i]
    BY <1>1, <2>2
  <2> HIDE DEF w
  <2>4. y.keys = x.keys /\ y.vals = w /\ y.kids = x.kids /\ y.next = x.next
    BY <2>1 DEF IsNode
  <2>5. \A i \in DOMAIN x.keys : x.keys[i] = k <=> i = j + 1
    <3>1. \A h, i \in DOMAIN x.keys : h < i => x.keys[h] < x.keys[i]
      BY DEF Sorted
    <3>2. ASSUME NEW i \in DOMAIN x.keys, x.keys[i] = k, i # j + 1 PROVE FALSE
      <4>1. i < j + 1 \/ j + 1 < i
        BY <1>1, <1>2, <3>2
      <4>2. x.keys[i] < x.keys[j + 1] \/ x.keys[j + 1] < x.keys[i]
        BY <2>2, <3>1, <4>1
      <4>3. x.keys[i] \in Nat /\ x.keys[i] = x.keys[j + 1]
        BY <1>1, <1>3, <3>2
      <4> QED
        BY <4>2, <4>3
    <3> QED
      BY <1>3, <3>2
  <2>6. \A e, z : Has(y, e, z) <=> IF e = k THEN z = v ELSE Has(x, e, z)
    BY <2>2, <2>3, <2>4, <2>5 DEF Has
  <2> QED
    BY <2>4, <2>6
<1>4. CASE ~(j + 1 <= Len(x.keys) /\ x.keys[j + 1] = k)
  <2> DEFINE a == InsertAt(x.keys, j + 1, k)
             b == InsertAt(x.vals, j + 1, v)
  <2>1. y = [x EXCEPT !.keys = a, !.vals = b]
    BY <1>4 DEF LeafInsert
  <2> HIDE DEF j
  <2>2. j + 1 \in DOMAIN x.keys => k # x.keys[j + 1]
    BY <1>1, <1>4
  <2>3. /\ Sorted(a) /\ a \in Seq(Keys) /\ Len(a) = Len(x.keys) + 1
        /\ \A h \in 1 .. Len(x.keys) + 1 :
             /\ h < j + 1 => a[h] = x.keys[h]
             /\ h = j + 1 => a[h] = k
             /\ h > j + 1 => a[h] = x.keys[h - 1]
    BY <1>2, <2>2, SortedInsert
  <2>4. \A h \in 1 .. Len(x.keys) + 1 :
             /\ h < j + 1 => b[h] = x.vals[h]
             /\ h = j + 1 => b[h] = v
             /\ h > j + 1 => b[h] = x.vals[h - 1]
    <3>1. j + 1 \in 1 .. Len(x.vals) + 1
      BY <1>1, <1>2
    <3> DEFINE z == x.vals
               at == j + 1
    <3>2. z \in Seq(Values) /\ at \in 1 .. Len(z) + 1
      BY <3>1
    <3> HIDE DEF z, at
    <3>3. \A h \in 1 .. Len(z) + 1 :
            /\ h < at => InsertAt(z, at, v)[h] = z[h]
            /\ h = at => InsertAt(z, at, v)[h] = v
            /\ h > at => InsertAt(z, at, v)[h] = z[h - 1]
      <4>1. HasInserted(Values, z, at, v, InsertAt(z, at, v))
        BY <3>2, InsertAtInserts
      <4> QED
        BY <4>1 DEF HasInserted
    <3>4. Len(z) = Len(x.keys) /\ b = InsertAt(z, at, v)
      BY DEF z, at
    <3> HIDE DEF a, b
    <3> QED
      BY <3>3, <3>4 DEF z, at
  <2> HIDE DEF a, b
  <2>5. y.keys = a /\ y.vals = b /\ y.kids = x.kids /\ y.next = x.next
    BY <2>1 DEF IsNode
  <2>6. DOMAIN a = 1 .. Len(x.keys) + 1
    BY <2>3
  <2>7. \A h \in DOMAIN a : \/ h = j + 1 /\ a[h] = k /\ b[h] = v
                            \/ /\ h \in DOMAIN x.keys /\ h < j + 1
                               /\ a[h] = x.keys[h] /\ b[h] = x.vals[h]
                            \/ /\ h - 1 \in DOMAIN x.keys
                               /\ a[h] = x.keys[h - 1] /\ b[h] = x.vals[h - 1]
    <3> SUFFICES ASSUME NEW h \in DOMAIN a
                 PROVE  \/ h = j + 1 /\ a[h] = k /\ b[h] = v
                        \/ /\ h \in DOMAIN x.keys /\ h < j + 1
                           /\ a[h] = x.keys[h] /\ b[h] = x.vals[h]
                        \/ /\ h - 1 \in DOMAIN x.keys
                           /\ a[h] = x.keys[h - 1] /\ b[h] = x.vals[h - 1]
      OBVIOUS
    <3>1. \/ h = j + 1
          \/ h < j + 1 /\ h \in DOMAIN x.keys
          \/ h > j + 1 /\ h - 1 \in DOMAIN x.keys
      BY <1>1, <1>2, <2>6
    <3> QED
      BY <2>3, <2>4, <2>6, <3>1
  <2>8. \A h \in DOMAIN x.keys : \/ h \in DOMAIN a /\ a[h] = x.keys[h] /\ b[h] = x.vals[h]
                                 \/ /\ h + 1 \in DOMAIN a
                                    /\ a[h + 1] = x.keys[h] /\ b[h + 1] = x.vals[h]
    <3> SUFFICES ASSUME NEW h \in DOMAIN x.keys
                 PROVE  \/ h \in DOMAIN a /\ a[h] = x.keys[h] /\ b[h] = x.vals[h]
                        \/ /\ h + 1 \in DOMAIN a
                           /\ a[h + 1] = x.keys[h] /\ b[h + 1] = x.vals[h]
      OBVIOUS
    <3>1. \/ h < j + 1 /\ h \in DOMAIN a
          \/ h + 1 > j + 1 /\ h + 1 \in DOMAIN a /\ (h + 1) - 1 = h
      BY <1>1, <1>2, <2>6
    <3> QED
      BY <2>3, <2>4, <2>6, <3>1
  <2>9. \A h \in DOMAIN x.keys : x.keys[h] # k
    <3>1. \A h \in DOMAIN x.keys : IF h <= j THEN x.keys[h] < k ELSE k <= x.keys[h]
      BY <1>2 DEF Position
    <3>2. ASSUME NEW h \in DOMAIN x.keys, x.keys[h] = k PROVE FALSE
      <4>1. h > j /\ h # j + 1 /\ k \in Nat
        BY <1>1, <1>2, <2>2, <3>1, <3>2, KeyAssumption
      <4>2. j + 1 \in DOMAIN x.keys /\ j + 1 < h /\ ~(j + 1 <= j)
        BY <1>1, <1>2, <4>1
      <4>3. x.keys[j + 1] < x.keys[h] /\ k <= x.keys[j + 1] /\ x.keys[j + 1] \in Nat
        BY <1>1, <3>1, <4>2 DEF Sorted
      <4> QED
        BY <3>2, <4>1, <4>3
    <3> QED
      BY <3>2
  <2>10. j + 1 \in DOMAIN a /\ a[j + 1] = k /\ b[j + 1] = v
    <3>1. j + 1 \in 1 .. Len(x.keys) + 1
      BY <1>1, <1>2
    <3> QED
      BY <2>3, <2>4, <2>6, <3>1
  <2>11. \A e, z : Has(y, e, z) <=> IF e = k THEN z = v ELSE Has(x, e, z)
    <3> SUFFICES ASSUME NEW e, NEW z
                 PROVE  (\E h \in DOMAIN a : a[h] = e /\ b[h] = z) <=>
                          IF e = k THEN z = v
                          ELSE \E h \in DOMAIN x.keys : x.keys[h] = e /\ x.vals[h] = z
      BY <2>5, SMTT(30) DEF Has
    <3> QED
      BY <2>7, <2>8, <2>9, <2>10
  <2>12. \A i \in DOMAIN a : a[i] = k \/ \E h \in DOMAIN x.keys : a[i] = x.keys[h]
    BY <2>7
  <2> QED
    BY <2>3, <2>5, <2>11, <2>12
<1> QED
  BY <1>3, <1>4

\* What the insert into a leaf writes.
LEMMA InsertWrites ==
  ASSUME IInv, RInv, NEW t \in Threads, InsertIntoLeaf(t)
  PROVE  /\ pc[t] = "insert" /\ node[t] \in Leaves /\ op[t] \in Inserts
         /\ root' = root /\ op' = op /\ Goto(t, "inserted") /\ UNCHANGED path
         /\ StepOf(t) /\ Nodes' = Nodes
         /\ LeafInsert(tree[node[t]], op[t].key, op[t].value).type = tree[node[t]].type
         /\ \A m \in Nodes : tree'[m] = IF m = node[t]
                                        THEN LeafInsert(tree[m], op[t].key, op[t].value)
                                        ELSE tree[m]
<1> DEFINE x == LeafInsert(tree[node[t]], op[t].key, op[t].value)
<1>1. /\ pc[t] = "insert" /\ root' = root /\ UNCHANGED path /\ tree' = With(node[t], x)
      /\ Goto(t, "inserted") /\ toBuild' = toBuild /\ op' = op /\ sep' = sep
      /\ result' = result
  BY DEF InsertIntoLeaf, At, shape, workload, With
<1>2. Knows(t) /\ ThreadOK(t)
  BY DEF RInv, IInv
<1>3. node[t] \in Nodes
  BY <1>1, <1>2 DEF ThreadOK, AtNode
<1>4. /\ ~IsInner(node[t]) /\ ~Full(node[t])
      /\ op[t] \in Inserts /\ op[t].key \in Keys /\ op[t].value \in Values
  <2>1. op[t] \in Inserts
    BY <1>1, <1>2 DEF Knows, KnowsTask, Inserting, Inserts, Lookups
  <2> QED
    BY <1>1, <1>2, <2>1 DEF Knows, KnowsNode, AtLeaf, Inserts
<1>5. IsNode(tree[node[t]]) /\ ContentOK(tree[node[t]], Nodes)
  BY <1>3 DEF IInv, TreeOK, RInv, ContentsOK
<1>6. IsNode(x) /\ x.word = tree[node[t]].word
  BY <1>5, InsertedIsNode
<1>7. ContentOK(x, Nodes) /\ x.type = tree[node[t]].type
  BY <1>4, <1>5, InsertedLeaf DEF IsInner, Full, MaxKeys
<1>8. Holds(t, node[t])
  BY <1>1 DEF Holds
<1>9. /\ Nodes' = Nodes /\ \A m \in Nodes : NodeStep(t, m)
      /\ \A m \in Nodes : tree'[m] = IF m = node[t] THEN x ELSE tree[m]
  <2> HIDE DEF x
  <2>1. Replaces(t, node[t], x)
    BY <1>6, <1>7, <1>8 DEF Replaces
  <2> QED
    BY <1>1, <1>3, <2>1, NodeWritten
<1>10. Others(t) /\ OtherTasks(t)
  BY <1>1, GotoMoves, TasksStay
<1>11. StepOf(t)
  BY <1>9, <1>10 DEF StepOf
<1> QED
  BY <1>1, <1>3, <1>4, <1>7, <1>9, <1>11 DEF Leaves

\* The key that is inserted belongs to the leaf.
LEMMA InsertSeeks ==
  ASSUME IInv, RInv, NEW c, NEW s, Mapped(c, s), NEW t \in Threads, InsertIntoLeaf(t)
  PROVE  Mapped(c, s)'
<1> DEFINE n == node[t]
           x == LeafInsert(tree[n], op[t].key, op[t].value)
<1>1. /\ pc[t] = "insert" /\ n \in Leaves /\ op[t] \in Inserts
      /\ root' = root /\ op' = op /\ Goto(t, "inserted") /\ UNCHANGED path
      /\ StepOf(t) /\ Nodes' = Nodes /\ x.type = tree[n].type
      /\ \A m \in Nodes : tree'[m] = IF m = n THEN x ELSE tree[m]
  BY InsertWrites
<1>2. /\ pc'[t] = "inserted" /\ node' = node /\ parent' = parent /\ vNode' = vNode
      /\ vParent' = vParent
  BY <1>1, GotoMoves
<1>3. op[t].key \in c[n] /\ Sorted(tree[n].keys) /\ \A i \in DOMAIN tree[n].keys : tree[n].keys[i] \in c[n]
  BY <1>1 DEF Mapped, Seeks, SeeksHere, NodeCovers, Leaves
<1>4. /\ IsNode(tree[n]) /\ tree[n].keys \in Seq(Keys) /\ tree[n].vals \in Seq(Values)
      /\ Len(tree[n].vals) = Len(tree[n].keys) /\ op[t].key \in Keys /\ op[t].value \in Values
  BY <1>1 DEF IInv, TreeOK, RInv, ContentsOK, ContentOK, Leaves, IsInner, Inserts
<1>5. /\ Sorted(x.keys)
      /\ \A i \in DOMAIN x.keys :
           x.keys[i] = op[t].key \/ \E j \in DOMAIN tree[n].keys : x.keys[i] = tree[n].keys[j]
  BY <1>3, <1>4, LeafInserted
<1> HIDE DEF x
<1>6. \A i \in DOMAIN x.keys : x.keys[i] \in c[n]
  BY <1>3, <1>5
<1>7. \A m \in Nodes : Sorted(tree[m].keys) /\ \A i \in DOMAIN tree[m].keys : tree[m].keys[i] \in c[m]
  BY DEF Mapped, NodeCovers
<1>8. KeepsShape(t, c)
  <2>1. ~Pending(t) /\ ~Pending(t)'
    BY <1>1, <1>2 DEF Pending
  <2>2. ~IsInner(n)
    BY <1>1 DEF Leaves
  <2> QED
    BY <1>1, <1>5, <1>6, <1>7, <2>1, <2>2 DEF KeepsShape
<1>9. SeeksBelow(c, t)'
  <2>1. SeeksBelow(c, t)
    BY DEF Mapped, Seeks
  <2>2. parent'[t] # None /\ Intact(parent[t], vParent[t])' =>
          op'[t].key \in c[parent'[t]] /\ node'[t] = ChildFor(parent[t], op[t].key)'
    BY <1>1, <1>2, <2>1, BelowStands DEF Reassigns
  <2> QED
    BY <1>2, <2>2 DEF SeeksBelow
<1>10. SeeksHere(c, t)'
  BY <1>2 DEF SeeksHere, Arrived
<1> QED
  BY <1>1, <1>8, <1>9, <1>10, ShapeKept DEF Seeks

-----------------------------------------------------------------------------
(* The split of a node.                                                     *)

\* The keys l and r of the halves, up to the separator e and above it.
HalfKeys(keys, l, r, e) ==
  /\ e \in Keys /\ \E i \in DOMAIN keys : keys[i] = e
  /\ Sorted(l) /\ Sorted(r)
  /\ \A i \in DOMAIN l : l[i] <= e /\ \E j \in DOMAIN keys : keys[j] = l[i]
  /\ \A i \in DOMAIN r : e < r[i] /\ \E j \in DOMAIN keys : keys[j] = r[i]
  /\ \E i \in DOMAIN r : r[i] \in Keys

\* The first keep + 1 children of node x are those of l, the others those of r,
\* and a search goes where it would have gone in x.
HalfKids(x, l, r, e, keep) ==
  /\ \A i \in DOMAIN l.kids :
       /\ i \in DOMAIN x.kids /\ i <= keep + 1 /\ l.kids[i] = x.kids[i]
       /\ \A k \in Keys : Position(x.keys, k, i - 1) <=> Position(l.keys, k, i - 1) /\ k <= e
  /\ \A i \in DOMAIN r.kids :
       /\ i \in Nat /\ 0 < i /\ keep + 1 + i \in DOMAIN x.kids
       /\ r.kids[i] = x.kids[keep + 1 + i]
       /\ \A k \in Keys :
            Position(x.keys, k, keep + 1 + i - 1) <=> Position(r.keys, k, i - 1) /\ e < k

\* Keys in order are halved in order.
LEMMA KeysHalved ==
  ASSUME NEW keys \in Seq(Keys), Sorted(keys), NEW m \in Nat, 1 <= m, m + 1 <= Len(keys),
         NEW a \in Nat, a <= m,
         NEW l, l = SubSeq(keys, 1, a), NEW r, r = SubSeq(keys, m + 1, Len(keys))
  PROVE  HalfKeys(keys, l, r, keys[m])
<1>1. /\ DOMAIN keys = 1 .. Len(keys) /\ Len(keys) \in Nat
      /\ \A h \in 1 .. Len(keys) : keys[h] \in Keys /\ keys[h] \in Nat
  BY KeysAreNumbers
<1>2. m \in DOMAIN keys /\ keys[m] \in Keys
  BY <1>1
<1>3. /\ Sorted(l) /\ DOMAIN l = 1 .. a /\ \A i \in 1 .. a : l[i] = keys[i]
  <2>1. 1 \in Nat /\ 1 <= 1 /\ a <= Len(keys) /\ 1 <= a + 1 /\ keys \in Seq(Keys)
    BY <1>1
  <2>2. Sorted(l)
    BY <2>1, HalvesSorted
  <2> QED
    BY <1>1, <2>1, <2>2
<1> DEFINE from == m + 1
           to == Len(keys)
<1>4. from \in Nat /\ to \in Nat /\ 1 <= from /\ to <= Len(keys) /\ from <= to + 1
      /\ keys \in Seq(Keys)
  BY <1>1
<1>5. r = SubSeq(keys, from, to)
  OBVIOUS
<1> HIDE DEF from, to
<1>6. /\ Sorted(r) /\ r \in Seq(Keys) /\ Len(r) = to - from + 1
      /\ \A h \in 1 .. to - from + 1 : r[h] = keys[from + h - 1]
  <2>1. Sorted(SubSeq(keys, from, to))
    BY <1>4, HalvesSorted
  <2>2. /\ SubSeq(keys, from, to) \in Seq(Keys) /\ Len(SubSeq(keys, from, to)) = to - from + 1
        /\ \A h \in 1 .. to - from + 1 : SubSeq(keys, from, to)[h] = keys[from + h - 1]
    BY <1>4, SegmentAt
  <2> QED
    BY <1>5, <2>1, <2>2
<1>7. /\ DOMAIN r = 1 .. Len(keys) - m
      /\ \A h \in 1 .. Len(keys) - m : r[h] = keys[m + h]
  <2>1. to - from + 1 = Len(keys) - m /\ \A h \in 1 .. Len(keys) - m : from + h - 1 = m + h
    BY <1>1 DEF from, to
  <2>2. DOMAIN r = 1 .. Len(r)
    BY <1>6
  <2> QED
    BY <1>6, <2>1, <2>2
<1>8. ASSUME NEW i \in DOMAIN l PROVE l[i] <= keys[m] /\ \E j \in DOMAIN keys : keys[j] = l[i]
  <2>1. i \in DOMAIN keys /\ l[i] = keys[i] /\ (i = m \/ i < m)
    BY <1>1, <1>3
  <2>2. i < m => keys[i] < keys[m]
    BY <1>2, <2>1 DEF Sorted
  <2>3. keys[i] \in Nat /\ keys[m] \in Nat
    BY <1>1, <1>2, <2>1
  <2> QED
    BY <2>1, <2>2, <2>3
<1>9. ASSUME NEW i \in DOMAIN r PROVE keys[m] < r[i] /\ \E j \in DOMAIN keys : keys[j] = r[i]
  <2>1. m + i \in DOMAIN keys /\ m < m + i /\ r[i] = keys[m + i]
    BY <1>1, <1>7
  <2>2. keys[m] < keys[m + i]
    BY <1>2, <2>1 DEF Sorted
  <2> QED
    BY <2>1, <2>2
<1>10. \E i \in DOMAIN r : r[i] \in Keys
  <2>1. 1 \in DOMAIN r
    BY <1>1, <1>7
  <2>2. r[1] \in Keys
    BY <1>6, <2>1
  <2> QED
    BY <2>1, <2>2
<1> QED
  BY <1>2, <1>3, <1>6, <1>8, <1>9, <1>10 DEF HalfKeys

\* The halves of a leaf have its values.
LEMMA LeafHalved ==
  ASSUME NEW x, IsNode(x), NEW S, ContentOK(x, S), x.type # "inner",
         Len(x.keys) = MaxKeys(x), Sorted(x.keys), NEW id, NEW h, h = LeafSplit(x, id)
  PROVE  /\ HalfKeys(x.keys, h.left.keys, h.right.keys, h.key)
         /\ h.left.type = x.type /\ h.right.type = "leaf"
         /\ h.left.next = id /\ h.right.next = x.next
         /\ h.left.kids = x.kids /\ h.right.kids = <<>>
         /\ \A k, v : Has(x, k, v) <=> Has(h.left, k, v) \/ Has(h.right, k, v)
<1> DEFINE count == Len(x.keys)
           keep == count - (count - count \div 2)
           lk == SubSeq(x.keys, 1, keep)
           lv == SubSeq(x.vals, 1, keep)
           rk == SubSeq(x.keys, keep + 1, count)
           rv == SubSeq(x.vals, keep + 1, count)
<1>1. /\ x.keys \in Seq(Keys) /\ x.vals \in Seq(Values) /\ Len(x.vals) = count
      /\ count = LeafMax /\ count \in Nat /\ count >= 2
  BY CapacityAssumption DEF ContentOK, MaxKeys
<1>2. /\ h.left = [x EXCEPT !.keys = SubSeq(@, 1, keep), !.vals = SubSeq(@, 1, keep),
                            !.next = id]
      /\ h.right = Leaf(rk, rv, x.next)
      /\ h.key = x.keys[keep]
  BY DEF LeafSplit
<1>3. keep \in Nat /\ 1 <= keep /\ keep + 1 <= count
  BY <1>1
<1> HIDE DEF keep, lk, lv, rk, rv
<1>4. /\ h.left.keys = lk /\ h.left.vals = lv /\ h.left.type = x.type /\ h.left.next = id
      /\ h.left.kids = x.kids
  BY <1>2 DEF IsNode, lk, lv
<1>5. /\ h.right.keys = rk /\ h.right.vals = rv /\ h.right.type = "leaf"
      /\ h.right.next = x.next /\ h.right.kids = <<>>
  BY <1>2 DEF Leaf
<1>6. HalfKeys(x.keys, lk, rk, x.keys[keep])
  <2>1. keep <= keep /\ x.keys \in Seq(Keys)
    BY <1>1, <1>3
  <2> QED
    BY <1>3, <2>1, KeysHalved DEF lk, rk
<1>7. /\ DOMAIN lk = 1 .. keep
      /\ \A i \in 1 .. keep : lk[i] = x.keys[i] /\ lv[i] = x.vals[i]
  BY <1>1, <1>3 DEF lk, lv
<1>8. /\ DOMAIN rk = 1 .. count - keep
      /\ \A i \in 1 .. count - keep : rk[i] = x.keys[keep + i] /\ rv[i] = x.vals[keep + i]
  <2> DEFINE from == keep + 1
             to == count
             ks == x.keys
             vs == x.vals
  <2>1. /\ from \in Nat /\ to \in Nat /\ 1 <= from /\ to <= Len(ks) /\ from <= to + 1
        /\ ks \in Seq(Keys) /\ vs \in Seq(Values) /\ to <= Len(vs)
    BY <1>1, <1>3
  <2> HIDE DEF from, to, ks, vs
  <2>2. /\ SubSeq(ks, from, to) \in Seq(Keys) /\ Len(SubSeq(ks, from, to)) = to - from + 1
        /\ \A i \in 1 .. to - from + 1 : SubSeq(ks, from, to)[i] = ks[from + i - 1]
    BY <2>1, SegmentAt
  <2>3. /\ \A i \in 1 .. to - from + 1 : SubSeq(vs, from, to)[i] = vs[from + i - 1]
    BY <2>1, SegmentAt
  <2>4. /\ to - from + 1 = count - keep
        /\ \A i \in 1 .. count - keep : from + i - 1 = keep + i
    BY <1>1, <1>3 DEF from, to
  <2>5. rk = SubSeq(ks, from, to) /\ rv = SubSeq(vs, from, to)
    BY DEF from, to, ks, vs, rk, rv
  <2>6. DOMAIN SubSeq(ks, from, to) = 1 .. to - from + 1
    BY <2>2
  <2> QED
    BY <2>2, <2>3, <2>4, <2>5, <2>6 DEF ks, vs
<1>9. ASSUME NEW k, NEW v PROVE Has(x, k, v) <=> Has(h.left, k, v) \/ Has(h.right, k, v)
  <2>0. DOMAIN x.keys = 1 .. count /\ count \in Nat
    BY <1>1
  <2>1. ASSUME NEW i \in DOMAIN x.keys, x.keys[i] = k, x.vals[i] = v
        PROVE  Has(h.left, k, v) \/ Has(h.right, k, v)
    <3>1. CASE i <= keep
      <4>1. i \in DOMAIN lk /\ lk[i] = x.keys[i] /\ lv[i] = x.vals[i]
        BY <1>3, <1>7, <2>0, <3>1
      <4> QED
        BY <1>4, <2>1, <4>1 DEF Has
    <3>2. CASE ~(i <= keep)
      <4>1. i - keep \in 1 .. count - keep /\ keep + (i - keep) = i
        BY <1>3, <2>0, <3>2
      <4>2. /\ i - keep \in DOMAIN rk /\ rk[i - keep] = x.keys[i]
            /\ rv[i - keep] = x.vals[i]
        BY <1>8, <4>1
      <4> QED
        BY <1>5, <2>1, <4>2 DEF Has
    <3> QED
      BY <3>1, <3>2
  <2>2. \A i \in DOMAIN lk : i \in DOMAIN x.keys
    BY <1>3, <1>7, <2>0
  <2>3. \A i \in DOMAIN rk : keep + i \in DOMAIN x.keys
    BY <1>3, <1>8, <2>0
  <2> QED
    BY <1>4, <1>5, <1>7, <1>8, <2>1, <2>2, <2>3 DEF Has
<1> QED
  BY <1>2, <1>4, <1>5, <1>6, <1>9

\* The halves of an inner node have its children.
LEMMA InnerHalved ==
  ASSUME NEW x, IsNode(x), NEW S, ContentOK(x, S), x.type = "inner",
         Len(x.keys) = MaxKeys(x), Sorted(x.keys), NEW h, h = InnerSplit(x)
  PROVE  /\ HalfKeys(x.keys, h.left.keys, h.right.keys, h.key)
         /\ h.left.type = x.type /\ h.right.type = "inner"
         /\ h.left.next = x.next /\ h.right.next = None
         /\ \E keep \in Nat : HalfKids(x, h.left, h.right, h.key, keep)
<1> DEFINE count == Len(x.keys)
           keep == count - (count - count \div 2) - 1
           lk == SubSeq(x.keys, 1, keep)
           lc == SubSeq(x.kids, 1, keep + 1)
           rk == SubSeq(x.keys, keep + 2, count)
           rc == SubSeq(x.kids, keep + 2, count + 1)
<1>1. /\ x.keys \in Seq(Keys) /\ x.kids \in Seq(S) /\ Len(x.kids) = count + 1
      /\ count = InnerMax - 1 /\ count \in Nat /\ count >= 4
  BY CapacityAssumption DEF ContentOK, MaxKeys
<1>2. /\ h.left = [x EXCEPT !.keys = SubSeq(@, 1, keep), !.kids = SubSeq(@, 1, keep + 1)]
      /\ h.right = Inner(rk, rc)
      /\ h.key = x.keys[keep + 1]
  BY DEF InnerSplit
<1>3. keep \in Nat /\ 1 <= keep /\ keep + 2 <= count
  BY <1>1
<1> HIDE DEF keep, lk, lc, rk, rc
<1>4. /\ h.left.keys = lk /\ h.left.kids = lc /\ h.left.type = x.type
      /\ h.left.next = x.next
  BY <1>2 DEF IsNode, lk, lc
<1>5. /\ h.right.keys = rk /\ h.right.kids = rc /\ h.right.type = "inner"
      /\ h.right.next = None
  BY <1>2 DEF Inner
<1>6. HalfKeys(x.keys, lk, rk, x.keys[keep + 1])
  <2> DEFINE m == keep + 1
  <2>1. /\ m \in Nat /\ 1 <= m /\ m + 1 <= Len(x.keys) /\ keep <= m /\ x.keys \in Seq(Keys)
        /\ m + 1 = keep + 2
    BY <1>1, <1>3
  <2>2. rk = SubSeq(x.keys, m + 1, Len(x.keys))
    BY <2>1 DEF rk
  <2> HIDE DEF m
  <2>3. lk = SubSeq(x.keys, 1, keep)
    BY DEF lk
  <2>4. HalfKeys(x.keys, lk, rk, x.keys[m])
    BY <1>3, <2>1, <2>2, <2>3, KeysHalved
  <2> QED
    BY <2>4 DEF m
<1>7. DOMAIN lc = 1 .. keep + 1 /\ \A i \in 1 .. keep + 1 : lc[i] = x.kids[i]
  BY <1>1, <1>3 DEF lc
<1>8. /\ DOMAIN rc = 1 .. count - keep
      /\ \A i \in 1 .. count - keep : rc[i] = x.kids[keep + 1 + i]
  <2> DEFINE from == keep + 2
             to == count + 1
             ks == x.kids
  <2>1. /\ from \in Nat /\ to \in Nat /\ 1 <= from /\ to <= Len(ks) /\ from <= to + 1
        /\ ks \in Seq(S)
    BY <1>1, <1>3
  <2> HIDE DEF from, to, ks
  <2>2. /\ SubSeq(ks, from, to) \in Seq(S) /\ Len(SubSeq(ks, from, to)) = to - from + 1
        /\ \A i \in 1 .. to - from + 1 : SubSeq(ks, from, to)[i] = ks[from + i - 1]
    BY <2>1, SegmentAt
  <2>3. /\ to - from + 1 = count - keep
        /\ \A i \in 1 .. count - keep : from + i - 1 = keep + 1 + i
    BY <1>1, <1>3 DEF from, to
  <2>4. rc = SubSeq(ks, from, to)
    BY DEF from, to, ks, rc
  <2>5. DOMAIN SubSeq(ks, from, to) = 1 .. to - from + 1
    BY <2>2
  <2> QED
    BY <2>2, <2>3, <2>4, <2>5 DEF ks
<1>9. ASSUME NEW i \in DOMAIN lc
      PROVE  /\ i \in DOMAIN x.kids /\ i <= keep + 1 /\ lc[i] = x.kids[i]
             /\ \A k \in Keys : Position(x.keys, k, i - 1)
                                  <=> Position(lk, k, i - 1) /\ k <= x.keys[keep + 1]
  <2>1. i \in 1 .. keep + 1 /\ i - 1 \in 0 .. keep /\ i \in DOMAIN x.kids
    BY <1>1, <1>3, <1>7
  <2>2. keep + 1 <= Len(x.keys) /\ x.keys \in Seq(Keys)
    BY <1>1, <1>3
  <2>3. lk = SubSeq(x.keys, 1, keep)
    BY DEF lk
  <2> DEFINE j == i - 1
             ks == x.keys
  <2>4. j \in 0 .. keep /\ ks \in Seq(Keys) /\ Sorted(ks) /\ keep + 1 <= Len(ks)
        /\ lk = SubSeq(ks, 1, keep)
    BY <2>1, <2>2, <2>3
  <2> HIDE DEF j, ks
  <2>5. \A k \in Keys : Position(ks, k, j) <=> Position(lk, k, j) /\ k <= ks[keep + 1]
    BY <1>3, <2>4, PositionLeft, ZenonT(60)
  <2> QED
    BY <1>7, <2>1, <2>5 DEF j, ks
<1>10. ASSUME NEW i \in DOMAIN rc
       PROVE  /\ i \in Nat /\ 0 < i /\ keep + 1 + i \in DOMAIN x.kids
              /\ rc[i] = x.kids[keep + 1 + i]
              /\ \A k \in Keys : Position(x.keys, k, keep + 1 + i - 1)
                                   <=> Position(rk, k, i - 1) /\ x.keys[keep + 1] < k
  <2>1. i \in Nat /\ 0 < i /\ keep + 1 + i \in DOMAIN x.kids /\ i \in 1 .. count - keep
    BY <1>1, <1>3, <1>8
  <2> DEFINE j == i - 1
             ks == x.keys
  <2>2. /\ j \in 0 .. Len(ks) - keep - 1 /\ ks \in Seq(Keys) /\ Sorted(ks)
        /\ keep + 1 <= Len(ks) /\ rk = SubSeq(ks, keep + 2, Len(ks))
        /\ keep + 1 + i - 1 = keep + 1 + j
    BY <1>1, <1>3, <2>1 DEF rk
  <2> HIDE DEF j, ks
  <2>3. \A k \in Keys : Position(ks, k, keep + 1 + j) <=> Position(rk, k, j) /\ ks[keep + 1] < k
    BY <1>3, <2>2, PositionRight
  <2> QED
    BY <1>8, <2>1, <2>2, <2>3 DEF j, ks
<1>11. HalfKids(x, h.left, h.right, h.key, keep)
  <2>1. h.left.keys = lk /\ h.left.kids = lc /\ h.right.keys = rk /\ h.right.kids = rc
    BY <1>4, <1>5
  <2>2. h.key = x.keys[keep + 1]
    BY <1>2
  <2> QED
    BY <1>9, <1>10, <2>1, <2>2 DEF HalfKids
<1> QED
  BY <1>2, <1>3, <1>4, <1>5, <1>6, <1>11

\* What a split writes: the halves l and r of the node, and r is new.
SplitsInto(t, l, r, e, id) ==
  /\ id \notin Nodes /\ Nodes' = Nodes \cup {id}
  /\ \A m \in Nodes : tree'[m] = IF m = node[t] THEN l ELSE tree[m]
  /\ tree'[id] = r /\ sep'[t].key = e /\ sep'[t].new = id
  /\ HalfKeys(tree[node[t]].keys, l.keys, r.keys, e)
  /\ l.type = tree[node[t]].type
  /\ IF IsInner(node[t])
     THEN /\ r.type = "inner" /\ l.next = tree[node[t]].next /\ r.next = None
          /\ \E keep \in Nat : HalfKids(tree[node[t]], l, r, e, keep)
     ELSE /\ r.type = "leaf" /\ l.next = id /\ r.next = tree[node[t]].next
          /\ l.kids = tree[node[t]].kids /\ r.kids = <<>>
          /\ \A k, v : Has(tree[node[t]], k, v) <=> Has(l, k, v) \/ Has(r, k, v)

\* A split writes that.
LEMMA SplitWrites ==
  ASSUME IInv, RInv, NEW t \in Threads, Split(t), Sorted(tree[node[t]].keys)
  PROVE  /\ pc[t] = "split" /\ node[t] \in Nodes
         /\ root' = root /\ firstLeaf' = firstLeaf
         /\ op' = op /\ result' = result /\ UNCHANGED path
         /\ \E p \in {"linkParent", "makeRoot"} :
              Goto(t, p) /\ (p = "linkParent" <=> parent[t] # None)
         /\ StepOf(t)
         /\ \E l, r, e, id : SplitsInto(t, l, r, e, id)
<1>0. PICK newId : newId = Len(tree) + 1
  OBVIOUS
<1> DEFINE half == IF IsInner(node[t]) THEN InnerSplit(tree[node[t]])
                                       ELSE LeafSplit(tree[node[t]], newId)
           l == half.left
           r == half.right
<1>1. /\ pc[t] = "split" /\ root' = root /\ firstLeaf' = firstLeaf /\ UNCHANGED path
      /\ tree' = Grown(node[t], l, r)
      /\ sep' = [sep EXCEPT ![t] = [key |-> half.key, new |-> newId]]
      /\ toBuild' = toBuild /\ op' = op /\ result' = result
  BY <1>0 DEF Split, At, Grown, workload
<1>2. PICK p \in {"linkParent", "makeRoot"} :
        Goto(t, p) /\ (p = "linkParent" <=> parent[t] # None)
  BY DEF Split
<1>3. Knows(t) /\ ThreadOK(t)
  BY DEF RInv, IInv
<1>4. node[t] \in Nodes /\ Full(node[t])
  BY <1>1, <1>3 DEF ThreadOK, AtNode, Knows, KnowsNode
<1>5. IsNode(tree[node[t]]) /\ ContentOK(tree[node[t]], Nodes) /\ root \in Nodes
  BY <1>4 DEF IInv, TreeOK, RInv, ContentsOK
<1>6. Len(tree[node[t]].keys) = MaxKeys(tree[node[t]])
  BY <1>4 DEF Full, MaxKeys, IsInner
<1>7. IsNode(l) /\ l.word = tree[node[t]].word /\ IsNode(r)
  BY <1>5, HalvesAreNodes
<1>8. /\ HalfKeys(tree[node[t]].keys, l.keys, r.keys, half.key)
      /\ l.type = tree[node[t]].type
      /\ IF IsInner(node[t])
         THEN /\ r.type = "inner" /\ l.next = tree[node[t]].next /\ r.next = None
              /\ \E keep \in Nat : HalfKids(tree[node[t]], l, r, half.key, keep)
         ELSE /\ r.type = "leaf" /\ l.next = newId /\ r.next = tree[node[t]].next
              /\ l.kids = tree[node[t]].kids /\ r.kids = <<>>
              /\ \A k, v : Has(tree[node[t]], k, v) <=> Has(l, k, v) \/ Has(r, k, v)
  <2>1. CASE IsInner(node[t])
    <3>1. half = InnerSplit(tree[node[t]]) /\ tree[node[t]].type = "inner"
      BY <2>1 DEF IsInner
    <3> HIDE DEF half
    <3>2. /\ HalfKeys(tree[node[t]].keys, half.left.keys, half.right.keys, half.key)
          /\ half.left.type = tree[node[t]].type /\ half.right.type = "inner"
          /\ half.left.next = tree[node[t]].next /\ half.right.next = None
          /\ \E keep \in Nat : HalfKids(tree[node[t]], half.left, half.right, half.key, keep)
      BY <1>5, <1>6, <3>1, InnerHalved
    <3> QED
      BY <2>1, <3>2
  <2>2. CASE ~IsInner(node[t])
    <3>1. half = LeafSplit(tree[node[t]], newId) /\ tree[node[t]].type # "inner"
      BY <2>2 DEF IsInner
    <3> HIDE DEF half
    <3>2. /\ HalfKeys(tree[node[t]].keys, half.left.keys, half.right.keys, half.key)
          /\ half.left.type = tree[node[t]].type /\ half.right.type = "leaf"
          /\ half.left.next = newId /\ half.right.next = tree[node[t]].next
          /\ half.left.kids = tree[node[t]].kids /\ half.right.kids = <<>>
          /\ \A k, v : Has(tree[node[t]], k, v)
                         <=> Has(half.left, k, v) \/ Has(half.right, k, v)
      BY <1>5, <1>6, <3>1, LeafHalved
    <3> QED
      BY <2>2, <3>2
  <2> QED
    BY <2>1, <2>2
<1>9. Holds(t, node[t])
  BY <1>1 DEF Holds
<1>10. PICK e : e = half.key
  OBVIOUS
<1>11. sep'[t].key = e /\ sep'[t].new = newId
  BY <1>1, <1>10 DEF RInv, TasksPerThread
<1>12. OtherTasks(t)
  BY <1>1 DEF RInv, OtherTasks, TasksPerThread
<1> HIDE DEF half, l, r
<1>13. /\ Nodes' = Nodes \cup {newId}
       /\ \A m \in Nodes : tree'[m] = IF m = node[t] THEN l ELSE tree[m]
       /\ tree'[newId] = r
  BY <1>0, <1>1, <1>4, <1>5, <1>7, ReplacedAndAppended DEF IInv
<1>14. newId \notin Nodes
  <2>1. Len(tree) \in Nat /\ Nodes = 1 .. Len(tree)
    BY NodesAreNumbers DEF IInv
  <2> QED
    BY <1>0, <2>1
<1>15. \A m \in Nodes : NodeStep(t, m)
  <2>1. tree[node[t]].word \in Nat
    BY <1>5 DEF IsNode
  <2>2. \A m \in Nodes : tree[m].word \in Nat
    BY DEF IInv, TreeOK, IsNode
  <2> QED
    BY <1>7, <1>8, <1>9, <1>13, <2>1, <2>2 DEF NodeStep
<1>16. StepOf(t)
  BY <1>1, <1>2, <1>12, <1>13, <1>15, GotoMoves DEF StepOf
<1>17. SplitsInto(t, l, r, e, newId)
  BY <1>8, <1>10, <1>11, <1>13, <1>14 DEF SplitsInto
<1> QED
  BY <1>1, <1>2, <1>4, <1>16, <1>17

\* The node keeps the lower half of what belongs to it, until the new half is
\* linked it is sent all of it.
LEMMA SplitSeeks ==
  ASSUME IInv, RInv, NEW c, NEW s, Mapped(c, s), NEW t \in Threads, Split(t)
  PROVE  \E d, z : /\ Mapped(d, z)'
                   /\ \A m \in Nodes : z[m] = s[m] /\ (m # node[t] => d[m] = c[m])
<1> DEFINE n == node[t]
<1>0. ThreadOK(t) /\ pc[t] = "split"
  BY DEF IInv, Split, At
<1>1. n \in Nodes /\ Holds(t, n) /\ Sorted(tree[n].keys)
  BY <1>0 DEF ThreadOK, AtNode, Holds, Mapped, NodeCovers
<1>2. /\ root' = root /\ op' = op /\ result' = result /\ UNCHANGED path /\ StepOf(t)
  BY <1>1, SplitWrites
<1>3. PICK p \in {"linkParent", "makeRoot"} :
        Goto(t, p) /\ (p = "linkParent" <=> parent[t] # None)
  BY <1>1, SplitWrites
<1>4. PICK l, r, e, id : SplitsInto(t, l, r, e, id)
  BY <1>1, SplitWrites
<1>5. /\ Others(t) /\ pc'[t] = p /\ node' = node /\ parent' = parent /\ vNode' = vNode
      /\ vParent' = vParent
  BY <1>2, <1>3, GotoMoves
<1>6. /\ id \notin Nodes /\ Nodes' = Nodes \cup {id}
      /\ \A m \in Nodes : tree'[m] = IF m = n THEN l ELSE tree[m]
      /\ tree'[id] = r /\ sep'[t].key = e /\ sep'[t].new = id
      /\ HalfKeys(tree[n].keys, l.keys, r.keys, e) /\ l.type = tree[n].type
  BY <1>4 DEF SplitsInto
<1>7. c[n] = s[n] /\ c[n] \subseteq Keys /\ root \in Nodes
  <2>1. ~Pending(t)
    BY <1>0 DEF Pending
  <2> QED
    BY <1>1, <2>1, FreeIsWhole DEF Mapped, NodeCovers, IInv, TreeOK
<1>8. n = root \/ IsKid(n)
  <2>1. parent[t] = None => n = root
    BY <1>0 DEF Mapped, Seeks, SeeksBelow
  <2>2. parent[t] # None => parent[t] \in Inners
    BY <1>0 DEF ThreadOK, RInv, Knows, KnowsParent, Inners
  <2>3. parent[t] # None => IsKid(n)
    BY <1>0, <2>2 DEF Mapped, Seeks, SeeksBelow, IsKid
  <2> QED
    BY <2>1, <2>3
<1>9. PICK d : d = [m \in Nodes' |-> IF m = n THEN {k \in c[n] : k <= e}
                                    ELSE IF m = id THEN {k \in c[n] : e < k}
                                    ELSE c[m]]
  OBVIOUS
<1>10. PICK z : z = [m \in Nodes' |-> IF m = id THEN d[id] ELSE s[m]]
  OBVIOUS
<1>11. /\ d[n] = {k \in c[n] : k <= e} /\ d[id] = {k \in c[n] : e < k}
       /\ z[id] = d[id] /\ \A m \in Nodes : z[m] = s[m]
       /\ \A m \in Nodes : m # n => d[m] = c[m]
  BY <1>1, <1>6, <1>9, <1>10
<1>12. /\ Inners' = Inners \cup (IF IsInner(n) THEN {id} ELSE {})
       /\ IsInner(n) => Leaves' = Leaves
       /\ ~IsInner(n) => Leaves' = Leaves \cup {id}
       /\ IsInner(n) => r.type = "inner"
  <2>1. IF IsInner(n) THEN r.type = "inner" ELSE r.type = "leaf"
    BY <1>4 DEF SplitsInto
  <2> QED
    BY <1>6, <2>1 DEF Inners, Leaves, IsInner
<1>13. IsInner(n) => \E keep \in Nat : HalfKids(tree[n], l, r, e, keep)
  BY <1>4 DEF SplitsInto
<1>14. \A q \in Inners : \A i \in DOMAIN tree[q].kids : tree[q].kids[i] \in Nodes
  BY DEF RInv, ContentsOK, ContentOK, Inners, IsInner
<1>15. Pending(t)' /\ ~Pending(t)
  BY <1>0, <1>5 DEF Pending
<1>16. ASSUME NEW u \in Threads, u # t
       PROVE  /\ Pending(u)' <=> Pending(u)
              /\ node'[u] = node[u] /\ sep'[u] = sep[u]
  BY <1>2, <1>5, <1>16 DEF StepOf, Others, OtherTasks, Pending
<1>17. \A m \in Nodes' : NodeCovers(d, z, m)'
  <2> SUFFICES ASSUME NEW m \in Nodes' PROVE NodeCovers(d, z, m)'
    OBVIOUS
  <2>1. NodeCovers(c, s, n)
    BY <1>1 DEF Mapped
  <2>2. CASE m = n
    <3>1. Sorted(l.keys) /\ \A i \in DOMAIN l.keys : l.keys[i] \in d[n]
      BY <1>6, <1>11, <2>1 DEF HalfKeys, NodeCovers
    <3> QED
      BY <1>1, <1>5, <1>6, <1>7, <1>11, <1>15, <2>1, <2>2, <3>1 DEF NodeCovers
  <2>3. CASE m = id
    <3>1. Sorted(r.keys) /\ \A i \in DOMAIN r.keys : r.keys[i] \in d[id]
      BY <1>6, <1>11, <2>1 DEF HalfKeys, NodeCovers
    <3> QED
      BY <1>6, <1>7, <1>11, <2>3, <3>1 DEF NodeCovers
  <2>4. CASE m # n /\ m # id
    <3>1. m \in Nodes /\ NodeCovers(c, s, m)
      BY <1>6, <2>4 DEF Mapped
    <3>2. tree'[m] = tree[m] /\ d[m] = c[m] /\ z[m] = s[m]
      BY <1>6, <1>11, <2>4, <3>1
    <3>3. d[m] = z[m] \/ \E u \in Threads : Pending(u)' /\ node'[u] = m
      BY <1>15, <1>16, <3>1, <3>2 DEF NodeCovers
    <3> QED
      BY <3>1, <3>2, <3>3 DEF NodeCovers
  <2> QED
    BY <2>2, <2>3, <2>4
<1>18. LeavesApart(d)'
  <2> SUFFICES ASSUME NEW a \in Leaves', NEW b \in Leaves', NEW k, k \in d[a], k \in d[b]
               PROVE  a = b
    BY DEF LeavesApart
  <2>1. \A m, q \in Leaves : \A x : x \in c[m] /\ x \in c[q] => m = q
    BY DEF Mapped, LeavesApart
  <2>2. Leaves \subseteq Nodes
    BY DEF Leaves
  <2>3. ~IsInner(n) => n \in Leaves
    BY <1>1 DEF Leaves
  <2>4. \A m \in Leaves : d[m] \subseteq c[m]
    BY <1>11, <2>2
  <2>5. ASSUME k \in d[id], NEW m \in Leaves, k \in d[m], n \in Leaves PROVE FALSE
    <3>1. k \in c[n] /\ k \in c[m]
      BY <1>11, <2>4, <2>5
    <3>2. m = n
      BY <2>1, <2>5, <3>1
    <3>3. k <= e /\ e < k /\ k \in Keys /\ e \in Keys
      BY <1>6, <1>7, <1>11, <2>5, <3>1, <3>2 DEF HalfKeys
    <3> QED
      BY <3>3, KeyAssumption
  <2>6. \A m \in Leaves' : m \in Leaves \/ (m = id /\ n \in Leaves)
    <3>1. CASE IsInner(n)
      <4>1. Leaves' = Leaves
        BY <1>12, <3>1
      <4> QED
        BY <4>1
    <3>2. CASE ~IsInner(n)
      <4>1. Leaves' = Leaves \cup {id}
        BY <1>12, <3>2
      <4> QED
        BY <2>3, <3>2, <4>1
    <3> QED
      BY <3>1, <3>2
  <2> QED
    BY <2>1, <2>4, <2>5, <2>6
<1>19. \A q \in Inners' : Routes(d, z, q)'
  <2> SUFFICES ASSUME NEW q \in Inners' PROVE Routes(d, z, q)'
    OBVIOUS
  <2>1. \A m \in Inners : Routes(c, s, m) /\ m \in Nodes
    BY DEF Mapped, Inners
  <2>2. CASE q \in Inners /\ q # n
    <3>1. tree'[q] = tree[q] /\ d[q] = c[q]
      BY <1>6, <1>11, <2>1, <2>2
    <3>2. \A i \in DOMAIN tree[q].kids : z[tree[q].kids[i]] = s[tree[q].kids[i]]
      BY <1>11, <1>14, <2>2
    <3> QED
      BY <2>1, <2>2, <3>1, <3>2 DEF Routes
  <2>3. CASE q \in Inners /\ q = n
    <3>1. IsInner(n) /\ Routes(c, s, n) /\ tree'[n] = l
      BY <1>1, <1>6, <2>1, <2>3 DEF Inners
    <3>2. PICK keep \in Nat : HalfKids(tree[n], l, r, e, keep)
      BY <1>13, <3>1
    <3> SUFFICES ASSUME NEW i \in DOMAIN l.kids, NEW k \in Keys
                 PROVE  k \in z[l.kids[i]] <=> k \in d[n] /\ Position(l.keys, k, i - 1)
      BY <2>3, <3>1 DEF Routes
    <3>3. /\ i \in DOMAIN tree[n].kids /\ l.kids[i] = tree[n].kids[i]
          /\ Position(tree[n].keys, k, i - 1) <=> Position(l.keys, k, i - 1) /\ k <= e
      BY <3>2 DEF HalfKids
    <3>4. k \in s[tree[n].kids[i]] <=> k \in c[n] /\ Position(tree[n].keys, k, i - 1)
      BY <3>1, <3>3 DEF Routes
    <3>5. z[l.kids[i]] = s[tree[n].kids[i]]
      BY <1>11, <1>14, <2>3, <3>3
    <3> QED
      BY <1>11, <3>3, <3>4, <3>5
  <2>4. CASE q \notin Inners
    <3>1. IsInner(n) /\ q = id /\ tree'[q] = r /\ n \in Inners
      BY <1>1, <1>6, <1>12, <2>4 DEF Inners
    <3>2. PICK keep \in Nat : HalfKids(tree[n], l, r, e, keep)
      BY <1>13, <3>1
    <3> SUFFICES ASSUME NEW i \in DOMAIN r.kids, NEW k \in Keys
                 PROVE  k \in z[r.kids[i]] <=> k \in d[id] /\ Position(r.keys, k, i - 1)
      BY <3>1 DEF Routes
    <3> DEFINE j == keep + 1 + i
    <3>3. /\ j \in DOMAIN tree[n].kids /\ r.kids[i] = tree[n].kids[j]
          /\ Position(tree[n].keys, k, j - 1) <=> Position(r.keys, k, i - 1) /\ e < k
      BY <3>2 DEF HalfKids
    <3> HIDE DEF j
    <3>4. k \in s[tree[n].kids[j]] <=> k \in c[n] /\ Position(tree[n].keys, k, j - 1)
      BY <2>1, <3>1, <3>3 DEF Routes
    <3>5. z[r.kids[i]] = s[tree[n].kids[j]]
      BY <1>11, <1>14, <3>1, <3>3
    <3> QED
      BY <1>11, <3>3, <3>4, <3>5
  <2> QED
    BY <2>2, <2>3, <2>4
<1>20. \A a : IsKid(a)' => IsKid(a) /\ a \in Nodes
  <2> SUFFICES ASSUME NEW q \in Inners', NEW i \in DOMAIN tree'[q].kids
               PROVE  \E m \in Inners : \E j \in DOMAIN tree[m].kids :
                        tree[m].kids[j] = tree'[q].kids[i]
    BY <1>14 DEF IsKid
  <2>1. CASE q \in Inners /\ q # n
    <3>1. tree'[q] = tree[q]
      BY <1>6, <2>1 DEF Inners
    <3> QED
      BY <2>1, <3>1
  <2>2. CASE q = n \/ q \notin Inners
    <3>1. IsInner(n) /\ n \in Inners
      BY <1>1, <1>6, <1>12, <2>2 DEF Inners, IsInner
    <3>2. PICK keep \in Nat : HalfKids(tree[n], l, r, e, keep)
      BY <1>13, <3>1
    <3>3. tree'[q] = l \/ tree'[q] = r
      BY <1>1, <1>6, <1>12, <2>2
    <3>4. \E j \in DOMAIN tree[n].kids : tree[n].kids[j] = tree'[q].kids[i]
      BY <3>2, <3>3 DEF HalfKids
    <3> QED
      BY <3>1, <3>4
  <2> QED
    BY <2>1, <2>2
<1>21. OneParent'
  <2>1. ~IsKid(root)'
    BY <1>2, <1>20 DEF Mapped, OneParent
  <2>2. \A q, m \in Inners : \A i \in DOMAIN tree[q].kids : \A j \in DOMAIN tree[m].kids :
          tree[q].kids[i] = tree[m].kids[j] => q = m /\ i = j
    BY DEF Mapped, OneParent
  <2>3. ASSUME IsInner(n), NEW keep \in Nat, HalfKids(tree[n], l, r, e, keep),
               NEW q \in Inners', NEW m \in Inners',
               NEW i \in DOMAIN tree'[q].kids, NEW j \in DOMAIN tree'[m].kids,
               tree'[q].kids[i] = tree'[m].kids[j]
        PROVE  q = m /\ i = j
    <3> DEFINE Old(a) == IF a = id THEN n ELSE a
               At2(a, x) == IF a = id THEN keep + 1 + x ELSE x
    <3>1. ASSUME NEW a \in Inners', NEW x \in DOMAIN tree'[a].kids
          PROVE  /\ Old(a) \in Inners /\ At2(a, x) \in DOMAIN tree[Old(a)].kids
                 /\ tree'[a].kids[x] = tree[Old(a)].kids[At2(a, x)]
                 /\ a = n => x <= keep + 1
                 /\ a = id => x \in Nat /\ 0 < x
      <4>1. CASE a = id
        <5>1. tree'[a] = r /\ n \in Inners
          BY <1>1, <1>6, <2>3, <4>1 DEF Inners
        <5>2. /\ x \in Nat /\ 0 < x /\ keep + 1 + x \in DOMAIN tree[n].kids
              /\ r.kids[x] = tree[n].kids[keep + 1 + x]
          BY <2>3, <3>1, <5>1 DEF HalfKids
        <5> QED
          BY <1>1, <1>6, <4>1, <5>1, <5>2
      <4>2. CASE a = n
        <5>1. tree'[a] = l /\ n \in Inners /\ a # id
          BY <1>1, <1>6, <2>3, <4>2 DEF Inners
        <5>2. x \in DOMAIN tree[n].kids /\ x <= keep + 1 /\ l.kids[x] = tree[n].kids[x]
          BY <2>3, <3>1, <5>1 DEF HalfKids
        <5> QED
          BY <4>2, <5>1, <5>2
      <4>3. CASE a # id /\ a # n
        <5>1. a \in Inners
          BY <1>12, <3>1, <4>3
        <5>2. tree'[a] = tree[a]
          BY <1>6, <4>3, <5>1 DEF Inners
        <5> QED
          BY <3>1, <4>3, <5>1, <5>2
      <4> QED
        BY <4>1, <4>2, <4>3
    <3>2. /\ Old(q) \in Inners /\ At2(q, i) \in DOMAIN tree[Old(q)].kids
          /\ tree'[q].kids[i] = tree[Old(q)].kids[At2(q, i)]
          /\ q = n => i <= keep + 1
          /\ q = id => i \in Nat /\ 0 < i
      BY <2>3, <3>1
    <3>3. /\ Old(m) \in Inners /\ At2(m, j) \in DOMAIN tree[Old(m)].kids
          /\ tree'[m].kids[j] = tree[Old(m)].kids[At2(m, j)]
          /\ m = n => j <= keep + 1
          /\ m = id => j \in Nat /\ 0 < j
      BY <2>3, <3>1
    <3>4. Old(q) = Old(m) /\ At2(q, i) = At2(m, j)
      <4>1. PICK a : a = Old(q)
        OBVIOUS
      <4>2. PICK b : b = Old(m)
        OBVIOUS
      <4>3. PICK x : x = At2(q, i)
        OBVIOUS
      <4>4. PICK y : y = At2(m, j)
        OBVIOUS
      <4> HIDE DEF Old, At2
      <4>5. /\ a \in Inners /\ x \in DOMAIN tree[a].kids
            /\ b \in Inners /\ y \in DOMAIN tree[b].kids
        BY <3>2, <3>3, <4>1, <4>2, <4>3, <4>4
      <4>6. tree[a].kids[x] = tree[b].kids[y]
        BY <2>3, <3>2, <3>3, <4>1, <4>2, <4>3, <4>4
      <4>7. a = b /\ x = y
        BY <2>2, <4>5, <4>6
      <4> QED
        BY <4>1, <4>2, <4>3, <4>4, <4>7
    <3>5. ASSUME q = id, m = n PROVE FALSE
      <4>1. keep + 1 + i = j /\ j <= keep + 1 /\ i \in Nat /\ 0 < i
        BY <1>1, <1>6, <3>2, <3>3, <3>4, <3>5
      <4> QED
        BY <4>1
    <3>6. ASSUME m = id, q = n PROVE FALSE
      <4>1. keep + 1 + j = i /\ i <= keep + 1 /\ j \in Nat /\ 0 < j
        BY <1>1, <1>6, <3>2, <3>3, <3>4, <3>6
      <4> QED
        BY <4>1
    <3>7. q = m
      BY <3>4, <3>5, <3>6
    <3>8. i = j
      <4>1. CASE q = id
        <5>1. keep + 1 + i = keep + 1 + j /\ i \in Nat /\ j \in Nat
          BY <3>2, <3>3, <3>4, <3>7, <4>1
        <5> QED
          BY <5>1
      <4>2. CASE q # id
        BY <3>4, <3>7, <4>2
      <4> QED
        BY <4>1, <4>2
    <3> QED
      BY <3>7, <3>8
  <2>4. CASE IsInner(n)
    <3>1. PICK keep \in Nat : HalfKids(tree[n], l, r, e, keep)
      BY <1>13, <2>4
    <3>2. \A q, m \in Inners' : \A i \in DOMAIN tree'[q].kids : \A j \in DOMAIN tree'[m].kids :
            tree'[q].kids[i] = tree'[m].kids[j] => q = m /\ i = j
      BY <2>3, <2>4, <3>1
    <3> QED
      BY <2>1, <3>2 DEF OneParent
  <2>5. CASE ~IsInner(n)
    <3>1. Inners' = Inners /\ \A q \in Inners : tree'[q] = tree[q]
      BY <1>6, <1>12, <2>5 DEF Inners
    <3> QED
      BY <2>1, <2>2, <3>1 DEF OneParent
  <2> QED
    BY <2>4, <2>5
<1>22. \A u \in Threads : Halved(d, z, u)'
  <2> SUFFICES ASSUME NEW u \in Threads, Pending(u)' PROVE Halved(d, z, u)'
    BY DEF Halved
  <2>1. CASE u = t
    <3>1. id # root /\ ~IsKid(id)' /\ id \in Nodes'
      BY <1>6, <1>7, <1>20
    <3>2. e \in c[n]
      BY <1>1, <1>6 DEF HalfKeys, Mapped, NodeCovers
    <3>3. \E k \in Keys : k \in d[id]
      <4>1. NodeCovers(d, z, id)'
        BY <1>6, <1>17
      <4>2. \E i \in DOMAIN r.keys : r.keys[i] \in Keys
        BY <1>6 DEF HalfKeys
      <4> QED
        BY <1>6, <4>1, <4>2 DEF NodeCovers
    <3>4. Shares(d, z, n, e, id)
      BY <1>1, <1>7, <1>11, <3>2, <3>3 DEF Shares
    <3> QED
      BY <1>2, <1>5, <1>6, <2>1, <3>1, <3>4 DEF Halved, Shares
  <2>2. CASE u # t
    <3>1. Pending(u) /\ node'[u] = node[u] /\ sep'[u] = sep[u]
      BY <1>16, <2>2
    <3>2. Halved(c, s, u)
      BY DEF Mapped
    <3> DEFINE m == sep[u].new
    <3>3. m \in Nodes /\ m # root /\ ~IsKid(m) /\ Shares(c, s, node[u], sep[u].key, m)
      BY <3>1, <3>2 DEF Halved
    <3>4. m # n
      BY <1>8, <3>3
    <3>5. node[u] \in Nodes /\ node[u] # n
      <4>1. node[u] \in Nodes /\ Holds(u, node[u])
        BY <3>1 DEF Pending, Holds, IInv, ThreadOK, AtNode
      <4> QED
        BY <1>1, <2>2, <4>1 DEF IInv, LockOK
    <3>6. Shares(d, z, node[u], sep[u].key, m)
      BY <1>11, <3>3, <3>4, <3>5 DEF Shares
    <3> QED
      BY <1>2, <1>6, <1>20, <3>1, <3>3, <3>6 DEF Halved, Shares
  <2> QED
    BY <2>1, <2>2
<1>23. HalvesApart'
  <2>1. \A u \in Threads : u # t /\ Pending(u)' => Pending(u) /\ sep'[u] = sep[u] /\ sep[u].new \in Nodes
    BY <1>16 DEF Mapped, Halved
  <2> QED
    BY <1>6, <2>1 DEF Mapped, HalvesApart
<1>24. Reassigns(t, c, d)
  BY <1>1, <1>11 DEF Reassigns
<1>25. Seeks(d, t)'
  <2>1. Seeks(c, t)
    BY DEF Mapped
  <2>2. parent'[t] # None /\ Intact(parent[t], vParent[t])' =>
          op'[t].key \in d[parent'[t]] /\ node'[t] = ChildFor(parent[t], op[t].key)'
    BY <1>2, <1>5, <1>24, <2>1, BelowStands DEF Seeks
  <2>3. parent[t] # None =>
          \E i \in DOMAIN tree'[parent[t]].kids : tree'[parent[t]].kids[i] = node[t]
    <3>1. parent[t] # None => parent[t] \in Nodes /\ parent[t] # n
      BY <1>0 DEF ThreadOK
    <3>2. parent[t] # None => tree'[parent[t]] = tree[parent[t]]
      BY <1>6, <3>1
    <3> QED
      BY <1>0, <2>1, <3>2 DEF Seeks, SeeksBelow
  <2>4. parent[t] = None => node[t] = root'
    BY <1>0, <1>2, <2>1 DEF Seeks, SeeksBelow
  <2>5. SeeksBelow(d, t)'
    BY <1>5, <2>2, <2>3, <2>4 DEF SeeksBelow
  <2>6. SeeksHere(d, t)'
    BY <1>5 DEF SeeksHere, Arrived
  <2> QED
    BY <2>5, <2>6 DEF Seeks
<1>26. \A u \in Threads : Seeks(d, u)'
  <2>1. \A u \in Threads : u # t => Seeks(c, u)
    BY DEF Mapped
  <2> QED
    BY <1>2, <1>24, <1>25, <2>1, SeeksStands
<1>27. (z[root] = Keys)'
  BY <1>2, <1>7, <1>11 DEF Mapped
<1>28. Mapped(d, z)'
  BY <1>17, <1>18, <1>19, <1>21, <1>22, <1>23, <1>26, <1>27 DEF Mapped
<1> QED
  BY <1>11, <1>28

-----------------------------------------------------------------------------
(* The new half is linked: into the parent, or under a new root.            *)

\* Inner node y is x with the separator e and the child m to its right.
Linked(x, y, e, m) ==
  LET j == LowerBound(x.keys, e)
  IN  /\ y.keys = InsertAt(x.keys, j + 1, e) /\ y.kids = InsertAt(x.kids, j + 2, m)
      /\ y.type = x.type /\ y.vals = x.vals /\ y.next = x.next

\* What the link writes.
LEMMA LinkWrites ==
  ASSUME IInv, RInv, NEW t \in Threads, LinkParent(t)
  PROVE  /\ pc[t] = "linkParent" /\ root' = root /\ firstLeaf' = firstLeaf
         /\ op' = op /\ result' = result /\ UNCHANGED path /\ Goto(t, "unlockNode")
         /\ StepOf(t) /\ Nodes' = Nodes
         /\ \E y : /\ Linked(tree[parent[t]], y, sep[t].key, sep[t].new)
                   /\ \A m \in Nodes : tree'[m] = IF m = parent[t] THEN y ELSE tree[m]
<1> DEFINE p == parent[t]
           y == InnerInsert(tree[p], sep[t].key, sep[t].new)
<1>1. /\ pc[t] = "linkParent" /\ root' = root /\ firstLeaf' = firstLeaf /\ UNCHANGED path
      /\ Goto(t, "unlockNode") /\ tree' = With(p, y)
      /\ toBuild' = toBuild /\ op' = op /\ sep' = [sep EXCEPT ![t] = NoSplit]
      /\ result' = result
  BY DEF With, LinkParent, At, shape, workload
<1>2. p \in Nodes /\ IsInner(p) /\ ~Full(p) /\ sep[t].key \in Keys /\ sep[t].new \in Nodes
  BY <1>1 DEF IInv, ThreadOK, RInv, Knows, KnowsParent, KnowsTask
<1>3. IsNode(tree[p]) /\ ContentOK(tree[p], Nodes)
  BY <1>2 DEF IInv, TreeOK, RInv, ContentsOK
<1>4. /\ IsNode(y) /\ y.word = tree[p].word /\ ContentOK(y, Nodes)
      /\ y.type = tree[p].type
  BY <1>2, <1>3, InsertedIsNode, InsertedInner DEF IsInner, Full, MaxKeys
<1>5. Linked(tree[p], y, sep[t].key, sep[t].new)
  <2> DEFINE j == LowerBound(tree[p].keys, sep[t].key)
             a == InsertAt(tree[p].keys, j + 1, sep[t].key)
             b == InsertAt(tree[p].kids, j + 2, sep[t].new)
  <2>1. j \in Nat
    BY <1>2, <1>3, LowerBoundIsPosition DEF ContentOK
  <2>2. j + 1 + 1 = j + 2
    BY <2>1
  <2>3. y = [tree[p] EXCEPT !.keys = a, !.kids = b]
    BY <2>2 DEF InnerInsert
  <2> HIDE DEF a, b, y
  <2>4. /\ y.keys = a /\ y.kids = b /\ y.vals = tree[p].vals /\ y.next = tree[p].next
        /\ y.type = tree[p].type
    BY <1>3, <2>3 DEF IsNode
  <2> QED
    BY <2>4 DEF Linked, a, b
<1>6. Holds(t, p)
  BY <1>1 DEF Holds
<1> HIDE DEF y
<1>7. Replaces(t, p, y)
  BY <1>4, <1>6 DEF Replaces
<1>8. /\ Nodes' = Nodes /\ \A m \in Nodes : NodeStep(t, m)
      /\ \A m \in Nodes : tree'[m] = IF m = p THEN y ELSE tree[m]
  BY <1>1, <1>2, <1>7, NodeWritten
<1>9. Others(t) /\ OtherTasks(t)
  BY <1>1, GotoMoves DEF RInv, OtherTasks, TasksPerThread
<1> QED
  BY <1>1, <1>5, <1>8, <1>9 DEF StepOf

\* The children of an inner node and the keys that they get, with one more: the
\* keys of the child at j + 1 are shared at e with the new one.
LEMMA KidsLinked ==
  ASSUME NEW x, x.keys \in Seq(Keys), Sorted(x.keys), NEW S, x.kids \in Seq(S),
         Len(x.kids) = Len(x.keys) + 1, NEW e \in Keys, NEW m \in S, NEW y, Linked(x, y, e, m),
         NEW j \in 0 .. Len(x.keys), Position(x.keys, e, j),
         j + 1 \in DOMAIN x.keys => e # x.keys[j + 1]
  PROVE  /\ Sorted(y.keys) /\ DOMAIN y.kids = 1 .. Len(x.keys) + 2
         /\ \A i \in DOMAIN y.keys : y.keys[i] = e \/ \E h \in DOMAIN x.keys : y.keys[i] = x.keys[h]
         /\ \A i \in DOMAIN y.kids :
              \/ i = j + 2 /\ y.kids[i] = m
              \/ i < j + 2 /\ i \in DOMAIN x.kids /\ y.kids[i] = x.kids[i]
              \/ i > j + 2 /\ i - 1 \in DOMAIN x.kids /\ y.kids[i] = x.kids[i - 1]
         /\ \A i \in DOMAIN y.kids : \A k \in Keys :
              /\ i < j + 1 => (Position(y.keys, k, i - 1) <=> Position(x.keys, k, i - 1))
              /\ i = j + 1 => (Position(y.keys, k, i - 1) <=> Position(x.keys, k, j) /\ k <= e)
              /\ i = j + 2 => (Position(y.keys, k, i - 1) <=> Position(x.keys, k, j) /\ e < k)
              /\ i > j + 2 => (Position(y.keys, k, i - 1) <=> Position(x.keys, k, i - 2))
<1>1. Len(x.keys) \in Nat /\ DOMAIN x.keys = 1 .. Len(x.keys) /\ DOMAIN x.kids = 1 .. Len(x.keys) + 1
  BY KeysAreNumbers
<1>2. LowerBound(x.keys, e) = j
  BY LowerBoundIsThere, OnePosition
<1>3. y.keys = InsertAt(x.keys, j + 1, e) /\ y.kids = InsertAt(x.kids, j + 2, m)
  BY <1>2 DEF Linked
<1> DEFINE ks == x.keys
           cs == x.kids
<1>4. /\ Sorted(y.keys) /\ y.keys \in Seq(Keys) /\ Len(y.keys) = Len(x.keys) + 1
      /\ \A h \in 1 .. Len(x.keys) + 1 : /\ h < j + 1 => y.keys[h] = x.keys[h]
                                         /\ h = j + 1 => y.keys[h] = e
                                         /\ h > j + 1 => y.keys[h] = x.keys[h - 1]
  <2> HIDE DEF ks
  <2>1. ks \in Seq(Keys) /\ Sorted(ks) /\ j \in 0 .. Len(ks) /\ Position(ks, e, j)
        /\ (j + 1 \in DOMAIN ks => e # ks[j + 1])
    BY DEF ks
  <2>2. LET more == InsertAt(ks, j + 1, e)
        IN  /\ Sorted(more) /\ more \in Seq(Keys) /\ Len(more) = Len(ks) + 1
            /\ \A h \in 1 .. Len(ks) + 1 :
                 /\ h < j + 1 => more[h] = ks[h]
                 /\ h = j + 1 => more[h] = e
                 /\ h > j + 1 => more[h] = ks[h - 1]
    BY <2>1, SortedInsert
  <2> QED
    BY <1>3, <2>2 DEF ks
<1>5. \A i \in DOMAIN y.keys : y.keys[i] = e \/ \E h \in DOMAIN x.keys : y.keys[i] = x.keys[h]
  <2> SUFFICES ASSUME NEW i \in 1 .. Len(x.keys) + 1
               PROVE  y.keys[i] = e \/ \E h \in DOMAIN x.keys : y.keys[i] = x.keys[h]
    BY <1>1, <1>4, SMTT(30)
  <2>1. i = j + 1 \/ (i < j + 1 /\ i \in DOMAIN x.keys) \/ (i > j + 1 /\ i - 1 \in DOMAIN x.keys)
    BY <1>1
  <2> QED
    BY <1>4, <2>1
<1>6. /\ y.kids \in Seq(S) /\ Len(y.kids) = Len(x.keys) + 2
      /\ \A h \in 1 .. Len(x.keys) + 2 : /\ h < j + 2 => y.kids[h] = x.kids[h]
                                         /\ h = j + 2 => y.kids[h] = m
                                         /\ h > j + 2 => y.kids[h] = x.kids[h - 1]
  <2> DEFINE at == j + 2
  <2>1. at \in 1 .. Len(cs) + 1 /\ cs \in Seq(S) /\ Len(cs) + 1 = Len(x.keys) + 2
    BY <1>1
  <2> HIDE DEF at, cs
  <2>2. /\ InsertAt(cs, at, m) \in Seq(S) /\ Len(InsertAt(cs, at, m)) = Len(cs) + 1
        /\ \A h \in 1 .. Len(cs) + 1 : /\ h < at => InsertAt(cs, at, m)[h] = cs[h]
                                       /\ h = at => InsertAt(cs, at, m)[h] = m
                                       /\ h > at => InsertAt(cs, at, m)[h] = cs[h - 1]
    <3>1. HasInserted(S, cs, at, m, InsertAt(cs, at, m))
      BY <2>1, InsertAtInserts
    <3> QED
      BY <3>1 DEF HasInserted
  <2>3. y.kids = InsertAt(cs, at, m)
    BY <1>3 DEF at, cs
  <2> QED
    BY <2>1, <2>2, <2>3 DEF at, cs
<1>7. DOMAIN y.kids = 1 .. Len(x.keys) + 2
  BY <1>1, <1>6
<1>8. \A i \in DOMAIN y.kids :
        \/ i = j + 2 /\ y.kids[i] = m
        \/ i < j + 2 /\ i \in DOMAIN x.kids /\ y.kids[i] = x.kids[i]
        \/ i > j + 2 /\ i - 1 \in DOMAIN x.kids /\ y.kids[i] = x.kids[i - 1]
  <2> SUFFICES ASSUME NEW i \in 1 .. Len(x.keys) + 2
               PROVE  \/ i = j + 2 /\ y.kids[i] = m
                      \/ i < j + 2 /\ i \in DOMAIN x.kids /\ y.kids[i] = x.kids[i]
                      \/ i > j + 2 /\ i - 1 \in DOMAIN x.kids /\ y.kids[i] = x.kids[i - 1]
    BY <1>7
  <2>1. i = j + 2 \/ (i < j + 2 /\ i \in DOMAIN x.kids) \/ (i > j + 2 /\ i - 1 \in DOMAIN x.kids)
    BY <1>1
  <2> QED
    BY <1>6, <2>1
<1>9. ASSUME NEW i \in DOMAIN y.kids, NEW k \in Keys
      PROVE  /\ i < j + 1 => (Position(y.keys, k, i - 1) <=> Position(x.keys, k, i - 1))
             /\ i = j + 1 => (Position(y.keys, k, i - 1) <=> Position(x.keys, k, j) /\ k <= e)
             /\ i = j + 2 => (Position(y.keys, k, i - 1) <=> Position(x.keys, k, j) /\ e < k)
             /\ i > j + 2 => (Position(y.keys, k, i - 1) <=> Position(x.keys, k, i - 2))
  <2> DEFINE h == i - 1
  <2>1. i \in 1 .. Len(x.keys) + 2
    BY <1>7, <1>9
  <2>2. /\ h \in 0 .. Len(x.keys) + 1 /\ h - 1 = i - 2
        /\ (i < j + 1 <=> h < j) /\ (i = j + 1 <=> h = j) /\ (i = j + 2 <=> h = j + 1)
    BY <1>1, <2>1
  <2>3. h < j \/ h = j \/ h = j + 1 \/ (i > j + 2 /\ ~(h < j) /\ h # j /\ h # j + 1)
    BY <1>1, <2>1, SMTT(30)
  <2> HIDE DEF h
  <2>4. Position(y.keys, k, h) <=> IF h < j THEN Position(ks, k, h)
                                   ELSE IF h = j THEN Position(ks, k, j) /\ k <= e
                                   ELSE IF h = j + 1 THEN Position(ks, k, j) /\ e < k
                                   ELSE Position(ks, k, h - 1)
    <3> HIDE DEF ks
    <3>1. /\ ks \in Seq(Keys) /\ Sorted(ks) /\ j \in 0 .. Len(ks) /\ Position(ks, e, j)
          /\ (j + 1 \in DOMAIN ks => e # ks[j + 1])
          /\ y.keys = InsertAt(ks, j + 1, e) /\ h \in 0 .. Len(ks) + 1
      BY <1>3, <2>2 DEF ks
    <3> DEFINE more == y.keys
    <3> HIDE DEF more
    <3>2. more = InsertAt(ks, j + 1, e)
      BY <3>1 DEF more
    <3>3. Position(more, k, h) <=> IF h < j THEN Position(ks, k, h)
                                   ELSE IF h = j THEN Position(ks, k, j) /\ k <= e
                                   ELSE IF h = j + 1 THEN Position(ks, k, j) /\ e < k
                                   ELSE Position(ks, k, h - 1)
      BY <3>1, <3>2, PositionInserted
    <3> QED
      BY <3>3 DEF more
  <2>5. Position(y.keys, k, h) <=> Position(y.keys, k, i - 1)
    BY DEF h
  <2>6. Position(ks, k, h) <=> Position(x.keys, k, i - 1)
    BY DEF h, ks
  <2>7. Position(ks, k, h - 1) <=> Position(x.keys, k, i - 2)
    BY <2>2 DEF ks
  <2>8. i < j + 1 => (Position(y.keys, k, i - 1) <=> Position(x.keys, k, i - 1))
    BY <2>2, <2>4, <2>5, <2>6
  <2>9. i = j + 1 => (Position(y.keys, k, i - 1) <=> Position(x.keys, k, j) /\ k <= e)
    BY <2>2, <2>4, <2>5
  <2>10. i = j + 2 => (Position(y.keys, k, i - 1) <=> Position(x.keys, k, j) /\ e < k)
    <3>1. i = j + 2 => h = j + 1 /\ ~(h < j) /\ h # j
      BY <2>2
    <3> QED
      BY <2>4, <2>5, <3>1
  <2>11. i > j + 2 => (Position(y.keys, k, i - 1) <=> Position(x.keys, k, i - 2))
    <3>1. i > j + 2 => ~(h < j) /\ h # j /\ h # j + 1
      BY <2>1, <2>2
    <3> QED
      BY <2>4, <2>5, <2>7, <3>1
  <2> QED
    BY <2>8, <2>9, <2>10, <2>11
<1> QED
  BY <1>4, <1>5, <1>7, <1>8, <1>9

\* The new half goes under the parent.
LEMMA LinkSeeks ==
  ASSUME IInv, RInv, NEW c, NEW s, Mapped(c, s), NEW t \in Threads, LinkParent(t)
  PROVE  \E z : Mapped(c, z)'
<1> DEFINE p == parent[t]
           n == node[t]
           e == sep[t].key
           new == sep[t].new
           ks == tree[p].keys
           cs == tree[p].kids
<1>1. /\ pc[t] = "linkParent" /\ root' = root /\ op' = op /\ result' = result /\ UNCHANGED path
      /\ Goto(t, "unlockNode") /\ StepOf(t) /\ Nodes' = Nodes
  BY LinkWrites
<1>2. PICK y : /\ Linked(tree[p], y, e, new)
               /\ \A m \in Nodes : tree'[m] = IF m = p THEN y ELSE tree[m]
  BY LinkWrites
<1>3. /\ Others(t) /\ pc'[t] = "unlockNode" /\ node' = node /\ parent' = parent
      /\ vNode' = vNode /\ vParent' = vParent
  BY <1>1, GotoMoves
<1>4. /\ ThreadOK(t) /\ Knows(t) /\ Pending(t) /\ ~Pending(t)'
  BY <1>1, <1>3 DEF IInv, RInv, Pending
<1>5. /\ p \in Nodes /\ p # None /\ n \in Nodes /\ n # p /\ p \in Inners /\ e \in Keys /\ new \in Nodes
      /\ root \in Nodes
  BY <1>1, <1>4 DEF ThreadOK, AtNode, Knows, KnowsParent, KnowsTask, Inners, IInv, TreeOK
<1>6. /\ ks \in Seq(Keys) /\ cs \in Seq(Nodes) /\ Len(cs) = Len(ks) + 1 /\ Sorted(ks)
      /\ \A i \in DOMAIN ks : ks[i] \in c[p]
  <2>1. NodeCovers(c, s, p) /\ ContentOK(tree[p], Nodes) /\ tree[p].type = "inner"
    BY <1>5 DEF Mapped, RInv, ContentsOK, Inners, IsInner
  <2> QED
    BY <2>1 DEF NodeCovers, ContentOK
<1>7. new # root /\ ~IsKid(new) /\ Shares(c, s, n, e, new)
  BY <1>4 DEF Mapped, Halved
<1>8. c[n] \subseteq Keys /\ c[new] \subseteq Keys /\ s[n] \subseteq Keys
  BY <1>5 DEF Mapped, NodeCovers
<1> HIDE DEF ks, cs
<1>9. PICK at \in DOMAIN cs : cs[at] = n
  <2>1. Seeks(c, t)
    BY DEF Mapped
  <2> QED
    BY <1>1, <1>5, <2>1 DEF Seeks, SeeksBelow, cs
<1>10. PICK j : j = at - 1
  OBVIOUS
<1>11. /\ j \in 0 .. Len(ks) /\ at = j + 1 /\ at \in Nat
       /\ \A k \in Keys : k \in s[n] <=> k \in c[p] /\ Position(ks, k, j)
  <2>1. j \in 0 .. Len(ks) /\ at = j + 1 /\ at \in Nat
    BY <1>6, <1>9, <1>10
  <2>2. \A k \in Keys : k \in s[cs[at]] <=> k \in c[p] /\ Position(ks, k, at - 1)
    <3>1. Routes(c, s, p)
      BY <1>5 DEF Mapped
    <3> QED
      BY <1>9, <3>1 DEF Routes, ks, cs
  <2> QED
    BY <1>9, <1>10, <2>1, <2>2
<1>12. e \in c[p] /\ Position(ks, e, j)
  BY <1>5, <1>7, <1>11 DEF Shares
<1>13. j + 1 \in DOMAIN ks => e # ks[j + 1]
  <2> SUFFICES ASSUME j + 1 \in DOMAIN ks, e = ks[j + 1] PROVE FALSE
    OBVIOUS
  <2>1. PICK k \in Keys : k \in s[n] /\ e < k
    BY <1>7 DEF Shares
  <2>2. Position(ks, k, j)
    BY <1>11, <2>1
  <2>3. j + 1 \in DOMAIN ks /\ ~(j + 1 <= j)
    BY <1>11
  <2>4. k <= ks[j + 1]
    BY <2>2, <2>3 DEF Position
  <2>5. e \in Nat /\ k \in Nat
    BY <1>5, KeyAssumption
  <2> QED
    BY <2>1, <2>4, <2>5
<1>14. /\ Sorted(y.keys) /\ DOMAIN y.kids = 1 .. Len(ks) + 2
       /\ \A i \in DOMAIN y.keys : y.keys[i] = e \/ \E h \in DOMAIN ks : y.keys[i] = ks[h]
       /\ \A i \in DOMAIN y.kids :
            \/ i = j + 2 /\ y.kids[i] = new
            \/ i < j + 2 /\ i \in DOMAIN cs /\ y.kids[i] = cs[i]
            \/ i > j + 2 /\ i - 1 \in DOMAIN cs /\ y.kids[i] = cs[i - 1]
       /\ \A i \in DOMAIN y.kids : \A k \in Keys :
            /\ i < j + 1 => (Position(y.keys, k, i - 1) <=> Position(ks, k, i - 1))
            /\ i = j + 1 => (Position(y.keys, k, i - 1) <=> Position(ks, k, j) /\ k <= e)
            /\ i = j + 2 => (Position(y.keys, k, i - 1) <=> Position(ks, k, j) /\ e < k)
            /\ i > j + 2 => (Position(y.keys, k, i - 1) <=> Position(ks, k, i - 2))
  <2>1. PICK x : x = tree[p]
    OBVIOUS
  <2>2. /\ x.keys \in Seq(Keys) /\ Sorted(x.keys) /\ x.kids \in Seq(Nodes)
        /\ Len(x.kids) = Len(x.keys) + 1 /\ Linked(x, y, e, new) /\ j \in 0 .. Len(x.keys)
        /\ Position(x.keys, e, j) /\ (j + 1 \in DOMAIN x.keys => e # x.keys[j + 1])
        /\ x.keys = ks /\ x.kids = cs
    BY <1>2, <1>6, <1>11, <1>12, <1>13, <2>1 DEF ks, cs
  <2>3. e \in Keys /\ new \in Nodes
    BY <1>5
  <2> HIDE DEF e, new
  <2>4. /\ Sorted(y.keys) /\ DOMAIN y.kids = 1 .. Len(x.keys) + 2
        /\ \A i \in DOMAIN y.keys : y.keys[i] = e \/ \E h \in DOMAIN x.keys : y.keys[i] = x.keys[h]
        /\ \A i \in DOMAIN y.kids :
             \/ i = j + 2 /\ y.kids[i] = new
             \/ i < j + 2 /\ i \in DOMAIN x.kids /\ y.kids[i] = x.kids[i]
             \/ i > j + 2 /\ i - 1 \in DOMAIN x.kids /\ y.kids[i] = x.kids[i - 1]
        /\ \A i \in DOMAIN y.kids : \A k \in Keys :
             /\ i < j + 1 => (Position(y.keys, k, i - 1) <=> Position(x.keys, k, i - 1))
             /\ i = j + 1 => (Position(y.keys, k, i - 1) <=> Position(x.keys, k, j) /\ k <= e)
             /\ i = j + 2 => (Position(y.keys, k, i - 1) <=> Position(x.keys, k, j) /\ e < k)
             /\ i > j + 2 => (Position(y.keys, k, i - 1) <=> Position(x.keys, k, i - 2))
    BY <2>2, <2>3, KidsLinked
  <2> QED
    BY <2>2, <2>4
<1>15. PICK z : z = [m \in Nodes |-> IF m = n THEN c[n] ELSE s[m]]
  OBVIOUS
<1>16. z[n] = c[n] /\ \A m \in Nodes : m # n => z[m] = s[m]
  BY <1>5, <1>15
<1>17. IsKid(n) /\ n # root /\ new # n
  <2>1. IsKid(n)
    BY <1>5, <1>9 DEF IsKid, cs
  <2> QED
    BY <1>7, <2>1 DEF Mapped, OneParent
<1>18. z[new] = c[new]
  BY <1>5, <1>7, <1>16, <1>17 DEF Shares
<1>19. /\ Inners' = Inners /\ Leaves' = Leaves /\ tree'[p] = y
       /\ \A m \in Nodes : m # p => tree'[m] = tree[m]
  <2>1. \A m \in Nodes : tree'[m].type = tree[m].type
    BY <1>2 DEF Linked
  <2> QED
    BY <1>1, <1>2, <1>5, <2>1 DEF Inners, Leaves, IsInner
<1>20. \A q, m \in Inners : \A i \in DOMAIN tree[q].kids : \A h \in DOMAIN tree[m].kids :
          tree[q].kids[i] = tree[m].kids[h] => q = m /\ i = h
  BY DEF Mapped, OneParent
<1>21. ASSUME NEW u \in Threads, u # t
       PROVE  /\ Pending(u)' <=> Pending(u)
              /\ node'[u] = node[u] /\ sep'[u] = sep[u]
  BY <1>1, <1>3, <1>21 DEF StepOf, Others, OtherTasks, Pending
<1>22. \A m \in Nodes' : NodeCovers(c, z, m)'
  <2> SUFFICES ASSUME NEW m \in Nodes PROVE NodeCovers(c, z, m)'
    BY <1>1
  <2>1. NodeCovers(c, s, m)
    BY DEF Mapped
  <2>2. c[m] = z[m] \/ \E u \in Threads : Pending(u)' /\ node'[u] = m
    <3>1. CASE m = n
      BY <1>16, <3>1
    <3>2. CASE m # n
      BY <1>16, <1>21, <2>1, <3>2 DEF NodeCovers
    <3> QED
      BY <3>1, <3>2
  <2>3. c[m] \subseteq Keys /\ z[m] \subseteq Keys
    BY <1>8, <1>16, <2>1 DEF NodeCovers
  <2>4. Sorted(tree'[m].keys) /\ \A i \in DOMAIN tree'[m].keys : tree'[m].keys[i] \in c[m]
    <3>1. CASE m = p
      BY <1>6, <1>12, <1>14, <1>19, <3>1
    <3>2. CASE m # p
      BY <1>19, <2>1, <3>2 DEF NodeCovers
    <3> QED
      BY <3>1, <3>2
  <2> QED
    BY <2>2, <2>3, <2>4 DEF NodeCovers
<1>23. LeavesApart(c)'
  BY <1>19 DEF Mapped, LeavesApart
<1>24. ASSUME NEW i \in DOMAIN cs, i # j + 1 PROVE cs[i] # n /\ cs[i] \in Nodes
  <2>1. cs[i] \in Nodes
    BY <1>6
  <2>2. cs[i] = cs[at] => i = at
    BY <1>5, <1>9, <1>20 DEF cs
  <2> QED
    BY <1>9, <1>11, <1>24, <2>1, <2>2
<1>25. Routes(c, z, p)'
  <2> SUFFICES ASSUME NEW i \in DOMAIN y.kids, NEW k \in Keys
               PROVE  k \in z[y.kids[i]] <=> k \in c[p] /\ Position(y.keys, k, i - 1)
    BY <1>3, <1>19 DEF Routes
  <2>1. \A h \in DOMAIN cs : k \in s[cs[h]] <=> k \in c[p] /\ Position(ks, k, h - 1)
    <3>1. Routes(c, s, p)
      BY <1>5 DEF Mapped
    <3> QED
      BY <3>1 DEF Routes, ks, cs
  <2>2. CASE i = j + 2
    <3>1. y.kids[i] = new /\ (Position(y.keys, k, i - 1) <=> Position(ks, k, j) /\ e < k)
      <4>1. ~(i < j + 2) /\ ~(i > j + 2)
        BY <1>11, <2>2
      <4> QED
        BY <1>14, <2>2, <4>1
    <3>2. k \in c[new] <=> k \in s[n] /\ e < k
      BY <1>7 DEF Shares
    <3> QED
      BY <1>11, <1>18, <3>1, <3>2
  <2>3. CASE i = j + 1
    <3>1. y.kids[i] = n /\ (Position(y.keys, k, i - 1) <=> Position(ks, k, j) /\ k <= e)
      <4>1. ~(i = j + 2) /\ ~(i > j + 2) /\ i = at
        BY <1>11, <2>3
      <4> QED
        BY <1>9, <1>14, <2>3, <4>1
    <3>2. k \in c[n] <=> k \in s[n] /\ k <= e
      BY <1>7 DEF Shares
    <3> QED
      BY <1>11, <1>16, <3>1, <3>2
  <2>4. CASE i < j + 1
    <3>1. ~(i = j + 2) /\ ~(i > j + 2) /\ i # j + 1
      BY <1>11, <1>14, <2>4
    <3>2. /\ i \in DOMAIN cs /\ y.kids[i] = cs[i]
          /\ (Position(y.keys, k, i - 1) <=> Position(ks, k, i - 1))
      BY <1>14, <2>4, <3>1
    <3>3. z[cs[i]] = s[cs[i]]
      BY <1>16, <1>24, <3>1, <3>2
    <3> QED
      BY <2>1, <3>2, <3>3
  <2>5. CASE i > j + 2
    <3>1. ~(i = j + 2) /\ ~(i < j + 2) /\ i - 1 # j + 1 /\ (i - 1) - 1 = i - 2
      BY <1>11, <1>14, <2>5
    <3>2. PICK h : h = i - 1
      OBVIOUS
    <3>3. /\ h \in DOMAIN cs /\ y.kids[i] = cs[h] /\ h # j + 1 /\ h - 1 = i - 2
          /\ (Position(y.keys, k, i - 1) <=> Position(ks, k, i - 2))
      BY <1>14, <2>5, <3>1, <3>2
    <3>4. z[cs[h]] = s[cs[h]]
      BY <1>16, <1>24, <3>3
    <3> QED
      BY <2>1, <3>3, <3>4
  <2>6. i < j + 1 \/ i = j + 1 \/ i = j + 2 \/ i > j + 2
    BY <1>11, <1>14
  <2> QED
    BY <2>2, <2>3, <2>4, <2>5, <2>6
<1>26. \A q \in Inners' : Routes(c, z, q)'
  <2> SUFFICES ASSUME NEW q \in Inners, q # p PROVE Routes(c, z, q)'
    BY <1>3, <1>19, <1>25
  <2>1. Routes(c, s, q) /\ tree'[q] = tree[q]
    BY <1>19 DEF Mapped, Inners
  <2>2. \A i \in DOMAIN tree[q].kids : z[tree[q].kids[i]] = s[tree[q].kids[i]]
    <3>1. \A i \in DOMAIN tree[q].kids : tree[q].kids[i] \in Nodes
      BY DEF RInv, ContentsOK, ContentOK, Inners, IsInner
    <3>2. \A i \in DOMAIN tree[q].kids : tree[q].kids[i] # n
      BY <1>5, <1>9, <1>20 DEF cs
    <3> QED
      BY <1>16, <3>1, <3>2
  <2> QED
    BY <2>1, <2>2 DEF Routes
<1>27. \A q \in Inners : \A i \in DOMAIN tree'[q].kids :
         \/ q = p /\ i = j + 2 /\ tree'[q].kids[i] = new
         \/ /\ ~(q = p /\ i = j + 2)
            /\ \E h \in DOMAIN tree[q].kids :
                 /\ tree'[q].kids[i] = tree[q].kids[h]
                 /\ h = IF q = p /\ i > j + 2 THEN i - 1 ELSE i
  <2> SUFFICES ASSUME NEW q \in Inners, NEW i \in DOMAIN tree'[q].kids, ~(q = p /\ i = j + 2)
               PROVE  \E h \in DOMAIN tree[q].kids :
                        /\ tree'[q].kids[i] = tree[q].kids[h]
                        /\ h = IF q = p /\ i > j + 2 THEN i - 1 ELSE i
    <3>1. \A i \in DOMAIN y.kids : i = j + 2 => y.kids[i] = new
      <4>1. j + 2 \in Int /\ ~(j + 2 < j + 2) /\ ~(j + 2 > j + 2)
        BY <1>11
      <4> QED
        BY <1>14, <4>1
    <3> QED
      BY <1>19, <3>1
  <2>1. CASE q # p
    BY <1>19, <2>1 DEF Inners
  <2>2. CASE q = p
    <3>1. i # j + 2 /\ i \in DOMAIN y.kids /\ tree'[q].kids = y.kids /\ tree[q].kids = cs
      BY <1>19, <2>2 DEF cs
    <3>2. \/ i < j + 2 /\ i \in DOMAIN cs /\ y.kids[i] = cs[i] /\ ~(i > j + 2)
          \/ i > j + 2 /\ i - 1 \in DOMAIN cs /\ y.kids[i] = cs[i - 1]
      <4>1. i \in Int /\ j \in Int
        BY <1>11, <1>14, <3>1
      <4>2. i < j + 2 => ~(i > j + 2)
        BY <4>1
      <4> QED
        BY <1>14, <3>1, <4>2
    <3> QED
      BY <2>2, <3>1, <3>2
  <2> QED
    BY <2>1, <2>2
<1>28. \A a : IsKid(a)' => IsKid(a) \/ a = new
  BY <1>19, <1>27 DEF IsKid
<1>29. OneParent'
  <2>1. ~IsKid(root)'
    BY <1>1, <1>7, <1>28 DEF Mapped, OneParent
  <2>2. ASSUME NEW q \in Inners, NEW m \in Inners, NEW i \in DOMAIN tree'[q].kids,
               NEW h \in DOMAIN tree'[m].kids, tree'[q].kids[i] = tree'[m].kids[h]
        PROVE  q = m /\ i = h
    <3>1. CASE tree'[q].kids[i] = new
      <4>1. \A a \in Inners : \A b \in DOMAIN tree[a].kids : tree[a].kids[b] # new
        BY <1>7 DEF IsKid
      <4>2. \A a \in Inners : \A b \in DOMAIN tree'[a].kids :
              tree'[a].kids[b] = new => a = p /\ b = j + 2
        BY <1>27, <4>1
      <4>3. q = p /\ i = j + 2 /\ m = p /\ h = j + 2
        BY <2>2, <3>1, <4>2
      <4> QED
        BY <4>3
    <3>2. CASE tree'[q].kids[i] # new
      <4>1. PICK a \in DOMAIN tree[q].kids :
              /\ tree'[q].kids[i] = tree[q].kids[a]
              /\ ~(q = p /\ i = j + 2)
              /\ a = IF q = p /\ i > j + 2 THEN i - 1 ELSE i
        BY <1>27, <3>2
      <4>2. PICK b \in DOMAIN tree[m].kids :
              /\ tree'[m].kids[h] = tree[m].kids[b]
              /\ ~(m = p /\ h = j + 2)
              /\ b = IF m = p /\ h > j + 2 THEN h - 1 ELSE h
        BY <1>27, <2>2, <3>2
      <4>3. q = m /\ a = b
        <5>1. tree[q].kids[a] = tree[m].kids[b]
          BY <2>2, <4>1, <4>2
        <5> QED
          BY <1>20, <5>1
      <4>4. CASE q = p
        <5>1. i \in Int /\ h \in Int /\ j \in Int /\ i # j + 2 /\ h # j + 2
          BY <1>11, <1>14, <1>19, <4>1, <4>2, <4>3, <4>4
        <5> QED
          BY <4>1, <4>2, <4>3, <4>4, <5>1
      <4>5. CASE q # p
        BY <4>1, <4>2, <4>3, <4>5
      <4> QED
        BY <4>3, <4>4, <4>5
    <3> QED
      BY <3>1, <3>2
  <2> QED
    BY <1>19, <2>1, <2>2 DEF OneParent
<1>30. \A u \in Threads : Halved(c, z, u)'
  <2> SUFFICES ASSUME NEW u \in Threads, Pending(u)' PROVE Halved(c, z, u)'
    BY DEF Halved
  <2>1. u # t
    BY <1>4
  <2>2. Pending(u) /\ node'[u] = node[u] /\ sep'[u] = sep[u]
    BY <1>21, <2>1
  <2> DEFINE m == sep[u].new
  <2>3. m \in Nodes /\ m # root /\ ~IsKid(m) /\ Shares(c, s, node[u], sep[u].key, m)
    BY <2>2 DEF Mapped, Halved
  <2>4. m # new /\ m # n
    BY <1>4, <1>17, <2>1, <2>2, <2>3 DEF Mapped, HalvesApart
  <2>5. node[u] \in Nodes /\ node[u] # n
    <3>1. node[u] \in Nodes /\ Holds(u, node[u])
      BY <2>2 DEF Pending, Holds, IInv, ThreadOK, AtNode
    <3>2. Holds(t, n)
      BY <1>1 DEF Holds
    <3> QED
      BY <2>1, <3>1, <3>2 DEF IInv, LockOK
  <2>6. Shares(c, z, node[u], sep[u].key, m)
    BY <1>16, <2>3, <2>4, <2>5 DEF Shares
  <2>7. ~IsKid(m)'
    BY <1>28, <2>2, <2>3, <2>4
  <2> QED
    BY <1>1, <2>2, <2>3, <2>6, <2>7 DEF Halved, Shares
<1>31. HalvesApart'
  BY <1>4, <1>21 DEF Mapped, HalvesApart
<1>32. Seeks(c, t)'
  <2>1. parent'[t] # None /\ Intact(parent[t], vParent[t])' =>
          op'[t].key \in c[parent'[t]] /\ node'[t] = ChildFor(parent[t], op[t].key)'
    BY <1>1, <1>3, BelowStands DEF Mapped, Seeks, Reassigns
  <2>2. SeeksBelow(c, t)' /\ SeeksHere(c, t)'
    BY <1>3, <2>1 DEF SeeksBelow, SeeksHere, Arrived
  <2> QED
    BY <2>2 DEF Seeks
<1>33. \A u \in Threads : Seeks(c, u)'
  <2>1. \A u \in Threads : u # t => Seeks(c, u)
    BY DEF Mapped
  <2> QED
    BY <1>1, <1>32, <2>1, SeeksStands DEF Reassigns
<1>34. (z[root] = Keys)'
  BY <1>1, <1>5, <1>16, <1>17 DEF Mapped
<1> QED
  BY <1>22, <1>23, <1>26, <1>29, <1>30, <1>31, <1>33, <1>34 DEF Mapped

\* What a new root is: the halves under it, and no more than a new node.
LEMMA RootWrites ==
  ASSUME IInv, RInv, NEW t \in Threads, MakeRoot(t)
  PROVE  /\ pc[t] = "makeRoot" /\ firstLeaf' = firstLeaf
         /\ op' = op /\ result' = result /\ UNCHANGED path /\ Goto(t, "unlockNode")
         /\ StepOf(t)
         /\ \E id : /\ id \notin Nodes /\ Nodes' = Nodes \cup {id} /\ root' = id
                    /\ \A m \in Nodes : tree'[m] = tree[m]
                    /\ tree'[id] = Inner(<<sep[t].key>>, <<node[t], sep[t].new>>)
<1>0. PICK newId : newId = Len(tree) + 1
  OBVIOUS
<1> DEFINE top == Inner(<<sep[t].key>>, <<node[t], sep[t].new>>)
<1>1. /\ pc[t] = "makeRoot" /\ root' = newId /\ firstLeaf' = firstLeaf /\ UNCHANGED path
      /\ Goto(t, "unlockNode") /\ tree' = Append(tree, top)
      /\ sep' = [sep EXCEPT ![t] = NoSplit]
      /\ toBuild' = toBuild /\ op' = op /\ result' = result
  BY <1>0 DEF MakeRoot, At, workload
<1>2. node[t] \in Nodes /\ sep[t].key \in Keys /\ sep[t].new \in Nodes
  BY <1>1 DEF IInv, ThreadOK, AtNode, RInv, Knows, KnowsTask
<1>3. IsNode(tree[node[t]]) /\ ContentOK(tree[node[t]], Nodes)
  BY <1>2 DEF IInv, TreeOK, RInv, ContentsOK
<1>4. tree = [tree EXCEPT ![node[t]] = tree[node[t]]]
  <2>1. PICK S : tree \in Seq(S)
    BY DEF IInv, TreeOK
  <2> QED
    BY <2>1
<1>5. tree' = Grown(node[t], tree[node[t]], top)
  BY <1>1, <1>4 DEF Grown
<1>6. IsNode(top)
  BY NewIsFree DEF IsNode, Inner
<1>7. ContentOK(top, Nodes \cup {newId})
  <2>1. <<sep[t].key>> \in Seq(Keys) /\ Len(<<sep[t].key>>) = 1
    BY <1>2
  <2>2. /\ <<node[t], sep[t].new>> \in Seq(Nodes \cup {newId})
        /\ Len(<<node[t], sep[t].new>>) = 2
    BY <1>2
  <2>3. top.keys = <<sep[t].key>> /\ top.kids = <<node[t], sep[t].new>> /\ top.type = "inner"
    BY DEF Inner
  <2> HIDE DEF top
  <2>4. 1 <= InnerMax - 1
    BY CapacityAssumption
  <2> QED
    BY <2>1, <2>2, <2>3, <2>4 DEF ContentOK, MaxKeys
<1>8. Holds(t, node[t])
  BY <1>1 DEF Holds
<1> HIDE DEF top
<1>9. Replaces(t, node[t], tree[node[t]])
  BY <1>3, <1>8 DEF Replaces
<1>10. Adds(newId, top)
  BY <1>0, <1>1, <1>6, <1>7 DEF Adds
<1>11. /\ Nodes' = Nodes \cup {newId} /\ \A m \in Nodes : NodeStep(t, m)
       /\ \A m \in Nodes : tree'[m] = IF m = node[t] THEN tree[node[t]] ELSE tree[m]
  BY <1>2, <1>5, <1>9, <1>10, NodeAdded
<1>12. tree'[newId] = top /\ newId \notin Nodes
  <2>1. PICK S : tree \in Seq(S)
    BY DEF IInv, TreeOK
  <2> QED
    BY <1>0, <1>1, <2>1 DEF Nodes
<1>13. Others(t) /\ OtherTasks(t)
  BY <1>1, GotoMoves DEF RInv, OtherTasks, TasksPerThread
<1>14. StepOf(t)
  BY <1>11, <1>13 DEF StepOf
<1> QED
  BY <1>1, <1>11, <1>12, <1>14 DEF top

\* A separator and its two positions.
LEMMA OneSeparator ==
  ASSUME NEW e \in Keys, NEW k \in Keys
  PROVE  /\ Sorted(<<e>>) /\ DOMAIN <<e>> = {1} /\ <<e>>[1] = e
         /\ Position(<<e>>, k, 0) <=> k <= e
         /\ Position(<<e>>, k, 1) <=> e < k
BY KeyAssumption DEF Sorted, Position

\* The halves of the old root go under the new one.
LEMMA MakeRootSeeks ==
  ASSUME IInv, RInv, NEW c, NEW s, Mapped(c, s), NEW t \in Threads, MakeRoot(t)
  PROVE  \E d, z : Mapped(d, z)' /\ \A m \in Nodes : d[m] = c[m]
<1> DEFINE n == node[t]
           e == sep[t].key
           new == sep[t].new
<1>1. /\ pc[t] = "makeRoot" /\ op' = op /\ result' = result /\ UNCHANGED path
      /\ Goto(t, "unlockNode") /\ StepOf(t)
  BY RootWrites
<1>2. PICK id : /\ id \notin Nodes /\ Nodes' = Nodes \cup {id} /\ root' = id
                /\ \A m \in Nodes : tree'[m] = tree[m]
                /\ tree'[id] = Inner(<<e>>, <<n, new>>)
  BY RootWrites
<1>3. /\ Others(t) /\ pc'[t] = "unlockNode" /\ node' = node /\ parent' = parent
      /\ vNode' = vNode /\ vParent' = vParent
  BY <1>1, GotoMoves
<1>4. ThreadOK(t) /\ Knows(t) /\ Pending(t) /\ ~Pending(t)'
  BY <1>1, <1>3 DEF IInv, RInv, Pending
<1>5. /\ n \in Nodes /\ e \in Keys /\ new \in Nodes /\ root \in Nodes /\ parent[t] = None
  BY <1>1, <1>4 DEF ThreadOK, AtNode, Knows, KnowsTask, IInv, TreeOK
<1>6. new # root /\ ~IsKid(new) /\ Shares(c, s, n, e, new)
  BY <1>4 DEF Mapped, Halved
<1>7. n = root /\ s[n] = Keys /\ ~IsKid(n) /\ Holds(t, n) /\ n # new
  <2>1. Seeks(c, t)
    BY DEF Mapped
  <2>2. n = root
    BY <1>1, <1>5, <2>1 DEF Seeks, SeeksBelow
  <2> QED
    BY <1>1, <1>6, <2>2 DEF Mapped, OneParent, Holds
<1>8. /\ tree'[id].type = "inner" /\ tree'[id].keys = <<e>>
      /\ tree'[id].kids = <<n, new>>
  BY <1>2 DEF Inner
<1>9. PICK d : d = [m \in Nodes' |-> IF m = id THEN Keys ELSE c[m]]
  OBVIOUS
<1>10. PICK z : z = [m \in Nodes' |-> IF m = id THEN Keys ELSE IF m = n THEN c[n] ELSE s[m]]
  OBVIOUS
<1>11. /\ d[id] = Keys /\ z[id] = Keys /\ \A m \in Nodes : d[m] = c[m]
       /\ z[n] = c[n] /\ \A m \in Nodes : m # n => z[m] = s[m]
  BY <1>2, <1>5, <1>9, <1>10
<1>12. z[new] = c[new] /\ c[n] \subseteq Keys
  BY <1>5, <1>6, <1>7, <1>11 DEF Shares, Mapped, NodeCovers
<1>13. Inners' = Inners \cup {id} /\ Leaves' = Leaves /\ \A q \in Inners : tree'[q] = tree[q]
  <2>1. \A m : m \in Inners' <=> m \in Inners \/ m = id
    BY <1>2, <1>8 DEF Inners, IsInner
  <2>2. \A m : m \in Leaves' <=> m \in Leaves
    BY <1>2, <1>8 DEF Leaves, IsInner
  <2> QED
    BY <1>2, <2>1, <2>2 DEF Inners
<1>14. \A q \in Inners : \A i \in DOMAIN tree[q].kids : tree[q].kids[i] \in Nodes
  BY DEF RInv, ContentsOK, ContentOK, Inners, IsInner
<1>15. ASSUME NEW u \in Threads, u # t
       PROVE  /\ Pending(u)' <=> Pending(u)
              /\ node'[u] = node[u] /\ sep'[u] = sep[u]
  BY <1>1, <1>3, <1>15 DEF StepOf, Others, OtherTasks, Pending
<1>16. \A m \in Nodes' : NodeCovers(d, z, m)'
  <2> SUFFICES ASSUME NEW m \in Nodes' PROVE NodeCovers(d, z, m)'
    OBVIOUS
  <2>1. CASE m = id
    <3>1. Sorted(<<e>>) /\ DOMAIN <<e>> = {1} /\ <<e>>[1] = e
      BY <1>5, OneSeparator
    <3>2. Sorted(tree'[id].keys) /\ \A i \in DOMAIN tree'[id].keys : tree'[id].keys[i] \in d[id]
      BY <1>5, <1>8, <1>11, <3>1
    <3> QED
      BY <1>11, <2>1, <3>2 DEF NodeCovers
  <2>2. CASE m # id
    <3>1. m \in Nodes /\ NodeCovers(c, s, m) /\ tree'[m] = tree[m] /\ d[m] = c[m]
      BY <1>2, <1>11, <2>2 DEF Mapped
    <3>2. d[m] = z[m] \/ \E u \in Threads : Pending(u)' /\ node'[u] = m
      <4>1. CASE m = n
        BY <1>11, <3>1, <4>1
      <4>2. CASE m # n
        BY <1>11, <1>15, <3>1, <4>2 DEF NodeCovers
      <4> QED
        BY <4>1, <4>2
    <3>3. z[m] \subseteq Keys
      BY <1>11, <1>12, <3>1 DEF NodeCovers
    <3> QED
      BY <3>1, <3>2, <3>3 DEF NodeCovers
  <2> QED
    BY <2>1, <2>2
<1>17. LeavesApart(d)'
  BY <1>11, <1>13 DEF Mapped, LeavesApart, Leaves
<1>18. \A q \in Inners' : Routes(d, z, q)'
  <2>1. Routes(d, z, id)'
    <3> SUFFICES ASSUME NEW i \in DOMAIN <<n, new>>, NEW k \in Keys
                 PROVE  k \in z[<<n, new>>[i]] <=> k \in d[id] /\ Position(<<e>>, k, i - 1)
      BY <1>3, <1>8 DEF Routes
    <3>1. /\ k \in c[n] <=> k \in s[n] /\ k <= e
          /\ k \in c[new] <=> k \in s[n] /\ e < k
      BY <1>6 DEF Shares
    <3>2. /\ Position(<<e>>, k, 0) <=> k <= e
          /\ Position(<<e>>, k, 1) <=> e < k
      BY <1>5, OneSeparator
    <3>3. CASE i = 1
      <4>1. <<n, new>>[i] = n /\ i - 1 = 0
        BY <3>3
      <4> QED
        BY <1>7, <1>11, <3>1, <3>2, <4>1
    <3>4. CASE i = 2
      <4>1. <<n, new>>[i] = new /\ i - 1 = 1
        BY <3>4
      <4> QED
        BY <1>7, <1>11, <1>12, <3>1, <3>2, <4>1
    <3> QED
      BY <3>3, <3>4
  <2>2. ASSUME NEW q \in Inners PROVE Routes(d, z, q)'
    <3>1. Routes(c, s, q) /\ tree'[q] = tree[q] /\ d[q] = c[q]
      BY <1>11, <1>13 DEF Mapped, Inners
    <3>2. \A i \in DOMAIN tree[q].kids : z[tree[q].kids[i]] = s[tree[q].kids[i]]
      BY <1>7, <1>11, <1>14 DEF IsKid
    <3> QED
      BY <3>1, <3>2 DEF Routes
  <2> QED
    BY <1>13, <2>1, <2>2
<1>19. \A a : IsKid(a)' => IsKid(a) \/ a = n \/ a = new
  <2> SUFFICES ASSUME NEW q \in Inners', NEW i \in DOMAIN tree'[q].kids
               PROVE  \/ IsKid(tree'[q].kids[i])
                      \/ tree'[q].kids[i] = n \/ tree'[q].kids[i] = new
    BY DEF IsKid
  <2>1. CASE q = id
    BY <1>8, <2>1
  <2>2. CASE q # id
    BY <1>13, <2>2 DEF IsKid
  <2> QED
    BY <2>1, <2>2
<1>20. OneParent'
  <2>1. ~IsKid(root)'
    <3>1. \A a : IsKid(a) => a \in Nodes
      BY <1>14 DEF IsKid
    <3> QED
      BY <1>2, <1>5, <1>19, <3>1
  <2>2. ASSUME NEW q \in Inners', NEW m \in Inners', NEW i \in DOMAIN tree'[q].kids,
               NEW j \in DOMAIN tree'[m].kids, tree'[q].kids[i] = tree'[m].kids[j]
        PROVE  q = m /\ i = j
    <3>1. \A a, b \in Inners : \A x \in DOMAIN tree[a].kids : \A y \in DOMAIN tree[b].kids :
            tree[a].kids[x] = tree[b].kids[y] => a = b /\ x = y
      BY DEF Mapped, OneParent
    <3>2. \A a \in Inners : \A x \in DOMAIN tree[a].kids :
            tree[a].kids[x] # n /\ tree[a].kids[x] # new
      BY <1>6, <1>7 DEF IsKid
    <3>3. \A i1 \in DOMAIN <<n, new>> : i1 \in {1, 2} /\ <<n, new>>[i1] = IF i1 = 1 THEN n ELSE new
      OBVIOUS
    <3>4. CASE q = id /\ m = id
      <4>1. i \in {1, 2} /\ j \in {1, 2} /\ (IF i = 1 THEN n ELSE new) = IF j = 1 THEN n ELSE new
        BY <1>8, <2>2, <3>3, <3>4
      <4> QED
        BY <1>7, <3>4, <4>1
    <3>5. CASE q # id /\ m # id
      BY <1>13, <2>2, <3>1, <3>5
    <3>6. CASE q = id /\ m # id
      BY <1>8, <1>13, <2>2, <3>2, <3>3, <3>6
    <3>7. CASE q # id /\ m = id
      BY <1>8, <1>13, <2>2, <3>2, <3>3, <3>7
    <3> QED
      BY <3>4, <3>5, <3>6, <3>7
  <2> QED
    BY <2>1, <2>2 DEF OneParent
<1>21. \A u \in Threads : Halved(d, z, u)'
  <2> SUFFICES ASSUME NEW u \in Threads, Pending(u)' PROVE Halved(d, z, u)'
    BY DEF Halved
  <2>1. u # t
    BY <1>4
  <2>2. Pending(u) /\ node'[u] = node[u] /\ sep'[u] = sep[u]
    BY <1>15, <2>1
  <2> DEFINE m == sep[u].new
  <2>3. m \in Nodes /\ m # root /\ ~IsKid(m) /\ Shares(c, s, node[u], sep[u].key, m)
    BY <2>2 DEF Mapped, Halved
  <2>4. m # new
    BY <1>4, <2>1, <2>2 DEF Mapped, HalvesApart
  <2>5. node[u] \in Nodes /\ node[u] # n
    <3>1. node[u] \in Nodes /\ Holds(u, node[u])
      BY <2>2 DEF Pending, Holds, IInv, ThreadOK, AtNode
    <3> QED
      BY <1>7, <2>1, <3>1 DEF IInv, LockOK
  <2>6. Shares(d, z, node[u], sep[u].key, m)
    BY <1>7, <1>11, <2>3, <2>5 DEF Shares
  <2>7. ~IsKid(m)' /\ m \in Nodes' /\ m # id
    BY <1>2, <1>7, <1>19, <2>2, <2>3, <2>4
  <2> QED
    BY <1>2, <2>2, <2>6, <2>7 DEF Halved, Shares
<1>22. HalvesApart'
  BY <1>4, <1>15 DEF Mapped, HalvesApart
<1>23. Seeks(d, t)'
  BY <1>3, <1>5 DEF Seeks, SeeksBelow, SeeksHere, Arrived
<1>24. \A u \in Threads : Seeks(d, u)'
  <2>1. Reassigns(t, c, d) /\ Holds(t, root)
    BY <1>7, <1>11 DEF Reassigns
  <2>2. \A u \in Threads : u # t => Seeks(c, u)
    BY DEF Mapped
  <2> QED
    BY <1>1, <1>23, <2>1, <2>2, SeeksStands
<1>25. (z[root] = Keys)'
  BY <1>2, <1>11
<1>26. Mapped(d, z)'
  BY <1>16, <1>17, <1>18, <1>20, <1>21, <1>22, <1>24, <1>25 DEF Mapped
<1> QED
  BY <1>11, <1>26

-----------------------------------------------------------------------------
(* The invariant holds.                                                     *)

\* At first there is one leaf, and every key belongs there.
LEMMA InitMInv == Init => MInv
<1> SUFFICES ASSUME Init PROVE MInv
  OBVIOUS
<1>1. tree = <<Leaf(<<>>, <<>>, None)>> /\ root = 1
  BY DEF Init
<1>2. Nodes = {1} /\ tree[1] = Leaf(<<>>, <<>>, None)
  BY <1>1 DEF Nodes
<1>3. tree[1].keys = <<>> /\ ~IsInner(1)
  BY <1>2 DEF Leaf, IsInner
<1>4. Inners = {} /\ Leaves = {1} /\ DOMAIN tree[1].keys = {}
  BY <1>2, <1>3 DEF Inners, Leaves
<1>5. \A t \in Threads : pc[t] = "idle" /\ parent[t] = None
  BY DEF Init
<1>6. PICK c : c = [n \in {1} |-> Keys]
  OBVIOUS
<1>7. c[1] = Keys
  BY <1>6
<1>8. \A n \in Nodes : NodeCovers(c, c, n)
  BY <1>2, <1>4, <1>7 DEF NodeCovers, Sorted
<1>9. LeavesApart(c) /\ OneParent /\ \A n \in Inners : Routes(c, c, n)
  BY <1>4 DEF LeavesApart, OneParent, IsKid
<1>10. \A t \in Threads : ~Pending(t)
  BY <1>5 DEF Pending
<1>11. HalvesApart /\ \A t \in Threads : Halved(c, c, t)
  BY <1>10 DEF HalvesApart, Halved
<1>12. \A t \in Threads : Seeks(c, t)
  BY <1>5 DEF Seeks, SeeksBelow, SeeksHere, Arrived
<1>13. Mapped(c, c)
  BY <1>1, <1>7, <1>8, <1>9, <1>11, <1>12 DEF Mapped
<1> QED
  BY <1>13 DEF MInv

\* Every step keeps it.
LEMMA NextMaps == IInv /\ RInv /\ MInv /\ [Next]_vars => MInv'
<1> SUFFICES ASSUME IInv, RInv, MInv, [Next]_vars PROVE MInv'
  OBVIOUS
<1>1. PICK c, s : Mapped(c, s)
  BY DEF MInv
<1>2. CASE UNCHANGED vars
  <2>1. Mapped(c, s)'
    BY <1>1, <1>2 DEF vars, shape, path, workload, Mapped, NodeCovers, LeavesApart, Routes,
       OneParent, IsKid, Halved, Shares, HalvesApart, Seeks, SeeksBelow, SeeksHere, Arrived,
       Pending, Nodes, Inners, Leaves, IsInner, Intact, ChildFor, ValueIn
  <2> QED
    BY <2>1 DEF MInv
<1>3. ASSUME NEW t \in Threads, Begin(t) \/ ReturnLookup(t) PROVE MInv'
  BY <1>1, <1>3, CallSeeks DEF MInv
<1>4. ASSUME NEW t \in Threads, ReadRoot(t) \/ LockRoot(t) \/ CheckRoot(t) PROVE MInv'
  BY <1>1, <1>4, ToRootSeeks DEF MInv
<1>5. ASSUME NEW t \in Threads, Visit(t) PROVE MInv'
  BY <1>1, <1>5, VisitSeeks DEF MInv
<1>6. ASSUME NEW t \in Threads, ReadChild(t) PROVE MInv'
  BY <1>1, <1>6, ReadChildSeeks DEF MInv
<1>7. ASSUME NEW t \in Threads, LockChild(t) PROVE MInv'
  BY <1>1, <1>7, LockChildSeeks DEF MInv
<1>8. ASSUME NEW t \in Threads,
             \/ CheckParent(t) \/ CheckChild(t) \/ RecheckRoot(t) \/ LeafParent(t)
             \/ ReadLeaf(t) \/ LookupParent(t) \/ LookupLeaf(t)
      PROVE  MInv'
  BY <1>1, <1>8, TestSeeks DEF MInv
<1>9. ASSUME NEW t \in Threads, LockParent(t) PROVE MInv'
  BY <1>1, <1>9, LockParentSeeks DEF MInv
<1>10. ASSUME NEW t \in Threads, LockSplit(t) PROVE MInv'
  BY <1>1, <1>10, LockSplitSeeks DEF MInv
<1>11. ASSUME NEW t \in Threads, LockLeaf(t) PROVE MInv'
  BY <1>1, <1>11, LockLeafSeeks DEF MInv
<1>12. ASSUME NEW t \in Threads,
              UnlockNode(t) \/ UnlockParent(t) \/ AbandonLeaf(t) \/ ReturnInsert(t)
       PROVE  MInv'
  BY <1>1, <1>12, UnlockSeeks DEF MInv
<1>13. ASSUME NEW t \in Threads, InsertIntoLeaf(t) PROVE MInv'
  BY <1>1, <1>13, InsertSeeks DEF MInv
<1>14. ASSUME NEW t \in Threads, Split(t) PROVE MInv'
  BY <1>1, <1>14, SplitSeeks DEF MInv
<1>15. ASSUME NEW t \in Threads, LinkParent(t) PROVE MInv'
  BY <1>1, <1>15, LinkSeeks DEF MInv
<1>16. ASSUME NEW t \in Threads, MakeRoot(t) PROVE MInv'
  BY <1>1, <1>16, MakeRootSeeks DEF MInv
<1> QED
  BY <1>2, <1>3, <1>4, <1>5, <1>6, <1>7, <1>8, <1>9, <1>10, <1>11, <1>12, <1>13, <1>14, <1>15,
     <1>16 DEF Next, Step, Descend, SplitNode, Insert, Lookup

\* The invariants of the locks, of what is read and of where it is hold together.
LEMMA AllHold == Spec => [](IInv /\ RInv /\ MInv)
<1>1. Init => IInv /\ RInv /\ MInv
  BY InitIInv, InitRInv, InitMInv
<1>2. IInv /\ RInv /\ MInv /\ [Next]_vars => (IInv /\ RInv /\ MInv)'
  BY NextKeeps, NextKnows, NextMaps, KnowingIsEnough
<1> QED
  BY <1>1, <1>2, PTL DEF Spec

-----------------------------------------------------------------------------
(* The tree is a map.                                                       *)

\* Key k has value v in some leaf.
Stores(k, v) == \E n \in Leaves : Has(tree[n], k, v)

\* The map is what the leaves store.
MapIsStored ==
  \A k \in Keys : /\ \A v : Stores(k, v) => MapOf[k] = v
                  /\ (\A v : ~Stores(k, v)) => MapOf[k] = Missing

\* A key is stored where it belongs, and the search of the leaf finds it.
LEMMA StoredBelongs ==
  ASSUME IInv, RInv, NEW c, NEW s, Mapped(c, s), NEW n \in Leaves, NEW k, NEW v,
         Has(tree[n], k, v)
  PROVE  /\ k \in c[n] /\ k \in ToSet(tree[n].keys) /\ ValueIn(n, k) = v
         /\ \A m \in Leaves : k \in c[m] => m = n
<1>1. /\ NodeCovers(c, s, n) /\ tree[n].keys \in Seq(Keys)
  BY DEF Leaves, Mapped, RInv, ContentsOK, ContentOK
<1>2. PICK i \in DOMAIN tree[n].keys : tree[n].keys[i] = k /\ tree[n].vals[i] = v
  BY DEF Has
<1> DEFINE ks == tree[n].keys
<1>3. LowerBound(ks, k) = i - 1
  <2>1. ks \in Seq(Keys) /\ Sorted(ks) /\ i \in DOMAIN ks /\ ks[i] = k
    BY <1>1, <1>2 DEF NodeCovers
  <2> HIDE DEF ks
  <2> QED
    BY <2>1, KeyIsFound
<1>4. i \in Nat /\ i <= Len(ks) /\ (i - 1) + 1 = i
  BY <1>1, <1>2
<1>5. ValueIn(n, k) = v
  BY <1>2, <1>3, <1>4 DEF ValueIn
<1>6. k \in c[n] /\ k \in ToSet(tree[n].keys)
  BY <1>1, <1>2 DEF NodeCovers, ToSet
<1>7. \A m \in Leaves : k \in c[m] => m = n
  BY <1>6 DEF Mapped, LeavesApart
<1> QED
  BY <1>5, <1>6, <1>7

\* The leaves store at most one value of a key.
LEMMA MapIsStoredThere == IInv /\ RInv /\ MInv => MapIsStored
<1> SUFFICES ASSUME IInv, RInv, MInv, NEW k \in Keys
             PROVE  /\ \A v : Stores(k, v) => MapOf[k] = v
                    /\ (\A v : ~Stores(k, v)) => MapOf[k] = Missing
  BY DEF MapIsStored
<1>1. PICK c, s : Mapped(c, s)
  BY DEF MInv
<1> DEFINE holders == {n \in Leaves : k \in ToSet(tree[n].keys)}
<1>2. MapOf[k] = IF holders = {} THEN Missing ELSE ValueIn(CHOOSE n \in holders : TRUE, k)
  BY DEF MapOf
<1>3. \A n \in holders : Has(tree[n], k, ValueIn(n, k)) /\ k \in c[n]
  <2> SUFFICES ASSUME NEW n \in Leaves, k \in ToSet(tree[n].keys)
               PROVE  Has(tree[n], k, ValueIn(n, k)) /\ k \in c[n]
    OBVIOUS
  <2>1. PICK i \in DOMAIN tree[n].keys : tree[n].keys[i] = k
    BY DEF ToSet
  <2>2. PICK v : v = tree[n].vals[i]
    OBVIOUS
  <2>3. Has(tree[n], k, v)
    BY <2>1, <2>2 DEF Has
  <2>4. k \in c[n] /\ ValueIn(n, k) = v
    BY <1>1, <2>3, StoredBelongs
  <2> QED
    BY <2>3, <2>4
<1>4. ASSUME NEW v, Stores(k, v) PROVE MapOf[k] = v
  <2>1. PICK n \in Leaves : Has(tree[n], k, v)
    BY <1>4 DEF Stores
  <2>2. /\ k \in ToSet(tree[n].keys) /\ ValueIn(n, k) = v
        /\ \A m \in Leaves : k \in c[m] => m = n
    BY <1>1, <2>1, StoredBelongs
  <2>3. n \in holders /\ \A m \in holders : m = n
    BY <1>3, <2>2
  <2> HIDE DEF holders
  <2>4. (CHOOSE m \in holders : TRUE) = n
    BY <2>3
  <2> QED
    BY <1>2, <2>2, <2>3, <2>4
<1>5. ASSUME \A v : ~Stores(k, v) PROVE MapOf[k] = Missing
  <2>1. holders = {}
    BY <1>3, <1>5 DEF Stores
  <2> QED
    BY <1>2, <2>1
<1> QED
  BY <1>4, <1>5

\* The search of the leaf where a key belongs gives the value of the map.
LEMMA AnswerIsMap ==
  ASSUME IInv, RInv, NEW c, NEW s, Mapped(c, s), NEW n \in Leaves, NEW k \in Keys, k \in c[n]
  PROVE  ValueIn(n, k) = MapOf[k]
<1>1. MapIsStored
  BY MapIsStoredThere DEF MInv
<1>2. CASE \E v : Stores(k, v)
  <2>1. PICK v : Stores(k, v)
    BY <1>2
  <2>2. PICK m \in Leaves : Has(tree[m], k, v)
    BY <2>1 DEF Stores
  <2>3. n = m /\ ValueIn(m, k) = v
    BY <2>2, StoredBelongs
  <2> QED
    BY <1>1, <2>1, <2>3 DEF MapIsStored
<1>3. CASE \A v : ~Stores(k, v)
  <2> DEFINE pos == LowerBound(tree[n].keys, k) + 1
  <2>1. tree[n].keys \in Seq(Keys)
    BY DEF Leaves, RInv, ContentsOK, ContentOK
  <2>2. LowerBound(tree[n].keys, k) \in Nat
    BY <2>1, LowerBoundIsPosition
  <2>3. pos \in Nat /\ 1 <= pos
    BY <2>2
  <2> HIDE DEF pos
  <2>4. ~(pos <= Len(tree[n].keys) /\ tree[n].keys[pos] = k)
    <3> SUFFICES ASSUME pos <= Len(tree[n].keys), tree[n].keys[pos] = k PROVE FALSE
      OBVIOUS
    <3>1. pos \in DOMAIN tree[n].keys
      BY <2>1, <2>3
    <3>2. Has(tree[n], k, tree[n].vals[pos])
      BY <3>1 DEF Has
    <3> QED
      BY <1>3, <3>2 DEF Stores
  <2>5. ValueIn(n, k) = Missing
    BY <2>4 DEF ValueIn, pos
  <2> QED
    BY <1>1, <1>3, <2>5 DEF MapIsStored
<1> QED
  BY <1>2, <1>3

\* What is stored after a step, and before.
SameRecords == \A k, v : Stores(k, v)' <=> Stores(k, v)

\* The map stays if the records do.
LEMMA SameMap ==
  ASSUME MapIsStored, MapIsStored', SameRecords
  PROVE  MapOf' = MapOf
<1>1. ASSUME NEW k \in Keys PROVE MapOf'[k] = MapOf[k]
  <2>1. CASE \E v : Stores(k, v)
    <3>1. PICK v : Stores(k, v)
      BY <2>1
    <3>2. Stores(k, v)'
      BY <3>1 DEF SameRecords
    <3> QED
      BY <3>1, <3>2 DEF MapIsStored
  <2>2. CASE \A v : ~Stores(k, v)
    <3>1. \A v : ~Stores(k, v)'
      BY <2>2 DEF SameRecords
    <3> QED
      BY <2>2, <3>1 DEF MapIsStored
  <2> QED
    BY <2>1, <2>2
<1>2. MapOf = [k \in Keys |-> MapOf[k]] /\ MapOf' = [k \in Keys |-> MapOf'[k]]
  BY DEF MapOf
<1> QED
  BY <1>1, <1>2

\* Only the insert into a leaf changes what is stored.
LEMMA QuietRecords == tree' = tree => SameRecords
BY DEF SameRecords, Stores, Has, Leaves, Nodes, IsInner

\* A lock that is taken or given back changes a word, and one that is refused
\* nothing.
LEMMA LocksOnlyReword ==
  ASSUME IInv, RInv, NEW t \in Threads,
         \/ LockParent(t) \/ LockSplit(t) \/ LockLeaf(t)
         \/ UnlockNode(t) \/ UnlockParent(t) \/ AbandonLeaf(t) \/ ReturnInsert(t)
  PROVE  tree' = tree \/ Rewords(t)
<1>1. root' = root
  BY DEF LockParent, LockSplit, LockLeaf, UnlockNode, UnlockParent, AbandonLeaf, ReturnInsert,
         shape
<1>2. CASE tree' = tree
  BY <1>2
<1>3. CASE tree' # tree
  <2>1. /\ ThreadOK(t) /\ Knows(t)
        /\ pc[t] \in AtNode \/ LockParent(t) => node[t] \in Nodes
    BY DEF IInv, RInv, ThreadOK, LockParent, At, AtNode
  <2>2. \/ \E n \in Nodes : \E v \in Nat : ~IsLocked(v) /\ Upgrade(n, v)
        \/ \E n \in Nodes : Holds(t, n) /\ Unlock(n)
    <3>1. CASE LockParent(t)
      <4>1. /\ pc[t] = "lockParent" /\ Upgrade(parent[t], vParent[t])
            /\ parent[t] \in Nodes /\ vParent[t] \in Nat /\ ~IsLocked(vParent[t])
        BY <1>3, <2>1, <3>1 DEF LockParent, At, ThreadOK
      <4> QED
        BY <4>1
    <3>2. CASE LockSplit(t) \/ LockLeaf(t)
      <4>1. /\ Upgrade(node[t], vNode[t])
            /\ node[t] \in Nodes /\ vNode[t] \in Nat /\ ~IsLocked(vNode[t])
        BY <1>3, <2>1, <3>2 DEF LockSplit, LockLeaf, At, ThreadOK, AtNode
      <4> QED
        BY <4>1
    <3>3. CASE UnlockNode(t) \/ AbandonLeaf(t) \/ ReturnInsert(t)
      <4>1. node[t] \in Nodes /\ Holds(t, node[t]) /\ Unlock(node[t])
        BY <2>1, <3>3 DEF UnlockNode, AbandonLeaf, ReturnInsert, At, ThreadOK, AtNode, Holds
      <4> QED
        BY <4>1
    <3>4. CASE UnlockParent(t)
      <4>1. parent[t] \in Nodes /\ Holds(t, parent[t]) /\ Unlock(parent[t])
        BY <2>1, <3>4 DEF UnlockParent, At, ThreadOK, Holds
      <4> QED
        BY <4>1
    <3> QED
      BY <3>1, <3>2, <3>3, <3>4
  <2> QED
    BY <1>1, <2>2, LocksReword
<1> QED
  BY <1>2, <1>3

\* Neither changes what is stored.
LEMMA LockRecords ==
  ASSUME IInv, RInv, NEW t \in Threads,
         \/ LockParent(t) \/ LockSplit(t) \/ LockLeaf(t)
         \/ UnlockNode(t) \/ UnlockParent(t) \/ AbandonLeaf(t) \/ ReturnInsert(t)
  PROVE  SameRecords
<1>1. CASE tree' = tree
  BY <1>1, QuietRecords
<1>2. CASE Rewords(t)
  <2>1. /\ Nodes' = Nodes
        /\ \A n \in Nodes : /\ tree'[n].type = tree[n].type /\ tree'[n].keys = tree[n].keys
                            /\ tree'[n].vals = tree[n].vals
    BY <1>2 DEF Rewords
  <2>2. Leaves' = Leaves
    BY <2>1 DEF Leaves, IsInner
  <2> QED
    BY <2>1, <2>2 DEF SameRecords, Stores, Has, Leaves
<1> QED
  BY <1>1, <1>2, LocksOnlyReword

\* The halves of a node store what the node did.
LEMMA SplitRecords ==
  ASSUME IInv, RInv, NEW c, NEW s, Mapped(c, s), NEW t \in Threads, Split(t)
  PROVE  SameRecords
<1> DEFINE n == node[t]
<1>0. n \in Nodes /\ Sorted(tree[n].keys)
  BY DEF IInv, ThreadOK, AtNode, Split, At, Mapped, NodeCovers
<1>1. PICK l, r, e, id : SplitsInto(t, l, r, e, id)
  BY <1>0, SplitWrites
<1>2. /\ id \notin Nodes /\ Nodes' = Nodes \cup {id} /\ tree'[id] = r
      /\ \A m \in Nodes : tree'[m] = IF m = n THEN l ELSE tree[m]
      /\ l.type = tree[n].type
  BY <1>1 DEF SplitsInto
<1>3. CASE IsInner(n)
  <2>1. r.type = "inner"
    BY <1>1, <1>3 DEF SplitsInto
  <2>2. \A m : m \in Leaves' <=> m \in Leaves
    BY <1>0, <1>2, <1>3, <2>1 DEF Leaves, IsInner
  <2>3. \A m \in Leaves : tree'[m] = tree[m]
    BY <1>2, <1>3 DEF Leaves
  <2> QED
    BY <2>2, <2>3 DEF SameRecords, Stores, Has
<1>4. CASE ~IsInner(n)
  <2>1. r.type = "leaf" /\ \A k, v : Has(tree[n], k, v) <=> Has(l, k, v) \/ Has(r, k, v)
    BY <1>1, <1>4 DEF SplitsInto
  <2>2. \A m : m \in Leaves' <=> m \in Leaves \/ m = id
    BY <1>0, <1>2, <1>4, <2>1 DEF Leaves, IsInner
  <2>3. /\ \A m \in Leaves : m # n => tree'[m] = tree[m]
        /\ n \in Leaves /\ tree'[n] = l /\ tree'[id] = r
    BY <1>0, <1>2, <1>4 DEF Leaves
  <2> SUFFICES ASSUME NEW k, NEW v PROVE Stores(k, v)' <=> Stores(k, v)
    BY DEF SameRecords
  <2>4. Stores(k, v)' <=> \E m \in Leaves' : Has(tree'[m], k, v)
    BY DEF Stores, Has
  <2>5. ASSUME NEW m \in Leaves', Has(tree'[m], k, v) PROVE Stores(k, v)
    <3>1. CASE m = n \/ m = id
      BY <2>1, <2>3, <2>5, <3>1 DEF Stores
    <3>2. CASE m # n /\ m # id
      BY <2>2, <2>3, <2>5, <3>2 DEF Stores
    <3> QED
      BY <3>1, <3>2
  <2>6. ASSUME NEW m \in Leaves, Has(tree[m], k, v) PROVE \E q \in Leaves' : Has(tree'[q], k, v)
    BY <2>1, <2>2, <2>3, <2>6
  <2> QED
    BY <2>4, <2>5, <2>6 DEF Stores
<1> QED
  BY <1>3, <1>4

\* The link changes inner nodes only, and adds one.
LEMMA LinkRecords ==
  ASSUME IInv, RInv, NEW t \in Threads, LinkParent(t) \/ MakeRoot(t)
  PROVE  SameRecords
<1>1. (\A m : m \in Leaves' <=> m \in Leaves) /\ \A m \in Leaves : tree'[m] = tree[m]
  <2>1. CASE LinkParent(t)
    <3>1. PICK y : /\ Linked(tree[parent[t]], y, sep[t].key, sep[t].new)
                   /\ \A m \in Nodes : tree'[m] = IF m = parent[t] THEN y ELSE tree[m]
      BY <2>1, LinkWrites
    <3>2. Nodes' = Nodes
      BY <2>1, LinkWrites
    <3>3. IsInner(parent[t]) /\ y.type = "inner"
      BY <2>1, <3>1 DEF RInv, Knows, KnowsParent, LinkParent, At, IInv, ThreadOK, Linked, IsInner
    <3> QED
      BY <3>1, <3>2, <3>3 DEF Leaves, IsInner
  <2>2. CASE MakeRoot(t)
    <3>1. PICK id : /\ id \notin Nodes /\ Nodes' = Nodes \cup {id}
                    /\ \A m \in Nodes : tree'[m] = tree[m]
                    /\ tree'[id] = Inner(<<sep[t].key>>, <<node[t], sep[t].new>>)
      BY <2>2, RootWrites
    <3>2. tree'[id].type = "inner"
      BY <3>1 DEF Inner
    <3> QED
      BY <3>1, <3>2 DEF Leaves, IsInner
  <2> QED
    BY <2>1, <2>2
<1> QED
  BY <1>1 DEF SameRecords, Stores, Has

\* The insert stores its record in the place of the one with its key.
LEMMA InsertRecords ==
  ASSUME IInv, RInv, NEW c, NEW s, Mapped(c, s), NEW t \in Threads, InsertIntoLeaf(t)
  PROVE  \A k, v : Stores(k, v)' <=> IF k = op[t].key THEN v = op[t].value ELSE Stores(k, v)
<1> DEFINE n == node[t]
           y == LeafInsert(tree[n], op[t].key, op[t].value)
<1>1. /\ pc[t] = "insert" /\ n \in Leaves /\ op[t] \in Inserts /\ Nodes' = Nodes
      /\ y.type = tree[n].type
      /\ \A m \in Nodes : tree'[m] = IF m = n THEN LeafInsert(tree[m], op[t].key, op[t].value)
                                              ELSE tree[m]
  BY InsertWrites
<1>2. n \in Nodes /\ op[t].key \in Keys /\ op[t].value \in Values /\ op[t].key \in c[n]
  BY <1>1 DEF Leaves, Inserts, Mapped, Seeks, SeeksHere
<1>3. \A e, w : Has(y, e, w) <=> IF e = op[t].key THEN w = op[t].value ELSE Has(tree[n], e, w)
  <2>1. /\ IsNode(tree[n]) /\ ContentOK(tree[n], Nodes) /\ Sorted(tree[n].keys)
        /\ tree[n].type # "inner"
    BY <1>1, <1>2 DEF IInv, TreeOK, RInv, ContentsOK, Mapped, NodeCovers, Leaves, IsInner
  <2> QED
    BY <1>2, <2>1, LeafInserted DEF ContentOK
<1> HIDE DEF y
<1>4. tree'[n] = y /\ \A m \in Nodes : m # n => tree'[m] = tree[m]
  BY <1>1, <1>2 DEF y
<1>5. Leaves' = Leaves
  BY <1>1, <1>4 DEF Leaves, IsInner
<1> SUFFICES ASSUME NEW k, NEW v
             PROVE  Stores(k, v)' <=> IF k = op[t].key THEN v = op[t].value ELSE Stores(k, v)
  OBVIOUS
<1>6. Stores(k, v)' <=> \E m \in Leaves : Has(tree'[m], k, v)
  BY <1>5 DEF Stores, Has
<1>7. \A m \in Leaves : m # n => tree'[m] = tree[m] /\ (Has(tree[m], k, v) => k # op[t].key)
  <2>1. ASSUME NEW m \in Leaves, m # n, Has(tree[m], k, v), k = op[t].key PROVE FALSE
    <3>1. \A q \in Leaves : k \in c[q] => q = m
      BY <2>1, StoredBelongs
    <3>2. n \in Leaves /\ k \in c[n]
      BY <1>1, <1>2, <2>1
    <3> QED
      BY <2>1, <3>1, <3>2
  <2> QED
    BY <1>4, <2>1 DEF Leaves
<1> QED
  BY <1>1, <1>3, <1>4, <1>6, <1>7 DEF Stores

\* The steps that no caller sees.
Inside(t) ==
  \/ Descend(t) \/ SplitNode(t) \/ LockLeaf(t) \/ LeafParent(t) \/ AbandonLeaf(t)
  \/ ReadLeaf(t) \/ LookupParent(t)

\* They store nothing.
LEMMA InsideRecords ==
  ASSUME IInv, RInv, MInv, NEW t \in Threads, Inside(t)
  PROVE  SameRecords
<1>1. CASE Split(t)
  <2>1. PICK c, s : Mapped(c, s)
    BY DEF MInv
  <2> QED
    BY <1>1, <2>1, SplitRecords
<1>2. CASE LinkParent(t) \/ MakeRoot(t)
  BY <1>2, LinkRecords
<1>3. CASE \/ LockParent(t) \/ LockSplit(t) \/ LockLeaf(t)
           \/ UnlockNode(t) \/ UnlockParent(t) \/ AbandonLeaf(t)
  BY <1>3, LockRecords
<1>4. CASE Descend(t) \/ RecheckRoot(t) \/ LeafParent(t) \/ ReadLeaf(t) \/ LookupParent(t)
  <2>1. tree' = tree
    BY <1>4 DEF Descend, ReadRoot, LockRoot, CheckRoot, Visit, CheckParent, ReadChild,
       CheckChild, LockChild, RecheckRoot, LeafParent, ReadLeaf, LookupParent
  <2> QED
    BY <2>1, QuietRecords
<1> QED
  BY <1>1, <1>2, <1>3, <1>4 DEF Inside, SplitNode

\* The places of a call that has not taken effect.
Underway == (AtNode \cup {"readRoot", "checkChild", "lockChild"}) \ {"inserted", "found"}

\* Where the calls are that no step has changed.
LEMMA CallStays ==
  ASSUME NEW u \in Threads, pc'[u] = pc[u], op'[u] = op[u], result'[u] = result[u]
  PROVE  CallOf'[u] = CallOf[u]
BY DEF CallOf, At

\* A call is what it asks for while it is under way.
LEMMA CallUnderway ==
  ASSUME NEW u \in Threads
  PROVE  /\ pc[u] \in Underway => CallOf[u] = op[u]
         /\ pc'[u] \in Underway => CallOf'[u] = op'[u]
         /\ pc[u] = "idle" => CallOf[u] = [kind |-> "idle"]
         /\ pc'[u] = "idle" => CallOf'[u] = [kind |-> "idle"]
         /\ pc[u] = "inserted" => CallOf[u] = [kind |-> "answer", result |-> TRUE]
         /\ pc'[u] = "inserted" => CallOf'[u] = [kind |-> "answer", result |-> TRUE]
         /\ pc[u] = "found" => CallOf[u] = [kind |-> "answer", result |-> result[u]]
         /\ pc'[u] = "found" => CallOf'[u] = [kind |-> "answer", result |-> result'[u]]
BY DEF CallOf, At, Underway, AtNode

\* The calls after a step of thread t.
LEMMA CallsAfter ==
  ASSUME NEW t \in Threads, \A u \in Threads \ {t} : CallOf'[u] = CallOf[u]
  PROVE  CallOf' = [CallOf EXCEPT ![t] = CallOf'[t]]
<1>1. CallOf = [u \in Threads |-> CallOf[u]] /\ CallOf' = [u \in Threads |-> CallOf'[u]]
  BY DEF CallOf
<1> QED
  BY <1>1

\* Where the steps inside a call lead.
LEMMA InsideStays ==
  ASSUME IInv, RInv, NEW t \in Threads, Inside(t)
  PROVE  /\ op' = op /\ pc[t] \in Underway /\ pc'[t] \in Underway
         /\ \A u \in Threads \ {t} : pc'[u] = pc[u] /\ result'[u] = result[u]
<1>1. pc = [u \in Threads |-> pc[u]] /\ result = [u \in Threads |-> result[u]]
  BY DEF IInv, PerThread, RInv, TasksPerThread
<1>2. ASSUME NEW p \in Underway, Goto(t, p)
      PROVE  pc'[t] \in Underway /\ \A u \in Threads \ {t} : pc'[u] = pc[u]
  BY <1>1, <1>2 DEF Goto
<1>3. op' = op /\ \A u \in Threads \ {t} : result'[u] = result[u]
  BY <1>1 DEF Inside, Descend, SplitNode, ReadRoot, LockRoot, CheckRoot, Visit, CheckParent,
     ReadChild, CheckChild, LockChild, LockParent, LockSplit, RecheckRoot, Split, LinkParent,
     MakeRoot, UnlockNode, UnlockParent, LockLeaf, LeafParent, AbandonLeaf, ReadLeaf,
     LookupParent, workload
<1>4. pc[t] \in Underway
  BY DEF Inside, Descend, SplitNode, ReadRoot, LockRoot, CheckRoot, Visit, CheckParent,
     ReadChild, CheckChild, LockChild, LockParent, LockSplit, RecheckRoot, Split, LinkParent,
     MakeRoot, UnlockNode, UnlockParent, LockLeaf, LeafParent, AbandonLeaf, ReadLeaf,
     LookupParent, At, Underway, AtNode
<1>5. \E p \in Underway : Goto(t, p)
  <2>1. Restart(t) => Goto(t, "readRoot")
    BY DEF Restart
  <2>2. CASE ReadRoot(t) \/ LockRoot(t) \/ CheckRoot(t)
    BY <2>1, <2>2 DEF ReadRoot, LockRoot, CheckRoot, LockNode, Underway, AtNode
  <2>3. CASE Visit(t)
    <3>1. PICK splits \in BOOLEAN :
            Goto(t, CASE splits -> IF parent[t] # None THEN "lockParent" ELSE "lockSplit"
                      [] ~splits /\ IsInner(node[t]) ->
                           IF parent[t] # None THEN "checkParent" ELSE "readChild"
                      [] OTHER -> IF op[t].kind = "insert" THEN "lockLeaf" ELSE "readLeaf")
      BY <2>3 DEF Visit
    <3>2. CASE splits
      BY <3>1, <3>2 DEF Underway, AtNode
    <3>3. CASE ~splits /\ IsInner(node[t])
      BY <3>1, <3>3 DEF Underway, AtNode
    <3>4. CASE ~splits /\ ~IsInner(node[t])
      BY <3>1, <3>4 DEF Underway, AtNode
    <3> QED
      BY <3>2, <3>3, <3>4
  <2>4. CASE CheckParent(t) \/ ReadChild(t) \/ CheckChild(t) \/ LockChild(t)
    BY <2>1, <2>4 DEF CheckParent, ReadChild, CheckChild, LockChild, LockNode, Underway, AtNode
  <2>5. CASE LockParent(t) \/ LockSplit(t) \/ RecheckRoot(t) \/ Split(t) \/ LinkParent(t)
    BY <2>1, <2>5 DEF LockParent, LockSplit, RecheckRoot, Split, LinkParent, Underway, AtNode
  <2>6. CASE MakeRoot(t) \/ UnlockNode(t) \/ UnlockParent(t)
    BY <2>1, <2>6 DEF MakeRoot, UnlockNode, UnlockParent, Underway, AtNode
  <2>7. CASE LockLeaf(t) \/ LeafParent(t) \/ AbandonLeaf(t) \/ ReadLeaf(t) \/ LookupParent(t)
    BY <2>1, <2>7 DEF LockLeaf, LeafParent, AbandonLeaf, ReadLeaf, LookupParent, Underway, AtNode
  <2> QED
    BY <2>2, <2>3, <2>4, <2>5, <2>6, <2>7 DEF Inside, Descend, SplitNode
<1> QED
  BY <1>2, <1>3, <1>4, <1>5

-----------------------------------------------------------------------------
(* The tree implements the map.                                             *)

\* The promise of the map, for a step of thread t.
MapStep(t) ==
  Abstract!Ask(t) \/ Abstract!Insert(t) \/ Abstract!Lookup(t) \/ Abstract!Return(t)

\* A step inside a call does not show.
LEMMA InsideMaps ==
  ASSUME IInv, RInv, MInv, MapIsStored, MapIsStored', NEW t \in Threads, Inside(t)
  PROVE  MapOf' = MapOf /\ CallOf' = CallOf
<1>1. MapOf' = MapOf
  BY InsideRecords, SameMap
<1>2. /\ op' = op /\ pc[t] \in Underway /\ pc'[t] \in Underway
      /\ \A u \in Threads \ {t} : pc'[u] = pc[u] /\ result'[u] = result[u]
  BY InsideStays
<1>3. CallOf'[t] = CallOf[t]
  BY <1>2, CallUnderway
<1>4. \A u \in Threads \ {t} : CallOf'[u] = CallOf[u]
  BY <1>2, CallStays
<1>5. CallOf = [u \in Threads |-> CallOf[u]] /\ CallOf' = [u \in Threads |-> CallOf'[u]]
  BY DEF CallOf
<1> QED
  BY <1>1, <1>3, <1>4, <1>5

\* A call begins.
LEMMA BeginMaps ==
  ASSUME IInv, RInv, MapIsStored, MapIsStored', NEW t \in Threads, Begin(t)
  PROVE  MapStep(t)
<1>1. MapOf' = MapOf
  <2>1. tree' = tree
    BY DEF Begin
  <2> QED
    BY <2>1, QuietRecords, SameMap
<1>2. /\ pc = [u \in Threads |-> pc[u]] /\ op = [u \in Threads |-> op[u]]
      /\ result' = result /\ Goto(t, "readRoot") /\ pc[t] = "idle"
  BY DEF IInv, PerThread, RInv, TasksPerThread, Begin, Restart, At
<1>3. PICK request : op' = [op EXCEPT ![t] = request] /\ request \in Inserts \cup Lookups
  <2>1. toBuild # <<>> => Head(toBuild) \in Inserts
    BY DEF RInv, TasksPerThread
  <2> QED
    BY <2>1, RequestAssumption DEF Begin, Inserts, Lookups
<1>4. /\ pc'[t] = "readRoot" /\ op'[t] = request
      /\ \A u \in Threads \ {t} : pc'[u] = pc[u] /\ op'[u] = op[u]
  BY <1>2, <1>3 DEF Goto
<1>5. CallOf[t] = [kind |-> "idle"] /\ CallOf'[t] = request
  BY <1>2, <1>4, CallUnderway DEF Underway
<1>6. CallOf' = [CallOf EXCEPT ![t] = request]
  BY <1>2, <1>4, <1>5, CallStays, CallsAfter
<1>7. Abstract!Ask(t)
  BY <1>1, <1>3, <1>5, <1>6
     DEF Abstract!Ask, Abstract!Idle, Abstract!Asked, Inserts, Lookups
<1> QED
  BY <1>7 DEF MapStep

\* An insert takes effect when it writes the leaf.
LEMMA InsertMaps ==
  ASSUME IInv, RInv, MInv, MapIsStored, MapIsStored', NEW t \in Threads, InsertIntoLeaf(t)
  PROVE  MapStep(t)
<1>1. PICK c, s : Mapped(c, s)
  BY DEF MInv
<1>2. /\ pc[t] = "insert" /\ op[t] \in Inserts /\ op' = op /\ Goto(t, "inserted")
      /\ result' = result
  BY InsertWrites DEF InsertIntoLeaf
<1> DEFINE k == op[t].key
<1>0. PICK v : v = op[t].value
  OBVIOUS
<1>3. k \in Keys /\ op[t].kind = "insert"
  BY <1>2 DEF Inserts
<1>4. \A e, w : Stores(e, w)' <=> IF e = k THEN w = v ELSE Stores(e, w)
  BY <1>0, <1>1, InsertRecords
<1>5. ASSUME NEW e \in Keys PROVE MapOf'[e] = IF e = k THEN v ELSE MapOf[e]
  <2>1. CASE e = k
    <3>1. Stores(e, v)'
      BY <1>4, <2>1
    <3> QED
      BY <2>1, <3>1 DEF MapIsStored
  <2>2. CASE e # k
    <3>1. \A w : Stores(e, w)' <=> Stores(e, w)
      BY <1>4, <2>2
    <3>2. CASE \E w : Stores(e, w)
      <4>1. PICK w : Stores(e, w)
        BY <3>2
      <4>2. Stores(e, w)'
        BY <3>1, <4>1
      <4> QED
        BY <2>2, <4>1, <4>2 DEF MapIsStored
    <3>3. CASE \A w : ~Stores(e, w)
      <4>1. \A w : ~Stores(e, w)'
        BY <3>1, <3>3
      <4> QED
        BY <2>2, <3>3, <4>1 DEF MapIsStored
    <3> QED
      BY <3>2, <3>3
  <2> QED
    BY <2>1, <2>2
<1>6. MapOf' = [MapOf EXCEPT ![k] = v]
  <2>1. MapOf = [e \in Keys |-> MapOf[e]] /\ MapOf' = [e \in Keys |-> MapOf'[e]]
    BY DEF MapOf
  <2> QED
    BY <1>5, <2>1
<1>7. pc'[t] = "inserted" /\ \A u \in Threads \ {t} : pc'[u] = pc[u]
  BY <1>2 DEF Goto, IInv, PerThread
<1>8. CallOf[t] = op[t] /\ CallOf'[t] = [kind |-> "answer", result |-> TRUE]
  BY <1>2, <1>7, CallUnderway DEF Underway, AtNode
<1>9. CallOf' = [CallOf EXCEPT ![t] = [kind |-> "answer", result |-> TRUE]]
  BY <1>2, <1>7, <1>8, CallStays, CallsAfter
<1>10. Abstract!Insert(t)
  BY <1>0, <1>3, <1>6, <1>8, <1>9 DEF Abstract!Insert, Abstract!Answer
<1> QED
  BY <1>10 DEF MapStep

\* A lookup takes effect when it validates the leaf, or starts over.
LEMMA LookupMaps ==
  ASSUME IInv, RInv, MInv, MapIsStored, MapIsStored', NEW t \in Threads, LookupLeaf(t)
  PROVE  MapStep(t) \/ (MapOf' = MapOf /\ CallOf' = CallOf)
<1>1. PICK c, s : Mapped(c, s)
  BY DEF MInv
<1>2. /\ pc[t] = "lookupLeaf" /\ op' = op /\ tree' = tree
      /\ pc = [u \in Threads |-> pc[u]] /\ result = [u \in Threads |-> result[u]]
  BY DEF LookupLeaf, At, IInv, PerThread, RInv, TasksPerThread, workload
<1>3. MapOf' = MapOf
  BY <1>2, QuietRecords, SameMap
<1>4. CallOf[t] = op[t]
  BY <1>2, CallUnderway DEF Underway, AtNode
<1>5. CASE Intact(node[t], vNode[t])
  <2>1. Goto(t, "found") /\ result' = result
    BY <1>5 DEF LookupLeaf
  <2>2. /\ op[t].key \in c[node[t]] /\ result[t] = ValueIn(node[t], op[t].key)
        /\ op[t] \in Lookups
    BY <1>1, <1>2, <1>5 DEF Mapped, Seeks, SeeksHere, Arrived
  <2>3. node[t] \in Leaves /\ op[t].key \in Keys /\ op[t].kind = "lookup"
    BY <1>2, <2>2 DEF Leaves, Lookups, IInv, ThreadOK, AtNode, RInv, Knows, KnowsNode, AtLeaf
  <2>4. result[t] = MapOf[op[t].key]
    BY <1>1, <2>2, <2>3, AnswerIsMap
  <2>5. pc'[t] = "found" /\ \A u \in Threads \ {t} : pc'[u] = pc[u]
    BY <1>2, <2>1 DEF Goto
  <2>6. CallOf'[t] = [kind |-> "answer", result |-> MapOf[op[t].key]]
    BY <2>1, <2>4, <2>5, CallUnderway
  <2>7. CallOf' = [CallOf EXCEPT ![t] = [kind |-> "answer", result |-> MapOf[op[t].key]]]
    BY <1>2, <2>1, <2>5, <2>6, CallStays, CallsAfter
  <2>8. Abstract!Lookup(t)
    BY <1>3, <1>4, <2>3, <2>7 DEF Abstract!Lookup, Abstract!Answer
  <2> QED
    BY <2>8 DEF MapStep
<1>6. CASE ~Intact(node[t], vNode[t])
  <2>1. Goto(t, "readRoot") /\ result' = [result EXCEPT ![t] = Missing]
    BY <1>6 DEF LookupLeaf, Restart
  <2>2. /\ pc'[t] = "readRoot"
        /\ \A u \in Threads \ {t} : pc'[u] = pc[u] /\ result'[u] = result[u]
    BY <1>2, <2>1 DEF Goto
  <2>3. CallOf'[t] = CallOf[t]
    BY <1>2, <1>4, <2>2, CallUnderway DEF Underway
  <2>4. \A u \in Threads \ {t} : CallOf'[u] = CallOf[u]
    BY <1>2, <2>2, CallStays
  <2>5. CallOf = [u \in Threads |-> CallOf[u]] /\ CallOf' = [u \in Threads |-> CallOf'[u]]
    BY DEF CallOf
  <2> QED
    BY <1>3, <2>3, <2>4, <2>5
<1> QED
  BY <1>5, <1>6

\* A call returns.
LEMMA ReturnMaps ==
  ASSUME IInv, RInv, MapIsStored, MapIsStored', NEW t \in Threads,
         ReturnInsert(t) \/ ReturnLookup(t)
  PROVE  MapStep(t)
<1>1. MapOf' = MapOf
  <2>1. SameRecords
    BY LockRecords, QuietRecords DEF ReturnLookup
  <2> QED
    BY <2>1, SameMap
<1>2. /\ pc[t] \in {"inserted", "found"} /\ Goto(t, "idle") /\ op' = [op EXCEPT ![t] = NoOp]
      /\ pc = [u \in Threads |-> pc[u]] /\ op = [u \in Threads |-> op[u]]
      /\ result = [u \in Threads |-> result[u]]
  BY DEF ReturnInsert, ReturnLookup, Return, At, IInv, PerThread, RInv, TasksPerThread
<1>3. result' = result \/ result' = [result EXCEPT ![t] = Missing]
  BY DEF ReturnInsert, ReturnLookup
<1>4. /\ pc'[t] = "idle"
      /\ \A u \in Threads \ {t} : pc'[u] = pc[u] /\ op'[u] = op[u] /\ result'[u] = result[u]
  BY <1>2, <1>3 DEF Goto
<1>5. CallOf[t].kind = "answer" /\ CallOf'[t] = [kind |-> "idle"]
  <2>1. CallOf'[t] = [kind |-> "idle"]
    BY <1>4, CallUnderway
  <2>2. \/ CallOf[t] = [kind |-> "answer", result |-> TRUE]
        \/ CallOf[t] = [kind |-> "answer", result |-> result[t]]
    BY <1>2, CallUnderway
  <2>3. \A a, r : a = [kind |-> "answer", result |-> r] => a.kind = "answer"
    OBVIOUS
  <2> QED
    BY <2>1, <2>2, <2>3
<1>6. CallOf' = [CallOf EXCEPT ![t] = [kind |-> "idle"]]
  BY <1>4, <1>5, CallStays, CallsAfter
<1>7. Abstract!Return(t)
  BY <1>1, <1>5, <1>6 DEF Abstract!Return, Abstract!Idle
<1> QED
  BY <1>7 DEF MapStep

\* At first nothing is stored and nothing asked.
LEMMA InitMaps == Init => Abstract!Init
<1> SUFFICES ASSUME Init PROVE Abstract!Init
  OBVIOUS
<1>1. \A t \in Threads : pc[t] = "idle"
  BY DEF Init
<1>2. CallOf = [t \in Threads |-> [kind |-> "idle"]]
  BY <1>1 DEF CallOf, At
<1>3. \A n \in Leaves : tree[n].keys = <<>>
  BY DEF Init, Leaf, Leaves, Nodes
<1>4. \A n \in Leaves : ToSet(tree[n].keys) = {}
  BY <1>3 DEF ToSet
<1>5. MapOf = [k \in Keys |-> Missing]
  <2>1. \A k : {n \in Leaves : k \in ToSet(tree[n].keys)} = {}
    BY <1>4
  <2> QED
    BY <2>1 DEF MapOf
<1> QED
  BY <1>2, <1>5 DEF Abstract!Init, Abstract!Idle

\* Every step is a step of the map, or does not show.
LEMMA NextIsMapStep ==
  ASSUME IInv, RInv, MInv, MapIsStored, MapIsStored', [Next]_vars
  PROVE  [Abstract!Next]_(Abstract!mapVars)
<1>1. CASE UNCHANGED vars
  <2>1. MapOf' = MapOf /\ CallOf' = CallOf
    BY <1>1 DEF vars, workload, MapOf, CallOf, Leaves, Nodes, IsInner, ValueIn, At
  <2> QED
    BY <2>1 DEF Abstract!mapVars
<1>2. CASE Next
  <2>1. PICK t \in Threads : Begin(t) \/ Step(t)
    BY <1>2 DEF Next
  <2>2. MapStep(t) \/ (MapOf' = MapOf /\ CallOf' = CallOf)
    <3>1. CASE Begin(t)
      BY <3>1, BeginMaps
    <3>2. CASE Inside(t)
      BY <3>2, InsideMaps
    <3>3. CASE InsertIntoLeaf(t)
      BY <3>3, InsertMaps
    <3>4. CASE LookupLeaf(t)
      BY <3>4, LookupMaps
    <3>5. CASE ReturnInsert(t) \/ ReturnLookup(t)
      BY <3>5, ReturnMaps
    <3> QED
      BY <2>1, <3>1, <3>2, <3>3, <3>4, <3>5 DEF Step, Insert, Lookup, Inside
  <2> QED
    BY <2>2 DEF Abstract!mapVars, Abstract!Next, MapStep
<1> QED
  BY <1>1, <1>2

\* The tree is a linearizable map: for any number of threads, any requests, any
\* capacities and however often the nodes are locked, every insert and lookup
\* takes effect at one instant between its call and its return
\* (BTreeOLC.h:298-475).
THEOREM TreeIsAMap == Spec => ImplementsMap
<1>1. Spec => [](IInv /\ RInv /\ MInv)
  BY AllHold
<1>2. IInv /\ RInv /\ MInv => MapIsStored
  BY MapIsStoredThere
<1>3. Init => Abstract!Init
  BY InitMaps
<1>4. IInv /\ RInv /\ MInv /\ MapIsStored /\ MapIsStored' /\ [Next]_vars
        => [Abstract!Next]_(Abstract!mapVars)
  BY NextIsMapStep
<1> QED
  BY <1>1, <1>2, <1>3, <1>4, PTL DEF Spec, ImplementsMap, Abstract!Spec

-----------------------------------------------------------------------------
(* The types.                                                               *)

\* The links of a node lead to nodes.
NodeTyped(x, S) ==
  x.type \in {"leaf", "inner"} /\ x.kids \in Seq(S) /\ x.next \in S \cup {None}

\* The links between the leaves, and what a thread has read.
TInv ==
  /\ \A n \in Nodes : NodeTyped(tree[n], Nodes)
  /\ firstLeaf \in Leaves
  /\ \A t \in Threads : /\ node[t] \in Nodes \cup {None, Torn}
                        /\ result[t] \in Values \cup {Missing, Torn}

\* With the other invariants it gives the types.
LEMMA TypesAreThere == IInv /\ RInv /\ TInv => TypeOK
<1> SUFFICES ASSUME IInv, RInv, TInv PROVE TypeOK
  OBVIOUS
<1>1. \A n \in Nodes : tree[n].word \in Nat
  BY DEF IInv, TreeOK, IsNode
<1>2. root \in Nodes /\ \A t \in Threads : parent[t] \in Nodes \cup {None}
  BY DEF IInv, TreeOK, ThreadOK
<1> QED
  BY <1>1, <1>2 DEF TypeOK, TInv, NodeTyped

\* What a thread reads is a node, or torn, and a value.
LEMMA ReadTypes ==
  ASSUME IInv, RInv, TInv, Nodes \subseteq Nodes', NEW t \in Threads, Begin(t) \/ Step(t)
  PROVE  \A u \in Threads : /\ node'[u] \in Nodes' \cup {None, Torn}
                            /\ result'[u] \in Values \cup {Missing, Torn}
<1>1. node = [u \in Threads |-> node[u]] /\ result = [u \in Threads |-> result[u]]
  BY DEF IInv, PerThread, RInv, TasksPerThread
<1>2. ASSUME NEW m \in Nodes \cup {None, Torn}, node' = node \/ node' = [node EXCEPT ![t] = m]
      PROVE  \A u \in Threads : node'[u] \in Nodes' \cup {None, Torn}
  BY <1>1, <1>2 DEF TInv
<1>3. ASSUME NEW r \in Values \cup {Missing, Torn},
             result' = result \/ result' = [result EXCEPT ![t] = r]
      PROVE  \A u \in Threads : result'[u] \in Values \cup {Missing, Torn}
  BY <1>1, <1>3 DEF TInv
<1>4. \E m \in Nodes \cup {None, Torn} : node' = node \/ node' = [node EXCEPT ![t] = m]
  <2>1. Restart(t) \/ Forget(t) => node' = [node EXCEPT ![t] = None]
    BY DEF Restart, Forget
  <2>2. CASE ReadRoot(t)
    BY <2>2 DEF ReadRoot, IInv, TreeOK
  <2>3. CASE ReadChild(t)
    <3>1. CASE Intact(node[t], vNode[t])
      <4>1. /\ node[t] \in Nodes /\ ContentOK(tree[node[t]], Nodes) /\ IsInner(node[t])
            /\ op[t].key \in Keys
        BY <2>3 DEF ReadChild, At, IInv, ThreadOK, AtNode, RInv, ContentsOK, Knows, KnowsNode,
           KnowsTask, Inserts, Lookups
      <4>2. ChildFor(node[t], op[t].key) \in Nodes
        BY <4>1, ChildIsNode DEF RInv
      <4> QED
        BY <2>3, <3>1, <4>2 DEF ReadChild
    <3>2. CASE ~Intact(node[t], vNode[t])
      BY <2>3, <3>2 DEF ReadChild
    <3> QED
      BY <3>1, <3>2
  <2>4. CASE Begin(t) \/ ReturnInsert(t) \/ ReturnLookup(t)
    BY <2>1, <2>4 DEF Begin, ReturnInsert, ReturnLookup, Return
  <2>5. CASE \/ LockRoot(t) \/ CheckRoot(t) \/ Visit(t) \/ CheckParent(t) \/ CheckChild(t)
             \/ LockChild(t) \/ ReadLeaf(t) \/ LookupParent(t) \/ LookupLeaf(t)
    BY <2>1, <2>5 DEF LockRoot, CheckRoot, Visit, CheckParent, CheckChild, LockChild, LockNode,
       ReadLeaf, LookupParent, LookupLeaf, path
  <2>6. CASE SplitNode(t) \/ LockLeaf(t) \/ LeafParent(t) \/ AbandonLeaf(t) \/ InsertIntoLeaf(t)
    BY <2>1, <2>6 DEF SplitNode, LockParent, LockSplit, RecheckRoot, Split, LinkParent, MakeRoot,
       UnlockNode, UnlockParent, LockLeaf, LeafParent, AbandonLeaf, InsertIntoLeaf, path
  <2> QED
    BY <2>2, <2>3, <2>4, <2>5, <2>6 DEF Step, Descend, Insert, Lookup
<1>5. \E r \in Values \cup {Missing, Torn} :
        result' = result \/ result' = [result EXCEPT ![t] = r]
  <2>1. CASE ReadLeaf(t)
    <3>1. CASE Intact(node[t], vNode[t])
      <4>1. /\ node[t] \in Nodes /\ ContentOK(tree[node[t]], Nodes) /\ ~IsInner(node[t])
            /\ op[t].key \in Keys
        BY <2>1 DEF ReadLeaf, At, IInv, ThreadOK, AtNode, RInv, ContentsOK, Knows, KnowsNode,
           KnowsTask, Inserts, Lookups, AtLeaf
      <4>2. ValueIn(node[t], op[t].key) \in Values \cup {Missing}
        BY <4>1, FoundIsAnswer DEF RInv
      <4> QED
        BY <2>1, <3>1, <4>2 DEF ReadLeaf
    <3>2. CASE ~Intact(node[t], vNode[t])
      BY <2>1, <3>2 DEF ReadLeaf
    <3> QED
      BY <3>1, <3>2
  <2>2. CASE LookupParent(t) \/ LookupLeaf(t) \/ ReturnLookup(t)
    BY <2>2 DEF LookupParent, LookupLeaf, ReturnLookup
  <2>3. CASE Begin(t) \/ Descend(t) \/ SplitNode(t) \/ Insert(t)
    BY <2>3 DEF Begin, Descend, SplitNode, Insert, ReadRoot, LockRoot, CheckRoot, Visit,
       CheckParent, ReadChild, CheckChild, LockChild, LockParent, LockSplit, RecheckRoot, Split,
       LinkParent, MakeRoot, UnlockNode, UnlockParent, LockLeaf, LeafParent, AbandonLeaf,
       InsertIntoLeaf, ReturnInsert
  <2> QED
    BY <2>1, <2>2, <2>3 DEF Step, Lookup
<1> QED
  BY <1>2, <1>3, <1>4, <1>5

\* The links of the nodes after a step, and the leaves.
LEMMA LinksTyped ==
  ASSUME IInv, RInv, RInv', MInv, TInv, NEW t \in Threads, Begin(t) \/ Step(t)
  PROVE  /\ Nodes \subseteq Nodes' /\ Leaves \subseteq Leaves' /\ firstLeaf' = firstLeaf
         /\ \A n \in Nodes' : NodeTyped(tree'[n], Nodes')
<1>0. PICK c, s : Mapped(c, s)
  BY DEF MInv
<1>1. firstLeaf' = firstLeaf
  BY DEF Begin, Step, Descend, SplitNode, Insert, Lookup, ReadRoot, LockRoot, CheckRoot, Visit,
     CheckParent, ReadChild, CheckChild, LockChild, LockParent, LockSplit, RecheckRoot, Split,
     LinkParent, MakeRoot, UnlockNode, UnlockParent, LockLeaf, LeafParent, AbandonLeaf,
     InsertIntoLeaf, ReturnInsert, ReadLeaf, LookupParent, LookupLeaf, ReturnLookup, shape
<1>2. \A n \in Nodes' : tree'[n].type = "inner" => tree'[n].kids \in Seq(Nodes')
  BY DEF RInv, ContentsOK, ContentOK
<1>3. \A x : NodeTyped(x, Nodes) /\ Nodes \subseteq Nodes' => NodeTyped(x, Nodes')
  BY LargerSet DEF NodeTyped
<1>4. ASSUME Nodes' = Nodes,
             \A n \in Nodes : /\ tree'[n].type = tree[n].type /\ tree'[n].next = tree[n].next
                              /\ tree'[n].kids = tree[n].kids \/ tree[n].type = "inner"
      PROVE  Leaves \subseteq Leaves' /\ \A n \in Nodes' : NodeTyped(tree'[n], Nodes')
  BY <1>2, <1>4 DEF TInv, NodeTyped, Leaves, IsInner
<1>5. CASE tree' = tree
  BY <1>1, <1>4, <1>5 DEF Nodes
<1>6. CASE Rewords(t)
  BY <1>1, <1>4, <1>6 DEF Rewords
<1>7. CASE InsertIntoLeaf(t)
  <2> DEFINE n == node[t]
             y == LeafInsert(tree[n], op[t].key, op[t].value)
  <2>1. /\ n \in Leaves /\ op[t] \in Inserts /\ Nodes' = Nodes /\ y.type = tree[n].type
        /\ \A m \in Nodes : tree'[m] = IF m = n THEN LeafInsert(tree[m], op[t].key, op[t].value)
                                                ELSE tree[m]
    BY <1>7, InsertWrites
  <2>2. /\ IsNode(tree[n]) /\ ContentOK(tree[n], Nodes) /\ Sorted(tree[n].keys)
        /\ tree[n].type # "inner" /\ op[t].key \in Keys /\ op[t].value \in Values
    BY <1>0, <2>1 DEF IInv, TreeOK, RInv, ContentsOK, Mapped, NodeCovers, Leaves, IsInner, Inserts
  <2>3. y.kids = tree[n].kids /\ y.next = tree[n].next
    BY <2>2, LeafInserted DEF ContentOK
  <2> HIDE DEF y
  <2>4. \A m \in Nodes : tree'[m] = IF m = n THEN y ELSE tree[m]
    BY <2>1 DEF y
  <2> QED
    BY <1>1, <1>4, <2>1, <2>3, <2>4
<1>8. CASE Split(t)
  <2> DEFINE n == node[t]
  <2>0. n \in Nodes /\ Sorted(tree[n].keys)
    BY <1>0, <1>8 DEF IInv, ThreadOK, AtNode, Split, At, Mapped, NodeCovers
  <2>1. PICK l, r, e, id : SplitsInto(t, l, r, e, id)
    BY <1>8, <2>0, SplitWrites
  <2>2. /\ id \notin Nodes /\ Nodes' = Nodes \cup {id} /\ tree'[id] = r /\ tree'[n] = l
        /\ \A m \in Nodes : m # n => tree'[m] = tree[m]
        /\ l.type = tree[n].type
    BY <2>0, <2>1 DEF SplitsInto
  <2>3. NodeTyped(tree[n], Nodes)
    BY <2>0 DEF TInv
  <2>4. NodeTyped(l, Nodes') /\ NodeTyped(r, Nodes')
    <3>1. CASE IsInner(n)
      <4>1. r.type = "inner" /\ l.next = tree[n].next /\ r.next = None
        BY <2>1, <3>1 DEF SplitsInto
      <4>2. l.type = "inner" /\ n \in Nodes' /\ id \in Nodes'
        BY <2>0, <2>2, <3>1 DEF IsInner
      <4>3. l.kids \in Seq(Nodes') /\ r.kids \in Seq(Nodes')
        BY <1>2, <2>2, <4>1, <4>2
      <4> QED
        BY <2>2, <2>3, <4>1, <4>2, <4>3 DEF NodeTyped
    <3>2. CASE ~IsInner(n)
      <4>1. /\ r.type = "leaf" /\ l.next = id /\ r.next = tree[n].next
            /\ l.kids = tree[n].kids /\ r.kids = <<>>
        BY <2>1, <3>2 DEF SplitsInto
      <4>2. l.kids \in Seq(Nodes') /\ r.kids \in Seq(Nodes')
        <5>1. NodeTyped(tree[n], Nodes')
          BY <1>3, <2>2, <2>3
        <5> QED
          BY <4>1, <5>1 DEF NodeTyped
      <4> QED
        BY <2>2, <2>3, <4>1, <4>2 DEF NodeTyped
    <3> QED
      BY <3>1, <3>2
  <2>5. \A m \in Nodes' : NodeTyped(tree'[m], Nodes')
    <3> SUFFICES ASSUME NEW m \in Nodes' PROVE NodeTyped(tree'[m], Nodes')
      OBVIOUS
    <3>1. CASE m = id \/ m = n
      BY <2>2, <2>4, <3>1
    <3>2. CASE m # id /\ m # n
      <4>1. m \in Nodes /\ tree'[m] = tree[m] /\ NodeTyped(tree[m], Nodes)
        BY <2>2, <3>2 DEF TInv
      <4> QED
        BY <1>3, <2>2, <4>1
    <3> QED
      BY <3>1, <3>2
  <2>6. \A m \in Nodes : tree'[m].type = tree[m].type
    BY <2>2
  <2> QED
    BY <1>1, <2>2, <2>5, <2>6 DEF Leaves, IsInner
<1>9. CASE LinkParent(t)
  <2>1. PICK y : /\ Linked(tree[parent[t]], y, sep[t].key, sep[t].new)
                 /\ \A m \in Nodes : tree'[m] = IF m = parent[t] THEN y ELSE tree[m]
    BY <1>9, LinkWrites
  <2>2. Nodes' = Nodes
    BY <1>9, LinkWrites
  <2>3. IsInner(parent[t]) /\ y.type = tree[parent[t]].type /\ y.next = tree[parent[t]].next
    BY <1>9, <2>1 DEF RInv, Knows, KnowsParent, LinkParent, At, IInv, ThreadOK, Linked
  <2> QED
    BY <1>1, <1>4, <2>1, <2>2, <2>3 DEF IsInner
<1>10. CASE MakeRoot(t)
  <2>1. PICK id : /\ id \notin Nodes /\ Nodes' = Nodes \cup {id}
                  /\ \A m \in Nodes : tree'[m] = tree[m]
                  /\ tree'[id] = Inner(<<sep[t].key>>, <<node[t], sep[t].new>>)
    BY <1>10, RootWrites
  <2>2. tree'[id].type = "inner" /\ tree'[id].next = None
    BY <2>1 DEF Inner
  <2>3. NodeTyped(tree'[id], Nodes')
    BY <1>2, <2>1, <2>2 DEF NodeTyped
  <2>4. \A m \in Nodes' : NodeTyped(tree'[m], Nodes')
    BY <1>3, <2>1, <2>3 DEF TInv
  <2> QED
    BY <1>1, <2>1, <2>4 DEF Leaves, IsInner
<1>11. CASE \/ LockParent(t) \/ LockSplit(t) \/ LockLeaf(t)
            \/ UnlockNode(t) \/ UnlockParent(t) \/ AbandonLeaf(t) \/ ReturnInsert(t)
  BY <1>5, <1>6, <1>11, LocksOnlyReword
<1>12. CASE \/ Begin(t) \/ Descend(t) \/ RecheckRoot(t) \/ LeafParent(t) \/ Lookup(t)
  <2>1. tree' = tree
    BY <1>12 DEF Begin, Descend, ReadRoot, LockRoot, CheckRoot, Visit, CheckParent, ReadChild,
       CheckChild, LockChild, RecheckRoot, LeafParent, Lookup, ReadLeaf, LookupParent, LookupLeaf,
       ReturnLookup
  <2> QED
    BY <1>5, <2>1
<1> QED
  BY <1>7, <1>8, <1>9, <1>10, <1>11, <1>12 DEF Step, SplitNode, Insert

\* At first there is one leaf, and no thread has read anything.
LEMMA InitTInv == Init => TInv
<1> SUFFICES ASSUME Init PROVE TInv
  OBVIOUS
<1>1. tree = <<Leaf(<<>>, <<>>, None)>> /\ firstLeaf = 1
  BY DEF Init
<1>2. Nodes = {1} /\ tree[1] = Leaf(<<>>, <<>>, None)
  BY <1>1 DEF Nodes
<1>3. tree[1].type = "leaf" /\ tree[1].kids = <<>> /\ tree[1].next = None
  BY <1>2 DEF Leaf
<1>4. Leaves = {1}
  BY <1>2, <1>3 DEF Leaves, IsInner
<1>5. NodeTyped(tree[1], Nodes)
  BY <1>3 DEF NodeTyped
<1>6. \A t \in Threads : node[t] = None /\ result[t] = Missing
  BY DEF Init
<1> QED
  BY <1>1, <1>2, <1>4, <1>5, <1>6 DEF TInv

\* Every step keeps the types.
LEMMA NextTypes == IInv /\ RInv /\ RInv' /\ MInv /\ TInv /\ [Next]_vars => TInv'
<1> SUFFICES ASSUME IInv, RInv, RInv', MInv, TInv, [Next]_vars PROVE TInv'
  OBVIOUS
<1>1. CASE UNCHANGED vars
  BY <1>1 DEF vars, shape, path, TInv, Nodes, Leaves, IsInner
<1>2. CASE Next
  <2>1. PICK t \in Threads : Begin(t) \/ Step(t)
    BY <1>2 DEF Next
  <2>2. /\ Nodes \subseteq Nodes' /\ Leaves \subseteq Leaves' /\ firstLeaf' = firstLeaf
        /\ \A n \in Nodes' : NodeTyped(tree'[n], Nodes')
    BY <2>1, LinksTyped
  <2>3. \A u \in Threads : /\ node'[u] \in Nodes' \cup {None, Torn}
                           /\ result'[u] \in Values \cup {Missing, Torn}
    BY <2>1, <2>2, ReadTypes
  <2> QED
    BY <2>2, <2>3 DEF TInv
<1> QED
  BY <1>1, <1>2

\* The links of the nodes lead to nodes, and so do the pointers of the threads
\* if they are not null or torn (BTreeOLC.h:74-94, 164-176, 298-475).
THEOREM TypesAreKept == Spec => []TypeOK
<1>1. Spec => [](IInv /\ RInv /\ MInv)
  BY AllHold
<1>2. Init => TInv
  BY InitTInv
<1>3. IInv /\ RInv /\ RInv' /\ MInv /\ TInv /\ [Next]_vars => TInv'
  BY NextTypes
<1>4. IInv /\ RInv /\ TInv => TypeOK
  BY TypesAreThere
<1> QED
  BY <1>1, <1>2, <1>3, <1>4, PTL DEF Spec
=============================================================================
