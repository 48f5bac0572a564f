---------------------------- MODULE PageFileProofs ----------------------------
(***************************************************************************)
(* What the operators of PageFile return, for any page size and any error  *)
(* of the models: pages, transfers, ranges, and the merge of two vectors.  *)
(***************************************************************************)
EXTENDS PageFile, FiniteSetTheorems, TLAPS

\* A vector of n elements.
IsVector(v, n) == n \in Nat /\ DOMAIN v = 0 .. n - 1

\* The keys of a vector of records are numbers, and in order.
InKeyOrder(v) ==
  /\ \A i \in DOMAIN v : v[i].key \in Int
  /\ \A i, j \in DOMAIN v : i < j => v[i].key <= v[j].key

LEMMA SizeIsLength ==
  ASSUME NEW v, NEW n, IsVector(v, n)
  PROVE  Size(v) = n
<1>1. Cardinality(0 .. n - 1) = IF 0 > n - 1 THEN 0 ELSE n - 1 - 0 + 1
  BY FS_Interval DEF IsVector
<1> QED
  BY <1>1 DEF IsVector, Size

\* The least element of a set of integers is the one below all others.
LEMMA MinIsLeast ==
  ASSUME NEW S \in SUBSET Int, NEW m \in S, \A x \in S : m <= x
  PROVE  Min(S) = m
<1>1. \A x \in S : (\A y \in S : x <= y) => x = m
  OBVIOUS
<1> QED
  BY <1>1 DEF Min

LEMMA MaxIsGreatest ==
  ASSUME NEW S \in SUBSET Int, NEW m \in S, \A x \in S : x <= m
  PROVE  Max(S) = m
<1>1. \A x \in S : (\A y \in S : x >= y) => x = m
  OBVIOUS
<1> QED
  BY <1>1 DEF Max

\* A set of indices that has with each one all those below it.
LEMMA PrefixIsCounted ==
  ASSUME NEW n \in Nat, NEW P \in SUBSET (0 .. n - 1),
         \A i \in P : \A j \in 0 .. n - 1 : j < i => j \in P
  PROVE  Cardinality(P) \in 0 .. n /\ P = 0 .. Cardinality(P) - 1
<1> DEFINE c == Cardinality(P)
<1>1. IsFiniteSet(0 .. n - 1) /\ Cardinality(0 .. n - 1) = n
  <2>1. Cardinality(0 .. n - 1) = IF 0 > n - 1 THEN 0 ELSE n - 1 - 0 + 1
    BY FS_Interval
  <2> QED
    BY <2>1, FS_Interval
<1>2. IsFiniteSet(P) /\ c \in Nat /\ c <= n
  BY <1>1, FS_Subset, FS_CardinalityType
<1>3. ASSUME NEW i \in P PROVE i < c
  <2>1. 0 .. i \subseteq P
    BY <1>3
  <2>2. Cardinality(0 .. i) = i + 1
    <3>1. Cardinality(0 .. i) = IF 0 > i THEN 0 ELSE i - 0 + 1
      BY FS_Interval
    <3> QED
      BY <3>1
  <2>3. Cardinality(0 .. i) <= c
    BY <1>2, <2>1, FS_Subset
  <2> QED
    BY <1>2, <2>2, <2>3
<1>4. P \subseteq 0 .. c - 1
  BY <1>2, <1>3
<1>5. IsFiniteSet(0 .. c - 1) /\ Cardinality(0 .. c - 1) = c
  <2> HIDE DEF c
  <2>1. 0 \in Int /\ c - 1 \in Int
    BY <1>2
  <2>2. /\ IsFiniteSet(0 .. c - 1)
        /\ Cardinality(0 .. c - 1) = IF 0 > c - 1 THEN 0 ELSE c - 1 - 0 + 1
    BY <2>1, FS_Interval
  <2> QED
    BY <1>2, <2>2
<1>6. P = 0 .. c - 1
  <2> HIDE DEF c
  <2>1. c = Cardinality(P)
    BY DEF c
  <2> QED
    BY <1>4, <1>5, <2>1, FS_Subset
<1> QED
  BY <1>2, <1>6

\* Division rounds down.
LEMMA Quotient ==
  ASSUME NEW a \in Nat, NEW b \in Nat \ {0}
  PROVE  /\ a \div b \in Nat
         /\ b * (a \div b) <= a
         /\ a < b * (a \div b) + b
OBVIOUS

LEMMA QuotientIs ==
  ASSUME NEW a \in Nat, NEW b \in Nat \ {0}, NEW q \in Nat, b * q <= a, a < b * q + b
  PROVE  a \div b = q
OBVIOUS

LEMMA ProductGrows ==
  ASSUME NEW a \in Int, NEW b \in Int, NEW c \in Nat, a <= b
  PROVE  c * a <= c * b
OBVIOUS

LEMMA LessInProduct ==
  ASSUME NEW a \in Int, NEW b \in Int, NEW c \in Nat \ {0}, c * a < c * b
  PROVE  a < b
<1>1. CASE b <= a
  <2>1. c * b <= c * a
    BY <1>1, ProductGrows
  <2> QED
    BY <2>1
<1> QED
  BY <1>1

-----------------------------------------------------------------------------
(* Pages.                                                                   *)

\* The pages of n records have room for them, and none is empty.
LEMMA PagesHold ==
  ASSUME NEW n \in Nat
  PROVE  /\ PagesFor(n) \in Nat
         /\ n <= PagesFor(n) * RecordPerPage
         /\ PagesFor(n) * RecordPerPage < n + RecordPerPage
<1>1. RecordPerPage \in Nat \ {0} /\ n + RecordPerPage - 1 \in Nat
  BY RecordPerPageAssumption
<1>2. /\ PagesFor(n) \in Nat
      /\ RecordPerPage * PagesFor(n) <= n + RecordPerPage - 1
      /\ n + RecordPerPage - 1 < RecordPerPage * PagesFor(n) + RecordPerPage
  BY <1>1, Quotient DEF PagesFor
<1> QED
  BY <1>1, <1>2

\* What is written is read again.
LEMMA WrittenIsRead ==
  ASSUME NEW file, NEW data, NEW n, IsVector(data, n),
         NEW pages \in Nat, n <= pages * RecordPerPage, NEW start \in Nat
  PROVE  GetAllData(DirectIOWrite(file, data, pages, start), start, n) = [i \in 0 .. n - 1 |-> data[i]]
<1> DEFINE first == start * RecordPerPage
           written == first .. first + pages * RecordPerPage - 1
           stored == DirectIOWrite(file, data, pages, start)
<1>1. RecordPerPage \in Nat \ {0} /\ first \in Nat /\ pages * RecordPerPage \in Nat /\ n \in Nat
  BY RecordPerPageAssumption DEF IsVector
<1>2. DOMAIN stored = DOMAIN file \cup written
  BY DEF DirectIOWrite
<1>3. \A slot \in written : stored[slot] = At(data, slot - first)
  BY DEF DirectIOWrite
<1>4. ASSUME NEW i \in 0 .. n - 1
      PROVE  At(stored, first + i) = data[i]
  <2> DEFINE slot == first + i
  <2>1. slot \in Int /\ first <= slot /\ slot <= first + pages * RecordPerPage - 1
        /\ slot - first = i
    <3> HIDE DEF first
    <3>1. i < pages * RecordPerPage /\ i \in Nat
      BY <1>1
    <3> QED
      BY <1>1, <3>1
  <2> HIDE DEF stored
  <2>2. slot \in written
    <3> HIDE DEF slot, first
    <3> QED
      BY <1>1, <2>1
  <2>3. i \in DOMAIN data
    BY DEF IsVector
  <2> HIDE DEF slot, written, first
  <2>4. At(stored, slot) = data[i]
    BY <1>2, <1>3, <2>1, <2>2, <2>3 DEF At
  <2> QED
    BY <2>4 DEF slot
<1> HIDE DEF stored
<1> QED
  BY <1>4 DEF GetAllData, stored, first

\* Each slot of the file that is stored holds what it held, or an element of the
\* data, or what is left over.
HoldsOf(stored, file, data) == \A slot \in DOMAIN stored :
  \/ slot \in DOMAIN file /\ stored[slot] = file[slot]
  \/ /\ slot \in Nat
     /\ stored[slot] = Junk \/ \E i \in DOMAIN data : stored[slot] = data[i]

LEMMA WrittenSlots ==
  ASSUME NEW file, NEW data, NEW pages \in Nat, NEW start \in Nat
  PROVE  HoldsOf(DirectIOWrite(file, data, pages, start), file, data)
<1> DEFINE first == start * RecordPerPage
           written == first .. first + pages * RecordPerPage - 1
           stored == DirectIOWrite(file, data, pages, start)
<1> SUFFICES ASSUME NEW slot \in DOMAIN stored
             PROVE  \/ slot \in DOMAIN file /\ stored[slot] = file[slot]
                    \/ /\ slot \in Nat
                       /\ stored[slot] = Junk \/ \E i \in DOMAIN data : stored[slot] = data[i]
  BY DEF HoldsOf
<1>1. first \in Nat /\ pages * RecordPerPage \in Nat
  BY RecordPerPageAssumption
<1>2. CASE slot \in written
  BY <1>1, <1>2 DEF DirectIOWrite, At
<1>3. CASE slot \notin written
  BY <1>3 DEF DirectIOWrite
<1> QED
  BY <1>2, <1>3

-----------------------------------------------------------------------------
(* The merge of two vectors.                                                *)

DynamicPlace(d, s, first, i) ==
  i + Cardinality({j \in DOMAIN s : \/ s[j].key < d[i].key
                                    \/ ~first /\ s[j].key = d[i].key})

StaticPlace(d, s, first, j) ==
  j + Cardinality({i \in DOMAIN d : \/ d[i].key < s[j].key
                                    \/ first /\ d[i].key = s[j].key})

\* The static record goes first.
StaticFirst(x, y, first) == y.key < x.key \/ (~first /\ y.key = x.key)

\* Each record has its place, in order, and no place is left over.
LEMMA PlacesAreApart ==
  ASSUME NEW d, NEW a, IsVector(d, a), InKeyOrder(d),
         NEW s, NEW b, IsVector(s, b), InKeyOrder(s), NEW first \in BOOLEAN
  PROVE  /\ \A i \in 0 .. a - 1 : DynamicPlace(d, s, first, i) \in 0 .. a + b - 1
         /\ \A j \in 0 .. b - 1 : StaticPlace(d, s, first, j) \in 0 .. a + b - 1
         /\ \A i, h \in 0 .. a - 1 :
              i < h => DynamicPlace(d, s, first, i) < DynamicPlace(d, s, first, h)
         /\ \A j, h \in 0 .. b - 1 :
              j < h => StaticPlace(d, s, first, j) < StaticPlace(d, s, first, h)
         /\ \A i \in 0 .. a - 1 : \A j \in 0 .. b - 1 :
              /\ StaticFirst(d[i], s[j], first) =>
                   StaticPlace(d, s, first, j) < DynamicPlace(d, s, first, i)
              /\ ~StaticFirst(d[i], s[j], first) =>
                   DynamicPlace(d, s, first, i) < StaticPlace(d, s, first, j)
<1> DEFINE D(i) == {j \in 0 .. b - 1 : StaticFirst(d[i], s[j], first)}
           S(j) == {i \in 0 .. a - 1 : ~StaticFirst(d[i], s[j], first)}
<1>0. a \in Nat /\ b \in Nat /\ DOMAIN d = 0 .. a - 1 /\ DOMAIN s = 0 .. b - 1
  BY DEF IsVector
<1>1. /\ \A i \in 0 .. a - 1 : d[i].key \in Int
      /\ \A j \in 0 .. b - 1 : s[j].key \in Int
      /\ \A i, h \in 0 .. a - 1 : i < h => d[i].key <= d[h].key
      /\ \A j, h \in 0 .. b - 1 : j < h => s[j].key <= s[h].key
  BY <1>0 DEF InKeyOrder
<1>2. ASSUME NEW i \in 0 .. a - 1
      PROVE  /\ DynamicPlace(d, s, first, i) = i + Cardinality(D(i))
             /\ Cardinality(D(i)) \in 0 .. b /\ D(i) = 0 .. Cardinality(D(i)) - 1
  <2>1. DynamicPlace(d, s, first, i) = i + Cardinality(D(i))
    BY <1>0 DEF DynamicPlace, StaticFirst
  <2>2. \A j \in D(i) : \A h \in 0 .. b - 1 : h < j => h \in D(i)
    BY <1>0, <1>1 DEF StaticFirst
  <2>3. D(i) \in SUBSET (0 .. b - 1)
    OBVIOUS
  <2> HIDE DEF D
  <2> QED
    BY <1>0, <2>1, <2>2, <2>3, PrefixIsCounted
<1>3. ASSUME NEW j \in 0 .. b - 1
      PROVE  /\ StaticPlace(d, s, first, j) = j + Cardinality(S(j))
             /\ Cardinality(S(j)) \in 0 .. a /\ S(j) = 0 .. Cardinality(S(j)) - 1
  <2>1. StaticPlace(d, s, first, j) = j + Cardinality(S(j))
    <3>1. \A i \in 0 .. a - 1 : ~StaticFirst(d[i], s[j], first) <=>
            d[i].key < s[j].key \/ (first /\ d[i].key = s[j].key)
      BY <1>1 DEF StaticFirst
    <3> QED
      BY <1>0, <3>1 DEF StaticPlace
  <2>2. \A i \in S(j) : \A h \in 0 .. a - 1 : h < i => h \in S(j)
    BY <1>0, <1>1 DEF StaticFirst
  <2>3. S(j) \in SUBSET (0 .. a - 1)
    OBVIOUS
  <2> HIDE DEF S
  <2> QED
    BY <1>0, <2>1, <2>2, <2>3, PrefixIsCounted
<1>4. ASSUME NEW i \in 0 .. a - 1, NEW h \in 0 .. a - 1, i < h
      PROVE  Cardinality(D(i)) <= Cardinality(D(h))
  <2>1. D(i) \subseteq D(h)
    BY <1>1, <1>4 DEF StaticFirst
  <2>2. IsFiniteSet(D(h))
    <3> HIDE DEF D
    <3> QED
      BY <1>2, FS_Interval
  <2> HIDE DEF D
  <2> QED
    BY <2>1, <2>2, FS_Subset
<1>5. ASSUME NEW j \in 0 .. b - 1, NEW h \in 0 .. b - 1, j < h
      PROVE  Cardinality(S(j)) <= Cardinality(S(h))
  <2>1. S(j) \subseteq S(h)
    BY <1>1, <1>5 DEF StaticFirst
  <2>2. IsFiniteSet(S(h))
    <3> HIDE DEF S
    <3> QED
      BY <1>3, FS_Interval
  <2> HIDE DEF S
  <2> QED
    BY <2>1, <2>2, FS_Subset
<1>6. ASSUME NEW i \in 0 .. a - 1, NEW j \in 0 .. b - 1
      PROVE  StaticFirst(d[i], s[j], first) <=> j \in D(i)
  BY <1>6
<1>7. ASSUME NEW i \in 0 .. a - 1, NEW j \in 0 .. b - 1
      PROVE  ~StaticFirst(d[i], s[j], first) <=> i \in S(j)
  BY <1>7
<1> HIDE DEF D, S
<1>8. \A i \in 0 .. a - 1 : DynamicPlace(d, s, first, i) \in 0 .. a + b - 1
  BY <1>0, <1>2
<1>9. \A j \in 0 .. b - 1 : StaticPlace(d, s, first, j) \in 0 .. a + b - 1
  BY <1>0, <1>3
<1>10. \A i, h \in 0 .. a - 1 :
         i < h => DynamicPlace(d, s, first, i) < DynamicPlace(d, s, first, h)
  BY <1>0, <1>2, <1>4
<1>11. \A j, h \in 0 .. b - 1 :
         j < h => StaticPlace(d, s, first, j) < StaticPlace(d, s, first, h)
  BY <1>0, <1>3, <1>5
<1>12. ASSUME NEW i \in 0 .. a - 1, NEW j \in 0 .. b - 1
       PROVE  /\ StaticFirst(d[i], s[j], first) =>
                   StaticPlace(d, s, first, j) < DynamicPlace(d, s, first, i)
              /\ ~StaticFirst(d[i], s[j], first) =>
                   DynamicPlace(d, s, first, i) < StaticPlace(d, s, first, j)
  <2> DEFINE x == Cardinality(D(i))
             y == Cardinality(S(j))
  <2>1. /\ StaticFirst(d[i], s[j], first) <=> j \in 0 .. x - 1
        /\ ~StaticFirst(d[i], s[j], first) <=> i \in 0 .. y - 1
    BY <1>2, <1>3, <1>6, <1>7
  <2>2. /\ DynamicPlace(d, s, first, i) = i + x /\ x \in 0 .. b
        /\ StaticPlace(d, s, first, j) = j + y /\ y \in 0 .. a
    BY <1>2, <1>3
  <2> HIDE DEF x, y
  <2> QED
    BY <1>0, <2>1, <2>2
<1> QED
  BY <1>8, <1>9, <1>10, <1>11, <1>12

\* As many places as indices.
LEMMA ImageIsCounted ==
  ASSUME NEW n \in Nat, NEW f, DOMAIN f = 0 .. n - 1,
         \A i, j \in 0 .. n - 1 : i < j => f[i] # f[j]
  PROVE  /\ IsFiniteSet({f[i] : i \in 0 .. n - 1})
         /\ Cardinality({f[i] : i \in 0 .. n - 1}) = n
<1> DEFINE I == 0 .. n - 1
           T == {f[i] : i \in I}
           g == [i \in I |-> f[i]]
<1>1. IsFiniteSet(I) /\ Cardinality(I) = n
  <2>1. Cardinality(I) = IF 0 > n - 1 THEN 0 ELSE n - 1 - 0 + 1
    BY FS_Interval
  <2> QED
    BY <2>1, FS_Interval
<1>2. g \in Surjection(I, T)
  BY DEF Surjection
<1>3. \A i, j \in I : g[i] = g[j] => i = j
  <2>1. \A i, j \in I : i < j \/ j < i \/ i = j
    OBVIOUS
  <2> QED
    BY <2>1
<1>4. g \in Injection(I, T)
  BY <1>3 DEF Injection, IsInjective
<1> HIDE DEF T, g, I
<1>5. IsFiniteSet(T) /\ Cardinality(T) = Cardinality(I)
  BY <1>1, <1>2, <1>4, FS_Surjection
<1> QED
  BY <1>1, <1>5 DEF T, I

LEMMA NoPlaceIsFree ==
  ASSUME NEW d, NEW a, IsVector(d, a), InKeyOrder(d),
         NEW s, NEW b, IsVector(s, b), InKeyOrder(s), NEW first \in BOOLEAN,
         NEW n \in 0 .. a + b - 1
  PROVE  \/ \E i \in 0 .. a - 1 : n = DynamicPlace(d, s, first, i)
         \/ \E j \in 0 .. b - 1 : n = StaticPlace(d, s, first, j)
<1> DEFINE f == [i \in 0 .. a - 1 |-> DynamicPlace(d, s, first, i)]
           g == [j \in 0 .. b - 1 |-> StaticPlace(d, s, first, j)]
           U == {f[i] : i \in 0 .. a - 1}
           V == {g[j] : j \in 0 .. b - 1}
<1>0. a \in Nat /\ b \in Nat
  BY DEF IsVector
<1>1. /\ \A i \in 0 .. a - 1 : f[i] \in 0 .. a + b - 1
      /\ \A j \in 0 .. b - 1 : g[j] \in 0 .. a + b - 1
      /\ \A i, h \in 0 .. a - 1 : i < h => f[i] < f[h]
      /\ \A j, h \in 0 .. b - 1 : j < h => g[j] < g[h]
      /\ \A i \in 0 .. a - 1 : \A j \in 0 .. b - 1 : f[i] < g[j] \/ g[j] < f[i]
  BY PlacesAreApart
<1>2. /\ DOMAIN f = 0 .. a - 1 /\ DOMAIN g = 0 .. b - 1
      /\ \A i \in 0 .. a - 1 : f[i] = DynamicPlace(d, s, first, i)
      /\ \A j \in 0 .. b - 1 : g[j] = StaticPlace(d, s, first, j)
  OBVIOUS
<1> HIDE DEF f, g
<1>3. \A i, h \in 0 .. a - 1 : i < h => f[i] # f[h]
  BY <1>0, <1>1
<1>4. \A j, h \in 0 .. b - 1 : j < h => g[j] # g[h]
  BY <1>0, <1>1
<1>5. IsFiniteSet(U) /\ Cardinality(U) = a
  BY <1>0, <1>2, <1>3, ImageIsCounted
<1>6. IsFiniteSet(V) /\ Cardinality(V) = b
  BY <1>0, <1>2, <1>4, ImageIsCounted
<1>7. U \cap V = {} /\ U \cup V \subseteq 0 .. a + b - 1
  BY <1>0, <1>1
<1>8. n \in U \cup V
  <2> HIDE DEF U, V
  <2>1. Cardinality(U \cap V) = 0
    BY <1>7, FS_EmptySet
  <2>2. IsFiniteSet(U \cup V) /\ Cardinality(U \cup V) = a + b
    BY <1>0, <1>5, <1>6, <2>1, FS_Union
  <2>3. /\ IsFiniteSet(0 .. a + b - 1)
        /\ Cardinality(0 .. a + b - 1) = IF 0 > a + b - 1 THEN 0 ELSE a + b - 1 - 0 + 1
    BY <1>0, FS_Interval
  <2>4. Cardinality(0 .. a + b - 1) = a + b
    BY <1>0, <2>3
  <2>5. U \cup V = 0 .. a + b - 1
    BY <1>7, <2>2, <2>3, <2>4, FS_Subset
  <2> QED
    BY <2>5
<1> QED
  BY <1>2, <1>8

\* The merge of two vectors in order is in order, and it has the records of
\* both, and no other.
LEMMA Interleaved ==
  ASSUME NEW d, NEW a, IsVector(d, a), InKeyOrder(d),
         NEW s, NEW b, IsVector(s, b), InKeyOrder(s), NEW first \in BOOLEAN
  PROVE  LET m == Interleave(d, s, first)
         IN  /\ IsVector(m, a + b)
             /\ \A i \in 0 .. a - 1 : m[DynamicPlace(d, s, first, i)] = d[i]
             /\ \A j \in 0 .. b - 1 : m[StaticPlace(d, s, first, j)] = s[j]
<1> DEFINE m == Interleave(d, s, first)
           Placed(n) == {d[i] : i \in {x \in DOMAIN d : DynamicPlace(d, s, first, x) = n}} \cup
                        {s[j] : j \in {x \in DOMAIN s : StaticPlace(d, s, first, x) = n}}
<1>0. a \in Nat /\ b \in Nat /\ DOMAIN d = 0 .. a - 1 /\ DOMAIN s = 0 .. b - 1
  BY DEF IsVector
<1>1. m = [n \in 0 .. a + b - 1 |-> CHOOSE r \in Placed(n) : TRUE]
  <2>1. Size(d) = a /\ Size(s) = b
    BY SizeIsLength
  <2> QED
    BY <2>1 DEF Interleave, DynamicPlace, StaticPlace
<1>2. /\ \A i \in 0 .. a - 1 : DynamicPlace(d, s, first, i) \in 0 .. a + b - 1
      /\ \A j \in 0 .. b - 1 : StaticPlace(d, s, first, j) \in 0 .. a + b - 1
      /\ \A i, h \in 0 .. a - 1 :
           i < h => DynamicPlace(d, s, first, i) < DynamicPlace(d, s, first, h)
      /\ \A j, h \in 0 .. b - 1 :
           j < h => StaticPlace(d, s, first, j) < StaticPlace(d, s, first, h)
      /\ \A i \in 0 .. a - 1 : \A j \in 0 .. b - 1 :
           \/ DynamicPlace(d, s, first, i) < StaticPlace(d, s, first, j)
           \/ StaticPlace(d, s, first, j) < DynamicPlace(d, s, first, i)
  BY PlacesAreApart
<1>3. ASSUME NEW i \in 0 .. a - 1
      PROVE  m[DynamicPlace(d, s, first, i)] = d[i]
  <2> DEFINE n == DynamicPlace(d, s, first, i)
  <2>1. \A h \in 0 .. a - 1 : DynamicPlace(d, s, first, h) = n => h = i
    <3>1. \A h \in 0 .. a - 1 : h < i \/ i < h \/ h = i
      BY <1>0
    <3> QED
      BY <1>0, <1>2, <3>1
  <2>2. ASSUME NEW j \in 0 .. b - 1 PROVE StaticPlace(d, s, first, j) # n
    <3>1. /\ n \in Int /\ StaticPlace(d, s, first, j) \in Int
          /\ n < StaticPlace(d, s, first, j) \/ StaticPlace(d, s, first, j) < n
      BY <1>2
    <3> QED
      BY <3>1
  <2>3. n \in 0 .. a + b - 1
    BY <1>2
  <2>4. Placed(n) = {d[i]}
    <3> HIDE DEF n
    <3>0. DynamicPlace(d, s, first, i) = n
      BY DEF n
    <3>1. {x \in DOMAIN d : DynamicPlace(d, s, first, x) = n} = {i}
      BY <1>0, <2>1, <3>0
    <3>2. {x \in DOMAIN s : StaticPlace(d, s, first, x) = n} = {}
      BY <1>0, <2>2
    <3> QED
      BY <3>1, <3>2
  <2> HIDE DEF n, Placed
  <2> QED
    BY <1>1, <2>3, <2>4 DEF n
<1>4. ASSUME NEW j \in 0 .. b - 1
      PROVE  m[StaticPlace(d, s, first, j)] = s[j]
  <2> DEFINE n == StaticPlace(d, s, first, j)
  <2>1. ASSUME NEW h \in 0 .. b - 1, StaticPlace(d, s, first, h) = n PROVE h = j
    <3>1. h < j \/ j < h \/ h = j
      BY <1>0
    <3>2. /\ h < j => StaticPlace(d, s, first, h) < n
          /\ j < h => n < StaticPlace(d, s, first, h)
          /\ n \in Int
      BY <1>2
    <3> HIDE DEF n
    <3> QED
      BY <2>1, <3>1, <3>2
  <2>2. ASSUME NEW i \in 0 .. a - 1 PROVE DynamicPlace(d, s, first, i) # n
    <3>1. /\ n \in Int /\ DynamicPlace(d, s, first, i) \in Int
          /\ n < DynamicPlace(d, s, first, i) \/ DynamicPlace(d, s, first, i) < n
      BY <1>2
    <3> QED
      BY <3>1
  <2>3. n \in 0 .. a + b - 1
    BY <1>2
  <2>4. Placed(n) = {s[j]}
    <3> HIDE DEF n
    <3>0. StaticPlace(d, s, first, j) = n
      BY DEF n
    <3>1. {x \in DOMAIN s : StaticPlace(d, s, first, x) = n} = {j}
      BY <1>0, <2>1, <3>0
    <3>2. {x \in DOMAIN d : DynamicPlace(d, s, first, x) = n} = {}
      BY <1>0, <2>2
    <3> QED
      BY <3>1, <3>2
  <2> HIDE DEF n, Placed
  <2> QED
    BY <1>1, <2>3, <2>4 DEF n
<1>5. IsVector(m, a + b)
  <2> HIDE DEF Placed
  <2> QED
    BY <1>0, <1>1 DEF IsVector
<1> QED
  BY <1>3, <1>4, <1>5

\* The merge is a vector, a function on its indices.
LEMMA InterleaveIsFunction ==
  ASSUME NEW d, NEW s, NEW first
  PROVE  Interleave(d, s, first) =
           [x \in DOMAIN Interleave(d, s, first) |-> Interleave(d, s, first)[x]]
<1> DEFINE Placed(n) ==
      {d[i] : i \in {x \in DOMAIN d : DynamicPlace(d, s, first, x) = n}} \cup
      {s[j] : j \in {x \in DOMAIN s : StaticPlace(d, s, first, x) = n}}
<1>1. Interleave(d, s, first) =
        [n \in 0 .. Size(d) + Size(s) - 1 |-> CHOOSE r \in Placed(n) : TRUE]
  BY DEF Interleave, DynamicPlace, StaticPlace
<1> HIDE DEF Placed
<1> QED
  BY <1>1

\* The merge is in order.
LEMMA InterleavedInOrder ==
  ASSUME NEW d, NEW a, IsVector(d, a), InKeyOrder(d),
         NEW s, NEW b, IsVector(s, b), InKeyOrder(s), NEW first \in BOOLEAN
  PROVE  /\ InKeyOrder(Interleave(d, s, first))
         /\ (\A i \in 0 .. a - 1 : \A j \in 0 .. b - 1 : d[i].key # s[j].key) /\
            (\A i, j \in 0 .. a - 1 : i < j => d[i].key < d[j].key) /\
            (\A i, j \in 0 .. b - 1 : i < j => s[i].key < s[j].key) =>
              \A x, y \in 0 .. a + b - 1 : x < y =>
                Interleave(d, s, first)[x].key < Interleave(d, s, first)[y].key
<1> DEFINE m == Interleave(d, s, first)
           DP(i) == DynamicPlace(d, s, first, i)
           SP(j) == StaticPlace(d, s, first, j)
           strict == /\ \A i \in 0 .. a - 1 : \A j \in 0 .. b - 1 : d[i].key # s[j].key
                     /\ \A i, j \in 0 .. a - 1 : i < j => d[i].key < d[j].key
                     /\ \A i, j \in 0 .. b - 1 : i < j => s[i].key < s[j].key
<1>0. a \in Nat /\ b \in Nat /\ DOMAIN d = 0 .. a - 1 /\ DOMAIN s = 0 .. b - 1
  BY DEF IsVector
<1>1. /\ \A i \in 0 .. a - 1 : d[i].key \in Int
      /\ \A j \in 0 .. b - 1 : s[j].key \in Int
      /\ \A i, h \in 0 .. a - 1 : i < h => d[i].key <= d[h].key
      /\ \A j, h \in 0 .. b - 1 : j < h => s[j].key <= s[h].key
  BY <1>0 DEF InKeyOrder
<1>2. /\ DOMAIN m = 0 .. a + b - 1
      /\ \A i \in 0 .. a - 1 : m[DP(i)] = d[i]
      /\ \A j \in 0 .. b - 1 : m[SP(j)] = s[j]
  <2>1. LET z == Interleave(d, s, first)
        IN  /\ IsVector(z, a + b)
            /\ \A i \in 0 .. a - 1 : z[DynamicPlace(d, s, first, i)] = d[i]
            /\ \A j \in 0 .. b - 1 : z[StaticPlace(d, s, first, j)] = s[j]
    BY Interleaved
  <2> QED
    BY <2>1 DEF IsVector
<1>3. /\ \A i \in 0 .. a - 1 : DP(i) \in 0 .. a + b - 1
      /\ \A j \in 0 .. b - 1 : SP(j) \in 0 .. a + b - 1
      /\ \A i, h \in 0 .. a - 1 : i < h => DP(i) < DP(h)
      /\ \A j, h \in 0 .. b - 1 : j < h => SP(j) < SP(h)
      /\ \A i \in 0 .. a - 1 : \A j \in 0 .. b - 1 :
           /\ StaticFirst(d[i], s[j], first) => SP(j) < DP(i)
           /\ ~StaticFirst(d[i], s[j], first) => DP(i) < SP(j)
  BY PlacesAreApart
<1>4. ASSUME NEW x \in 0 .. a + b - 1
      PROVE  \/ \E i \in 0 .. a - 1 : x = DP(i)
             \/ \E j \in 0 .. b - 1 : x = SP(j)
  BY NoPlaceIsFree
<1> HIDE DEF m, DP, SP
<1>5. \A x \in 0 .. a + b - 1 : m[x].key \in Int
  BY <1>1, <1>2, <1>4
<1>6. ASSUME NEW x \in 0 .. a + b - 1, NEW y \in 0 .. a + b - 1, x < y
      PROVE  m[x].key <= m[y].key /\ (strict => m[x].key < m[y].key)
  <2>1. CASE \E i \in 0 .. a - 1 : x = DP(i)
    <3>1. PICK i \in 0 .. a - 1 : x = DP(i)
      BY <2>1
    <3>2. CASE \E h \in 0 .. a - 1 : y = DP(h)
      <4>1. PICK h \in 0 .. a - 1 : y = DP(h)
        BY <3>2
      <4>2. i < h
        <5>1. i < h \/ h < i \/ i = h
          OBVIOUS
        <5> QED
          BY <1>0, <1>3, <1>6, <3>1, <4>1, <5>1
      <4>3. d[i].key <= d[h].key /\ (strict => d[i].key < d[h].key)
        BY <1>1, <4>2
      <4> QED
        BY <1>2, <3>1, <4>1, <4>3
    <3>3. CASE \E j \in 0 .. b - 1 : y = SP(j)
      <4>1. PICK j \in 0 .. b - 1 : y = SP(j)
        BY <3>3
      <4>2. ~StaticFirst(d[i], s[j], first)
        BY <1>0, <1>3, <1>6, <3>1, <4>1
      <4>3. d[i].key <= s[j].key /\ (strict => d[i].key < s[j].key)
        BY <1>1, <4>2 DEF StaticFirst
      <4> QED
        BY <1>2, <3>1, <4>1, <4>3
    <3> QED
      BY <1>4, <3>2, <3>3
  <2>2. CASE \E j \in 0 .. b - 1 : x = SP(j)
    <3>1. PICK j \in 0 .. b - 1 : x = SP(j)
      BY <2>2
    <3>2. CASE \E i \in 0 .. a - 1 : y = DP(i)
      <4>1. PICK i \in 0 .. a - 1 : y = DP(i)
        BY <3>2
      <4>2. StaticFirst(d[i], s[j], first)
        BY <1>0, <1>3, <1>6, <3>1, <4>1
      <4>3. s[j].key <= d[i].key /\ (strict => s[j].key < d[i].key)
        BY <1>1, <4>2 DEF StaticFirst
      <4> QED
        BY <1>2, <3>1, <4>1, <4>3
    <3>3. CASE \E h \in 0 .. b - 1 : y = SP(h)
      <4>1. PICK h \in 0 .. b - 1 : y = SP(h)
        BY <3>3
      <4>2. j < h
        <5>1. j < h \/ h < j \/ j = h
          OBVIOUS
        <5> QED
          BY <1>0, <1>3, <1>6, <3>1, <4>1, <5>1
      <4>3. s[j].key <= s[h].key /\ (strict => s[j].key < s[h].key)
        BY <1>1, <4>2
      <4> QED
        BY <1>2, <3>1, <4>1, <4>3
    <3> QED
      BY <1>4, <3>2, <3>3
  <2> QED
    BY <1>4, <2>1, <2>2
<1>7. InKeyOrder(m)
  BY <1>2, <1>5, <1>6 DEF InKeyOrder
<1>8. strict => \A x, y \in 0 .. a + b - 1 : x < y => m[x].key < m[y].key
  BY <1>6
<1> QED
  BY <1>7, <1>8 DEF m

-----------------------------------------------------------------------------
(* What a model may answer.                                                 *)

LEMMA MaxOfTwo ==
  ASSUME NEW a \in Int, NEW b \in Int
  PROVE  Max({a, b}) = IF a <= b THEN b ELSE a
<1>1. {a, b} \in SUBSET Int
  OBVIOUS
<1>2. CASE a <= b
  <2>1. b \in {a, b} /\ \A x \in {a, b} : x <= b
    BY <1>2
  <2>2. Max({a, b}) = b
    BY <1>1, <2>1, MaxIsGreatest
  <2> QED
    BY <1>2, <2>2
<1>3. CASE ~(a <= b)
  <2>1. a \in {a, b} /\ \A x \in {a, b} : x <= a
    BY <1>3
  <2>2. Max({a, b}) = a
    BY <1>1, <2>1, MaxIsGreatest
  <2> QED
    BY <1>3, <2>2
<1> QED
  BY <1>2, <1>3

LEMMA MinOfTwo ==
  ASSUME NEW a \in Int, NEW b \in Int
  PROVE  Min({a, b}) = IF a <= b THEN a ELSE b
<1>1. {a, b} \in SUBSET Int
  OBVIOUS
<1>2. CASE a <= b
  <2>1. a \in {a, b} /\ \A x \in {a, b} : a <= x
    BY <1>2
  <2>2. Min({a, b}) = a
    BY <1>1, <2>1, MinIsLeast
  <2> QED
    BY <1>2, <2>2
<1>3. CASE ~(a <= b)
  <2>1. b \in {a, b} /\ \A x \in {a, b} : b <= x
    BY <1>3
  <2>2. Min({a, b}) = b
    BY <1>1, <2>1, MinIsLeast
  <2> QED
    BY <1>3, <2>2
<1> QED
  BY <1>2, <1>3

\* A range lies within the records the model was trained on, and the first record
\* of the key is in it: a prediction is off by at most Error from that one.  Only
\* the key of the last record must not be there twice.
LEMMA RangeHoldsTheFirst ==
  ASSUME NEW keys, NEW n, IsVector(keys, n), n > 0,
         \A i \in 0 .. n - 1 : keys[i] \in Int,
         \A i, j \in 0 .. n - 1 : i < j => keys[i] <= keys[j],
         NEW key \in Int, NEW range \in SearchBound(keys, key)
  PROVE  /\ range.begin \in Nat /\ range.end \in Nat
         /\ range.begin < range.end /\ range.end <= n
         /\ \A i \in 0 .. n - 1 :
              keys[i] = key /\ (\A j \in 0 .. n - 1 : j < i => keys[j] < key) /\
              (key < keys[n - 1] \/ i = n - 1) =>
                range.begin <= i /\ i < range.end
<1> DEFINE below == {i \in 0 .. n - 1 : keys[i] < key}
           rank == Cardinality(below)
           predictions == (rank - Error .. rank + Error) \cap (0 .. n - 1 + 1)
           First(i) == keys[i] = key /\ \A j \in 0 .. n - 1 : j < i => keys[j] < key
<1>0. n \in Nat /\ DOMAIN keys = 0 .. n - 1 /\ Size(keys) = n /\ Error \in Nat
  BY SizeIsLength, ErrorAssumption DEF IsVector
<1>1. /\ key <= keys[0] => range = [begin |-> 0, end |-> 1]
      /\ ~(key <= keys[0]) /\ key >= keys[n - 1] => range = [begin |-> n - 1, end |-> n - 1 + 1]
      /\ ~(key <= keys[0]) /\ ~(key >= keys[n - 1]) =>
           \E pred \in predictions :
             range = [begin |-> Max({0, pred - Error}), end |-> Min({n - 1, pred + Error}) + 1]
  BY <1>0 DEF SearchBound
<1>2. rank \in 0 .. n /\ below = 0 .. rank - 1
  <2>1. below \in SUBSET (0 .. n - 1)
    OBVIOUS
  <2>2. ASSUME NEW i \in below, NEW j \in 0 .. n - 1, j < i PROVE j \in below
    <3>1. keys[j] <= keys[i] /\ keys[i] < key /\ keys[i] \in Int /\ keys[j] \in Int
      BY <2>2
    <3> QED
      BY <3>1
  <2> HIDE DEF below
  <2> QED
    BY <1>0, <2>1, <2>2, PrefixIsCounted
<1>3. ASSUME NEW i \in 0 .. n - 1, First(i) PROVE rank = i
  <2>1. i \notin below
    BY <1>3
  <2>2. \A j \in 0 .. n - 1 : j < i => j \in below
    BY <1>3
  <2> HIDE DEF below
  <2>3. ~(i < rank)
    BY <1>0, <1>2, <2>1
  <2>4. ~(rank < i)
    BY <1>0, <1>2, <2>2
  <2> QED
    BY <1>0, <1>2, <2>3, <2>4
<1>4. CASE key <= keys[0]
  <2>1. ASSUME NEW i \in 0 .. n - 1, First(i) PROVE i = 0
    <3>1. 0 \in 0 .. n - 1 /\ keys[0] \in Int
      BY <1>0
    <3>2. ~(0 < i)
      BY <1>4, <2>1, <3>1
    <3> QED
      BY <3>2
  <2> QED
    BY <1>0, <1>1, <1>4, <2>1
<1>5. CASE ~(key <= keys[0]) /\ key >= keys[n - 1]
  <2>1. keys[n - 1] \in Int
    BY <1>0
  <2>2. ~(key < keys[n - 1])
    BY <1>5, <2>1
  <2> QED
    BY <1>0, <1>1, <1>5, <2>2
<1>6. CASE ~(key <= keys[0]) /\ ~(key >= keys[n - 1])
  <2>1. rank \in 0 .. n - 1
    <3>1. n - 1 \notin below
      BY <1>0, <1>6
    <3> HIDE DEF below
    <3>2. rank # n
      BY <1>0, <1>2, <3>1
    <3> QED
      BY <1>0, <1>2, <3>2
  <2>2. PICK pred \in predictions :
          range = [begin |-> Max({0, pred - Error}), end |-> Min({n - 1, pred + Error}) + 1]
    BY <1>1, <1>6
  <2>3. /\ pred \in Int /\ rank - Error <= pred /\ pred <= rank + Error
    <3> HIDE DEF rank
    <3> QED
      BY <1>0, <2>1
  <2>4. /\ Max({0, pred - Error}) = IF 0 <= pred - Error THEN pred - Error ELSE 0
        /\ Min({n - 1, pred + Error}) = IF n - 1 <= pred + Error THEN n - 1 ELSE pred + Error
    <3>1. pred - Error \in Int /\ pred + Error \in Int /\ n - 1 \in Int /\ 0 \in Int
      BY <1>0, <2>3
    <3> QED
      BY <3>1, MaxOfTwo, MinOfTwo
  <2>5. /\ range.begin = Max({0, pred - Error})
        /\ range.end = Min({n - 1, pred + Error}) + 1
    BY <2>2
  <2>6. /\ range.begin \in Nat /\ range.begin <= rank
        /\ range.end \in Nat /\ rank < range.end /\ range.end <= n
    <3> HIDE DEF rank
    <3> QED
      BY <1>0, <2>1, <2>3, <2>4, <2>5
  <2> HIDE DEF rank
  <2> QED
    BY <1>3, <2>1, <2>6
<1> QED
  BY <1>4, <1>5, <1>6

\* If no key was there twice, the record of any of them is in its range.
LEMMA RangeHoldsTheKey ==
  ASSUME NEW keys, NEW n, IsVector(keys, n), n > 0,
         \A i \in 0 .. n - 1 : keys[i] \in Int,
         \A i, j \in 0 .. n - 1 : i < j => keys[i] <= keys[j],
         NEW key \in Int, NEW range \in SearchBound(keys, key)
  PROVE  /\ range.begin \in Nat /\ range.end \in Nat
         /\ range.begin < range.end /\ range.end <= n
         /\ (\A i, j \in 0 .. n - 1 : i < j => keys[i] < keys[j]) =>
              \A i \in 0 .. n - 1 : keys[i] = key => range.begin <= i /\ i < range.end
<1>1. n \in Nat
  BY DEF IsVector
<1>2. ASSUME \A i, j \in 0 .. n - 1 : i < j => keys[i] < keys[j],
             NEW i \in 0 .. n - 1, keys[i] = key
      PROVE  /\ \A j \in 0 .. n - 1 : j < i => keys[j] < key
             /\ key < keys[n - 1] \/ i = n - 1
  <2>1. n - 1 \in 0 .. n - 1 /\ (i < n - 1 \/ i = n - 1)
    BY <1>1
  <2> QED
    BY <1>2, <2>1
<1> QED
  BY <1>2, RangeHoldsTheFirst

\* A model answers some range: the rank itself is a prediction.
LEMMA SomeRange ==
  ASSUME NEW keys, NEW n, IsVector(keys, n), NEW key
  PROVE  \E range : range \in SearchBound(keys, key)
<1> DEFINE below == {i \in 0 .. n - 1 : keys[i] < key}
           rank == Cardinality(below)
           predictions == (rank - Error .. rank + Error) \cap (0 .. n - 1 + 1)
           maxY == n - 1
<1>1. n \in Nat /\ DOMAIN keys = 0 .. n - 1 /\ Size(keys) = n /\ Error \in Nat
  BY SizeIsLength, ErrorAssumption DEF IsVector
<1>2. rank \in 0 .. n
  <2>1. IsFiniteSet(0 .. n - 1) /\ Cardinality(0 .. n - 1) = n
    <3>1. n - 1 \in Int /\ 0 \in Int
      BY <1>1
    <3>2. Cardinality(0 .. n - 1) = IF 0 > n - 1 THEN 0 ELSE n - 1 - 0 + 1
      BY <3>1, FS_Interval
    <3> QED
      BY <1>1, <3>1, <3>2, FS_Interval
  <2>2. below \subseteq 0 .. n - 1
    OBVIOUS
  <2> HIDE DEF below
  <2>3. IsFiniteSet(below) /\ Cardinality(below) <= Cardinality(0 .. n - 1)
    BY <2>1, <2>2, FS_Subset
  <2>4. Cardinality(below) \in Nat
    BY <2>3, FS_CardinalityType
  <2> QED
    BY <1>1, <2>1, <2>3, <2>4
<1>3. rank \in predictions
  <2> HIDE DEF rank
  <2> QED
    BY <1>1, <1>2
<1>4. SearchBound(keys, key) =
        IF key <= keys[0] THEN {[begin |-> 0, end |-> 1]}
        ELSE IF key >= keys[maxY] THEN {[begin |-> maxY, end |-> maxY + 1]}
        ELSE {[begin |-> Max({0, pred - Error}), end |-> Min({maxY, pred + Error}) + 1]
                : pred \in predictions}
  BY <1>1 DEF SearchBound
<1> HIDE DEF predictions, rank, maxY
<1> QED
  BY <1>3, <1>4

\* The search ends at the first record of the key, if there is one.
LEMMA LowerBoundIsFirst ==
  ASSUME NEW data, NEW n \in Nat, \A i \in 0 .. n - 1 : data[i].key \in Int,
         \A i, j \in 0 .. n - 1 : i < j => data[i].key <= data[j].key,
         NEW i \in 0 .. n - 1, \A j \in 0 .. n - 1 : j < i => data[j].key < data[i].key
  PROVE  LowerBound(data, n, data[i].key) = i
<1> DEFINE S == {j \in 0 .. n - 1 : data[j].key >= data[i].key}
<1>1. data[i].key \in Int /\ n - 1 \in 0 .. n - 1
  OBVIOUS
<1>2. ~(data[n - 1].key < data[i].key)
  <2>1. i = n - 1 \/ i < n - 1
    OBVIOUS
  <2>2. i < n - 1 => data[i].key <= data[n - 1].key
    BY <1>1
  <2>3. data[n - 1].key \in Int
    BY <1>1
  <2> QED
    BY <1>1, <2>1, <2>2, <2>3
<1>3. S \in SUBSET Int /\ i \in S
  BY <1>1
<1>4. \A j \in S : i <= j
  <2> SUFFICES ASSUME NEW j \in S PROVE i <= j
    OBVIOUS
  <2>1. j \in 0 .. n - 1 /\ ~(data[j].key < data[i].key)
    BY <1>1
  <2> QED
    BY <2>1
<1> HIDE DEF S
<1>5. Min(S) = i
  BY <1>3, <1>4, MinIsLeast
<1> QED
  BY <1>2, <1>5 DEF LowerBound, S

-----------------------------------------------------------------------------
(* A set of keys in order.                                                  *)

\* Of n keys the ranks are 0 to n - 1, each of them once.
LEMMA RanksAreAll ==
  ASSUME NEW keys \in SUBSET Int, IsFiniteSet(keys)
  PROVE  /\ Cardinality(keys) \in Nat
         /\ \A k \in keys : Cardinality({x \in keys : x < k}) \in 0 .. Cardinality(keys) - 1
         /\ \A k, l \in keys : k < l =>
              Cardinality({x \in keys : x < k}) < Cardinality({x \in keys : x < l})
         /\ \A i \in 0 .. Cardinality(keys) - 1 :
              \E k \in keys : Cardinality({x \in keys : x < k}) = i
<1> DEFINE n == Cardinality(keys)
           below(k) == {x \in keys : x < k}
           f == [k \in keys |-> Cardinality(below(k))]
           T == {f[k] : k \in keys}
<1>1. n \in Nat
  BY FS_CardinalityType
<1>2. ASSUME NEW k \in keys
      PROVE  /\ IsFiniteSet(below(k)) /\ f[k] = Cardinality(below(k))
             /\ f[k] \in Nat
  <2>1. below(k) \in SUBSET keys /\ f[k] = Cardinality(below(k))
    OBVIOUS
  <2> HIDE DEF below, f
  <2> QED
    BY <2>1, FS_Subset, FS_CardinalityType
<1>3. ASSUME NEW k \in keys PROVE f[k] < n
  <2>1. below(k) \in SUBSET (keys \ {k})
    OBVIOUS
  <2>2. IsFiniteSet(keys \ {k}) /\ Cardinality(keys \ {k}) = n - 1
    BY FS_RemoveElement
  <2> HIDE DEF below, f, n
  <2>3. Cardinality(below(k)) <= n - 1
    BY <2>1, <2>2, FS_Subset
  <2> QED
    BY <1>1, <1>2, <2>3
<1>4. ASSUME NEW k \in keys, NEW l \in keys, k < l PROVE f[k] < f[l]
  <2>1. /\ k \notin below(k) /\ below(k) \cup {k} \subseteq below(l)
    <3>1. k \in Int /\ l \in Int /\ k \in below(l) /\ k \notin below(k)
      BY <1>4
    <3>2. \A x \in keys : x \in Int /\ (x < k => x < l)
      BY <1>4, <3>1
    <3> QED
      BY <3>1, <3>2
  <2> HIDE DEF below, f
  <2>2. IsFiniteSet(below(k) \cup {k}) /\ Cardinality(below(k) \cup {k}) = f[k] + 1
    BY <1>2, <2>1, FS_AddElement
  <2>3. Cardinality(below(k) \cup {k}) <= Cardinality(below(l))
    BY <1>2, <2>1, FS_Subset
  <2> QED
    BY <1>2, <2>2, <2>3
<1>5. f \in Surjection(keys, T)
  BY DEF Surjection
<1>6. f \in Injection(keys, T)
  <2>1. \A k, l \in keys : k < l \/ l < k \/ k = l
    OBVIOUS
  <2>2. ASSUME NEW k \in keys, NEW l \in keys, f[k] = f[l] PROVE k = l
    <3>1. k < l \/ l < k \/ k = l
      BY <2>1
    <3>2. /\ f[k] \in Nat
          /\ k < l => f[k] < f[l]
          /\ l < k => f[l] < f[k]
      BY <1>2, <1>4
    <3> HIDE DEF f
    <3> QED
      BY <2>2, <3>1, <3>2
  <2> QED
    BY <2>2 DEF Injection, IsInjective
<1>7. T \subseteq 0 .. n - 1
  <2>1. ASSUME NEW k \in keys PROVE f[k] \in 0 .. n - 1
    <3>1. f[k] \in Nat /\ f[k] < n
      BY <1>2, <1>3
    <3> HIDE DEF f, n
    <3> QED
      BY <1>1, <3>1
  <2> HIDE DEF f, n
  <2> QED
    BY <2>1
<1> HIDE DEF T, f
<1>8. IsFiniteSet(T) /\ Cardinality(T) = n
  BY <1>5, <1>6, FS_Surjection
<1>9. T = 0 .. n - 1
  <2>1. /\ IsFiniteSet(0 .. n - 1)
        /\ Cardinality(0 .. n - 1) = IF 0 > n - 1 THEN 0 ELSE n - 1 - 0 + 1
    BY <1>1, FS_Interval
  <2> HIDE DEF n
  <2>2. Cardinality(0 .. n - 1) = n
    BY <1>1, <2>1
  <2> QED
    BY <1>7, <1>8, <2>1, <2>2, FS_Subset
<1>10. \A i \in 0 .. n - 1 : \E k \in keys : f[k] = i
  BY <1>9 DEF T
<1> HIDE DEF n
<1>11. ASSUME NEW k \in keys PROVE f[k] \in 0 .. n - 1
  BY <1>7 DEF T
<1> QED
  BY <1>1, <1>2, <1>4, <1>10, <1>11 DEF n, below

\* A vector in order that has the records of two vectors, and no other; if no key
\* was there twice, it is there once.
IsMerge(m, d, a, s, b) ==
  /\ IsVector(m, a + b) /\ InKeyOrder(m)
  /\ \A x \in 0 .. a + b - 1 :
       (\E i \in 0 .. a - 1 : m[x] = d[i]) \/ (\E j \in 0 .. b - 1 : m[x] = s[j])
  /\ \A i \in 0 .. a - 1 : \E x \in 0 .. a + b - 1 : m[x] = d[i]
  /\ \A j \in 0 .. b - 1 : \E x \in 0 .. a + b - 1 : m[x] = s[j]
  /\ (\A i \in 0 .. a - 1 : \A j \in 0 .. b - 1 : d[i].key # s[j].key) /\
     (\A i, j \in 0 .. a - 1 : i < j => d[i].key < d[j].key) /\
     (\A i, j \in 0 .. b - 1 : i < j => s[i].key < s[j].key) =>
       \A x, y \in 0 .. a + b - 1 : x < y => m[x].key < m[y].key

\* The records of the merge are those of the two vectors.
LEMMA InterleaveMerges ==
  ASSUME NEW d, NEW a, IsVector(d, a), InKeyOrder(d),
         NEW s, NEW b, IsVector(s, b), InKeyOrder(s), NEW first \in BOOLEAN
  PROVE  IsMerge(Interleave(d, s, first), d, a, s, b)
<1> DEFINE m == Interleave(d, s, first)
<1>1. LET z == Interleave(d, s, first)
      IN  /\ IsVector(z, a + b)
          /\ \A i \in 0 .. a - 1 : z[DynamicPlace(d, s, first, i)] = d[i]
          /\ \A j \in 0 .. b - 1 : z[StaticPlace(d, s, first, j)] = s[j]
  BY Interleaved
<1>2. /\ IsVector(m, a + b)
      /\ \A i \in 0 .. a - 1 : m[DynamicPlace(d, s, first, i)] = d[i]
      /\ \A j \in 0 .. b - 1 : m[StaticPlace(d, s, first, j)] = s[j]
  BY <1>1
<1>3. /\ \A i \in 0 .. a - 1 : DynamicPlace(d, s, first, i) \in 0 .. a + b - 1
      /\ \A j \in 0 .. b - 1 : StaticPlace(d, s, first, j) \in 0 .. a + b - 1
  BY PlacesAreApart
<1>4. ASSUME NEW x \in 0 .. a + b - 1
      PROVE  \/ \E i \in 0 .. a - 1 : x = DynamicPlace(d, s, first, i)
             \/ \E j \in 0 .. b - 1 : x = StaticPlace(d, s, first, j)
  BY NoPlaceIsFree
<1>5. /\ InKeyOrder(Interleave(d, s, first))
      /\ (\A i \in 0 .. a - 1 : \A j \in 0 .. b - 1 : d[i].key # s[j].key) /\
         (\A i, j \in 0 .. a - 1 : i < j => d[i].key < d[j].key) /\
         (\A i, j \in 0 .. b - 1 : i < j => s[i].key < s[j].key) =>
           \A x, y \in 0 .. a + b - 1 : x < y =>
             Interleave(d, s, first)[x].key < Interleave(d, s, first)[y].key
  BY InterleavedInOrder
<1>6. m = Interleave(d, s, first)
  OBVIOUS
<1> HIDE DEF m
<1>7. /\ \A x \in 0 .. a + b - 1 :
           (\E i \in 0 .. a - 1 : m[x] = d[i]) \/ (\E j \in 0 .. b - 1 : m[x] = s[j])
      /\ \A i \in 0 .. a - 1 : \E x \in 0 .. a + b - 1 : m[x] = d[i]
      /\ \A j \in 0 .. b - 1 : \E x \in 0 .. a + b - 1 : m[x] = s[j]
  BY <1>2, <1>3, <1>4
<1> QED
  BY <1>2, <1>5, <1>6, <1>7 DEF IsMerge

\* Where the records of two vectors go, of equal keys that of the dynamic one first.
ArePlaces(D, S, m, d, a, s, b) ==
  /\ D \in [0 .. a - 1 -> 0 .. a + b - 1] /\ S \in [0 .. b - 1 -> 0 .. a + b - 1]
  /\ \A i \in 0 .. a - 1 : m[D[i]] = d[i]
  /\ \A j \in 0 .. b - 1 : m[S[j]] = s[j]
  /\ \A x \in 0 .. a + b - 1 :
       (\E i \in 0 .. a - 1 : x = D[i]) \/ (\E j \in 0 .. b - 1 : x = S[j])
  /\ \A i, h \in 0 .. a - 1 : i < h => D[i] < D[h]
  /\ \A j, h \in 0 .. b - 1 : j < h => S[j] < S[h]
  /\ \A i \in 0 .. a - 1 : \A j \in 0 .. b - 1 :
       d[i].key <= s[j].key <=> D[i] < S[j]

LEMMA InterleavePlaces ==
  ASSUME NEW d, NEW a, IsVector(d, a), InKeyOrder(d),
         NEW s, NEW b, IsVector(s, b), InKeyOrder(s)
  PROVE  \E D, S : ArePlaces(D, S, Interleave(d, s, TRUE), d, a, s, b)
<1>1. PICK yes \in BOOLEAN : yes = TRUE
  OBVIOUS
<1> DEFINE m == Interleave(d, s, yes)
           D == [i \in 0 .. a - 1 |-> DynamicPlace(d, s, yes, i)]
           S == [j \in 0 .. b - 1 |-> StaticPlace(d, s, yes, j)]
<1>2. LET z == Interleave(d, s, yes)
      IN  /\ IsVector(z, a + b)
          /\ \A i \in 0 .. a - 1 : z[DynamicPlace(d, s, yes, i)] = d[i]
          /\ \A j \in 0 .. b - 1 : z[StaticPlace(d, s, yes, j)] = s[j]
  BY Interleaved
<1>3. /\ \A i \in 0 .. a - 1 : D[i] = DynamicPlace(d, s, yes, i)
      /\ \A j \in 0 .. b - 1 : S[j] = StaticPlace(d, s, yes, j)
      /\ DOMAIN D = 0 .. a - 1 /\ D = [i \in 0 .. a - 1 |-> D[i]]
      /\ DOMAIN S = 0 .. b - 1 /\ S = [j \in 0 .. b - 1 |-> S[j]]
  OBVIOUS
<1>4. /\ \A i \in 0 .. a - 1 : m[D[i]] = d[i]
      /\ \A j \in 0 .. b - 1 : m[S[j]] = s[j]
  BY <1>2
<1> HIDE DEF m, D, S
<1>5. /\ \A i \in 0 .. a - 1 : D[i] \in 0 .. a + b - 1
      /\ \A j \in 0 .. b - 1 : S[j] \in 0 .. a + b - 1
      /\ \A i, h \in 0 .. a - 1 : i < h => D[i] < D[h]
      /\ \A j, h \in 0 .. b - 1 : j < h => S[j] < S[h]
      /\ \A i \in 0 .. a - 1 : \A j \in 0 .. b - 1 :
           /\ StaticFirst(d[i], s[j], yes) => S[j] < D[i]
           /\ ~StaticFirst(d[i], s[j], yes) => D[i] < S[j]
  BY <1>3, PlacesAreApart
<1>6. ASSUME NEW x \in 0 .. a + b - 1
      PROVE  (\E i \in 0 .. a - 1 : x = D[i]) \/ (\E j \in 0 .. b - 1 : x = S[j])
  <2>1. \/ \E i \in 0 .. a - 1 : x = DynamicPlace(d, s, yes, i)
        \/ \E j \in 0 .. b - 1 : x = StaticPlace(d, s, yes, j)
    BY NoPlaceIsFree
  <2> QED
    BY <1>3, <2>1
<1>7. ASSUME NEW i \in 0 .. a - 1, NEW j \in 0 .. b - 1
      PROVE  d[i].key <= s[j].key <=> D[i] < S[j]
  <2>1. d[i].key \in Int /\ s[j].key \in Int
    BY DEF InKeyOrder, IsVector
  <2>2. StaticFirst(d[i], s[j], yes) <=> ~(d[i].key <= s[j].key)
    BY <1>1, <2>1 DEF StaticFirst
  <2>3. D[i] \in Int /\ S[j] \in Int
    <3>1. a \in Nat /\ b \in Nat
      BY DEF IsVector
    <3>2. D[i] \in 0 .. a + b - 1 /\ S[j] \in 0 .. a + b - 1
      BY <1>5
    <3> QED
      BY <3>1, <3>2
  <2>4. /\ StaticFirst(d[i], s[j], yes) => S[j] < D[i]
        /\ ~StaticFirst(d[i], s[j], yes) => D[i] < S[j]
    BY <1>5
  <2> QED
    BY <2>2, <2>3, <2>4
<1>8. D \in [0 .. a - 1 -> 0 .. a + b - 1] /\ S \in [0 .. b - 1 -> 0 .. a + b - 1]
  BY <1>3, <1>5
<1>9. ArePlaces(D, S, m, d, a, s, b)
  BY <1>4, <1>5, <1>6, <1>7, <1>8 DEF ArePlaces
<1> QED
  BY <1>1, <1>9 DEF m

\* A page is transferred whole, and no other.
LEMMA OthersStay ==
  ASSUME NEW file, NEW data, NEW pages \in Nat, NEW start \in Nat, NEW slot \in Int,
         slot < start * RecordPerPage \/ slot >= (start + pages) * RecordPerPage
  PROVE  At(DirectIOWrite(file, data, pages, start), slot) = At(file, slot)
<1> DEFINE from == start * RecordPerPage
           written == from .. from + pages * RecordPerPage - 1
           g == DirectIOWrite(file, data, pages, start)
<1>1. g = [x \in DOMAIN file \cup written |->
             IF x \in written THEN At(data, x - from) ELSE file[x]]
  BY DEF DirectIOWrite
<1>2. slot \notin written
  <2>1. from \in Nat /\ pages * RecordPerPage \in Nat
        /\ (start + pages) * RecordPerPage = from + pages * RecordPerPage
    BY RecordPerPageAssumption
  <2> QED
    BY <2>1
<1> HIDE DEF written, g
<1>3. slot \in DOMAIN g <=> slot \in DOMAIN file
  BY <1>1, <1>2
<1>4. slot \in DOMAIN file => g[slot] = file[slot]
  BY <1>1, <1>2
<1> QED
  BY <1>3, <1>4 DEF At, g

\* The pages of some records are those up to the page of the last one.
LEMMA PagesAre ==
  ASSUME NEW n \in Nat \ {0}
  PROVE  PagesFor(n) = (n - 1) \div RecordPerPage + 1
<1> DEFINE q == (n - 1) \div RecordPerPage
<1>0. RecordPerPage \in Nat \ {0} /\ n - 1 \in Nat /\ n + RecordPerPage - 1 \in Nat
  BY RecordPerPageAssumption
<1>1. q \in Nat /\ RecordPerPage * q <= n - 1 /\ n - 1 < RecordPerPage * q + RecordPerPage
  BY <1>0, Quotient
<1> HIDE DEF q
<1>2. RecordPerPage * (q + 1) = RecordPerPage * q + RecordPerPage /\ RecordPerPage * q \in Nat
  BY <1>0, <1>1
<1>3. /\ RecordPerPage * (q + 1) <= n + RecordPerPage - 1
      /\ n + RecordPerPage - 1 < RecordPerPage * (q + 1) + RecordPerPage
  BY <1>0, <1>1, <1>2
<1>4. (n + RecordPerPage - 1) \div RecordPerPage = q + 1
  BY <1>0, <1>1, <1>3, QuotientIs
<1> QED
  BY <1>4 DEF PagesFor, q

-----------------------------------------------------------------------------
(* Induction, and what it gives for sums.                                   *)

\* A set of numbers that has 0, and with a number the next one, has them all.
\* (If it lacked n, the numbers up to n that it lacks would each have the one
\* before them among those below n that it lacks, and these are fewer.)
LEMMA CountingUp ==
  ASSUME NEW S, 0 \in S, \A m \in Nat : m \in S => m + 1 \in S, NEW n \in Nat
  PROVE  n \in S
<1> SUFFICES ASSUME n \notin S PROVE FALSE
  OBVIOUS
<1> DEFINE T == {m \in 0 .. n : m \notin S}
           U == T \ {n}
           f == [m \in T |-> m - 1]
<1>1. \A m \in T : m \in 0 .. n /\ m # 0 /\ m - 1 \in U
  <2>1. ASSUME NEW m \in T PROVE m \in 0 .. n /\ m # 0 /\ m - 1 \in Nat /\ m - 1 \notin S
    <3>1. m \in 0 .. n /\ m \notin S /\ m # 0 /\ m - 1 \in Nat
      OBVIOUS
    <3>2. (m - 1) + 1 = m
      BY <3>1
    <3> QED
      BY <3>1, <3>2
  <2> QED
    BY <2>1
<1>2. f \in Injection(T, U)
  <2>1. f \in [T -> U]
    BY <1>1
  <2>2. \A a, b \in T : a - 1 = b - 1 => a = b
    OBVIOUS
  <2> QED
    BY <2>1, <2>2 DEF Injection, IsInjective
<1>3. IsFiniteSet(T) /\ n \in T
  <2>1. IsFiniteSet(0 .. n) /\ T \in SUBSET (0 .. n)
    BY FS_Interval
  <2> QED
    BY <2>1, FS_Subset
<1> HIDE DEF T, f
<1>4. IsFiniteSet(U) /\ Cardinality(U) = Cardinality(T) - 1 /\ Cardinality(T) \in Nat
  BY <1>3, FS_RemoveElement, FS_CardinalityType
<1>5. Cardinality(T) <= Cardinality(U)
  BY <1>2, <1>4, FS_Injection
<1> QED
  BY <1>4, <1>5

\* s[p] is the sum of what comes before p.
IsRunningSum(s, c, n) ==
  /\ s \in [0 .. n -> Nat]
  /\ s[0] = 0
  /\ \A p \in 0 .. n - 1 : s[p + 1] = s[p] + c[p]

LEMMA RunningSum ==
  ASSUME NEW c, NEW n \in Nat, \A p \in 0 .. n - 1 : c[p] \in Nat
  PROVE  \E s : IsRunningSum(s, c, n)
<1> DEFINE S == {m \in Nat : m <= n => \E s : IsRunningSum(s, c, m)}
<1>1. 0 \in S
  <2> DEFINE s == [p \in 0 .. 0 |-> 0]
  <2>1. s \in [0 .. 0 -> Nat] /\ s[0] = 0 /\ 0 .. 0 - 1 = {}
    OBVIOUS
  <2> HIDE DEF s
  <2>2. IsRunningSum(s, c, 0)
    BY <2>1 DEF IsRunningSum
  <2> QED
    BY <2>2
<1>2. ASSUME NEW m \in Nat, m \in S PROVE m + 1 \in S
  <2> SUFFICES ASSUME m + 1 <= n PROVE \E s : IsRunningSum(s, c, m + 1)
    OBVIOUS
  <2>1. PICK s : IsRunningSum(s, c, m)
    BY <1>2
  <2>2. /\ s \in [0 .. m -> Nat] /\ s[0] = 0
        /\ \A p \in 0 .. m - 1 : s[p + 1] = s[p] + c[p]
    BY <2>1 DEF IsRunningSum
  <2>3. c[m] \in Nat /\ s[m] \in Nat
    BY <2>2
  <2> DEFINE t == [p \in 0 .. m + 1 |-> IF p = m + 1 THEN s[m] + c[m] ELSE s[p]]
  <2>4. t \in [0 .. m + 1 -> Nat]
    BY <2>2, <2>3
  <2>5. t[0] = 0
    BY <2>2
  <2>6. ASSUME NEW p \in 0 .. (m + 1) - 1 PROVE t[p + 1] = t[p] + c[p]
    <3>1. CASE p = m
      BY <3>1
    <3>2. CASE p # m
      <4>1. p \in 0 .. m - 1 /\ p + 1 \in 0 .. m
        BY <3>2
      <4>2. t[p + 1] = s[p + 1] /\ t[p] = s[p]
        BY <4>1
      <4> HIDE DEF t
      <4> QED
        BY <2>2, <4>1, <4>2
    <3> QED
      BY <3>1, <3>2
  <2> HIDE DEF t
  <2>7. IsRunningSum(t, c, m + 1)
    BY <2>4, <2>5, <2>6 DEF IsRunningSum
  <2> QED
    BY <2>7
<1> HIDE DEF S
<1>3. n \in S
  BY <1>1, <1>2, CountingUp
<1> QED
  BY <1>3 DEF S

\* What is added up does not overlap.
LEMMA SumsAreApart ==
  ASSUME NEW c, NEW n \in Nat, \A p \in 0 .. n - 1 : c[p] \in Nat,
         NEW s, IsRunningSum(s, c, n), NEW p \in 0 .. n - 1, NEW q \in 0 .. n, p < q
  PROVE  s[p] + c[p] <= s[q]
<1> DEFINE S == {m \in Nat : p < m /\ m <= n => s[p] + c[p] <= s[m]}
<1>0. /\ s \in [0 .. n -> Nat]
      /\ \A x \in 0 .. n - 1 : s[x + 1] = s[x] + c[x]
  BY DEF IsRunningSum
<1>1. 0 \in S
  OBVIOUS
<1>2. ASSUME NEW m \in Nat, m \in S PROVE m + 1 \in S
  <2> SUFFICES ASSUME p < m + 1, m + 1 <= n PROVE s[p] + c[p] <= s[m + 1]
    OBVIOUS
  <2>1. m \in 0 .. n - 1 /\ s[m + 1] = s[m] + c[m] /\ c[m] \in Nat /\ s[m] \in Nat
    BY <1>0
  <2>2. CASE m = p
    BY <2>1, <2>2
  <2>3. CASE m # p
    <3>1. s[p] + c[p] <= s[m]
      BY <1>2, <2>3
    <3>2. s[p] \in Nat /\ c[p] \in Nat
      BY <1>0
    <3> QED
      BY <2>1, <3>1, <3>2
  <2> QED
    BY <2>2, <2>3
<1> HIDE DEF S
<1>3. q \in S
  BY <1>1, <1>2, CountingUp
<1> QED
  BY <1>3 DEF S
=============================================================================
