------------------------- MODULE PartitionMergeProofs -------------------------
(***************************************************************************)
(* The static index and its merges, for any number of partitions, any page *)
(* size, any keys and any number of merges.  The proofs go from a turn of  *)
(* the merge of a partition, to the place of every record of the merged    *)
(* vector, to the pages a partition is stored in, to the file that Init    *)
(* builds, to MInv, which every step keeps: every partition of the version *)
(* in use is stored, sorted, in pages of its own, and every task that is   *)
(* over has stored the merge of its two vectors.  Two more invariants rest *)
(* on it: no record is lost (AllCounted), and what a find answers is the   *)
(* newest record of its key (Answers).                                     *)
(***************************************************************************)
EXTENDS PartitionMerge, PageFileProofs

\* A record of any file: one of a key, or what is left over in a page.
Records == [key : Int, value : Int]

Length(r) == r.dataNum + r.end - r.first

\* The work of a partition whose vector has these indices.
Work(at, read, D) ==
  [at : {at}, read : read, arr : [D -> Records], i : Int, j : Int, cnt : Int]

WorkTyped(w, r) ==
  w \in Work("merge", [0 .. r.dataNum - 1 -> Records], 0 .. Length(r) - 1)

\* There is room for what is left of both vectors, and no more.
RoomIsExact(w, r) ==
  /\ -1 <= w.j /\ w.j < r.dataNum
  /\ r.first - 1 <= w.i /\ w.i < r.end
  /\ w.cnt = (w.i - r.first + 1) + w.j

-----------------------------------------------------------------------------
LEMMA SizeOfVector ==
  ASSUME NEW n \in Nat, NEW V, NEW vector \in [0 .. n - 1 -> V]
  PROVE  Size(vector) = n
<1>1. DOMAIN vector = 0 .. n - 1
  OBVIOUS
<1>2. Cardinality(0 .. n - 1) = n
  BY FS_Interval
<1> QED
  BY <1>1, <1>2 DEF Size

\* One turn with a dynamic record.
LEMMA PutDynamicDoes ==
  ASSUME NEW at, NEW read, NEW D, NEW w \in Work(at, read, D),
         w.cnt \in D, dynamic[w.i] \in Records
  PROVE  /\ PutDynamic(w) \in Work(at, read, D)
         /\ PutDynamic(w).arr = [w.arr EXCEPT ![w.cnt] = dynamic[w.i]]
         /\ PutDynamic(w).i = w.i - 1 /\ PutDynamic(w).cnt = w.cnt - 1
         /\ PutDynamic(w).j = w.j /\ PutDynamic(w).read = w.read
         /\ PutDynamic(w).at = w.at
<1> DEFINE d == dynamic[w.i]
           x == [w EXCEPT !.arr[w.cnt] = d, !.i = w.i - 1, !.cnt = w.cnt - 1]
           A == [D -> Records]
<1>0. d \in Records
  OBVIOUS
<1> HIDE DEF d
<1>1. x.arr = [w.arr EXCEPT ![w.cnt] = d]
  BY DEF Work
<1>2. x.i = w.i - 1
  BY DEF Work
<1>3. x.j = w.j /\ x.read = w.read /\ x.at = w.at
  BY DEF Work
<1>4. x.cnt = w.cnt - 1
  BY DEF Work
<1>5. x \in Work(at, read, D)
  <2>1. [w.arr EXCEPT ![w.cnt] = d] \in A
    BY <1>0 DEF Work
  <2>2. w \in [at : {at}, read : read, arr : A, i : Int, j : Int, cnt : Int]
    BY DEF Work
  <2>3. w.i - 1 \in Int /\ w.cnt - 1 \in Int
    BY <2>2
  <2> SUFFICES x \in [at : {at}, read : read, arr : A, i : Int, j : Int, cnt : Int]
    BY DEF Work
  <2> HIDE DEF A
  <2> QED
    BY <2>1, <2>2, <2>3
<1> QED
  BY <1>1, <1>2, <1>3, <1>4, <1>5 DEF PutDynamic, d

\* One turn with a static record.
LEMMA PutStaticDoes ==
  ASSUME NEW at, NEW read, NEW D, NEW w \in Work(at, read, D), w.cnt \in D, w.j \in D
  PROVE  /\ PutStatic(w) \in Work(at, read, D)
         /\ PutStatic(w).arr = [w.arr EXCEPT ![w.cnt] = w.arr[w.j]]
         /\ PutStatic(w).j = w.j - 1 /\ PutStatic(w).cnt = w.cnt - 1
         /\ PutStatic(w).i = w.i /\ PutStatic(w).read = w.read
         /\ PutStatic(w).at = w.at
<1> DEFINE d == w.arr[w.j]
           x == [w EXCEPT !.arr[w.cnt] = d, !.j = w.j - 1, !.cnt = w.cnt - 1]
           A == [D -> Records]
<1>0. d \in Records
  BY DEF Work
<1> HIDE DEF d
<1>1. x.arr = [w.arr EXCEPT ![w.cnt] = d]
  BY DEF Work
<1>2. x.j = w.j - 1
  BY DEF Work
<1>3. x.i = w.i /\ x.read = w.read /\ x.at = w.at
  BY DEF Work
<1>4. x.cnt = w.cnt - 1
  BY DEF Work
<1>5. x \in Work(at, read, D)
  <2>1. [w.arr EXCEPT ![w.cnt] = d] \in A
    BY <1>0 DEF Work
  <2>2. w \in [at : {at}, read : read, arr : A, i : Int, j : Int, cnt : Int]
    BY DEF Work
  <2>3. w.j - 1 \in Int /\ w.cnt - 1 \in Int
    BY <2>2
  <2> SUFFICES x \in [at : {at}, read : read, arr : A, i : Int, j : Int, cnt : Int]
    BY DEF Work
  <2> HIDE DEF A
  <2> QED
    BY <2>1, <2>2, <2>3
<1> QED
  BY <1>1, <1>2, <1>3, <1>4, <1>5 DEF PutStatic, d

-----------------------------------------------------------------------------
Kept(w, r) ==
  WorkTyped(w, r) /\ RoomIsExact(w, r) /\ UnreadIsIntact(w) /\ WrittenIsSorted(w, r.first)

\* The part of a task's range in the dynamic vector.
Usable(r) ==
  /\ r.dataNum \in Nat /\ r.first \in Nat /\ r.end \in Nat /\ r.first <= r.end
  /\ Length(r) \in Nat
  /\ \A x \in r.first .. r.end - 1 : dynamic[x] \in Records
  /\ \A x, y \in r.first .. r.end - 1 : x < y => dynamic[x].key <= dynamic[y].key

\* The written part in terms of its indices.
LEMMA WrittenMeans ==
  ASSUME NEW w, NEW r, WorkTyped(w, r), Length(r) \in Nat
  PROVE  /\ Size(w.arr) = Length(r)
         /\ \A x \in 0 .. Length(r) - 1 : w.arr[x] \in Records /\ w.arr[x].key \in Int
<1>1. w.arr \in [0 .. Length(r) - 1 -> Records]
  BY DEF WorkTyped, Work
<1> QED
  BY <1>1, SizeOfVector DEF Records

\* A dynamic record that is not below the largest static one left goes to the
\* end of what is free: no unread record is there.
LEMMA DynamicTurn ==
  ASSUME NEW w, NEW r, Usable(r), Kept(w, r), w.i >= r.first,
         w.j >= 0 => dynamic[w.i].key > w.arr[w.j].key
  PROVE  Kept(PutDynamic(w), r)
<1> DEFINE n == Length(r)
           x == PutDynamic(w)
           R == [0 .. r.dataNum - 1 -> Records]
           D == 0 .. n - 1
<1>1. /\ n \in Nat /\ w.i \in Int /\ w.j \in Int /\ w.cnt \in Int
      /\ r.first \in Nat /\ r.end \in Nat /\ r.dataNum \in Nat
      /\ n = r.dataNum + r.end - r.first
  BY DEF Kept, Usable, WorkTyped, Work, Length
<1>2. /\ -1 <= w.j /\ w.j < r.dataNum /\ w.i < r.end
      /\ w.cnt = (w.i - r.first + 1) + w.j
  BY DEF Kept, RoomIsExact
<1> HIDE DEF n, x, R
<1>3. w.cnt \in D /\ w.j < w.cnt
  BY <1>1, <1>2
<1>4. dynamic[w.i] \in Records /\ dynamic[w.i].key \in Int
  BY <1>1, <1>2 DEF Usable, Records
<1>5. w \in Work("merge", R, D)
  BY DEF Kept, WorkTyped, n, R
<1> HIDE DEF D
<1>6. /\ x \in Work("merge", R, D)
      /\ x.arr = [w.arr EXCEPT ![w.cnt] = dynamic[w.i]]
      /\ x.i = w.i - 1 /\ x.cnt = w.cnt - 1 /\ x.j = w.j /\ x.read = w.read
  BY <1>3, <1>4, <1>5, PutDynamicDoes DEF x
<1> USE DEF D
<1>12. x.i \in Int /\ x.j \in Int /\ x.cnt \in Int
  BY <1>6 DEF Work
<1>7. /\ x.arr[w.cnt] = dynamic[w.i]
      /\ \A m \in 0 .. n - 1 : m # w.cnt => x.arr[m] = w.arr[m]
  BY <1>3, <1>5, <1>6 DEF Work
<1>8. WorkTyped(x, r)
  BY <1>6 DEF WorkTyped, n, R
<1>9. RoomIsExact(x, r)
  <2>1. w.i >= r.first
    OBVIOUS
  <2>2. r.first - 1 <= x.i
    BY <1>1, <1>6, <2>1
  <2>3. x.i < r.end
    BY <1>1, <1>2, <1>6, <2>1
  <2>4. x.cnt = (x.i - r.first + 1) + x.j
    <3>1. x.i = w.i - 1 /\ x.cnt = w.cnt - 1 /\ x.j = w.j
      BY <1>6
    <3>2. w.cnt - 1 = ((w.i - 1) - r.first + 1) + w.j
      BY <1>1, <1>2
    <3> QED
      BY <3>1, <3>2
  <2>5. -1 <= x.j /\ x.j < r.dataNum
    BY <1>2, <1>6
  <2> QED
    BY <2>2, <2>3, <2>4, <2>5 DEF RoomIsExact
<1>10. UnreadIsIntact(x)
  <2>1. \A m \in 0 .. w.j : w.arr[m] = w.read[m]
    BY DEF Kept, UnreadIsIntact
  <2>2. \A m \in 0 .. w.j : x.arr[m] = w.arr[m]
    BY <1>1, <1>3, <1>7
  <2> QED
    BY <1>6, <2>1, <2>2 DEF UnreadIsIntact
<1>11. WrittenIsSorted(x, r.first)
  <2>1. Size(w.arr) = n /\ \A m \in 0 .. n - 1 : w.arr[m].key \in Int
    BY <1>1, WrittenMeans DEF Kept, n
  <2>2. Size(x.arr) = n
    BY <1>1, <1>8, WrittenMeans DEF n
  <2>3. \A m \in w.cnt + 1 .. n - 1 :
          /\ \A y \in m .. n - 1 : w.arr[m].key <= w.arr[y].key
          /\ w.j >= 0 => w.arr[w.j].key <= w.arr[m].key
          /\ dynamic[w.i].key <= w.arr[m].key
    BY <2>1 DEF Kept, WrittenIsSorted
  <2>4. x.i >= r.first => /\ dynamic[x.i].key \in Int
                          /\ dynamic[x.i].key <= dynamic[w.i].key
    <3>1. CASE x.i >= r.first
      <4>1. x.i \in r.first .. r.end - 1 /\ w.i \in r.first .. r.end - 1
        BY <1>1, <1>2, <1>6, <1>12, <3>1
      <4>2. dynamic[x.i] \in Records
        BY <4>1 DEF Usable
      <4>3. x.i < w.i
        BY <1>1, <1>6
      <4>4. dynamic[x.i].key <= dynamic[w.i].key
        BY <4>1, <4>3 DEF Usable
      <4> QED
        BY <4>2, <4>4 DEF Records
    <3> QED
      BY <3>1
  <2>5. x.j >= 0 => x.arr[x.j] = w.arr[w.j]
    BY <1>1, <1>2, <1>3, <1>6, <1>7
  <2>6. ASSUME NEW m \in w.cnt .. n - 1
        PROVE  /\ \A y \in m .. n - 1 : x.arr[m].key <= x.arr[y].key
               /\ x.j >= 0 => x.arr[x.j].key <= x.arr[m].key
               /\ x.i >= r.first => dynamic[x.i].key <= x.arr[m].key
    <3>1. CASE m = w.cnt
      <4>1. x.arr[m] = dynamic[w.i]
        BY <1>7, <3>1
      <4>2. \A y \in m .. n - 1 : x.arr[m].key <= x.arr[y].key
        BY <1>1, <1>3, <1>4, <1>7, <2>1, <2>3, <3>1
      <4>3. x.j >= 0 => x.arr[x.j].key <= x.arr[m].key
        <5>1. w.j >= 0 => w.arr[w.j].key \in Int
          BY <1>1, <1>3, <2>1
        <5> QED
          BY <1>4, <1>6, <2>5, <4>1, <5>1
      <4> QED
        BY <2>4, <4>1, <4>2, <4>3
    <3>2. CASE m # w.cnt
      <4>1. m \in w.cnt + 1 .. n - 1 /\ m \in 0 .. n - 1
        BY <1>1, <1>3, <3>2
      <4>2. x.arr[m] = w.arr[m] /\ w.arr[m].key \in Int
        BY <1>7, <2>1, <3>2, <4>1
      <4>3. \A y \in m .. n - 1 : x.arr[m].key <= x.arr[y].key
        BY <1>1, <1>3, <1>7, <2>3, <4>1, <4>2
      <4>4. x.j >= 0 => x.arr[x.j].key <= x.arr[m].key
        BY <1>6, <2>3, <2>5, <4>1, <4>2
      <4>5. x.i >= r.first => dynamic[x.i].key <= x.arr[m].key
        BY <1>4, <2>3, <2>4, <4>1, <4>2
      <4> QED
        BY <4>3, <4>4, <4>5
    <3> QED
      BY <3>1, <3>2
  <2>7. x.cnt + 1 = w.cnt
    BY <1>1, <1>6
  <2> QED
    BY <2>2, <2>6, <2>7 DEF WrittenIsSorted
<1> QED
  BY <1>8, <1>9, <1>10, <1>11 DEF Kept, x

\* A static record that is not below the largest dynamic one left: the next
\* static one is not above it, for what was read is sorted.
LEMMA StaticTurn ==
  ASSUME NEW w, NEW r, Usable(r), Kept(w, r), w.i >= r.first, w.j >= 0,
         \A x, y \in 0 .. r.dataNum - 1 : x < y => w.read[x].key <= w.read[y].key,
         ~(dynamic[w.i].key > w.arr[w.j].key)
  PROVE  Kept(PutStatic(w), r)
<1> DEFINE n == Length(r)
           x == PutStatic(w)
           R == [0 .. r.dataNum - 1 -> Records]
           D == 0 .. n - 1
<1>1. /\ n \in Nat /\ w.i \in Int /\ w.j \in Int /\ w.cnt \in Int
      /\ r.first \in Nat /\ r.end \in Nat /\ r.dataNum \in Nat
      /\ n = r.dataNum + r.end - r.first
  BY DEF Kept, Usable, WorkTyped, Work, Length
<1>2. /\ -1 <= w.j /\ w.j < r.dataNum /\ w.i < r.end /\ r.first - 1 <= w.i
      /\ w.cnt = (w.i - r.first + 1) + w.j
  BY DEF Kept, RoomIsExact
<1> HIDE DEF n, x, R
<1>3. w.cnt \in D /\ w.j \in D /\ w.j < w.cnt
  BY <1>1, <1>2
<1>4. w \in Work("merge", R, D)
  BY DEF Kept, WorkTyped, n, R
<1> HIDE DEF D
<1>5. /\ x \in Work("merge", R, D)
      /\ x.arr = [w.arr EXCEPT ![w.cnt] = w.arr[w.j]]
      /\ x.j = w.j - 1 /\ x.cnt = w.cnt - 1 /\ x.i = w.i /\ x.read = w.read
  BY <1>3, <1>4, PutStaticDoes DEF x
<1> USE DEF D
<1>6. x.i \in Int /\ x.j \in Int /\ x.cnt \in Int
  BY <1>5 DEF Work
<1>7. /\ x.arr[w.cnt] = w.arr[w.j]
      /\ \A m \in 0 .. n - 1 : m # w.cnt => x.arr[m] = w.arr[m]
  BY <1>3, <1>4, <1>5 DEF Work
<1>8. WorkTyped(x, r)
  BY <1>5 DEF WorkTyped, n, R
<1>9. RoomIsExact(x, r)
  <2>1. -1 <= x.j /\ x.j < r.dataNum
    <3>1. -1 <= w.j - 1 /\ w.j - 1 < r.dataNum
      BY <1>1, <1>2
    <3> QED
      BY <1>5, <3>1
  <2>2. r.first - 1 <= x.i /\ x.i < r.end
    BY <1>2, <1>5
  <2>3. x.cnt = (x.i - r.first + 1) + x.j
    <3>1. x.i = w.i /\ x.cnt = w.cnt - 1 /\ x.j = w.j - 1
      BY <1>5
    <3>2. w.cnt - 1 = (w.i - r.first + 1) + (w.j - 1)
      BY <1>1, <1>2
    <3> QED
      BY <3>1, <3>2
  <2> QED
    BY <2>1, <2>2, <2>3 DEF RoomIsExact
<1>10. \A m \in 0 .. w.j : w.arr[m] = w.read[m] /\ x.arr[m] = w.arr[m]
  <2>1. \A m \in 0 .. w.j : w.arr[m] = w.read[m]
    BY DEF Kept, UnreadIsIntact
  <2>2. \A m \in 0 .. w.j : x.arr[m] = w.arr[m]
    BY <1>1, <1>3, <1>7
  <2> QED
    BY <2>1, <2>2
<1>11. UnreadIsIntact(x)
  <2>1. \A m \in 0 .. x.j : m \in 0 .. w.j
    BY <1>1, <1>5
  <2> QED
    BY <1>5, <1>10, <2>1 DEF UnreadIsIntact
<1>12. WrittenIsSorted(x, r.first)
  <2>1. Size(w.arr) = n /\ \A m \in 0 .. n - 1 : w.arr[m].key \in Int
    BY <1>1, WrittenMeans DEF Kept, n
  <2>2. Size(x.arr) = n
    BY <1>1, <1>8, WrittenMeans DEF n
  <2>3. \A m \in w.cnt + 1 .. n - 1 :
          /\ \A y \in m .. n - 1 : w.arr[m].key <= w.arr[y].key
          /\ w.arr[w.j].key <= w.arr[m].key
          /\ dynamic[w.i].key <= w.arr[m].key
    BY <2>1 DEF Kept, WrittenIsSorted
  <2>4. x.j >= 0 => /\ x.arr[x.j].key \in Int
                    /\ x.arr[x.j].key <= w.arr[w.j].key
    <3>1. CASE x.j >= 0
      <4>1. x.j \in 0 .. w.j /\ w.j \in 0 .. w.j /\ x.j < w.j
        BY <1>1, <1>5, <1>6, <3>1
      <4>2. x.j \in 0 .. r.dataNum - 1 /\ w.j \in 0 .. r.dataNum - 1
        BY <1>1, <1>2, <4>1
      <4>3. w.read[x.j].key <= w.read[w.j].key
        BY <4>1, <4>2
      <4>4. x.j \in 0 .. n - 1
        BY <1>1, <1>3, <1>6, <3>1, <4>1
      <4>5. x.arr[x.j] = w.arr[x.j] /\ w.arr[x.j] = w.read[x.j]
        BY <1>10, <4>1
      <4>6. w.arr[w.j] = w.read[w.j]
        BY <1>10, <4>1
      <4> QED
        BY <2>1, <4>3, <4>4, <4>5, <4>6
    <3> QED
      BY <3>1
  <2>5. dynamic[w.i].key \in Int /\ dynamic[w.i].key <= w.arr[w.j].key
    <3>1. dynamic[w.i] \in Records
      BY <1>1, <1>2 DEF Usable
    <3> QED
      BY <1>3, <2>1, <3>1 DEF Records
  <2>6. ASSUME NEW m \in w.cnt .. n - 1
        PROVE  /\ \A y \in m .. n - 1 : x.arr[m].key <= x.arr[y].key
               /\ x.j >= 0 => x.arr[x.j].key <= x.arr[m].key
               /\ x.i >= r.first => dynamic[x.i].key <= x.arr[m].key
    <3>0. w.arr[w.j].key \in Int
      BY <1>3, <2>1
    <3>1. CASE m = w.cnt
      <4>1. x.arr[m] = w.arr[w.j]
        BY <1>7, <3>1
      <4>2. \A y \in m .. n - 1 : x.arr[m].key <= x.arr[y].key
        BY <1>1, <1>3, <1>7, <2>1, <2>3, <3>0, <3>1
      <4> QED
        BY <1>5, <2>4, <2>5, <4>1, <4>2
    <3>2. CASE m # w.cnt
      <4>1. m \in w.cnt + 1 .. n - 1 /\ m \in 0 .. n - 1
        BY <1>1, <1>3, <3>2
      <4>2. x.arr[m] = w.arr[m] /\ w.arr[m].key \in Int
        BY <1>7, <2>1, <3>2, <4>1
      <4>3. \A y \in m .. n - 1 : x.arr[m].key <= x.arr[y].key
        BY <1>1, <1>3, <1>7, <2>3, <4>1, <4>2
      <4>4. w.arr[w.j].key <= w.arr[m].key /\ dynamic[w.i].key <= w.arr[m].key
        BY <2>3, <4>1
      <4>5. x.j >= 0 => x.arr[x.j].key <= x.arr[m].key
        BY <2>4, <3>0, <4>2, <4>4
      <4> QED
        BY <1>5, <4>2, <4>3, <4>4, <4>5
    <3> QED
      BY <3>1, <3>2
  <2>7. x.cnt + 1 = w.cnt
    BY <1>1, <1>5
  <2> QED
    BY <2>2, <2>6, <2>7 DEF WrittenIsSorted
<1> QED
  BY <1>8, <1>9, <1>11, <1>12 DEF Kept, x


-----------------------------------------------------------------------------
(* Where the turns of a merge put the records.                              *)

\* The vectors of a task, and what they make.
Part(r) == Slice(dynamic, r.first, r.end)

Merged(w, r) == Interleave(Part(r), w.read, TRUE)

\* What was taken of one vector is not before what is left of the other.
Crossed(w, r) ==
  /\ (w.i >= r.first /\ w.j + 1 < r.dataNum) => dynamic[w.i].key <= w.read[w.j + 1].key
  /\ (w.j >= 0 /\ w.i + 1 < r.end) => w.read[w.j].key < dynamic[w.i + 1].key

Placed(w, r) == \A x \in w.cnt + 1 .. Length(r) - 1 : w.arr[x] = Merged(w, r)[x]

\* The vectors of a task in terms of their indices.
LEMMA PartIs ==
  ASSUME NEW r, Usable(r)
  PROVE  /\ IsVector(Part(r), r.end - r.first) /\ InKeyOrder(Part(r))
         /\ \A i \in 0 .. r.end - r.first - 1 : Part(r)[i] = dynamic[r.first + i]
<1> DEFINE a == r.end - r.first
           d == Part(r)
<1>1. a \in Nat /\ r.first \in Nat /\ r.end \in Nat
  BY DEF Usable
<1>2. d = [i \in 0 .. a - 1 |-> dynamic[r.first + i]]
  BY DEF Part, Slice
<1>3. DOMAIN d = 0 .. a - 1 /\ \A i \in 0 .. a - 1 : d[i] = dynamic[r.first + i]
  BY <1>2
<1> HIDE DEF d
<1>4. \A i \in 0 .. a - 1 : r.first + i \in r.first .. r.end - 1
  BY <1>1
<1>5. \A i \in 0 .. a - 1 : d[i].key \in Int
  <2>1. \A x \in r.first .. r.end - 1 : dynamic[x].key \in Int
    BY DEF Usable, Records
  <2> QED
    BY <1>3, <1>4, <2>1
<1>6. ASSUME NEW i \in 0 .. a - 1, NEW j \in 0 .. a - 1, i < j PROVE d[i].key <= d[j].key
  <2>1. r.first + i < r.first + j
    BY <1>1, <1>6
  <2>2. dynamic[r.first + i].key <= dynamic[r.first + j].key
    BY <1>4, <2>1 DEF Usable
  <2> QED
    BY <1>3, <2>2
<1> QED
  BY <1>1, <1>3, <1>5, <1>6 DEF IsVector, InKeyOrder, d

\* What was read, as a vector.
Sorted(read, n) == IsVector(read, n) /\ InKeyOrder(read)

\* The places that the records have in the merged vector.
LEMMA MergedAt ==
  ASSUME NEW r, Usable(r), NEW w, Sorted(w.read, r.dataNum)
  PROVE  /\ IsVector(Merged(w, r), Length(r))
         /\ \A i \in 0 .. r.end - r.first - 1 :
              Merged(w, r)[DynamicPlace(Part(r), w.read, TRUE, i)] = dynamic[r.first + i]
         /\ \A j \in 0 .. r.dataNum - 1 :
              Merged(w, r)[StaticPlace(Part(r), w.read, TRUE, j)] = w.read[j]
<1> DEFINE a == r.end - r.first
           b == r.dataNum
           d == Part(r)
           s == w.read
<1>1. a \in Nat /\ b \in Nat /\ Length(r) = a + b
  BY DEF Usable, Length
<1>2. /\ IsVector(d, a) /\ InKeyOrder(d)
      /\ \A i \in 0 .. a - 1 : d[i] = dynamic[r.first + i]
  BY PartIs
<1>3. IsVector(s, b) /\ InKeyOrder(s)
  BY DEF Sorted
<1>4. PICK yes \in BOOLEAN : yes = TRUE
  OBVIOUS
<1>5. LET m == Interleave(d, s, yes)
      IN  /\ IsVector(m, a + b)
          /\ \A i \in 0 .. a - 1 : m[DynamicPlace(d, s, yes, i)] = d[i]
          /\ \A j \in 0 .. b - 1 : m[StaticPlace(d, s, yes, j)] = s[j]
  BY <1>2, <1>3, Interleaved
<1> HIDE DEF a, b, d, s
<1>6. LET m == Interleave(d, s, TRUE)
      IN  /\ IsVector(m, a + b)
          /\ \A i \in 0 .. a - 1 : m[DynamicPlace(d, s, TRUE, i)] = d[i]
          /\ \A j \in 0 .. b - 1 : m[StaticPlace(d, s, TRUE, j)] = s[j]
  BY <1>4, <1>5
<1> QED
  BY <1>1, <1>2, <1>6 DEF Merged, a, b, d, s

\* A place is counted from what goes before.
LEMMA CountUpTo ==
  ASSUME NEW T, NEW n \in Nat, T = 0 .. n - 1
  PROVE  Cardinality(T) = n
<1>1. Cardinality(0 .. n - 1) = IF 0 > n - 1 THEN 0 ELSE n - 1 - 0 + 1
  BY FS_Interval
<1> QED
  BY <1>1

LEMMA WorkIs ==
  ASSUME NEW w, NEW r, Usable(r), WorkTyped(w, r), RoomIsExact(w, r)
  PROVE  /\ w.i \in Int /\ w.j \in Int /\ w.cnt \in Int
         /\ r.first \in Nat /\ r.end \in Nat /\ r.dataNum \in Nat
         /\ -1 <= w.j /\ w.j < r.dataNum /\ r.first - 1 <= w.i /\ w.i < r.end
         /\ w.cnt = (w.i - r.first + 1) + w.j
BY DEF Usable, WorkTyped, Work, RoomIsExact

\* The dynamic record is the next one from the end.
LEMMA NextIsDynamic ==
  ASSUME NEW w, NEW r, Usable(r), WorkTyped(w, r), RoomIsExact(w, r),
         Sorted(w.read, r.dataNum), Crossed(w, r), w.i >= r.first,
         w.j >= 0 => w.read[w.j].key < dynamic[w.i].key
  PROVE  Merged(w, r)[w.cnt] = dynamic[w.i]
<1> DEFINE d == Part(r)
           s == w.read
           i == w.i - r.first
           T == {h \in DOMAIN s : \/ s[h].key < d[i].key
                                  \/ ~TRUE /\ s[h].key = d[i].key}
<1>1. /\ w.i \in Int /\ w.j \in Int /\ w.cnt \in Int
      /\ r.first \in Nat /\ r.end \in Nat /\ r.dataNum \in Nat
      /\ -1 <= w.j /\ w.j < r.dataNum /\ w.i < r.end
      /\ w.cnt = (w.i - r.first + 1) + w.j
  BY WorkIs
<1>2. i \in 0 .. r.end - r.first - 1 /\ r.first + i = w.i
  BY <1>1
<1>3. /\ DOMAIN s = 0 .. r.dataNum - 1
      /\ \A h \in 0 .. r.dataNum - 1 : s[h].key \in Int
      /\ \A g, h \in 0 .. r.dataNum - 1 : g < h => s[g].key <= s[h].key
  BY DEF Sorted, IsVector, InKeyOrder
<1>4. d[i] = dynamic[w.i] /\ d[i].key \in Int
  <2>1. d[i] = dynamic[w.i]
    BY <1>2, PartIs
  <2>2. dynamic[w.i] \in Records
    BY <1>1, <1>2 DEF Usable
  <2> QED
    BY <2>1, <2>2 DEF Records
<1>5. \A h \in 0 .. r.dataNum - 1 : s[h].key < d[i].key <=> h <= w.j
  <2> HIDE DEF d, s, i
  <2> SUFFICES ASSUME NEW h \in 0 .. r.dataNum - 1 PROVE s[h].key < d[i].key <=> h <= w.j
    OBVIOUS
  <2>1. CASE h <= w.j
    <3>1. w.j \in 0 .. r.dataNum - 1 /\ s[w.j].key < d[i].key
      BY <1>1, <1>4, <2>1 DEF s
    <3>2. s[h].key <= s[w.j].key
      BY <1>1, <1>3, <2>1, <3>1
    <3> QED
      BY <1>3, <1>4, <2>1, <3>1, <3>2
  <2>2. CASE ~(h <= w.j)
    <3>1. w.j + 1 \in 0 .. r.dataNum - 1 /\ d[i].key <= s[w.j + 1].key
      BY <1>1, <1>4, <2>2 DEF Crossed, s
    <3>2. s[w.j + 1].key \in Int /\ s[h].key \in Int
      BY <1>3, <3>1
    <3>3. s[w.j + 1].key <= s[h].key
      <4>1. w.j + 1 < h \/ w.j + 1 = h
        BY <1>1, <2>2
      <4>2. CASE w.j + 1 < h
        BY <1>3, <3>1, <4>2
      <4>3. CASE w.j + 1 = h
        BY <3>2, <4>3
      <4> QED
        BY <4>1, <4>2, <4>3
    <3> QED
      BY <1>4, <2>2, <3>1, <3>2, <3>3
  <2> QED
    BY <2>1, <2>2
<1>6. T = 0 .. (w.j + 1) - 1
  <2>1. T = {h \in 0 .. r.dataNum - 1 : h <= w.j}
    BY <1>3, <1>5
  <2> QED
    BY <1>1, <2>1
<1>7. Cardinality(T) = w.j + 1
  <2> HIDE DEF T
  <2> QED
    BY <1>1, <1>6, CountUpTo
<1>8. DynamicPlace(d, s, TRUE, i) = w.cnt
  <2>1. DynamicPlace(d, s, TRUE, i) = i + Cardinality(T)
    BY DEF DynamicPlace
  <2>2. i + (w.j + 1) = w.cnt
    BY <1>1
  <2> HIDE DEF T, d, s, i
  <2> QED
    BY <1>7, <2>1, <2>2
<1>9. Merged(w, r)[DynamicPlace(d, s, TRUE, i)] = dynamic[r.first + i]
  <2> HIDE DEF i
  <2> QED
    BY <1>2, MergedAt
<1> QED
  BY <1>2, <1>8, <1>9

\* The static records below j have their places behind the dynamic ones up to i.
LEMMA StaticPlaceIs ==
  ASSUME NEW w, NEW r, Usable(r), WorkTyped(w, r), RoomIsExact(w, r),
         Sorted(w.read, r.dataNum), NEW x \in 0 .. r.dataNum - 1,
         \A y \in r.first .. w.i : dynamic[y].key <= w.read[x].key,
         \A y \in w.i + 1 .. r.end - 1 : w.read[x].key < dynamic[y].key
  PROVE  Merged(w, r)[x + (w.i - r.first + 1)] = w.read[x]
<1> DEFINE d == Part(r)
           s == w.read
           n == w.i - r.first + 1
           T == {h \in DOMAIN d : \/ d[h].key < s[x].key
                                  \/ TRUE /\ d[h].key = s[x].key}
<1>1. /\ w.i \in Int /\ r.first \in Nat /\ r.end \in Nat /\ r.dataNum \in Nat
      /\ r.first - 1 <= w.i /\ w.i < r.end
  BY WorkIs
<1>2. /\ DOMAIN d = 0 .. r.end - r.first - 1
      /\ \A h \in 0 .. r.end - r.first - 1 : d[h] = dynamic[r.first + h] /\ d[h].key \in Int
      /\ s[x].key \in Int
  BY PartIs DEF IsVector, InKeyOrder, Sorted
<1>3. \A h \in 0 .. r.end - r.first - 1 : d[h].key <= s[x].key <=> h <= n - 1
  <2> SUFFICES ASSUME NEW h \in 0 .. r.end - r.first - 1 PROVE d[h].key <= s[x].key <=> h <= n - 1
    OBVIOUS
  <2>1. CASE h <= n - 1
    <3>1. r.first + h \in r.first .. w.i
      BY <1>1, <2>1
    <3> QED
      BY <1>2, <2>1, <3>1
  <2>2. CASE ~(h <= n - 1)
    <3>1. r.first + h \in w.i + 1 .. r.end - 1
      BY <1>1, <2>2
    <3> QED
      BY <1>2, <2>2, <3>1
  <2> QED
    BY <2>1, <2>2
<1>4. T = 0 .. n - 1
  <2>1. T = {h \in 0 .. r.end - r.first - 1 : h <= n - 1}
    BY <1>2, <1>3
  <2> QED
    BY <1>1, <2>1
<1>5. Cardinality(T) = n
  <2> HIDE DEF T
  <2> QED
    BY <1>1, <1>4, CountUpTo
<1>6. StaticPlace(d, s, TRUE, x) = x + n
  <2>1. StaticPlace(d, s, TRUE, x) = x + Cardinality(T)
    BY DEF StaticPlace
  <2> HIDE DEF T
  <2> QED
    BY <1>5, <2>1
<1>7. Merged(w, r)[StaticPlace(d, s, TRUE, x)] = s[x]
  BY MergedAt
<1> QED
  BY <1>6, <1>7

\* The static record is the next one.
LEMMA NextIsStatic ==
  ASSUME NEW w, NEW r, Usable(r), WorkTyped(w, r), RoomIsExact(w, r),
         Sorted(w.read, r.dataNum), Crossed(w, r), w.i >= r.first, w.j >= 0,
         dynamic[w.i].key <= w.read[w.j].key
  PROVE  Merged(w, r)[w.cnt] = w.read[w.j]
<1>1. /\ w.i \in Int /\ w.j \in Int /\ w.cnt \in Int
      /\ r.first \in Nat /\ r.end \in Nat /\ r.dataNum \in Nat
      /\ w.j < r.dataNum /\ w.i < r.end
      /\ w.cnt = (w.i - r.first + 1) + w.j
  BY WorkIs
<1>2. /\ \A y \in r.first .. r.end - 1 : dynamic[y].key \in Int
      /\ \A y, z \in r.first .. r.end - 1 : y < z => dynamic[y].key <= dynamic[z].key
  BY DEF Usable, Records
<1>3. w.j \in 0 .. r.dataNum - 1 /\ w.read[w.j].key \in Int
  BY <1>1 DEF Sorted, IsVector, InKeyOrder
<1>4. ASSUME NEW y \in r.first .. w.i PROVE dynamic[y].key <= w.read[w.j].key
  <2>1. y \in r.first .. r.end - 1 /\ w.i \in r.first .. r.end - 1 /\ (y < w.i \/ y = w.i)
    BY <1>1
  <2>2. dynamic[y].key <= dynamic[w.i].key
    BY <1>2, <2>1
  <2>3. dynamic[y].key \in Int /\ dynamic[w.i].key \in Int
    BY <1>2, <2>1
  <2> QED
    BY <1>3, <2>2, <2>3
<1>5. ASSUME NEW y \in w.i + 1 .. r.end - 1 PROVE w.read[w.j].key < dynamic[y].key
  <2>1. /\ y \in r.first .. r.end - 1 /\ w.i + 1 \in r.first .. r.end - 1
        /\ (w.i + 1 < y \/ y = w.i + 1) /\ w.i + 1 < r.end
    BY <1>1
  <2>2. w.read[w.j].key < dynamic[w.i + 1].key
    BY <2>1 DEF Crossed
  <2>3. dynamic[w.i + 1].key <= dynamic[y].key
    BY <1>2, <2>1
  <2>4. dynamic[y].key \in Int /\ dynamic[w.i + 1].key \in Int
    BY <1>2, <2>1
  <2> QED
    BY <1>3, <2>2, <2>3, <2>4
<1>6. Merged(w, r)[w.j + (w.i - r.first + 1)] = w.read[w.j]
  BY <1>3, <1>4, <1>5, StaticPlaceIs
<1>7. w.j + (w.i - r.first + 1) = w.cnt
  BY <1>1
<1> QED
  BY <1>6, <1>7

\* When the dynamic records are used up, the static ones are in their place.
LEMMA RestIsStatic ==
  ASSUME NEW w, NEW r, Usable(r), WorkTyped(w, r), RoomIsExact(w, r),
         Sorted(w.read, r.dataNum), Crossed(w, r), ~(w.i >= r.first), NEW x \in 0 .. w.j
  PROVE  Merged(w, r)[x] = w.read[x]
<1>1. /\ w.i \in Int /\ w.j \in Int
      /\ r.first \in Nat /\ r.end \in Nat /\ r.dataNum \in Nat
      /\ w.j < r.dataNum /\ w.i = r.first - 1
  BY WorkIs
<1>2. /\ \A y \in r.first .. r.end - 1 : dynamic[y].key \in Int
      /\ \A y, z \in r.first .. r.end - 1 : y < z => dynamic[y].key <= dynamic[z].key
  BY DEF Usable, Records
<1>3. /\ x \in 0 .. r.dataNum - 1 /\ w.j \in 0 .. r.dataNum - 1
      /\ w.read[x].key \in Int /\ w.read[w.j].key \in Int /\ w.read[x].key <= w.read[w.j].key
  <2>1. /\ \A h \in 0 .. r.dataNum - 1 : w.read[h].key \in Int
        /\ \A g, h \in 0 .. r.dataNum - 1 : g < h => w.read[g].key <= w.read[h].key
    BY DEF Sorted, IsVector, InKeyOrder
  <2>2. x \in 0 .. r.dataNum - 1 /\ w.j \in 0 .. r.dataNum - 1 /\ (x < w.j \/ x = w.j)
    BY <1>1
  <2> QED
    BY <2>1, <2>2
<1>4. ASSUME NEW y \in r.first .. w.i PROVE dynamic[y].key <= w.read[x].key
  BY <1>1
<1>5. ASSUME NEW y \in w.i + 1 .. r.end - 1 PROVE w.read[x].key < dynamic[y].key
  <2>1. /\ y \in r.first .. r.end - 1 /\ w.i + 1 \in r.first .. r.end - 1
        /\ (w.i + 1 < y \/ y = w.i + 1) /\ w.i + 1 < r.end /\ w.j >= 0
    BY <1>1
  <2>2. w.read[w.j].key < dynamic[w.i + 1].key
    BY <2>1 DEF Crossed
  <2>3. dynamic[w.i + 1].key <= dynamic[y].key
    BY <1>2, <2>1
  <2>4. dynamic[y].key \in Int /\ dynamic[w.i + 1].key \in Int
    BY <1>2, <2>1
  <2> QED
    BY <1>3, <2>2, <2>3, <2>4
<1>6. Merged(w, r)[x + (w.i - r.first + 1)] = w.read[x]
  BY <1>3, <1>4, <1>5, StaticPlaceIs
<1>7. x + (w.i - r.first + 1) = x
  BY <1>1
<1> QED
  BY <1>6, <1>7

-----------------------------------------------------------------------------
(* A turn puts the next record of the merge in its place.                   *)

Merging(w, r) == Kept(w, r) /\ Sorted(w.read, r.dataNum) /\ Crossed(w, r) /\ Placed(w, r)

\* What a turn is, in terms of indices.
LEMMA DynamicTurnIs ==
  ASSUME NEW w, NEW r, Usable(r), Kept(w, r), w.i >= r.first
  PROVE  /\ w.cnt \in 0 .. Length(r) - 1
         /\ PutDynamic(w).i = w.i - 1 /\ PutDynamic(w).cnt = w.cnt - 1
         /\ PutDynamic(w).j = w.j /\ PutDynamic(w).read = w.read
         /\ PutDynamic(w).at = w.at
         /\ PutDynamic(w).arr[w.cnt] = dynamic[w.i]
         /\ \A m \in 0 .. Length(r) - 1 : m # w.cnt => PutDynamic(w).arr[m] = w.arr[m]
<1> DEFINE n == Length(r)
           R == [0 .. r.dataNum - 1 -> Records]
           D == 0 .. n - 1
<1>1. /\ n \in Nat /\ w.i \in Int /\ w.j \in Int /\ w.cnt \in Int
      /\ r.first \in Nat /\ r.end \in Nat /\ r.dataNum \in Nat
      /\ n = r.dataNum + r.end - r.first
      /\ -1 <= w.j /\ w.j < r.dataNum /\ w.i < r.end
      /\ w.cnt = (w.i - r.first + 1) + w.j
  BY DEF Kept, RoomIsExact, Usable, WorkTyped, Work, Length
<1>2. w \in Work("merge", R, D)
  BY DEF Kept, WorkTyped
<1> HIDE DEF n, R
<1>3. w.cnt \in D
  BY <1>1
<1>4. dynamic[w.i] \in Records
  BY <1>1 DEF Usable
<1> HIDE DEF D
<1>5. /\ PutDynamic(w).arr = [w.arr EXCEPT ![w.cnt] = dynamic[w.i]]
      /\ PutDynamic(w).i = w.i - 1 /\ PutDynamic(w).cnt = w.cnt - 1
      /\ PutDynamic(w).j = w.j /\ PutDynamic(w).read = w.read
      /\ PutDynamic(w).at = w.at
  BY <1>2, <1>3, <1>4, PutDynamicDoes
<1>6. DOMAIN w.arr = D
  BY <1>2 DEF Work
<1> HIDE <1>1
<1> QED
  BY <1>3, <1>5, <1>6 DEF D, n

LEMMA StaticTurnIs ==
  ASSUME NEW w, NEW r, Usable(r), Kept(w, r), w.i >= r.first, w.j >= 0
  PROVE  /\ w.cnt \in 0 .. Length(r) - 1
         /\ PutStatic(w).j = w.j - 1 /\ PutStatic(w).cnt = w.cnt - 1
         /\ PutStatic(w).i = w.i /\ PutStatic(w).read = w.read
         /\ PutStatic(w).at = w.at
         /\ PutStatic(w).arr[w.cnt] = w.read[w.j]
         /\ \A m \in 0 .. Length(r) - 1 : m # w.cnt => PutStatic(w).arr[m] = w.arr[m]
<1> DEFINE n == Length(r)
           R == [0 .. r.dataNum - 1 -> Records]
           D == 0 .. n - 1
<1>1. /\ n \in Nat /\ w.i \in Int /\ w.j \in Int /\ w.cnt \in Int
      /\ r.first \in Nat /\ r.end \in Nat /\ r.dataNum \in Nat
      /\ n = r.dataNum + r.end - r.first
      /\ -1 <= w.j /\ w.j < r.dataNum /\ w.i < r.end
      /\ w.cnt = (w.i - r.first + 1) + w.j
  BY DEF Kept, RoomIsExact, Usable, WorkTyped, Work, Length
<1>2. w \in Work("merge", R, D)
  BY DEF Kept, WorkTyped
<1> HIDE DEF n, R
<1>3. w.cnt \in D /\ w.j \in D
  BY <1>1
<1>4. w.arr[w.j] = w.read[w.j]
  BY <1>1 DEF Kept, UnreadIsIntact
<1> HIDE DEF D
<1>5. /\ PutStatic(w).arr = [w.arr EXCEPT ![w.cnt] = w.arr[w.j]]
      /\ PutStatic(w).j = w.j - 1 /\ PutStatic(w).cnt = w.cnt - 1
      /\ PutStatic(w).i = w.i /\ PutStatic(w).read = w.read
      /\ PutStatic(w).at = w.at
  BY <1>2, <1>3, PutStaticDoes
<1>6. DOMAIN w.arr = D
  BY <1>2 DEF Work
<1> HIDE <1>1
<1> QED
  BY <1>3, <1>4, <1>5, <1>6 DEF D, n

LEMMA DynamicPlaces ==
  ASSUME NEW w, NEW r, Usable(r), Merging(w, r), w.i >= r.first,
         w.j >= 0 => dynamic[w.i].key > w.arr[w.j].key
  PROVE  Merging(PutDynamic(w), r)
<1> DEFINE x == PutDynamic(w)
           n == Length(r)
<1>1. Kept(w, r) /\ Sorted(w.read, r.dataNum) /\ Crossed(w, r) /\ Placed(w, r)
  BY DEF Merging
<1>2. /\ w.i \in Int /\ w.j \in Int /\ w.cnt \in Int
      /\ r.first \in Nat /\ r.end \in Nat /\ r.dataNum \in Nat
      /\ w.j < r.dataNum /\ w.i < r.end /\ -1 <= w.j
  BY <1>1, WorkIs DEF Kept
<1>3. /\ w.cnt \in 0 .. n - 1
      /\ x.i = w.i - 1 /\ x.cnt = w.cnt - 1 /\ x.j = w.j /\ x.read = w.read
      /\ x.arr[w.cnt] = dynamic[w.i]
      /\ \A m \in 0 .. n - 1 : m # w.cnt => x.arr[m] = w.arr[m]
  BY <1>1, DynamicTurnIs
<1>4. Kept(x, r)
  BY <1>1, DynamicTurn
<1> HIDE DEF x
<1>5. w.j >= 0 => w.read[w.j].key \in Int /\ w.read[w.j].key < dynamic[w.i].key
  <2>1. w.j >= 0 => w.arr[w.j] = w.read[w.j]
    BY <1>1, <1>2 DEF Kept, UnreadIsIntact
  <2>2. w.j >= 0 => w.read[w.j].key \in Int
    BY <1>1, <1>2 DEF Sorted, IsVector, InKeyOrder
  <2>3. dynamic[w.i].key \in Int
    BY <1>2 DEF Usable, Records
  <2> QED
    BY <2>1, <2>2, <2>3
<1>6. Merged(w, r)[w.cnt] = dynamic[w.i]
  BY <1>1, <1>5, NextIsDynamic DEF Kept
<1>7. Placed(x, r)
  <2>1. Merged(x, r) = Merged(w, r)
    BY <1>3 DEF Merged
  <2>2. ASSUME NEW m \in x.cnt + 1 .. n - 1 PROVE x.arr[m] = Merged(w, r)[m]
    <3>1. CASE m = w.cnt
      BY <1>3, <1>6, <3>1
    <3>2. CASE m # w.cnt
      <4>1. x.cnt + 1 = w.cnt
        BY <1>2, <1>3
      <4>2. n \in Nat
        BY DEF Usable
      <4>3. m \in w.cnt + 1 .. n - 1 /\ m \in 0 .. n - 1
        BY <1>2, <1>3, <3>2, <4>1, <4>2
      <4> QED
        BY <1>1, <1>3, <3>2, <4>3 DEF Placed
    <3> QED
      BY <3>1, <3>2
  <2> QED
    BY <2>1, <2>2 DEF Placed
<1>8. Crossed(x, r)
  <2>1. ASSUME w.i - 1 >= r.first, w.j + 1 < r.dataNum
        PROVE  dynamic[w.i - 1].key <= w.read[w.j + 1].key
    <3>1. dynamic[w.i].key <= w.read[w.j + 1].key
      BY <1>1, <2>1 DEF Crossed
    <3>2. /\ w.i - 1 \in r.first .. r.end - 1 /\ w.i \in r.first .. r.end - 1 /\ w.i - 1 < w.i
          /\ w.j + 1 \in 0 .. r.dataNum - 1
      BY <1>2, <2>1
    <3>3. dynamic[w.i - 1].key <= dynamic[w.i].key
      BY <3>2 DEF Usable
    <3>4. dynamic[w.i - 1].key \in Int /\ dynamic[w.i].key \in Int
      BY <3>2 DEF Usable, Records
    <3>5. w.read[w.j + 1].key \in Int
      BY <1>1, <3>2 DEF Sorted, IsVector, InKeyOrder
    <3> QED
      BY <3>1, <3>3, <3>4, <3>5
  <2>2. x.i + 1 = w.i
    BY <1>2, <1>3
  <2> QED
    BY <1>3, <1>5, <2>1, <2>2 DEF Crossed
<1> QED
  BY <1>1, <1>3, <1>4, <1>7, <1>8 DEF Merging, x

LEMMA StaticPlaces ==
  ASSUME NEW w, NEW r, Usable(r), Merging(w, r), w.i >= r.first, w.j >= 0,
         ~(dynamic[w.i].key > w.arr[w.j].key)
  PROVE  Merging(PutStatic(w), r)
<1> DEFINE x == PutStatic(w)
           n == Length(r)
<1>1. Kept(w, r) /\ Sorted(w.read, r.dataNum) /\ Crossed(w, r) /\ Placed(w, r)
  BY DEF Merging
<1>2. /\ w.i \in Int /\ w.j \in Int /\ w.cnt \in Int
      /\ r.first \in Nat /\ r.end \in Nat /\ r.dataNum \in Nat
      /\ w.j < r.dataNum /\ w.i < r.end
  BY <1>1, WorkIs DEF Kept
<1>3. /\ w.cnt \in 0 .. n - 1
      /\ x.j = w.j - 1 /\ x.cnt = w.cnt - 1 /\ x.i = w.i /\ x.read = w.read
      /\ x.arr[w.cnt] = w.read[w.j]
      /\ \A m \in 0 .. n - 1 : m # w.cnt => x.arr[m] = w.arr[m]
  BY <1>1, StaticTurnIs
<1>4. /\ \A h \in 0 .. r.dataNum - 1 : w.read[h].key \in Int
      /\ \A g, h \in 0 .. r.dataNum - 1 : g < h => w.read[g].key <= w.read[h].key
  BY <1>1 DEF Sorted, IsVector, InKeyOrder
<1>5. Kept(x, r)
  BY <1>1, <1>4, StaticTurn
<1> HIDE DEF x
<1>6. dynamic[w.i].key <= w.read[w.j].key
  <2>1. w.arr[w.j] = w.read[w.j]
    BY <1>1, <1>2 DEF Kept, UnreadIsIntact
  <2>2. w.read[w.j].key \in Int
    BY <1>2, <1>4
  <2>3. dynamic[w.i].key \in Int
    BY <1>2 DEF Usable, Records
  <2> QED
    BY <2>1, <2>2, <2>3
<1>7. Merged(w, r)[w.cnt] = w.read[w.j]
  BY <1>1, <1>6, NextIsStatic DEF Kept
<1>8. Placed(x, r)
  <2>1. Merged(x, r) = Merged(w, r)
    BY <1>3 DEF Merged
  <2>2. ASSUME NEW m \in x.cnt + 1 .. n - 1 PROVE x.arr[m] = Merged(w, r)[m]
    <3>1. CASE m = w.cnt
      BY <1>3, <1>7, <3>1
    <3>2. CASE m # w.cnt
      <4>1. x.cnt + 1 = w.cnt
        BY <1>2, <1>3
      <4>2. n \in Nat
        BY DEF Usable
      <4>3. m \in w.cnt + 1 .. n - 1 /\ m \in 0 .. n - 1
        BY <1>2, <1>3, <3>2, <4>1, <4>2
      <4> QED
        BY <1>1, <1>3, <3>2, <4>3 DEF Placed
    <3> QED
      BY <3>1, <3>2
  <2> QED
    BY <2>1, <2>2 DEF Placed
<1>9. Crossed(x, r)
  <2>1. ASSUME w.j - 1 >= 0, w.i + 1 < r.end
        PROVE  w.read[w.j - 1].key < dynamic[w.i + 1].key
    <3>1. w.read[w.j].key < dynamic[w.i + 1].key
      BY <1>1, <2>1 DEF Crossed
    <3>2. /\ w.j - 1 \in 0 .. r.dataNum - 1 /\ w.j \in 0 .. r.dataNum - 1 /\ w.j - 1 < w.j
          /\ w.i + 1 \in r.first .. r.end - 1
      BY <1>2, <2>1
    <3>3. dynamic[w.i + 1].key \in Int
      BY <3>2 DEF Usable, Records
    <3>4. w.read[w.j - 1].key <= w.read[w.j].key /\ w.read[w.j].key \in Int /\ w.read[w.j - 1].key \in Int
      BY <1>4, <3>2
    <3> QED
      BY <3>1, <3>3, <3>4
  <2>2. x.j + 1 = w.j
    BY <1>2, <1>3
  <2> QED
    BY <1>3, <1>6, <2>1, <2>2 DEF Crossed
<1> QED
  BY <1>1, <1>3, <1>5, <1>8, <1>9 DEF Merging, x

\* When the dynamic records are used up, the vector is the merge.
LEMMA MergeIsDone ==
  ASSUME NEW w, NEW r, Usable(r), Merging(w, r), ~(w.i >= r.first)
  PROVE  w.arr = Merged(w, r)
<1> DEFINE n == Length(r)
           m == Merged(w, r)
<1>1. Kept(w, r) /\ Sorted(w.read, r.dataNum) /\ Crossed(w, r) /\ Placed(w, r)
  BY DEF Merging
<1>2. /\ w.i \in Int /\ w.j \in Int /\ w.cnt \in Int
      /\ r.first \in Nat /\ w.cnt = (w.i - r.first + 1) + w.j /\ r.first - 1 <= w.i
  BY <1>1, WorkIs DEF Kept
<1>3. w.cnt = w.j
  BY <1>2
<1>4. DOMAIN w.arr = 0 .. n - 1 /\ w.arr = [x \in 0 .. n - 1 |-> w.arr[x]] /\ n \in Nat
  BY <1>1 DEF Kept, WorkTyped, Work, Usable
<1>5. IsVector(m, n)
  BY <1>1, MergedAt
<1>6. m = [x \in 0 .. n - 1 |-> m[x]]
  BY <1>5, InterleaveIsFunction DEF Merged, IsVector
<1>7. ASSUME NEW x \in 0 .. n - 1 PROVE w.arr[x] = m[x]
  <2>1. CASE x \in 0 .. w.j
    <3>1. w.arr[x] = w.read[x]
      BY <1>1, <2>1 DEF Kept, UnreadIsIntact
    <3>2. Merged(w, r)[x] = w.read[x]
      BY <1>1, <2>1, RestIsStatic DEF Kept
    <3> QED
      BY <3>1, <3>2
  <2>2. CASE x \notin 0 .. w.j
    <3>1. x \in w.cnt + 1 .. n - 1
      <4> HIDE DEF n
      <4> QED
        BY <1>2, <1>3, <1>4, <2>2
    <3> QED
      BY <1>1, <3>1 DEF Placed
  <2> QED
    BY <2>1, <2>2
<1> HIDE DEF m, n
<1> QED
  BY <1>4, <1>6, <1>7 DEF m

-----------------------------------------------------------------------------
(* The records of some keys, in order.                                      *)

\* A vector that is a function on its indices.
IsArray(v, n) == IsVector(v, n) /\ v = [i \in 0 .. n - 1 |-> v[i]]

IsOrderOf(v, n, keys, value) ==
  /\ IsArray(v, n)
  /\ \A i \in 0 .. n - 1 : v[i] \in [key : keys, value : {value}]
  /\ \A i, j \in 0 .. n - 1 : i < j => v[i].key < v[j].key
  /\ \A k \in keys : \E i \in 0 .. n - 1 : v[i].key = k

LEMMA KeysInOrder ==
  ASSUME NEW keys \in SUBSET Int, IsFiniteSet(keys), NEW value
  PROVE  IsOrderOf(InOrder(keys, value), Cardinality(keys), keys, value)
<1> DEFINE v == InOrder(keys, value)
           n == Cardinality(keys)
           Rank(k) == Cardinality({x \in keys : x < k})
           nth == [i \in 0 .. n - 1 |-> CHOOSE k \in keys : Rank(k) = i]
<1>1. /\ n \in Nat
      /\ \A k \in keys : Rank(k) \in 0 .. n - 1
      /\ \A k, l \in keys : k < l => Rank(k) < Rank(l)
      /\ \A i \in 0 .. n - 1 : \E k \in keys : Rank(k) = i
  BY RanksAreAll
<1>2. v = [i \in 0 .. n - 1 |-> [key |-> nth[i], value |-> value]]
  BY DEF InOrder
<1> HIDE DEF v, n, Rank
<1>3. \A i \in 0 .. n - 1 : nth[i] \in keys /\ Rank(nth[i]) = i
  BY <1>1
<1> HIDE DEF nth
<1>4. \A i \in 0 .. n - 1 : v[i] = [key |-> nth[i], value |-> value]
  BY <1>2
<1>9. ASSUME NEW i \in 0 .. n - 1 PROVE v[i].key = nth[i]
  <2>1. PICK r : r = nth[i]
    OBVIOUS
  <2>2. v[i] = [key |-> r, value |-> value]
    BY <1>4, <2>1
  <2>3. [key |-> r, value |-> value].key = r
    OBVIOUS
  <2> QED
    BY <2>1, <2>2, <2>3
<1>5. IsArray(v, n)
  BY <1>1, <1>2 DEF IsArray, IsVector
<1>6. ASSUME NEW i \in 0 .. n - 1 PROVE v[i] \in [key : keys, value : {value}]
  <2>1. nth[i] \in keys /\ v[i] = [key |-> nth[i], value |-> value]
    BY <1>3, <1>4
  <2>2. \A k \in keys : [key |-> k, value |-> value] \in [key : keys, value : {value}]
    OBVIOUS
  <2> QED
    BY <2>1, <2>2
<1>7. ASSUME NEW i \in 0 .. n - 1, NEW j \in 0 .. n - 1, i < j PROVE v[i].key < v[j].key
  <2>1. /\ nth[i] \in keys /\ nth[j] \in keys /\ Rank(nth[i]) = i /\ Rank(nth[j]) = j
    BY <1>3
  <2>2. nth[i] \in Int /\ nth[j] \in Int
    BY <2>1
  <2>3. CASE nth[j] < nth[i]
    <3>1. Rank(nth[j]) < Rank(nth[i])
      BY <1>1, <2>1, <2>3
    <3> QED
      BY <1>1, <1>7, <2>1, <3>1
  <2>4. CASE nth[j] = nth[i]
    BY <1>7, <2>1, <2>4
  <2>5. CASE nth[i] < nth[j]
    BY <1>9, <2>5
  <2> QED
    BY <2>2, <2>3, <2>4, <2>5
<1>8. ASSUME NEW k \in keys PROVE \E i \in 0 .. n - 1 : v[i].key = k
  <2>1. Rank(k) \in 0 .. n - 1
    BY <1>1
  <2> DEFINE i == Rank(k)
  <2>2. nth[i] \in keys /\ Rank(nth[i]) = i
    BY <1>3, <2>1
  <2>3. k \in Int /\ nth[i] \in Int
    BY <2>2
  <2>4. CASE k < nth[i]
    <3>1. Rank(k) < Rank(nth[i])
      BY <1>1, <2>2, <2>4
    <3> QED
      BY <2>1, <2>2, <3>1
  <2>5. CASE nth[i] < k
    <3>1. Rank(nth[i]) < Rank(k)
      BY <1>1, <2>2, <2>5
    <3> QED
      BY <2>1, <2>2, <3>1
  <2>6. CASE nth[i] = k
    BY <1>9, <2>1, <2>6
  <2> QED
    BY <2>3, <2>4, <2>5, <2>6
<1> QED
  BY <1>5, <1>6, <1>7, <1>8 DEF IsOrderOf, v, n

\* The lower bound of a key in a vector in order.
LEMMA DynamicIndexIs ==
  ASSUME NEW v, NEW n, IsVector(v, n), InKeyOrder(v), NEW key \in Int
  PROVE  /\ DynamicIndexOf(v, key) \in 0 .. n
         /\ \A i \in 0 .. n - 1 : v[i].key < key <=> i < DynamicIndexOf(v, key)
<1> DEFINE P == {i \in DOMAIN v : v[i].key < key}
           c == Cardinality(P)
<1>1. /\ n \in Nat /\ DOMAIN v = 0 .. n - 1
      /\ \A i \in 0 .. n - 1 : v[i].key \in Int
      /\ \A i, j \in 0 .. n - 1 : i < j => v[i].key <= v[j].key
  BY DEF IsVector, InKeyOrder
<1>2. P \in SUBSET (0 .. n - 1) /\ \A i \in 0 .. n - 1 : i \in P <=> v[i].key < key
  BY <1>1
<1> HIDE DEF P
<1>3. \A i \in P : \A j \in 0 .. n - 1 : j < i => j \in P
  <2> SUFFICES ASSUME NEW i \in P, NEW j \in 0 .. n - 1, j < i PROVE v[j].key < key
    BY <1>2
  <2>1. i \in 0 .. n - 1 /\ v[i].key < key
    BY <1>2
  <2>2. v[j].key <= v[i].key /\ v[i].key \in Int /\ v[j].key \in Int
    BY <1>1, <2>1
  <2> QED
    BY <2>1, <2>2
<1>4. c \in 0 .. n /\ P = 0 .. c - 1
  BY <1>1, <1>2, <1>3, PrefixIsCounted
<1> HIDE DEF c
<1>5. \A i \in 0 .. n - 1 : v[i].key < key <=> i < c
  BY <1>1, <1>2, <1>4
<1> QED
  BY <1>4, <1>5 DEF DynamicIndexOf, c, P

\* A larger key is not before a smaller one.
LEMMA IndexGrows ==
  ASSUME NEW v, NEW n, IsVector(v, n), InKeyOrder(v), NEW k \in Int, NEW l \in Int, k <= l
  PROVE  DynamicIndexOf(v, k) <= DynamicIndexOf(v, l)
<1> DEFINE a == DynamicIndexOf(v, k)
           b == DynamicIndexOf(v, l)
<1>1. /\ a \in 0 .. n /\ \A i \in 0 .. n - 1 : v[i].key < k <=> i < a
      /\ b \in 0 .. n /\ \A i \in 0 .. n - 1 : v[i].key < l <=> i < b
  BY DynamicIndexIs
<1>2. n \in Nat /\ \A i \in 0 .. n - 1 : v[i].key \in Int
  BY DEF IsVector, InKeyOrder
<1> SUFFICES a <= b
  OBVIOUS
<1> HIDE DEF a, b
<1>6. a \in Int /\ b \in Int /\ 0 <= a /\ a <= n /\ 0 <= b
  BY <1>1, <1>2
<1>3. CASE a = 0
  BY <1>3, <1>6
<1>4. CASE a > 0
  <2>1. a - 1 \in 0 .. n - 1 /\ a - 1 < a
    BY <1>1, <1>2, <1>4
  <2>2. v[a - 1].key < l
    BY <1>1, <1>2, <2>1
  <2>3. a - 1 < b
    BY <1>1, <2>1, <2>2
  <2> QED
    BY <1>6, <2>3
<1> QED
  BY <1>3, <1>4, <1>6

-----------------------------------------------------------------------------
(* What an index holds of a partition.                                      *)

Data(x, p) == GetAllData(x.file, x.pageStartIds[p], x.dataNumbers[p])

FileTyped(f) == \A slot \in DOMAIN f : slot \in Nat /\ f[slot] \in Record \cup {Junk}

Index(T, F) ==
  [dataNumbers : [Partitions -> Nat], pageStartIds : [Partitions -> Nat],
   pageLastIds : [Partitions -> Nat], partitionKeys : [Partitions -> Int],
   trained : T, file : F]

IsIndex(x) ==
  x \in Index({x.trained}, {x.file}) /\ DOMAIN x.trained = Partitions /\ FileTyped(x.file)

\* The records of a partition are sorted, in the pages that are its own, and
\* its models are trained on their keys.
RecordsOK(data) == InKeyOrder(data) /\ \A i \in DOMAIN data : data[i] \in Record

PartOK(x, p) ==
  /\ x.dataNumbers[p] > 0
  /\ x.pageLastIds[p] = LastPage(x.pageStartIds[p], x.dataNumbers[p])
  /\ RecordsOK(Data(x, p))
  /\ x.trained[p] = KeysOf(Data(x, p))
  /\ x.partitionKeys[p] = Data(x, p)[x.dataNumbers[p] - 1].key

\* y is x with the records of this partition stored from this page on.
IsPut(y, x, p, data, n, start) ==
  /\ y.dataNumbers = [x.dataNumbers EXCEPT ![p] = n]
  /\ y.pageStartIds = [x.pageStartIds EXCEPT ![p] = start]
  /\ y.pageLastIds = [x.pageLastIds EXCEPT ![p] = LastPage(start, n)]
  /\ y.partitionKeys = [x.partitionKeys EXCEPT ![p] = data[n - 1].key]
  /\ y.trained = [x.trained EXCEPT ![p] = KeysOf(data)]
  /\ y.file = DirectIOWrite(x.file, data, PagesFor(n), start)

LEMMA PagesUpToLast ==
  ASSUME NEW n \in Nat \ {0}, NEW start \in Nat
  PROVE  /\ LastPage(start, n) \in Nat
         /\ LastPage(start, n) - start + 1 = PagesFor(n)
         /\ LastPage(start, n) + 1 = start + PagesFor(n)
         /\ PagesFor(n) \in Nat \ {0}
<1>1. PagesFor(n) = (n - 1) \div RecordPerPage + 1
  BY PagesAre
<1>2. n - 1 \in Nat /\ RecordPerPage \in Nat \ {0}
  BY RecordPerPageAssumption
<1>3. (n - 1) \div RecordPerPage \in Nat
  BY <1>2, Quotient
<1> DEFINE q == (n - 1) \div RecordPerPage
<1>4. LastPage(start, n) = start + q
  BY DEF LastPage
<1> HIDE DEF q
<1> QED
  BY <1>1, <1>3, <1>4 DEF q

LEMMA PutIs ==
  ASSUME NEW x, IsIndex(x), NEW p \in Partitions, NEW data, NEW n \in Nat \ {0},
         IsVector(data, n), NEW start \in Nat
  PROVE  IsPut(Put(x, p, data, start), x, p, data, n, start)
<1> DEFINE last == LastPage(start, n)
           key == data[n - 1].key
           keys == KeysOf(data)
           y == [x EXCEPT !.dataNumbers[p] = n, !.pageStartIds[p] = start,
                          !.pageLastIds[p] = last, !.partitionKeys[p] = key,
                          !.trained[p] = keys,
                          !.file = DirectIOWrite(@, data, last - start + 1, start)]
<1>1. Size(data) = n
  BY SizeIsLength
<1>2. Put(x, p, data, start) = y
  BY <1>1 DEF Put
<1>3. last - start + 1 = PagesFor(n)
  BY PagesUpToLast
<1> HIDE DEF last, key, keys
<1>4. y.dataNumbers = [x.dataNumbers EXCEPT ![p] = n]
  BY DEF IsIndex, Index
<1>5. y.pageStartIds = [x.pageStartIds EXCEPT ![p] = start]
  BY DEF IsIndex, Index
<1>6. y.pageLastIds = [x.pageLastIds EXCEPT ![p] = last]
  BY DEF IsIndex, Index
<1>7. y.partitionKeys = [x.partitionKeys EXCEPT ![p] = key]
  BY DEF IsIndex, Index
<1>8. y.trained = [x.trained EXCEPT ![p] = keys]
  BY DEF IsIndex, Index
<1>9. y.file = DirectIOWrite(x.file, data, last - start + 1, start)
  BY DEF IsIndex, Index
<1> QED
  BY <1>2, <1>3, <1>4, <1>5, <1>6, <1>7, <1>8, <1>9 DEF IsPut, last, key, keys

\* It is an index again.
LEMMA PutTyped ==
  ASSUME NEW x, IsIndex(x), NEW p \in Partitions, NEW data, NEW n \in Nat \ {0},
         IsVector(data, n), NEW start \in Nat, RecordsOK(data)
  PROVE  IsIndex(Put(x, p, data, start))
<1> DEFINE last == LastPage(start, n)
           key == data[n - 1].key
           keys == KeysOf(data)
           f == DirectIOWrite(x.file, data, last - start + 1, start)
           t == [x.trained EXCEPT ![p] = keys]
           y == Put(x, p, data, start)
           z == [x EXCEPT !.dataNumbers[p] = n, !.pageStartIds[p] = start,
                          !.pageLastIds[p] = last, !.partitionKeys[p] = key,
                          !.trained = t, !.file = f]
<1>0. n - 1 \in 0 .. n - 1 /\ DOMAIN data = 0 .. n - 1
  BY DEF IsVector
<1>1. last \in Nat /\ key \in Int
  BY <1>0, PagesUpToLast DEF RecordsOK, InKeyOrder
<1>2. IsPut(y, x, p, data, n, start)
  BY PutIs
<1>3. y = z
  <2>1. Size(data) = n
    BY SizeIsLength
  <2> QED
    BY <2>1 DEF Put, IsIndex, Index
<1>4. z \in Index({t}, {f})
  <2>1. x \in Index({x.trained}, {x.file})
    BY DEF IsIndex
  <2> HIDE DEF t, f, last, key
  <2> DEFINE P == [Partitions -> Nat]
             K == [Partitions -> Int]
  <2>2. /\ [x.dataNumbers EXCEPT ![p] = n] \in P /\ [x.pageStartIds EXCEPT ![p] = start] \in P
        /\ [x.pageLastIds EXCEPT ![p] = last] \in P /\ [x.partitionKeys EXCEPT ![p] = key] \in K
    BY <1>1, <2>1 DEF Index
  <2> QED
    BY <2>1, <2>2 DEF Index
<1>5. y.trained = t /\ y.file = f
  BY <1>2, PagesUpToLast DEF IsPut
<1>6. DOMAIN t = Partitions
  BY DEF IsIndex
<1>7. FileTyped(f)
  <2>1. last - start + 1 \in Nat /\ last - start + 1 = PagesFor(n)
    BY PagesUpToLast
  <2>2. HoldsOf(f, x.file, data)
    BY <2>1, WrittenSlots
  <2> HIDE DEF f
  <2> SUFFICES ASSUME NEW slot \in DOMAIN f
               PROVE  slot \in Nat /\ f[slot] \in Record \cup {Junk}
    BY DEF FileTyped
  <2> QED
    BY <2>2 DEF HoldsOf, RecordsOK, IsIndex, FileTyped
<1> QED
  BY <1>3, <1>4, <1>5, <1>6, <1>7 DEF IsIndex

\* What is stored of the partition is what was put there.
LEMMA PutHolds ==
  ASSUME NEW x, IsIndex(x), NEW p \in Partitions, NEW data, NEW n \in Nat \ {0},
         IsArray(data, n), NEW start \in Nat, RecordsOK(data),
         NEW y, y = Put(x, p, data, start)
  PROVE  /\ PartOK(y, p) /\ Data(y, p) = data
         /\ y.dataNumbers[p] = n /\ y.pageStartIds[p] = start
         /\ y.pageLastIds[p] + 1 = start + PagesFor(n)
         /\ y.partitionKeys[p] = data[n - 1].key
<1>0. IsVector(data, n)
  BY DEF IsArray
<1>1. data = [i \in 0 .. n - 1 |-> data[i]]
  BY DEF IsArray
<1>2. IsPut(y, x, p, data, n, start)
  BY <1>0, PutIs
<1>3. /\ LastPage(start, n) + 1 = start + PagesFor(n) /\ PagesFor(n) \in Nat
      /\ n <= PagesFor(n) * RecordPerPage
  BY PagesUpToLast, PagesHold
<1>4. /\ y.dataNumbers[p] = n /\ y.pageStartIds[p] = start
      /\ y.pageLastIds[p] = LastPage(start, n) /\ y.trained[p] = KeysOf(data)
      /\ y.partitionKeys[p] = data[n - 1].key
  <2>1. /\ p \in DOMAIN x.dataNumbers /\ p \in DOMAIN x.pageStartIds
        /\ p \in DOMAIN x.pageLastIds /\ p \in DOMAIN x.trained /\ p \in DOMAIN x.partitionKeys
    BY DEF IsIndex, Index
  <2> QED
    BY <1>2, <2>1 DEF IsPut
<1>5. y.file = DirectIOWrite(x.file, data, PagesFor(n), start)
  BY <1>2 DEF IsPut
<1>6. GetAllData(DirectIOWrite(x.file, data, PagesFor(n), start), start, n) = [i \in 0 .. n - 1 |-> data[i]]
  <2>1. PICK pages \in Nat : pages = PagesFor(n)
    BY <1>3
  <2>2. n <= pages * RecordPerPage
    BY <1>3, <2>1
  <2>3. PICK f : f = x.file
    OBVIOUS
  <2> HIDE <1>1
  <2>4. GetAllData(DirectIOWrite(f, data, pages, start), start, n) = [i \in 0 .. n - 1 |-> data[i]]
    BY <1>0, <2>2, WrittenIsRead
  <2> QED
    BY <2>1, <2>3, <2>4
<1>7. Data(y, p) = data
  BY <1>1, <1>4, <1>5, <1>6 DEF Data
<1>8. PartOK(y, p)
  BY <1>4, <1>7 DEF PartOK
<1> QED
  BY <1>3, <1>4, <1>7, <1>8

\* The slots of a partition are those of its pages.
LEMMA SlotsInPages ==
  ASSUME NEW x, IsIndex(x), NEW q \in Partitions, PartOK(x, q),
         NEW i \in 0 .. x.dataNumbers[q] - 1
  PROVE  /\ x.pageStartIds[q] * RecordPerPage + i \in Nat
         /\ x.pageStartIds[q] * RecordPerPage <= x.pageStartIds[q] * RecordPerPage + i
         /\ x.pageStartIds[q] * RecordPerPage + i < (x.pageLastIds[q] + 1) * RecordPerPage
<1> DEFINE s == x.pageStartIds[q]
           n == x.dataNumbers[q]
           R == RecordPerPage
           P == PagesFor(n)
<1>1. s \in Nat /\ n \in Nat \ {0} /\ R \in Nat \ {0}
  BY RecordPerPageAssumption DEF IsIndex, Index, PartOK
<1>2. x.pageLastIds[q] + 1 = s + P /\ P \in Nat
  BY <1>1, PagesUpToLast DEF PartOK
<1>3. n <= P * R
  BY <1>1, PagesHold
<1> HIDE DEF s, n, R, P
<1>4. i \in Nat /\ i < n
  BY <1>1 DEF n
<1>5. s * R \in Nat /\ P * R \in Nat
  BY <1>1, <1>2
<1>6. (s + P) * R = s * R + P * R
  BY <1>1, <1>2
<1>7. s * R + i \in Nat /\ s * R <= s * R + i /\ s * R + i < (s + P) * R
  BY <1>1, <1>3, <1>4, <1>5, <1>6
<1> QED
  BY <1>2, <1>7 DEF s, R

\* A partition whose pages are not among those written is as it was.
LEMMA PutSpares ==
  ASSUME NEW x, IsIndex(x), NEW p \in Partitions, NEW data, NEW n \in Nat \ {0},
         IsVector(data, n), NEW start \in Nat,
         NEW y, y = Put(x, p, data, start),
         NEW q \in Partitions, q # p, PartOK(x, q),
         x.pageLastIds[q] < start \/ start + PagesFor(n) <= x.pageStartIds[q]
  PROVE  /\ PartOK(y, q) /\ Data(y, q) = Data(x, q)
         /\ y.dataNumbers[q] = x.dataNumbers[q] /\ y.pageStartIds[q] = x.pageStartIds[q]
         /\ y.pageLastIds[q] = x.pageLastIds[q] /\ y.partitionKeys[q] = x.partitionKeys[q]
<1>1. IsPut(y, x, p, data, n, start)
  BY PutIs
<1>2. /\ y.dataNumbers[q] = x.dataNumbers[q] /\ y.pageStartIds[q] = x.pageStartIds[q]
      /\ y.pageLastIds[q] = x.pageLastIds[q] /\ y.partitionKeys[q] = x.partitionKeys[q]
      /\ y.trained[q] = x.trained[q]
      /\ y.file = DirectIOWrite(x.file, data, PagesFor(n), start)
  BY <1>1 DEF IsPut, IsIndex, Index
<1>3. ASSUME NEW i \in 0 .. x.dataNumbers[q] - 1
      PROVE  At(y.file, x.pageStartIds[q] * RecordPerPage + i) =
             At(x.file, x.pageStartIds[q] * RecordPerPage + i)
  <2> DEFINE R == RecordPerPage
             s == x.pageStartIds[q]
             l == x.pageLastIds[q]
             P == PagesFor(n)
  <2>1. /\ s * R + i \in Nat /\ s * R <= s * R + i /\ s * R + i < (l + 1) * R
    BY SlotsInPages
  <2>2. R \in Nat \ {0} /\ s \in Nat /\ l \in Nat /\ P \in Nat
    BY RecordPerPageAssumption, PagesUpToLast DEF IsIndex, Index
  <2> DEFINE slot == s * R + i
  <2>3. l < start \/ start + P <= s
    OBVIOUS
  <2> HIDE DEF P
  <2>4. slot < start * R \/ slot >= (start + P) * R
    <3> HIDE DEF R, s, l
    <3>1. CASE l < start
      <4>1. R * (l + 1) <= R * start
        BY <2>2, <3>1, ProductGrows
      <4>2. (l + 1) * R <= start * R
        BY <2>2, <4>1
      <4>3. (l + 1) * R \in Int /\ start * R \in Int
        BY <2>2
      <4> QED
        BY <2>1, <4>2, <4>3
    <3>2. CASE start + P <= s
      <4>1. R * (start + P) <= R * s
        BY <2>2, <3>2, ProductGrows
      <4>2. (start + P) * R <= s * R
        BY <2>2, <4>1
      <4>3. (start + P) * R \in Int /\ s * R \in Int
        BY <2>2
      <4> QED
        BY <2>1, <4>2, <4>3
    <3> QED
      BY <2>3, <3>1, <3>2
  <2>5. slot \in Int
    BY <2>1
  <2> HIDE DEF slot
  <2>6. At(DirectIOWrite(x.file, data, P, start), slot) = At(x.file, slot)
    BY <2>2, <2>4, <2>5, OthersStay
  <2> QED
    BY <1>2, <2>6 DEF slot, P
<1>4. Data(y, q) = Data(x, q)
  BY <1>2, <1>3 DEF Data, GetAllData
<1>5. PartOK(y, q)
  BY <1>2, <1>4 DEF PartOK
<1> QED
  BY <1>2, <1>4, <1>5

-----------------------------------------------------------------------------
(* The index that is built.                                                 *)

LoadedRecords == InOrder(Loaded, 0)
LoadedSize == Cardinality(Loaded)

SubFrom(p) == p * SubItems
SubTo(p) == IF p = MergeThreadNum - 1 THEN LoadedSize ELSE (p + 1) * SubItems
Sub(p) == Slice(LoadedRecords, p * SubItems, Min({(p + 1) * SubItems, Size(LoadedRecords)}))

LEMMA LoadedOrder == IsOrderOf(LoadedRecords, LoadedSize, Loaded, 0)
<1>1. Loaded \subseteq Keys /\ Keys \subseteq Int /\ IsFiniteSet(Keys)
  BY KeysAssumption
<1>2. Loaded \in SUBSET Int /\ IsFiniteSet(Loaded)
  BY <1>1, FS_Subset
<1>3. PICK zero \in Nat : zero = 0
  OBVIOUS
<1>4. IsOrderOf(InOrder(Loaded, zero), Cardinality(Loaded), Loaded, zero)
  BY <1>2, KeysInOrder
<1> QED
  BY <1>3, <1>4 DEF LoadedRecords, LoadedSize

\* No partition of the loaded records is empty, and none of them is left out.
LEMMA SubNumbers ==
  /\ LoadedSize \in Nat \ {0} /\ SubItems \in Nat \ {0} /\ MergeThreadNum \in Nat \ {0}
  /\ (MergeThreadNum - 1) * SubItems < LoadedSize
  /\ LoadedSize <= MergeThreadNum * SubItems
<1> DEFINE n == LoadedSize
           M == MergeThreadNum
           S == SubItems
<1>1. n \in Nat
  BY LoadedOrder DEF IsOrderOf, IsArray, IsVector
<1>2. M \in Nat \ {0}
  BY PartitionsAssumption
<1>3. n + M - 1 \in Nat
  BY <1>1, <1>2
<1>4. S = (n + M - 1) \div M
  BY DEF SubItems, LoadedSize
<1>5. n > (M - 1) * S
  BY NoPartitionIsEmpty DEF LoadedSize
<1> HIDE DEF S, n, M
<1>6. S \in Nat /\ M * S <= n + M - 1 /\ n + M - 1 < M * S + M
  <2>1. PICK a \in Nat : a = n + M - 1
    BY <1>3
  <2>2. S = a \div M
    BY <1>4, <2>1
  <2> QED
    BY <1>2, <2>1, <2>2, Quotient
<1>7. M * S \in Nat /\ (M - 1) * S \in Nat
  BY <1>2, <1>6
<1>8. n <= M * S /\ n > 0
  BY <1>1, <1>2, <1>5, <1>6, <1>7
<1>9. S # 0
  <2> SUFFICES ASSUME S = 0 PROVE FALSE
    OBVIOUS
  <2>1. M * S = 0
    BY <1>2
  <2> QED
    BY <1>1, <1>8, <2>1
<1> QED
  BY <1>1, <1>2, <1>5, <1>6, <1>8, <1>9 DEF n, S, M

LEMMA SubBounds ==
  ASSUME NEW p \in Partitions
  PROVE  /\ SubFrom(p) \in Nat /\ SubTo(p) \in Nat
         /\ SubFrom(p) < SubTo(p) /\ SubTo(p) <= LoadedSize
         /\ SubTo(p) = Min({(p + 1) * SubItems, LoadedSize})
         /\ p + 1 \in Partitions => SubTo(p) = SubFrom(p + 1)
         /\ p = MergeThreadNum - 1 => SubTo(p) = LoadedSize
<1> DEFINE n == LoadedSize
           M == MergeThreadNum
           S == SubItems
<1>1. /\ n \in Nat \ {0} /\ S \in Nat \ {0} /\ M \in Nat \ {0}
      /\ (M - 1) * S < n /\ n <= M * S
  BY SubNumbers
<1>2. p \in Nat /\ p <= M - 1
  BY <1>1 DEF Partitions
<1> HIDE DEF n, M, S
<1>3. p * S \in Nat /\ (p + 1) * S \in Nat /\ (p + 1) * S = p * S + S
  BY <1>1, <1>2
<1>4. p * S <= (M - 1) * S
  <2>1. S * p <= S * (M - 1)
    BY <1>1, <1>2, ProductGrows
  <2> QED
    BY <1>1, <1>2, <2>1
<1>5. (M - 1) * S \in Nat
  BY <1>1
<1>6. Min({(p + 1) * S, n}) = IF (p + 1) * S <= n THEN (p + 1) * S ELSE n
  <2>1. PICK a \in Nat : a = (p + 1) * S
    BY <1>3
  <2>2. Min({a, n}) = IF a <= n THEN a ELSE n
    BY <1>1, MinOfTwo
  <2> QED
    BY <2>1, <2>2
<1>7. CASE p = M - 1
  <2>1. (p + 1) * S = M * S
    BY <1>1, <1>7
  <2>2. Min({(p + 1) * S, n}) = n
    BY <1>1, <1>3, <1>6, <2>1
  <2>3. SubTo(p) = n /\ SubFrom(p) = p * S
    BY <1>7 DEF SubTo, SubFrom, n, M, S
  <2>4. p + 1 \notin Partitions
    BY <1>1, <1>7 DEF Partitions, M
  <2> QED
    BY <1>1, <1>3, <1>4, <1>5, <1>7, <2>2, <2>3, <2>4 DEF n, M, S
<1>8. CASE p # M - 1
  <2>1. p + 1 <= M - 1 /\ p + 1 \in Nat /\ M - 1 \in Nat
    BY <1>1, <1>2, <1>8
  <2>2. (p + 1) * S <= (M - 1) * S
    <3>1. S * (p + 1) <= S * (M - 1)
      BY <1>1, <2>1, ProductGrows
    <3> QED
      BY <1>1, <1>2, <2>1, <3>1
  <2>3. (p + 1) * S <= n
    BY <1>1, <1>3, <1>5, <2>2
  <2>4. SubTo(p) = (p + 1) * S /\ SubFrom(p) = p * S /\ SubFrom(p + 1) = (p + 1) * S
    BY <1>8 DEF SubTo, SubFrom, n, M, S
  <2> QED
    BY <1>1, <1>3, <1>6, <1>8, <2>3, <2>4 DEF n, M, S
<1> QED
  BY <1>7, <1>8

\* The records of a partition.
LEMMA SubIs ==
  ASSUME NEW p \in Partitions
  PROVE  /\ SubTo(p) - SubFrom(p) \in Nat \ {0}
         /\ IsArray(Sub(p), SubTo(p) - SubFrom(p))
         /\ RecordsOK(Sub(p))
         /\ \A i \in 0 .. SubTo(p) - SubFrom(p) - 1 :
              /\ SubFrom(p) + i \in 0 .. LoadedSize - 1
              /\ Sub(p)[i] = LoadedRecords[SubFrom(p) + i]
<1> DEFINE f == SubFrom(p)
           t == SubTo(p)
           s == Sub(p)
           L == LoadedRecords
           n == LoadedSize
<1>1. /\ f \in Nat /\ t \in Nat /\ f < t /\ t <= n
      /\ t = Min({(p + 1) * SubItems, n})
  BY SubBounds
<1>2. IsOrderOf(L, n, Loaded, 0) /\ n \in Nat
  BY LoadedOrder DEF IsOrderOf, IsArray, IsVector
<1>3. Size(L) = n
  BY <1>2, SizeIsLength DEF IsOrderOf, IsArray
<1>4. s = [i \in 0 .. t - f - 1 |-> L[f + i]]
  BY <1>1, <1>3 DEF Sub, Slice, SubFrom
<1>7. Loaded \subseteq Keys /\ 0 \in 0 .. MaxRounds /\ Keys \subseteq Int
  BY KeysAssumption, RoundsAssumption
<1> HIDE DEF f, t, s, L, n
<1>5. t - f \in Nat \ {0} /\ \A i \in 0 .. t - f - 1 : f + i \in 0 .. n - 1
  <2>1. t - f \in Nat \ {0}
    BY <1>1
  <2>2. ASSUME NEW i \in 0 .. t - f - 1 PROVE f + i \in 0 .. n - 1
    BY <1>1, <1>2
  <2> QED
    BY <2>1, <2>2
<1>6. \A i \in 0 .. t - f - 1 : s[i] = L[f + i]
  BY <1>4
<1>8. \A i \in 0 .. n - 1 : L[i] \in Record /\ L[i].key \in Int
  <2>1. \A i \in 0 .. n - 1 : L[i] \in [key : Loaded, value : {0}]
    BY <1>2 DEF IsOrderOf
  <2>2. [key : Loaded, value : {0}] \subseteq Record
    BY <1>7 DEF Record
  <2> QED
    BY <1>7, <2>1, <2>2 DEF Record
<1>9. IsArray(s, t - f)
  BY <1>4, <1>5 DEF IsArray, IsVector
<1>10. DOMAIN s = 0 .. t - f - 1
  BY <1>4
<1>11. ASSUME NEW i \in 0 .. t - f - 1, NEW j \in 0 .. t - f - 1, i < j
       PROVE  s[i].key <= s[j].key
  <2>1. f + i \in 0 .. n - 1 /\ f + j \in 0 .. n - 1 /\ f + i < f + j
    BY <1>1, <1>5, <1>11
  <2>2. L[f + i].key < L[f + j].key
    BY <1>2, <2>1 DEF IsOrderOf
  <2>3. L[f + i].key \in Int /\ L[f + j].key \in Int
    BY <1>8, <2>1
  <2> QED
    BY <1>6, <2>2, <2>3
<1>12. RecordsOK(s)
  <2>1. \A i \in 0 .. t - f - 1 : s[i] \in Record /\ s[i].key \in Int
    BY <1>5, <1>6, <1>8
  <2> QED
    BY <1>10, <1>11, <2>1 DEF RecordsOK, InKeyOrder
<1> QED
  BY <1>5, <1>6, <1>9, <1>12 DEF f, t, s, L, n

\* Partition after partition.
PutFirst == Put(NoIndex, 0, Sub(0), 0)
PutNext(x, p) == Put(x, p, Sub(p), x.pageLastIds[p - 1] + 1)

IsBuild(g, m) == g = [p \in 0 .. m |-> IF p = 0 THEN PutFirst ELSE PutNext(g[p - 1], p)]

LEMMA BuildExists ==
  ASSUME NEW n \in Nat
  PROVE  \E g : IsBuild(g, n)
<1> DEFINE S == {m \in Nat : \E g : IsBuild(g, m)}
<1>1. 0 \in S
  <2> DEFINE g == [p \in 0 .. 0 |-> PutFirst]
  <2>1. g = [p \in 0 .. 0 |-> IF p = 0 THEN PutFirst ELSE PutNext(g[p - 1], p)]
    OBVIOUS
  <2>2. IsBuild(g, 0)
    BY <2>1 DEF IsBuild
  <2> QED
    BY <2>2
<1>2. ASSUME NEW m \in Nat, m \in S PROVE m + 1 \in S
  <2>1. PICK g : IsBuild(g, m)
    BY <1>2
  <2> DEFINE h == [p \in 0 .. m + 1 |-> IF p = m + 1 THEN PutNext(g[m], m + 1) ELSE g[p]]
  <2>2. \A p \in 0 .. m : h[p] = g[p]
    OBVIOUS
  <2>3. h[m + 1] = PutNext(g[m], m + 1)
    OBVIOUS
  <2>4. \A p \in 0 .. m : g[p] = IF p = 0 THEN PutFirst ELSE PutNext(g[p - 1], p)
    BY <2>1 DEF IsBuild
  <2>5. DOMAIN h = 0 .. m + 1 /\ h = [p \in 0 .. m + 1 |-> h[p]]
    OBVIOUS
  <2> HIDE DEF h
  <2>6. ASSUME NEW p \in 0 .. m + 1
        PROVE  h[p] = IF p = 0 THEN PutFirst ELSE PutNext(h[p - 1], p)
    <3>1. CASE p = m + 1
      <4>1. p - 1 = m /\ p # 0 /\ m \in 0 .. m
        BY <3>1
      <4> QED
        BY <2>2, <2>3, <3>1, <4>1
    <3>2. CASE p # m + 1 /\ p # 0
      <4>1. p \in 0 .. m /\ p - 1 \in 0 .. m
        BY <3>2
      <4> QED
        BY <2>2, <2>4, <3>2, <4>1
    <3>3. CASE p = 0
      BY <2>2, <2>4, <3>3
    <3> QED
      BY <3>1, <3>2, <3>3
  <2>7. IsBuild(h, m + 1)
    BY <2>5, <2>6 DEF IsBuild
  <2> QED
    BY <2>7
<1> HIDE DEF S
<1>3. n \in S
  BY <1>1, <1>2, CountingUp
<1> QED
  BY <1>3 DEF S

LEMMA BuiltIs == \E g : IsBuild(g, MergeThreadNum - 1) /\ Built = g[MergeThreadNum - 1]
<1>1. MergeThreadNum - 1 \in Nat
  BY PartitionsAssumption
<1>2. PICK g : IsBuild(g, MergeThreadNum - 1)
  BY <1>1, BuildExists
<1> DEFINE D == InOrder(Loaded, 0)
           SubOf(p) == Slice(D, p * SubItems, Min({(p + 1) * SubItems, Size(D)}))
           up == CHOOSE up : up = [p \in Partitions |->
                   IF p = 0 THEN Put(NoIndex, 0, SubOf(0), 0)
                   ELSE Put(up[p - 1], p, SubOf(p), up[p - 1].pageLastIds[p - 1] + 1)]
<1>3. g = [p \in Partitions |->
             IF p = 0 THEN Put(NoIndex, 0, SubOf(0), 0)
             ELSE Put(g[p - 1], p, SubOf(p), g[p - 1].pageLastIds[p - 1] + 1)]
  BY <1>2 DEF IsBuild, Partitions, PutFirst, PutNext, Sub, LoadedRecords
<1>4. up = [p \in Partitions |->
             IF p = 0 THEN Put(NoIndex, 0, SubOf(0), 0)
             ELSE Put(up[p - 1], p, SubOf(p), up[p - 1].pageLastIds[p - 1] + 1)]
  BY <1>3
<1>5. Built = up[MergeThreadNum - 1]
  BY DEF Built
<1> HIDE DEF up
<1>6. IsBuild(up, MergeThreadNum - 1)
  BY <1>4 DEF IsBuild, Partitions, PutFirst, PutNext, Sub, LoadedRecords
<1> QED
  BY <1>5, <1>6

LEMMA NoIndexIs == IsIndex(NoIndex)
<1> DEFINE zero == [p \in Partitions |-> 0]
           none == [p \in Partitions |-> <<>>]
<1>1. NoIndex = [dataNumbers |-> zero, pageStartIds |-> zero, pageLastIds |-> zero,
                 partitionKeys |-> zero, trained |-> none, file |-> <<>>]
  BY DEF NoIndex
<1>2. zero \in [Partitions -> Nat] /\ zero \in [Partitions -> Int] /\ DOMAIN none = Partitions
  OBVIOUS
<1>3. DOMAIN <<>> = {}
  OBVIOUS
<1> HIDE DEF zero, none
<1>4. NoIndex.trained = none /\ NoIndex.file = <<>>
  BY <1>1
<1>5. FileTyped(<<>>)
  BY <1>3 DEF FileTyped
<1>6. NoIndex \in Index({none}, {<<>>})
  BY <1>1, <1>2 DEF Index
<1> QED
  BY <1>2, <1>4, <1>5, <1>6 DEF IsIndex

HasParts(x, m) ==
  /\ IsIndex(x)
  /\ \A q \in 0 .. m :
       /\ PartOK(x, q) /\ Data(x, q) = Sub(q)
       /\ x.dataNumbers[q] = SubTo(q) - SubFrom(q)
       /\ x.pageLastIds[q] <= x.pageLastIds[m]

LEMMA BuildStarts == HasParts(PutFirst, 0)
<1>1. PICK p \in Partitions : p = 0
  BY PartitionsAssumption DEF Partitions
<1>2. PICK zero \in Nat : zero = 0
  OBVIOUS
<1> DEFINE n == SubTo(p) - SubFrom(p)
           y == Put(NoIndex, p, Sub(p), zero)
<1>3. n \in Nat \ {0} /\ IsArray(Sub(p), n) /\ RecordsOK(Sub(p))
  BY SubIs
<1>4. PutFirst = y
  BY <1>1, <1>2 DEF PutFirst
<1> HIDE DEF n
<1>5. IsVector(Sub(p), n)
  BY <1>3 DEF IsArray
<1>6. IsIndex(y)
  BY <1>3, <1>5, NoIndexIs, PutTyped
<1>7. PartOK(y, p) /\ Data(y, p) = Sub(p) /\ y.dataNumbers[p] = n
  BY <1>3, NoIndexIs, PutHolds
<1>8. y.pageLastIds[p] \in Nat
  BY <1>6 DEF IsIndex, Index
<1> HIDE DEF y
<1>9. \A q \in 0 .. 0 : q = p
  BY <1>1
<1>10. y.pageLastIds[p] <= y.pageLastIds[p]
  BY <1>8
<1> QED
  BY <1>1, <1>4, <1>6, <1>7, <1>9, <1>10 DEF HasParts, n

LEMMA BuildGoesOn ==
  ASSUME NEW m \in Nat, m + 1 \in Partitions, NEW x, HasParts(x, m)
  PROVE  HasParts(PutNext(x, m + 1), m + 1)
<1>1. PICK p \in Partitions : p = m + 1
  OBVIOUS
<1>2. m \in Partitions /\ \A q \in 0 .. m : q \in Partitions /\ q # p
  BY <1>1, PartitionsAssumption DEF Partitions
<1>3. IsIndex(x) /\ x.pageLastIds[m] \in Nat
  BY <1>2 DEF HasParts, IsIndex, Index
<1>4. PICK start \in Nat : start = x.pageLastIds[m] + 1
  BY <1>3
<1> DEFINE n == SubTo(p) - SubFrom(p)
<1>14. PICK y : y = Put(x, p, Sub(p), start)
  OBVIOUS
<1>5. n \in Nat \ {0} /\ IsArray(Sub(p), n) /\ RecordsOK(Sub(p))
  BY SubIs
<1>6. PutNext(x, m + 1) = y
  <2>1. p - 1 = m
    BY <1>1
  <2> QED
    BY <1>1, <1>4, <1>14, <2>1 DEF PutNext
<1> HIDE DEF n
<1>7. IsVector(Sub(p), n)
  BY <1>5 DEF IsArray
<1>8. IsIndex(y)
  BY <1>3, <1>5, <1>7, <1>14, PutTyped
<1>9. /\ PartOK(y, p) /\ Data(y, p) = Sub(p) /\ y.dataNumbers[p] = n
      /\ y.pageLastIds[p] + 1 = start + PagesFor(n)
  BY <1>3, <1>5, <1>14, PutHolds
<1>10. y.pageLastIds[p] \in Nat /\ PagesFor(n) \in Nat
  BY <1>5, <1>8, PagesUpToLast DEF IsIndex, Index
<1>11. ASSUME NEW q \in 0 .. m
       PROVE  /\ PartOK(y, q) /\ Data(y, q) = Sub(q)
              /\ y.dataNumbers[q] = SubTo(q) - SubFrom(q)
              /\ y.pageLastIds[q] <= y.pageLastIds[p]
  <2>1. q \in Partitions /\ q # p
    BY <1>2
  <2>2. /\ PartOK(x, q) /\ Data(x, q) = Sub(q) /\ x.dataNumbers[q] = SubTo(q) - SubFrom(q)
        /\ x.pageLastIds[q] <= x.pageLastIds[m]
    BY DEF HasParts
  <2>3. x.pageLastIds[q] \in Nat
    BY <1>3, <2>1 DEF IsIndex, Index
  <2>4. x.pageLastIds[q] < start
    BY <1>3, <1>4, <2>2, <2>3
  <2>5. /\ PartOK(y, q) /\ Data(y, q) = Data(x, q)
        /\ y.dataNumbers[q] = x.dataNumbers[q] /\ y.pageLastIds[q] = x.pageLastIds[q]
    BY <1>3, <1>5, <1>7, <1>14, <2>1, <2>2, <2>4, PutSpares
  <2>6. x.pageLastIds[q] <= y.pageLastIds[p]
    BY <1>9, <1>10, <2>3, <2>4
  <2> QED
    BY <2>2, <2>5, <2>6
<1>12. \A q \in 0 .. m + 1 : q \in 0 .. m \/ q = p
  BY <1>1
<1>13. y.pageLastIds[p] <= y.pageLastIds[p]
  BY <1>10
<1> QED
  BY <1>1, <1>6, <1>8, <1>9, <1>11, <1>12, <1>13 DEF HasParts, n

LEMMA BuiltHasParts == HasParts(Built, MergeThreadNum - 1)
<1> DEFINE M == MergeThreadNum - 1
<1>1. M \in Nat /\ Partitions = 0 .. M
  BY PartitionsAssumption DEF Partitions
<1>2. PICK g : IsBuild(g, M) /\ Built = g[M]
  BY BuiltIs
<1>3. \A p \in 0 .. M : g[p] = IF p = 0 THEN PutFirst ELSE PutNext(g[p - 1], p)
  BY <1>2 DEF IsBuild
<1> HIDE DEF M
<1> DEFINE S == {m \in Nat : m <= M => HasParts(g[m], m)}
<1>4. 0 \in S
  BY <1>1, <1>3, BuildStarts
<1>5. ASSUME NEW m \in Nat, m \in S PROVE m + 1 \in S
  <2> SUFFICES ASSUME m + 1 <= M PROVE HasParts(g[m + 1], m + 1)
    OBVIOUS
  <2>1. HasParts(g[m], m) /\ m + 1 \in Partitions
    BY <1>1, <1>5
  <2>2. m + 1 \in 0 .. M /\ m + 1 # 0 /\ (m + 1) - 1 = m
    BY <1>1
  <2>3. g[m + 1] = PutNext(g[m], m + 1)
    BY <1>3, <2>2
  <2> QED
    BY <2>1, <2>3, BuildGoesOn
<1> HIDE DEF S
<1>6. M \in S
  BY <1>1, <1>4, <1>5, CountingUp
<1>7. HasParts(g[M], M)
  BY <1>1, <1>6 DEF S
<1> QED
  BY <1>2, <1>7 DEF M

\* The keys that divide the records: the last key of each partition.
Ends == Built.partitionKeys

LEMMA BuiltEnds ==
  /\ Ends \in [Partitions -> Int]
  /\ \A p \in Partitions : Ends[p] = LoadedRecords[SubTo(p) - 1].key /\ Ends[p] \in Loaded
  /\ \A p, q \in Partitions : p < q => Ends[p] < Ends[q]
<1>1. IsIndex(Built) /\ Partitions = 0 .. MergeThreadNum - 1
  BY BuiltHasParts DEF HasParts, Partitions
<1>2. Ends \in [Partitions -> Int]
  BY <1>1 DEF Ends, IsIndex, Index
<1>3. ASSUME NEW p \in Partitions
      PROVE  /\ Ends[p] = LoadedRecords[SubTo(p) - 1].key /\ SubTo(p) - 1 \in 0 .. LoadedSize - 1
             /\ Ends[p] \in Loaded
  <2> DEFINE n == SubTo(p) - SubFrom(p)
  <2>1. /\ PartOK(Built, p) /\ Data(Built, p) = Sub(p) /\ Built.dataNumbers[p] = n
    BY <1>1, BuiltHasParts DEF HasParts
  <2>2. Ends[p] = Sub(p)[n - 1].key
    BY <2>1 DEF PartOK, Ends
  <2>3. n \in Nat \ {0} /\ SubFrom(p) \in Nat /\ SubTo(p) \in Nat
    BY SubBounds, SubIs
  <2>4. n - 1 \in 0 .. n - 1
    BY <2>3
  <2>5. SubFrom(p) + (n - 1) \in 0 .. LoadedSize - 1 /\ Sub(p)[n - 1] = LoadedRecords[SubFrom(p) + (n - 1)]
    BY <2>4, SubIs
  <2>6. SubFrom(p) + (n - 1) = SubTo(p) - 1
    BY <2>3
  <2> HIDE DEF n
  <2>7. LoadedRecords[SubTo(p) - 1] \in [key : Loaded, value : {0}]
    BY <2>5, <2>6, LoadedOrder DEF IsOrderOf
  <2> QED
    BY <2>2, <2>5, <2>6, <2>7
<1>4. ASSUME NEW p \in Partitions, NEW q \in Partitions, p < q
      PROVE  Ends[p] < Ends[q]
  <2>1. SubTo(p) < SubTo(q)
    <3>1. p \in Nat /\ q \in Nat /\ p + 1 <= q /\ p + 1 \in Partitions
      BY <1>1, <1>4, PartitionsAssumption
    <3>2. SubTo(p) = SubFrom(p + 1) /\ SubFrom(q) < SubTo(q) /\ SubTo(q) \in Nat /\ SubTo(p) \in Nat
      BY <3>1, SubBounds
    <3>3. (p + 1) * SubItems <= q * SubItems
      <4>1. SubItems * (p + 1) <= SubItems * q
        BY <3>1, SubNumbers, ProductGrows
      <4> QED
        BY <3>1, <4>1, SubNumbers
    <3>4. SubFrom(p + 1) = (p + 1) * SubItems /\ SubFrom(q) = q * SubItems
      BY DEF SubFrom
    <3>5. (p + 1) * SubItems \in Int /\ q * SubItems \in Int
      BY <3>1, SubNumbers
    <3> QED
      BY <3>2, <3>3, <3>4, <3>5
  <2>2. SubTo(p) - 1 < SubTo(q) - 1
    <3>1. SubTo(p) \in Nat /\ SubTo(q) \in Nat
      BY SubBounds
    <3> QED
      BY <2>1, <3>1
  <2>3. LoadedRecords[SubTo(p) - 1].key < LoadedRecords[SubTo(q) - 1].key
    BY <1>3, <2>2, LoadedOrder DEF IsOrderOf
  <2> QED
    BY <1>3, <2>3
<1> QED
  BY <1>2, <1>3, <1>4

-----------------------------------------------------------------------------
(* What PartitionData computes.                                             *)

RangeRow(data, p, stored) ==
  [startPage |-> backup.pageStartIds[p],
   pageNum   |-> backup.pageLastIds[p] - backup.pageStartIds[p] + 1,
   dataNum   |-> backup.dataNumbers[p],
   first     |-> GetDynamicRange(data, p).first,
   end       |-> GetDynamicRange(data, p).end,
   stored    |-> stored]

\* How many records a partition will have.
RowLength(data, p) ==
  backup.dataNumbers[p] + GetDynamicRange(data, p).end - GetDynamicRange(data, p).first

IsRangeTable(R, data) ==
  /\ \A p \in Partitions :
       /\ R[p].startPage = backup.pageStartIds[p] /\ R[p].dataNum = backup.dataNumbers[p]
       /\ R[p].first = GetDynamicRange(data, p).first
       /\ R[p].end = GetDynamicRange(data, p).end
       /\ R[p].stored \in Nat
  /\ \A p, q \in Partitions : p < q => R[p].stored + PagesFor(Length(R[p])) <= R[q].stored

LEMMA RangeTable ==
  ASSUME NEW data, \A p \in Partitions : RowLength(data, p) \in Nat
  PROVE  IsRangeTable(PartitionRanges(data), data)
<1> DEFINE R == PartitionRanges(data)
           Next0(g, p) == IF p = 0 THEN 0 ELSE g[p - 1].stored + PagesOf(g[p - 1])
           M == MergeThreadNum
           c == [p \in Partitions |-> PagesFor(RowLength(data, p))]
<1>1. M \in Nat \ {0} /\ Partitions = 0 .. M - 1
  BY PartitionsAssumption DEF Partitions
<1>2. \A p \in Partitions : c[p] = PagesFor(RowLength(data, p)) /\ c[p] \in Nat
  BY PagesHold
<1>3. \A p \in Partitions : \A stored :
        /\ PagesOf(RangeRow(data, p, stored)) = c[p]
        /\ RangeRow(data, p, stored).stored = stored
  BY <1>2 DEF PagesOf, RangeRow, RowLength
<1> HIDE DEF c, M
<1>4. PICK s : IsRunningSum(s, c, M)
  BY <1>1, <1>2, RunningSum
<1>5. /\ s \in [0 .. M -> Nat] /\ s[0] = 0 /\ \A p \in 0 .. M - 1 : s[p + 1] = s[p] + c[p]
  BY <1>4 DEF IsRunningSum
<1> DEFINE g == [p \in Partitions |-> RangeRow(data, p, s[p])]
<1>6. \A p \in Partitions : g[p] = RangeRow(data, p, s[p])
  OBVIOUS
<1>7. DOMAIN g = Partitions /\ g = [p \in Partitions |-> g[p]]
  OBVIOUS
<1> HIDE DEF g
<1>8. \A p \in Partitions : g[p].stored = s[p] /\ PagesOf(g[p]) = c[p]
  BY <1>3, <1>6
<1>9. ASSUME NEW p \in Partitions PROVE s[p] = Next0(g, p)
  <2>1. CASE p = 0
    BY <1>5, <2>1
  <2>2. CASE p # 0
    <3>1. p - 1 \in Partitions /\ p - 1 \in 0 .. M - 1 /\ (p - 1) + 1 = p
      BY <1>1, <2>2
    <3>2. s[p] = s[p - 1] + c[p - 1]
      BY <1>5, <3>1
    <3> QED
      BY <1>8, <2>2, <3>1, <3>2
  <2> QED
    BY <2>1, <2>2
<1>10. g = [p \in Partitions |-> RangeRow(data, p, Next0(g, p))]
  BY <1>6, <1>7, <1>9
<1>11. R = [p \in Partitions |-> RangeRow(data, p, Next0(R, p))]
  <2>1. g = [p \in Partitions |-> [startPage |-> backup.pageStartIds[p],
             pageNum   |-> backup.pageLastIds[p] - backup.pageStartIds[p] + 1,
             dataNum   |-> backup.dataNumbers[p],
             first     |-> GetDynamicRange(data, p).first,
             end       |-> GetDynamicRange(data, p).end,
             stored    |-> IF p = 0 THEN 0
                           ELSE g[p - 1].stored + PagesOf(g[p - 1])]]
    BY <1>10 DEF RangeRow
  <2> HIDE <1>10
  <2>2. R = [p \in Partitions |-> [startPage |-> backup.pageStartIds[p],
             pageNum   |-> backup.pageLastIds[p] - backup.pageStartIds[p] + 1,
             dataNum   |-> backup.dataNumbers[p],
             first     |-> GetDynamicRange(data, p).first,
             end       |-> GetDynamicRange(data, p).end,
             stored    |-> IF p = 0 THEN 0
                           ELSE R[p - 1].stored + PagesOf(R[p - 1])]]
    BY <2>1 DEF PartitionRanges
  <2> HIDE DEF R
  <2> QED
    BY <2>2 DEF RangeRow
<1> HIDE DEF R
<1>12. \A p \in Partitions : R[p] = RangeRow(data, p, Next0(R, p))
  BY <1>11
<1>13. \A p \in Partitions : R[p].stored = Next0(R, p) /\ PagesOf(R[p]) = c[p]
  BY <1>3, <1>12
<1> DEFINE S == {m \in Nat : m < M => R[m].stored = s[m]}
<1>14. 0 \in S
  <2>1. 0 \in Partitions
    BY <1>1
  <2> QED
    BY <1>5, <1>13, <2>1
<1>15. ASSUME NEW m \in Nat, m \in S PROVE m + 1 \in S
  <2> SUFFICES ASSUME m + 1 < M PROVE R[m + 1].stored = s[m + 1]
    OBVIOUS
  <2>1. m \in Partitions /\ m \in 0 .. M - 1 /\ m + 1 \in Partitions /\ (m + 1) - 1 = m /\ m + 1 # 0
    BY <1>1
  <2>2. R[m].stored = s[m]
    BY <1>1, <1>15, <2>1
  <2>3. R[m + 1].stored = R[m].stored + PagesOf(R[m])
    BY <1>13, <2>1
  <2>4. s[m + 1] = s[m] + c[m]
    BY <1>5, <2>1
  <2> QED
    BY <1>13, <2>1, <2>2, <2>3, <2>4
<1> HIDE DEF S, Next0
<1>16. \A p \in Partitions : R[p].stored = s[p]
  <2> TAKE p \in Partitions
  <2>1. p \in Nat /\ p < M
    BY <1>1
  <2>2. p \in S
    BY <1>14, <1>15, <2>1, CountingUp
  <2> QED
    BY <2>1, <2>2 DEF S
<1>17. \A p \in Partitions : s[p] \in Nat /\ c[p] \in Nat
  BY <1>1, <1>2, <1>5
<1>18. ASSUME NEW p \in Partitions, NEW q \in Partitions, p < q
       PROVE  s[p] + c[p] <= s[q]
  <2>1. p \in 0 .. M - 1 /\ q \in 0 .. M /\ M \in Nat
    BY <1>1
  <2>2. \A x \in 0 .. M - 1 : c[x] \in Nat
    BY <1>1, <1>2
  <2> QED
    BY <1>4, <1>18, <2>1, <2>2, SumsAreApart
<1>19. ASSUME NEW p \in Partitions
       PROVE  /\ R[p].startPage = backup.pageStartIds[p] /\ R[p].dataNum = backup.dataNumbers[p]
              /\ R[p].first = GetDynamicRange(data, p).first
              /\ R[p].end = GetDynamicRange(data, p).end
  <2>1. PICK stored : stored = Next0(R, p)
    OBVIOUS
  <2>2. R[p] = RangeRow(data, p, stored)
    BY <1>12, <2>1
  <2>3. PICK row : row = RangeRow(data, p, stored)
    OBVIOUS
  <2>4. /\ row.startPage = backup.pageStartIds[p] /\ row.dataNum = backup.dataNumbers[p]
        /\ row.first = GetDynamicRange(data, p).first
        /\ row.end = GetDynamicRange(data, p).end
    BY <2>3 DEF RangeRow
  <2> QED
    BY <2>2, <2>3, <2>4
<1>20. \A p \in Partitions : PagesFor(Length(R[p])) = c[p]
  BY <1>13 DEF PagesOf, Length
<1> QED
  BY <1>16, <1>17, <1>18, <1>19, <1>20 DEF IsRangeTable, R

-----------------------------------------------------------------------------
(* The inductive invariant.                                                 *)

\* An index whose partitions are all stored, divided by the keys of the first
\* one: a merge adds no record behind the last one of a partition.
IsGood(x) ==
  /\ IsIndex(x)
  /\ \A p \in Partitions : PartOK(x, p)
  /\ x.partitionKeys = Ends

\* The records collected are those of some keys, in order.
DynamicIs(keys) == keys \in (SUBSET Handed) \ {{}} /\ dynamic = InOrder(keys, round)

\* The row of PartitionData, in terms of the version in use.
RangeIs(p) ==
  /\ ranges[p].startPage = current.pageStartIds[p]
  /\ ranges[p].dataNum = current.dataNumbers[p]
  /\ ranges[p].first = (IF p > 0 THEN DynamicIndexOf(dynamic, Ends[p - 1]) ELSE 0)
  /\ ranges[p].end = DynamicIndexOf(dynamic, Ends[p])
  /\ ranges[p].stored \in Nat

Apart ==
  \A p, q \in Partitions : p < q =>
    ranges[p].stored + PagesFor(Length(ranges[p])) <= ranges[q].stored

Counts(w) ==
  w.i \in -1 .. Size(dynamic) /\ w.j \in Int /\ w.cnt \in -1 .. Size(w.arr)

\* A task that is over has stored the merge of its records, in its own pages.
StoredOK(p) ==
  /\ PartOK(backup, p)
  /\ backup.dataNumbers[p] = Length(ranges[p])
  /\ backup.pageStartIds[p] = ranges[p].stored
  /\ backup.pageLastIds[p] + 1 = ranges[p].stored + PagesFor(Length(ranges[p]))
  /\ Data(backup, p) = Merged(task[p], ranges[p])

TaskIs(p) ==
  /\ task[p].at \in {"none", "offered", "merge", "finished"}
  /\ Counts(task[p])
  /\ task[p].at = "none" => task[p] = NoTask
  /\ task[p].at \in {"merge", "finished"} => task[p].read = Data(current, p)
  /\ task[p].at = "merge" => Merging(task[p], ranges[p])
  /\ task[p].at = "finished" => StoredOK(p)

\* Between Collect and PartitionData the copy is that of the version in use;
\* from PartitionData to Publish no task is without its row.
CopyIs == dynamic # <<>> /\ Quiet => backup = [current EXCEPT !.file = <<>>]

Started(p) == task[p].at # "none" /\ RangeIs(p)

UnderWay == dynamic # <<>> /\ Apart /\ \A p \in Partitions : Started(p)

DynamicOK ==
  dynamic # <<>> => (\E keys : DynamicIs(keys)) /\ backup.partitionKeys = Ends

Numbers == round \in 0 .. MaxRounds /\ newest \in [Keys -> -1 .. MaxRounds]

Tasks == task = [p \in Partitions |-> task[p]] /\ \A p \in Partitions : TaskIs(p)

MInv ==
  /\ IsGood(current)
  /\ IsIndex(backup)
  /\ DynamicOK
  /\ CopyIs
  /\ Quiet \/ UnderWay
  /\ Tasks
  /\ Numbers

\* The records collected.
IsCollected(v, n) ==
  /\ n \in Nat \ {0} /\ IsArray(v, n) /\ InKeyOrder(v)
  /\ \A i \in 0 .. n - 1 : v[i] \in Record /\ v[i].key \in Handed
  /\ \A i, j \in 0 .. n - 1 : i < j => v[i].key < v[j].key

LEMMA CollectedIs ==
  ASSUME NEW keys \in (SUBSET Handed) \ {{}}, NEW value \in 0 .. MaxRounds
  PROVE  IsCollected(InOrder(keys, value), Cardinality(keys))
<1> DEFINE v == InOrder(keys, value)
           n == Cardinality(keys)
<1>1. keys \in SUBSET Int /\ IsFiniteSet(keys) /\ keys \subseteq Keys /\ Keys \subseteq Int
  <2>1. keys \in SUBSET Keys /\ IsFiniteSet(Keys) /\ Keys \subseteq Int
    BY KeysAssumption
  <2>2. IsFiniteSet(keys)
    BY <2>1, FS_Subset
  <2> QED
    BY <2>1, <2>2
<1>2. IsOrderOf(v, n, keys, value)
  BY <1>1, KeysInOrder
<1>3. n \in Nat \ {0}
  <2>1. n # 0
    BY <1>1, FS_EmptySet
  <2>2. n \in Nat
    BY <1>1, FS_CardinalityType
  <2> QED
    BY <2>1, <2>2
<1> HIDE DEF v, n
<1>4. /\ IsArray(v, n) /\ \A i \in 0 .. n - 1 : v[i] \in [key : keys, value : {value}]
      /\ \A i, j \in 0 .. n - 1 : i < j => v[i].key < v[j].key
  BY <1>2 DEF IsOrderOf
<1>5. \A i \in 0 .. n - 1 : v[i] \in Record /\ v[i].key \in Handed /\ v[i].key \in Int
  <2>1. [key : keys, value : {value}] \subseteq Record
    BY <1>1 DEF Record
  <2> QED
    BY <1>1, <1>4, <2>1
<1>6. DOMAIN v = 0 .. n - 1
  BY <1>4 DEF IsArray, IsVector
<1>7. InKeyOrder(v)
  <2> SUFFICES ASSUME NEW i \in 0 .. n - 1, NEW j \in 0 .. n - 1, i < j
               PROVE  v[i].key <= v[j].key
    BY <1>5, <1>6 DEF InKeyOrder
  <2>1. v[i].key < v[j].key /\ v[i].key \in Int /\ v[j].key \in Int
    BY <1>4, <1>5
  <2> QED
    BY <2>1
<1> QED
  BY <1>3, <1>4, <1>5, <1>7 DEF IsCollected, v, n

LEMMA DynamicIsCollected ==
  ASSUME MInv, dynamic # <<>>
  PROVE  \E n : IsCollected(dynamic, n)
BY CollectedIs DEF MInv, DynamicOK, DynamicIs, Numbers

\* Where the records of a partition lie among those collected.
LEMMA PartLies ==
  ASSUME NEW n, IsCollected(dynamic, n), NEW p \in Partitions, NEW first, NEW end,
         first = (IF p > 0 THEN DynamicIndexOf(dynamic, Ends[p - 1]) ELSE 0),
         end = DynamicIndexOf(dynamic, Ends[p])
  PROVE  /\ first \in 0 .. n /\ end \in 0 .. n /\ first <= end
         /\ \A i \in 0 .. n - 1 : i < end <=> dynamic[i].key < Ends[p]
         /\ p > 0 => \A i \in 0 .. n - 1 : i < first <=> dynamic[i].key < Ends[p - 1]
         /\ p = 0 => first = 0
<1>1. n \in Nat /\ IsVector(dynamic, n) /\ InKeyOrder(dynamic)
  BY DEF IsCollected, IsArray
<1>2. Ends[p] \in Int /\ p \in Nat
  BY BuiltEnds DEF Partitions
<1>3. end \in 0 .. n /\ \A i \in 0 .. n - 1 : dynamic[i].key < Ends[p] <=> i < end
  BY <1>1, <1>2, DynamicIndexIs
<1>4. CASE p > 0
  <2>1. p - 1 \in Partitions /\ p - 1 < p
    BY <1>2, <1>4, PartitionsAssumption DEF Partitions
  <2>2. Ends[p - 1] \in Int /\ Ends[p - 1] < Ends[p]
    BY <2>1, BuiltEnds
  <2>3. first \in 0 .. n /\ \A i \in 0 .. n - 1 : dynamic[i].key < Ends[p - 1] <=> i < first
    BY <1>1, <1>4, <2>2, DynamicIndexIs
  <2>4. first <= end
    <3>1. Ends[p - 1] <= Ends[p]
      BY <1>2, <2>2
    <3> QED
      BY <1>1, <1>2, <1>4, <2>2, <3>1, IndexGrows
  <2> QED
    BY <1>3, <1>4, <2>3, <2>4
<1>5. CASE p = 0
  <2>1. first = 0
    BY <1>5
  <2>2. first \in 0 .. n /\ first <= end
    BY <1>1, <1>3, <2>1
  <2> QED
    BY <1>3, <1>5, <2>1, <2>2
<1> QED
  BY <1>2, <1>4, <1>5

\* The records that the version in use has of a partition.
LEMMA HeldIs ==
  ASSUME NEW x, IsIndex(x), NEW p \in Partitions, PartOK(x, p)
  PROVE  /\ x.dataNumbers[p] \in Nat \ {0}
         /\ IsArray(Data(x, p), x.dataNumbers[p])
         /\ RecordsOK(Data(x, p)) /\ Sorted(Data(x, p), x.dataNumbers[p])
<1>1. x.dataNumbers[p] \in Nat \ {0}
  BY DEF IsIndex, Index, PartOK
<1>2. IsArray(Data(x, p), x.dataNumbers[p])
  BY <1>1 DEF Data, GetAllData, IsArray, IsVector
<1> QED
  BY <1>1, <1>2 DEF PartOK, RecordsOK, Sorted, IsArray

\* What a task is given is in order, and within its vectors.
LEMMA GivenRows ==
  ASSUME MInv, NEW p \in Partitions, task[p].at # "none"
  PROVE  \E n : /\ IsCollected(dynamic, n) /\ Size(dynamic) = n
                /\ Usable(ranges[p])
                /\ ranges[p].dataNum = current.dataNumbers[p]
                /\ ranges[p].dataNum > 0 /\ ranges[p].end <= n
                /\ Length(ranges[p]) \in Nat \ {0}
<1> DEFINE r == ranges[p]
<1>1. dynamic # <<>> /\ RangeIs(p)
  BY DEF MInv, Quiet, UnderWay, Started
<1>2. PICK n : IsCollected(dynamic, n)
  BY <1>1, DynamicIsCollected
<1>3. n \in Nat /\ IsVector(dynamic, n)
  BY <1>2 DEF IsCollected, IsArray
<1>4. Size(dynamic) = n
  BY <1>3, SizeIsLength
<1>5. r.first \in 0 .. n /\ r.end \in 0 .. n /\ r.first <= r.end
  BY <1>1, <1>2, PartLies DEF RangeIs
<1>6. r.dataNum \in Nat \ {0} /\ r.dataNum = current.dataNumbers[p]
  BY <1>1, HeldIs DEF RangeIs, MInv, IsGood
<1> HIDE DEF r
<1>7. Length(r) \in Nat \ {0}
  <2>1. r.first \in Nat /\ r.end \in Nat
    BY <1>3, <1>5
  <2> QED
    BY <1>5, <1>6, <2>1 DEF Length
<1>8. \A x \in r.first .. r.end - 1 : x \in 0 .. n - 1
  BY <1>3, <1>5
<1>9. \A x \in 0 .. n - 1 : dynamic[x] \in Records
  <2>1. Record \subseteq Records
    <3>1. Keys \subseteq Int /\ 0 .. MaxRounds \subseteq Int
      BY KeysAssumption
    <3> QED
      BY <3>1 DEF Record, Records
  <2> QED
    BY <1>2, <2>1 DEF IsCollected
<1>10. \A x, y \in 0 .. n - 1 : x < y => dynamic[x].key <= dynamic[y].key
  BY <1>2, <1>3 DEF IsCollected, InKeyOrder, IsVector
<1>11. Usable(r)
  BY <1>3, <1>5, <1>6, <1>7, <1>8, <1>9, <1>10 DEF Usable
<1>12. r.end <= n /\ r.dataNum > 0
  BY <1>3, <1>5, <1>6
<1> QED
  BY <1>2, <1>4, <1>6, <1>7, <1>11, <1>12 DEF r

-----------------------------------------------------------------------------
(* What follows from it.                                                    *)

LEMMA IndexIsOK == ASSUME NEW x, IsIndex(x) PROVE IndexOK(x)
BY DEF IsIndex, Index, IndexOK, FileTyped

LEMMA MInvTypeOK == ASSUME MInv PROVE TypeOK
<1>1. IndexOK(current) /\ IndexOK(backup)
  BY IndexIsOK DEF MInv, IsGood
<1>2. \A i \in DOMAIN dynamic : dynamic[i] \in Record
  <2>1. CASE dynamic = <<>>
    BY <2>1
  <2>2. CASE dynamic # <<>>
    <3>1. PICK n : IsCollected(dynamic, n)
      BY <2>2, DynamicIsCollected
    <3> QED
      BY <3>1 DEF IsCollected, IsArray, IsVector
  <2> QED
    BY <2>1, <2>2
<1>3. \A p \in Partitions :
        /\ task[p].at \in {"none", "offered", "merge", "finished"}
        /\ task[p].i \in -1 .. Size(dynamic) /\ task[p].j \in Int
        /\ task[p].cnt \in -1 .. Size(task[p].arr)
  BY DEF MInv, Tasks, TaskIs, Counts
<1> QED
  BY <1>1, <1>2, <1>3 DEF TypeOK, MInv, Numbers

LEMMA MInvInPlace == ASSUME MInv PROVE MergedInPlace
BY DEF MInv, Tasks, TaskIs, Merging, Kept, MergedInPlace

LEMMA MInvStored == ASSUME MInv PROVE StoredIsMerge
<1> SUFFICES ASSUME NEW p \in Partitions, task[p].at = "finished"
             PROVE  GetAllData(backup.file, backup.pageStartIds[p], backup.dataNumbers[p])
                      = Interleave(Slice(dynamic, ranges[p].first, ranges[p].end), task[p].read, TRUE)
  BY DEF StoredIsMerge
<1> QED
  BY DEF MInv, Tasks, TaskIs, StoredOK, Data, Merged, Part

\* What a task stores.
LEMMA StoresMerge ==
  ASSUME MInv, NEW p \in Partitions, Store(p)
  PROVE  /\ task[p].arr = Merged(task[p], ranges[p])
         /\ IsArray(task[p].arr, Length(ranges[p]))
         /\ RecordsOK(task[p].arr)
         /\ task[p].arr[Length(ranges[p]) - 1].key = Ends[p]
<1> DEFINE w == task[p]
           r == ranges[p]
           s == w.read
           d == Part(r)
           a == r.end - r.first
           b == r.dataNum
           m == Merged(w, r)
<1>1. /\ w.at = "merge" /\ ~(w.i >= r.first)
      /\ Merging(w, r) /\ s = Data(current, p)
  BY DEF Store, DynamicLeft, MInv, Tasks, TaskIs
<1>2. PICK n : /\ IsCollected(dynamic, n) /\ Usable(r) /\ r.end <= n /\ b > 0
               /\ b = current.dataNumbers[p] /\ Length(r) \in Nat \ {0}
  BY <1>1, GivenRows
<1>3. w.arr = m
  BY <1>1, <1>2, MergeIsDone
<1>4. /\ b \in Nat /\ a \in Nat /\ r.first \in Nat /\ r.end \in Nat /\ Length(r) = a + b
  BY <1>2 DEF Usable, Length
<1>14. PICK l \in Nat \ {0} : l = a + b
  BY <1>2, <1>4
<1>5. Sorted(s, b) /\ RecordsOK(s) /\ s[b - 1].key = Ends[p]
  <2>1. PartOK(current, p) /\ IsIndex(current) /\ current.partitionKeys = Ends
    BY DEF MInv, IsGood
  <2> QED
    BY <1>1, <1>2, <2>1, HeldIs DEF PartOK
<1>6. /\ IsVector(d, a) /\ InKeyOrder(d)
      /\ \A i \in 0 .. a - 1 : d[i] = dynamic[r.first + i]
  BY <1>2, PartIs
<1>7. IsMerge(m, d, a, s, b)
  <2>1. PICK yes \in BOOLEAN : yes = TRUE
    OBVIOUS
  <2>2. IsVector(s, b) /\ InKeyOrder(s)
    BY <1>5 DEF Sorted
  <2> DEFINE mm == Interleave(d, s, yes)
  <2> HIDE DEF d, a, b, s
  <2>3. IsMerge(mm, d, a, s, b)
    BY <1>6, <2>2, InterleaveMerges
  <2>4. mm = m
    BY <2>1 DEF Merged, d, s
  <2> QED
    BY <2>3, <2>4
<1>8. /\ IsVector(m, l) /\ InKeyOrder(m)
      /\ \A x \in 0 .. l - 1 :
           (\E i \in 0 .. a - 1 : m[x] = d[i]) \/ (\E j \in 0 .. b - 1 : m[x] = s[j])
      /\ \A j \in 0 .. b - 1 : \E x \in 0 .. l - 1 : m[x] = s[j]
  <2> HIDE DEF m, a, b, d, s
  <2>1. IsVector(m, a + b) /\ InKeyOrder(m)
    BY <1>7 DEF IsMerge
  <2>2. \A x \in 0 .. a + b - 1 :
           (\E i \in 0 .. a - 1 : m[x] = d[i]) \/ (\E j \in 0 .. b - 1 : m[x] = s[j])
    BY <1>7 DEF IsMerge
  <2>3. \A j \in 0 .. b - 1 : \E x \in 0 .. a + b - 1 : m[x] = s[j]
    BY <1>7 DEF IsMerge
  <2>4. a + b = l
    BY <1>14
  <2>5. IsVector(m, l) /\ InKeyOrder(m)
    BY <2>1, <2>4
  <2>6. a + b - 1 = l - 1
    BY <1>4, <2>4
  <2>7. \A x \in 0 .. l - 1 :
           (\E i \in 0 .. a - 1 : m[x] = d[i]) \/ (\E j \in 0 .. b - 1 : m[x] = s[j])
    BY <2>2, <2>6
  <2>8. \A j \in 0 .. b - 1 : \E x \in 0 .. l - 1 : m[x] = s[j]
    BY <2>3, <2>6
  <2> QED
    BY <2>5, <2>7, <2>8
<1>9. IsArray(m, l)
  <2>1. DOMAIN m = 0 .. l - 1
    BY <1>8 DEF IsVector
  <2>2. m = [x \in DOMAIN m |-> m[x]]
    BY InterleaveIsFunction DEF Merged
  <2> HIDE DEF m, a, b
  <2> QED
    BY <1>8, <2>1, <2>2 DEF IsArray
<1>10. \A i \in 0 .. a - 1 : d[i] \in Record /\ d[i].key < Ends[p] /\ d[i].key \in Int
  <2> SUFFICES ASSUME NEW i \in 0 .. a - 1
               PROVE  d[i] \in Record /\ d[i].key < Ends[p] /\ d[i].key \in Int
    OBVIOUS
  <2>1. n \in Nat /\ r.first + i \in 0 .. n - 1 /\ r.first + i < r.end
    BY <1>2, <1>4 DEF IsCollected
  <2>2. dynamic[r.first + i].key < Ends[p]
    <3>1. RangeIs(p)
      BY <1>1 DEF MInv, Quiet, UnderWay, Started
    <3>2. \A x \in 0 .. n - 1 : x < r.end <=> dynamic[x].key < Ends[p]
      BY <1>2, <3>1, PartLies DEF RangeIs
    <3> HIDE DEF r
    <3> QED
      BY <2>1, <3>2
  <2>3. dynamic[r.first + i] \in Record /\ Keys \subseteq Int
    BY <1>2, <2>1, KeysAssumption DEF IsCollected
  <2>4. d[i] = dynamic[r.first + i]
    BY <1>6
  <2> QED
    BY <2>2, <2>3, <2>4 DEF Record
<1>11. /\ DOMAIN s = 0 .. b - 1
       /\ \A j \in 0 .. b - 1 : s[j] \in Record /\ s[j].key \in Int
       /\ \A i, j \in 0 .. b - 1 : i < j => s[i].key <= s[j].key
  BY <1>5 DEF Sorted, IsVector, RecordsOK, InKeyOrder
<1> HIDE DEF m, d, s, a, b, r
<1>12. RecordsOK(m)
  <2>1. DOMAIN m = 0 .. l - 1
    BY <1>8 DEF IsVector
  <2>2. \A x \in 0 .. l - 1 : m[x] \in Record
    BY <1>8, <1>10, <1>11
  <2> QED
    BY <1>8, <2>1, <2>2 DEF RecordsOK
<1>13. m[l - 1].key = Ends[p]
  <2>1. l - 1 \in 0 .. l - 1 /\ b - 1 \in 0 .. b - 1
    BY <1>2, <1>4, <1>14
  <2>2. \A j \in 0 .. b - 1 : s[j].key <= Ends[p]
    <3> SUFFICES ASSUME NEW j \in 0 .. b - 1 PROVE s[j].key <= Ends[p]
      OBVIOUS
    <3>1. CASE j < b - 1
      BY <1>5, <1>11, <2>1, <3>1
    <3>2. CASE j = b - 1
      BY <1>5, <1>11, <2>1, <3>2
    <3> QED
      BY <1>4, <3>1, <3>2
  <2>3. Ends[p] \in Int
    BY BuiltEnds
  <2>4. m[l - 1].key <= Ends[p] /\ m[l - 1].key \in Int
    BY <1>8, <1>10, <1>11, <2>1, <2>2, <2>3
  <2>5. Ends[p] <= m[l - 1].key
    <3>1. PICK x \in 0 .. l - 1 : m[x] = s[b - 1]
      BY <1>8, <2>1
    <3>2. m[x].key = Ends[p]
      BY <1>5, <3>1
    <3>3. DOMAIN m = 0 .. l - 1
      BY <1>8 DEF IsVector
    <3>4. x < l - 1 => m[x].key <= m[l - 1].key
      BY <1>8, <2>1, <3>3 DEF InKeyOrder
    <3>5. x < l - 1 \/ x = l - 1
      BY <1>2, <1>14
    <3>6. CASE x = l - 1
      BY <2>3, <3>2, <3>6
    <3> QED
      BY <3>2, <3>4, <3>5, <3>6
  <2> QED
    BY <2>3, <2>4, <2>5
<1> QED
  BY <1>3, <1>4, <1>9, <1>12, <1>13, <1>14 DEF m, w, r

-----------------------------------------------------------------------------
(* Each step keeps it.                                                      *)

\* A task depends on the records collected only.
LEMMA MergedSame ==
  ASSUME NEW w, NEW r, dynamic' = dynamic
  PROVE  Merged(w, r)' = Merged(w, r)
BY DEF Merged, Part, Slice

LEMMA MergingSame ==
  ASSUME NEW w, NEW r, dynamic' = dynamic
  PROVE  Merging(w, r)' <=> Merging(w, r)
<1>1. Kept(w, r)' <=> Kept(w, r)
  BY DEF Kept, WrittenIsSorted
<1>2. Crossed(w, r)' <=> Crossed(w, r)
  BY DEF Crossed
<1>3. Placed(w, r)' <=> Placed(w, r)
  BY MergedSame DEF Placed
<1> QED
  BY <1>1, <1>2, <1>3 DEF Merging

LEMMA SameTask ==
  ASSUME NEW q \in Partitions, TaskIs(q), task'[q] = task[q],
         ranges' = ranges, dynamic' = dynamic, current' = current,
         task[q].at = "finished" => StoredOK(q)'
  PROVE  TaskIs(q)'
<1>1. PICK w : w = task[q]
  OBVIOUS
<1>2. PICK r : r = ranges[q]
  OBVIOUS
<1>3. w = task'[q] /\ r = ranges'[q]
  BY <1>1, <1>2
<1>4. /\ w.at \in {"none", "offered", "merge", "finished"}
      /\ Counts(w)
      /\ w.at = "none" => w = NoTask
      /\ w.at \in {"merge", "finished"} => w.read = Data(current, q)
      /\ w.at = "merge" => Merging(w, r)
  BY <1>1, <1>2 DEF TaskIs
<1>5. Counts(w)'
  BY <1>4 DEF Counts
<1>6. w.at = "merge" => Merging(w, r)'
  BY <1>4, MergingSame
<1>7. Data(current, q)' = Data(current, q)
  BY DEF Data
<1>8. w.at = "finished" => StoredOK(q)'
  BY <1>1
<1> QED
  BY <1>3, <1>4, <1>5, <1>6, <1>7, <1>8 DEF TaskIs

LEMMA SameStored ==
  ASSUME NEW q \in Partitions, StoredOK(q), task'[q].read = task[q].read,
         ranges' = ranges, dynamic' = dynamic, backup' = backup
  PROVE  StoredOK(q)'
<1>1. PICK w : w = task[q]
  OBVIOUS
<1>2. PICK v : v = task'[q]
  OBVIOUS
<1>3. PICK r : r = ranges[q]
  OBVIOUS
<1>4. Merged(v, r)' = Merged(w, r)
  BY <1>1, <1>2, MergedSame DEF Merged
<1>5. PartOK(backup, q)' /\ Data(backup, q)' = Data(backup, q)
  BY DEF StoredOK, PartOK, Data
<1> QED
  BY <1>1, <1>2, <1>3, <1>4, <1>5 DEF StoredOK

LEMMA RangeSame ==
  ASSUME NEW q \in Partitions, RangeIs(q),
         ranges' = ranges, dynamic' = dynamic, current' = current
  PROVE  RangeIs(q)'
BY DEF RangeIs

LEMMA InitMInv == Init => MInv
<1> SUFFICES ASSUME Init PROVE MInv
  OBVIOUS
<1>1. IsGood(current)
  <2>1. HasParts(Built, MergeThreadNum - 1) /\ Partitions = 0 .. MergeThreadNum - 1
    BY BuiltHasParts DEF Partitions
  <2> QED
    BY <2>1 DEF Init, IsGood, HasParts, Ends
<1>2. IsIndex(backup) /\ dynamic = <<>>
  BY NoIndexIs DEF Init
<1>3. \A p \in Partitions : task[p] = NoTask
  BY DEF Init
<1>4. Quiet
  BY <1>3 DEF Quiet, NoTask
<1>5. Tasks
  <2>1. Counts(NoTask)
    <3>1. Size(<<>>) = 0
      BY FS_EmptySet DEF Size
    <3> QED
      BY <1>2, <3>1 DEF Counts, NoTask
  <2> QED
    BY <1>3, <2>1 DEF Init, Tasks, TaskIs, NoTask
<1>6. Numbers
  BY RoundsAssumption DEF Init, Numbers
<1> QED
  BY <1>1, <1>2, <1>4, <1>5, <1>6 DEF MInv, DynamicOK, CopyIs

\* The counts of a merge stay within the vectors.
LEMMA MergingCounts ==
  ASSUME NEW n \in Nat, Size(dynamic) = n, NEW r, Usable(r), r.end <= n,
         NEW w, Merging(w, r)
  PROVE  Counts(w)
<1>1. /\ w.i \in Int /\ w.j \in Int /\ w.cnt \in Int
      /\ r.first \in Nat /\ r.end \in Nat /\ r.dataNum \in Nat
      /\ -1 <= w.j /\ w.j < r.dataNum /\ r.first - 1 <= w.i /\ w.i < r.end
      /\ w.cnt = (w.i - r.first + 1) + w.j
  BY WorkIs DEF Merging, Kept
<1>2. Size(w.arr) = Length(r) /\ Length(r) = r.dataNum + r.end - r.first /\ Length(r) \in Nat
  BY WrittenMeans DEF Merging, Kept, Usable, Length
<1>3. w.i \in -1 .. n
  BY <1>1
<1>4. w.cnt \in -1 .. Length(r)
  BY <1>1, <1>2
<1> QED
  BY <1>1, <1>2, <1>3, <1>4 DEF Counts

\* A step of one task that leaves the files alone.
LEMMA TaskStep ==
  ASSUME MInv, NEW p \in Partitions, NEW next, task' = [task EXCEPT ![p] = next],
         current' = current, backup' = backup, dynamic' = dynamic, ranges' = ranges,
         round' = round, newest' = newest,
         task[p].at # "none", next.at = "merge", Merging(next, ranges[p]),
         next.read = Data(current, p)
  PROVE  MInv'
<1>1. /\ task' = [q \in Partitions |-> IF q = p THEN next ELSE task[q]]
      /\ \A q \in Partitions : TaskIs(q)
  BY DEF MInv, Tasks
<1>2. task'[p] = next /\ \A q \in Partitions : q # p => task'[q] = task[q]
  BY <1>1
<1>3. PICK n : /\ IsCollected(dynamic, n) /\ Size(dynamic) = n
               /\ Usable(ranges[p]) /\ ranges[p].end <= n
  BY GivenRows
<1>4. Counts(next)
  BY <1>3, MergingCounts DEF IsCollected
<1>5. TaskIs(p)'
  <2>1. PICK r : r = ranges[p]
    OBVIOUS
  <2>2. Merging(next, r)'
    BY <2>1, MergingSame
  <2>3. Counts(next)'
    BY <1>4 DEF Counts
  <2>4. next.read = Data(current, p)'
    BY DEF Data
  <2>5. r = ranges'[p]
    BY <2>1
  <2> QED
    BY <1>2, <2>2, <2>3, <2>4, <2>5 DEF TaskIs
<1>6. ASSUME NEW q \in Partitions, q # p PROVE TaskIs(q)'
  <2>1. task'[q] = task[q]
    BY <1>2, <1>6
  <2>2. task[q].at = "finished" => StoredOK(q)'
    BY <1>1, <2>1, SameStored DEF TaskIs
  <2> QED
    BY <1>1, <2>1, <2>2, SameTask
<1>7. Tasks'
  <2>1. task' = [q \in Partitions |-> task'[q]]
    BY <1>1
  <2> QED
    BY <1>5, <1>6, <2>1 DEF Tasks
<1>8. ~Quiet'
  BY <1>2 DEF Quiet
<1>9. UnderWay'
  <2>1. UnderWay
    BY DEF MInv, Quiet
  <2>2. Apart'
    BY <2>1 DEF UnderWay, Apart
  <2>3. ASSUME NEW q \in Partitions PROVE Started(q)'
    <3>1. RangeIs(q)'
      BY <2>1, RangeSame DEF UnderWay, Started
    <3>2. task'[q].at # "none"
      BY <1>2, <2>1 DEF UnderWay, Started
    <3> QED
      BY <3>1, <3>2 DEF Started
  <2>4. dynamic' # <<>>
    BY <2>1 DEF UnderWay
  <2> QED
    BY <2>2, <2>3, <2>4 DEF UnderWay
<1>10. DynamicOK'
  BY DEF MInv, DynamicOK, DynamicIs
<1>11. IsGood(current)' /\ IsIndex(backup)'
  BY DEF MInv
<1>12. Numbers'
  BY DEF MInv, Numbers
<1>13. CopyIs'
  BY <1>8 DEF CopyIs
<1> QED
  BY <1>7, <1>9, <1>10, <1>11, <1>12, <1>13 DEF MInv

\* A task starts with the vector as long as both together, the static records
\* at its front.
LEMMA ReadStaticStep ==
  ASSUME MInv, NEW p \in Partitions, ReadStatic(p)
  PROVE  MInv'
<1> DEFINE r == ranges[p]
           data == GetAllData(current.file, r.startPage, r.dataNum)
           n == r.dataNum + r.end - r.first
           arr == [x \in 0 .. n - 1 |-> At(data, x)]
           next == [at |-> "merge", read |-> data, arr |-> arr,
                    i |-> r.end - 1, j |-> r.dataNum - 1, cnt |-> n - 1]
<1>1. /\ task[p].at = "offered" /\ task' = [task EXCEPT ![p] = next]
      /\ current' = current /\ backup' = backup /\ ranges' = ranges /\ dynamic' = dynamic
      /\ round' = round /\ newest' = newest
  BY DEF ReadStatic
<1>2. Usable(r)
  BY <1>1, GivenRows
<1>3. /\ r.dataNum \in Nat /\ r.first \in Nat /\ r.end \in Nat /\ r.first <= r.end
      /\ n \in Nat /\ n = Length(r)
  BY <1>2 DEF Usable, Length
<1>4. RangeIs(p) /\ IsIndex(current) /\ PartOK(current, p)
  BY <1>1 DEF MInv, IsGood, Quiet, UnderWay, Started
<1>5. data = Data(current, p)
  BY <1>4 DEF RangeIs, Data
<1>6. Sorted(data, r.dataNum) /\ RecordsOK(data)
  BY <1>4, <1>5, HeldIs DEF RangeIs
<1>7. data \in [0 .. r.dataNum - 1 -> Records]
  <2>1. Record \subseteq Records
    <3>1. Keys \subseteq Int /\ 0 .. MaxRounds \subseteq Int
      BY KeysAssumption
    <3> QED
      BY <3>1 DEF Record, Records
  <2>2. \A x \in 0 .. r.dataNum - 1 : data[x] \in Records
    BY <1>6, <2>1 DEF RecordsOK, Sorted, IsVector
  <2> QED
    BY <2>2 DEF GetAllData
<1> HIDE DEF data
<1>8. /\ arr \in [0 .. n - 1 -> Records]
      /\ \A x \in 0 .. r.dataNum - 1 : arr[x] = data[x]
  <2>1. \A x : At(data, x) \in Records
    BY <1>7 DEF At, Junk, Records
  <2>2. \A x \in 0 .. r.dataNum - 1 : x \in 0 .. n - 1 /\ At(data, x) = data[x]
    BY <1>3, <1>7 DEF At
  <2> QED
    BY <2>1, <2>2
<1> HIDE DEF arr, n
<1>9. Kept(next, r)
  <2>1. next \in Work("merge", [0 .. r.dataNum - 1 -> Records], 0 .. n - 1)
    BY <1>3, <1>7, <1>8 DEF Work
  <2>2. WorkTyped(next, r)
    BY <1>3, <2>1 DEF WorkTyped
  <2>3. RoomIsExact(next, r)
    BY <1>3 DEF RoomIsExact, n
  <2>4. UnreadIsIntact(next)
    BY <1>8 DEF UnreadIsIntact
  <2>5. WrittenIsSorted(next, r.first)
    <3>1. Size(arr) = n
      BY <1>3, <1>8, SizeOfVector
    <3>2. (n - 1) + 1 .. n - 1 = {}
      BY <1>3
    <3> QED
      BY <3>1, <3>2 DEF WrittenIsSorted
  <2> QED
    BY <2>2, <2>3, <2>4, <2>5 DEF Kept
<1>10. Crossed(next, r)
  <2>1. ~(r.dataNum - 1 + 1 < r.dataNum) /\ ~(r.end - 1 + 1 < r.end)
    BY <1>3
  <2> QED
    BY <2>1 DEF Crossed
<1>11. Placed(next, r)
  <2>1. (n - 1) + 1 .. Length(r) - 1 = {}
    BY <1>3
  <2> QED
    BY <2>1 DEF Placed
<1>12. PICK x : x = next
  OBVIOUS
<1>13. x.at = "merge" /\ x.read = Data(current, p) /\ Merging(x, r)
  BY <1>5, <1>6, <1>9, <1>10, <1>11, <1>12 DEF Merging
<1> HIDE DEF next, r
<1> QED
  BY <1>1, <1>12, <1>13, TaskStep DEF r

LEMMA TurnStep ==
  ASSUME MInv, NEW p \in Partitions, TakeDynamic(p) \/ TakeRest(p) \/ TakeStatic(p)
  PROVE  MInv'
<1> DEFINE w == task[p]
           r == ranges[p]
<1>1. /\ w.at = "merge"
      /\ current' = current /\ backup' = backup /\ ranges' = ranges /\ dynamic' = dynamic
      /\ round' = round /\ newest' = newest
  BY DEF TakeDynamic, TakeRest, TakeStatic, Turn
<1>2. Usable(r) /\ Merging(w, r) /\ w.read = Data(current, p)
  BY <1>1, GivenRows DEF MInv, Tasks, TaskIs
<1>3. Kept(w, r)
  BY <1>2 DEF Merging
<1>4. ASSUME w.i >= r.first, w.j >= 0 => dynamic[w.i].key > w.arr[w.j].key,
             task' = [task EXCEPT ![p] = PutDynamic(w)]
      PROVE  MInv'
  <2>1. PICK x : x = PutDynamic(w)
    OBVIOUS
  <2>2. Merging(x, r)
    BY <1>2, <1>4, <2>1, DynamicPlaces
  <2>3. x.at = "merge" /\ x.read = w.read
    BY <1>1, <1>2, <1>3, <1>4, <2>1, DynamicTurnIs
  <2> QED
    BY <1>1, <1>2, <1>4, <2>1, <2>2, <2>3, TaskStep
<1>5. ASSUME w.i >= r.first, w.j >= 0, ~(dynamic[w.i].key > w.arr[w.j].key),
             task' = [task EXCEPT ![p] = PutStatic(w)]
      PROVE  MInv'
  <2>1. PICK x : x = PutStatic(w)
    OBVIOUS
  <2>2. Merging(x, r)
    BY <1>2, <1>5, <2>1, StaticPlaces
  <2>3. x.at = "merge" /\ x.read = w.read
    BY <1>1, <1>2, <1>3, <1>5, <2>1, StaticTurnIs
  <2> QED
    BY <1>1, <1>2, <1>5, <2>1, <2>2, <2>3, TaskStep
<1>6. CASE TakeDynamic(p)
  BY <1>4, <1>6 DEF TakeDynamic, Turn, DynamicLeft, DynamicIsLarger
<1>7. CASE TakeRest(p)
  BY <1>4, <1>7 DEF TakeRest, Turn, DynamicLeft, StaticLeft
<1>8. CASE TakeStatic(p)
  BY <1>5, <1>8 DEF TakeStatic, Turn, DynamicLeft, StaticLeft, DynamicIsLarger
<1> QED
  BY <1>6, <1>7, <1>8

\* The rows of two tasks are apart, so what one stores the other does not touch.
LEMMA StoreSpares ==
  ASSUME MInv, NEW p \in Partitions, Store(p), NEW q \in Partitions, q # p, StoredOK(q)
  PROVE  /\ PartOK(backup', q) /\ Data(backup', q) = Data(backup, q)
         /\ backup'.dataNumbers[q] = backup.dataNumbers[q]
         /\ backup'.pageStartIds[q] = backup.pageStartIds[q]
         /\ backup'.pageLastIds[q] = backup.pageLastIds[q]
<1>1. /\ task[p].at = "merge"
      /\ backup' = Put(backup, p, task[p].arr, ranges[p].stored)
  BY DEF Store
<1>2. IsIndex(backup) /\ Apart /\ \A x \in Partitions : RangeIs(x)
  BY <1>1 DEF MInv, Quiet, UnderWay, Started
<1>3. PICK data : data = task[p].arr
  OBVIOUS
<1>4. PICK start \in Nat : start = ranges[p].stored
  BY <1>2 DEF RangeIs
<1>5. PICK n \in Nat \ {0} : n = Length(ranges[p])
  BY <1>1, GivenRows
<1>6. IsVector(data, n)
  BY <1>3, <1>5, StoresMerge DEF IsArray
<1>7. PICK y : y = backup'
  OBVIOUS
<1>8. y = Put(backup, p, data, start)
  BY <1>1, <1>3, <1>4, <1>7
<1>9. backup.pageLastIds[q] < start \/ start + PagesFor(n) <= backup.pageStartIds[q]
  <2>1. /\ backup.pageStartIds[q] = ranges[q].stored
        /\ backup.pageLastIds[q] + 1 = ranges[q].stored + PagesFor(Length(ranges[q]))
    BY DEF StoredOK
  <2>2. backup.pageLastIds[q] \in Nat
    BY <1>2 DEF IsIndex, Index
  <2>3. CASE q < p
    <3>1. ranges[q].stored + PagesFor(Length(ranges[q])) <= ranges[p].stored
      BY <1>2, <2>3 DEF Apart
    <3>2. backup.pageLastIds[q] + 1 <= start
      BY <1>4, <2>1, <3>1
    <3> QED
      BY <2>2, <3>2
  <2>4. CASE p < q
    <3>1. ranges[p].stored + PagesFor(Length(ranges[p])) <= ranges[q].stored
      BY <1>2, <2>4 DEF Apart
    <3> QED
      BY <1>4, <1>5, <2>1, <3>1
  <2>5. q < p \/ p < q
    BY PartitionsAssumption DEF Partitions
  <2> QED
    BY <2>3, <2>4, <2>5
<1>10. PartOK(backup, q)
  BY DEF StoredOK
<1>11. PICK x : x = backup
  OBVIOUS
<1>12. IsIndex(x) /\ y = Put(x, p, data, start) /\ PartOK(x, q)
  BY <1>2, <1>8, <1>10, <1>11
<1>13. x.pageLastIds[q] < start \/ start + PagesFor(n) <= x.pageStartIds[q]
  BY <1>9, <1>11
<1>14. /\ PartOK(y, q) /\ Data(y, q) = Data(x, q)
       /\ y.dataNumbers[q] = x.dataNumbers[q] /\ y.pageStartIds[q] = x.pageStartIds[q]
       /\ y.pageLastIds[q] = x.pageLastIds[q]
  BY <1>6, <1>12, <1>13, PutSpares
<1> QED
  BY <1>7, <1>11, <1>14

\* What the task stores is in its place, and the divisions are as they were.
LEMMA StoreHolds ==
  ASSUME MInv, NEW p \in Partitions, Store(p)
  PROVE  /\ IsIndex(backup') /\ backup'.partitionKeys = Ends
         /\ PartOK(backup', p) /\ Data(backup', p) = Merged(task[p], ranges[p])
         /\ backup'.dataNumbers[p] = Length(ranges[p])
         /\ backup'.pageStartIds[p] = ranges[p].stored
         /\ backup'.pageLastIds[p] + 1 = ranges[p].stored + PagesFor(Length(ranges[p]))
<1>1. /\ task[p].at = "merge"
      /\ backup' = Put(backup, p, task[p].arr, ranges[p].stored)
  BY DEF Store
<1>2. IsIndex(backup) /\ RangeIs(p) /\ backup.partitionKeys = Ends
  BY <1>1 DEF MInv, Quiet, UnderWay, Started, DynamicOK
<1>3. PICK data : data = task[p].arr
  OBVIOUS
<1>4. PICK start \in Nat : start = ranges[p].stored
  BY <1>2 DEF RangeIs
<1>5. PICK n \in Nat \ {0} : n = Length(ranges[p])
  BY <1>1, GivenRows
<1>6. /\ data = Merged(task[p], ranges[p]) /\ IsArray(data, n) /\ RecordsOK(data)
      /\ data[n - 1].key = Ends[p]
  BY <1>3, <1>5, StoresMerge
<1>7. IsVector(data, n)
  BY <1>6 DEF IsArray
<1>8. PICK y : y = backup'
  OBVIOUS
<1>9. PICK x : x = backup
  OBVIOUS
<1>10. IsIndex(x) /\ y = Put(x, p, data, start)
  BY <1>1, <1>2, <1>3, <1>4, <1>8, <1>9
<1>11. IsIndex(y)
  BY <1>6, <1>7, <1>10, PutTyped
<1>12. /\ PartOK(y, p) /\ Data(y, p) = data
       /\ y.dataNumbers[p] = n /\ y.pageStartIds[p] = start
       /\ y.pageLastIds[p] + 1 = start + PagesFor(n)
  BY <1>6, <1>10, PutHolds
<1>13. y.partitionKeys = Ends
  <2>1. IsPut(y, x, p, data, n, start)
    BY <1>7, <1>10, PutIs
  <2>2. y.partitionKeys = [Ends EXCEPT ![p] = Ends[p]]
    BY <1>2, <1>6, <1>9, <2>1 DEF IsPut
  <2>3. Ends \in [Partitions -> Int]
    BY BuiltEnds
  <2> QED
    BY <2>2, <2>3
<1> QED
  BY <1>4, <1>5, <1>6, <1>8, <1>11, <1>12, <1>13

LEMMA StoreStep ==
  ASSUME MInv, NEW p \in Partitions, Store(p)
  PROVE  MInv'
<1> DEFINE w == task[p]
           x == [w EXCEPT !.at = "finished"]
<1>1. /\ w.at = "merge" /\ task' = [task EXCEPT ![p].at = "finished"]
      /\ current' = current /\ dynamic' = dynamic /\ ranges' = ranges
      /\ round' = round /\ newest' = newest
  BY DEF Store
<1>2. /\ \A q \in Partitions : TaskIs(q)
      /\ task' = [q \in Partitions |-> IF q = p THEN x ELSE task[q]]
  BY <1>1 DEF MInv, Tasks
<1>3. Merging(w, ranges[p]) /\ w.read = Data(current, p) /\ Counts(w)
  BY <1>1, <1>2 DEF TaskIs
<1>4. w \in Work("merge", [0 .. ranges[p].dataNum - 1 -> Records], 0 .. Length(ranges[p]) - 1)
  BY <1>3 DEF Merging, Kept, WorkTyped
<1>5. /\ x.at = "finished" /\ x.read = w.read /\ x.arr = w.arr
      /\ x.i = w.i /\ x.j = w.j /\ x.cnt = w.cnt
  BY <1>4 DEF Work
<1> HIDE DEF x
<1>6. task'[p] = x /\ \A q \in Partitions : q # p => task'[q] = task[q]
  BY <1>2
<1>7. /\ IsIndex(backup') /\ backup'.partitionKeys = Ends
      /\ PartOK(backup', p) /\ Data(backup', p) = Merged(w, ranges[p])
      /\ backup'.dataNumbers[p] = Length(ranges[p])
      /\ backup'.pageStartIds[p] = ranges[p].stored
      /\ backup'.pageLastIds[p] + 1 = ranges[p].stored + PagesFor(Length(ranges[p]))
  BY StoreHolds
<1>8. TaskIs(p)'
  <2>1. PICK r : r = ranges[p]
    OBVIOUS
  <2>2. PICK v : v = x
    OBVIOUS
  <2>3. Merged(v, r)' = Merged(w, r)
    BY <1>1, <1>5, <2>2, MergedSame DEF Merged
  <2>4. r = ranges'[p] /\ v = task'[p]
    BY <1>1, <1>6, <2>1, <2>2
  <2>5. StoredOK(p)'
    BY <1>7, <2>1, <2>3, <2>4 DEF StoredOK
  <2>6. Counts(v)'
    BY <1>1, <1>3, <1>5, <2>2 DEF Counts
  <2>7. v.read = Data(current, p)'
    BY <1>1, <1>3, <1>5, <2>2 DEF Data
  <2> QED
    BY <1>5, <2>2, <2>4, <2>5, <2>6, <2>7 DEF TaskIs
<1>9. ASSUME NEW q \in Partitions, q # p PROVE TaskIs(q)'
  <2>1. task'[q] = task[q]
    BY <1>6, <1>9
  <2>2. ASSUME StoredOK(q) PROVE StoredOK(q)'
    <3>1. /\ PartOK(backup', q) /\ Data(backup', q) = Data(backup, q)
          /\ backup'.dataNumbers[q] = backup.dataNumbers[q]
          /\ backup'.pageStartIds[q] = backup.pageStartIds[q]
          /\ backup'.pageLastIds[q] = backup.pageLastIds[q]
      BY <1>9, <2>2, StoreSpares
    <3>2. PICK v : v = task[q]
      OBVIOUS
    <3>3. PICK r : r = ranges[q]
      OBVIOUS
    <3>4. Merged(v, r)' = Merged(v, r)
      BY <1>1, MergedSame
    <3>5. v = task'[q] /\ r = ranges'[q]
      BY <1>1, <2>1, <3>2, <3>3
    <3> QED
      BY <2>2, <3>1, <3>2, <3>3, <3>4, <3>5 DEF StoredOK
  <2>3. task[q].at = "finished" => StoredOK(q)'
    BY <1>2, <2>2 DEF TaskIs
  <2> QED
    BY <1>1, <1>2, <2>1, <2>3, SameTask
<1>10. Tasks'
  <2>1. task' = [q \in Partitions |-> task'[q]]
    BY <1>2
  <2> QED
    BY <1>8, <1>9, <2>1 DEF Tasks
<1>11. ~Quiet'
  BY <1>5, <1>6 DEF Quiet
<1>12. UnderWay'
  <2>1. UnderWay
    BY <1>1 DEF MInv, Quiet
  <2>2. Apart'
    BY <1>1, <2>1 DEF UnderWay, Apart
  <2>3. ASSUME NEW q \in Partitions PROVE Started(q)'
    <3>1. RangeIs(q)'
      BY <1>1, <2>1, RangeSame DEF UnderWay, Started
    <3>2. task'[q].at # "none"
      BY <1>5, <1>6, <2>1 DEF UnderWay, Started
    <3> QED
      BY <3>1, <3>2 DEF Started
  <2>4. dynamic' # <<>>
    BY <1>1, <2>1 DEF UnderWay
  <2> QED
    BY <2>2, <2>3, <2>4 DEF UnderWay
<1>13. DynamicOK'
  BY <1>1, <1>7 DEF MInv, DynamicOK, DynamicIs
<1>14. IsGood(current)'
  BY <1>1 DEF MInv
<1>15. Numbers'
  BY <1>1 DEF MInv, Numbers
<1>16. CopyIs'
  BY <1>11 DEF CopyIs
<1> QED
  BY <1>7, <1>10, <1>12, <1>13, <1>14, <1>15, <1>16 DEF MInv

\* The copy of an index is one, whatever its file.
LEMMA CopyIsIndex ==
  ASSUME NEW x, IsIndex(x)
  PROVE  /\ IsIndex([x EXCEPT !.file = <<>>])
         /\ [x EXCEPT !.file = <<>>].partitionKeys = x.partitionKeys
         /\ [x EXCEPT !.file = <<>>].pageStartIds = x.pageStartIds
         /\ [x EXCEPT !.file = <<>>].dataNumbers = x.dataNumbers
<1> DEFINE y == [x EXCEPT !.file = <<>>]
<1>1. /\ y.file = <<>> /\ y.trained = x.trained /\ y.partitionKeys = x.partitionKeys
      /\ y.pageStartIds = x.pageStartIds /\ y.dataNumbers = x.dataNumbers
  BY DEF IsIndex, Index
<1>2. y \in Index({x.trained}, {<<>>})
  BY DEF IsIndex, Index
<1>3. FileTyped(<<>>)
  BY DEF FileTyped
<1> HIDE DEF y
<1> QED
  BY <1>1, <1>2, <1>3 DEF IsIndex, y

\* A task that was not started counts nothing.
LEMMA IdleCounts ==
  ASSUME NEW n \in Nat, Size(dynamic) = n, NEW w, w.i = 0, w.j = 0, w.cnt = 0, w.arr = <<>>
  PROVE  Counts(w)
<1>1. Size(<<>>) = 0
  BY FS_EmptySet DEF Size
<1> QED
  BY <1>1 DEF Counts

LEMMA CollectStep ==
  ASSUME MInv, NEW keys \in (SUBSET Handed) \ {{}}, Collect(keys)
  PROVE  MInv'
<1>1. /\ Quiet /\ dynamic = <<>> /\ round < MaxRounds
      /\ backup' = [current EXCEPT !.file = <<>>]
      /\ dynamic' = InOrder(keys, round + 1) /\ round' = round + 1
      /\ current' = current /\ ranges' = ranges /\ task' = task /\ newest' = newest
  BY DEF Collect
<1>2. round' \in 0 .. MaxRounds
  BY <1>1, RoundsAssumption DEF MInv, Numbers
<1>3. PICK n : IsCollected(dynamic', n) /\ n \in Nat \ {0}
  BY <1>1, <1>2, CollectedIs DEF IsCollected
<1>4. dynamic' # <<>>
  <2>1. DOMAIN dynamic' = 0 .. n - 1 /\ 0 \in 0 .. n - 1
    BY <1>3 DEF IsCollected, IsArray, IsVector
  <2>2. 0 \notin DOMAIN <<>>
    OBVIOUS
  <2> QED
    BY <2>1, <2>2
<1>5. IsIndex(current) /\ current.partitionKeys = Ends
  BY DEF MInv, IsGood
<1>6. IsIndex(backup') /\ backup'.partitionKeys = Ends
  BY <1>1, <1>5, CopyIsIndex
<1>7. DynamicOK'
  BY <1>1, <1>6 DEF DynamicOK, DynamicIs
<1>8. CopyIs'
  BY <1>1 DEF CopyIs
<1>9. Quiet'
  BY <1>1 DEF Quiet
<1>10. ASSUME NEW p \in Partitions PROVE TaskIs(p)'
  <2>1. task'[p] = NoTask
    BY <1>1 DEF MInv, Tasks, TaskIs, Quiet
  <2>2. PICK w : w = NoTask
    OBVIOUS
  <2>3. Size(dynamic)' = n
    BY <1>3, SizeIsLength DEF IsCollected, IsArray
  <2>4. Counts(w)'
    <3>1. w.i = 0 /\ w.j = 0 /\ w.cnt = 0 /\ w.arr = <<>>
      BY <2>2 DEF NoTask
    <3>2. Size(<<>>) = 0
      BY FS_EmptySet DEF Size
    <3>3. 0 \in -1 .. n
      BY <1>3
    <3> QED
      BY <2>3, <3>1, <3>2, <3>3 DEF Counts
  <2>5. NoTask.at = "none"
    BY DEF NoTask
  <2> QED
    BY <2>1, <2>2, <2>4, <2>5 DEF TaskIs
<1>11. Tasks'
  BY <1>1, <1>10 DEF MInv, Tasks
<1>12. Numbers' /\ IsGood(current)'
  BY <1>1, <1>2 DEF MInv, Numbers
<1> QED
  BY <1>6, <1>7, <1>8, <1>9, <1>11, <1>12 DEF MInv

LEMMA PartitionDataStep ==
  ASSUME MInv, PartitionData
  PROVE  MInv'
<1> DEFINE x == [NoTask EXCEPT !.at = "offered"]
<1>1. /\ Quiet /\ dynamic # <<>>
      /\ ranges' = PartitionRanges(dynamic)
      /\ task' = [p \in Partitions |-> x]
      /\ current' = current /\ backup' = backup /\ dynamic' = dynamic
      /\ round' = round /\ newest' = newest
  BY DEF PartitionData
<1>2. x.at = "offered" /\ x.i = 0 /\ x.j = 0 /\ x.cnt = 0 /\ x.arr = <<>>
  BY DEF NoTask
<1> HIDE DEF x
<1>3. PICK n : IsCollected(dynamic, n)
  BY <1>1, DynamicIsCollected
<1>4. n \in Nat /\ Size(dynamic) = n
  BY <1>3, SizeIsLength DEF IsCollected, IsArray
<1>5. IsIndex(current) /\ current.partitionKeys = Ends /\ backup = [current EXCEPT !.file = <<>>]
  BY <1>1 DEF MInv, IsGood, CopyIs
<1>6. /\ backup.partitionKeys = Ends
      /\ backup.pageStartIds = current.pageStartIds
      /\ backup.dataNumbers = current.dataNumbers
  BY <1>5, CopyIsIndex
<1>7. ASSUME NEW p \in Partitions
      PROVE  /\ GetDynamicRange(dynamic, p).first = (IF p > 0 THEN DynamicIndexOf(dynamic, Ends[p - 1]) ELSE 0)
             /\ GetDynamicRange(dynamic, p).end = DynamicIndexOf(dynamic, Ends[p])
             /\ RowLength(dynamic, p) \in Nat
  <2>1. /\ GetDynamicRange(dynamic, p).first = (IF p > 0 THEN DynamicIndexOf(dynamic, Ends[p - 1]) ELSE 0)
        /\ GetDynamicRange(dynamic, p).end = DynamicIndexOf(dynamic, Ends[p])
    BY <1>6 DEF GetDynamicRange
  <2>2. PICK first : first = GetDynamicRange(dynamic, p).first
    OBVIOUS
  <2>3. PICK end : end = GetDynamicRange(dynamic, p).end
    OBVIOUS
  <2>4. first \in 0 .. n /\ end \in 0 .. n /\ first <= end
    BY <1>3, <2>1, <2>2, <2>3, PartLies
  <2>5. backup.dataNumbers[p] \in Nat
    BY <1>5, <1>6 DEF IsIndex, Index
  <2>6. backup.dataNumbers[p] + end - first \in Nat
    BY <1>4, <2>4, <2>5
  <2> QED
    BY <2>1, <2>2, <2>3, <2>6 DEF RowLength
<1>8. PICK R : R = PartitionRanges(dynamic)
  OBVIOUS
<1>9. IsRangeTable(R, dynamic)
  BY <1>7, <1>8, RangeTable
<1>10. ASSUME NEW p \in Partitions PROVE Started(p)'
  <2>1. /\ R[p].startPage = current.pageStartIds[p] /\ R[p].dataNum = current.dataNumbers[p]
        /\ R[p].first = (IF p > 0 THEN DynamicIndexOf(dynamic, Ends[p - 1]) ELSE 0)
        /\ R[p].end = DynamicIndexOf(dynamic, Ends[p]) /\ R[p].stored \in Nat
    BY <1>6, <1>7, <1>9 DEF IsRangeTable
  <2>2. task'[p].at # "none"
    BY <1>1, <1>2
  <2> QED
    BY <1>1, <1>8, <2>1, <2>2 DEF Started, RangeIs
<1>11. Apart'
  BY <1>1, <1>8, <1>9 DEF Apart, IsRangeTable
<1>12. UnderWay'
  BY <1>1, <1>10, <1>11 DEF UnderWay
<1>13. ~Quiet'
  <2>1. PICK p \in Partitions : p = 0
    BY PartitionsAssumption DEF Partitions
  <2> QED
    BY <1>1, <1>2, <2>1 DEF Quiet
<1>14. ASSUME NEW p \in Partitions PROVE TaskIs(p)'
  <2>1. PICK w : w = x
    OBVIOUS
  <2>2. w = task'[p]
    BY <1>1, <2>1
  <2>3. Counts(w)
    BY <1>2, <1>4, <2>1, IdleCounts
  <2>4. Counts(w)'
    BY <1>1, <2>3 DEF Counts
  <2> QED
    BY <1>2, <2>1, <2>2, <2>4 DEF TaskIs
<1>15. Tasks'
  BY <1>1, <1>14 DEF Tasks
<1>16. DynamicOK' /\ IsIndex(backup)' /\ IsGood(current)' /\ Numbers'
  BY <1>1 DEF MInv, DynamicOK, DynamicIs, Numbers
<1>17. CopyIs'
  BY <1>13 DEF CopyIs
<1> QED
  BY <1>12, <1>15, <1>16, <1>17 DEF MInv

LEMMA PublishedIsGood ==
  ASSUME MInv, AllSubMergeFinished
  PROVE  /\ dynamic # <<>> /\ IsGood(backup)
         /\ \A p \in Partitions : StoredOK(p) /\ RangeIs(p) /\ task[p].read = Data(current, p)
<1>1. PICK q \in Partitions : q = 0
  BY PartitionsAssumption DEF Partitions
<1>2. \A p \in Partitions : task[p].at = "finished"
  BY DEF AllSubMergeFinished
<1>3. UnderWay
  BY <1>1, <1>2 DEF MInv, Quiet
<1>4. \A p \in Partitions : StoredOK(p) /\ RangeIs(p) /\ task[p].read = Data(current, p)
  BY <1>2, <1>3 DEF MInv, Tasks, TaskIs, UnderWay, Started
<1>5. IsGood(backup)
  BY <1>3, <1>4 DEF MInv, DynamicOK, UnderWay, IsGood, StoredOK
<1> QED
  BY <1>3, <1>4, <1>5 DEF UnderWay

LEMMA PublishStep ==
  ASSUME MInv, Publish
  PROVE  MInv'
<1>1. /\ AllSubMergeFinished /\ current' = backup /\ backup' = NoIndex
      /\ newest' = [k \in Keys |-> IF \E i \in DOMAIN dynamic : dynamic[i].key = k
                                     THEN round ELSE newest[k]]
      /\ dynamic' = <<>> /\ task' = [p \in Partitions |-> NoTask] /\ round' = round
  BY DEF Publish
<1>2. IsGood(current)'
  BY <1>1, PublishedIsGood
<1>3. IsIndex(backup)'
  BY <1>1, NoIndexIs
<1>4. DynamicOK' /\ CopyIs'
  BY <1>1 DEF DynamicOK, CopyIs
<1>5. Quiet'
  BY <1>1 DEF Quiet, NoTask
<1>6. Tasks'
  <2>1. PICK w : w = NoTask
    OBVIOUS
  <2>2. Size(<<>>) = 0
    BY FS_EmptySet DEF Size
  <2>3. Counts(w)'
    BY <1>1, <2>1, <2>2 DEF Counts, NoTask
  <2>4. ASSUME NEW p \in Partitions PROVE TaskIs(p)'
    <3>1. w = task'[p] /\ w.at = "none"
      BY <1>1, <2>1 DEF NoTask
    <3> QED
      BY <2>1, <2>3, <3>1 DEF TaskIs
  <2> QED
    BY <1>1, <2>4 DEF Tasks
<1>7. Numbers'
  <2>1. round \in -1 .. MaxRounds /\ newest \in [Keys -> -1 .. MaxRounds] /\ round \in 0 .. MaxRounds
    BY RoundsAssumption DEF MInv, Numbers
  <2>2. newest' \in [Keys -> -1 .. MaxRounds]
    BY <1>1, <2>1
  <2> QED
    BY <1>1, <2>1, <2>2 DEF Numbers
<1> QED
  BY <1>2, <1>3, <1>4, <1>5, <1>6, <1>7 DEF MInv

LEMMA StutterMInv ==
  ASSUME MInv, UNCHANGED vars
  PROVE  MInv'
<1>1. /\ current' = current /\ backup' = backup /\ dynamic' = dynamic /\ ranges' = ranges
      /\ task' = task /\ round' = round /\ newest' = newest
  BY DEF vars
<1>2. ASSUME NEW q \in Partitions PROVE TaskIs(q)'
  <2>1. TaskIs(q)
    BY DEF MInv, Tasks
  <2>2. task[q].at = "finished" => StoredOK(q)'
    BY <1>1, <2>1, SameStored DEF TaskIs
  <2> QED
    BY <1>1, <2>1, <2>2, SameTask
<1>3. Tasks'
  BY <1>1, <1>2 DEF MInv, Tasks
<1>4. (Quiet \/ UnderWay)'
  <2>1. CASE Quiet
    BY <1>1, <2>1 DEF Quiet
  <2>2. CASE UnderWay
    <3>1. ASSUME NEW q \in Partitions PROVE Started(q)'
      BY <1>1, <2>2, RangeSame DEF UnderWay, Started
    <3>2. Apart'
      BY <1>1, <2>2 DEF UnderWay, Apart
    <3> QED
      BY <1>1, <2>2, <3>1, <3>2 DEF UnderWay
  <2> QED
    BY <2>1, <2>2 DEF MInv
<1>5. DynamicOK' /\ IsIndex(backup)' /\ IsGood(current)' /\ Numbers'
  BY <1>1 DEF MInv, DynamicOK, DynamicIs, Numbers
<1>6. CopyIs'
  BY <1>1 DEF MInv, CopyIs, Quiet
<1> QED
  BY <1>3, <1>4, <1>5, <1>6 DEF MInv

LEMMA StepKeepsMInv == MInv /\ [Next]_vars => MInv'
<1> SUFFICES ASSUME MInv, [Next]_vars PROVE MInv'
  OBVIOUS
<1>1. ASSUME NEW keys \in (SUBSET Handed) \ {{}}, Collect(keys) PROVE MInv'
  BY <1>1, CollectStep
<1>2. CASE PartitionData
  BY <1>2, PartitionDataStep
<1>3. ASSUME NEW p \in Partitions, MergeSub(p) PROVE MInv'
  BY <1>3, ReadStaticStep, TurnStep, StoreStep DEF MergeSub
<1>4. CASE Publish
  BY <1>4, PublishStep
<1>5. CASE UNCHANGED vars
  BY <1>5, StutterMInv
<1> QED
  BY <1>1, <1>2, <1>3, <1>4, <1>5 DEF Next

-----------------------------------------------------------------------------
LEMMA AlwaysMInv == Spec => []MInv
<1>1. Init => MInv
  BY InitMInv
<1>2. MInv /\ [Next]_vars => MInv'
  BY StepKeepsMInv
<1> QED
  BY <1>1, <1>2, PTL DEF Spec

\* Files hold records and nothing else, counts stay within their vectors.
THEOREM TypesAreKept == Spec => []TypeOK
BY AlwaysMInv, MInvTypeOK, PTL

\* The merge of a partition in place (MergeTwoSortedArray) loses no static
\* record it has not looked at and leaves sorted records behind it.
THEOREM MergeIsInPlace == Spec => []MergedInPlace
BY AlwaysMInv, MInvInPlace, PTL

\* The slot that the next turn of the merge fills is one of the vector.
InsideVector ==
  \A p \in Partitions : task[p].at = "merge" /\ DynamicLeft(p) =>
    task[p].cnt \in DOMAIN task[p].arr

LEMMA MInvInside == ASSUME MInv PROVE InsideVector
<1> SUFFICES ASSUME NEW p \in Partitions, task[p].at = "merge", DynamicLeft(p)
             PROVE  task[p].cnt \in DOMAIN task[p].arr
  BY DEF InsideVector
<1>1. Usable(ranges[p]) /\ Kept(task[p], ranges[p]) /\ task[p].i >= ranges[p].first
  BY GivenRows DEF MInv, Tasks, TaskIs, Merging, DynamicLeft
<1>2. task[p].cnt \in 0 .. Length(ranges[p]) - 1
  BY <1>1, DynamicTurnIs
<1>3. DOMAIN task[p].arr = 0 .. Length(ranges[p]) - 1
  BY <1>1 DEF Kept, WorkTyped, Work
<1> QED
  BY <1>2, <1>3

\* MergeTwoSortedArray writes no slot outside its vector: its count of free
\* slots is what is left of the two inputs, so the next slot it fills exists.
THEOREM MergeStaysInside == Spec => []InsideVector
BY AlwaysMInv, MInvInside, PTL

InOrderTo(vector, from, to) ==
  \A x, y \in from .. to - 1 : x < y => vector[x].key <= vector[y].key

\* What is stored of a partition (Store) is sorted: the next merge and
\* every search of the new version are given sorted records again.
StoresInOrder ==
  \A p \in Partitions : Store(p) =>
    InOrderTo(task[p].arr, 0, ranges[p].dataNum + ranges[p].end - ranges[p].first)

LEMMA MInvStores == ASSUME MInv PROVE StoresInOrder
<1> SUFFICES ASSUME NEW p \in Partitions, Store(p)
             PROVE  InOrderTo(task[p].arr, 0, ranges[p].dataNum + ranges[p].end - ranges[p].first)
  BY DEF StoresInOrder
<1>1. RecordsOK(task[p].arr) /\ IsArray(task[p].arr, Length(ranges[p]))
  BY StoresMerge
<1> QED
  BY <1>1 DEF RecordsOK, InKeyOrder, IsArray, IsVector, InOrderTo, Length

\* What MergeSubData stores when the merge of a partition is over is sorted,
\* every slot of it, for the lookups that search it.
THEOREM MergeStoresInOrder == Spec => [][StoresInOrder]_vars
BY AlwaysMInv, MInvStores, PTL

\* What the file holds of a partition whose task is over is the merge of its two
\* vectors, however many other tasks have stored theirs in the same file since.
THEOREM StoredRecordsAreTheMerge == Spec => []StoredIsMerge
BY AlwaysMInv, MInvStored, PTL

-----------------------------------------------------------------------------
(* No record is lost.                                                       *)

\* The last partition takes the records below the last key loaded; a merge drops
\* one at that key or behind it.
KeysBelowLast == \A k \in Handed : \E l \in Loaded : k < l

\* How many partitions.
M == MergeThreadNum

LEMMA SizesIs ==
  ASSUME current.dataNumbers \in [Partitions -> Nat],
         NEW s, IsRunningSum(s, current.dataNumbers, M)
  PROVE  Sizes = s[M]
<1> DEFINE c == current.dataNumbers
           Next0(g, p) == c[p] + (IF p = 0 THEN 0 ELSE g[p - 1])
           up == CHOOSE up : up = [p \in Partitions |->
                   current.dataNumbers[p] + (IF p = 0 THEN 0 ELSE up[p - 1])]
           g == [p \in Partitions |-> s[p + 1]]
<1>1. M \in Nat \ {0} /\ Partitions = 0 .. M - 1
  BY PartitionsAssumption DEF Partitions, M
<1>2. /\ s \in [0 .. M -> Nat] /\ s[0] = 0 /\ c \in [Partitions -> Nat]
      /\ \A p \in Partitions : s[p + 1] = s[p] + c[p]
  BY <1>1 DEF IsRunningSum
<1>3. Sizes = up[M - 1]
  BY DEF Sizes, M
<1> HIDE DEF c, M
<1>4. \A p \in Partitions : g[p] = s[p + 1]
  OBVIOUS
<1>5. ASSUME NEW p \in Partitions PROVE s[p + 1] = Next0(g, p)
  <2>1. s[p + 1] = s[p] + c[p] /\ s[p] \in Nat /\ c[p] \in Nat
    BY <1>1, <1>2
  <2>2. CASE p = 0
    BY <1>2, <2>1, <2>2
  <2>3. CASE p # 0
    <3>1. p - 1 \in Partitions /\ (p - 1) + 1 = p
      BY <1>1, <2>3
    <3>2. g[p - 1] = s[p]
      BY <1>4, <3>1
    <3> QED
      BY <2>1, <2>3, <3>2
  <2> QED
    BY <2>2, <2>3
<1>6. g = [p \in Partitions |-> Next0(g, p)]
  BY <1>5
<1>7. up = [p \in Partitions |-> Next0(up, p)]
  <2> HIDE DEF g
  <2> QED
    BY <1>6 DEF c
<1> HIDE DEF up, g
<1>8. \A p \in Partitions : up[p] = Next0(up, p)
  BY <1>7
<1> DEFINE S == {m \in Nat : m < M => up[m] = s[m + 1]}
<1>9. 0 \in S
  <2>1. 0 \in Partitions
    BY <1>1
  <2>2. up[0] = c[0] + 0 /\ s[0 + 1] = s[0] + c[0] /\ s[0] = 0 /\ c[0] \in Nat
    BY <1>2, <1>8, <2>1
  <2>3. up[0] = s[0 + 1]
    BY <2>2
  <2> QED
    BY <2>3
<1>10. ASSUME NEW m \in Nat, m \in S PROVE m + 1 \in S
  <2> SUFFICES ASSUME m + 1 < M PROVE up[m + 1] = s[(m + 1) + 1]
    OBVIOUS
  <2>1. m + 1 \in Partitions /\ m + 1 # 0 /\ (m + 1) - 1 = m /\ m < M
    BY <1>1
  <2>2. up[m] = s[m + 1]
    BY <1>10, <2>1
  <2>3. up[m + 1] = c[m + 1] + up[m]
    BY <1>8, <2>1
  <2>4. s[(m + 1) + 1] = s[m + 1] + c[m + 1] /\ c[m + 1] \in Nat /\ s[m + 1] \in Nat
    BY <1>1, <1>2, <2>1
  <2> QED
    BY <2>2, <2>3, <2>4
<1> HIDE DEF S
<1>11. M - 1 \in S
  <2>1. M - 1 \in Nat
    BY <1>1
  <2> QED
    BY <1>9, <1>10, <2>1, CountingUp
<1>12. up[M - 1] = s[(M - 1) + 1] /\ (M - 1) + 1 = M
  BY <1>1, <1>11 DEF S
<1> QED
  BY <1>3, <1>12

\* The records of the version in use and those collected are all that the index
\* was ever handed.
AllCounted ==
  /\ handed \in Nat
  /\ \E s : /\ IsRunningSum(s, current.dataNumbers, M)
            /\ handed = s[M] + Size(dynamic)

LEMMA InitCounted == ASSUME Init PROVE AllCounted
<1> DEFINE s == [p \in 0 .. M |-> IF p = M THEN LoadedSize ELSE SubFrom(p)]
           c == current.dataNumbers
<1>1. M \in Nat \ {0} /\ Partitions = 0 .. M - 1
  BY PartitionsAssumption DEF Partitions, M
<1>2. LoadedSize \in Nat /\ \A p \in Partitions :
        /\ SubFrom(p) \in Nat /\ SubTo(p) \in Nat
        /\ (p + 1 \in Partitions => SubTo(p) = SubFrom(p + 1))
        /\ (p = M - 1 => SubTo(p) = LoadedSize)
  BY SubBounds, SubNumbers DEF M
<1>3. \A p \in Partitions : c[p] = SubTo(p) - SubFrom(p)
  BY <1>1, BuiltHasParts DEF HasParts, Init, M
<1>4. SubFrom(0) = 0
  BY SubNumbers DEF SubFrom
<1> HIDE DEF M, c
<1>5. /\ s \in [0 .. M -> Nat] /\ s[M] = LoadedSize
      /\ \A p \in Partitions : s[p] = SubFrom(p)
  BY <1>1, <1>2
<1> HIDE DEF s
<1>6. s[0] = 0
  BY <1>1, <1>4, <1>5
<1>7. ASSUME NEW p \in 0 .. M - 1 PROVE s[p + 1] = s[p] + c[p]
  <2>1. s[p + 1] = SubTo(p)
    <3>1. CASE p = M - 1
      BY <1>1, <1>2, <1>5, <3>1
    <3>2. CASE p # M - 1
      <4>1. p + 1 \in Partitions
        BY <1>1, <3>2
      <4> QED
        BY <1>1, <1>2, <1>5, <4>1
    <3> QED
      BY <3>1, <3>2
  <2> QED
    BY <1>1, <1>2, <1>3, <1>5, <2>1
<1>8. IsRunningSum(s, c, M)
  BY <1>5, <1>6, <1>7 DEF IsRunningSum
<1>9. handed = s[M] + Size(dynamic) /\ handed \in Nat
  <2>1. Size(dynamic) = 0
    BY FS_EmptySet DEF Init, Size
  <2>2. handed = LoadedSize
    BY DEF Init, LoadedSize
  <2> QED
    BY <1>2, <1>5, <2>1, <2>2
<1> QED
  BY <1>8, <1>9 DEF AllCounted, c

\* Every record collected is one of some partition.
LEMMA LastTakesAll ==
  ASSUME KeysBelowLast, NEW n, IsCollected(dynamic, n)
  PROVE  DynamicIndexOf(dynamic, Ends[M - 1]) = n
<1> DEFINE e == DynamicIndexOf(dynamic, Ends[M - 1])
<1>1. M - 1 \in Partitions /\ M \in Nat \ {0}
  BY PartitionsAssumption DEF Partitions, M
<1>2. Ends[M - 1] = LoadedRecords[LoadedSize - 1].key /\ Ends[M - 1] \in Int
  BY <1>1, BuiltEnds, SubBounds DEF M
<1>3. LoadedSize \in Nat \ {0}
  BY SubNumbers
<1>4. ASSUME NEW l \in Loaded PROVE l <= Ends[M - 1] /\ l \in Int
  <2>1. PICK i \in 0 .. LoadedSize - 1 : LoadedRecords[i].key = l
    BY LoadedOrder DEF IsOrderOf
  <2>2. LoadedSize - 1 \in 0 .. LoadedSize - 1
    BY <1>3
  <2>3. l \in Int
    <3>1. Loaded \subseteq Keys /\ Keys \subseteq Int
      BY KeysAssumption
    <3> QED
      BY <3>1
  <2>4. i = LoadedSize - 1 \/ i < LoadedSize - 1
    BY <1>3
  <2>5. i < LoadedSize - 1 => l < Ends[M - 1]
    BY <1>2, <2>1, <2>2, LoadedOrder DEF IsOrderOf
  <2>6. i = LoadedSize - 1 => l = Ends[M - 1]
    BY <1>2, <2>1
  <2> QED
    BY <1>2, <2>3, <2>4, <2>5, <2>6
<1>5. n \in Nat \ {0} /\ IsVector(dynamic, n) /\ InKeyOrder(dynamic)
  BY DEF IsCollected, IsArray
<1>6. e \in 0 .. n /\ \A i \in 0 .. n - 1 : dynamic[i].key < Ends[M - 1] <=> i < e
  BY <1>2, <1>5, DynamicIndexIs
<1>7. n - 1 \in 0 .. n - 1
  BY <1>5
<1>8. dynamic[n - 1].key \in Handed
  BY <1>7 DEF IsCollected
<1>9. PICK l \in Loaded : dynamic[n - 1].key < l
  BY <1>8 DEF KeysBelowLast
<1>10. dynamic[n - 1].key \in Int
  <2>1. Handed \subseteq Keys /\ Keys \subseteq Int
    BY KeysAssumption
  <2> QED
    BY <1>8, <2>1
<1>11. dynamic[n - 1].key < Ends[M - 1]
  BY <1>2, <1>4, <1>9, <1>10
<1>12. n - 1 < e
  BY <1>6, <1>7, <1>11
<1> HIDE DEF e
<1>13. e = n
  BY <1>5, <1>6, <1>12
<1> QED
  BY <1>13 DEF e

LEMMA PublishCounts ==
  ASSUME KeysBelowLast, MInv, AllCounted, Publish
  PROVE  AllCounted'
<1> DEFINE c == current.dataNumbers
           d == backup.dataNumbers
           f == [p \in Partitions |-> ranges[p].first]
           e == [p \in Partitions |-> ranges[p].end]
<1>1. M \in Nat \ {0} /\ Partitions = 0 .. M - 1
  BY PartitionsAssumption DEF Partitions, M
<1>2. AllSubMergeFinished /\ current' = backup /\ dynamic' = <<>> /\ handed' = handed
  BY DEF Publish
<1>3. /\ dynamic # <<>>
      /\ \A p \in Partitions : StoredOK(p) /\ RangeIs(p)
  BY <1>2, PublishedIsGood
<1>4. PICK n : IsCollected(dynamic, n)
  BY <1>3, DynamicIsCollected
<1>5. n \in Nat /\ Size(dynamic) = n
  BY <1>4, SizeIsLength DEF IsCollected, IsArray
<1>6. \A p \in Partitions : f[p] = ranges[p].first /\ e[p] = ranges[p].end
  OBVIOUS
<1>7. ASSUME NEW p \in Partitions
      PROVE  /\ f[p] \in 0 .. n /\ e[p] \in 0 .. n /\ f[p] <= e[p]
             /\ p = 0 => f[p] = 0
             /\ p + 1 \in Partitions => f[p + 1] = e[p]
             /\ p = M - 1 => e[p] = n
             /\ d[p] = c[p] + e[p] - f[p]
  <2>1. /\ f[p] = (IF p > 0 THEN DynamicIndexOf(dynamic, Ends[p - 1]) ELSE 0)
        /\ e[p] = DynamicIndexOf(dynamic, Ends[p])
    BY <1>3, <1>6 DEF RangeIs
  <2>2. f[p] \in 0 .. n /\ e[p] \in 0 .. n /\ f[p] <= e[p] /\ (p = 0 => f[p] = 0)
    <3>1. PICK first : first = f[p]
      OBVIOUS
    <3>2. PICK end : end = e[p]
      OBVIOUS
    <3> HIDE DEF f, e
    <3> QED
      BY <1>4, <2>1, <3>1, <3>2, PartLies
  <2>3. p + 1 \in Partitions => f[p + 1] = e[p]
    <3> SUFFICES ASSUME p + 1 \in Partitions PROVE f[p + 1] = e[p]
      OBVIOUS
    <3>1. p + 1 > 0 /\ (p + 1) - 1 = p
      BY <1>1
    <3>2. RangeIs(p + 1) /\ f[p + 1] = ranges[p + 1].first
      BY <1>3, <1>6
    <3> QED
      BY <2>1, <3>1, <3>2 DEF RangeIs
  <2>4. p = M - 1 => e[p] = n
    BY <1>4, <2>1, LastTakesAll
  <2>5. d[p] = c[p] + e[p] - f[p]
    <3>1. d[p] = Length(ranges[p]) /\ ranges[p].dataNum = c[p]
      BY <1>3 DEF StoredOK, RangeIs
    <3> QED
      BY <1>6, <3>1 DEF Length
  <2> QED
    BY <2>2, <2>3, <2>4, <2>5
<1>8. c \in [Partitions -> Nat] /\ handed \in Nat
  BY DEF AllCounted, MInv, IsGood, IsIndex, Index
<1>9. PICK s : IsRunningSum(s, c, M) /\ handed = s[M] + n
  BY <1>5 DEF AllCounted
<1>10. /\ s \in [0 .. M -> Nat] /\ s[0] = 0
       /\ \A p \in 0 .. M - 1 : s[p + 1] = s[p] + c[p]
  BY <1>9 DEF IsRunningSum
<1> HIDE DEF f, e, c, d, M
<1> DEFINE t == [p \in 0 .. M |-> IF p = M THEN s[M] + n ELSE s[p] + f[p]]
<1>11. /\ t \in [0 .. M -> Nat] /\ t[M] = s[M] + n
       /\ \A p \in 0 .. M - 1 : t[p] = s[p] + f[p]
  <2>1. ASSUME NEW p \in 0 .. M - 1 PROVE p # M /\ s[p] \in Nat /\ f[p] \in Nat
    BY <1>1, <1>5, <1>7, <1>10
  <2>2. s[M] \in Nat
    BY <1>1, <1>10
  <2>3. \A p \in 0 .. M : (IF p = M THEN s[M] + n ELSE s[p] + f[p]) \in Nat
    BY <1>1, <1>5, <2>1, <2>2
  <2> QED
    BY <1>1, <2>1, <2>3
<1> HIDE DEF t
<1>12. t[0] = 0
  <2>1. 0 \in Partitions
    BY <1>1
  <2>2. f[0] = 0 /\ t[0] = s[0] + f[0]
    BY <1>1, <1>7, <1>11, <2>1
  <2> QED
    BY <1>10, <2>2
<1>13. ASSUME NEW p \in 0 .. M - 1 PROVE t[p + 1] = t[p] + d[p]
  <2>0. p \in Partitions
    BY <1>1
  <2>3. f[p] \in Nat /\ e[p] \in Nat /\ d[p] = c[p] + e[p] - f[p]
    BY <1>5, <1>7, <2>0
  <2>4. s[p] \in Nat /\ c[p] \in Nat
    BY <1>1, <1>8, <1>10, <2>0
  <2>1. /\ s[p + 1] = s[p] + c[p] /\ s[p] \in Nat /\ c[p] \in Nat
        /\ f[p] \in Nat /\ e[p] \in Nat
        /\ t[p] = s[p] + f[p] /\ d[p] = c[p] + e[p] - f[p]
    BY <1>10, <1>11, <2>3, <2>4
  <2>2. t[p + 1] = s[p + 1] + e[p]
    <3>1. CASE p = M - 1
      BY <1>1, <1>7, <1>11, <3>1
    <3>2. CASE p # M - 1
      <4>1. p + 1 \in Partitions
        BY <1>1, <3>2
      <4> QED
        BY <1>1, <1>7, <1>11, <4>1
    <3> QED
      BY <3>1, <3>2
  <2> QED
    BY <2>1, <2>2
<1>14. IsRunningSum(t, d, M)
  BY <1>11, <1>12, <1>13 DEF IsRunningSum
<1>15. Size(<<>>) = 0
  BY FS_EmptySet DEF Size
<1>16. handed' = t[M] + Size(dynamic)'
  <2>1. t[M] \in Nat
    BY <1>1, <1>11
  <2> QED
    BY <1>2, <1>9, <1>11, <1>15, <2>1
<1>17. handed' \in Nat
  BY <1>2, <1>8
<1> QED
  BY <1>2, <1>14, <1>16, <1>17 DEF AllCounted, d

LEMMA StepKeepsCounted ==
  ASSUME KeysBelowLast, MInv, AllCounted, [Next]_vars
  PROVE  AllCounted'
<1>1. ASSUME NEW keys \in (SUBSET Handed) \ {{}}, Collect(keys) PROVE AllCounted'
  <2>1. /\ dynamic = <<>> /\ round' = round + 1 /\ dynamic' = InOrder(keys, round + 1)
        /\ handed' = handed + Cardinality(keys) /\ current' = current /\ round < MaxRounds
    BY <1>1 DEF Collect
  <2>2. round + 1 \in 0 .. MaxRounds
    BY <2>1, RoundsAssumption DEF MInv, Numbers
  <2>3. IsCollected(dynamic', Cardinality(keys))
    BY <2>1, <2>2, CollectedIs
  <2>4. Size(dynamic)' = Cardinality(keys) /\ Cardinality(keys) \in Nat
    BY <2>3, SizeIsLength DEF IsCollected, IsArray
  <2>5. Size(dynamic) = 0
    BY <2>1, FS_EmptySet DEF Size
  <2>6. PICK s : IsRunningSum(s, current.dataNumbers, M) /\ handed = s[M] + 0
    BY <2>5 DEF AllCounted
  <2>7. s[M] \in Nat
    BY <2>6, PartitionsAssumption DEF IsRunningSum, M
  <2>8. handed' = s[M] + Cardinality(keys)
    BY <2>1, <2>4, <2>6, <2>7
  <2>9. handed' \in Nat
    BY <2>4, <2>7, <2>8
  <2> QED
    BY <2>1, <2>4, <2>6, <2>8, <2>9 DEF AllCounted
<1>2. CASE Publish
  BY <1>2, PublishCounts
<1>3. ASSUME current' = current, dynamic' = dynamic, handed' = handed
      PROVE  AllCounted'
  BY <1>3 DEF AllCounted
<1>4. CASE PartitionData \/ UNCHANGED vars
  BY <1>3, <1>4 DEF PartitionData, vars
<1>5. ASSUME NEW p \in Partitions, MergeSub(p) PROVE AllCounted'
  BY <1>3, <1>5 DEF MergeSub, ReadStatic, TakeDynamic, TakeStatic, TakeRest, Turn, Store
<1> QED
  BY <1>1, <1>2, <1>4, <1>5 DEF Next

LEMMA CountedIsStored == ASSUME MInv, AllCounted PROVE EveryRecordStored
<1> SUFFICES ASSUME dynamic = <<>> PROVE Sizes = handed
  BY DEF EveryRecordStored
<1>1. current.dataNumbers \in [Partitions -> Nat]
  BY DEF MInv, IsGood, IsIndex, Index
<1>2. Size(dynamic) = 0
  BY FS_EmptySet DEF Size
<1>3. PICK s : IsRunningSum(s, current.dataNumbers, M) /\ handed = s[M] + 0
  BY <1>2 DEF AllCounted
<1>4. s[M] \in Nat
  BY <1>3, PartitionsAssumption DEF IsRunningSum, M
<1>5. Sizes = s[M]
  BY <1>1, <1>3, SizesIs
<1> QED
  BY <1>3, <1>4, <1>5

\* If every key that is inserted is below the last one loaded, every record handed to
\* the index is in the version in use once its merge is over: the tasks of the
\* partitions leave none out and store none twice, merge after merge.
THEOREM EveryRecordIsStored ==
  ASSUME KeysBelowLast
  PROVE  Spec => []EveryRecordStored
<1>1. Init => AllCounted
  BY InitCounted
<1>2. MInv /\ AllCounted /\ [Next]_vars => AllCounted'
  BY StepKeepsCounted
<1>3. MInv /\ AllCounted => EveryRecordStored
  BY CountedIsStored
<1> QED
  BY <1>1, <1>2, <1>3, AlwaysMInv, PTL DEF Spec

-----------------------------------------------------------------------------
(* A find answers the newest record.                                        *)

ReadsPart(range, key, p) ==
  \E buf : \E c \in Nat, n \in Nat \ {0} :
    /\ c + n <= current.dataNumbers[p] /\ c <= range.begin /\ range.end <= c + n
    /\ \A i \in 0 .. n - 1 : buf[i] = Data(current, p)[c + i]
    /\ FindData(range, key, p) = buf[LowerBound(buf, n, key)].value

\* What a find reads is a part of the records of its partition, with the range
\* that the models gave, and in the last page only the records that count.
LEMMA PagesOfFind ==
  ASSUME NEW p \in Partitions, IsIndex(current), PartOK(current, p),
         NEW range, range.begin \in Nat, range.end \in Nat,
         range.begin < range.end, range.end <= current.dataNumbers[p], NEW key
  PROVE  ReadsPart(range, key, p)
<1> DEFINE R == RecordPerPage
           N == current.dataNumbers[p]
           start == current.pageStartIds[p]
           last == current.pageLastIds[p]
           b == range.begin \div R
           q == (range.end - 1) \div R
           z == (N - 1) \div R
           pages == GetFetchRange(range, last)
           id == LastId(range, p)
           n == R * (q - b) + id
           c == b * R
           buf == DirectIORead(current.file, b + start, q - b + 1)
<1>0. /\ R \in Nat \ {0} /\ N \in Nat \ {0} /\ start \in Nat
      /\ range.end - 1 \in Nat /\ N - 1 \in Nat /\ last = start + z
  BY RecordPerPageAssumption DEF IsIndex, Index, PartOK, LastPage
<1>1. b \in Nat /\ R * b <= range.begin /\ range.begin < R * b + R
  BY <1>0, Quotient
<1>2. q \in Nat /\ R * q <= range.end - 1 /\ range.end - 1 < R * q + R
  BY <1>0, Quotient
<1>3. z \in Nat /\ R * z <= N - 1 /\ N - 1 < R * z + R
  BY <1>0, Quotient
<1>4. range.end <= N
  OBVIOUS
<1>5. /\ pages.start = b /\ pages.end = Min({q, last})
      /\ id = IF q + start = last THEN N - R * (last - start) ELSE R
      /\ FindData(range, key, p) =
           LET number == pages.end - pages.start + 1
               buffer == DirectIORead(current.file, pages.start + start, number)
           IN  buffer[LowerBound(buffer, R * (number - 1) + id, key)].value
  BY DEF GetFetchRange, LastId, FindData
<1>14. \A i \in 0 .. N - 1 : Data(current, p)[i] = At(current.file, start * R + i)
  BY DEF Data, GetAllData
<1>15. \A i \in 0 .. (q - b + 1) * R - 1 : buf[i] = At(current.file, (b + start) * R + i)
  BY DEF DirectIORead, GetAllData
<1> HIDE DEF R, N, start, last, b, q, z, pages, id, buf
<1>6. b <= q
  <2>1. R * b < R * (q + 1)
    BY <1>0, <1>1, <1>2
  <2>2. b < q + 1
    BY <1>0, <1>1, <1>2, <2>1, LessInProduct
  <2> QED
    BY <1>1, <1>2, <2>2
<1>7. q <= z
  <2>1. R * q < R * (z + 1)
    BY <1>0, <1>2, <1>3, <1>4
  <2>2. q < z + 1
    BY <1>0, <1>2, <1>3, <2>1, LessInProduct
  <2> QED
    BY <1>2, <1>3, <2>2
<1>8. pages.end = q
  <2>1. q \in Int /\ last \in Int /\ q <= last
    BY <1>0, <1>2, <1>3, <1>7
  <2>2. Min({q, last}) = q
    BY <2>1, MinOfTwo
  <2> QED
    BY <1>5, <2>2
<1>9. id = IF q = z THEN N - R * z ELSE R
  <2>1. q + start = last <=> q = z
    BY <1>0, <1>2, <1>3
  <2>2. last - start = z
    BY <1>0, <1>3
  <2> QED
    BY <1>5, <2>1, <2>2
<1>10. id \in 1 .. R /\ R * q + id <= N /\ range.end <= R * q + id
  <2>0. R * q \in Nat /\ R * z \in Nat
    BY <1>0, <1>2, <1>3
  <2>1. CASE q = z
    <3>1. id = N - R * z
      BY <1>9, <2>1
    <3> QED
      BY <1>0, <1>3, <1>4, <2>0, <2>1, <3>1
  <2>2. CASE q # z
    <3>1. R * (q + 1) <= R * z
      <4>1. q + 1 <= z
        BY <1>2, <1>3, <1>7, <2>2
      <4> QED
        BY <1>0, <1>2, <1>3, <4>1, ProductGrows
    <3>2. R * (q + 1) = R * q + R
      BY <1>0, <1>2
    <3> QED
      BY <1>0, <1>2, <1>3, <1>9, <2>0, <2>2, <3>1, <3>2
  <2> QED
    BY <2>1, <2>2
<1>11. /\ n \in Nat \ {0} /\ c \in Nat /\ c + n = R * q + id /\ n <= (q - b + 1) * R
       /\ c = R * b
  <2>1. R * (q - b) \in Nat
    BY <1>0, <1>1, <1>2, <1>6
  <2>2. R * (q - b) = R * q - R * b /\ (q - b + 1) * R = R * (q - b) + R
    BY <1>0, <1>1, <1>2
  <2>3. id \in Nat /\ 1 <= id /\ id <= R /\ R * b \in Nat /\ R * q \in Nat /\ b * R = R * b
    BY <1>0, <1>1, <1>2, <1>10
  <2> QED
    BY <1>0, <2>1, <2>2, <2>3
<1>12. FindData(range, key, p) = buf[LowerBound(buf, n, key)].value
  <2>1. (q - b + 1) - 1 = q - b
    BY <1>1, <1>2
  <2> QED
    BY <1>5, <1>8, <2>1 DEF buf
<1>13. ASSUME NEW i \in 0 .. n - 1
       PROVE  buf[i] = Data(current, p)[c + i]
  <2>1. i \in 0 .. (q - b + 1) * R - 1
    <3>1. (q - b + 1) * R \in Int
      BY <1>0, <1>1, <1>2
    <3> HIDE DEF n
    <3> QED
      BY <1>11, <3>1
  <2>2. c + i \in 0 .. N - 1
    <3> HIDE DEF n, c
    <3>1. c + n <= N
      BY <1>10, <1>11
    <3> QED
      BY <1>0, <1>11, <3>1
  <2>3. (b + start) * R + i = start * R + (c + i)
    <3>1. i \in Int
      BY <1>11
    <3>2. (b + start) * R = start * R + c
      BY <1>0, <1>1
    <3>3. start * R \in Int /\ c \in Int
      BY <1>0, <1>11
    <3> HIDE DEF c
    <3> QED
      BY <3>1, <3>2, <3>3
  <2> QED
    BY <1>14, <1>15, <2>1, <2>2, <2>3
<1> HIDE DEF n, c
<1>16. c + n <= N /\ c <= range.begin /\ range.end <= c + n
  BY <1>1, <1>10, <1>11
<1> QED
  BY <1>11, <1>12, <1>13, <1>16 DEF N, ReadsPart

LEMMA FindsTheFirst ==
  ASSUME IsGood(current), NEW p \in Partitions, NEW i \in 0 .. current.dataNumbers[p] - 1,
         \A j \in 0 .. current.dataNumbers[p] - 1 :
           j < i => Data(current, p)[j].key < Data(current, p)[i].key,
         Data(current, p)[i].key < Ends[p] \/ i = current.dataNumbers[p] - 1,
         NEW k, k = Data(current, p)[i].key
  PROVE  {FindData(range, k, p) : range \in SearchBound(current.trained[p], k)}
           = {Data(current, p)[i].value}
<1> DEFINE N == current.dataNumbers[p]
           d == Data(current, p)
           keys == current.trained[p]
<1>1. /\ N \in Nat \ {0} /\ IsVector(d, N) /\ InKeyOrder(d)
      /\ IsIndex(current) /\ PartOK(current, p)
  BY HeldIs DEF IsGood, Sorted, IsArray
<1>2. keys = KeysOf(d) /\ d[N - 1].key = Ends[p]
  BY <1>1 DEF IsGood, PartOK
<1> HIDE DEF N, d, keys
<1>3. /\ DOMAIN d = 0 .. N - 1 /\ DOMAIN keys = 0 .. N - 1
      /\ \A j \in 0 .. N - 1 : keys[j] = d[j].key /\ d[j].key \in Int
      /\ \A j, h \in 0 .. N - 1 : j < h => d[j].key <= d[h].key
  BY <1>1, <1>2 DEF IsVector, InKeyOrder, KeysOf
<1>4. IsVector(keys, N)
  BY <1>1, <1>3 DEF IsVector
<1>5. /\ i \in 0 .. N - 1 /\ k = d[i].key /\ k \in Int
      /\ \A j \in 0 .. N - 1 : j < i => d[j].key < k
      /\ k < Ends[p] \/ i = N - 1
  BY <1>3 DEF N, d
<1>6. /\ keys[i] = k /\ \A j \in 0 .. N - 1 : j < i => keys[j] < k
      /\ k < keys[N - 1] \/ i = N - 1
  <2>1. N - 1 \in 0 .. N - 1
    BY <1>1
  <2> QED
    BY <1>2, <1>3, <1>5, <2>1
<1>7. ASSUME NEW range \in SearchBound(keys, k) PROVE FindData(range, k, p) = d[i].value
  <2>1. /\ range.begin \in Nat /\ range.end \in Nat
        /\ range.begin < range.end /\ range.end <= N
        /\ range.begin <= i /\ i < range.end
    <3>1. /\ N > 0 /\ \A j \in 0 .. N - 1 : keys[j] \in Int
          /\ \A j, h \in 0 .. N - 1 : j < h => keys[j] <= keys[h]
      BY <1>1, <1>3
    <3> QED
      BY <1>4, <1>5, <1>6, <3>1, RangeHoldsTheFirst
  <2>2. PICK buf : \E c \in Nat, n \in Nat \ {0} :
           /\ c + n <= N /\ c <= range.begin /\ range.end <= c + n
           /\ \A x \in 0 .. n - 1 : buf[x] = d[c + x]
           /\ FindData(range, k, p) = buf[LowerBound(buf, n, k)].value
    <3>1. range.end <= current.dataNumbers[p]
      BY <2>1 DEF N
    <3>2. ReadsPart(range, k, p)
      BY <1>1, <2>1, <3>1, PagesOfFind
    <3> QED
      BY <3>2 DEF ReadsPart, N, d
  <2>3. PICK c \in Nat, n \in Nat \ {0} :
           /\ c + n <= N /\ c <= range.begin /\ range.end <= c + n
           /\ \A x \in 0 .. n - 1 : buf[x] = d[c + x]
           /\ FindData(range, k, p) = buf[LowerBound(buf, n, k)].value
    BY <2>2
  <2>4. PICK y : y = i - c
    OBVIOUS
  <2>5. y \in 0 .. n - 1 /\ c + y = i
    BY <1>1, <1>5, <2>1, <2>3, <2>4
  <2>6. \A x \in 0 .. n - 1 : c + x \in 0 .. N - 1 /\ buf[x] = d[c + x]
    BY <1>1, <2>3
  <2>7. /\ \A x \in 0 .. n - 1 : buf[x].key \in Int
        /\ \A x, h \in 0 .. n - 1 : x < h => buf[x].key <= buf[h].key
        /\ \A x \in 0 .. n - 1 : x < y => buf[x].key < buf[y].key
        /\ buf[y] = d[i]
    <3>1. \A x \in 0 .. n - 1 : buf[x].key \in Int
      BY <1>3, <2>6
    <3>2. ASSUME NEW x \in 0 .. n - 1, NEW h \in 0 .. n - 1, x < h
          PROVE  buf[x].key <= buf[h].key
      <4>1. c + x < c + h
        BY <2>3, <3>2
      <4> QED
        BY <1>3, <2>6, <4>1
    <3>3. buf[y] = d[i]
      BY <2>5, <2>6
    <3>4. ASSUME NEW x \in 0 .. n - 1, x < y PROVE buf[x].key < buf[y].key
      <4>1. c + x < i /\ c + x \in 0 .. N - 1
        BY <2>3, <2>5, <2>6, <3>4
      <4> QED
        BY <1>5, <2>6, <3>3, <4>1
    <3> QED
      BY <3>1, <3>2, <3>3, <3>4
  <2>8. LowerBound(buf, n, buf[y].key) = y
    BY <2>3, <2>5, <2>7, LowerBoundIsFirst
  <2> QED
    BY <1>5, <2>3, <2>7, <2>8
<1>8. PICK range : range \in SearchBound(keys, k)
  BY <1>4, SomeRange
<1>9. {FindData(x, k, p) : x \in SearchBound(keys, k)} = {d[i].value}
  <2> DEFINE A == {FindData(x, k, p) : x \in SearchBound(keys, k)}
  <2>1. \A v \in A : v = d[i].value
    BY <1>7
  <2>2. FindData(range, k, p) \in A
    BY <1>8
  <2>3. d[i].value \in A
    BY <1>7, <1>8, <2>2
  <2> HIDE DEF A
  <2>4. A = {d[i].value}
    BY <2>1, <2>3
  <2> QED
    BY <2>4 DEF A
<1> QED
  BY <1>9 DEF keys, d

\* The partition that is searched for a key is that between whose ends it is.
LEMMA PartitionOf ==
  ASSUME current.partitionKeys = Ends, NEW p \in Partitions, NEW k \in Int,
         k <= Ends[p], p > 0 => Ends[p - 1] < k
  PROVE  GetPartitionID(k) = p
<1> DEFINE P == {x \in Partitions : Ends[x] < k}
           c == Cardinality(P)
<1>1. /\ MergeThreadNum \in Nat \ {0} /\ Partitions = 0 .. MergeThreadNum - 1
      /\ p \in Nat /\ MergeThreadNum \in Nat
  BY PartitionsAssumption DEF Partitions
<1>2. /\ \A x \in Partitions : Ends[x] \in Int
      /\ \A x, y \in Partitions : x < y => Ends[x] < Ends[y]
  BY BuiltEnds
<1>3. GetPartitionID(k) = c
  BY DEF GetPartitionID
<1>4. \A x \in Partitions : x \in P <=> x < p
  <2> TAKE x \in Partitions
  <2>1. x \in Nat /\ Ends[x] \in Int /\ Ends[p] \in Int
    BY <1>1, <1>2
  <2>2. CASE x < p
    <3>1. p > 0 /\ p - 1 \in Partitions /\ (x = p - 1 \/ x < p - 1)
      BY <1>1, <2>1, <2>2
    <3>2. Ends[p - 1] \in Int /\ Ends[p - 1] < k /\ Ends[x] <= Ends[p - 1]
      BY <1>2, <2>1, <3>1
    <3>3. Ends[x] < k
      BY <2>1, <3>2
    <3> QED
      BY <2>2, <3>3
  <2>3. CASE ~(x < p)
    <3>1. x = p \/ p < x
      BY <1>1, <2>1, <2>3
    <3>2. Ends[p] <= Ends[x]
      BY <1>2, <2>1, <3>1
    <3>3. ~(Ends[x] < k)
      BY <2>1, <3>2
    <3> QED
      BY <2>3, <3>3
  <2> QED
    BY <2>2, <2>3
<1>5. P \in SUBSET (0 .. MergeThreadNum - 1)
  BY <1>1
<1> HIDE DEF P
<1>6. \A x \in P : \A y \in 0 .. MergeThreadNum - 1 : y < x => y \in P
  BY <1>1, <1>4, <1>5
<1>7. c \in 0 .. MergeThreadNum /\ P = 0 .. c - 1
  BY <1>1, <1>5, <1>6, PrefixIsCounted
<1> HIDE DEF c
<1>8. ~(c < p)
  <2> SUFFICES ASSUME c < p PROVE FALSE
    OBVIOUS
  <2>1. c \in Partitions
    BY <1>1, <1>7
  <2>2. c \in P
    BY <1>4, <2>1
  <2> QED
    BY <1>7, <2>2
<1>9. ~(p < c)
  <2> SUFFICES ASSUME p < c PROVE FALSE
    OBVIOUS
  <2>1. p \in P
    BY <1>1, <1>7
  <2> QED
    BY <1>1, <1>4, <2>1
<1> QED
  BY <1>1, <1>3, <1>7, <1>8, <1>9

\* What the partitions hold: a partition has keys between its end and the one
\* before it, and that end once; the first record of a key is its newest; and no
\* key is without a record.
Divides(x) ==
  \A p \in Partitions : \A i \in 0 .. x.dataNumbers[p] - 1 :
    /\ p > 0 => Ends[p - 1] < Data(x, p)[i].key
    /\ i < x.dataNumbers[p] - 1 => Data(x, p)[i].key < Ends[p]

IsFirst(x, p, i) ==
  \A j \in 0 .. x.dataNumbers[p] - 1 : j < i => Data(x, p)[j].key < Data(x, p)[i].key

NewestFirst(x, values) ==
  \A p \in Partitions : \A i \in 0 .. x.dataNumbers[p] - 1 :
    IsFirst(x, p, i) => values[Data(x, p)[i].key] = Data(x, p)[i].value

HasAll(x, values) ==
  \A k \in Keys : values[k] >= 0 =>
    \E p \in Partitions : \E i \in 0 .. x.dataNumbers[p] - 1 : Data(x, p)[i].key = k

Answers(x, values) == Divides(x) /\ NewestFirst(x, values) /\ HasAll(x, values)

LEMMA KeysAreNumbers == Keys \subseteq Int /\ Handed \subseteq Keys /\ Loaded \subseteq Keys
BY KeysAssumption

LEMMA AnswersFind == ASSUME MInv, Answers(current, newest) PROVE FindsNewest
<1> SUFFICES ASSUME NEW k \in Keys, newest[k] >= 0
             PROVE  GetPartitionID(k) \in Partitions /\ Find(k) = {newest[k]}
  BY DEF FindsNewest
<1>1. PICK p \in Partitions : \E i \in 0 .. current.dataNumbers[p] - 1 : Data(current, p)[i].key = k
  BY DEF Answers, HasAll
<1> DEFINE N == current.dataNumbers[p]
           d == Data(current, p)
           P == {i \in 0 .. N - 1 : d[i].key < k}
           c == Cardinality(P)
<1>2. PICK i \in 0 .. N - 1 : d[i].key = k
  BY <1>1
<1>3. /\ IsGood(current) /\ N \in Nat \ {0} /\ IsVector(d, N) /\ InKeyOrder(d)
      /\ PartOK(current, p)
  BY HeldIs DEF MInv, IsGood, Sorted, IsArray
<1>4. /\ \A x \in 0 .. N - 1 :
           /\ p > 0 => Ends[p - 1] < d[x].key
           /\ x < N - 1 => d[x].key < Ends[p]
      /\ d[N - 1].key = Ends[p]
  BY <1>3 DEF Answers, Divides, IsGood, PartOK
<1> HIDE DEF N, d
<1>5. /\ \A x \in 0 .. N - 1 : d[x].key \in Int
      /\ \A x, y \in 0 .. N - 1 : x < y => d[x].key <= d[y].key
      /\ k \in Int /\ Ends[p] \in Int
  BY <1>3, KeysAreNumbers, BuiltEnds DEF IsVector, InKeyOrder
<1>6. k <= Ends[p] /\ (p > 0 => Ends[p - 1] < k)
  <2>1. i = N - 1 \/ i < N - 1
    BY <1>3
  <2> QED
    BY <1>2, <1>4, <1>5, <2>1
<1>7. GetPartitionID(k) = p
  BY <1>3, <1>5, <1>6, PartitionOf DEF IsGood
<1>8. P \in SUBSET (0 .. N - 1)
  OBVIOUS
<1>9. \A x \in P : \A y \in 0 .. N - 1 : y < x => y \in P
  <2> SUFFICES ASSUME NEW x \in P, NEW y \in 0 .. N - 1, y < x PROVE y \in P
    OBVIOUS
  <2>1. d[x].key < k /\ d[y].key <= d[x].key /\ d[x].key \in Int /\ d[y].key \in Int
    BY <1>5
  <2> QED
    BY <1>5, <2>1
<1>10. i \notin P /\ \A x \in 0 .. N - 1 : x \in P <=> d[x].key < k
  BY <1>2, <1>5
<1> HIDE DEF P
<1>11. c \in 0 .. N /\ P = 0 .. c - 1
  BY <1>3, <1>8, <1>9, PrefixIsCounted
<1> HIDE DEF c
<1>12. c \in 0 .. N - 1 /\ c <= i
  BY <1>2, <1>3, <1>10, <1>11
<1>13. d[c].key = k
  <2>1. d[c].key <= d[i].key
    <3>1. c < i \/ c = i
      BY <1>2, <1>3, <1>12
    <3> QED
      BY <1>5, <1>12, <3>1
  <2>2. ~(d[c].key < k)
    BY <1>10, <1>11, <1>12
  <2> QED
    BY <1>2, <1>5, <1>12, <2>1, <2>2
<1>14. \A x \in 0 .. N - 1 : x < c => d[x].key < d[c].key
  BY <1>3, <1>10, <1>11, <1>12, <1>13
<1>15. d[c].key < Ends[p] \/ c = N - 1
  <2>1. c < N - 1 \/ c = N - 1
    BY <1>3, <1>12
  <2> QED
    BY <1>4, <1>12, <2>1
<1>16. {FindData(range, k, p) : range \in SearchBound(current.trained[p], k)} = {d[c].value}
  BY <1>3, <1>12, <1>13, <1>14, <1>15, FindsTheFirst DEF N, d
<1>17. newest[k] = d[c].value
  BY <1>12, <1>13, <1>14 DEF Answers, NewestFirst, IsFirst, N, d
<1> QED
  BY <1>7, <1>16, <1>17 DEF Find

LEMMA InitAnswers == ASSUME Init PROVE Answers(current, newest)
<1> DEFINE L == LoadedRecords
           n == LoadedSize
<1>1. /\ n \in Nat \ {0} /\ Partitions = 0 .. MergeThreadNum - 1 /\ MergeThreadNum \in Nat \ {0}
  BY SubNumbers DEF Partitions
<1>2. /\ \A i \in 0 .. n - 1 : L[i] \in [key : Loaded, value : {0}]
      /\ \A i, j \in 0 .. n - 1 : i < j => L[i].key < L[j].key
      /\ \A k \in Loaded : \E i \in 0 .. n - 1 : L[i].key = k
  BY LoadedOrder DEF IsOrderOf
<1>3. \A p \in Partitions : /\ SubFrom(p) \in Nat /\ SubTo(p) \in Nat
                            /\ SubFrom(p) < SubTo(p) /\ SubTo(p) <= n
  BY SubBounds
<1>4. \A p \in Partitions : /\ current.dataNumbers[p] = SubTo(p) - SubFrom(p)
                            /\ Data(current, p) = Sub(p)
  BY <1>1, BuiltHasParts DEF HasParts, Init
<1>5. \A p \in Partitions : Ends[p] = L[SubTo(p) - 1].key
  BY BuiltEnds
<1>6. ASSUME NEW p \in Partitions, NEW i \in 0 .. SubTo(p) - SubFrom(p) - 1
      PROVE  SubFrom(p) + i \in 0 .. n - 1 /\ Sub(p)[i] = L[SubFrom(p) + i]
  BY SubIs
<1>7. newest = [k \in Keys |-> IF k \in Loaded THEN 0 ELSE -1]
  BY DEF Init
<1> HIDE DEF L, n
<1>8. Divides(current)
  <2> SUFFICES ASSUME NEW p \in Partitions, NEW i \in 0 .. SubTo(p) - SubFrom(p) - 1
               PROVE  /\ p > 0 => Ends[p - 1] < Sub(p)[i].key
                      /\ i < SubTo(p) - SubFrom(p) - 1 => Sub(p)[i].key < Ends[p]
    BY <1>4 DEF Divides
  <2>1. SubFrom(p) + i \in 0 .. n - 1 /\ Sub(p)[i] = L[SubFrom(p) + i]
    BY <1>6
  <2>2. ASSUME p > 0 PROVE Ends[p - 1] < Sub(p)[i].key
    <3>1. p - 1 \in Partitions /\ (p - 1) + 1 = p
      BY <1>1, <2>2
    <3>2. SubTo(p - 1) = SubFrom(p)
      BY <3>1, SubBounds
    <3>3. SubTo(p - 1) - 1 \in 0 .. n - 1 /\ SubTo(p - 1) - 1 < SubFrom(p) + i
      BY <1>1, <1>3, <3>1, <3>2
    <3> QED
      BY <1>2, <1>5, <2>1, <3>1, <3>3
  <2>3. ASSUME i < SubTo(p) - SubFrom(p) - 1 PROVE Sub(p)[i].key < Ends[p]
    <3>1. SubTo(p) - 1 \in 0 .. n - 1 /\ SubFrom(p) + i < SubTo(p) - 1
      BY <1>1, <1>3, <2>3
    <3> QED
      BY <1>2, <1>5, <2>1, <3>1
  <2> QED
    BY <2>2, <2>3
<1>9. NewestFirst(current, newest)
  <2> SUFFICES ASSUME NEW p \in Partitions, NEW i \in 0 .. SubTo(p) - SubFrom(p) - 1
               PROVE  newest[Sub(p)[i].key] = Sub(p)[i].value
    BY <1>4 DEF NewestFirst
  <2>1. Sub(p)[i] \in [key : Loaded, value : {0}]
    BY <1>2, <1>6
  <2>2. Sub(p)[i].key \in Loaded /\ Sub(p)[i].key \in Keys /\ Sub(p)[i].value = 0
    BY <2>1, KeysAreNumbers
  <2> QED
    BY <1>7, <2>2
<1>10. HasAll(current, newest)
  <2> SUFFICES ASSUME NEW k \in Keys, newest[k] >= 0
               PROVE  \E p \in Partitions : \E i \in 0 .. current.dataNumbers[p] - 1 :
                        Data(current, p)[i].key = k
    BY DEF HasAll
  <2>1. k \in Loaded
    BY <1>7
  <2>2. PICK x \in 0 .. n - 1 : L[x].key = k
    BY <1>2, <2>1
  <2> DEFINE S == SubItems
             M0 == MergeThreadNum
             p == x \div S
  <2>3. S \in Nat \ {0} /\ n <= M0 * S
    BY SubNumbers DEF n
  <2>4. p \in Nat /\ S * p <= x /\ x < S * p + S
    BY <1>1, <2>3, Quotient
  <2>5. SubFrom(p) = p * S /\ SubTo(p) = IF p = M0 - 1 THEN n ELSE (p + 1) * S
    BY DEF SubFrom, SubTo, n
  <2> HIDE DEF S, p
  <2>6. p \in Partitions
    <3>1. S * p < S * M0
      BY <1>1, <2>3, <2>4
    <3>2. p < M0
      BY <1>1, <2>3, <2>4, <3>1, LessInProduct
    <3> QED
      BY <1>1, <2>4, <3>2
  <2>7. SubFrom(p) <= x /\ x < SubTo(p)
    <3>1. p * S = S * p /\ (p + 1) * S = S * p + S
      BY <2>3, <2>4
    <3> QED
      BY <1>1, <2>4, <2>5, <3>1
  <2>8. PICK i : i = x - SubFrom(p)
    OBVIOUS
  <2>9. i \in 0 .. SubTo(p) - SubFrom(p) - 1 /\ SubFrom(p) + i = x
    BY <1>1, <1>3, <2>6, <2>7, <2>8
  <2>10. Sub(p)[i].key = k
    BY <1>6, <2>2, <2>6, <2>9
  <2> QED
    BY <1>4, <2>6, <2>9, <2>10
<1> QED
  BY <1>8, <1>9, <1>10 DEF Answers

\* The last key of a partition is inserted by no one: the records at a key that
\* divides two partitions go to the second, where no find looks for them.
NoKeyIsAnEnd == \A k \in Handed : \A p \in Partitions : k # Built.partitionKeys[p]

\* What a partition gets by a merge: a records of those collected, from f on.
Gets(p, n, f, a, d, D, S) ==
  /\ f \in Nat /\ a \in Nat /\ f + a <= n
  /\ \A i \in 0 .. a - 1 : d[i] = dynamic[f + i]
  /\ \A i \in 0 .. n - 1 : i < f + a <=> dynamic[i].key < Ends[p]
  /\ p > 0 => \A i \in 0 .. n - 1 : i < f <=> dynamic[i].key < Ends[p - 1]
  /\ p = 0 => f = 0
  /\ ArePlaces(D, S, Data(backup, p), d, a, Data(current, p), current.dataNumbers[p])
  /\ backup.dataNumbers[p] = a + current.dataNumbers[p]

LEMMA PublishedPart ==
  ASSUME MInv, AllSubMergeFinished, NEW n, IsCollected(dynamic, n), NEW p \in Partitions
  PROVE  \E f, a, d, D, S : Gets(p, n, f, a, d, D, S)
<1>1. StoredOK(p) /\ RangeIs(p) /\ task[p].read = Data(current, p)
  BY PublishedIsGood
<1>2. task[p].at # "none"
  BY DEF AllSubMergeFinished
<1>3. PICK r : r = ranges[p]
  OBVIOUS
<1>4. Usable(r) /\ r.dataNum = current.dataNumbers[p] /\ r.end <= n
  <2>1. PICK z : /\ IsCollected(dynamic, z) /\ Size(dynamic) = z
                 /\ Usable(r) /\ r.dataNum = current.dataNumbers[p] /\ r.end <= z
    BY <1>2, <1>3, GivenRows
  <2>2. Size(dynamic) = n
    BY SizeIsLength DEF IsCollected, IsArray
  <2> QED
    BY <2>1, <2>2
<1>5. PICK s : s = Data(current, p)
  OBVIOUS
<1>6. PICK b : b = current.dataNumbers[p]
  OBVIOUS
<1>7. b \in Nat \ {0} /\ IsVector(s, b) /\ InKeyOrder(s)
  BY <1>5, <1>6, HeldIs DEF MInv, IsGood, Sorted, IsArray
<1>8. PICK a : a = r.end - r.first
  OBVIOUS
<1>9. PICK d : d = Part(r)
  OBVIOUS
<1>10. /\ IsVector(d, a) /\ InKeyOrder(d)
       /\ \A i \in 0 .. a - 1 : d[i] = dynamic[r.first + i]
  BY <1>4, <1>8, <1>9, PartIs
<1>11. PICK D, S : ArePlaces(D, S, Interleave(d, s, TRUE), d, a, s, b)
  BY <1>7, <1>10, InterleavePlaces
<1>12. Data(backup, p) = Interleave(d, s, TRUE) /\ backup.dataNumbers[p] = Length(r)
  BY <1>1, <1>3, <1>5, <1>9 DEF StoredOK, Merged
<1>13. r.first \in Nat /\ r.end \in Nat /\ r.first <= r.end
  BY <1>4 DEF Usable
<1>14. a \in Nat /\ r.first + a = r.end /\ Length(r) = a + b
  BY <1>4, <1>6, <1>7, <1>8, <1>13 DEF Length
<1>15. /\ \A i \in 0 .. n - 1 : i < r.end <=> dynamic[i].key < Ends[p]
       /\ p > 0 => \A i \in 0 .. n - 1 : i < r.first <=> dynamic[i].key < Ends[p - 1]
       /\ p = 0 => r.first = 0
  <2>1. PICK first : first = r.first
    OBVIOUS
  <2>2. PICK end : end = r.end
    OBVIOUS
  <2>3. /\ first = (IF p > 0 THEN DynamicIndexOf(dynamic, Ends[p - 1]) ELSE 0)
        /\ end = DynamicIndexOf(dynamic, Ends[p])
    BY <1>1, <1>3, <2>1, <2>2 DEF RangeIs
  <2>4. /\ \A i \in 0 .. n - 1 : i < end <=> dynamic[i].key < Ends[p]
        /\ p > 0 => \A i \in 0 .. n - 1 : i < first <=> dynamic[i].key < Ends[p - 1]
        /\ p = 0 => first = 0
    BY <2>3, PartLies
  <2> QED
    BY <2>1, <2>2, <2>4
<1>16. PICK f : f = r.first
  OBVIOUS
<1>17. /\ f \in Nat /\ a \in Nat /\ f + a <= n
       /\ \A i \in 0 .. a - 1 : d[i] = dynamic[f + i]
  BY <1>4, <1>10, <1>13, <1>14, <1>16
<1>18. /\ \A i \in 0 .. n - 1 : i < f + a <=> dynamic[i].key < Ends[p]
       /\ p > 0 => \A i \in 0 .. n - 1 : i < f <=> dynamic[i].key < Ends[p - 1]
       /\ p = 0 => f = 0
  BY <1>14, <1>15, <1>16
<1>19. ArePlaces(D, S, Data(backup, p), d, a, Data(current, p), current.dataNumbers[p])
  BY <1>5, <1>6, <1>11, <1>12
<1>20. backup.dataNumbers[p] = a + current.dataNumbers[p]
  BY <1>6, <1>12, <1>14
<1>21. Gets(p, n, f, a, d, D, S)
  BY <1>17, <1>18, <1>19, <1>20 DEF Gets
<1> QED
  BY <1>21

\* The records collected are those of this round.
LEMMA CollectedNow ==
  ASSUME MInv, dynamic # <<>>, NEW n, IsCollected(dynamic, n)
  PROVE  /\ n \in Nat /\ DOMAIN dynamic = 0 .. n - 1
         /\ \A i \in 0 .. n - 1 : dynamic[i].value = round /\ dynamic[i].key \in Int
         /\ \A i, j \in 0 .. n - 1 : i < j => dynamic[i].key < dynamic[j].key
<1>1. n \in Nat /\ DOMAIN dynamic = 0 .. n - 1
  BY DEF IsCollected, IsArray, IsVector
<1>2. PICK keys : keys \in (SUBSET Handed) \ {{}} /\ dynamic = InOrder(keys, round)
  BY DEF MInv, DynamicOK, DynamicIs
<1>3. keys \in SUBSET Int /\ IsFiniteSet(keys)
  <2>1. keys \in SUBSET Keys /\ IsFiniteSet(Keys) /\ Keys \subseteq Int
    BY <1>2, KeysAssumption
  <2> QED
    BY <2>1, FS_Subset
<1>4. IsOrderOf(InOrder(keys, round), Cardinality(keys), keys, round)
  BY <1>3, KeysInOrder
<1>5. DOMAIN dynamic = 0 .. Cardinality(keys) - 1
  BY <1>2, <1>4 DEF IsOrderOf, IsArray, IsVector
<1>6. ASSUME NEW i \in 0 .. n - 1 PROVE dynamic[i].value = round /\ dynamic[i].key \in Int
  <2>1. dynamic[i] \in [key : keys, value : {round}]
    BY <1>1, <1>2, <1>4, <1>5 DEF IsOrderOf
  <2> QED
    BY <1>3, <2>1
<1> QED
  BY <1>1, <1>6 DEF IsCollected

\* They lie between the ends.
LEMMA CollectedRecords ==
  ASSUME NoKeyIsAnEnd, MInv, dynamic # <<>>, NEW n, IsCollected(dynamic, n)
  PROVE  /\ n \in Nat /\ DOMAIN dynamic = 0 .. n - 1
         /\ \A i \in 0 .. n - 1 : /\ dynamic[i].value = round
                                  /\ dynamic[i].key \in Keys /\ dynamic[i].key \in Int
                                  /\ \A p \in Partitions : dynamic[i].key # Ends[p]
<1>1. \A i \in 0 .. n - 1 : dynamic[i].key \in Handed
  BY DEF IsCollected
<1>2. \A k \in Handed : \A p \in Partitions : k # Ends[p]
  BY DEF NoKeyIsAnEnd, Ends
<1> QED
  BY <1>1, <1>2, CollectedNow, KeysAreNumbers

\* The records of a partition after a merge, by where they come from.
LEMMA PartitionGets ==
  ASSUME MInv, AllSubMergeFinished, NEW p \in Partitions,
         NEW n \in Nat, NEW f, NEW a, NEW d, NEW D, NEW S, Gets(p, n, f, a, d, D, S),
         NEW m, m = Data(backup, p), NEW s, s = Data(current, p),
         NEW b, b = current.dataNumbers[p]
  PROVE  /\ a \in Nat /\ b \in Nat \ {0} /\ backup.dataNumbers[p] = a + b
         /\ ArePlaces(D, S, m, d, a, s, b)
         /\ \A i \in 0 .. a - 1 : f + i \in 0 .. n - 1 /\ d[i] = dynamic[f + i]
         /\ \A j \in 0 .. b - 1 : s[j].key \in Keys /\ s[j].key \in Int
         /\ s[b - 1].key = Ends[p] /\ Ends[p] \in Int
         /\ p > 0 => Ends[p - 1] \in Int
         /\ f \in Nat
<1>1. IsGood(current) /\ PartOK(current, p) /\ IsIndex(current)
  BY DEF MInv, IsGood
<1>2. b \in Nat \ {0} /\ IsArray(s, b) /\ RecordsOK(s)
  BY <1>1, HeldIs
<1>3. s[b - 1].key = Ends[p]
  BY <1>1 DEF PartOK, IsGood
<1>4. \A j \in 0 .. b - 1 : s[j] \in Record
  BY <1>2 DEF RecordsOK, IsArray, IsVector
<1>5. \A j \in 0 .. b - 1 : s[j].key \in Keys /\ s[j].key \in Int
  BY <1>4, KeysAreNumbers DEF Record
<1>6. /\ f \in Nat /\ a \in Nat /\ f + a <= n
      /\ \A i \in 0 .. a - 1 : d[i] = dynamic[f + i]
      /\ ArePlaces(D, S, m, d, a, s, b) /\ backup.dataNumbers[p] = a + b
  BY DEF Gets
<1>8. \A i \in 0 .. a - 1 : f + i \in 0 .. n - 1
  BY <1>6
<1>9. Ends[p] \in Int /\ (p > 0 => Ends[p - 1] \in Int)
  <2>1. p > 0 => p - 1 \in Partitions
    BY PartitionsAssumption DEF Partitions
  <2> QED
    BY <2>1, BuiltEnds
<1> QED
  BY <1>2, <1>3, <1>5, <1>6, <1>8, <1>9

LEMMA PublishDivides ==
  ASSUME NoKeyIsAnEnd, MInv, AllSubMergeFinished, Divides(current)
  PROVE  Divides(backup)
<1>1. dynamic # <<>>
  BY PublishedIsGood
<1>2. PICK n : IsCollected(dynamic, n)
  BY <1>1, DynamicIsCollected
<1>3. n \in Nat /\ \A i \in 0 .. n - 1 :
        dynamic[i].key \in Int /\ \A p \in Partitions : dynamic[i].key # Ends[p]
  BY <1>1, <1>2, CollectedRecords
<1> SUFFICES ASSUME NEW p \in Partitions, NEW x \in 0 .. backup.dataNumbers[p] - 1
             PROVE  /\ p > 0 => Ends[p - 1] < Data(backup, p)[x].key
                    /\ x < backup.dataNumbers[p] - 1 => Data(backup, p)[x].key < Ends[p]
  BY DEF Divides
<1>4. PICK f, a, d, D, S : Gets(p, n, f, a, d, D, S)
  BY <1>2, PublishedPart
<1>5. PICK m : m = Data(backup, p)
  OBVIOUS
<1>6. PICK s : s = Data(current, p)
  OBVIOUS
<1>7. PICK b : b = current.dataNumbers[p]
  OBVIOUS
<1>8. /\ a \in Nat /\ b \in Nat \ {0} /\ backup.dataNumbers[p] = a + b
      /\ ArePlaces(D, S, m, d, a, s, b)
      /\ \A i \in 0 .. a - 1 : f + i \in 0 .. n - 1 /\ d[i] = dynamic[f + i]
      /\ \A j \in 0 .. b - 1 : s[j].key \in Int
      /\ s[b - 1].key = Ends[p] /\ Ends[p] \in Int /\ f \in Nat
      /\ p > 0 => Ends[p - 1] \in Int
  BY <1>3, <1>4, <1>5, <1>6, <1>7, PartitionGets
<1>9. \A j \in 0 .. b - 1 : /\ p > 0 => Ends[p - 1] < s[j].key
                            /\ j < b - 1 => s[j].key < Ends[p]
  BY <1>6, <1>7 DEF Divides
<1>10. /\ \A i \in 0 .. n - 1 : i < f + a <=> dynamic[i].key < Ends[p]
       /\ p > 0 => \A i \in 0 .. n - 1 : i < f <=> dynamic[i].key < Ends[p - 1]
  BY <1>4 DEF Gets
<1>11. p > 0 => p - 1 \in Partitions
  BY PartitionsAssumption DEF Partitions
<1>12. \A i \in 0 .. a - 1 : /\ d[i].key \in Int /\ d[i].key < Ends[p]
                             /\ p > 0 => Ends[p - 1] < d[i].key
  <2> SUFFICES ASSUME NEW i \in 0 .. a - 1
               PROVE  /\ d[i].key \in Int /\ d[i].key < Ends[p]
                      /\ p > 0 => Ends[p - 1] < d[i].key
    OBVIOUS
  <2>1. f + i \in 0 .. n - 1 /\ d[i] = dynamic[f + i] /\ f + i < f + a /\ ~(f + i < f)
    BY <1>8
  <2>2. d[i].key \in Int /\ d[i].key < Ends[p]
    BY <1>3, <1>10, <2>1
  <2>3. p > 0 => ~(d[i].key < Ends[p - 1]) /\ d[i].key # Ends[p - 1]
    BY <1>3, <1>10, <1>11, <2>1
  <2> QED
    BY <1>8, <2>2, <2>3
<1>13. /\ \A i \in 0 .. a - 1 : D[i] \in 0 .. a + b - 1 /\ m[D[i]] = d[i]
       /\ \A j \in 0 .. b - 1 : S[j] \in 0 .. a + b - 1 /\ m[S[j]] = s[j]
       /\ \A y \in 0 .. a + b - 1 :
            (\E i \in 0 .. a - 1 : y = D[i]) \/ (\E j \in 0 .. b - 1 : y = S[j])
       /\ \A j, h \in 0 .. b - 1 : j < h => S[j] < S[h]
       /\ \A i \in 0 .. a - 1 : \A j \in 0 .. b - 1 : d[i].key <= s[j].key <=> D[i] < S[j]
  BY <1>8 DEF ArePlaces
<1>14. b - 1 \in 0 .. b - 1 /\ a + b - 1 \in 0 .. a + b - 1
  BY <1>8
\* The last record on disk stays the last one.
<1>15. ASSUME NEW y \in 0 .. a + b - 1 PROVE y <= S[b - 1]
  <2>1. S[b - 1] \in 0 .. a + b - 1
    BY <1>13, <1>14
  <2>2. ASSUME NEW i \in 0 .. a - 1, y = D[i] PROVE y < S[b - 1]
    BY <1>8, <1>12, <1>13, <1>14, <2>2
  <2>3. ASSUME NEW j \in 0 .. b - 1, y = S[j] PROVE y <= S[b - 1]
    <3>1. j < b - 1 \/ j = b - 1
      BY <1>8
    <3>2. S[j] < S[b - 1] \/ S[j] = S[b - 1]
      BY <1>13, <1>14, <3>1
    <3> QED
      BY <1>8, <2>1, <2>3, <3>2
  <2> QED
    BY <1>8, <1>13, <2>1, <2>2, <2>3
<1>16. S[b - 1] = a + b - 1
  <2>1. S[b - 1] \in 0 .. a + b - 1 /\ a + b - 1 <= S[b - 1]
    BY <1>13, <1>14, <1>15
  <2> QED
    BY <1>8, <2>1
<1>17. x \in 0 .. a + b - 1
  BY <1>8
<1>18. ASSUME NEW i \in 0 .. a - 1, x = D[i]
       PROVE  (p > 0 => Ends[p - 1] < m[x].key) /\ m[x].key < Ends[p]
  BY <1>12, <1>13, <1>18
<1>19. ASSUME NEW j \in 0 .. b - 1, x = S[j]
       PROVE  (p > 0 => Ends[p - 1] < m[x].key) /\ (x < a + b - 1 => m[x].key < Ends[p])
  <2>1. m[x] = s[j]
    BY <1>13, <1>19
  <2>2. j = b - 1 \/ j < b - 1
    BY <1>8
  <2>3. j = b - 1 => x = a + b - 1
    BY <1>16, <1>19
  <2>4. x < a + b - 1 => j < b - 1
    BY <1>8, <1>17, <2>2, <2>3
  <2> QED
    BY <1>9, <2>1, <2>4
<1>20. /\ p > 0 => Ends[p - 1] < m[x].key
       /\ x < a + b - 1 => m[x].key < Ends[p]
  BY <1>13, <1>17, <1>18, <1>19
<1> QED
  BY <1>5, <1>8, <1>20

NextNewest ==
  [k \in Keys |-> IF \E i \in DOMAIN dynamic : dynamic[i].key = k THEN round ELSE newest[k]]

\* A record that was collected is of the partition that its key is in.
LEMMA ItsPartition ==
  ASSUME NoKeyIsAnEnd, MInv, AllSubMergeFinished, NEW n, IsCollected(dynamic, n),
         NEW p \in Partitions, NEW f, NEW a, NEW d, NEW D, NEW S, Gets(p, n, f, a, d, D, S),
         NEW i \in 0 .. n - 1, dynamic[i].key <= Ends[p],
         p > 0 => Ends[p - 1] <= dynamic[i].key
  PROVE  i - f \in 0 .. a - 1 /\ d[i - f] = dynamic[i]
<1>1. /\ f \in Nat /\ a \in Nat
      /\ \A x \in 0 .. a - 1 : d[x] = dynamic[f + x]
      /\ \A x \in 0 .. n - 1 : x < f + a <=> dynamic[x].key < Ends[p]
      /\ p > 0 => \A x \in 0 .. n - 1 : x < f <=> dynamic[x].key < Ends[p - 1]
      /\ p = 0 => f = 0
  BY DEF Gets
<1>2. dynamic # <<>>
  BY PublishedIsGood
<1>3. n \in Nat /\ dynamic[i].key \in Int /\ dynamic[i].key # Ends[p]
  BY <1>2, CollectedRecords
<1>4. p \in Nat /\ (p > 0 => p - 1 \in Partitions)
  BY PartitionsAssumption DEF Partitions
<1>5. Ends[p] \in Int /\ (p > 0 => Ends[p - 1] \in Int)
  BY <1>4, BuiltEnds
<1>6. i < f + a
  BY <1>1, <1>3, <1>5
<1>7. ~(i < f)
  <2>1. CASE p > 0
    BY <1>1, <1>3, <1>5, <2>1
  <2>2. CASE p = 0
    BY <1>1, <2>2
  <2> QED
    BY <1>4, <2>1, <2>2
<1>8. PICK x : x = i - f
  OBVIOUS
<1>9. x \in 0 .. a - 1 /\ f + x = i
  BY <1>1, <1>3, <1>6, <1>7, <1>8
<1> QED
  BY <1>1, <1>8, <1>9

LEMMA PublishNewest ==
  ASSUME NoKeyIsAnEnd, MInv, AllSubMergeFinished, Divides(current), NewestFirst(current, newest)
  PROVE  NewestFirst(backup, NextNewest)
<1>1. dynamic # <<>>
  BY PublishedIsGood
<1>2. PICK n : IsCollected(dynamic, n)
  BY <1>1, DynamicIsCollected
<1>3. /\ n \in Nat /\ DOMAIN dynamic = 0 .. n - 1
      /\ \A i \in 0 .. n - 1 : /\ dynamic[i].key \in Keys /\ dynamic[i].key \in Int
                               /\ dynamic[i].value = round
  BY <1>1, <1>2, CollectedRecords
<1> SUFFICES ASSUME NEW p \in Partitions, NEW x \in 0 .. backup.dataNumbers[p] - 1,
                    IsFirst(backup, p, x)
             PROVE  NextNewest[Data(backup, p)[x].key] = Data(backup, p)[x].value
  BY DEF NewestFirst
<1>4. PICK f, a, d, D, S : Gets(p, n, f, a, d, D, S)
  BY <1>2, PublishedPart
<1>5. PICK m : m = Data(backup, p)
  OBVIOUS
<1>6. PICK s : s = Data(current, p)
  OBVIOUS
<1>7. PICK b : b = current.dataNumbers[p]
  OBVIOUS
<1>8. /\ a \in Nat /\ b \in Nat \ {0} /\ backup.dataNumbers[p] = a + b
      /\ ArePlaces(D, S, m, d, a, s, b)
      /\ \A i \in 0 .. a - 1 : f + i \in 0 .. n - 1 /\ d[i] = dynamic[f + i]
      /\ \A j \in 0 .. b - 1 : s[j].key \in Keys /\ s[j].key \in Int
      /\ s[b - 1].key = Ends[p] /\ Ends[p] \in Int /\ f \in Nat
      /\ p > 0 => Ends[p - 1] \in Int
  BY <1>3, <1>4, <1>5, <1>6, <1>7, PartitionGets
<1>9. \A j \in 0 .. b - 1 : /\ p > 0 => Ends[p - 1] < s[j].key
                            /\ j < b - 1 => s[j].key < Ends[p]
  BY <1>6, <1>7 DEF Divides
<1>10. /\ \A i \in 0 .. a - 1 : D[i] \in 0 .. a + b - 1 /\ m[D[i]] = d[i]
       /\ \A j \in 0 .. b - 1 : S[j] \in 0 .. a + b - 1 /\ m[S[j]] = s[j]
       /\ \A y \in 0 .. a + b - 1 :
            (\E i \in 0 .. a - 1 : y = D[i]) \/ (\E j \in 0 .. b - 1 : y = S[j])
       /\ \A j, h \in 0 .. b - 1 : j < h => S[j] < S[h]
       /\ \A i \in 0 .. a - 1 : \A j \in 0 .. b - 1 : d[i].key <= s[j].key <=> D[i] < S[j]
  BY <1>8 DEF ArePlaces
<1>11. x \in 0 .. a + b - 1 /\ \A y \in 0 .. a + b - 1 : y < x => m[y].key < m[x].key
  BY <1>5, <1>8 DEF IsFirst
<1>12. ASSUME NEW i \in 0 .. a - 1, x = D[i] PROVE NextNewest[m[x].key] = m[x].value
  <2>1. f + i \in 0 .. n - 1 /\ m[x] = dynamic[f + i]
    BY <1>8, <1>10, <1>12
  <2>2. m[x].key \in Keys /\ m[x].value = round
    BY <1>3, <2>1
  <2>3. \E y \in DOMAIN dynamic : dynamic[y].key = m[x].key
    BY <1>3, <2>1
  <2> QED
    BY <2>2, <2>3 DEF NextNewest
<1>13. ASSUME NEW j \in 0 .. b - 1, x = S[j] PROVE NextNewest[m[x].key] = m[x].value
  <2>1. m[x] = s[j] /\ s[j].key \in Keys /\ s[j].key \in Int
    BY <1>8, <1>10, <1>13
  <2>2. \A y \in DOMAIN dynamic : dynamic[y].key # m[x].key
    <3> SUFFICES ASSUME NEW y \in 0 .. n - 1, dynamic[y].key = s[j].key PROVE FALSE
      BY <1>3, <2>1
    <3>1. s[j].key <= Ends[p]
      <4>1. j < b - 1 \/ j = b - 1
        BY <1>8
      <4>2. s[j].key < Ends[p] \/ s[j].key = Ends[p]
        BY <1>8, <1>9, <4>1
      <4> QED
        BY <1>8, <2>1, <4>2
    <3>2. p > 0 => Ends[p - 1] <= s[j].key
      BY <1>8, <1>9, <2>1
    <3>3. PICK i : i = y - f
      OBVIOUS
    <3>4. i \in 0 .. a - 1 /\ d[i] = dynamic[y]
      BY <1>2, <1>4, <3>1, <3>2, <3>3, ItsPartition
    <3>5. d[i].key <= s[j].key
      BY <2>1, <3>4
    <3>6. D[i] < x /\ D[i] \in 0 .. a + b - 1 /\ m[D[i]].key = m[x].key
      BY <1>10, <1>13, <2>1, <3>4, <3>5
    <3>7. m[D[i]].key < m[x].key
      BY <1>11, <3>6
    <3> QED
      BY <2>1, <3>6, <3>7
  <2>3. NextNewest[m[x].key] = newest[s[j].key]
    BY <2>1, <2>2 DEF NextNewest
  <2>4. ASSUME NEW h \in 0 .. b - 1, h < j PROVE s[h].key < s[j].key
    <3>1. S[h] < x /\ S[h] \in 0 .. a + b - 1 /\ m[S[h]] = s[h]
      BY <1>10, <1>13, <2>4
    <3> QED
      BY <1>11, <2>1, <3>1
  <2>5. IsFirst(current, p, j)
    BY <1>6, <1>7, <2>4 DEF IsFirst
  <2>6. newest[s[j].key] = s[j].value
    BY <1>6, <1>7, <2>5 DEF NewestFirst
  <2> QED
    BY <2>1, <2>3, <2>6
<1>14. NextNewest[m[x].key] = m[x].value
  BY <1>10, <1>11, <1>12, <1>13
<1> QED
  BY <1>5, <1>14

\* Every key that was collected is below some end.
LEMMA SomePartition ==
  ASSUME KeysBelowLast, NEW n, IsCollected(dynamic, n), NEW i \in 0 .. n - 1
  PROVE  \E p \in Partitions : /\ dynamic[i].key <= Ends[p]
                               /\ p > 0 => Ends[p - 1] <= dynamic[i].key
<1> DEFINE k == dynamic[i].key
           P == {x \in Partitions : Ends[x] <= k}
           c == Cardinality(P)
<1>1. M \in Nat \ {0} /\ Partitions = 0 .. M - 1 /\ M - 1 \in Partitions
  BY PartitionsAssumption DEF Partitions, M
<1>2. /\ \A x \in Partitions : Ends[x] \in Int
      /\ \A x, y \in Partitions : x < y => Ends[x] < Ends[y]
  BY BuiltEnds
<1>3. n \in Nat /\ IsVector(dynamic, n) /\ InKeyOrder(dynamic)
  BY DEF IsCollected, IsArray
<1>4. k \in Int
  BY <1>3 DEF IsVector, InKeyOrder
<1>5. k < Ends[M - 1]
  <2>1. PICK key \in Int : key = Ends[M - 1]
    BY <1>1, <1>2
  <2>2. \A x \in 0 .. n - 1 : dynamic[x].key < key <=> x < DynamicIndexOf(dynamic, key)
    BY <1>3, DynamicIndexIs
  <2>3. DynamicIndexOf(dynamic, key) = n
    BY <2>1, LastTakesAll
  <2> QED
    BY <1>3, <2>1, <2>2, <2>3
<1> HIDE DEF k, M
<1>6. P \in SUBSET (0 .. M - 1) /\ M - 1 \notin P
  BY <1>1, <1>2, <1>4, <1>5
<1>7. ASSUME NEW x \in P, NEW y \in 0 .. M - 1, y < x PROVE y \in P
  <2>1. x \in Partitions /\ y \in Partitions /\ Ends[x] <= k
    BY <1>1
  <2>2. Ends[y] < Ends[x] /\ Ends[y] \in Int /\ Ends[x] \in Int
    BY <1>2, <1>7, <2>1
  <2>3. Ends[y] <= k
    BY <1>4, <2>1, <2>2
  <2> QED
    BY <2>1, <2>3
<1>8. \A x \in Partitions : x \in P <=> Ends[x] <= k
  OBVIOUS
<1> HIDE DEF P
<1>9. c \in 0 .. M /\ P = 0 .. c - 1
  BY <1>1, <1>6, <1>7, PrefixIsCounted
<1> HIDE DEF c
<1>10. c \in Partitions /\ c \notin P
  <2>1. ~(M - 1 < c)
    BY <1>1, <1>6, <1>9
  <2> QED
    BY <1>1, <1>9, <2>1
<1>11. c > 0 => c - 1 \in P /\ c - 1 \in Partitions
  BY <1>1, <1>9, <1>10
<1>12. k <= Ends[c] /\ (c > 0 => Ends[c - 1] <= k)
  <2>1. ~(Ends[c] <= k) /\ Ends[c] \in Int
    BY <1>2, <1>8, <1>10
  <2>2. c > 0 => Ends[c - 1] <= k
    BY <1>8, <1>11
  <2> QED
    BY <1>4, <2>1, <2>2
<1> QED
  BY <1>10, <1>12 DEF k

LEMMA PublishHasAll ==
  ASSUME KeysBelowLast, NoKeyIsAnEnd, MInv, AllSubMergeFinished, HasAll(current, newest)
  PROVE  HasAll(backup, NextNewest)
<1>1. dynamic # <<>>
  BY PublishedIsGood
<1>2. PICK n : IsCollected(dynamic, n)
  BY <1>1, DynamicIsCollected
<1>3. n \in Nat /\ DOMAIN dynamic = 0 .. n - 1
  BY <1>1, <1>2, CollectedRecords
<1> SUFFICES ASSUME NEW k \in Keys, NextNewest[k] >= 0
             PROVE  \E p \in Partitions : \E x \in 0 .. backup.dataNumbers[p] - 1 :
                      Data(backup, p)[x].key = k
  BY DEF HasAll
<1>4. CASE \E i \in 0 .. n - 1 : dynamic[i].key = k
  <2>1. PICK i \in 0 .. n - 1 : dynamic[i].key = k
    BY <1>4
  <2>2. PICK p \in Partitions : /\ dynamic[i].key <= Ends[p]
                                /\ p > 0 => Ends[p - 1] <= dynamic[i].key
    BY <1>2, SomePartition
  <2>3. PICK f, a, d, D, S : Gets(p, n, f, a, d, D, S)
    BY <1>2, PublishedPart
  <2>4. PICK y : y = i - f
    OBVIOUS
  <2>5. y \in 0 .. a - 1 /\ d[y] = dynamic[i]
    BY <1>2, <2>2, <2>3, <2>4, ItsPartition
  <2>6. PICK m : m = Data(backup, p)
    OBVIOUS
  <2>7. PICK b : b = current.dataNumbers[p]
    OBVIOUS
  <2>8. PICK s : s = Data(current, p)
    OBVIOUS
  <2>9. backup.dataNumbers[p] = a + b /\ ArePlaces(D, S, m, d, a, s, b)
    BY <2>3, <2>6, <2>7, <2>8 DEF Gets
  <2>10. D[y] \in 0 .. a + b - 1 /\ m[D[y]] = d[y]
    BY <2>5, <2>9 DEF ArePlaces
  <2>11. D[y] \in 0 .. backup.dataNumbers[p] - 1
    <3>1. a \in Nat /\ b \in Nat
      BY <1>3, <2>3, <2>7, PartitionGets
    <3>2. PICK c : c = backup.dataNumbers[p]
      OBVIOUS
    <3>3. c = a + b
      BY ONLY <2>9, <3>2
    <3>4. D[y] \in 0 .. c - 1
      BY ONLY <2>10, <3>1, <3>3
    <3> QED
      BY ONLY <3>2, <3>4
  <2>12. m[D[y]].key = k
    BY <2>1, <2>5, <2>10
  <2>13. Data(backup, p)[D[y]].key = k
    BY ONLY <2>6, <2>12
  <2> QED
    BY <2>11, <2>13
<1>5. CASE ~\E i \in 0 .. n - 1 : dynamic[i].key = k
  <2>1. NextNewest[k] = newest[k]
    BY <1>3, <1>5 DEF NextNewest
  <2>2. PICK p \in Partitions : \E j \in 0 .. current.dataNumbers[p] - 1 : Data(current, p)[j].key = k
    BY <2>1 DEF HasAll
  <2>3. PICK f, a, d, D, S : Gets(p, n, f, a, d, D, S)
    BY <1>2, PublishedPart
  <2>6. PICK m : m = Data(backup, p)
    OBVIOUS
  <2>7. PICK b : b = current.dataNumbers[p]
    OBVIOUS
  <2>8. PICK s : s = Data(current, p)
    OBVIOUS
  <2>9. backup.dataNumbers[p] = a + b /\ ArePlaces(D, S, m, d, a, s, b)
    BY <2>3, <2>6, <2>7, <2>8 DEF Gets
  <2>10. PICK j \in 0 .. b - 1 : s[j].key = k
    BY <2>2, <2>7, <2>8
  <2>11. S[j] \in 0 .. a + b - 1 /\ m[S[j]] = s[j]
    BY <2>9, <2>10 DEF ArePlaces
  <2>12. S[j] \in 0 .. backup.dataNumbers[p] - 1
    <3>1. a \in Nat /\ b \in Nat
      BY <1>3, <2>3, <2>7, PartitionGets
    <3>2. PICK c : c = backup.dataNumbers[p]
      OBVIOUS
    <3>3. c = a + b
      BY ONLY <2>9, <3>2
    <3>4. S[j] \in 0 .. c - 1
      BY ONLY <2>11, <3>1, <3>3
    <3> QED
      BY ONLY <3>2, <3>4
  <2>13. m[S[j]].key = k
    BY <2>10, <2>11
  <2>14. Data(backup, p)[S[j]].key = k
    BY ONLY <2>6, <2>13
  <2> QED
    BY <2>12, <2>14
<1> QED
  BY <1>4, <1>5

LEMMA StepKeepsAnswers ==
  ASSUME KeysBelowLast, NoKeyIsAnEnd, MInv, Answers(current, newest), [Next]_vars
  PROVE  Answers(current, newest)'
<1>1. ASSUME current' = current, newest' = newest PROVE Answers(current, newest)'
  <2>1. PICK x : x = current
    OBVIOUS
  <2>2. PICK values : values = newest
    OBVIOUS
  <2>3. Answers(x, values)
    BY <2>1, <2>2
  <2>4. Answers(x, values)' <=> Answers(x, values)
    BY DEF Answers, Divides, NewestFirst, HasAll, IsFirst, Data
  <2> QED
    BY <1>1, <2>1, <2>2, <2>3, <2>4
<1>2. CASE Publish
  <2>1. AllSubMergeFinished /\ current' = backup /\ newest' = NextNewest
    BY <1>2 DEF Publish, NextNewest
  <2>2. Divides(backup) /\ NewestFirst(backup, NextNewest) /\ HasAll(backup, NextNewest)
    BY <2>1, PublishDivides, PublishNewest, PublishHasAll DEF Answers
  <2>3. PICK x : x = backup
    OBVIOUS
  <2>4. PICK values : values = NextNewest
    OBVIOUS
  <2>5. Answers(x, values)
    BY <2>2, <2>3, <2>4 DEF Answers
  <2>6. Answers(x, values)' <=> Answers(x, values)
    BY DEF Answers, Divides, NewestFirst, HasAll, IsFirst, Data
  <2> QED
    BY <2>1, <2>3, <2>4, <2>5, <2>6
<1>3. CASE PartitionData \/ (\E keys \in (SUBSET Handed) \ {{}} : Collect(keys)) \/ UNCHANGED vars
  BY <1>1, <1>3 DEF PartitionData, Collect, vars
<1>4. ASSUME NEW p \in Partitions, MergeSub(p) PROVE Answers(current, newest)'
  BY <1>1, <1>4 DEF MergeSub, ReadStatic, TakeDynamic, TakeStatic, TakeRest, Turn, Store
<1> QED
  BY <1>2, <1>3, <1>4 DEF Next

\* If the keys that are inserted are below the last one loaded, and none is the last
\* key of a partition, a find of any key answers the last record handed over for it,
\* whatever range its models give: of the several records that the merges leave of
\* a key the newest comes first, and the search ends at the first.
THEOREM FindsTheNewest ==
  ASSUME KeysBelowLast, NoKeyIsAnEnd
  PROVE  Spec => []FindsNewest
<1>1. Init => Answers(current, newest)
  BY InitAnswers
<1>2. MInv /\ Answers(current, newest) /\ [Next]_vars => Answers(current, newest)'
  BY StepKeepsAnswers
<1>3. MInv /\ Answers(current, newest) => FindsNewest
  BY AnswersFind
<1> QED
  BY <1>1, <1>2, <1>3, AlwaysMInv, PTL DEF Spec

-----------------------------------------------------------------------------
(* The order of what the merges read.                                       *)

\* Of the records of a key that a partition has the newest comes first, and all of
\* them are older than the records that were collected.
Descends(x) ==
  \A p \in Partitions : \A i, j \in 0 .. x.dataNumbers[p] - 1 :
    i < j => Before(Data(x, p)[i], Data(x, p)[j])

NotAfter(x, value) ==
  \A p \in Partitions : \A i \in 0 .. x.dataNumbers[p] - 1 : Data(x, p)[i].value <= value

Aged == /\ Descends(current) /\ NotAfter(current, round)
        /\ dynamic # <<>> => NotAfter(current, round - 1)

LEMMA InitAged == ASSUME Init PROVE Aged
<1> DEFINE L == LoadedRecords
           n == LoadedSize
<1>1. n \in Nat /\ Partitions = 0 .. MergeThreadNum - 1 /\ MergeThreadNum \in Nat \ {0}
  BY SubNumbers DEF Partitions
<1>2. /\ \A i \in 0 .. n - 1 : L[i] \in [key : Loaded, value : {0}]
      /\ \A i, j \in 0 .. n - 1 : i < j => L[i].key < L[j].key
  BY LoadedOrder DEF IsOrderOf
<1>3. \A p \in Partitions : /\ SubFrom(p) \in Nat /\ SubTo(p) \in Nat
                            /\ SubFrom(p) < SubTo(p) /\ SubTo(p) <= n
  BY SubBounds
<1>4. \A p \in Partitions : /\ current.dataNumbers[p] = SubTo(p) - SubFrom(p)
                            /\ Data(current, p) = Sub(p)
  BY <1>1, BuiltHasParts DEF HasParts, Init
<1>5. ASSUME NEW p \in Partitions, NEW i \in 0 .. SubTo(p) - SubFrom(p) - 1
      PROVE  SubFrom(p) + i \in 0 .. n - 1 /\ Sub(p)[i] = L[SubFrom(p) + i]
  BY SubIs
<1> HIDE DEF L, n
<1>6. ASSUME NEW p \in Partitions, NEW i \in 0 .. SubTo(p) - SubFrom(p) - 1
      PROVE  Sub(p)[i].value <= 0
  <2>1. Sub(p)[i] \in [key : Loaded, value : {0}]
    BY <1>2, <1>5
  <2>2. Sub(p)[i].value = 0
    BY <2>1
  <2> QED
    BY <2>2
<1>7. ASSUME NEW p \in Partitions, NEW i \in 0 .. SubTo(p) - SubFrom(p) - 1,
             NEW j \in 0 .. SubTo(p) - SubFrom(p) - 1, i < j
      PROVE  Sub(p)[i].key < Sub(p)[j].key
  <2>1. SubFrom(p) + i < SubFrom(p) + j
    BY <1>3, <1>7
  <2> QED
    BY <1>2, <1>5, <2>1
<1> QED
  BY <1>4, <1>6, <1>7 DEF Init, Aged, Descends, NotAfter, Before

\* A merge keeps the order: what it adds is newer than what is there.
LEMMA PublishAges ==
  ASSUME MInv, AllSubMergeFinished, Descends(current), NotAfter(current, round - 1)
  PROVE  Descends(backup) /\ NotAfter(backup, round)
<1>1. dynamic # <<>>
  BY PublishedIsGood
<1>2. PICK n : IsCollected(dynamic, n)
  BY <1>1, DynamicIsCollected
<1>3. /\ n \in Nat
      /\ \A i \in 0 .. n - 1 : dynamic[i].value = round /\ dynamic[i].key \in Int
      /\ \A i, j \in 0 .. n - 1 : i < j => dynamic[i].key < dynamic[j].key
  BY <1>1, <1>2, CollectedNow
<1>4. round \in Int
  BY DEF MInv, Numbers
<1> SUFFICES ASSUME NEW p \in Partitions
             PROVE  /\ \A x, y \in 0 .. backup.dataNumbers[p] - 1 :
                         x < y => Before(Data(backup, p)[x], Data(backup, p)[y])
                    /\ \A x \in 0 .. backup.dataNumbers[p] - 1 :
                         Data(backup, p)[x].value <= round
  BY DEF Descends, NotAfter
<1>5. PICK f, a, d, D, S : Gets(p, n, f, a, d, D, S)
  BY <1>2, PublishedPart
<1>6. PICK m : m = Data(backup, p)
  OBVIOUS
<1>7. PICK s : s = Data(current, p)
  OBVIOUS
<1>8. PICK b : b = current.dataNumbers[p]
  OBVIOUS
<1>9. /\ a \in Nat /\ b \in Nat \ {0} /\ backup.dataNumbers[p] = a + b
      /\ ArePlaces(D, S, m, d, a, s, b)
      /\ \A i \in 0 .. a - 1 : f + i \in 0 .. n - 1 /\ d[i] = dynamic[f + i]
      /\ \A j \in 0 .. b - 1 : s[j].key \in Int
      /\ f \in Nat
  BY <1>3, <1>5, <1>6, <1>7, <1>8, PartitionGets
<1>10. \A j \in 0 .. b - 1 : s[j].value \in Int /\ s[j].value <= round - 1
  <2>1. IsIndex(current) /\ PartOK(current, p)
    BY DEF MInv, IsGood
  <2>2. IsArray(s, b) /\ RecordsOK(s)
    BY <1>7, <1>8, <2>1, HeldIs
  <2>3. \A j \in 0 .. b - 1 : s[j] \in Record
    BY <2>2 DEF RecordsOK, IsArray, IsVector
  <2>4. \A j \in 0 .. b - 1 : s[j].value \in Int
    BY <2>3, RoundsAssumption DEF Record
  <2> QED
    BY <1>7, <1>8, <2>4 DEF NotAfter
<1>11. \A i, j \in 0 .. b - 1 : i < j => Before(s[i], s[j])
  BY <1>7, <1>8 DEF Descends
<1>12. \A i \in 0 .. a - 1 : d[i].value = round /\ d[i].key \in Int
  BY <1>3, <1>9
<1>13. ASSUME NEW i \in 0 .. a - 1, NEW j \in 0 .. a - 1, i < j PROVE d[i].key < d[j].key
  <2>1. f + i \in 0 .. n - 1 /\ f + j \in 0 .. n - 1 /\ f + i < f + j
    BY <1>9, <1>13
  <2> QED
    BY <1>3, <1>9, <2>1
<1>14. /\ \A i \in 0 .. a - 1 : D[i] \in 0 .. a + b - 1 /\ m[D[i]] = d[i]
       /\ \A j \in 0 .. b - 1 : S[j] \in 0 .. a + b - 1 /\ m[S[j]] = s[j]
       /\ \A y \in 0 .. a + b - 1 :
            (\E i \in 0 .. a - 1 : y = D[i]) \/ (\E j \in 0 .. b - 1 : y = S[j])
       /\ \A i, h \in 0 .. a - 1 : i < h => D[i] < D[h]
       /\ \A j, h \in 0 .. b - 1 : j < h => S[j] < S[h]
       /\ \A i \in 0 .. a - 1 : \A j \in 0 .. b - 1 : d[i].key <= s[j].key <=> D[i] < S[j]
  BY <1>9 DEF ArePlaces
<1>15. ASSUME NEW x \in 0 .. a + b - 1, NEW y \in 0 .. a + b - 1, x < y
       PROVE  Before(m[x], m[y])
  <2>1. ASSUME NEW i \in 0 .. a - 1, x = D[i], NEW h \in 0 .. a - 1, y = D[h]
        PROVE  Before(m[x], m[y])
    <3>1. i < h
      <4>1. ~(h < i) /\ i # h
        BY <1>14, <1>15, <2>1
      <4> QED
        BY <1>9, <4>1
    <3> QED
      BY <1>13, <1>14, <2>1, <3>1 DEF Before
  <2>2. ASSUME NEW i \in 0 .. a - 1, x = D[i], NEW h \in 0 .. b - 1, y = S[h]
        PROVE  Before(m[x], m[y])
    <3>1. d[i].key <= s[h].key
      BY <1>14, <1>15, <2>2
    <3>2. d[i].value > s[h].value
      BY <1>4, <1>10, <1>12
    <3>3. d[i].key < s[h].key \/ d[i].key = s[h].key
      BY <1>9, <1>12, <3>1
    <3> QED
      BY <1>14, <2>2, <3>2, <3>3 DEF Before
  <2>3. ASSUME NEW i \in 0 .. b - 1, x = S[i], NEW h \in 0 .. a - 1, y = D[h]
        PROVE  Before(m[x], m[y])
    <3>1. ~(D[h] < S[i])
      BY <1>14, <1>15, <2>3
    <3>2. s[i].key < d[h].key
      BY <1>9, <1>12, <1>14, <3>1
    <3> QED
      BY <1>14, <2>3, <3>2 DEF Before
  <2>4. ASSUME NEW i \in 0 .. b - 1, x = S[i], NEW h \in 0 .. b - 1, y = S[h]
        PROVE  Before(m[x], m[y])
    <3>1. i < h
      <4>1. ~(h < i) /\ i # h
        BY <1>14, <1>15, <2>4
      <4> QED
        BY <1>9, <4>1
    <3> QED
      BY <1>11, <1>14, <2>4, <3>1
  <2> QED
    BY <1>14, <2>1, <2>2, <2>3, <2>4
<1>16. ASSUME NEW x \in 0 .. a + b - 1 PROVE m[x].value <= round
  <2>1. ASSUME NEW i \in 0 .. a - 1, x = D[i] PROVE m[x].value <= round
    BY <1>4, <1>12, <1>14, <2>1
  <2>2. ASSUME NEW j \in 0 .. b - 1, x = S[j] PROVE m[x].value <= round
    <3>1. s[j].value <= round
      BY <1>4, <1>10
    <3> QED
      BY <1>14, <2>2, <3>1
  <2> QED
    BY <1>14, <2>1, <2>2
<1> QED
  BY <1>6, <1>9, <1>15, <1>16

LEMMA StepKeepsAged ==
  ASSUME MInv, Aged, [Next]_vars
  PROVE  Aged'
<1>1. CASE Publish
  <2>1. /\ AllSubMergeFinished /\ current' = backup /\ dynamic' = <<>>
        /\ round' = round
    BY <1>1 DEF Publish
  <2>2. dynamic # <<>>
    BY <2>1, PublishedIsGood
  <2>3. Descends(backup) /\ NotAfter(backup, round)
    BY <2>1, <2>2, PublishAges DEF Aged
  <2>4. Descends(current)' /\ NotAfter(current, round)'
    BY <2>1, <2>3 DEF Descends, NotAfter, Data
  <2> QED
    BY <2>1, <2>4 DEF Aged
<1>2. ASSUME NEW keys \in (SUBSET Handed) \ {{}}, Collect(keys) PROVE Aged'
  <2>1. current' = current /\ round' = round + 1
    BY <1>2 DEF Collect
  <2>2. round \in Int
    BY DEF MInv, Numbers
  <2>3. ASSUME NEW p \in Partitions, NEW i \in 0 .. current.dataNumbers[p] - 1
        PROVE  Data(current, p)[i].value \in Int
    <3>1. IsIndex(current) /\ PartOK(current, p)
      BY DEF MInv, IsGood
    <3>2. /\ IsArray(Data(current, p), current.dataNumbers[p])
          /\ RecordsOK(Data(current, p))
      BY <3>1, HeldIs
    <3>3. Data(current, p)[i] \in Record
      BY <2>3, <3>2 DEF RecordsOK, IsArray, IsVector
    <3> QED
      BY <3>3, RoundsAssumption DEF Record
  <2>4. PICK v : v = round + 1
    OBVIOUS
  <2>5. PICK u : u = v - 1
    OBVIOUS
  <2>6. v \in Int /\ u \in Int /\ round <= v /\ round <= u
    BY <2>2, <2>4, <2>5
  <2>7. NotAfter(current, v) /\ NotAfter(current, u) /\ Descends(current)
    BY <2>2, <2>3, <2>6 DEF Aged, NotAfter
  <2>8. /\ NotAfter(current, v)' <=> NotAfter(current', v)
        /\ NotAfter(current, u)' <=> NotAfter(current', u)
        /\ Descends(current)' <=> Descends(current')
    BY DEF Descends, NotAfter, Data
  <2>9. /\ round' = v /\ round' - 1 = u
    BY <2>1, <2>4, <2>5
  <2> QED
    BY <2>1, <2>7, <2>8, <2>9 DEF Aged, NotAfter
<1>3. ASSUME current' = current, round' = round, dynamic' = dynamic PROVE Aged'
  BY <1>3 DEF Aged, Descends, NotAfter, Data
<1>4. CASE PartitionData \/ UNCHANGED vars
  BY <1>3, <1>4 DEF PartitionData, vars
<1>5. ASSUME NEW p \in Partitions, MergeSub(p) PROVE Aged'
  BY <1>3, <1>5 DEF MergeSub, ReadStatic, TakeDynamic, TakeStatic, TakeRest, Turn, Store
<1> QED
  BY <1>1, <1>2, <1>4, <1>5 DEF Next

LEMMA AgedInputs == ASSUME MInv, Aged PROVE InputsInOrder
<1> SUFFICES ASSUME NEW p \in Partitions, task[p].at \in {"offered", "merge"}
             PROVE  /\ {ranges[p].dataNum, ranges[p].first, ranges[p].end} \subseteq Nat
                    /\ ranges[p].first <= ranges[p].end
                    /\ ranges[p].first .. ranges[p].end - 1 \subseteq DOMAIN dynamic
                    /\ \A x, y \in ranges[p].first .. ranges[p].end - 1 :
                         x < y => dynamic[x].key < dynamic[y].key
                    /\ task[p].at = "merge" =>
                         \A x, y \in 0 .. ranges[p].dataNum - 1 :
                           x < y => Before(task[p].read[x], task[p].read[y])
  BY DEF InputsInOrder
<1> DEFINE r == ranges[p]
<1>1. PICK n : /\ IsCollected(dynamic, n) /\ Usable(r) /\ r.end <= n
               /\ r.dataNum = current.dataNumbers[p]
  BY GivenRows
<1> HIDE DEF r
<1>2. r.dataNum \in Nat /\ r.first \in Nat /\ r.end \in Nat /\ r.first <= r.end
  BY <1>1 DEF Usable
<1>3. n \in Nat /\ DOMAIN dynamic = 0 .. n - 1
  BY <1>1 DEF IsCollected, IsArray, IsVector
<1>4. r.first .. r.end - 1 \subseteq 0 .. n - 1
  BY <1>1, <1>2, <1>3
<1>5. \A x, y \in r.first .. r.end - 1 : x < y => dynamic[x].key < dynamic[y].key
  BY <1>1, <1>4 DEF IsCollected
<1>6. task[p].at = "merge" =>
        \A x, y \in 0 .. r.dataNum - 1 : x < y => Before(task[p].read[x], task[p].read[y])
  <2>1. task[p].at = "merge" => task[p].read = Data(current, p)
    BY DEF MInv, Tasks, TaskIs
  <2> QED
    BY <1>1, <2>1 DEF Aged, Descends
<1> QED
  BY <1>2, <1>3, <1>4, <1>5, <1>6 DEF r

\* Both vectors that a task is given (PartitionData, GetSubData) are in a strict
\* order, whatever the merges before it have stored and whichever keys are inserted
\* again: the keys of the dynamic records ascend, and so do those on disk, but that
\* the records of one key lie together, the newest first.
THEOREM InputsAreSorted == Spec => []InputsInOrder
<1>1. Init => Aged
  BY InitAged
<1>2. MInv /\ Aged /\ [Next]_vars => Aged'
  BY StepKeepsAged
<1>3. MInv /\ Aged => InputsInOrder
  BY AgedInputs
<1> QED
  BY <1>1, <1>2, <1>3, AlwaysMInv, PTL DEF Spec
=============================================================================
