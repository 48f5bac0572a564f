-------------------------- MODULE HybridIndexProofs --------------------------
(***************************************************************************)
(* The single-threaded hybrid index, for any page size, any error of the   *)
(* models, any keys and values, any memory and any number of writes: a     *)
(* find answers what was written last, each key has one record, the        *)
(* last-mile search ends at the lower bound of its key, and a merge makes  *)
(* room.                                                                   *)
(*                                                                         *)
(* The first part is about the search, given sorted records; the second    *)
(* about what a merge makes of the records; the third has the invariant of *)
(* the index and a lemma for every action.                                 *)
(***************************************************************************)
EXTENDS HybridIndex, PageFileProofs

(***************************************************************************)
(* The loop of the last-mile search.                                       *)
(***************************************************************************)

IsSearch(r) == r \in [pid : {r.pid}, n : Int, buf : {r.buf}, s : Int, e : Int]

\* What is sought is a key, and a search that is under way has a range.
Seeking ==
  /\ op.key \in Int
  /\ IsSearch(search)
  /\ op.at = "search" => 0 <= search.s /\ search.s <= search.e /\ search.e <= search.n

\* The loop invariant.  Either the search went to the last record at once, all
\* being below the key, or those it has left on the left are below the key and
\* those on the right are not.
Bracketed ==
  op.at = "search" =>
    \/ search.s = search.n - 1 /\ search.e = search.n - 1 /\ AboveAll
    \/ /\ \A i \in 0 .. search.s - 1 : search.buf[i].key < op.key
       /\ \A i \in search.e .. search.n - 1 : ~(search.buf[i].key < op.key)
       /\ search.s = 0 \/ ~AboveAll

LoopInv == Seeking /\ Bracketed

\* What the loop relies on.
GivenSorted == op.at = "search" => SortedTo(search.buf, search.n)

-----------------------------------------------------------------------------
\* A key that is asked for is a number.
LEMMA KeysAreNumbers == \A k \in Keys : k \in Int
BY KeysAssumption

\* Moving the ends of the range leaves the rest of the search as it is.
LEMMA NarrowedLeft ==
  ASSUME NEW r, IsSearch(r), NEW a \in Int, NEW x, x = [r EXCEPT !.s = a]
  PROVE  IsSearch(x) /\ x.n = r.n /\ x.buf = r.buf /\ x.s = a /\ x.e = r.e
<1> DEFINE P == {r.pid}
           Q == {r.buf}
<1>1. r \in [pid : P, n : Int, buf : Q, s : Int, e : Int]
  BY DEF IsSearch
<1> HIDE DEF P, Q
<1>2. /\ x \in [pid : P, n : Int, buf : Q, s : Int, e : Int]
      /\ x.pid = r.pid /\ x.n = r.n /\ x.buf = r.buf /\ x.s = a /\ x.e = r.e
  BY <1>1
<1> QED
  BY <1>2 DEF IsSearch, P, Q

LEMMA NarrowedRight ==
  ASSUME NEW r, IsSearch(r), NEW a \in Int, NEW x, x = [r EXCEPT !.e = a]
  PROVE  IsSearch(x) /\ x.n = r.n /\ x.buf = r.buf /\ x.s = r.s /\ x.e = a
<1> DEFINE P == {r.pid}
           Q == {r.buf}
<1>1. r \in [pid : P, n : Int, buf : Q, s : Int, e : Int]
  BY DEF IsSearch
<1> HIDE DEF P, Q
<1>2. /\ x \in [pid : P, n : Int, buf : Q, s : Int, e : Int]
      /\ x.pid = r.pid /\ x.n = r.n /\ x.buf = r.buf /\ x.s = r.s /\ x.e = a
  BY <1>1
<1> QED
  BY <1>2 DEF IsSearch, P, Q

-----------------------------------------------------------------------------
\* A lookup on disk starts with the whole of what it has read.
LEMMA LookUpStarts ==
  ASSUME NEW kind, NEW k \in Keys, NEW v, LookUpOnDisk(kind, k, v), GivenSorted'
  PROVE  LoopInv'
<1>1. PICK range \in SearchBound(trained, k) : search' = Fetched(range)
  BY DEF LookUpOnDisk
<1>2. op'.at = "search" /\ op'.key = k
  BY DEF LookUpOnDisk
<1>3. /\ search'.s = 0 /\ search'.e = search'.n
      /\ search' = [pid |-> search'.pid, n |-> search'.n, buf |-> search'.buf,
                    s |-> search'.s, e |-> search'.e]
  BY <1>1 DEF Fetched
<1>4. search'.n \in Nat
  BY <1>2 DEF GivenSorted, SortedTo
<1>5. Seeking'
  BY <1>2, <1>3, <1>4, KeysAreNumbers DEF Seeking, IsSearch
<1>6. Bracketed'
  BY <1>3, <1>4 DEF Bracketed
<1> QED
  BY <1>5, <1>6 DEF LoopInv

\* The jump to the last record.
LEMMA EndAtLastKeeps ==
  ASSUME LoopInv, EndAtLast, GivenSorted
  PROVE  LoopInv' /\ search'.e - search'.s < search.e - search.s
<1>1. /\ op' = op /\ op.at = "search"
      /\ search' = [search EXCEPT !.s = search.n - 1, !.e = search.n - 1]
      /\ AboveAll
  BY DEF EndAtLast
<1>2. search.n \in Nat \ {0}
  BY <1>1 DEF GivenSorted, SortedTo
<1>3. IsSearch(search) /\ search.n - 1 \in Int
  BY <1>2 DEF LoopInv, Seeking
<1>4. /\ IsSearch(search') /\ search'.n = search.n /\ search'.buf = search.buf
      /\ search'.s = search.n - 1 /\ search'.e = search.n - 1
  <2> DEFINE last == search.n - 1
             P == {search.pid}
             Q == {search.buf}
  <2>1. search' = [search EXCEPT !.s = last, !.e = last]
    BY <1>1
  <2>2. search \in [pid : P, n : Int, buf : Q, s : Int, e : Int] /\ last \in Int
    BY <1>3 DEF IsSearch
  <2> HIDE DEF last, P, Q
  <2>3. /\ search' \in [pid : P, n : Int, buf : Q, s : Int, e : Int]
        /\ search'.n = search.n /\ search'.buf = search.buf
        /\ search'.s = last /\ search'.e = last
    BY <2>1, <2>2
  <2> QED
    BY <2>3 DEF IsSearch, last, P, Q
<1>5. Seeking'
  BY <1>1, <1>2, <1>4 DEF LoopInv, Seeking
<1>6. Bracketed'
  BY <1>1, <1>4 DEF Bracketed, AboveAll
<1>7. search'.e - search'.s < search.e - search.s
  BY <1>1, <1>3, <1>4 DEF EndAtLast, LoopInv, Seeking, IsSearch
<1> QED
  BY <1>5, <1>6, <1>7 DEF LoopInv

\* One turn of the halving: it keeps the invariant, and what is left of the
\* range is less.
LEMMA HalveKeeps ==
  ASSUME LoopInv, Halve, GivenSorted
  PROVE  LoopInv' /\ search'.e - search'.s < search.e - search.s
<1> DEFINE mid == (search.s + search.e) \div 2
<1>1. /\ op' = op /\ op.at = "search" /\ search.s < search.e /\ ~AboveAll
      /\ search' = IF search.buf[mid].key < op.key
                   THEN [search EXCEPT !.s = mid + 1]
                   ELSE [search EXCEPT !.e = mid]
  BY DEF Halve
<1>2. /\ search.n \in Nat \ {0}
      /\ \A i \in 0 .. search.n - 1 : search.buf[i].key \in Int
      /\ \A i, j \in 0 .. search.n - 1 : i < j => search.buf[i].key <= search.buf[j].key
  BY <1>1 DEF GivenSorted, SortedTo
<1>3. /\ IsSearch(search) /\ search.s \in Int /\ search.e \in Int /\ op.key \in Int
      /\ 0 <= search.s /\ search.e <= search.n
  BY <1>1 DEF LoopInv, Seeking, IsSearch
<1>4. mid \in Int /\ search.s <= mid /\ mid < search.e /\ mid \in 0 .. search.n - 1
  BY <1>1, <1>2, <1>3
<1>5. /\ \A i \in 0 .. search.s - 1 : search.buf[i].key < op.key
      /\ \A i \in search.e .. search.n - 1 : ~(search.buf[i].key < op.key)
  BY <1>1, <1>2 DEF LoopInv, Bracketed
<1> HIDE DEF mid
<1>6. CASE search.buf[mid].key < op.key
  <2>1. /\ IsSearch(search') /\ search'.n = search.n /\ search'.buf = search.buf
        /\ search'.s = mid + 1 /\ search'.e = search.e
    <3>1. search' = [search EXCEPT !.s = mid + 1] /\ mid + 1 \in Int
      BY <1>1, <1>4, <1>6
    <3> QED
      BY <3>1, <1>3, NarrowedLeft
  <2>2. \A i \in 0 .. mid : search.buf[i].key < op.key
    BY <1>2, <1>3, <1>4, <1>6
  <2>3. Seeking'
    BY <1>1, <1>2, <1>3, <1>4, <2>1 DEF LoopInv, Seeking
  <2>4. Bracketed'
    BY <1>1, <1>4, <1>5, <2>1, <2>2 DEF Bracketed, AboveAll
  <2> QED
    BY <1>3, <1>4, <2>1, <2>3, <2>4 DEF LoopInv
<1>7. CASE ~(search.buf[mid].key < op.key)
  <2>1. /\ IsSearch(search') /\ search'.n = search.n /\ search'.buf = search.buf
        /\ search'.s = search.s /\ search'.e = mid
    <3>1. search' = [search EXCEPT !.e = mid]
      BY <1>1, <1>7
    <3> QED
      BY <3>1, <1>3, <1>4, NarrowedRight
  <2>2. \A i \in mid .. search.n - 1 : ~(search.buf[i].key < op.key)
    BY <1>2, <1>3, <1>4, <1>7
  <2>3. Seeking'
    BY <1>1, <1>2, <1>3, <1>4, <2>1 DEF LoopInv, Seeking
  <2>4. Bracketed'
    BY <1>1, <1>4, <1>5, <2>1, <2>2 DEF Bracketed, AboveAll
  <2> QED
    BY <1>3, <1>4, <2>1, <2>3, <2>4 DEF LoopInv
<1> QED
  BY <1>6, <1>7

\* The operations that begin without a search, or end one.
LEMMA OthersKeep ==
  ASSUME LoopInv, GivenSorted',
         \/ FindOnDisk \/ UpdateOnDisk \/ UpdateFails
         \/ \E k \in Keys : Find(k) \/ Delete(k)
         \/ \E k \in Keys, v \in Values : Insert(k, v) \/ Update(k, v)
  PROVE  LoopInv'
<1>1. IsSearch(NoSearch)
  BY DEF NoSearch, IsSearch
<1>2. op.key \in Int /\ IsSearch(search)
  BY DEF LoopInv, Seeking
<1>3. ASSUME op'.at = "idle", op'.key \in Int, IsSearch(search')
      PROVE  LoopInv'
  BY <1>3 DEF LoopInv, Seeking, Bracketed
<1>4. ASSUME NEW kind, NEW k, NEW v, k \in Int, Written(kind, k, v), IsSearch(search')
      PROVE  LoopInv'
  BY <1>3, <1>4 DEF Written, Idle
<1>5. CASE FindOnDisk
  BY <1>1, <1>2, <1>3, <1>5 DEF FindOnDisk, Idle
<1>6. CASE UpdateOnDisk
  BY <1>1, <1>2, <1>4, <1>6 DEF UpdateOnDisk
<1>7. CASE UpdateFails
  BY <1>1, <1>2, <1>3, <1>7 DEF UpdateFails, Idle
<1>8. ASSUME NEW k \in Keys, Find(k) PROVE LoopInv'
  <2>1. CASE k \in DOMAIN dynamic
    BY <1>2, <1>3, <1>8, <2>1, KeysAreNumbers DEF Find, Idle
  <2>2. CASE k \notin DOMAIN dynamic
    BY <1>8, <2>2, LookUpStarts DEF Find
  <2> QED
    BY <2>1, <2>2
<1>9. ASSUME NEW k \in Keys, Delete(k) PROVE LoopInv'
  <2>1. PICK v : Written("delete", k, v)
    BY <1>9 DEF Delete
  <2>2. search' = search
    BY <1>9 DEF Delete
  <2> QED
    BY <1>2, <1>4, <2>1, <2>2, KeysAreNumbers
<1>10. ASSUME NEW k \in Keys, NEW v \in Values, Insert(k, v) PROVE LoopInv'
  <2>1. Written("insert", k, v) /\ search' = search
    BY <1>10 DEF Insert, InsertInMemory, MergeAndInsert
  <2> QED
    BY <1>2, <1>4, <2>1, KeysAreNumbers
<1>11. ASSUME NEW k \in Keys, NEW v \in Values, Update(k, v) PROVE LoopInv'
  <2>1. CASE UpdateAssigns \/ k \in DOMAIN dynamic
    BY <1>2, <1>4, <1>11, <2>1, KeysAreNumbers DEF Update
  <2>2. CASE ~(UpdateAssigns \/ k \in DOMAIN dynamic)
    BY <1>11, <2>2, LookUpStarts DEF Update
  <2> QED
    BY <2>1, <2>2
<1> QED
  BY <1>5, <1>6, <1>7, <1>8, <1>9, <1>10, <1>11

\* A key of the loaded ones is there to be named by the first answer.
LEMMA InitLoopInv == Init => LoopInv
<1> SUFFICES ASSUME Init PROVE LoopInv
  OBVIOUS
<1>1. Loaded # {}
  <2>1. Cardinality(Loaded) > InitSize
    BY DEF Init
  <2> QED
    BY <2>1, FS_EmptySet, InitSizeAssumption
<1>2. (CHOOSE k \in Keys : TRUE) \in Keys
  BY <1>1, LoadedAssumption
<1>3. op.at = "idle" /\ op.key \in Int
  BY <1>2, KeysAreNumbers DEF Init, Idle
<1>4. IsSearch(search)
  BY DEF Init, NoSearch, IsSearch
<1> QED
  BY <1>3, <1>4 DEF LoopInv, Seeking, Bracketed

\* Every step keeps the invariant of the loop.
LEMMA StepKeepsLoopInv ==
  LoopInv /\ GivenSorted /\ GivenSorted' /\ [Next]_vars => LoopInv'
<1> SUFFICES ASSUME LoopInv, GivenSorted, GivenSorted', [Next]_vars PROVE LoopInv'
  OBVIOUS
<1>1. CASE EndAtLast
  BY <1>1, EndAtLastKeeps
<1>2. CASE Halve
  BY <1>2, HalveKeeps
<1>3. CASE UNCHANGED vars
  BY <1>3 DEF vars, LoopInv, Seeking, Bracketed, AboveAll, IsSearch
<1> QED
  BY <1>1, <1>2, <1>3, OthersKeep DEF Next, Search

\* What the loop invariant says of a search whose range is empty.
LEMMA EndsAtLowerBound == LoopInv /\ GivenSorted => SearchFindsLowerBound
<1> SUFFICES ASSUME LoopInv, GivenSorted, op.at = "search", search.s = search.e
             PROVE  search.s = LowerBound(search.buf, search.n, op.key)
  BY DEF SearchFindsLowerBound
<1>1. search.n \in Nat \ {0} /\ \A i \in 0 .. search.n - 1 : search.buf[i].key \in Int
  BY DEF GivenSorted, SortedTo
<1>2. /\ search.s \in Int /\ op.key \in Int /\ 0 <= search.s /\ search.s <= search.n
  BY DEF LoopInv, Seeking, IsSearch
<1>3. CASE AboveAll
  <2>1. search.s = search.n - 1
    BY <1>1, <1>2, <1>3 DEF LoopInv, Bracketed, AboveAll
  <2> QED
    BY <1>3, <2>1 DEF LowerBound, AboveAll
<1>4. CASE ~AboveAll
  <2> DEFINE notBelow == {i \in 0 .. search.n - 1 : search.buf[i].key >= op.key}
  <2>1. /\ \A i \in 0 .. search.s - 1 : search.buf[i].key < op.key
        /\ \A i \in search.s .. search.n - 1 : ~(search.buf[i].key < op.key)
    BY <1>4 DEF LoopInv, Bracketed
  <2>2. search.s # search.n
    BY <1>1, <1>2, <1>4, <2>1 DEF AboveAll
  <2>3. search.s \in notBelow
    BY <1>1, <1>2, <2>1, <2>2
  <2>4. \A i \in notBelow : search.s <= i
    BY <1>1, <1>2, <2>1
  <2>5. notBelow \in SUBSET Int
    BY <1>1
  <2> HIDE DEF notBelow
  <2>6. Min(notBelow) = search.s
    BY <2>3, <2>4, <2>5, MinIsLeast
  <2> QED
    BY <1>4, <2>6 DEF LowerBound, AboveAll, notBelow
<1> QED
  BY <1>3, <1>4

-----------------------------------------------------------------------------
(* What a merge makes of the records.                                       *)

Strict(v) == \A i, j \in DOMAIN v : i < j => v[i].key < v[j].key

\* Some records in memory: a function from keys to values.
IsMap(map) == /\ DOMAIN map \subseteq Keys
              /\ \A k \in DOMAIN map : map[k] \in Values

LEMMA MapIsFinite ==
  ASSUME NEW map, IsMap(map)
  PROVE  /\ IsFiniteSet(DOMAIN map) /\ DOMAIN map \in SUBSET Int /\ Size(map) \in Nat
         /\ Size(map) = Cardinality(DOMAIN map)
<1>1. IsFiniteSet(DOMAIN map)
  BY KeysAssumption, FS_Subset DEF IsMap
<1>2. DOMAIN map \in SUBSET Int
  <2>1. \A k \in DOMAIN map : k \in Keys
    BY DEF IsMap
  <2>2. \A k \in Keys : k \in Int
    BY KeysAssumption
  <2> QED
    BY <2>1, <2>2
<1>3. Cardinality(DOMAIN map) \in Nat
  BY <1>1, FS_CardinalityType
<1> QED
  BY <1>1, <1>2, <1>3 DEF Size

\* The vector of a map is in order, and has each of its records once.
LEMMA MapInOrder ==
  ASSUME NEW map, IsMap(map)
  PROVE  LET v == InOrder(map)
         IN  /\ IsVector(v, Size(map)) /\ InKeyOrder(v) /\ Strict(v)
             /\ \A i \in DOMAIN v : /\ v[i].key \in DOMAIN map
                                    /\ v[i] = [key |-> v[i].key, value |-> map[v[i].key]]
             /\ \A k \in DOMAIN map : \E i \in DOMAIN v : v[i].key = k
<1> DEFINE keys == DOMAIN map
           n == Size(map)
           v == InOrder(map)
           at(i) == CHOOSE k \in keys : Rank(k, keys) = i
<1>1. IsFiniteSet(keys) /\ keys \in SUBSET Int /\ n \in Nat /\ n = Cardinality(keys)
  BY MapIsFinite
<1>2. /\ \A k \in keys : Rank(k, keys) \in 0 .. n - 1
      /\ \A k, l \in keys : k < l => Rank(k, keys) < Rank(l, keys)
      /\ \A i \in 0 .. n - 1 : \E k \in keys : Rank(k, keys) = i
  BY <1>1, RanksAreAll DEF Rank
<1>3. v = [i \in 0 .. n - 1 |-> [key |-> at(i), value |-> map[at(i)]]]
  BY DEF InOrder
<1> HIDE DEF n, keys
<1>4. \A i \in 0 .. n - 1 : at(i) \in keys /\ Rank(at(i), keys) = i
  BY <1>2
<1>5. ASSUME NEW k \in keys, NEW l \in keys, Rank(k, keys) < Rank(l, keys) PROVE k < l
  <2>1. k < l \/ l < k \/ k = l
    BY <1>1
  <2>2. Rank(k, keys) \in Int /\ Rank(l, keys) \in Int
    BY <1>1, <1>2
  <2>3. l < k => Rank(l, keys) < Rank(k, keys)
    BY <1>2
  <2> QED
    BY <1>5, <2>1, <2>2, <2>3
<1> HIDE DEF at
<1>6. /\ DOMAIN v = 0 .. n - 1
      /\ \A i \in 0 .. n - 1 : /\ v[i].key = at(i) /\ v[i].key \in keys /\ v[i].key \in Int
                               /\ v[i] = [key |-> v[i].key, value |-> map[v[i].key]]
  <2>1. ASSUME NEW i \in 0 .. n - 1
        PROVE  /\ v[i].key = at(i) /\ v[i].key \in keys /\ v[i].key \in Int
               /\ v[i] = [key |-> v[i].key, value |-> map[v[i].key]]
    <3>1. v[i] = [key |-> at(i), value |-> map[at(i)]]
      BY <1>3
    <3>2. at(i) \in keys /\ at(i) \in Int
      BY <1>1, <1>4
    <3> HIDE DEF v
    <3> QED
      BY <3>1, <3>2
  <2>2. DOMAIN v = 0 .. n - 1
    BY <1>3
  <2> HIDE DEF v
  <2> QED
    BY <2>1, <2>2
<1>7. ASSUME NEW i \in 0 .. n - 1, NEW j \in 0 .. n - 1, i < j PROVE v[i].key < v[j].key
  <2>1. at(i) \in keys /\ at(j) \in keys /\ Rank(at(i), keys) < Rank(at(j), keys)
    BY <1>4, <1>7
  <2> QED
    BY <1>5, <1>6, <2>1
<1>8. ASSUME NEW k \in keys PROVE \E i \in 0 .. n - 1 : v[i].key = k
  <2>1. Rank(k, keys) \in 0 .. n - 1
    BY <1>2
  <2>2. PICK i \in 0 .. n - 1 : i = Rank(k, keys)
    BY <2>1
  <2>3. at(i) \in keys /\ Rank(at(i), keys) = i
    BY <1>4
  <2>4. at(i) = k
    <3>0. PICK l \in keys : l = at(i)
      BY <2>3
    <3>1. k \in Int /\ l \in Int
      BY <1>1
    <3>2. /\ l < k => Rank(l, keys) < Rank(k, keys)
          /\ k < l => Rank(k, keys) < Rank(l, keys)
      BY <1>2
    <3>3. Rank(l, keys) = Rank(k, keys) /\ Rank(k, keys) \in Int
      BY <1>2, <2>2, <2>3, <3>0
    <3> QED
      BY <3>0, <3>1, <3>2, <3>3
  <2> QED
    BY <1>6, <2>4
<1> HIDE DEF v
<1>9. IsVector(v, n)
  BY <1>1, <1>6 DEF IsVector
<1>10. Strict(v)
  BY <1>6, <1>7 DEF Strict
<1>11. InKeyOrder(v)
  BY <1>6, <1>7 DEF InKeyOrder
<1> QED
  BY <1>6, <1>8, <1>9, <1>10, <1>11 DEF v, n, keys

\* A vector of records of keys.
IsRecords(v, n) ==
  /\ IsVector(v, n) /\ InKeyOrder(v)
  /\ \A i \in DOMAIN v : v[i] \in Record

\* The vector of a map is one.
LEMMA OrderedIsRecords ==
  ASSUME NEW map, IsMap(map), NEW d, d = InOrder(map), NEW n, n = Size(map)
  PROVE  IsRecords(d, n) /\ n \in Nat
<1>1. LET z == InOrder(map)
      IN  /\ IsVector(z, Size(map)) /\ InKeyOrder(z) /\ Strict(z)
          /\ \A i \in DOMAIN z : /\ z[i].key \in DOMAIN map
                                 /\ z[i] = [key |-> z[i].key, value |-> map[z[i].key]]
          /\ \A k \in DOMAIN map : \E i \in DOMAIN z : z[i].key = k
  BY MapInOrder
<1>2. /\ IsVector(d, n) /\ InKeyOrder(d)
      /\ \A i \in DOMAIN d : /\ d[i].key \in DOMAIN map
                             /\ d[i] = [key |-> d[i].key, value |-> map[d[i].key]]
  BY <1>1
<1>3. \A i \in DOMAIN d : d[i] \in Record
  BY <1>2 DEF IsMap, Record
<1> QED
  BY <1>2, <1>3 DEF IsRecords, IsVector

\* A file has slots from 0, and a record or what is left over in each.
IsFile(f) == \A slot \in DOMAIN f : slot \in Nat /\ f[slot] \in Record \cup {Junk}

\* What a build stores, and what the index knows of it then.
Holds(built, stored, n) ==
  /\ built.dataNumber = n
  /\ built.pageNumber = PagesFor(n)
  /\ built.lastPageId = LastPageId(n)
  /\ IsFile(built.file)
  /\ IsRecords(stored, n)
  /\ built.trained = [i \in 0 .. n - 1 |-> stored[i].key]
  /\ stored = GetAllData(built.file, 0, n)

LEMMA Builds ==
  ASSUME NEW d, NEW a, IsRecords(d, a), NEW f, IsFile(f), NEW b \in Nat, NEW n, n = a + b,
         IsRecords(GetAllData(f, 0, b), b)
  PROVE  Holds(BuildStatic(d, f, b), Interleave(d, GetAllData(f, 0, b), FALSE), n)
<1> DEFINE s == GetAllData(f, 0, b)
           m == Interleave(d, s, FALSE)
           pages == PagesFor(n)
           built == BuildStatic(d, f, b)
           stored == GetAllData(built.file, 0, n)
<1>1. /\ a \in Nat /\ n \in Nat /\ IsVector(d, a) /\ InKeyOrder(d) /\ IsVector(s, b) /\ InKeyOrder(s)
      /\ \A i \in 0 .. a - 1 : d[i] \in Record
      /\ \A i \in 0 .. b - 1 : s[i] \in Record
  BY DEF IsRecords, IsVector
<1>2. /\ IsVector(m, n)
      /\ \A x \in 0 .. n - 1 :
           (\E i \in 0 .. a - 1 : m[x] = d[i]) \/ (\E j \in 0 .. b - 1 : m[x] = s[j])
      /\ InKeyOrder(m)
  <2> HIDE DEF s
  <2>1. PICK no \in BOOLEAN : no = FALSE
    OBVIOUS
  <2>2. IsMerge(Interleave(d, s, no), d, a, s, b)
    BY <1>1, InterleaveMerges
  <2>4. Interleave(d, s, no) = m
    BY <2>1
  <2> HIDE DEF m
  <2> QED
    BY <1>1, <2>2, <2>4 DEF IsMerge
<1>4. \A x \in 0 .. n - 1 : m[x] \in Record
  <2> HIDE DEF m, s
  <2> QED
    BY <1>1, <1>2
<1> HIDE DEF m
<1>5. Size(m) = n /\ n \in Nat /\ DOMAIN m = 0 .. n - 1
  <2>1. Size(m) = n
    BY <1>2, SizeIsLength
  <2> QED
    BY <1>2, <2>1 DEF IsVector
<1>6. /\ built.file = DirectIOWrite(f, m, pages, 0)
      /\ built.dataNumber = n /\ built.pageNumber = pages
      /\ built.lastPageId = LastPageId(n)
      /\ built.trained = [i \in 0 .. n - 1 |-> m[i].key]
  BY <1>5 DEF BuildStatic, m
<1>7. pages \in Nat /\ n <= pages * RecordPerPage
  BY <1>5, PagesHold
<1>8. stored = m
  <2>1. GetAllData(DirectIOWrite(f, m, pages, 0), 0, n) = [i \in 0 .. n - 1 |-> m[i]]
    <3> HIDE DEF pages
    <3>1. PICK start \in Nat : start = 0
      OBVIOUS
    <3>2. GetAllData(DirectIOWrite(f, m, pages, start), start, n) = [i \in 0 .. n - 1 |-> m[i]]
      BY <1>2, <1>7, WrittenIsRead
    <3> QED
      BY <3>1, <3>2
  <2>2. m = [i \in 0 .. n - 1 |-> m[i]]
    <3>1. m = [i \in DOMAIN m |-> m[i]]
      BY InterleaveIsFunction DEF m
    <3> QED
      BY <1>5, <3>1
  <2> HIDE DEF pages, built
  <2> QED
    BY <1>6, <2>1, <2>2
<1>9. IsFile(built.file)
  <2> DEFINE g == built.file
  <2>0. PICK start \in Nat : start = 0
    OBVIOUS
  <2>1. g = DirectIOWrite(f, m, pages, start)
    BY <1>6, <2>0
  <2> HIDE DEF pages, g
  <2>2. HoldsOf(g, f, m)
    BY <1>7, <2>1, WrittenSlots
  <2>3. IsFile(g)
    BY <1>4, <1>5, <2>2 DEF IsFile, HoldsOf
  <2> QED
    BY <2>3 DEF g
<1>10. IsRecords(m, n)
  BY <1>2, <1>4, <1>5 DEF IsRecords
<1> HIDE DEF built, stored
<1> QED
  BY <1>6, <1>8, <1>9, <1>10 DEF Holds, built, stored, m

-----------------------------------------------------------------------------
(* The invariant.                                                           *)

\* The records on disk, and what the index knows of them.
DiskOK ==
  /\ dataNumber \in Nat \ {0}
  /\ pageNumber = PagesFor(dataNumber) /\ lastPageId = LastPageId(dataNumber)
  /\ IsFile(file) /\ IsRecords(Stored, dataNumber)
  /\ trained = [i \in 0 .. dataNumber - 1 |-> Stored[i].key]

\* What is kept in memory.
MemoryOK ==
  /\ IsMap(dynamic) /\ dynamic = [k \in DOMAIN dynamic |-> dynamic[k]]
  /\ dynamicBudget \in 0 .. Word - 1
  /\ newest \in [Keys -> Values \cup {Missing}]
  /\ op.at \in {"idle", "search"} /\ op.key \in Keys

\* A key has one record, in memory or in the vector, which has the value last
\* written for it.
Once(map, v, new) ==
  /\ Strict(v)
  /\ \A i \in DOMAIN v : v[i].key \notin DOMAIN map /\ new[v[i].key] = v[i].value
  /\ \A k \in DOMAIN map : new[k] = map[k]
  /\ \A k \in Keys : new[k] # Missing =>
       k \in DOMAIN map \/ \E i \in DOMAIN v : v[i].key = k

OneRecord == Once(dynamic, Stored, newest)

\* A search is for a key that is not in memory, and what it was given holds the
\* record of the key if there is one.
SearchIsFor ==
  /\ op.key \notin DOMAIN dynamic
  /\ \A i \in DOMAIN Stored : Stored[i].key = op.key =>
       i - search.pid * RecordPerPage \in 0 .. search.n - 1

\* What a search was given is a part of the records on disk.
SearchOK ==
  op.at = "search" =>
    /\ op.kind \in {"find", "update"}
    /\ op.kind = "update" => op.value \in Values
    /\ search.pid \in Nat /\ search.n \in Nat \ {0}
    /\ search.pid * RecordPerPage + search.n <= dataNumber
    /\ \A i \in 0 .. search.n - 1 : search.buf[i] = Stored[search.pid * RecordPerPage + i]

IInv ==
  /\ DiskOK /\ MemoryOK /\ SearchOK
  /\ ~UpdateAssigns => OneRecord /\ FindsNewest /\ (op.at = "search" => SearchIsFor)

LEMMA StoredIs ==
  ASSUME dataNumber \in Nat
  PROVE  /\ DOMAIN Stored = 0 .. dataNumber - 1
         /\ \A i \in 0 .. dataNumber - 1 : Stored[i] = At(file, i)
<1>1. 0 * RecordPerPage = 0
  BY RecordPerPageAssumption
<1> QED
  BY <1>1 DEF Stored, GetAllData

\* Where a factor can be left out.
\* The pages of a range: in the last one, the records that count are those of
\* the file.
LEMMA PagesOfRange ==
  ASSUME DiskOK, NEW range, range.begin \in Nat, range.end \in Nat,
         range.begin < range.end, range.end <= dataNumber
  PROVE  LET f == Fetched(range)
         IN  /\ f.pid \in Nat /\ f.n \in Nat \ {0}
             /\ f.pid * RecordPerPage + f.n <= dataNumber
             /\ f.pid * RecordPerPage <= range.begin
             /\ range.end <= f.pid * RecordPerPage + f.n
             /\ f.s = 0 /\ f.e = f.n
             /\ \A i \in 0 .. f.n - 1 : f.buf[i] = At(file, f.pid * RecordPerPage + i)
<1> DEFINE R == RecordPerPage
           N == dataNumber
           p == range.begin \div R
           q == (range.end - 1) \div R
           z == PagesFor(N)
           pages == GetFetchRange(range, pageNumber)
           last == LastId(range)
           n == R * (q - p) + last
<1>0. R \in Nat \ {0} /\ N \in Nat \ {0} /\ range.end - 1 \in Nat
  BY RecordPerPageAssumption DEF DiskOK
<1>1. p \in Nat /\ R * p <= range.begin /\ range.begin < R * p + R
  BY <1>0, Quotient
<1>2. q \in Nat /\ R * q <= range.end - 1 /\ range.end - 1 < R * q + R
  BY <1>0, Quotient
<1>3. z \in Nat /\ N <= z * R /\ z * R < N + R
  BY <1>0, PagesHold
<1>4. pageNumber = z /\ lastPageId = R - (z * R - N)
  BY DEF DiskOK, LastPageId
<1>5. p <= q
  <2> HIDE DEF p, q, R
  <2>1. R * p < R * (q + 1)
    BY <1>0, <1>1, <1>2
  <2>2. p < q + 1
    BY <1>0, <1>1, <1>2, <2>1, LessInProduct
  <2> QED
    BY <1>1, <1>2, <2>2
<1>6. q <= z - 1
  <2>0. range.end <= N
    OBVIOUS
  <2> HIDE DEF q, R, z, N
  <2>1. R * q < R * z
    BY <1>0, <1>2, <1>3, <2>0
  <2>2. q < z
    BY <1>0, <1>2, <1>3, <2>1, LessInProduct
  <2> QED
    BY <1>2, <1>3, <2>2
<1>7. pages.start = p /\ pages.end = q
  <2>1. pages.start = p /\ pages.end = Min({q, z})
    BY <1>4 DEF GetFetchRange
  <2> HIDE DEF p, q, z
  <2>2. Min({q, z}) = q
    <3>1. q \in Int /\ z \in Int /\ q <= z
      BY <1>2, <1>3, <1>6
    <3> QED
      BY <3>1, MinOfTwo
  <2> QED
    BY <2>1, <2>2
<1>8. last = IF q = z - 1 THEN lastPageId ELSE R
  BY <1>4 DEF LastId
<1>9. last \in 1 .. R /\ (q = z - 1 => R * q + last = N) /\ (q # z - 1 => last = R /\ R * q + R < N)
  <2> HIDE DEF q, z, last, R, N
  <2>1. CASE q = z - 1
    <3>1. R * q = z * R - R /\ z * R \in Nat
      BY <1>0, <1>3, <2>1
    <3> QED
      BY <1>0, <1>3, <1>4, <1>8, <2>1, <3>1
  <2>2. CASE q # z - 1
    <3>1. q + 1 <= z - 1
      BY <1>2, <1>3, <1>6, <2>2
    <3>2. R * (q + 1) <= R * (z - 1)
      BY <1>0, <1>2, <1>3, <3>1, ProductGrows
    <3>3. R * (q + 1) = R * q + R /\ R * (z - 1) = z * R - R /\ R * q \in Nat
      BY <1>0, <1>2, <1>3
    <3> QED
      BY <1>0, <1>3, <1>8, <2>2, <3>2, <3>3
  <2> QED
    BY <2>1, <2>2
<1>10. /\ n \in Nat \ {0} /\ p * R + n = R * q + last /\ n <= R * (q - p + 1)
  <2> HIDE DEF q, p, last, R, z
  <2>1. R * (q - p) \in Nat
    BY <1>0, <1>1, <1>2, <1>5
  <2>2. R * (q - p) = R * q - p * R /\ R * (q - p + 1) = R * (q - p) + R
    BY <1>0, <1>1, <1>2
  <2>3. last \in Nat /\ 1 <= last /\ last <= R /\ p * R \in Nat /\ R * q \in Nat
    BY <1>0, <1>1, <1>2, <1>9
  <2> QED
    BY <1>0, <2>1, <2>2, <2>3
<1>11. Fetched(range) = [pid |-> p, n |-> n, buf |-> DirectIORead(file, p, q - p + 1),
                         s |-> 0, e |-> n]
  <2> HIDE DEF p, q, last
  <2>1. (q - p + 1) - 1 = q - p
    BY <1>1, <1>2
  <2> QED
    <3>1. Fetched(range) =
            [pid |-> pages.start, n |-> R * ((pages.end - pages.start + 1) - 1) + LastId(range),
             buf |-> DirectIORead(file, pages.start, pages.end - pages.start + 1),
             s |-> 0, e |-> R * ((pages.end - pages.start + 1) - 1) + LastId(range)]
      BY DEF Fetched
    <3> HIDE DEF pages
    <3> QED
      BY <1>7, <2>1, <3>1 DEF last
<1>12. ASSUME NEW i \in 0 .. n - 1
       PROVE  DirectIORead(file, p, q - p + 1)[i] = At(file, p * R + i)
  <2>1. i \in 0 .. (q - p + 1) * R - 1
    <3> HIDE DEF p, q, R, n
    <3>1. (q - p + 1) * R = R * (q - p + 1) /\ R * (q - p + 1) \in Int
      BY <1>0, <1>1, <1>2
    <3> QED
      BY <1>10, <3>1
  <2> QED
    BY <2>1 DEF DirectIORead, GetAllData
<1>13. p * R + n <= N /\ p * R <= range.begin /\ range.end <= p * R + n
  <2> HIDE DEF q, p, last, z, n, R, N
  <2>1. R * q + last <= N /\ R * q \in Nat /\ last \in Nat
    BY <1>0, <1>2, <1>9
  <2>2. range.end <= R * q + last
    <3>0. range.end <= N
      BY DEF N
    <3>1. CASE q = z - 1
      BY <1>9, <3>0, <3>1
    <3>2. CASE q # z - 1
      BY <1>0, <1>2, <1>9, <2>1, <3>2
    <3> QED
      BY <3>1, <3>2
  <2>3. p * R = R * p
    BY <1>0, <1>1
  <2> QED
    BY <1>1, <1>10, <2>1, <2>2, <2>3
<1> HIDE DEF p, q, n
<1> QED
  BY <1>1, <1>10, <1>11, <1>12, <1>13

\* What a lookup reads is a part of the records, and holds that of the key.
LEMMA LookUpReads ==
  ASSUME IInv, NEW kind \in {"find", "update"}, NEW k \in Keys, NEW v,
         kind = "update" => v \in Values, LookUpOnDisk(kind, k, v)
  PROVE  /\ op' = [at |-> "search", kind |-> kind, key |-> k, value |-> v, answer |-> Missing]
         /\ search'.pid \in Nat /\ search'.n \in Nat \ {0}
         /\ search'.pid * RecordPerPage + search'.n <= dataNumber
         /\ \A i \in 0 .. search'.n - 1 :
              search'.buf[i] = Stored[search'.pid * RecordPerPage + i]
         /\ Strict(Stored) =>
              \A i \in DOMAIN Stored : Stored[i].key = k =>
                i - search'.pid * RecordPerPage \in 0 .. search'.n - 1
<1>1. PICK range \in SearchBound(trained, k) : search' = Fetched(range)
  BY DEF LookUpOnDisk
<1>2. DiskOK /\ dataNumber \in Nat /\ dataNumber > 0
  BY DEF IInv, DiskOK
<1>3. DOMAIN Stored = 0 .. dataNumber - 1
      /\ \A i \in 0 .. dataNumber - 1 : Stored[i] = At(file, i)
  BY <1>2, StoredIs
<1>4. /\ IsVector(trained, dataNumber)
      /\ \A i \in 0 .. dataNumber - 1 : trained[i] = Stored[i].key /\ trained[i] \in Int
      /\ \A i, j \in 0 .. dataNumber - 1 : i < j => trained[i] <= trained[j]
  BY <1>2, <1>3 DEF DiskOK, IsRecords, IsVector, InKeyOrder
<1>5. k \in Int
  BY KeysAreNumbers
<1>6. /\ range.begin \in Nat /\ range.end \in Nat
      /\ range.begin < range.end /\ range.end <= dataNumber
      /\ (\A i, j \in 0 .. dataNumber - 1 : i < j => trained[i] < trained[j]) =>
           \A i \in 0 .. dataNumber - 1 : trained[i] = k => range.begin <= i /\ i < range.end
  BY <1>2, <1>4, <1>5, RangeHoldsTheKey
<1> DEFINE f == Fetched(range)
           base == f.pid * RecordPerPage
<1>7. /\ f.pid \in Nat /\ f.n \in Nat \ {0}
      /\ base + f.n <= dataNumber /\ base <= range.begin /\ range.end <= base + f.n
      /\ \A i \in 0 .. f.n - 1 : f.buf[i] = At(file, base + i)
  BY <1>2, <1>6, PagesOfRange
<1>8. base \in Nat
  BY <1>7, RecordPerPageAssumption
<1> HIDE DEF f, base
<1>9. \A i \in 0 .. f.n - 1 : f.buf[i] = Stored[base + i]
  BY <1>2, <1>3, <1>7, <1>8
<1>10. ASSUME Strict(Stored), NEW i \in DOMAIN Stored, Stored[i].key = k
       PROVE  i - base \in 0 .. f.n - 1
  <2>1. \A h, j \in 0 .. dataNumber - 1 : h < j => trained[h] < trained[j]
    BY <1>3, <1>4, <1>10 DEF Strict
  <2>2. range.begin <= i /\ i < range.end
    BY <1>3, <1>4, <1>6, <1>10, <2>1
  <2> QED
    BY <1>2, <1>3, <1>6, <1>7, <1>8, <1>10, <2>2
<1>11. op' = [at |-> "search", kind |-> kind, key |-> k, value |-> v, answer |-> Missing]
  BY DEF LookUpOnDisk
<1> QED
  BY <1>1, <1>7, <1>9, <1>10, <1>11 DEF f, base

\* What was read is in order.
LEMMA SearchIsSorted == IInv => GivenSorted
<1> SUFFICES ASSUME IInv, op.at = "search" PROVE SortedTo(search.buf, search.n)
  BY DEF GivenSorted
<1> DEFINE base == search.pid * RecordPerPage
<1>1. /\ search.n \in Nat \ {0} /\ base \in Nat /\ base + search.n <= dataNumber
      /\ \A i \in 0 .. search.n - 1 : search.buf[i] = Stored[base + i]
  BY RecordPerPageAssumption DEF IInv, SearchOK
<1>2. /\ dataNumber \in Nat
      /\ \A i \in 0 .. dataNumber - 1 : Stored[i].key \in Int
      /\ \A i, j \in 0 .. dataNumber - 1 : i < j => Stored[i].key <= Stored[j].key
  BY DEF IInv, DiskOK, IsRecords, IsVector, InKeyOrder
<1> HIDE DEF base
<1>3. \A i \in 0 .. search.n - 1 : base + i \in 0 .. dataNumber - 1
  BY <1>1, <1>2
<1>4. ASSUME NEW i \in 0 .. search.n - 1, NEW j \in 0 .. search.n - 1, i < j
      PROVE  search.buf[i].key <= search.buf[j].key
  <2>1. base + i \in 0 .. dataNumber - 1 /\ base + j \in 0 .. dataNumber - 1 /\ base + i < base + j
    BY <1>1, <1>3, <1>4
  <2> QED
    BY <1>1, <1>2, <2>1
<1> QED
  BY <1>1, <1>2, <1>3, <1>4 DEF SortedTo

-----------------------------------------------------------------------------
(* The steps.                                                               *)

LEMMA DiskStays ==
  ASSUME DiskOK, UNCHANGED static
  PROVE  DiskOK' /\ Stored' = Stored
<1>1. Stored' = Stored
  BY DEF static, Stored
<1> QED
  BY <1>1 DEF DiskOK, static

\* A key is written to memory that is not in the file.
LEMMA InsertedOnce ==
  ASSUME NEW map, IsMap(map), NEW v, NEW n, IsRecords(v, n),
         NEW new \in [Keys -> Values \cup {Missing}], Once(map, v, new),
         NEW k \in Keys, NEW value \in Values, \A i \in DOMAIN v : v[i].key # k
  PROVE  Once(InsertInto(map, k, value), v, [new EXCEPT ![k] = value])
<1> DEFINE map2 == InsertInto(map, k, value)
           new2 == [new EXCEPT ![k] = value]
<1>1. /\ DOMAIN map2 = DOMAIN map \cup {k} /\ map2[k] = value
      /\ \A x \in DOMAIN map : x # k => map2[x] = map[x]
  BY DEF InsertInto
<1>2. /\ new2[k] = value
      /\ \A x \in Keys : x # k => new2[x] = new[x]
  OBVIOUS
<1>3. /\ \A i \in DOMAIN v : v[i].key \in Keys
      /\ \A x \in DOMAIN map : x \in Keys
  BY DEF IsRecords, Record, IsMap
<1> HIDE DEF map2, new2
<1>4. \A i \in DOMAIN v : v[i].key \notin DOMAIN map2 /\ new2[v[i].key] = v[i].value
  BY <1>1, <1>2, <1>3 DEF Once
<1>5. \A x \in DOMAIN map2 : new2[x] = map2[x]
  BY <1>1, <1>2, <1>3 DEF Once
<1>6. \A x \in Keys : new2[x] # Missing =>
        x \in DOMAIN map2 \/ \E i \in DOMAIN v : v[i].key = x
  BY <1>1, <1>2 DEF Once
<1> QED
  BY <1>4, <1>5, <1>6 DEF Once, map2, new2

LEMMA InsertedMap ==
  ASSUME NEW map, IsMap(map), NEW k \in Keys, NEW value \in Values
  PROVE  LET x == InsertInto(map, k, value)
         IN  IsMap(x) /\ x = [y \in DOMAIN x |-> x[y]] /\ DOMAIN x = DOMAIN map \cup {k}
BY DEF IsMap, InsertInto

LEMMA RestrictedMap ==
  ASSUME NEW map, IsMap(map), NEW S \in SUBSET DOMAIN map
  PROVE  LET x == Restrict(map, S)
         IN  /\ IsMap(x) /\ x = [y \in DOMAIN x |-> x[y]] /\ DOMAIN x = S
             /\ \A y \in S : x[y] = map[y]
BY DEF IsMap, Restrict

\* A merge moves records to the file.
LEMMA MergedOnce ==
  ASSUME NEW map, IsMap(map), NEW v, NEW n, IsRecords(v, n),
         NEW new \in [Keys -> Values \cup {Missing}], Once(map, v, new),
         NEW kept \in SUBSET DOMAIN map,
         NEW d, d = InOrder(Without(map, kept))
  PROVE  Once(Restrict(map, kept), Interleave(d, v, FALSE), new)
<1> DEFINE gone == DOMAIN map \ kept
           map2 == Restrict(map, kept)
           moved == Without(map, kept)
           a == Size(moved)
           m == Interleave(d, v, FALSE)
<1>0. n \in Nat /\ DOMAIN v = 0 .. n - 1 /\ IsVector(v, n) /\ InKeyOrder(v)
  BY DEF IsRecords, IsVector
<1>1. DOMAIN map2 = kept /\ \A y \in kept : map2[y] = map[y]
  BY RestrictedMap
<1>2. /\ IsMap(moved) /\ DOMAIN moved = gone
      /\ \A y \in gone : moved[y] = map[y]
  <2>1. gone \in SUBSET DOMAIN map
    OBVIOUS
  <2>2. /\ IsMap(Restrict(map, gone)) /\ DOMAIN Restrict(map, gone) = gone
        /\ \A y \in gone : Restrict(map, gone)[y] = map[y]
    BY <2>1, RestrictedMap
  <2> QED
    BY <2>2 DEF Without
<1> HIDE DEF moved
<1>3. /\ IsVector(d, a) /\ InKeyOrder(d) /\ Strict(d) /\ a \in Nat /\ DOMAIN d = 0 .. a - 1
      /\ \A i \in 0 .. a - 1 : d[i].key \in gone /\ d[i].value = map[d[i].key]
      /\ \A k \in gone : \E i \in 0 .. a - 1 : d[i].key = k
  <2>1. LET z == InOrder(moved)
        IN  /\ IsVector(z, Size(moved)) /\ InKeyOrder(z) /\ Strict(z)
            /\ \A i \in DOMAIN z : /\ z[i].key \in DOMAIN moved
                                   /\ z[i] = [key |-> z[i].key, value |-> moved[z[i].key]]
            /\ \A k \in DOMAIN moved : \E i \in DOMAIN z : z[i].key = k
    BY <1>2, MapInOrder
  <2>2. d = InOrder(moved)
    BY DEF moved
  <2>3. /\ IsVector(d, a) /\ InKeyOrder(d) /\ Strict(d)
        /\ \A i \in DOMAIN d : /\ d[i].key \in gone
                               /\ d[i] = [key |-> d[i].key, value |-> moved[d[i].key]]
        /\ \A k \in gone : \E i \in DOMAIN d : d[i].key = k
    BY <1>2, <2>1, <2>2
  <2>4. a \in Nat /\ DOMAIN d = 0 .. a - 1
    BY <2>3 DEF IsVector
  <2> HIDE DEF a, gone
  <2>5. \A i \in DOMAIN d : d[i].value = moved[d[i].key]
    BY <2>3
  <2> QED
    BY <1>2, <2>3, <2>4, <2>5
<1> HIDE DEF a, gone
<1>4. PICK no \in BOOLEAN : no = FALSE
  OBVIOUS
<1>5. m = Interleave(d, v, no)
  BY <1>4
<1>6. IsMerge(m, d, a, v, n)
  <2>1. IsMerge(Interleave(d, v, no), d, a, v, n)
    BY <1>0, <1>3, InterleaveMerges
  <2> HIDE DEF m
  <2> QED
    BY <1>5, <2>1
<1>7. \A i \in 0 .. a - 1 : \A j \in 0 .. n - 1 : d[i].key # v[j].key
  <2>1. \A i \in 0 .. a - 1 : d[i].key \in DOMAIN map
    BY <1>3 DEF gone
  <2> QED
    BY <1>0, <2>1 DEF Once
<1>8. \A x, y \in 0 .. a + n - 1 : x < y => m[x].key < m[y].key
  <2>1. /\ \A i, j \in 0 .. a - 1 : i < j => d[i].key < d[j].key
        /\ \A i, j \in 0 .. n - 1 : i < j => v[i].key < v[j].key
    BY <1>0, <1>3 DEF Strict, Once
  <2> HIDE DEF m
  <2> QED
    BY <1>6, <1>7, <2>1 DEF IsMerge
<1> HIDE DEF m
<1>9. DOMAIN m = 0 .. a + n - 1
  BY <1>0, <1>3, <1>6 DEF IsMerge, IsVector
<1>10. Strict(m)
  BY <1>8, <1>9 DEF Strict
<1>11. ASSUME NEW x \in 0 .. a + n - 1
       PROVE  m[x].key \notin kept /\ new[m[x].key] = m[x].value
  <2>1. CASE \E i \in 0 .. a - 1 : m[x] = d[i]
    <3>1. PICK i \in 0 .. a - 1 : m[x] = d[i]
      BY <2>1
    <3>2. d[i].key \in DOMAIN map /\ d[i].key \notin kept /\ d[i].value = map[d[i].key]
      BY <1>3 DEF gone
    <3> QED
      BY <3>1, <3>2 DEF Once
  <2>2. CASE \E j \in 0 .. n - 1 : m[x] = v[j]
    BY <1>0, <2>2 DEF Once
  <2> QED
    BY <1>6, <2>1, <2>2 DEF IsMerge
<1>12. ASSUME NEW k \in Keys, new[k] # Missing, k \notin kept
       PROVE  \E x \in 0 .. a + n - 1 : m[x].key = k
  <2>1. CASE k \in DOMAIN map
    <3>1. k \in gone
      BY <1>12, <2>1 DEF gone
    <3>2. PICK i \in 0 .. a - 1 : d[i].key = k
      BY <1>3, <3>1
    <3>3. PICK x \in 0 .. a + n - 1 : m[x] = d[i]
      BY <1>6 DEF IsMerge
    <3> QED
      BY <3>2, <3>3
  <2>2. CASE \E j \in 0 .. n - 1 : v[j].key = k
    BY <1>6, <2>2 DEF IsMerge
  <2> QED
    BY <1>0, <1>12, <2>1, <2>2 DEF Once
<1>13. \A k \in kept : new[k] = map2[k]
  BY <1>1 DEF Once
<1> HIDE DEF map2
<1> QED
  BY <1>1, <1>9, <1>10, <1>11, <1>12, <1>13 DEF Once, m, map2

\* A new record in memory.
LEMMA WrittenKeeps ==
  ASSUME IInv, NEW k \in Keys, NEW v \in Values, NEW kind, kind # "find", op.at = "idle",
         dynamic' = InsertInto(dynamic, k, v), Written(kind, k, v),
         UNCHANGED <<static, dynamicBudget>>,
         ~UpdateAssigns => \A i \in DOMAIN Stored : Stored[i].key # k
  PROVE  IInv'
<1>1. DiskOK' /\ Stored' = Stored
  BY DiskStays DEF IInv, static
<1>2. op'.at = "idle" /\ op'.key = k /\ op'.kind = kind
      /\ newest' = [newest EXCEPT ![k] = v]
  BY DEF Written, Idle
<1>3. MemoryOK'
  <2>1. LET x == InsertInto(dynamic, k, v)
        IN  IsMap(x) /\ x = [y \in DOMAIN x |-> x[y]] /\ DOMAIN x = DOMAIN dynamic \cup {k}
    BY InsertedMap DEF IInv, MemoryOK
  <2>2. IsMap(dynamic') /\ dynamic' = [y \in DOMAIN dynamic' |-> dynamic'[y]]
    BY <2>1
  <2>3. newest' \in [Keys -> Values \cup {Missing}]
    BY <1>2 DEF IInv, MemoryOK
  <2> QED
    BY <1>2, <2>2, <2>3 DEF IInv, MemoryOK
<1>4. SearchOK'
  BY <1>2 DEF SearchOK
<1>5. ASSUME ~UpdateAssigns
      PROVE  OneRecord' /\ FindsNewest' /\ (op'.at = "search" => SearchIsFor')
  <2>1. Once(InsertInto(dynamic, k, v), Stored, [newest EXCEPT ![k] = v])
    <3>1. /\ IsMap(dynamic) /\ IsRecords(Stored, dataNumber)
          /\ newest \in [Keys -> Values \cup {Missing}] /\ Once(dynamic, Stored, newest)
      BY <1>5 DEF IInv, MemoryOK, DiskOK, OneRecord
    <3> QED
      BY <1>5, <3>1, InsertedOnce
  <2>2. OneRecord'
    BY <1>1, <1>2, <2>1 DEF OneRecord
  <2>3. FindsNewest'
    BY <1>2 DEF FindsNewest
  <2> QED
    BY <1>2, <2>2, <2>3
<1> QED
  BY <1>1, <1>3, <1>4, <1>5 DEF IInv

\* A key that was not written is not in the file.
LEMMA MissingIsNotStored ==
  ASSUME NEW map, NEW v, NEW n, IsRecords(v, n), NEW new, Once(map, v, new),
         NEW k, new[k] = Missing
  PROVE  \A i \in DOMAIN v : v[i].key # k
<1> SUFFICES ASSUME NEW i \in DOMAIN v, v[i].key = k PROVE FALSE
  OBVIOUS
<1>1. v[i].value \in Values /\ new[v[i].key] = v[i].value
  BY DEF IsRecords, Record, Once
<1> QED
  BY <1>1, ValuesAssumption

LEMMA InsertInMemoryKeeps ==
  ASSUME IInv, NEW k \in Keys, NEW v \in Values, newest[k] = Missing, InsertInMemory(k, v)
  PROVE  IInv'
<1>1. ASSUME ~UpdateAssigns PROVE \A i \in DOMAIN Stored : Stored[i].key # k
  <2>1. IsRecords(Stored, dataNumber) /\ Once(dynamic, Stored, newest)
    BY <1>1 DEF IInv, DiskOK, OneRecord
  <2> QED
    BY <2>1, MissingIsNotStored
<1>2. "insert" # "find"
  OBVIOUS
<1> QED
  BY <1>1, <1>2, WrittenKeeps DEF InsertInMemory, MayWrite, static

\* The merge, and the insert behind it.
LEMMA MergeAndInsertKeeps ==
  ASSUME IInv, NEW k \in Keys, NEW v \in Values, newest[k] = Missing, MergeAndInsert(k, v)
  PROVE  IInv'
<1> DEFINE kept == SampleOf(dynamic, InitSize)
           moved == Without(dynamic, kept)
           d == InOrder(moved)
           a == Size(moved)
           built == BuildStatic(d, file, dataNumber)
           m == Interleave(d, Stored, FALSE)
           rest == Restrict(dynamic, kept)
<1>1. /\ dynamic' = InsertInto(rest, k, v)
      /\ file' = built.file /\ dataNumber' = built.dataNumber
      /\ pageNumber' = built.pageNumber /\ lastPageId' = built.lastPageId
      /\ trained' = built.trained
  BY DEF MergeAndInsert
<1>2. /\ \E size \in ModelSizes : dynamicBudget' = (MemoryBudget - size) % Word
      /\ op.at = "idle" /\ op'.at = "idle" /\ op'.key = k /\ op'.kind = "insert"
      /\ newest' = [newest EXCEPT ![k] = v]
  BY DEF MergeAndInsert, Written, Idle, MayWrite
<1>3. kept \in SUBSET DOMAIN dynamic
  BY DEF SampleOf
<1>4. /\ IsMap(dynamic) /\ IsRecords(Stored, dataNumber) /\ dataNumber \in Nat /\ dataNumber > 0
      /\ IsFile(file) /\ newest \in [Keys -> Values \cup {Missing}]
  BY DEF IInv, DiskOK, MemoryOK
<1> HIDE DEF kept
<1>5. /\ IsMap(moved) /\ \A y \in DOMAIN moved : moved[y] = dynamic[y]
  <2>1. DOMAIN dynamic \ kept \in SUBSET DOMAIN dynamic
    OBVIOUS
  <2> QED
    BY <1>4, <2>1, RestrictedMap DEF Without
<1>6. IsMap(rest)
  BY <1>3, <1>4, RestrictedMap
<1> HIDE DEF moved, rest
<1>7. IsRecords(d, a) /\ a \in Nat
  BY <1>5, OrderedIsRecords
<1>8. PICK n \in Nat : n = a + dataNumber
  BY <1>4, <1>7
<1> HIDE DEF d, a, built, m
<1>9. /\ dataNumber' = n /\ pageNumber' = PagesFor(n) /\ lastPageId' = LastPageId(n)
      /\ IsFile(file') /\ IsRecords(Stored', n)
      /\ trained' = [i \in 0 .. n - 1 |-> Stored'[i].key]
      /\ Stored' = m
  <2>1. Holds(built, m, n)
    <3>1. IsRecords(GetAllData(file, 0, dataNumber), dataNumber)
      BY <1>4 DEF Stored
    <3>2. Holds(BuildStatic(d, file, dataNumber),
                Interleave(d, GetAllData(file, 0, dataNumber), FALSE), n)
      BY <1>4, <1>7, <1>8, <3>1, Builds
    <3> QED
      BY <3>2 DEF built, m, Stored
  <2>2. Stored' = GetAllData(built.file, 0, built.dataNumber)
    BY <1>1 DEF Stored
  <2> QED
    BY <1>1, <2>1, <2>2 DEF Holds
<1>10. DiskOK'
  BY <1>4, <1>7, <1>8, <1>9 DEF DiskOK
<1>11. MemoryOK'
  <2>1. LET x == InsertInto(rest, k, v)
        IN  IsMap(x) /\ x = [y \in DOMAIN x |-> x[y]] /\ DOMAIN x = DOMAIN rest \cup {k}
    BY <1>6, InsertedMap
  <2>2. IsMap(dynamic') /\ dynamic' = [y \in DOMAIN dynamic' |-> dynamic'[y]]
    BY <1>1, <2>1
  <2>3. newest' \in [Keys -> Values \cup {Missing}]
    BY <1>2, <1>4
  <2>4. dynamicBudget' \in 0 .. Word - 1
    <3>1. PICK size \in ModelSizes : dynamicBudget' = (MemoryBudget - size) % Word
      BY <1>2
    <3>2. MemoryBudget - size \in Int /\ Word \in Nat \ {0}
      BY BudgetAssumption
    <3> QED
      BY <3>1, <3>2
  <2> QED
    BY <1>2, <2>2, <2>3, <2>4 DEF MemoryOK
<1>12. SearchOK'
  BY <1>2 DEF SearchOK
<1>13. ASSUME ~UpdateAssigns
       PROVE  OneRecord' /\ FindsNewest' /\ (op'.at = "search" => SearchIsFor')
  <2>1. Once(dynamic, Stored, newest)
    BY <1>13 DEF IInv, OneRecord
  <2>2. d = InOrder(Without(dynamic, kept))
    BY DEF d, moved
  <2>3. Once(rest, m, newest)
    <3>1. Once(Restrict(dynamic, kept), Interleave(d, Stored, FALSE), newest)
      BY <1>3, <1>4, <2>1, <2>2, MergedOnce
    <3> QED
      BY <3>1 DEF rest, m
  <2>4. IsRecords(m, n)
    BY <1>9
  <2>5. \A i \in DOMAIN m : m[i].key # k
    BY <2>3, <2>4, MissingIsNotStored
  <2>6. Once(InsertInto(rest, k, v), m, [newest EXCEPT ![k] = v])
    BY <1>4, <1>6, <2>3, <2>4, <2>5, InsertedOnce
  <2>7. OneRecord'
    BY <1>1, <1>2, <1>9, <2>6 DEF OneRecord
  <2>8. FindsNewest'
    BY <1>2 DEF FindsNewest
  <2> QED
    BY <1>2, <2>7, <2>8
<1> QED
  BY <1>10, <1>11, <1>12, <1>13 DEF IInv

\* A search that has ended is at one of the records it was given.
LEMMA LandsInside ==
  ASSUME IInv, LoopInv, op.at = "search", search.s = search.e
  PROVE  search.s \in 0 .. search.n - 1
<1>1. GivenSorted /\ search.n \in Nat \ {0}
  BY SearchIsSorted DEF IInv, SearchOK
<1>2. /\ \A i \in 0 .. search.n - 1 : search.buf[i].key \in Int
      /\ search.s \in Int /\ op.key \in Int /\ 0 <= search.s /\ search.s <= search.n
  BY <1>1 DEF LoopInv, Seeking, IsSearch, GivenSorted, SortedTo
<1>3. CASE search.s = search.n - 1
  BY <1>1, <1>3
<1>4. CASE search.s # search.n - 1
  <2>1. /\ \A i \in 0 .. search.s - 1 : search.buf[i].key < op.key
        /\ search.s = 0 \/ ~AboveAll
    BY <1>4 DEF LoopInv, Bracketed
  <2>2. search.s # search.n
    BY <1>1, <1>2, <2>1 DEF AboveAll
  <2> QED
    BY <1>1, <1>2, <2>2
<1> QED
  BY <1>3, <1>4

\* It is at the record of the key, if there is one.
LEMMA LandsOnTheRecord ==
  ASSUME IInv, LoopInv, ~UpdateAssigns, op.at = "search", search.s = search.e,
         NEW i \in DOMAIN Stored, Stored[i].key = op.key
  PROVE  search.buf[search.s] = Stored[i]
<1> DEFINE base == search.pid * RecordPerPage
           j == i - base
<1>1. /\ search.n \in Nat \ {0} /\ base \in Nat /\ base + search.n <= dataNumber
      /\ \A h \in 0 .. search.n - 1 : search.buf[h] = Stored[base + h]
  BY RecordPerPageAssumption DEF IInv, SearchOK
<1>2. /\ dataNumber \in Nat /\ DOMAIN Stored = 0 .. dataNumber - 1
      /\ \A h \in 0 .. dataNumber - 1 : Stored[h].key \in Int
      /\ \A h, l \in 0 .. dataNumber - 1 : h < l => Stored[h].key < Stored[l].key
  BY DEF IInv, DiskOK, IsRecords, IsVector, InKeyOrder, OneRecord, Once, Strict
<1>3. j \in 0 .. search.n - 1
  BY DEF IInv, SearchIsFor
<1>4. search.s \in 0 .. search.n - 1
  BY LandsInside
<1>5. op.key \in Int
  BY <1>2
<1> HIDE DEF base
<1>6. /\ search.buf[j] = Stored[i] /\ search.buf[j].key = op.key
      /\ \A h, l \in 0 .. search.n - 1 : h < l => search.buf[h].key < search.buf[l].key
      /\ \A h \in 0 .. search.n - 1 : search.buf[h].key \in Int
  <2>1. base + j = i
    BY <1>1, <1>2
  <2>2. ASSUME NEW h \in 0 .. search.n - 1
        PROVE  base + h \in 0 .. dataNumber - 1
    BY <1>1, <1>2
  <2>3. ASSUME NEW h \in 0 .. search.n - 1, NEW l \in 0 .. search.n - 1, h < l
        PROVE  search.buf[h].key < search.buf[l].key
    <3>1. base + h \in 0 .. dataNumber - 1 /\ base + l \in 0 .. dataNumber - 1 /\ base + h < base + l
      BY <1>1, <2>2, <2>3
    <3> QED
      BY <1>1, <1>2, <3>1
  <2> HIDE DEF j
  <2> QED
    BY <1>1, <1>2, <1>3, <2>1, <2>2, <2>3
<1> HIDE DEF j
<1>7. ~(search.s < j)
  <2> SUFFICES ASSUME search.s < j PROVE FALSE
    OBVIOUS
  <2>1. CASE search.s = search.n - 1 /\ search.e = search.n - 1 /\ AboveAll
    BY <1>1, <1>3, <2>1
  <2>2. CASE ~(search.s = search.n - 1 /\ search.e = search.n - 1 /\ AboveAll)
    <3>1. \A h \in search.e .. search.n - 1 : ~(search.buf[h].key < op.key)
      BY <2>2 DEF LoopInv, Bracketed
    <3>2. search.s \in search.e .. search.n - 1
      BY <1>1, <1>4
    <3>3. search.buf[search.s].key < search.buf[j].key
      BY <1>3, <1>4, <1>6
    <3> QED
      BY <1>6, <3>1, <3>2, <3>3
  <2> QED
    BY <2>1, <2>2
<1>8. ~(j < search.s)
  <2> SUFFICES ASSUME j < search.s PROVE FALSE
    OBVIOUS
  <2>1. CASE search.s = search.n - 1 /\ search.e = search.n - 1 /\ AboveAll
    <3>1. search.buf[search.n - 1].key < op.key
      BY <2>1 DEF AboveAll
    <3>2. search.n - 1 \in 0 .. search.n - 1 /\ j < search.n - 1
      BY <1>1, <2>1
    <3>3. search.buf[j].key < search.buf[search.n - 1].key
      BY <1>3, <1>6, <3>2
    <3> QED
      BY <1>3, <1>5, <1>6, <3>1, <3>2, <3>3
  <2>2. CASE ~(search.s = search.n - 1 /\ search.e = search.n - 1 /\ AboveAll)
    <3>1. \A h \in 0 .. search.s - 1 : search.buf[h].key < op.key
      BY <2>2 DEF LoopInv, Bracketed
    <3>2. j \in 0 .. search.s - 1
      BY <1>1, <1>3, <1>4
    <3> QED
      BY <1>5, <1>6, <3>1, <3>2
  <2> QED
    BY <2>1, <2>2
<1>9. search.s = j
  BY <1>1, <1>3, <1>4, <1>7, <1>8
<1> QED
  BY <1>6, <1>9

\* The turns of the search leave what it was given.
LEMMA TurnKeeps ==
  ASSUME IInv, LoopInv, EndAtLast \/ Halve
  PROVE  IInv'
<1>1. /\ op' = op /\ UNCHANGED <<dynamic, static, dynamicBudget, newest>>
      /\ op.at = "search"
  BY DEF EndAtLast, Halve
<1>2. search'.pid = search.pid /\ search'.n = search.n /\ search'.buf = search.buf
  <2> DEFINE P == {search.pid}
             Q == {search.buf}
             mid == (search.s + search.e) \div 2
             last == search.n - 1
  <2>1. search \in [pid : P, n : Int, buf : Q, s : Int, e : Int]
    BY DEF LoopInv, Seeking, IsSearch
  <2>2. \/ search' = [search EXCEPT !.s = last, !.e = last]
        \/ search' = [search EXCEPT !.s = mid + 1]
        \/ search' = [search EXCEPT !.e = mid]
    BY DEF EndAtLast, Halve
  <2> HIDE DEF P, Q, mid, last
  <2> QED
    BY <2>1, <2>2
<1>3. DiskOK' /\ Stored' = Stored
  BY <1>1, DiskStays DEF IInv
<1>4. MemoryOK'
  BY <1>1 DEF IInv, MemoryOK
<1>5. dataNumber' = dataNumber
  BY <1>1 DEF static
<1>6. SearchOK'
  BY <1>1, <1>2, <1>3, <1>5 DEF IInv, SearchOK
<1>7. ASSUME ~UpdateAssigns
      PROVE  OneRecord' /\ FindsNewest' /\ (op'.at = "search" => SearchIsFor')
  BY <1>1, <1>2, <1>3, <1>7 DEF IInv, OneRecord, FindsNewest, SearchIsFor
<1> QED
  BY <1>3, <1>4, <1>6, <1>7 DEF IInv

\* An operation that ends and writes nothing.
LEMMA AnswerKeeps ==
  ASSUME IInv, op'.at = "idle", op'.key \in Keys,
         UNCHANGED <<dynamic, static, dynamicBudget, newest>>,
         ~UpdateAssigns => FindsNewest'
  PROVE  IInv'
<1>1. DiskOK' /\ Stored' = Stored
  BY DiskStays DEF IInv
<1>2. MemoryOK'
  BY DEF IInv, MemoryOK
<1>3. SearchOK'
  BY DEF SearchOK
<1>4. ~UpdateAssigns => OneRecord'
  BY <1>1 DEF IInv, OneRecord
<1> QED
  BY <1>1, <1>2, <1>3, <1>4 DEF IInv

\* A search begins.
LEMMA LookUpKeeps ==
  ASSUME IInv, NEW kind \in {"find", "update"}, NEW k \in Keys, NEW v,
         kind = "update" => v \in Values, LookUpOnDisk(kind, k, v),
         k \notin DOMAIN dynamic, UNCHANGED <<dynamic, static, dynamicBudget, newest>>
  PROVE  IInv'
<1>1. /\ op' = [at |-> "search", kind |-> kind, key |-> k, value |-> v, answer |-> Missing]
      /\ search'.pid \in Nat /\ search'.n \in Nat \ {0}
      /\ search'.pid * RecordPerPage + search'.n <= dataNumber
      /\ \A i \in 0 .. search'.n - 1 :
           search'.buf[i] = Stored[search'.pid * RecordPerPage + i]
      /\ Strict(Stored) =>
           \A i \in DOMAIN Stored : Stored[i].key = k =>
             i - search'.pid * RecordPerPage \in 0 .. search'.n - 1
  BY LookUpReads
<1>2. op'.at = "search" /\ op'.kind = kind /\ op'.key = k /\ op'.value = v
  BY <1>1
<1>3. DiskOK' /\ Stored' = Stored
  BY DiskStays DEF IInv
<1>4. MemoryOK'
  BY <1>2 DEF IInv, MemoryOK
<1>5. SearchOK'
  BY <1>1, <1>2, <1>3 DEF SearchOK, static
<1>6. ASSUME ~UpdateAssigns PROVE OneRecord' /\ FindsNewest' /\ SearchIsFor'
  <2>1. OneRecord /\ Strict(Stored)
    BY <1>6 DEF IInv, OneRecord, Once
  <2> QED
    BY <1>1, <1>2, <1>3, <2>1 DEF OneRecord, FindsNewest, SearchIsFor
<1> QED
  BY <1>3, <1>4, <1>5, <1>6 DEF IInv

LEMMA FindKeeps ==
  ASSUME IInv, NEW k \in Keys, Find(k)
  PROVE  IInv'
<1>1. UNCHANGED <<dynamic, static, dynamicBudget, newest>>
  BY DEF Find
<1>2. CASE k \in DOMAIN dynamic
  <2>1. op' = Idle("find", k, dynamic[k])
    BY <1>2 DEF Find
  <2>2. op'.at = "idle" /\ op'.key = k /\ op'.answer = dynamic[k]
    BY <2>1 DEF Idle
  <2>3. ASSUME ~UpdateAssigns PROVE FindsNewest'
    <3>1. newest[k] = dynamic[k]
      BY <1>2, <2>3 DEF IInv, OneRecord, Once
    <3> QED
      BY <1>1, <2>2, <3>1 DEF FindsNewest
  <2> QED
    BY <1>1, <2>2, <2>3, AnswerKeeps
<1>3. CASE k \notin DOMAIN dynamic
  <2>1. LookUpOnDisk("find", k, Missing)
    BY <1>3 DEF Find
  <2>2. PICK kind \in {"find", "update"} : kind = "find"
    OBVIOUS
  <2>3. kind = "update" => Missing \in Values
    BY <2>2
  <2>4. LookUpOnDisk(kind, k, Missing)
    BY <2>1, <2>2
  <2> QED
    BY <1>1, <1>3, <2>3, <2>4, LookUpKeeps
<1> QED
  BY <1>2, <1>3

LEMMA FindOnDiskKeeps ==
  ASSUME IInv, LoopInv, FindOnDisk
  PROVE  IInv'
<1>1. /\ UNCHANGED <<dynamic, static, dynamicBudget, newest>>
      /\ op.at = "search" /\ search.s = search.e
      /\ op' = Idle("find", op.key, search.buf[search.s].value)
  BY DEF FindOnDisk, Landed
<1>2. op'.at = "idle" /\ op'.key = op.key /\ op'.answer = search.buf[search.s].value
  BY <1>1 DEF Idle
<1>3. op.key \in Keys
  BY DEF IInv, MemoryOK
<1>4. ASSUME ~UpdateAssigns, newest[op.key] # Missing
      PROVE  search.buf[search.s].value = newest[op.key]
  <2>1. Once(dynamic, Stored, newest) /\ op.key \notin DOMAIN dynamic
    BY <1>1, <1>4 DEF IInv, OneRecord, SearchIsFor
  <2>2. PICK i \in DOMAIN Stored : Stored[i].key = op.key
    BY <1>3, <1>4, <2>1 DEF Once
  <2>3. search.buf[search.s] = Stored[i]
    BY <1>1, <1>4, <2>2, LandsOnTheRecord
  <2> QED
    BY <2>1, <2>2, <2>3 DEF Once
<1>5. ~UpdateAssigns => FindsNewest'
  BY <1>1, <1>2, <1>4 DEF FindsNewest
<1> QED
  BY <1>1, <1>2, <1>3, <1>5, AnswerKeeps

LEMMA UpdateFailsKeeps ==
  ASSUME IInv, UpdateFails
  PROVE  IInv'
<1>1. /\ UNCHANGED <<dynamic, static, dynamicBudget, newest>>
      /\ op' = Idle("update", op.key, FALSE)
  BY DEF UpdateFails
<1>2. op'.at = "idle" /\ op'.key = op.key /\ op'.kind = "update"
  BY <1>1 DEF Idle
<1>3. op.key \in Keys
  BY DEF IInv, MemoryOK
<1>4. FindsNewest'
  BY <1>2 DEF FindsNewest
<1> QED
  BY <1>1, <1>2, <1>3, <1>4, AnswerKeeps

\* The first n records of a file are those of a vector, but for one value.
HoldsBut(g, s, n, slot, value) ==
  LET t == GetAllData(g, 0, n)
  IN  /\ IsFile(g) /\ DOMAIN t = 0 .. n - 1
      /\ t[slot] = [key |-> s[slot].key, value |-> value]
      /\ \A i \in 0 .. n - 1 : i # slot => t[i] = s[i]

\* An update writes the value of the record that the search has found.
LEMMA UpdatedFile ==
  ASSUME NEW f, IsFile(f), NEW n \in Nat, NEW slot \in 0 .. n - 1,
         NEW s, s = GetAllData(f, 0, n), IsRecords(s, n),
         NEW value \in Values, NEW g, g = [f EXCEPT ![slot].value = value]
  PROVE  HoldsBut(g, s, n, slot, value)
<1> DEFINE t == GetAllData(g, 0, n)
<1>1. 0 * RecordPerPage = 0
  BY RecordPerPageAssumption
<1>2. /\ \A i \in 0 .. n - 1 : s[i] = At(f, i) /\ t[i] = At(g, i)
      /\ DOMAIN t = 0 .. n - 1 /\ DOMAIN s = 0 .. n - 1
  BY <1>1 DEF GetAllData
<1>3. s[slot] \in Record /\ s[slot].key # 0
  <2>1. s[slot] \in Record
    BY <1>2 DEF IsRecords
  <2> QED
    BY <2>1, KeysAssumption DEF Record
<1>4. slot \in DOMAIN f /\ f[slot] = s[slot]
  BY <1>2, <1>3 DEF At, Junk
<1>5. DOMAIN g = DOMAIN f /\ \A x \in DOMAIN f : x # slot => g[x] = f[x]
  OBVIOUS
<1>6. g[slot] = [key |-> s[slot].key, value |-> value]
  <2> DEFINE r == f[slot]
  <2>1. g[slot] = [r EXCEPT !.value = value]
    BY <1>4
  <2>2. r \in [key : Keys, value : Values] /\ r.key = s[slot].key
    BY <1>3, <1>4 DEF Record
  <2> HIDE DEF r
  <2> QED
    BY <2>1, <2>2
<1>7. g[slot] \in Record
  BY <1>3, <1>6 DEF Record
<1>8. IsFile(g)
  BY <1>5, <1>7 DEF IsFile
<1>9. t[slot] = g[slot]
  BY <1>2, <1>4, <1>5 DEF At
<1>10. \A i \in 0 .. n - 1 : i # slot => t[i] = s[i]
  <2>1. ASSUME NEW i \in 0 .. n - 1, i # slot PROVE At(g, i) = At(f, i)
    BY <1>5, <2>1 DEF At
  <2> QED
    BY <1>2, <2>1
<1> HIDE DEF t
<1> QED
  BY <1>2, <1>6, <1>8, <1>9, <1>10 DEF t, HoldsBut

LEMMA UpdateOnDiskKeeps ==
  ASSUME IInv, LoopInv, UpdateOnDisk
  PROVE  IInv'
<1> DEFINE slot == search.pid * RecordPerPage + search.s
           N == dataNumber
<1>1. /\ op.at = "search" /\ op.kind = "update" /\ search.s = search.e
      /\ search.buf[search.s].key = op.key
      /\ file' = [file EXCEPT ![slot].value = op.value]
      /\ dataNumber' = N /\ pageNumber' = pageNumber /\ lastPageId' = lastPageId
      /\ trained' = trained /\ dynamic' = dynamic /\ dynamicBudget' = dynamicBudget
      /\ newest' = [newest EXCEPT ![op.key] = op.value]
      /\ op'.at = "idle" /\ op'.key = op.key /\ op'.kind = "update"
  BY DEF UpdateOnDisk, Landed, Written, Idle
<1>2. /\ op.value \in Values /\ op.key \in Keys
      /\ N \in Nat \ {0} /\ IsFile(file) /\ IsRecords(Stored, N)
      /\ trained = [i \in 0 .. N - 1 |-> Stored[i].key]
      /\ newest \in [Keys -> Values \cup {Missing}]
  BY <1>1 DEF IInv, SearchOK, MemoryOK, DiskOK
<1>3. slot \in 0 .. N - 1 /\ search.buf[search.s] = Stored[slot]
  <2>1. search.s \in 0 .. search.n - 1
    BY <1>1, LandsInside
  <2> DEFINE base == search.pid * RecordPerPage
  <2>2. /\ base \in Nat /\ base + search.n <= N /\ search.n \in Nat
        /\ \A i \in 0 .. search.n - 1 : search.buf[i] = Stored[base + i]
    BY <1>1, RecordPerPageAssumption DEF IInv, SearchOK
  <2> HIDE DEF base
  <2>3. base + search.s \in 0 .. N - 1
    BY <1>2, <2>1, <2>2
  <2> QED
    BY <2>1, <2>2, <2>3 DEF base
<1> HIDE DEF slot, N
<1>4. /\ IsFile(file') /\ DOMAIN Stored' = 0 .. N - 1 /\ DOMAIN Stored = 0 .. N - 1
      /\ Stored'[slot] = [key |-> op.key, value |-> op.value]
      /\ \A i \in 0 .. N - 1 : i # slot => Stored'[i] = Stored[i]
  <2>1. Stored = GetAllData(file, 0, N) /\ Stored' = GetAllData(file', 0, N)
    BY <1>1 DEF Stored, N
  <2>2. HoldsBut(file', Stored, N, slot, op.value)
    <3>1. N \in Nat /\ IsFile(file) /\ IsRecords(Stored, N) /\ op.value \in Values
      BY <1>2
    <3>2. file' = [file EXCEPT ![slot].value = op.value]
      BY <1>1
    <3>3. Stored = GetAllData(file, 0, N) /\ slot \in 0 .. N - 1
      BY <1>3, <2>1
    <3> QED
      BY ONLY <3>1, <3>2, <3>3, UpdatedFile
  <2>3. DOMAIN Stored = 0 .. N - 1
    BY <1>2 DEF IsRecords, IsVector
  <2> QED
    BY <1>1, <1>3, <2>1, <2>2, <2>3 DEF HoldsBut
<1>5. /\ \A i \in 0 .. N - 1 : Stored'[i].key = Stored[i].key
      /\ \A i \in 0 .. N - 1 : Stored'[i] \in Record
  <2>1. \A i \in 0 .. N - 1 : Stored[i] \in Record
    BY <1>2, <1>4 DEF IsRecords
  <2>2. [key |-> op.key, value |-> op.value] \in Record
    BY <1>2 DEF Record
  <2>3. Stored[slot].key = op.key
    BY <1>1, <1>3
  <2> QED
    BY <1>4, <2>1, <2>2, <2>3
<1>6. IsRecords(Stored', N)
  BY <1>2, <1>4, <1>5 DEF IsRecords, IsVector, InKeyOrder
<1>7. DiskOK'
  <2>1. trained' = [i \in 0 .. N - 1 |-> Stored'[i].key]
    BY <1>1, <1>2, <1>5
  <2> QED
    BY <1>1, <1>2, <1>4, <1>6, <2>1 DEF IInv, DiskOK, N
<1>8. MemoryOK'
  <2>1. newest' \in [Keys -> Values \cup {Missing}]
    BY <1>1, <1>2
  <2> QED
    BY <1>1, <1>2, <2>1 DEF IInv, MemoryOK
<1>9. SearchOK'
  BY <1>1 DEF SearchOK
<1>10. ASSUME ~UpdateAssigns
       PROVE  OneRecord' /\ FindsNewest' /\ (op'.at = "search" => SearchIsFor')
  <2>1. /\ \A i, j \in 0 .. N - 1 : i < j => Stored[i].key < Stored[j].key
        /\ \A i \in 0 .. N - 1 : /\ Stored[i].key \notin DOMAIN dynamic
                                 /\ newest[Stored[i].key] = Stored[i].value
        /\ \A k \in DOMAIN dynamic : newest[k] = dynamic[k]
        /\ \A k \in Keys : newest[k] # Missing =>
             k \in DOMAIN dynamic \/ \E i \in 0 .. N - 1 : Stored[i].key = k
        /\ op.key \notin DOMAIN dynamic
    BY <1>1, <1>4, <1>10 DEF IInv, OneRecord, Once, Strict, SearchIsFor
  <2>2. newest'[op.key] = op.value /\ \A k \in Keys : k # op.key => newest'[k] = newest[k]
    BY <1>1, <1>2
  <2>3. Strict(Stored')
    BY <1>4, <1>5, <2>1 DEF Strict
  <2>4. ASSUME NEW i \in 0 .. N - 1
        PROVE  /\ Stored'[i].key \notin DOMAIN dynamic'
               /\ newest'[Stored'[i].key] = Stored'[i].value
    <3>1. CASE i = slot
      BY <1>1, <1>4, <2>1, <2>2, <3>1
    <3>2. CASE i # slot
      <4>1. Stored'[i] = Stored[i]
        BY <1>4, <3>2
      <4>2. Stored[slot].key = op.key
        BY <1>1, <1>3
      <4>3. Stored[i].key # op.key
        <5>1. i < slot \/ slot < i
          BY <1>2, <1>3, <3>2
        <5>2. Stored[i].key \in Int /\ op.key \in Int
          BY <1>2, <1>4, KeysAreNumbers DEF IsRecords, Record
        <5> QED
          BY <1>3, <2>1, <4>2, <5>1, <5>2
      <4>4. Stored[i].key \in Keys
        BY <1>2, <1>4 DEF IsRecords, Record
      <4> QED
        BY <1>1, <2>1, <2>2, <4>1, <4>3, <4>4
    <3> QED
      BY <3>1, <3>2
  <2>5. \A k \in DOMAIN dynamic' : newest'[k] = dynamic'[k]
    <3>1. \A k \in DOMAIN dynamic : k \in Keys
      BY DEF IInv, MemoryOK, IsMap
    <3> QED
      BY <1>1, <2>1, <2>2, <3>1
  <2>6. ASSUME NEW k \in Keys, newest'[k] # Missing
        PROVE  k \in DOMAIN dynamic' \/ \E i \in DOMAIN Stored' : Stored'[i].key = k
    <3>1. CASE k = op.key
      BY <1>3, <1>4, <3>1
    <3>2. CASE k # op.key
      BY <1>1, <1>4, <1>5, <2>1, <2>2, <2>6, <3>2
    <3> QED
      BY <3>1, <3>2
  <2>7. OneRecord'
    BY <1>4, <2>3, <2>4, <2>5, <2>6 DEF OneRecord, Once
  <2>8. FindsNewest'
    BY <1>1 DEF FindsNewest
  <2> QED
    BY <1>1, <2>7, <2>8
<1> QED
  BY <1>7, <1>8, <1>9, <1>10 DEF IInv

LEMMA DeleteKeeps ==
  ASSUME IInv, NEW k \in Keys, Delete(k)
  PROVE  IInv'
<1> DEFINE gone == IF k \in DOMAIN dynamic THEN Missing ELSE newest[k]
           left == DOMAIN dynamic \ {k}
<1>1. /\ dynamic' = Restrict(dynamic, left)
      /\ newest' = [newest EXCEPT ![k] = gone]
      /\ op'.at = "idle" /\ op'.key = k /\ op'.kind = "delete"
      /\ UNCHANGED static /\ dynamicBudget' = dynamicBudget
  BY DEF Delete, Written, Idle, Without
<1>2. DiskOK' /\ Stored' = Stored
  BY <1>1, DiskStays DEF IInv
<1>3. IsMap(dynamic) /\ newest \in [Keys -> Values \cup {Missing}]
  BY DEF IInv, MemoryOK
<1>4. /\ IsMap(dynamic') /\ dynamic' = [y \in DOMAIN dynamic' |-> dynamic'[y]]
      /\ DOMAIN dynamic' = left /\ \A y \in left : dynamic'[y] = dynamic[y]
  <2>1. left \in SUBSET DOMAIN dynamic
    OBVIOUS
  <2> HIDE DEF left
  <2> QED
    BY <1>1, <1>3, <2>1, RestrictedMap
<1>5. gone \in Values \cup {Missing}
  BY <1>3
<1> HIDE DEF gone
<1>6. newest' \in [Keys -> Values \cup {Missing}]
  BY <1>1, <1>3, <1>5
<1>7. MemoryOK'
  BY <1>1, <1>4, <1>6 DEF IInv, MemoryOK
<1>8. SearchOK'
  BY <1>1 DEF SearchOK
<1>9. ASSUME ~UpdateAssigns
      PROVE  OneRecord' /\ FindsNewest' /\ (op'.at = "search" => SearchIsFor')
  <2>1. Once(dynamic, Stored, newest)
    BY <1>9 DEF IInv, OneRecord
  <2>2. newest'[k] = gone /\ \A x \in Keys : x # k => newest'[x] = newest[x]
    BY <1>1, <1>3
  <2>3. /\ \A i \in DOMAIN Stored : Stored[i].key \in Keys
        /\ \A x \in DOMAIN dynamic : x \in Keys
    BY <1>3 DEF IInv, DiskOK, IsRecords, Record, IsMap
  <2>4. ASSUME NEW i \in DOMAIN Stored
        PROVE  Stored[i].key \notin DOMAIN dynamic' /\ newest'[Stored[i].key] = Stored[i].value
    <3>1. Stored[i].key \notin DOMAIN dynamic /\ newest[Stored[i].key] = Stored[i].value
      BY <2>1 DEF Once
    <3>2. CASE Stored[i].key = k
      BY <1>4, <2>2, <3>1, <3>2 DEF gone
    <3>3. CASE Stored[i].key # k
      BY <1>4, <2>2, <2>3, <3>1, <3>3
    <3> QED
      BY <3>2, <3>3
  <2>5. \A x \in DOMAIN dynamic' : newest'[x] = dynamic'[x]
    BY <1>4, <2>1, <2>2, <2>3 DEF Once
  <2>6. ASSUME NEW x \in Keys, newest'[x] # Missing
        PROVE  x \in DOMAIN dynamic' \/ \E i \in DOMAIN Stored : Stored[i].key = x
    <3>1. CASE x = k
      <4>1. k \notin DOMAIN dynamic /\ newest[k] # Missing
        BY <2>2, <2>6, <3>1 DEF gone
      <4> QED
        BY <2>1, <3>1, <4>1 DEF Once
    <3>2. CASE x # k
      BY <1>4, <2>1, <2>2, <2>6, <3>2 DEF Once
    <3> QED
      BY <3>1, <3>2
  <2>7. OneRecord'
    BY <1>2, <2>1, <2>4, <2>5, <2>6 DEF OneRecord, Once
  <2>8. FindsNewest'
    BY <1>1 DEF FindsNewest
  <2> QED
    BY <1>1, <2>7, <2>8
<1> QED
  BY <1>2, <1>7, <1>8, <1>9 DEF IInv

LEMMA UpdateKeeps ==
  ASSUME IInv, NEW k \in Keys, NEW v \in Values, Update(k, v)
  PROVE  IInv'
<1>1. op.at = "idle" /\ UNCHANGED static /\ dynamicBudget' = dynamicBudget
  BY DEF Update, MayWrite
<1>2. CASE UpdateAssigns \/ k \in DOMAIN dynamic
  <2>1. dynamic' = InsertInto(dynamic, k, v) /\ Written("update", k, v)
    BY <1>2 DEF Update
  <2>2. ASSUME ~UpdateAssigns PROVE \A i \in DOMAIN Stored : Stored[i].key # k
    BY <1>2, <2>2 DEF IInv, OneRecord, Once
  <2>3. "update" # "find"
    OBVIOUS
  <2> QED
    BY <1>1, <2>1, <2>2, <2>3, WrittenKeeps
<1>3. CASE ~(UpdateAssigns \/ k \in DOMAIN dynamic)
  <2>1. LookUpOnDisk("update", k, v) /\ UNCHANGED <<dynamic, newest>>
    BY <1>3 DEF Update
  <2>2. PICK kind \in {"find", "update"} : kind = "update"
    OBVIOUS
  <2>3. LookUpOnDisk(kind, k, v)
    BY <2>1, <2>2
  <2> QED
    BY <1>1, <1>3, <2>1, <2>3, LookUpKeeps
<1> QED
  BY <1>2, <1>3

LEMMA StepKeeps == IInv /\ LoopInv /\ [Next]_vars => IInv'
<1> SUFFICES ASSUME IInv, LoopInv, [Next]_vars PROVE IInv'
  OBVIOUS
<1>1. CASE Search
  BY <1>1, TurnKeeps, FindOnDiskKeeps, UpdateOnDiskKeeps, UpdateFailsKeeps DEF Search
<1>2. ASSUME NEW k \in Keys, Find(k) \/ Delete(k) PROVE IInv'
  BY <1>2, FindKeeps, DeleteKeeps
<1>3. ASSUME NEW k \in Keys, NEW v \in Values, Insert(k, v) \/ Update(k, v) PROVE IInv'
  BY <1>3, InsertInMemoryKeeps, MergeAndInsertKeeps, UpdateKeeps DEF Insert
<1>4. CASE UNCHANGED vars
  <2>1. UNCHANGED static /\ UNCHANGED <<dynamic, dynamicBudget, op, search, newest>>
    BY <1>4 DEF vars
  <2>2. DiskOK' /\ Stored' = Stored
    BY <2>1, DiskStays DEF IInv
  <2> QED
    BY <2>1, <2>2 DEF IInv, MemoryOK, SearchOK, OneRecord, FindsNewest, SearchIsFor, static
<1> QED
  BY <1>1, <1>2, <1>3, <1>4 DEF Next

-----------------------------------------------------------------------------
(* The beginning.                                                           *)

\* The sample that stays in memory is not all that is loaded: the file has a
\* record from the beginning.
LEMMA SampleIsPart ==
  ASSUME Cardinality(Loaded) > InitSize
  PROVE  \E k \in Loaded : k \notin InitialSample
<1> DEFINE N == Cardinality(Loaded)
           seg == N \div InitSize
<1>1. IsFiniteSet(Loaded) /\ Loaded \in SUBSET Int
  <2>1. \A k \in Loaded : k \in Int
    BY LoadedAssumption, KeysAreNumbers
  <2> QED
    BY <2>1, LoadedAssumption, KeysAssumption, FS_Subset
<1>2. N \in Nat /\ InitSize \in Nat \ {0}
  BY <1>1, FS_CardinalityType, InitSizeAssumption
<1>3. \A i \in 0 .. N - 1 : \E k \in Loaded : Rank(k, Loaded) = i
  BY <1>1, RanksAreAll DEF Rank
<1>4. seg \in Nat /\ InitSize * seg <= N /\ N < InitSize * seg + InitSize
  BY <1>2, Quotient
<1>5. InitialSample = {k \in Loaded : /\ Rank(k, Loaded) % seg = 0
                                      /\ Rank(k, Loaded) < seg * InitSize}
  BY DEF InitialSample
<1> HIDE DEF N, seg
<1>6. CASE seg = 1
  <2>1. InitSize \in 0 .. N - 1
    BY <1>2 DEF N
  <2>2. PICK k \in Loaded : Rank(k, Loaded) = InitSize
    BY <1>3, <2>1
  <2>3. ~(InitSize < seg * InitSize)
    BY <1>2, <1>6
  <2> QED
    BY <1>5, <2>2, <2>3
<1>7. CASE seg # 1
  <2>1. seg # 0
    BY <1>2, <1>4 DEF N
  <2>2. 1 \in 0 .. N - 1 /\ seg \in Nat \ {0, 1}
    BY <1>2, <1>4, <1>7, <2>1 DEF N
  <2>3. PICK k \in Loaded : Rank(k, Loaded) = 1
    BY <1>3, <2>2
  <2>4. 1 % seg # 0
    BY <2>2
  <2> QED
    BY <1>5, <2>3, <2>4
<1> QED
  BY <1>6, <1>7

LEMMA InitIInv == Init => IInv
<1> SUFFICES ASSUME Init PROVE IInv
  OBVIOUS
<1> DEFINE value == [k \in Loaded |-> CHOOSE v \in Values : TRUE]
           moved == Without(value, InitialSample)
           d == InOrder(moved)
           a == Size(moved)
           empty == <<>>
           e == GetAllData(empty, 0, 0)
           m == Interleave(d, e, FALSE)
           built == BuildStatic(d, empty, 0)
<1>1. /\ Cardinality(Loaded) > InitSize
      /\ dynamic = Restrict(value, InitialSample)
      /\ file = built.file /\ dataNumber = built.dataNumber
      /\ pageNumber = built.pageNumber /\ lastPageId = built.lastPageId
      /\ trained = built.trained
      /\ newest = [k \in Keys |-> IF k \in Loaded THEN value[k] ELSE Missing]
      /\ op.at = "idle" /\ op.kind = "build" /\ op.key = CHOOSE k \in Keys : TRUE
      /\ \E size \in ModelSizes : /\ size < MemoryBudget
                                  /\ dynamicBudget = MemoryBudget - size
  BY DEF Init, Idle
<1>2. /\ IsMap(value) /\ DOMAIN value = Loaded
      /\ \A k \in Loaded : value[k] \in Values
  BY LoadedAssumption, ValuesAssumption DEF IsMap
<1> HIDE DEF value
<1>3. InitialSample \in SUBSET DOMAIN value
  BY <1>2 DEF InitialSample
<1>4. IsMap(moved) /\ DOMAIN moved = Loaded \ InitialSample
  <2>1. DOMAIN value \ InitialSample \in SUBSET DOMAIN value
    OBVIOUS
  <2> QED
    BY <1>2, <2>1, RestrictedMap DEF Without
<1>5. PICK zero \in Nat : zero = 0
  OBVIOUS
<1>6. IsRecords(e, zero) /\ IsFile(empty)
  <2>1. DOMAIN e = {} /\ DOMAIN empty = {}
    <3>1. DOMAIN e = 0 .. 0 - 1
      BY DEF GetAllData
    <3>2. 0 .. 0 - 1 = {}
      OBVIOUS
    <3> QED
      BY <3>1, <3>2
  <2> HIDE DEF e, empty
  <2>2. DOMAIN e = 0 .. zero - 1
    BY <1>5, <2>1
  <2> QED
    BY <1>5, <2>1, <2>2 DEF IsRecords, IsFile, IsVector, InKeyOrder
<1> HIDE DEF moved
<1>7. IsRecords(d, a) /\ a \in Nat
  BY <1>4, OrderedIsRecords
<1>8. a > 0
  <2>1. IsFiniteSet(DOMAIN moved) /\ a = Cardinality(DOMAIN moved)
    BY <1>4, MapIsFinite
  <2>2. DOMAIN moved # {}
    BY <1>1, <1>4, SampleIsPart
  <2> QED
    BY <1>7, <2>1, <2>2, FS_EmptySet
<1> HIDE DEF d, a, empty
<1>9. Holds(built, m, a)
  <2>1. a = a + zero /\ e = GetAllData(empty, 0, zero)
    BY <1>5, <1>7
  <2>2. Holds(BuildStatic(d, empty, zero), Interleave(d, GetAllData(empty, 0, zero), FALSE), a)
    BY <1>6, <1>7, <2>1, Builds
  <2> QED
    BY <1>5, <2>2
<1> HIDE DEF e, m, built
<1>10. Stored = m /\ DiskOK
  <2>1. Stored = m
    BY <1>1, <1>9 DEF Holds, Stored
  <2> QED
    BY <1>1, <1>7, <1>8, <1>9, <2>1 DEF Holds, DiskOK
<1>11. newest \in [Keys -> Values \cup {Missing}]
  BY <1>1, <1>2
<1>12. MemoryOK
  <2>1. IsMap(dynamic) /\ dynamic = [k \in DOMAIN dynamic |-> dynamic[k]]
    BY <1>1, <1>2, <1>3, RestrictedMap
  <2>2. dynamicBudget \in 0 .. Word - 1
    BY <1>1, BudgetAssumption
  <2>3. op.key \in Keys
    <3>1. Loaded # {}
      BY <1>1, FS_EmptySet, InitSizeAssumption
    <3> QED
      BY <1>1, <3>1, LoadedAssumption
  <2> QED
    BY <1>1, <1>11, <2>1, <2>2, <2>3 DEF MemoryOK
<1>13. SearchOK
  BY <1>1 DEF SearchOK
<1>14. OneRecord
  <2>1. DOMAIN e = {}
    BY <1>5, <1>6 DEF IsRecords, IsVector
  <2>2. \A k \in Loaded : k \in Keys
    BY LoadedAssumption
  <2>3. Once(value, e, newest)
    BY <1>1, <1>2, <2>1, <2>2 DEF Once, Strict
  <2>4. d = InOrder(Without(value, InitialSample))
    BY DEF d, moved
  <2>5. Once(Restrict(value, InitialSample), Interleave(d, e, FALSE), newest)
    BY <1>2, <1>3, <1>6, <1>11, <2>3, <2>4, MergedOnce
  <2> QED
    BY <1>1, <1>10, <2>5 DEF OneRecord, m
<1>15. FindsNewest
  BY <1>1 DEF FindsNewest
<1> QED
  BY <1>1, <1>10, <1>12, <1>13, <1>14, <1>15 DEF IInv

-----------------------------------------------------------------------------
(* How much stays in memory.                                                *)

\* Of the records, every seg-th is kept: less than twice as many as asked for.
LEMMA SampleIsSmall ==
  ASSUME NEW map, IsMap(map), NEW num \in Nat \ {0}
  PROVE  /\ IsFiniteSet(SampleOf(map, num))
         /\ Cardinality(SampleOf(map, num)) \in 0 .. 2 * num - 1
<1> DEFINE N == Size(map)
           keys == DOMAIN map
           kept == SampleOf(map, num)
           seg == N \div num
<1>1. /\ IsFiniteSet(keys) /\ keys \in SUBSET Int /\ N \in Nat /\ N = Cardinality(keys)
  BY MapIsFinite
<1>2. /\ \A k \in keys : Rank(k, keys) \in 0 .. N - 1
      /\ \A k, l \in keys : k < l => Rank(k, keys) < Rank(l, keys)
  BY <1>1, RanksAreAll DEF Rank
<1>3. kept \in SUBSET keys /\ \A k \in kept : Rank(k, keys) % seg = 0
  BY DEF SampleOf
<1>4. seg \in Nat /\ num * seg <= N /\ N < num * seg + num
  BY <1>1, Quotient
<1>5. IsFiniteSet(kept) /\ Cardinality(kept) \in Nat /\ Cardinality(kept) <= N
  BY <1>1, <1>3, FS_Subset, FS_CardinalityType
<1> HIDE DEF N, keys, kept, seg
<1>6. CASE seg = 0
  <2>1. N < num
    BY <1>1, <1>4, <1>6
  <2> QED
    BY <1>1, <1>5, <2>1 DEF kept
<1>7. CASE seg # 0
  <2> DEFINE most == 2 * num - 2
             f == [k \in kept |-> Rank(k, keys) \div seg]
  <2>0. seg \in Nat \ {0} /\ most \in Nat
    BY <1>4, <1>7
  <2>1. ASSUME NEW k \in kept
        PROVE  Rank(k, keys) = seg * f[k] /\ f[k] \in Nat /\ f[k] <= most
    <3>1. PICK r \in 0 .. N - 1 : r = Rank(k, keys)
      BY <1>2, <1>3
    <3>2. r % seg = 0
      BY <1>3, <3>1
    <3>3. PICK q : q = r \div seg
      OBVIOUS
    <3>4. q \in Nat /\ r = seg * q
      BY <1>1, <2>0, <3>1, <3>2, <3>3
    <3>5. ~(q >= 2 * num - 1)
      <4> SUFFICES ASSUME q >= 2 * num - 1 PROVE FALSE
        OBVIOUS
      <4>1. seg * (2 * num - 1) <= seg * q
        BY <2>0, <3>4, ProductGrows
      <4>2. num - 1 <= seg * (num - 1)
        <5>1. (num - 1) * 1 <= (num - 1) * seg
          BY <2>0, ProductGrows
        <5> QED
          BY <2>0, <5>1
      <4>3. seg * (2 * num - 1) = num * seg + seg * (num - 1)
        BY <2>0
      <4>4. r < N /\ N <= num * seg + (num - 1)
        BY <1>1, <1>4, <3>1
      <4>5. PICK x \in Int, y \in Int, z \in Int :
              x = num * seg /\ y = seg * (num - 1) /\ z = seg * (2 * num - 1)
        BY <2>0
      <4> QED
        BY <1>1, <3>1, <3>4, <4>1, <4>2, <4>3, <4>4, <4>5
    <3>6. f[k] = q
      BY <3>1, <3>3
    <3> HIDE DEF f
    <3> QED
      BY <3>1, <3>4, <3>5, <3>6
  <2>2. ASSUME NEW k \in kept, NEW l \in kept, f[k] = f[l] PROVE k = l
    <3> HIDE DEF f
    <3>1. Rank(k, keys) = Rank(l, keys)
      BY <2>1, <2>2
    <3>2. k \in keys /\ l \in keys /\ k \in Int /\ l \in Int
      BY <1>1, <1>3
    <3>3. Rank(k, keys) \in Int /\ (k < l => Rank(k, keys) < Rank(l, keys))
          /\ (l < k => Rank(l, keys) < Rank(k, keys))
      BY <1>2, <3>2
    <3> QED
      BY <3>1, <3>2, <3>3
  <2>3. f \in Injection(kept, 0 .. most)
    <3>1. \A k \in kept : f[k] \in 0 .. most
      BY <2>0, <2>1
    <3>2. f \in [kept -> 0 .. most]
      BY <3>1
    <3> QED
      BY <2>2, <3>2 DEF Injection, IsInjective
  <2> HIDE DEF f
  <2>4. IsFiniteSet(0 .. most) /\ Cardinality(0 .. most) = most + 1
    <3>1. 0 \in Int /\ most \in Int /\ ~(0 > most) /\ most - 0 + 1 = most + 1
      BY <2>0
    <3>2. Cardinality(0 .. most) = IF 0 > most THEN 0 ELSE most - 0 + 1
      BY <3>1, FS_Interval
    <3> QED
      BY <3>1, <3>2, FS_Interval
  <2>5. Cardinality(kept) <= Cardinality(0 .. most)
    BY <2>3, <2>4, FS_Injection
  <2> QED
    BY <1>5, <2>4, <2>5 DEF kept
<1> QED
  BY <1>6, <1>7

\* A write adds one record.
LEMMA InsertedSize ==
  ASSUME NEW map, IsFiniteSet(DOMAIN map), NEW k, NEW v
  PROVE  /\ Size(InsertInto(map, k, v)) \in Nat /\ Size(map) \in Nat
         /\ Size(InsertInto(map, k, v)) <= Size(map) + 1
<1>1. DOMAIN InsertInto(map, k, v) = DOMAIN map \cup {k}
  BY DEF InsertInto
<1>2. /\ IsFiniteSet(DOMAIN map \cup {k}) /\ Cardinality(DOMAIN map) \in Nat
      /\ Cardinality(DOMAIN map \cup {k}) =
           IF k \in DOMAIN map THEN Cardinality(DOMAIN map) ELSE Cardinality(DOMAIN map) + 1
  BY FS_AddElement, FS_CardinalityType
<1> QED
  BY <1>1, <1>2, FS_CardinalityType DEF Size

LEMMA StepKeepsBound == IInv /\ DynamicIsBounded /\ [Next]_vars => DynamicIsBounded'
<1> SUFFICES ASSUME IInv, DynamicIsBounded, [Next]_vars, op'.kind = "insert"
             PROVE  \/ GetTotalSize(dynamic') <= dynamicBudget' + 1
                    \/ GetTotalSize(dynamic') <= 2 * InitSize
  BY DEF DynamicIsBounded
<1>0. IsMap(dynamic) /\ IsFiniteSet(DOMAIN dynamic) /\ dynamicBudget \in Int
  <2>1. IsMap(dynamic) /\ dynamicBudget \in 0 .. Word - 1
    BY DEF IInv, MemoryOK
  <2> QED
    BY <2>1, MapIsFinite, BudgetAssumption
<1>1. ASSUME op' = op, dynamic' = dynamic, dynamicBudget' = dynamicBudget
      PROVE  \/ GetTotalSize(dynamic') <= dynamicBudget' + 1
             \/ GetTotalSize(dynamic') <= 2 * InitSize
  BY <1>1 DEF DynamicIsBounded
<1>2. ASSUME NEW k \in Keys, NEW v \in Values, InsertInMemory(k, v)
      PROVE  GetTotalSize(dynamic') <= dynamicBudget' + 1
  <2>1. /\ dynamic' = InsertInto(dynamic, k, v) /\ dynamicBudget' = dynamicBudget
        /\ Size(dynamic) <= dynamicBudget
    BY <1>2 DEF InsertInMemory, GetTotalSize
  <2>2. Size(dynamic) \in Nat /\ Size(dynamic') \in Nat /\ Size(dynamic') <= Size(dynamic) + 1
    BY <1>0, <2>1, InsertedSize
  <2> QED
    BY <1>0, <2>1, <2>2 DEF GetTotalSize
<1>3. ASSUME NEW k \in Keys, NEW v \in Values, MergeAndInsert(k, v)
      PROVE  GetTotalSize(dynamic') <= 2 * InitSize
  <2> DEFINE kept == SampleOf(dynamic, InitSize)
             rest == Restrict(dynamic, kept)
  <2>1. dynamic' = InsertInto(rest, k, v)
    BY <1>3 DEF MergeAndInsert
  <2>2. IsFiniteSet(kept) /\ Cardinality(kept) \in 0 .. 2 * InitSize - 1
    BY <1>0, InitSizeAssumption, SampleIsSmall
  <2>3. DOMAIN rest = kept
    <3>1. kept \in SUBSET DOMAIN dynamic
      BY DEF SampleOf
    <3> QED
      BY <1>0, <3>1, RestrictedMap
  <2> HIDE DEF kept, rest
  <2>4. Size(rest) = Cardinality(kept) /\ Size(rest) \in 0 .. 2 * InitSize - 1
    BY <2>2, <2>3 DEF Size
  <2>5. Size(dynamic') \in Nat /\ Size(dynamic') <= Size(rest) + 1
    BY <2>1, <2>2, <2>3, InsertedSize
  <2> QED
    BY <2>4, <2>5, InitSizeAssumption DEF GetTotalSize
<1>4. ASSUME FindOnDisk \/ UpdateOnDisk \/ UpdateFails PROVE FALSE
  BY <1>4 DEF FindOnDisk, UpdateOnDisk, UpdateFails, Written, Idle
<1>5. ASSUME NEW k \in Keys, Find(k) \/ Delete(k) PROVE FALSE
  BY <1>5 DEF Find, Delete, LookUpOnDisk, Written, Idle
<1>6. ASSUME NEW k \in Keys, NEW v \in Values, Update(k, v) PROVE FALSE
  BY <1>6 DEF Update, LookUpOnDisk, Written, Idle
<1>7. ASSUME EndAtLast \/ Halve
      PROVE  op' = op /\ dynamic' = dynamic /\ dynamicBudget' = dynamicBudget
  BY <1>7 DEF EndAtLast, Halve
<1>8. ASSUME UNCHANGED vars
      PROVE  op' = op /\ dynamic' = dynamic /\ dynamicBudget' = dynamicBudget
  BY <1>8 DEF vars
<1> QED
  BY <1>1, <1>2, <1>3, <1>4, <1>5, <1>6, <1>7, <1>8 DEF Next, Search, Insert

-----------------------------------------------------------------------------
(* The theorems.                                                            *)

\* The two invariants need one another: the loop is given what is sorted, and
\* what it ends at is the record of its key.
Inv == IInv /\ LoopInv

LEMMA InvIsInductive == Spec => []Inv
<1>1. Init => Inv
  BY InitIInv, InitLoopInv DEF Inv
<1>2. Inv => GivenSorted
  BY SearchIsSorted DEF Inv
<1>3. IInv /\ LoopInv /\ [Next]_vars => IInv'
  BY StepKeeps
<1>4. IInv => GivenSorted
  BY SearchIsSorted
<1>5. LoopInv /\ GivenSorted /\ GivenSorted' /\ [Next]_vars => LoopInv'
  BY StepKeepsLoopInv
<1>6. Inv <=> IInv /\ LoopInv
  BY DEF Inv
<1> QED
  BY <1>1, <1>3, <1>4, <1>5, <1>6, PTL DEF Spec

LEMMA InvTypes == Inv => TypeOK
<1> SUFFICES ASSUME DiskOK, MemoryOK PROVE TypeOK
  BY DEF Inv, IInv
<1>1. dynamic \in UNION {[K -> Values] : K \in SUBSET Keys}
  <2>1. DOMAIN dynamic \in SUBSET Keys /\ dynamic \in [DOMAIN dynamic -> Values]
    BY DEF MemoryOK, IsMap
  <2> QED
    BY <2>1
<1>2. dataNumber \in Nat \ {0} /\ IsRecords(Stored, dataNumber) /\ IsFile(file)
  BY DEF DiskOK
<1>3. pageNumber \in Nat /\ lastPageId \in 1 .. RecordPerPage
  <2>1. PICK z \in Nat : z = PagesFor(dataNumber)
    BY <1>2, PagesHold
  <2>2. dataNumber <= z * RecordPerPage /\ z * RecordPerPage < dataNumber + RecordPerPage
    BY <1>2, <2>1, PagesHold
  <2>3. PICK x \in Nat : x = z * RecordPerPage
    BY <2>1, RecordPerPageAssumption
  <2>4. pageNumber = z /\ lastPageId = RecordPerPage - (x - dataNumber)
    BY <2>1, <2>3 DEF DiskOK, LastPageId
  <2> QED
    BY <1>2, <2>2, <2>3, <2>4, RecordPerPageAssumption
<1>4. trained \in [0 .. dataNumber - 1 -> Keys]
  <2>1. \A i \in 0 .. dataNumber - 1 : Stored[i].key \in Keys
    BY <1>2 DEF IsRecords, IsVector, Record
  <2> QED
    BY <2>1 DEF DiskOK
<1> QED
  BY <1>1, <1>2, <1>3, <1>4 DEF TypeOK, MemoryOK, IsFile

\* What Build, the merges and the writes leave in the members of HybridIndex
\* and of the static index is of their types: the counts of records and pages
\* fit one another, and the models know every record.
THEOREM TypesAreKept == Spec => []TypeOK
BY InvIsInductive, InvTypes, PTL

\* The search of the pages that the models name (LastMileSearch) ends at the
\* lower bound of the key.
THEOREM SearchIsCorrect == Spec => []SearchFindsLowerBound
<1>1. Inv => SearchFindsLowerBound
  BY SearchIsSorted, EndsAtLowerBound DEF Inv
<1> QED
  BY <1>1, InvIsInductive, PTL

\* A turn of the search (EndAtLast or Halve) leaves less of its range.
Shrinks ==
  EndAtLast \/ Halve =>
    /\ search'.s <= search'.e
    /\ search'.e - search'.s < search.e - search.s

\* Every turn of the loop of LastMileSearch makes its range smaller and never
\* turns it over: the loop ends, whatever the width of the range.
THEOREM SearchShrinks == Spec => [][Shrinks]_vars
<1>1. Inv /\ Inv' => Shrinks
  <2> SUFFICES ASSUME LoopInv, GivenSorted, LoopInv', EndAtLast \/ Halve
               PROVE  /\ search'.s <= search'.e
                      /\ search'.e - search'.s < search.e - search.s
    BY SearchIsSorted DEF Inv, Shrinks
  <2>1. op'.at = "search"
    BY DEF EndAtLast, Halve
  <2>2. search'.s <= search'.e
    BY <2>1 DEF LoopInv, Seeking
  <2>3. CASE Halve
    BY <2>2, <2>3, HalveKeeps
  <2>4. CASE EndAtLast
    BY <2>2, <2>4, EndAtLastKeeps
  <2> QED
    BY <2>3, <2>4
<1> QED
  BY <1>1, InvIsInductive, PTL

\* A merge of the dynamic index makes room: behind an insert it is within the
\* budget and one record, or as small as the sample that Merge may keep.
THEOREM MergeMakesRoom == Spec => []DynamicIsBounded
<1>1. Init => DynamicIsBounded
  BY DEF Init, Idle, DynamicIsBounded
<1>2. Inv => IInv
  BY DEF Inv
<1> QED
  BY <1>1, <1>2, InvIsInductive, StepKeepsBound, PTL DEF Spec

\* What follows is of a dynamic index that updates only the keys it has, as the
\* B+-tree does.  (The one over PGM assigns, and a run shows what comes of it.)

\* A find answers the value last written for its key, by whichever of Insert and
\* Update, in memory or on disk, before or after any number of merges.
THEOREM FindsTheNewest ==
  ASSUME ~UpdateAssigns
  PROVE  Spec => []FindsNewest
<1>1. Inv => FindsNewest
  BY DEF Inv, IInv
<1> QED
  BY <1>1, InvIsInductive, PTL

\* A key has one record, in memory or in the file, which is sorted up to its
\* last record: a merge (StaticCprDI::Build) never meets two of a key.
THEOREM OneRecordOfAKey ==
  ASSUME ~UpdateAssigns
  PROVE  Spec => []EachKeyOnce
<1>1. Inv => EachKeyOnce
  BY DEF Inv, IInv, OneRecord, Once, Strict, EachKeyOnce
<1> QED
  BY <1>1, InvIsInductive, PTL

\* A lookup (FetchPages, LastMileSearch) is given pages that hold the record of
\* its key if there is one, and never looks behind the last record of the file.
THEOREM SearchIsInside ==
  ASSUME ~UpdateAssigns
  PROVE  Spec => []SearchStaysInside
<1>1. Inv => SearchStaysInside
  BY SearchIsSorted DEF Inv, IInv, SearchOK, SearchIsFor, GivenSorted, SearchStaysInside
<1> QED
  BY <1>1, InvIsInductive, PTL
=============================================================================
