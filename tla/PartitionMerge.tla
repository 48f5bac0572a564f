---------------------------- MODULE PartitionMerge ----------------------------
(***************************************************************************)
(* The records of the static index of the multi-threaded hybrid: a file of *)
(* sorted partitions, and the merge of a vector of dynamic records into    *)
(* the next version of the file, one task per partition, in whatever order *)
(* and at whatever pace the threads do the tasks.  Who does them, and when *)
(* a thread moves to the next version, is in StaticVersions and HybridMT;  *)
(* what the files hold is here.                                            *)
(***************************************************************************)
EXTENDS PageFile

CONSTANTS
  Keys,
  Loaded,            \* the keys that Build is given
  Handed,            \* the keys that a merge may be handed
  MergeThreadNum,    \* merge_thread_num_, the number of partitions
  MaxRounds          \* bound: the number of merges

Partitions == 0 .. MergeThreadNum - 1

\* std::ceil(init_data.size() * 1.0 / merge_thread_num_)
SubItems == (Cardinality(Loaded) + MergeThreadNum - 1) \div MergeThreadNum

ASSUME KeysAssumption ==
  Loaded \cup Handed \subseteq Keys /\ Keys \subseteq Nat \ {0} /\ IsFiniteSet(Keys)
ASSUME PartitionsAssumption == MergeThreadNum \in Nat \ {0}
ASSUME RoundsAssumption == MaxRounds \in Nat
ASSUME NoPartitionIsEmpty == Cardinality(Loaded) > (MergeThreadNum - 1) * SubItems

VARIABLES
  current,     \* static_index_: the version in use
  backup,      \* the copy of it that is being merged
  dynamic,     \* the collected records, in order
  ranges,      \* partitions_: what PartitionData computed for each partition
  task,        \* the merge of each partition
  round,       \* merges started so far
  handed,      \* records handed to the index so far (history)
  newest       \* the round of the last record of every key, -1 if none (history)

vars == <<current, backup, dynamic, ranges, task, round, handed, newest>>

\* The records of these keys, in order.
InOrder(keys, value) ==
  [i \in 0 .. Cardinality(keys) - 1 |->
     [key   |-> CHOOSE k \in keys : Cardinality({x \in keys : x < k}) = i,
      value |-> value]]

Slice(vector, from, to) == [i \in 0 .. to - from - 1 |-> vector[from + i]]

KeysOf(vector) == [i \in DOMAIN vector |-> vector[i].key]

\* The index of the last page of n records that start at this page.
LastPage(start, n) == start + (n - 1) \div RecordPerPage

\* Store a partition: its records, its place and its models.
Put(index, p, data, start) ==
  LET n    == Size(data)
      last == LastPage(start, n)
  IN  [index EXCEPT
         !.dataNumbers[p]   = n,
         !.pageStartIds[p]  = start,
         !.pageLastIds[p]   = last,
         !.partitionKeys[p] = data[n - 1].key,
         !.trained[p]       = KeysOf(data),
         !.file             = DirectIOWrite(@, data, last - start + 1, start)]

NoIndex ==
  LET zero == [p \in Partitions |-> 0]
  IN  [dataNumbers |-> zero, pageStartIds |-> zero, pageLastIds |-> zero,
       partitionKeys |-> zero, trained |-> [p \in Partitions |-> <<>>], file |-> <<>>]

\* Init of the static index: partition after partition, page after page.
Built ==
  LET data == InOrder(Loaded, 0)
      Sub(p) == Slice(data, p * SubItems, Min({(p + 1) * SubItems, Size(data)}))
      upTo[p \in Partitions] ==
        IF p = 0 THEN Put(NoIndex, 0, Sub(0), 0)
        ELSE Put(upTo[p - 1], p, Sub(p), upTo[p - 1].pageLastIds[p - 1] + 1)
  IN  upTo[MergeThreadNum - 1]

NoTask == [at |-> "none", read |-> <<>>, arr |-> <<>>, i |-> 0, j |-> 0, cnt |-> 0]

Init ==
  /\ current = Built
  /\ backup = NoIndex
  /\ dynamic = <<>>
  /\ ranges = <<>>
  /\ task = [p \in Partitions |-> NoTask]
  /\ round = 0
  /\ handed = Cardinality(Loaded)
  /\ newest = [k \in Keys |-> IF k \in Loaded THEN 0 ELSE -1]

-----------------------------------------------------------------------------
(* PartitionData.                                                          *)

\* std::lower_bound over the dynamic records
DynamicIndexOf(data, key) == Cardinality({i \in DOMAIN data : data[i].key < key})

\* Mutant: the first record of the range is left out.
GetDynamicRangeAfter(data, p) ==
  LET end == DynamicIndexOf(data, backup.partitionKeys[p])
  IN  [first |-> IF p > 0
                 THEN Min({DynamicIndexOf(data, backup.partitionKeys[p - 1]) + 1, end})
                 ELSE 0,
       end   |-> end]

GetDynamicRange(data, p) ==
  [first |-> IF p > 0 THEN DynamicIndexOf(data, backup.partitionKeys[p - 1]) ELSE 0,
   end   |-> DynamicIndexOf(data, backup.partitionKeys[p])]

\* Mutant: the pages of the dynamic records are left out.
PagesOfStatic(r) == PagesFor(r.dataNum)

PagesOf(r) == PagesFor(r.dataNum + r.end - r.first)

\* SetRange for every partition: what it reads, and where the new one goes.
PartitionRanges(data) ==
  LET upTo[p \in Partitions] ==
        LET dy == GetDynamicRange(data, p)
        IN  [startPage |-> backup.pageStartIds[p],
             pageNum   |-> backup.pageLastIds[p] - backup.pageStartIds[p] + 1,
             dataNum   |-> backup.dataNumbers[p],
             first     |-> dy.first,
             end       |-> dy.end,
             stored    |-> IF p = 0 THEN 0
                           ELSE upTo[p - 1].stored + PagesOf(upTo[p - 1])]
  IN  upTo

Quiet == \A p \in Partitions : task[p].at = "none"

\* The copy of the index is made first; its file is the next version.
Collect(keys) ==
  /\ Quiet
  /\ dynamic = <<>>
  /\ round < MaxRounds
  /\ backup' = [current EXCEPT !.file = <<>>]
  /\ dynamic' = InOrder(keys, round + 1)
  /\ round' = round + 1
  /\ handed' = handed + Cardinality(keys)
  /\ UNCHANGED <<current, ranges, task, newest>>

PartitionData ==
  /\ Quiet
  /\ dynamic # <<>>
  /\ ranges' = PartitionRanges(dynamic)
  /\ task' = [p \in Partitions |-> [NoTask EXCEPT !.at = "offered"]]
  /\ UNCHANGED <<current, backup, dynamic, round, handed, newest>>

-----------------------------------------------------------------------------
(* MergeSubData, a task of one partition.                                  *)

\* Mutant: the vector is filled from its last record but one.
ReadStaticShort(p) ==
  LET r    == ranges[p]
      data == GetAllData(current.file, r.startPage, r.dataNum)
      n    == r.dataNum + r.end - r.first
  IN  /\ task[p].at = "offered"
      /\ task' = [task EXCEPT ![p] =
           [at |-> "merge", read |-> data, arr |-> [x \in 0 .. n - 1 |-> At(data, x)],
            i |-> r.end - 1, j |-> r.dataNum - 1, cnt |-> n - 2]]
      /\ UNCHANGED <<current, backup, dynamic, ranges, round, handed, newest>>

\* GetSubData puts the static records at the front of the merged vector.
ReadStatic(p) ==
  LET r    == ranges[p]
      data == GetAllData(current.file, r.startPage, r.dataNum)
      n    == r.dataNum + r.end - r.first
  IN  /\ task[p].at = "offered"
      /\ task' = [task EXCEPT ![p] =
           [at |-> "merge", read |-> data, arr |-> [x \in 0 .. n - 1 |-> At(data, x)],
            i |-> r.end - 1, j |-> r.dataNum - 1, cnt |-> n - 1]]
      /\ UNCHANGED <<current, backup, dynamic, ranges, round, handed, newest>>

\* One turn of MergeTwoSortedArray, which fills the vector from its end.
PutDynamic(w) ==
  [w EXCEPT !.arr[w.cnt] = dynamic[w.i], !.i = w.i - 1, !.cnt = w.cnt - 1]

PutStatic(w) ==
  [w EXCEPT !.arr[w.cnt] = w.arr[w.j], !.j = w.j - 1, !.cnt = w.cnt - 1]

\* Mutant: all the dynamic records, not those of the partition.
DynamicLeftOfAll(p) == task[p].i >= 0

DynamicLeft(p) == task[p].i >= ranges[p].first
StaticLeft(p)  == task[p].j >= 0

\* Mutant: of two records of a key the older one goes before the newer one.
DynamicIsAtLeast(p) == dynamic[task[p].i].key >= task[p].arr[task[p].j].key

DynamicIsLarger(p) == dynamic[task[p].i].key > task[p].arr[task[p].j].key

Turn(p, next) ==
  /\ task' = [task EXCEPT ![p] = next]
  /\ UNCHANGED <<current, backup, dynamic, ranges, round, handed, newest>>

TakeDynamic(p) ==
  /\ task[p].at = "merge" /\ DynamicLeft(p) /\ StaticLeft(p)
  /\ DynamicIsLarger(p)
  /\ Turn(p, PutDynamic(task[p]))

TakeStatic(p) ==
  /\ task[p].at = "merge" /\ DynamicLeft(p) /\ StaticLeft(p)
  /\ ~DynamicIsLarger(p)
  /\ Turn(p, PutStatic(task[p]))

TakeRest(p) ==
  /\ task[p].at = "merge" /\ DynamicLeft(p) /\ ~StaticLeft(p)
  /\ Turn(p, PutDynamic(task[p]))

\* The static records that are left are in their place.
Store(p) ==
  /\ task[p].at = "merge" /\ ~DynamicLeft(p)
  /\ backup' = Put(backup, p, task[p].arr, ranges[p].stored)
  /\ task' = [task EXCEPT ![p].at = "finished"]
  /\ UNCHANGED <<current, dynamic, ranges, round, handed, newest>>

-----------------------------------------------------------------------------
AllSubMergeFinished == \A p \in Partitions : task[p].at = "finished"

\* The version is announced, every thread opens it, and the last one swaps the
\* copy in: one step here, many of HybridMT.
Publish ==
  /\ AllSubMergeFinished
  /\ current' = backup
  /\ backup' = NoIndex
  /\ newest' = [k \in Keys |-> IF \E i \in DOMAIN dynamic : dynamic[i].key = k
                                 THEN round ELSE newest[k]]
  /\ dynamic' = <<>>
  /\ ranges' = <<>>
  /\ task' = [p \in Partitions |-> NoTask]
  /\ UNCHANGED <<round, handed>>

MergeSub(p) == ReadStatic(p) \/ TakeDynamic(p) \/ TakeStatic(p) \/ TakeRest(p) \/ Store(p)

Next ==
  \/ \E keys \in (SUBSET Handed) \ {{}} : Collect(keys)
  \/ PartitionData
  \/ \E p \in Partitions : MergeSub(p)
  \/ Publish

Spec == Init /\ [][Next]_vars

-----------------------------------------------------------------------------
(* Find.                                                                   *)

\* std::lower_bound over the partition keys
GetPartitionID(key) == Cardinality({p \in Partitions : current.partitionKeys[p] < key})

\* Mutant: the last page of the partition is compared with its number of pages.
LastIdByCount(range, p) ==
  IF (range.end - 1) \div RecordPerPage = current.pageLastIds[p]
  THEN current.dataNumbers[p] - RecordPerPage * (current.pageLastIds[p] - current.pageStartIds[p])
  ELSE RecordPerPage

LastId(range, p) ==
  IF (range.end - 1) \div RecordPerPage + current.pageStartIds[p] = current.pageLastIds[p]
  THEN current.dataNumbers[p] - RecordPerPage * (current.pageLastIds[p] - current.pageStartIds[p])
  ELSE RecordPerPage

\* LowerBound and NormalCoreLookup: the pages of the range, counted from the
\* first page of the partition, up to the last record that counts.
FindData(range, key, p) ==
  LET pages  == GetFetchRange(range, current.pageLastIds[p])
      number == pages.end - pages.start + 1
      buf    == DirectIORead(current.file, pages.start + current.pageStartIds[p], number)
  IN  buf[LowerBound(buf, RecordPerPage * (number - 1) + LastId(range, p), key)].value

\* What a find may answer, with any range the models of its partition may give.
Find(key) ==
  LET p == GetPartitionID(key)
  IN  {FindData(range, key, p) : range \in SearchBound(current.trained[p], key)}

-----------------------------------------------------------------------------
(* Properties.                                                             *)

Record == [key : Keys, value : 0 .. MaxRounds]

IndexOK(index) ==
  /\ \A slot \in DOMAIN index.file : slot \in Nat /\ index.file[slot] \in Record \cup {Junk}
  /\ \A p \in Partitions : /\ index.dataNumbers[p] \in Nat
                           /\ index.pageStartIds[p] \in Nat
                           /\ index.pageLastIds[p] \in Nat

TypeOK ==
  /\ IndexOK(current) /\ IndexOK(backup)
  /\ \A i \in DOMAIN dynamic : dynamic[i] \in Record
  /\ \A p \in Partitions :
       /\ task[p].at \in {"none", "offered", "merge", "finished"}
       /\ task[p].i \in -1 .. Size(dynamic) /\ task[p].j \in Int
       /\ task[p].cnt \in -1 .. Size(task[p].arr)
  /\ round \in 0 .. MaxRounds
  /\ newest \in [Keys -> -1 .. MaxRounds]

(* In the version in use, a find of a stored key answers the last record   *)
(* handed over for it, of the several that a file may hold.                *)
FindsNewest ==
  \A k \in Keys : newest[k] >= 0 =>
    /\ GetPartitionID(k) \in Partitions
    /\ Find(k) = {newest[k]}

(* Every record handed to the index is in the version in use, once the     *)
(* merge that was handed it is over: size() is the number of records       *)
(* loaded and inserted.                                                    *)
Sizes ==
  LET upTo[p \in Partitions] ==
        current.dataNumbers[p] + (IF p = 0 THEN 0 ELSE upTo[p - 1])
  IN  upTo[MergeThreadNum - 1]

EveryRecordStored == dynamic = <<>> => Sizes = handed

(* The partitions of the new version lie behind one another: a task writes *)
(* no page of another one, whichever comes first, and the records stored   *)
(* of a partition are the merge of the two vectors.                        *)
StoredIsMerge ==
  \A p \in Partitions : task[p].at = "finished" =>
    LET r == ranges[p]
    IN  GetAllData(backup.file, backup.pageStartIds[p], backup.dataNumbers[p])
          = Interleave(Slice(dynamic, r.first, r.end), task[p].read, TRUE)

\* Of the records of a key the newest comes first.
Before(r, s) == r.key < s.key \/ (r.key = s.key /\ r.value > s.value)

(* Both vectors that a task is given are in a strict order, whatever the    *)
(* merges before it have stored: the dynamic keys ascend, of the records    *)
(* that a partition has of one key the newest comes first, and the part of  *)
(* the dynamic records lies in their vector.                                *)
InputsInOrder ==
  \A p \in Partitions : task[p].at \in {"offered", "merge"} =>
    LET r == ranges[p]
    IN  /\ {r.dataNum, r.first, r.end} \subseteq Nat /\ r.first <= r.end
        /\ r.first .. r.end - 1 \subseteq DOMAIN dynamic
        /\ \A x, y \in r.first .. r.end - 1 : x < y => dynamic[x].key < dynamic[y].key
        /\ task[p].at = "merge" =>
             \A x, y \in 0 .. r.dataNum - 1 : x < y => Before(task[p].read[x], task[p].read[y])

(* The check of GetSubData on what it has read of a partition, every key    *)
(* above the one before it (static_base.h:751-758).                         *)
StaticKeysAscend ==
  \A p \in Partitions : task[p].at = "merge" =>
    \A x \in 1 .. ranges[p].dataNum - 1 : task[p].read[x].key > task[p].read[x - 1].key

\* A static record that was not looked at yet is still in its place.
UnreadIsIntact(w) == \A x \in 0 .. w.j : w.arr[x] = w.read[x]

\* What was written is sorted, and nothing to come is above it.
WrittenIsSorted(w, first) ==
  \A x \in w.cnt + 1 .. Size(w.arr) - 1 :
    /\ \A y \in x .. Size(w.arr) - 1 : w.arr[x].key <= w.arr[y].key
    /\ w.j >= 0 => w.arr[w.j].key <= w.arr[x].key
    /\ w.i >= first => dynamic[w.i].key <= w.arr[x].key

(* The merge of a partition is done in place, from the end of a vector that *)
(* begins with the static records: it overwrites none that it has not       *)
(* looked at, and what it leaves behind it is sorted.                       *)
MergedInPlace ==
  \A p \in Partitions : task[p].at = "merge" =>
    UnreadIsIntact(task[p]) /\ WrittenIsSorted(task[p], ranges[p].first)
=============================================================================
