# Verification of the hybrid learned indexes

TLA+ modules, TLC models and TLAPS proofs for the index structures of this
repository. The benchmark compares on-disk learned indexes; the code of its own
with the hard behaviour is the *multi-threaded hybrid index*
(`src/indexes/multi_threaded_hybrid/`): a concurrent in-memory B+-tree takes the
inserts, a learned index on disk holds the rest, and the threads that run the
workload merge the first into the second together, without stopping. The project
covers that index from the version word of a tree node to the records of a
partition, and the *single-threaded hybrid* (`src/indexes/hybrid/`) beside it.

## 1. Inventory

### 1.1 Components

| component | source | state | operations | status |
|---|---|---|---|---|
| Optimistic lock of a tree node | `multi_threaded_hybrid/dynamic/btree/BTreeOLC.h:16-67` | one 64-bit word: counter, lock bit, obsolete bit | take a version, validate it, upgrade it to the write lock, unlock | modelled, proved |
| Concurrent B+-tree | `.../BTreeOLC.h`, `dynamic/btree.h` | nodes, root, first leaf, item/leaf/inner counters | Build, insert (upsert, with eager splits), lookup, MergeData | modelled but for `scan` |
| Versioned static index | `multi_threaded_hybrid/static/static_base.h`, `static/cpr_di.h` | per partition: page range and model; per thread: version, file descriptor; latest/old version, task and completion counters | Build, copy, ObtainMergeTask, MergeSubData, CheckLatestVersion, PartitionData, DeleteFile, LowerBound | protocol modelled |
| Multi-threaded hybrid index | `multi_threaded_hybrid/hybrid_index.h` | mode, pointers to dynamic / merging / static / backup index, two operation counters with their flags | Build, Find, Insert, Merge, AssignedToMerge, UpdateVersion, UpdateAllVersion | Find and Insert modelled with the whole merge, proved in part |
| Merge of a partition | `static/static_base.h:142-184, 584-791` | the dynamic records, the old pages, the merged pages | partition keys, GetDynamicRange, SetRange, MergeTwoSortedArray, the lookup in a partition | modelled, proved in part |
| Single-threaded hybrid index | `src/indexes/hybrid/` with the B+-tree, or PGM in memory, and the compressed index on disk | dynamic index, static index, memory budget | Build, Find, Insert, Update, Delete, Merge | modelled but for Scan, proved in part |
| Last-mile page search | `src/ycsb_utils/util_search.h` | pages of a file | GetFetchRange, the worst-case fetch, the binary search, Update1Page, page transfers | modelled but for scans and `OneByOneFetch` |
| Compressed disk-oriented index | `src/indexes/Compressed-Disk-Oriented-Index/` | segments and their error bound | Build, GetSearchBound | contract only |
| Other indexes of the single-threaded hybrid | `src/indexes/hybrid/dynamic/alex.h`, `static/{pgm,rs,leco-page}.h` | as above | as above | not modelled |
| PGM, radix spline, LeCo zone map, binary search on disk | `src/indexes/PGM-index-disk`, `rs-disk`, `leco-zonemap.h`, `binary-search.h` | built once, read only | Build, Lookup | not modelled |
| FILM with LRU memory | `src/indexes/film/` | pieces, LRU list, cold pages | adapted third-party code | not modelled |
| YCSB harness, workload generator | `src/ycsb_utils/` | op arrays | one loop of Find/Insert per thread | only as the workload of the models |
| Lookup experiments, disk tests | `src/experiments/` | | measurement around I/O | not modelled |
| Vendored libraries | `src/libraries/` | | | not modelled |

Two more files of the multi-threaded hybrid are not modelled:
`BTreeOLC_child_layout.h` is included by nothing, and `static/leco-page.h` is
the versioned static index with compressed pages: its version protocol is the
one of `static_base.h`.

### 1.2 How they interact

`MultiThreadedHybridIndex` holds shared pointers to a dynamic and to a static
index and publishes everything else through atomics. `Find` looks in the
dynamic index, then in the one being merged (if there is one), then on disk.
`Insert` goes to the dynamic index, and when the memory ratio is reached the
inserting thread starts a merge. The mode moves in a circle:

    Normal --(compare-and-swap by one insert)--> PrepareToMerge
           --(once no insert is inside the dynamic index)--> MergingMode
           --(by whoever stores the last partition)--> MergedMode
           --(by whoever brings the version count to thread_numbers_)--> Normal

In MergingMode the merging index is read-only, `tmp_dynamic_data_` holds its
records, and the *backup* index (a copy of the static one) offers one task per
partition. Any thread that finds or inserts takes a task first. In MergedMode
every thread moves its descriptor from the old file to the new one, at the
beginning of its next operation; the last one swaps the static index for the
backup, removes the old file and drops the merging index. A thread that waits
longer than 100 million turns moves the idle threads on their behalf.

The records themselves are in one file of sorted partitions. A merge computes
where each merged partition will go, and the tasks then read, merge and write
their partitions at their own pace, one behind the other in the new file.

`HybridIndex` is the same idea for one thread: `Insert` goes to memory until the
dynamic index outgrows `memory_budget_` less what the models take; then all but a
sample of it is merged into the file and the models are trained again. `Find`
and `Update` try memory first and disk second. Both indexes search the pages of
a predicted range with the functions of `util_search.h`.

### 1.3 What is hard, and what correct means

* *Lock and tree.* Readers take no lock: they read memory that a writer
  may be changing and find out afterwards. Correct means: a validated read is a
  snapshot; a writer modifies exactly what it read; the tree is a linearizable
  map at every moment of a split; no exit leaves a lock behind; the leaf chain
  that `MergeData` walks is sorted and complete.
* *Mode protocol.* Flag and counter pairs (`ready_to_merge_`/`ops_on_dynamic_`,
  `ready_to_normal_`/`ops_on_merge_dynamic_`) are updated one after the other;
  pointers are loaded again after calls that may have changed them; every thread
  may help, close, swap or delete. Correct means: no key is ever out of reach,
  nothing is merged that still changes, a page range is only used with its own
  file, a file in use is not removed, a merge ends.
* *Versions.* A count must reach `thread_numbers_` exactly once per merge.
* *Sizes and boundaries.* Partition boundaries; page ranges at the ends of a
  file; a last page that is partly filled and holds leftovers of another
  transfer behind its records; a merge in place that must not overwrite what it
  has not read. Correct means: a search ends, at the record it looks for, and
  never looks behind the last one; no merge loses a record.
* *Two places for a key.* Memory and disk, and in the merging index a third.
  Correct means: a find answers the value last written, wherever it is.

The full list of hazards, with the line where each one bites and the properties
that watch it, is in `PROJECT.json`.

## 2. Modules

| module | models | uses |
|---|---|---|
| `OptLock` | the arithmetic of the version word | |
| `OptLockCoupling` | readers and writers of one leaf | `OptLock` |
| `KVMap` | abstract specification: a linearizable map | |
| `BTreeOLC` | the tree; refines `KVMap` | `OptLock` |
| `StaticVersions` | one static index object, as a value with operators | |
| `HybridMT` | the hybrid index, its merge and version protocol | `StaticVersions` |
| `PageFile` | pages: transfers, ranges, search, the contract of the models, the merge of two vectors | |
| `PartitionMerge` | what the files of the multi-threaded hybrid hold | `PageFile` |
| `HybridIndex` | the single-threaded hybrid | `PageFile` |
| `BTreeOLCProofs`, `BTreeOLCMapProofs`, `BTreeOLCWalkProofs` | the locks of the tree and what is read without one; that the tree is a map; what a search and a walk along the leaves meet | TLAPS |
| `OptLockProofs`, `HybridMTProofs`, `PartitionMergeProofs`, `HybridIndexProofs` | theorems on the module they are named after | TLAPS |
| `PageFileProofs` | lemmas on the operators of `PageFile` | TLAPS |
| `MC*` | constants for TLC: threads, keys, workloads | |

### 2.1 OptLock, OptLockCoupling

The word starts at 4 (`0b100`); bit 1 is the lock, bit 0 "obsolete". `Locked`
and `Unlocked` are the two additions of `0b10`: the second carries into the
counter. `ReadLockable` is the exit condition of `readLockOrRestart`; a failed
attempt restarts the operation and is a stutter.

`OptLockCoupling` composes them the way `lookup` and `insert` do on one leaf. The
leaf has three parts, `count`, `keys` and `payloads`, which are read one after the
other and written in the order of `BTreeLeaf::insert` (`BTreeOLC.h:122-142`):
`MoveKeys`, `MovePayloads`, `SetKey`, `SetPayload`, `CountUp`; where there is nothing to
move the first two are left out, an `Upsert` writes a payload alone, a `Split` the
count alone. An insert reads the count before it upgrades (`UpgradeToWriteLock`), a
lookup all three parts before it validates (`ReadUnlock`). A writer may also find that
the parent has changed, or that the root has got one, and unlock a leaf it has not
written (`Abandon`); `ParentChanged` is the same without a lock.

A part holds a stamp in the place of data: the held word while its entries are being
moved, then the word that the unlock is going to publish. So it is known which
critical section each part comes from. The history `published` has the leaf as it was
under each free word; a reader's promise is stated with it. A failed compare-and-swap
restarts the operation, and the word that it found is dropped with the locals (`Leave`).

The word is a natural number and not one modulo 2^64: 2^62 critical sections on
one node are out of the reach of a run.

### 2.2 KVMap, BTreeOLC

`KVMap` is the promise: a map, and for each thread a call that takes effect at
one instant between question and answer.

`BTreeOLC` has one action per access to shared memory of `insert` and `lookup`:
read the root pointer, take its version, test the root again, look at the node,
validate the parent, read the child pointer, validate the node, take the
child's version, and for a split or a leaf insert each compare-and-swap and
unlock. `pc` names the place; `node`, `vNode`, `parent`, `vParent` are the
locals. Splits are eager, as in the code: an inner node with `InnerMax - 1`
keys or a leaf with `LeafMax` is split on the way down. The first accesses of
a node that another thread is changing return anything of the right kind: a
`Full` test may answer either way, a pointer or a value may be `Torn` (`MayRead`,
`ReadChild`, `ReadLeaf`). Writes under a lock are one action per node, since
every unlocked reader of the node is already torn, and a locked one excluded.

`Builder` runs `Build` through the same `insert`, as
`MultiThreadedBTreeIndex::Build` does, before the threads start.

Left out: `scan` (`MultiThreadedBTreeIndex::Scan` returns 0 without calling
it), `yield` (no effect on the state), node memory (nothing is freed while the
tree is in use).

### 2.3 StaticVersions

One static index object is a record; each operator is what one call does to
it. `layout[p]` is the version that the page range and the model of partition
`p` describe, `fd[t]` the version of the file thread `t` has open: a lookup
makes sense only when the two agree. `CopyOf` is the assignment operator, which
opens every descriptor on the latest file and starts the counters afresh.

### 2.4 HybridMT

`hy` holds the atomics of the class, `dyn` and `sta` every dynamic and static
index created so far (pointers are positions in them), `files` the contents of
each data file by version and partition, `th` the threads. `pc` is named after
the step, `ret` is where the call in progress (`AssignedToMerge` or
`UpdateVersion`) returns to. Actions are grouped as in the source:
`AssignedToMerge`, `UpdateVersion`, `Find`, `Merge`, `Insert`.

Abstractions, and why they are harmless:

* an index is the set of its keys; the workloads insert new keys, as the
  harness does. What the files hold, record by record, is in `PartitionMerge`;
* the dynamic index is a set with atomic insert and lookup: that is what
  `BTreeOLC` implements (`ImplementsMap`);
* the ratio test is made on the number of keys on disk and in memory. In the two
  spins an insert makes while a merge is under way, the sizes are read before the call of
  a turn and tested after it, as in the code (`StillReached`);
* `Build` leaves a sample of its data in the dynamic index (`Sampled`) and stores the
  others (`Stored0`); which keys are taken (`hybrid_index.h:74`) is left to the instance;
* `MergeSubData` is one action from the read of the partition to the models that are
  trained on the result: nobody reads its results before it is counted. The steps of
  the merge itself are in `PartitionMerge`
* a few loads in a row are one action when no property depends on what happens
  between them; each is marked in the module;
* a lookup with a range of another version answers anything (`OnDisk`);
* shared pointers keep an object alive for whoever holds it: objects are never
  reused. A null pointer that is used is a place of its own
  (`nullDereference`), where the thread stops;
* the failing branch of the swap from PrepareToMerge to MergingMode is not
  there: only the thread that set PrepareToMerge leaves it.

Spins are guards. A spin gives up after 100 million turns (`GiveUp`), for the
spins in the constant `Timeouts` only: the other timeouts abandon a condition
on purpose and would make every property about it false for a reason that has
nothing to do with the protocol.

### 2.5 PageFile

A vector is a function on `0 .. n - 1`, a file a function on the slots that were
ever written. Files are transferred in whole pages: what a page holds behind the
last record is `Junk`, a record with a key below all others, because the buffer
of a transfer holds whatever it held before. `GetFetchRange` and `LowerBound`
(the result of `LastMileSearch`) are those of `util_search.h`; chunks of 500000
pages are one transfer.

`SearchBound` is all that is kept of the learned models: the ranges that
`GetSearchBound` of `di_v4.h:162-174` may answer when the predicted rank is off by
at most `error_`, with its cases for keys outside those trained on and its cuts
at both ends. Any of these ranges may be the answer. `Interleave` is the merge of
two sorted vectors as a function of positions: it is what `StaticIndex::MergeData`
computes, and the reference that the merge in place is held against.

### 2.6 PartitionMerge

`current` and `backup` are two versions of the static index with their files,
`dynamic` the collected records, `ranges` what `PartitionData` computed for each
partition, `task` the merge of each. A merge is `Collect`, `PartitionData`, the
tasks (`ReadStatic`, one `TakeDynamic`, `TakeStatic` or `TakeRest` for each turn of
`MergeTwoSortedArray`, `Store`) in any interleaving, and `Publish`, which stands for
the announcement of the version and the swap of the index together. Who does which
task, and what happens between announcement and swap, belongs to `HybridMT`; that a
partition is done once is what the task protocol there provides.

A record's value is the number of the merge that brought it, so that of two
records of a key the older one is known. `Find` is a function of the version in
use: the set of what it may answer with any range the models may give.

The keys handed to a merge are numbers from 1 up. In `partition` they are not
partition keys and not above the last one; `partition_beyond` shows what happens
above. Two of them are on disk already: such a key has two records after the merge, and
`InputsInOrder` is the order that the next one depends on: the collected keys ascend
strictly, and of two records of a key on disk the newer one is in front. The code's own
check of what is read demands more, that every key is above the one before
(`StaticKeysAscend`), and `partition_again` refutes it. `NoPartitionIsEmpty` is a condition of the code: `Init` reads the last
record of each partition.

### 2.7 HybridIndex

`dynamic` is the dynamic index as a map, `file`, `dataNumber`, `pageNumber`,
`lastPageId` and `trained` are the static one. An operation is one step, but that
of a search on disk: it reads the pages of a range (`LookUpOnDisk`), halves what is
left of them (`EndAtLast`, `Halve`) and ends where the operation goes on
(`FindOnDisk`, `UpdateOnDisk`, `UpdateFails`). Memory is counted in records, and so
is what the models take of the budget: a number of `ModelSizes` after each merge,
subtracted modulo `Word` as `size_t` is. `UpdateAssigns` is the difference that
matters between the two dynamic indexes: `Update` of the B+-tree fails on a key that
it lacks, that of PGM adds it.

`newest` is a history: the last value written for a key. An insert brings a key
that has no value, as the workloads do: the code takes any key, and of one that is on
disk a merge then keeps both records, which is the disagreement that `index_pgm` shows
of updates. `UpdateFails` ends with the result FALSE where the code ends with an
exception of the page read; the index is the same after either. `Delete` is modelled as it is, in memory
only; what it promises is written nowhere.

## 3. Runs

| run | instance | what it shows |
|---|---|---|
| `optlock` | 3 threads, word up to 11 (two critical sections on the leaf) | exclusion, snapshots, atomic upgrade, no version word for two states of the leaf; a lock that is held is released |
| `btree_deep` | 2 threads, one request each, a full inner root | the inner root splits under a lookup or another insert: search finds every key, room to insert, refinement of `KVMap`, operations return |
| `btree_wide` | 2 threads, two requests each, a tree of one leaf, word up to 18 | the root leaf and its halves split, upserts, restarts: chain sorted and counted, locks owned, no torn read used, refinement |
| `hybrid_three` | two writers and a reader, 2 partitions | competing starts of a merge, and a thread that has to be moved: the announced file is complete, flags settle, a range always meets its file, no file in use is removed, nothing is left over, the disk only grows |
| `hybrid_idle` | writer and an idle thread, two merges, the timeout of `awaitSwapped` on | no key is ever out of reach, the writer finds what it inserted at each stage, the idle thread is moved, requests return and merges end |
| `index` | 7 keys, four loaded, up to four writes, pages of two records | finds answer the newest value, one record for each key, searches stay inside and end at the lower bound, memory is bounded, operations return |
| `partition` | 3 partitions, two merges of any of 5 keys, pages of two records | no record dropped, every partition the merge of its inputs, merged in place, inputs in a strict order again and again, finds answer the newest record |
| `hybrid_writers`, `hybrid_find`, `index_pgm`, `partition_beyond`, `partition_again` | as named | five disagreements, below |

### 3.1 Bounds

*Tree.* Leaves of two records and inner nodes with room for four keys are the
smallest on which both kinds of split happen and leave legal halves; seven keys
fill an inner root. `MaxOps` bounds requests, `MaxWord` the version of a node:
two inserts can make each other restart without end, because an attempt that
fails after taking the parent's lock releases it with a new version
(`BTreeOLC.h:402-407`). Beyond the bound no lock is taken; it is high enough
for every request to complete after several restarts of it. For the same
reason `OperationsReturn` excuses a thread once a node has been locked up to the
bound (`VersionsUsedUp`), and never before: each restart of the endless kind takes
another version, whereas a lock that is left behind stops the others at once.

*Lock.* Two critical sections are what it takes for a version to be stale and for a
word to come back; three threads, for a reader to meet both writers.

*Hybrid.* Two or three threads, one or two partitions, a sample of one key and a ratio
of two: the first insert starts a merge, what comes next happens during or after it,
and one key in the new dynamic index is enough for an insert to spin and help.
`hybrid_three` goes through one merge with every interleaving of it: the third
thread makes "all but one" differ from "one", and two threads compete for each
step while a third has yet to move. `hybrid_idle` goes through two merges. There
are no counters to bound.

*Pages.* A page of two records is the smallest that can be full, half full or
followed by another; an error of one makes ranges begin and end on either side of
a page boundary. Four writes (`MaxWrites`) with samples of one record are enough
for a merge, a write after it and a second merge; in `partition`, two merges
(`MaxRounds`) are enough for one to read what the other wrote, and three partitions
for one that has a neighbour on both sides.

Deadlock is checked in `index` and `index_pgm`, where an operation is always
possible. It is not checked in the others: the workloads and the merges are
finite, threads stop at the bounds of the version words, and a thread at
`nullDereference` stops.

### 3.2 Fairness

`optlock` and `btree_deep` assume that a thread inside an operation is
scheduled (weak fairness of its steps): benchmark threads are operating system
threads that never block in the tree. Nothing obliges them to start.
`hybrid_idle` assumes that each thread runs its workload to the end, as the
harness does, and strong fairness of `GiveUp`: a spin is left and entered on
every turn, and its turn counter is what makes it end. `index` assumes that the
steps of a search under way are taken: there is one thread, and it is in it.

### 3.3 Disagreements between the code and what it states

1. `hybrid_writers`: the last insert to leave raises `ready_to_merge_` after
   another one has lowered it and before that one is counted
   (`hybrid_index.h:387-388, 685-689`): the merge collects the records of an
   index that an insert is still going to change, and that key is lost.
2. `hybrid_find`: a find between the change to MergedMode and the announcement
   of the version (`hybrid_index.h:574-576`) skips the merging index and reads
   the old file: it misses a key that was inserted before.
3. `index_pgm`: with PGM in memory an update never reaches the record on disk
   (`dynamic/pgm.h:64`); the merge keeps both records of the key, and a find
   answers the older one.
4. `partition_beyond`: the records at or above the largest key of Build are in the
   range of no partition (`static_base.h:727-730`); the merge drops them.
5. `partition_again`: `MergeTwoSortedArray` keeps both records of a key that is on
   disk already (`static_base.h:769-773`), and the next merge reads both. The check in
   `GetSubData` calls that wrong (`data[i].first <= data[i - 1].first`,
   `static_base.h:753`); the check of the merge itself (`:783`) has `<` and lets it
   pass. Finds are right all the same: the newest record is in front (`InputsInOrder`,
   `FindsNewest` in `partition`, which hands over such keys). The two checks disagree
   about what a file may hold; the benchmark inserts new keys only.

Three of the refuted properties are also checked where their case cannot arise:
`FindsInserted` with one active thread in `hybrid_idle`, `EveryRecordStored` with
keys in range in `partition`, and `FindsNewest` with the B+-tree in `index`. So the
runs also say how far the code is right.

Three more weaknesses were met and are listed among the hazards, without a run
of their own: the tasks of a merge are on offer before the count of the version is
reset (`static_base.h:619-626`), so that a quick helper is counted in the old
round; `Find` loads the backup again after `UpdateVersion`
(`hybrid_index.h:199`) and may get that of the next merge; `size()` of the tree
counts upserts as records (`BTreeOLC.h:410`), and `dynamic/btree.h:72` sizes the
merged vector by it.

## 4. Proofs

Eight modules of proofs, for every value of the constants.

| theorem | states |
|---|---|
| `OptLockProofs!TypeCorrect` | `Spec => []TypeOK`: types, and no node is ever obsolete |
| `OptLockProofs!Exclusion` | `Spec => []MutualExclusion` |
| `OptLockProofs!SnapshotReads` | `Spec => []ValidatedReadIsASnapshot` |
| `OptLockProofs!UpgradeIsAtomic` | `Spec => []UpgradeKeepsWhatWasRead` |
| `OptLockProofs!WordsIdentifyContents` | `Spec => VersionsAreNotReused` |
| `BTreeOLCProofs!TornReadsAreCaught` | `Spec => []NothingTornIsUsed` |
| `BTreeOLCProofs!InsertsHaveRoom` | `Spec => []RoomToInsert` |
| `BTreeOLCProofs!LocksAreOwned` | `Spec => []LocksHaveOneOwner` |
| `BTreeOLCProofs!WritesAreOwned` | `Spec => [][OnlyOwnersWrite]_vars` |
| `BTreeOLCMapProofs!TreeIsAMap` | `Spec => ImplementsMap`: the tree refines `KVMap` |
| `BTreeOLCMapProofs!TypesAreKept` | `Spec => []TypeOK` |
| `BTreeOLCWalkProofs!SearchFindsAll` | `Spec => []SearchFindsEveryKey` |
| `BTreeOLCWalkProofs!ChainStaysSorted` | `Spec => []LeafChainIsSorted` |
| `BTreeOLCWalkProofs!SizeCovers` | `Spec => []SizeCoversRecords` |
| `HybridMTProofs!FlagsComeBack` | `Spec => []QuietMeansReady` |
| `HybridMTProofs!CountersStayExact` | `Spec => []CountersAreExact` |
| `HybridMTProofs!OneThreadStartsTheMerge` | `Spec => []OneStarter` |
| `HybridMTProofs!TypesAreKept` | (1): `[]TypeOK` |
| `HybridMTProofs!SearchReadsItsRange` | (1): `[]RangeFitsFile` |
| `HybridMTProofs!MergeLeavesNothing` | (1): `[]SettledBetweenMerges` |
| `HybridMTProofs!NewFileIsComplete` | (1): `[]AnnouncedFileIsComplete` |
| `HybridMTProofs!OpenedFilesExist` | (1): `[]FilesInUseExist` |
| `HybridMTProofs!DiskKeepsItsKeys` | (1): `DiskOnlyGrows` |
| `HybridMTProofs!NoKeyIsLost` | (2): `[]NothingLost` |
| `HybridMTProofs!CollectionIsWhole` | (2): `[]CollectedIsWhole` |
| `HybridMTProofs!FindsAnswer` | (3): `[]FindsInserted` |
| `PartitionMergeProofs!FindsTheNewest` | `KeysBelowLast`, `NoKeyIsAnEnd`: `Spec => []FindsNewest` |
| `PartitionMergeProofs!EveryRecordIsStored` | `KeysBelowLast`: `Spec => []EveryRecordStored` |
| `PartitionMergeProofs!StoredRecordsAreTheMerge` | `Spec => []StoredIsMerge` |
| `PartitionMergeProofs!InputsAreSorted` | `Spec => []InputsInOrder` |
| `PartitionMergeProofs!MergeIsInPlace` | `Spec => []MergedInPlace` |
| `PartitionMergeProofs!MergeStaysInside` | `Spec => []InsideVector` |
| `PartitionMergeProofs!MergeStoresInOrder` | `Spec => [][StoresInOrder]_vars` |
| `PartitionMergeProofs!TypesAreKept` | `Spec => []TypeOK` |
| `HybridIndexProofs!FindsTheNewest` | `~UpdateAssigns`: `Spec => []FindsNewest` |
| `HybridIndexProofs!OneRecordOfAKey` | `~UpdateAssigns`: `Spec => []EachKeyOnce` |
| `HybridIndexProofs!SearchIsInside` | `~UpdateAssigns`: `Spec => []SearchStaysInside` |
| `HybridIndexProofs!SearchIsCorrect` | `Spec => []SearchFindsLowerBound` |
| `HybridIndexProofs!SearchShrinks` | `Spec => [][Shrinks]_vars` |
| `HybridIndexProofs!MergeMakesRoom` | `Spec => []DynamicIsBounded` |
| `HybridIndexProofs!TypesAreKept` | `Spec => []TypeOK` |

(1) is `Spec /\ []NoneLeftOver /\ []OneMover =>`, (2) has `/\ []NoLateInsert` as well:
see 4.6. (3) has `/\ []NoEarlySearch` besides: see 4.7.

### 4.1 The lock of a node

For every set of threads, every `MaxWord` and any number of critical sections.
None of the five is inductive. They follow from one invariant, `IInv`:

* `LockInv`: the word is 4k when free and 4k+2 when held, it is held exactly
  while some thread is in its critical section, that thread is the only one and
  its `version` is the word it installed;
* `PublishedInv`: no word beyond the present one was published, and while the word is
  free the leaf is what was published with it. So an unlock publishes a new word, and
  `published` only grows (`WordsIdentifyContents`);
* `ReaderInv`: a reader's version is free, published and at most the word; *as long as
  the word equals it*, what the reader has read is what was published with it.

The last clause is the argument of optimistic locking: the word never
decreases, so a word that is equal again has been equal all along, and every
write happens under a held word, which differs from every version a reader may
hold. The order of the writes in a critical section plays no part in it. `WordArithmetic` is the only place where the bits are looked at;
`NextIInv` takes one action at a time and one conjunct at a time. The only
assumption on the constants, `MaxWordAssumption`, is not used: the bound only
restricts the upgrade.

### 4.2 The tree under its locks

For any number of threads, any requests and any number of them, any keys and any
capacity of the nodes that the asserts allow. Locks and reads depend on each other:
that a lock has one owner supposes that the pointer that is locked leads to a node,
that a pointer that was read without a lock does supposes that nobody but the owner
of a lock writes. The induction is over both invariants at once (`BothHold`).

`IInv` is about the locks:

* `TreeOK` and `ThreadOK`: the nodes are nodes with a word, the versions that a
  thread has taken are those of free nodes, its path leads over nodes, and where it
  has locked two they are two;
* `LockOK`: a node is locked if and only if some thread is at a place that holds
  it, and one thread is.

`RInv` is about what was read without a lock:

* `ContentsOK`: an inner node has one child more than keys, a leaf a value to each
  key, neither more keys than fit;
* `Knows`: a version that a thread has taken is at most the word of the node, and
  *as long as it equals the word* the answer of the test for room, the pointer to
  the child and the value that were read are right; under the lock they are right
  unconditionally. The parent of an insert was not full when it was passed.

The argument is the one of 4.1 on many nodes: every step that changes a node either
moves its word forward or is made by its owner, under a word that no reader can have
taken (`NodeStep`, `VersionTells`, `LockKeepsOthersOut`). So what another thread
knows stands after any step (`KnowledgeStands`), and one lemma per action shows that
the thread that moves knows what it has to at its next place. The lemmas on
`LeafSplit`, `InnerSplit`, `LeafInsert` and `InnerInsert` say that they keep
`ContentOK`; that the halves of a full node are nodes needs two records in a leaf
and four keys in an inner node (`CapacityAssumption`). `RequestAssumption` is that
the requests are inserts and lookups of `Keys`, `NullAssumption` and
`TornAssumption` that null is no node and a torn value no value. `MaxWord` only
restricts the upgrade; that the word of the code has 62 bits to count in is taken
for granted.

### 4.3 The tree is a map

For the same constants, and for any number of splits under way at once. That a
search finds what was stored is, as the run states it (`SearchFindsEveryKey`), a
claim about a function that recurs down the tree (4.4). That the tree is a map needs
no recursion. The proof carries two functions of the keys along with the state
(`MInv == \E c, s : Mapped(c, s)`), which the code does not have:

* `c[n]`, the keys that belong in node `n` or below it;
* `s[n]`, the keys that its parent sends to `n`; the root is sent them all.

At rest the two agree. Between `SplitNode` and the step that links the new half into
the parent they do not: the old half is still sent what only the new half holds.
`Mapped` says how they relate:

* `NodeCovers`: the keys of a node are sorted and belong there, and `c[n] = s[n]` unless
  a thread is between the split of `n` and the link;
* `LeavesApart`: no key belongs in two leaves;
* `Routes`: a child is sent those keys of its parent that the binary search sends
  there; `OneParent`: a node has one parent, and the root none;
* `Halved`: at such a split the two halves share `s[n]` at the separator, and the new
  half has no parent; `HalvesApart`: no half is linked by two threads;
* `Seeks`: *as long as the version that a thread took of the parent is its word*, the
  key it looks for belongs below the parent, and its node is the child for the key; and
  where the parent has been checked, the key belongs in the node as long as the
  version of the node is its word.

The last clause is why the tree may be read without locks: the only steps that take a
key away from a node are those of a split, they happen under the lock of the node
and of its parent, and both words have moved when they are over. So a parent whose
version has not changed vouches for the key, and that is just what the code checks
at each level (`ParentVouches`). One lemma per step shows that the two functions can
be given new values: unchanged for all steps but three (`SplitSeeks`, `LinkSeeks`,
`MakeRootSeeks`).

The refinement maps the contents of the leaves to the map of `KVMap`. An insert takes
effect at `InsertIntoLeaf`, where the leaf covers the key, so that no other leaf has
it (`InsertRecords`); a lookup at `LookupLeaf`, whose answer is that of the map if the
version stands, and is dropped otherwise (`AnswerIsMap`). A split, a link and a new
root move records and lose none (`SplitRecords`, `LinkRecords`); every other step is a
stutter (`LocksOnlyReword`). `NextIsMapStep` puts them together.

### 4.4 Walks over the tree

Two walks are functions that recur over the nodes: the search for a key
(`SearchPath`, of `lookup`) and the collection of the records along the leaves
(`ChainFrom`, of `MergeData`). TLC evaluates them; in a proof not even that such
a function exists is for granted. Both questions have one answer, a rank that goes
down at every step: `WalkIsDefined` builds the function rank by rank, and says that
it unfolds as its definition does. `Induction` is what it takes: a set of numbers has
a least one, which the library knows, so no theorem with a predicate for a parameter
is needed.

* *The search.* The rank is a height. `LevelsInv` says that heights can be given in which
  every node is above its children, and a half that waits for its parent is as high
  as the node it was split from. A split copies the height (`SplitLevels`), a link
  keeps it (`LinkLevels`), and a new root goes on top (`RootLevels`), at the bound
  of all others. `PathsEnd` then follows the search down: with `Mapped` of 4.3
  each child is sent the key until the leaf is met that has it, or a node that is
  locked.
* *The leaf chain.* `ChainInv` adds to `Mapped` the leaves in their order: `ch[1]`,
  `ch[2]` and so on, from the first one along `next`, each leaf once, and the keys of
  one leaf below those of the next. `SplitNode` puts the new half behind its node, where
  `Halved` says that its keys belong (`SplitChain`): the chain is complete from that
  step on, long before the parent knows of the half. The other steps change neither
  leaf keys out of place nor `next`. The rank of a leaf is the number of places that
  remain; `ChainIsWalked` finds the sequence of the walk, and the records strung
  along it are in ascending order because each leaf is (`StringSorted`), no key
  twice, and all that is stored (`KeysAlongChain`).
* *The count.* `CountInv`: the keys stored are no more than the inserts that were
  counted. An insert stores one key and counts one; an upsert counts and stores
  none; a split stores none. With the chain this bounds the length of the vector
  that a merge fills, which is sized by that count (`SizeCovers`).

### 4.5 The mode protocol

For any finite number of threads, any partitions, requests, ratio, and any set of
spins that give up, over any number of merges. `QuietMeansReady` cannot be proved
by itself: that a flag is set by the last one to leave depends on the counter
being exact, and that on every path through an operation counting as much out as
in, the one that starts over because the mode has changed included. `IInv` has
four parts:

* `Shape`: the types that the steps rely on, and what the return and next-step
  places of a thread may be;
* `DynPart`: `ops_on_dynamic_` is the number of the threads between its increment
  and its decrement, and if `ready_to_merge_` is false some thread is among them,
  about to enter, or about to set it;
* `MrgPart`: the same of `ops_on_merge_dynamic_` and `ready_to_normal_`;
* `OneStarter`: the mode is PrepareToMerge exactly while one thread is between the
  two swaps of `Insert`.

The places of the program are sorted by which part they touch. The lemma
`ElsewhereKeeps` disposes of every step between places that touch none (the tasks,
the versions, most of a find), and one lemma remains for each step that counts,
sets a flag or starts a merge. The theorems need the assumptions
`StaticAssumption` (the sets of threads and of partitions are finite, and numbered)
and `WorkloadAssumption` (what the threads are asked are finds and inserts of keys,
each key has a partition, and what Build stores are keys).

### 4.6 Merge after merge

The properties of a whole merge do not hold of every behaviour, because the code
has races that break them from one merge to the next (3.3). Each of these three is
named by a state predicate, and the theorems are about the behaviours that meet
none of them:

* `NoneLeftOver`: when the mode goes from PrepareToMerge to MergingMode no thread is
  still at a task of the last merge, on the move to its version, or between the two
  loads of the backup in `Find`. The code does not wait for such a thread
  (`hybrid_index.h:196-203, 572-576`);
* `OneMover`: no two threads open the new file for the same thread.
  `UpdateAllVersion` moves a thread that looks idle and may start an operation at
  that moment (`hybrid_index.h:692`);
* `NoLateInsert`: an insert puts its key in the dynamic index of the moment, and not
  in one that was replaced since it was loaded (disagreement 1 of 3.3).

So the theorems say two things: the protocol is right without these races, for any
number of threads, partitions and merges; and a behaviour that violates one of these
properties has met one of the three before. The assumptions are not empty: every
state of `hybrid_idle`, which goes through two merges, satisfies all three of them,
and every state of `hybrid_three` the first two. Nothing is assumed of the tasks
that are on offer before the count is reset (`static_base.h:619-626`): with that race
a merge may never end, but what is stated here holds.

The invariant `VInv` describes the merge under way by its number, `Round`, which is
the number of static indexes made so far: the merge makes the file of version
`Round`, and works on the object `New`. Its parts are:

* `Pointers`, `FilesOK`, `StaticOK`: the static index in use is version `Round` or the
  one before, it is settled (every thread has its file open, every range is that of
  the file), the backup is null or `New`, and only files of older versions are
  removed;
* `NewOK`, `TasksOK`: each thread and each partition is at `Round - 1` or `Round`; the
  tasks given out are those finished and those that some thread holds, no two
  threads hold the same one, and a partition that was given out is either with the
  thread about to store it or complete in the new file;
* `CountOK`: `consistent_version_cnt_` is the number of the threads that moved and
  are counted; or, after the late reset, more than that by the number of all
  threads, and then never again the number that ends the merge. Either way the swap
  happens only when everyone has moved;
* `ModeOK`, `OneOfEach`: what each mode says of all this, and that one thread at a
  time prepares a merge, announces a version, or is the winner of the swap;
* `PlacesOK`: what a thread knows at each place: the partition it took is not stored
  by another, the object it loaded is `New`, the file it is about to remove is the old
  one.

The invariant was first checked by TLC on behaviours of several merges with two and
three threads, with all the spins that give up; then each action was shown to keep
it (the lemmas named after the actions, `...Keeps`). The steps are treated by kind:
one that changes nothing but its thread (`AloneKeeps`, `PlainKeeps`), one that works
on the object `New` (`WorkerKeeps`), one of the thread that prepares a merge
(`OpeningKeeps`, `SetupKeeps`), and by itself each step that changes the mode, the
static index or the backup.

`NoKeyIsLost` needs `LInv` besides: from the copy of the static index until the swap
the collected records are those of the merging index, and from the swap until the
merging index is dropped its records are in the file in use. `DiskKeepsItsKeys`
follows from `VInv` step by step: only `MergeSubData` writes a file, which is not the
one in use, and only the swap changes which one is.

### 4.7 What a find answers

`FindsInserted` does not follow from `NothingLost`: that a key is somewhere at every
moment does not mean that a find, which looks at three places one after the other
while keys move between them, meets it. And disagreement 2 of 3.3 is a find that does
not. It is the fourth race with a name: `NoEarlySearch`, no find tests its backup
version in MergedMode while another thread has yet to announce that version
(`hybrid_index.h:574-576`). The theorem `FindsAnswer` says that in a behaviour that meets
neither this race nor the three of 4.6, every find whose key was inserted before it
started answers it.

`SInv` says what a find is owed, place by place (`Owed`): its key is

* *below* the dynamic index, once that was searched without success: on disk, or in
  the merging index (`Below`);
* *reached*, once the find goes past the merging index, or did not meet the key there:
  in the file in use, or in MergedMode in the new file that is not yet in use
  (`Reached`);
* in the merging index that the find has loaded and is about to search, or reached;
* in the very file that the find is going to read, once it has chosen one.

A find is also owed its key on the way to the new version, at any of the places of
`UpdateVersion` that lead back to it (`MovesToFind`).

What makes it an invariant is that keys move one way. `BelowStays` and `ReachedStays`
take the steps that move them: in MergedMode what the merging index has is in the new
file (`MergedReaches`), once announced that file has all that is reached
(`ReachedInBackup`), the swap puts it in use, and the merging index is dropped after
that. Steps of other threads disturb nothing (`OthersOwed`), steps of the thread outside
the search owe it nothing new (`OutsideOwed`), and `FindOwed` takes those of the search
one by one,
down to the two that read the disk: the range is that of the file
(`SearchReadsItsRange`), and the partition of the key is the one that has it
(`InPlace`). The step that needs `NoEarlySearch` is `MergedBackup`, where the test of the
version must say that there is a newer file whenever the old one does not do.

TLC checked `SInv` first, on the instances of `hybrid_find`, of two writers on two
partitions and of `hybrid_three`, restricted to the states that satisfy the four
predicates; without `NoEarlySearch` it is violated. As in 4.6 the hypotheses are not
empty: all states of `hybrid_idle` satisfy all four.

### 4.8 The merge of a partition

For any number of partitions, records and merges, any page size, and every
interleaving of the tasks. The proof goes from the inside out:

* *A turn.* `Kept` says what a turn of the merge in place keeps. `RoomIsExact`: the number of
  free slots is that of the records left in both inputs. It is why a static record is
  never overwritten before it is read, why the write stays inside the vector, and why
  the static records that remain at the end need not be moved (`MergeStaysInside`).
* *A merge.* Every record has a place in the result that does not depend on the turns:
  its index in its own vector and the number of records of the other one that go
  before it. `Placed` says that what was written is in its place; at the end all places
  are taken, and the vector is `Interleave` of the two (`MergeIsDone`).
* *A partition.* `PartOK`: its records are stored, sorted, from the first of its pages
  to the last, and its models are trained on their keys. `Put` makes it so
  (`PutHolds`) and leaves every partition alone whose pages are others (`PutSpares`).
* *A file.* `Init` puts partition behind partition (`BuiltHasParts`), `PartitionData`
  computes where each partition of the new file begins, with room for its merge
  (`RangeTable`); so a task writes no page of another one, whichever comes first.

`MInv` holds this together: the version in use is a good one, the copy is that of
the version in use until the tasks are on offer, every task that is under way has read
its partition, every task that is over has stored the merge. A merge moves no
partition key, since it adds no record behind the last one of a partition; the keys
that divide the records are for ever those of `Init` (`Ends`). What the tasks are given
is sorted because what was stored before is: that circle is closed in `MInv`, with no
hypothesis on the inputs. `InputsAreSorted` is stricter. `Aged` says of every version
that the records of one key are in it with the newest first (`Descends`), and that no
record is newer than the merges so far (`NotAfter`); a merge keeps it, because its
records are newer than all on disk and a turn with equal keys puts them in front.

`EveryRecordIsStored` counts. `AllCounted` says that the records of the version in use
and those collected are all that were ever handed over; at `Publish` the ranges of the
partitions are shown to follow one another without a gap from the first record
collected to the last. The last range ends at the last key loaded, hence the hypothesis
`KeysBelowLast`, that every key inserted is below it: without it records are lost, and
`partition_beyond` shows it.

`FindsTheNewest` rests on three facts about the version in use, together `Answers`,
which only `Publish` can disturb. The keys of a partition lie between its own end and
the one before, and its end is there once (`Divides`); the first record of a key is its
newest (`NewestFirst`), because a turn takes the record of the dynamic index when the
keys are equal; every key that was handed over has a record (`HasAll`). That they
outlive a merge is shown by following each record of either vector to its place in the
merged one (`ArePlaces`): equal keys keep the order in which the turns took them. A find
then goes to the partition of its key (`PartitionOf`), the range that the models answer
holds the first record of the key (`RangeHoldsTheFirst`, which needs only that the last
key of the partition is there once), the pages of the range are read as they were
stored (`PagesOfFind`), and the search ends at the first record (`FindsTheFirst`).
`NoKeyIsAnEnd` is needed: a record whose key ends a partition is merged into the
partition behind it, where no find looks for that key (`static_base.h:638` and `:723`).
Both hypotheses hold of the keys of the run `partition`, which inserts keys before,
between and upon those on disk; the benchmark inserts new keys only.

`Built`, `PartitionRanges` and `Sizes` are recursive functions. That such a function
exists, and what it is at the end, follows by counting up to it (`CountingUp`,
`RunningSum` and `BuildExists`): induction over numbers needs no theorem with an
operator for a parameter when the numbers that it holds for are written as a set.

### 4.9 The single-threaded hybrid

`PageFileProofs` says what the operators do that are written with `Cardinality`,
`CHOOSE`, `\div` and `%`. The pages of *n* records hold them and none is empty
(`PagesHold`); what is written to pages is what is read from them, and their other
slots keep a record of theirs or hold what was left over (`WrittenIsRead`,
`WrittenSlots`); the ranks of *n* keys are all of `0 .. n - 1` (`RanksAreAll`), so that
"the key of rank *i*" is one key. `InterleaveMerges`: two sorted vectors become one in
which every slot has one record of either, in order, and each record has a slot; that
no place is free is a matter of counting (`PlacesAreApart`, `ImageIsCounted`).
`RangeHoldsTheFirst`: a range that a model may answer is within the keys it was trained
on, and has the first of a key in it if the last one is there once;
`RangeHoldsTheKey` is the case of distinct keys. This is where the contract of
the learned models, a rank predicted with an error of `Error` at most, is used.

The invariant `Inv` of `HybridIndexProofs` is in two parts that need one another.
`LoopInv` is about the loop of the search: its range is within what was read
(`Seeking`), and every record before `s` is below the key, every one from `e` on is
not, unless all are below and the search is at the last record (`Bracketed`). `IInv`
is about the data:

* `DiskOK`: the file has a record, `data_number_`, `page_number_` and `last_page_id_`
  agree, its records are sorted and the models were trained on their keys;
* `MemoryOK`: the dynamic index is a map of keys, and its budget a `size_t`;
* `SearchOK`: what a search was given is a part of the stored records, at the place
  that its page number says;
* `OneRecord`, if an update never adds a key: a key is in memory or has one record on
  disk and not both, with the value last written for it. That is what makes a merge
  keep the keys distinct, hence the ranges right, hence a find exact;
* `SearchIsFor`, under the same condition: a search is for a key that is not in memory
  and whose record, if there is one, is among what was read.

`PagesOfRange` carries the argument about the last page: the number of records that
count in it, `lastPageId`, is that of the file exactly for the range that ends in it.
`MergedOnce` is the merge: what leaves memory and what is on disk have no key in
common. `SampleIsPart` shows that `Build` never keeps all records in memory, so that
the file is not empty, and `SampleIsSmall` that `DynamicIndex::Merge` keeps less than
twice as many as it is asked to: every `size / n`-th record.

The hypothesis of the first three theorems is the B+-tree in memory
(`UpdateAssigns = FALSE`); with PGM they do not hold, and `index_pgm` shows it. The
constants are assumed to be what the types in the code make them: the keys a finite
set of positive numbers, the budget and the sizes of the models below the modulus of
`size_t`, and some value there. `SearchShrinks` makes the termination that the run
checks as `OperationsReturn` independent of the width of a range.

### 4.10 Only model-checked

All liveness stays with TLC, since fairness and `ENABLED` are out of the prover's
reach: that a held lock is released, that operations of the tree and of both indexes
return, that merges end. Every invariant and every action property of a passing run
is a theorem; those of the multi-threaded hybrid under the predicates that name its
races, which the runs show to be needed where a run refutes the property
(`hybrid_writers`, `hybrid_find`). What these races lead to is for TLC alone to say.

## 5. Not modelled

Of the implementation lines in the repository most are vendored libraries under
`src/libraries` and copies of PGM, sdsl, ALEX and STX trees beside the indexes:
generated bit packing, succinct structures and third-party indexes. The code of the
repository itself is some thousands of lines, and what decides about its
correctness, rather than about its speed, is the part modelled here.

* *Scans.* `HybridIndex::Scan` changes no state and answers a sum that nothing
  compares; `MultiThreadedBTreeIndex::Scan` returns 0. The page scan of
  `FetchPages` has weaknesses of its own, listed among the hazards.
* *Prediction.* The segments of the compressed index, their construction and the
  floating-point prediction are represented by their contract (`SearchBound`). The
  other learned indexes on disk are read-only, and differ in just that part.
* *Other combinations.* ALEX in memory, and PGM, radix spline or LeCo on disk under
  the single-threaded hybrid repeat the operations that are modelled over another
  model; `leco-page.h` of the multi-threaded hybrid repeats the version protocol.
* *Stubs.* `Scan`, `Update` and `Delete` of the multi-threaded hybrid are marked TODO
  in the source.
* *FILM*, the harness and the experiments: adapted third-party code, and
  measurement.
* *Crashes.* Nothing is recovered after one: each run builds its files anew.

What would come next: several merges with several threads as a run of its own
(the closing of a merge by a thread left over from the one before,
`hybrid_index.h:572-576`; `UpdateAllVersion` against a thread that wakes up), the
timeouts that abandon a condition.
