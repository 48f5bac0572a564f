----------------------------- MODULE HybridIndex -----------------------------
(***************************************************************************)
(* The single-threaded hybrid index of src/indexes/hybrid: a dynamic index *)
(* in memory in front of a static one on disk.  New records go to memory.  *)
(* When the dynamic index outgrows what the models of the static index     *)
(* leave of the memory budget, all but a sample of it is merged into the   *)
(* file, and the models are trained again.                                 *)
(*                                                                         *)
(* Memory is counted in records.  A lookup on disk steps through the       *)
(* binary search of its pages; everything else of an operation is one      *)
(* step.                                                                   *)
(***************************************************************************)
EXTENDS PageFile, Functions

CONSTANTS
  Keys,
  Values,
  Missing,          \* no value is known
  Loaded,           \* the keys that Build is given
  InitSize,         \* INIT_SIZE
  MemoryBudget,     \* memory_budget_
  ModelSizes,       \* what the trained models may take of it
  Word,             \* size_t counts modulo this
  UpdateAssigns,    \* Update of the dynamic index adds a key it lacks (PGM)
  MaxWrites         \* bound: the number of inserts, updates and deletes

ASSUME KeysAssumption == Keys \subseteq Nat \ {0} /\ IsFiniteSet(Keys)
ASSUME ValuesAssumption == Values # {} /\ Missing \notin Values
ASSUME LoadedAssumption == Loaded \subseteq Keys
ASSUME InitSizeAssumption == InitSize \in Nat \ {0}
ASSUME BudgetAssumption ==
  /\ Word \in Nat \ {0} /\ MemoryBudget \in 0 .. Word - 1
  /\ ModelSizes \subseteq 0 .. Word - 1

VARIABLES
  dynamic,          \* dynamic_index_: the records in memory
  file,             \* the pages of the static index
  dataNumber,       \* data_number_
  pageNumber,       \* page_number_
  lastPageId,       \* last_page_id_: the records of the last page
  trained,          \* the keys the models of di_ were trained on
  dynamicBudget,    \* dynamic_budget_
  op,               \* the operation under way, or the answer of the last one
  search,           \* read_buf_ and the locals of LastMileSearch
  newest,           \* the last value written for every key (history)
  writes            \* inserts, updates and deletes so far (bound)

static == <<file, dataNumber, pageNumber, lastPageId, trained>>
vars == <<dynamic, static, dynamicBudget, op, search, newest, writes>>

Rank(key, keys) == Cardinality({k \in keys : k < key})

\* A map as the vector of its records in the order of their keys.
InOrder(map) ==
  [i \in 0 .. Size(map) - 1 |->
     LET k == CHOOSE k \in DOMAIN map : Rank(k, DOMAIN map) = i
     IN  [key |-> k, value |-> map[k]]]

\* Mutant: what is taken out stays.
WithoutNone(map, keys) == map

Without(map, keys) == Restrict(map, DOMAIN map \ keys)

GetTotalSize(map) == Size(map)

\* Mutant: 0 for a full page.
RemainderOf(n) == n % RecordPerPage

LastPageId(n) == RecordPerPage - (PagesFor(n) * RecordPerPage - n)

\* StaticCprDI::Build: the vector becomes part of the file, the models are
\* trained on the whole of it, and the memory they take is subtracted from
\* the budget.
BuildStatic(data, onFile, length) ==
  LET merged == Interleave(data, GetAllData(onFile, 0, length), FALSE)
      pages  == PagesFor(Size(merged))
  IN  [file       |-> DirectIOWrite(onFile, merged, pages, 0),
       dataNumber |-> Size(merged),
       pageNumber |-> pages,
       lastPageId |-> LastPageId(Size(merged)),
       trained    |-> [i \in DOMAIN merged |-> merged[i].key]]

\* DynamicIndex::Merge keeps every seg-th record.
SampleOf(map, num) ==
  {k \in DOMAIN map : Rank(k, DOMAIN map) % (Size(map) \div num) = 0}

\* HybridIndex::Build takes every seg-th record too, but InitSize at most, and
\* stops when the models leave no memory.
InitialSample ==
  LET seg == Cardinality(Loaded) \div InitSize
  IN  {k \in Loaded : /\ Rank(k, Loaded) % seg = 0
                      /\ Rank(k, Loaded) < seg * InitSize}

Idle(kind, key, answer) ==
  [at |-> "idle", kind |-> kind, key |-> key, value |-> Missing, answer |-> answer]

NoSearch == [pid |-> 0, n |-> 0, buf |-> <<>>, s |-> 0, e |-> 0]

Init ==
  /\ Cardinality(Loaded) > InitSize
  /\ LET value  == [k \in Loaded |-> CHOOSE v \in Values : TRUE]
         built  == BuildStatic(InOrder(Without(value, InitialSample)), <<>>, 0)
     IN  /\ dynamic = Restrict(value, InitialSample)
         /\ file = built.file
         /\ dataNumber = built.dataNumber
         /\ pageNumber = built.pageNumber
         /\ lastPageId = built.lastPageId
         /\ trained = built.trained
         /\ newest = [k \in Keys |-> IF k \in Loaded THEN value[k] ELSE Missing]
  /\ \E size \in ModelSizes : /\ size < MemoryBudget
                              /\ dynamicBudget = MemoryBudget - size
  /\ op = Idle("build", CHOOSE k \in Keys : TRUE, TRUE)
  /\ search = NoSearch
  /\ writes = 0

-----------------------------------------------------------------------------
(* Lookups on disk.                                                        *)

\* Mutant: the last page is searched like any other.
LastIdFull(range) == RecordPerPage

LastId(range) ==
  IF (range.end - 1) \div RecordPerPage = pageNumber - 1 THEN lastPageId
  ELSE RecordPerPage

\* LowerBound of the static index and FetchPages: the pages are read, and the
\* last one is searched as far as it has records.
Fetched(range) ==
  LET pages  == GetFetchRange(range, pageNumber)
      number == pages.end - pages.start + 1
      n      == RecordPerPage * (number - 1) + LastId(range)
  IN  [pid |-> pages.start, n |-> n, buf |-> DirectIORead(file, pages.start, number),
       s |-> 0, e |-> n]

LookUpOnDisk(kind, k, v) ==
  /\ op' = [at |-> "search", kind |-> kind, key |-> k, value |-> v, answer |-> Missing]
  /\ \E range \in SearchBound(trained, k) : search' = Fetched(range)

\* LastMileSearch: a key above all records ends at the last one, any other
\* halves s .. e until it is empty.
AboveAll == search.buf[search.n - 1].key < op.key

EndAtLast ==
  /\ op.at = "search"
  /\ search.s < search.e
  /\ AboveAll
  /\ search' = [search EXCEPT !.s = search.n - 1, !.e = search.n - 1]
  /\ UNCHANGED <<dynamic, static, dynamicBudget, op, newest, writes>>

\* Mutant: an equal key is passed over.
HalvePassing ==
  /\ op.at = "search"
  /\ search.s < search.e
  /\ ~AboveAll
  /\ LET mid == (search.s + search.e) \div 2
     IN  search' = IF search.buf[mid].key <= op.key
                   THEN [search EXCEPT !.s = mid + 1]
                   ELSE [search EXCEPT !.e = mid]
  /\ UNCHANGED <<dynamic, static, dynamicBudget, op, newest, writes>>

\* Mutant: the middle stays in the range.
HalveKeeping ==
  /\ op.at = "search"
  /\ search.s < search.e
  /\ ~AboveAll
  /\ LET mid == (search.s + search.e) \div 2
     IN  search' = IF search.buf[mid].key < op.key
                   THEN [search EXCEPT !.s = mid]
                   ELSE [search EXCEPT !.e = mid]
  /\ UNCHANGED <<dynamic, static, dynamicBudget, op, newest, writes>>

Halve ==
  /\ op.at = "search"
  /\ search.s < search.e
  /\ ~AboveAll
  /\ LET mid == (search.s + search.e) \div 2
     IN  search' = IF search.buf[mid].key < op.key
                   THEN [search EXCEPT !.s = mid + 1]
                   ELSE [search EXCEPT !.e = mid]
  /\ UNCHANGED <<dynamic, static, dynamicBudget, op, newest, writes>>

Landed(kind) == op.at = "search" /\ op.kind = kind /\ search.s = search.e

-----------------------------------------------------------------------------
(* Find.                                                                   *)

Find(k) ==
  /\ op.at = "idle"
  /\ IF k \in DOMAIN dynamic
     THEN /\ op' = Idle("find", k, dynamic[k])
          /\ UNCHANGED search
     ELSE LookUpOnDisk("find", k, Missing)
  /\ UNCHANGED <<dynamic, static, dynamicBudget, newest, writes>>

\* The value of the record the search ends at, whatever its key.
FindOnDisk ==
  /\ Landed("find")
  /\ op' = Idle("find", op.key, search.buf[search.s].value)
  /\ search' = NoSearch
  /\ UNCHANGED <<dynamic, static, dynamicBudget, newest, writes>>

-----------------------------------------------------------------------------
(* Insert.                                                                 *)

InsertInto(map, k, v) == [x \in DOMAIN map \cup {k} |-> IF x = k THEN v ELSE map[x]]

MayWrite == op.at = "idle" /\ writes < MaxWrites

Written(kind, k, v) ==
  /\ op' = Idle(kind, k, TRUE)
  /\ newest' = [newest EXCEPT ![k] = v]
  /\ writes' = writes + 1

\* Mutant: an insert that does not ask for the budget.
InsertAnyway(k, v) ==
  /\ MayWrite
  /\ dynamic' = InsertInto(dynamic, k, v)
  /\ Written("insert", k, v)
  /\ UNCHANGED <<static, dynamicBudget, search>>

InsertInMemory(k, v) ==
  /\ MayWrite
  /\ GetTotalSize(dynamic) <= dynamicBudget
  /\ dynamic' = InsertInto(dynamic, k, v)
  /\ Written("insert", k, v)
  /\ UNCHANGED <<static, dynamicBudget, search>>

\* The budget is what remains for the dynamic index; nobody compares again.
MergeAndInsert(k, v) ==
  /\ MayWrite
  /\ GetTotalSize(dynamic) > dynamicBudget
  /\ LET kept  == SampleOf(dynamic, InitSize)
         built == BuildStatic(InOrder(Without(dynamic, kept)), file, dataNumber)
     IN  /\ dynamic' = InsertInto(Restrict(dynamic, kept), k, v)
         /\ file' = built.file
         /\ dataNumber' = built.dataNumber
         /\ pageNumber' = built.pageNumber
         /\ lastPageId' = built.lastPageId
         /\ trained' = built.trained
  /\ \E size \in ModelSizes : dynamicBudget' = (MemoryBudget - size) % Word
  /\ Written("insert", k, v)
  /\ UNCHANGED search

-----------------------------------------------------------------------------
(* Update and Delete.                                                      *)

\* Mutant: an update that always goes to memory.
UpdateInMemory(k, v) ==
  /\ MayWrite
  /\ dynamic' = InsertInto(dynamic, k, v)
  /\ Written("update", k, v)
  /\ UNCHANGED <<static, dynamicBudget, search>>

Update(k, v) ==
  /\ MayWrite
  /\ IF UpdateAssigns \/ k \in DOMAIN dynamic
     THEN /\ dynamic' = InsertInto(dynamic, k, v)
          /\ Written("update", k, v)
          /\ UNCHANGED search
     ELSE /\ LookUpOnDisk("update", k, v)
          /\ UNCHANGED <<dynamic, newest, writes>>
  /\ UNCHANGED <<static, dynamicBudget>>

\* Update1Page on the record the search ended at.
UpdateOnDisk ==
  /\ Landed("update")
  /\ search.buf[search.s].key = op.key
  /\ file' = [file EXCEPT ![search.pid * RecordPerPage + search.s].value = op.value]
  /\ Written("update", op.key, op.value)
  /\ search' = NoSearch
  /\ UNCHANGED <<dynamic, dataNumber, pageNumber, lastPageId, trained, dynamicBudget>>

\* Of a key that is not there the result names descriptor 0 and page 0: the
\* read fails, and the update ends with an exception (the result FALSE); the index
\* is as it was.
UpdateFails ==
  /\ Landed("update")
  /\ search.buf[search.s].key # op.key
  /\ op' = Idle("update", op.key, FALSE)
  /\ search' = NoSearch
  /\ writes' = writes + 1
  /\ UNCHANGED <<dynamic, static, dynamicBudget, newest>>

\* Only the dynamic index deletes.
Delete(k) ==
  /\ MayWrite
  /\ dynamic' = Without(dynamic, {k})
  /\ Written("delete", k, IF k \in DOMAIN dynamic THEN Missing ELSE newest[k])
  /\ UNCHANGED <<static, dynamicBudget, search>>

-----------------------------------------------------------------------------
\* A workload inserts keys that the index does not have: the one restriction on
\* the requests, since a merge keeps both records of a key inserted again.
Insert(k, v) ==
  /\ newest[k] = Missing
  /\ InsertInMemory(k, v) \/ MergeAndInsert(k, v)

Search == EndAtLast \/ Halve \/ FindOnDisk \/ UpdateOnDisk \/ UpdateFails

Next ==
  \/ Search
  \/ \E k \in Keys : Find(k) \/ Delete(k)
  \/ \E k \in Keys, v \in Values : Insert(k, v) \/ Update(k, v)

Spec == Init /\ [][Next]_vars
FairSpec == Spec /\ WF_vars(Search)

-----------------------------------------------------------------------------
(* Properties.                                                             *)

Record == [key : Keys, value : Values]

TypeOK ==
  /\ dynamic \in UNION {[K -> Values] : K \in SUBSET Keys}
  /\ \A slot \in DOMAIN file : slot \in Nat /\ file[slot] \in Record \cup {Junk}
  /\ dataNumber \in Nat /\ pageNumber \in Nat /\ lastPageId \in 1 .. RecordPerPage
  /\ trained \in [0 .. dataNumber - 1 -> Keys]
  /\ dynamicBudget \in 0 .. Word - 1
  /\ op.at \in {"idle", "search"} /\ op.key \in Keys
  /\ newest \in [Keys -> Values \cup {Missing}]

Stored == GetAllData(file, 0, dataNumber)

(* A find answers the value last written for its key, by whichever of      *)
(* Insert and Update, in memory or on disk, before or after a merge.       *)
FindsNewest ==
  (op.at = "idle" /\ op.kind = "find" /\ newest[op.key] # Missing)
     => op.answer = newest[op.key]

(* A key has one record, in memory or on disk, so a merge never meets two, *)
(* and the file is sorted up to its last record.                           *)
EachKeyOnce ==
  /\ \A i \in DOMAIN Stored : Stored[i].key \notin DOMAIN dynamic
  /\ \A i, j \in DOMAIN Stored : i < j => Stored[i].key < Stored[j].key
  /\ \A k \in Keys : newest[k] # Missing =>
       k \in DOMAIN dynamic \/ \E i \in DOMAIN Stored : Stored[i].key = k

SortedTo(buf, n) ==
  /\ n \in Nat \ {0}
  /\ \A i \in 0 .. n - 1 : buf[i].key \in Int
  /\ \A i, j \in 0 .. n - 1 : i < j => buf[i].key <= buf[j].key

(* The search never looks at what is left over behind the records of the   *)
(* last page: what it is given is sorted, and has every record of its key. *)
SearchStaysInside ==
  op.at = "search" =>
    /\ SortedTo(search.buf, search.n)
    /\ search.pid * RecordPerPage + search.n <= dataNumber
    /\ \A i \in DOMAIN Stored : Stored[i].key = op.key =>
         i - search.pid * RecordPerPage \in 0 .. search.n - 1

(* The search ends at the first record that is not below the key, or at    *)
(* the last one if all are.                                                *)
SearchFindsLowerBound ==
  (op.at = "search" /\ search.s = search.e)
    => search.s = LowerBound(search.buf, search.n, op.key)

(* A merge makes room: after an insert the dynamic index is within its     *)
(* budget and one record, or as small as a sample of InitSize may be.      *)
DynamicIsBounded ==
  op.kind = "insert" =>
    \/ GetTotalSize(dynamic) <= dynamicBudget + 1
    \/ GetTotalSize(dynamic) <= 2 * InitSize

(* Every operation returns.                                                *)
OperationsReturn == []<>(op.at = "idle")
=============================================================================
