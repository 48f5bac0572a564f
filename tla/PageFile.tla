------------------------------- MODULE PageFile -------------------------------
(***************************************************************************)
(* The file of sorted records that the static indexes keep on disk, read   *)
(* and written in whole pages by src/ycsb_utils/util_search.h.             *)
(*                                                                         *)
(* A vector is a function on 0 .. n - 1.  A file is a function on the      *)
(* slots that were ever written, page p holding the slots from             *)
(* p * RecordPerPage on.  The chunks of 500000 pages in which a transfer   *)
(* is done follow one another and are one transfer here.                   *)
(***************************************************************************)
EXTENDS Integers, FiniteSets, FiniteSetsExt

CONSTANTS
  RecordPerPage,   \* record_per_page_
  Error            \* error_ of the learned models: how far a prediction is off

ASSUME RecordPerPageAssumption == RecordPerPage \in Nat \ {0}
ASSUME ErrorAssumption == Error \in Nat

\* What a slot holds to which no record was written: a page is transferred
\* whole, and its rest is whatever the buffer held before.
Junk == [key |-> 0, value |-> -1]

Size(vector) == Cardinality(DOMAIN vector)

At(file, slot) == IF slot \in DOMAIN file THEN file[slot] ELSE Junk

\* std::ceil(n * 1.0 / record_per_page_)
PagesFor(n) == (n + RecordPerPage - 1) \div RecordPerPage

DirectIOWrite(file, data, pageNum, startPage) ==
  LET first   == startPage * RecordPerPage
      written == first .. first + pageNum * RecordPerPage - 1
  IN  [slot \in DOMAIN file \cup written |->
         IF slot \in written THEN At(data, slot - first) ELSE file[slot]]

GetAllData(file, startPage, length) ==
  [i \in 0 .. length - 1 |-> At(file, startPage * RecordPerPage + i)]

DirectIORead(file, pid, pageNum) == GetAllData(file, pid, pageNum * RecordPerPage)

GetFetchRange(range, lastPid) ==
  [start |-> range.begin \div RecordPerPage,
   end   |-> Min({(range.end - 1) \div RecordPerPage, lastPid})]

\* Of the first n records of a vector the last one, if it is below the key, or
\* the first one that is not: what a binary search of a sorted vector ends at.
LowerBound(data, n, key) ==
  IF data[n - 1].key < key THEN n - 1
  ELSE Min({i \in 0 .. n - 1 : data[i].key >= key})

\* The ranges a model trained on these keys may answer.  The rank it predicts
\* is off by at most Error.
SearchBound(keys, key) ==
  LET maxY == Size(keys) - 1
      rank == Cardinality({i \in DOMAIN keys : keys[i] < key})
      predictions == (rank - Error .. rank + Error) \cap (0 .. maxY + 1)
  IN  IF key <= keys[0] THEN {[begin |-> 0, end |-> 1]}
      ELSE IF key >= keys[maxY] THEN {[begin |-> maxY, end |-> maxY + 1]}
      ELSE {[begin |-> Max({0, pred - Error}), end |-> Min({maxY, pred + Error}) + 1]
              : pred \in predictions}

\* Two sorted vectors as one.  Of equal keys, those of the dynamic vector come
\* first or last.
Interleave(dynamic, static, dynamicFirst) ==
  LET DynamicPos(i) == i + Cardinality({j \in DOMAIN static :
                             \/ static[j].key < dynamic[i].key
                             \/ ~dynamicFirst /\ static[j].key = dynamic[i].key})
      StaticPos(j)  == j + Cardinality({i \in DOMAIN dynamic :
                             \/ dynamic[i].key < static[j].key
                             \/ dynamicFirst /\ dynamic[i].key = static[j].key})
      Placed(n) == {dynamic[i] : i \in {x \in DOMAIN dynamic : DynamicPos(x) = n}} \cup
                   {static[j] : j \in {x \in DOMAIN static : StaticPos(x) = n}}
  IN  [n \in 0 .. Size(dynamic) + Size(static) - 1 |-> CHOOSE r \in Placed(n) : TRUE]
=============================================================================
