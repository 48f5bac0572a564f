--------------------------- MODULE StaticVersions ---------------------------
(***************************************************************************)
(* One on-disk static index object of the multi-threaded hybrid index      *)
(* (static/static_base.h), as a value: the version bookkeeping that lets   *)
(* every thread move from the file of one version to the next, and the     *)
(* tasks of a partitioned merge.  HybridMT holds the objects and calls     *)
(* these operators; each is what one call does to the object.              *)
(*                                                                         *)
(* latest     latest_version_            old         old_version_          *)
(* updated    updated_                   count       consistent_version_cnt_*)
(* ver, fd    a thread's version_ and the version of the file it has open  *)
(* next       processing_thread_num_     finished    finished_thread_num_  *)
(* layout     the version each partition's page range and model describe   *)
(***************************************************************************)
EXTENDS Integers, FiniteSets

CONSTANTS
  Threads,      \* thread ids, 0 .. thread_numbers_ - 1
  Partitions    \* partition ids, 0 .. merge_thread_num_ - 1

ThreadNumbers  == Cardinality(Threads)
MergeThreadNum == Cardinality(Partitions)

ASSUME StaticAssumption == /\ IsFiniteSet(Threads) /\ IsFiniteSet(Partitions)
                           /\ Threads = 0 .. ThreadNumbers - 1
                           /\ Partitions = 0 .. MergeThreadNum - 1
                           /\ MergeThreadNum > 0

\* Build: every thread has version 1 open.
Built ==
  [latest |-> 1, old |-> 1, updated |-> FALSE, count |-> ThreadNumbers,
   ver |-> [t \in Threads |-> 1], fd |-> [t \in Threads |-> 1],
   next |-> -1, finished |-> 0, layout |-> [p \in Partitions |-> 1]]

\* The assignment that makes the backup: counters start afresh, every thread's
\* descriptor is opened on the latest file.
CopyOf(s) ==
  [s EXCEPT !.updated = FALSE, !.count = ThreadNumbers,
            !.fd = [t \in Threads |-> s.latest],
            !.next = -1, !.finished = 0]

GetUpdatedStatus(s) == s.old # s.latest
\* Mutant: one partition too early.
AllButOneFinished(s) == s.finished >= MergeThreadNum - 1

AllSubMergeFinished(s) == s.finished = MergeThreadNum

\* PartitionData, in the order of its three shared writes.
StartRound(s)  == [s EXCEPT !.updated = FALSE, !.old = s.latest]
OfferTasks(s)  == [s EXCEPT !.next = 0]
ResetCount(s)  == [s EXCEPT !.count = IF @ = ThreadNumbers THEN 0 ELSE @]

\* ObtainMergeTask: a thread that already has the next version gets none.
TaskOnOffer(s, t) ==
  s.next \in Partitions /\ s.ver[t] = s.latest

TakeTask(s, task) == [s EXCEPT !.next = task + 1]

\* MergeSubData stores partition p and moves its thread to the new file.
Stored(s, t, p) ==
  [s EXCEPT !.ver[t] = s.latest + 1, !.fd[t] = s.latest + 1,
            !.layout[p] = s.latest + 1]

CountThread(s) == [s EXCEPT !.count = @ + 1]
FinishTask(s)  == [s EXCEPT !.finished = @ + 1]

UpdateLatestVersion(s) ==
  IF s.updated THEN s
  ELSE [s EXCEPT !.updated = TRUE, !.latest = @ + 1, !.finished = 0]

\* CheckLatestVersion: an outdated thread opens the latest file and is counted.
Outdated(s, t)   == s.ver[t] < s.latest
OpenLatest(s, t) == [s EXCEPT !.ver[t] = s.latest, !.fd[t] = s.latest]
\* Mutant: one thread too early.
AllButOneCurrent(s) == s.count >= ThreadNumbers - 1

EveryoneCurrent(s) == s.count = ThreadNumbers
=============================================================================
