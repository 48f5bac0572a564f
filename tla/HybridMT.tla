------------------------------ MODULE HybridMT ------------------------------
(***************************************************************************)
(* The multi-threaded hybrid index (multi_threaded_hybrid/hybrid_index.h): *)
(* a dynamic index that takes the inserts, a static index on disk, and the *)
(* mode protocol that merges one into the other while every thread goes on *)
(* finding and inserting.  Whichever thread meets MergingMode helps with   *)
(* the merge, whichever meets MergedMode moves itself to the new version;  *)
(* the last one swaps the static index.                                    *)
(*                                                                         *)
(* One action per access to a shared variable, except that several loads   *)
(* in a row are one action when no property depends on what happens        *)
(* between them (they are marked).  An index is the set of its keys: an    *)
(* insert of the workloads brings a new key.                               *)
(***************************************************************************)
EXTENDS StaticVersions, Sequences

CONSTANTS
  Keys,
  PartitionOf,   \* the partition a key falls in
  Stored0,       \* the keys Build puts in the static index
  Sampled,       \* and those it keeps in the dynamic index
  Workload,      \* what each thread asks, in order
  MergeRatio,    \* merge_ratio_
  Timeouts       \* the spins that may use up their turns

\* What follows a spin: yield ends it after 100 million turns.
AfterSpin == [awaitReady |-> "toMerging",  awaitPrepared |-> "announce",
              awaitMerged |-> "announce",  awaitSwapped |-> "updateAll",
              awaitNormal |-> "dropMerging"]

ASSUME WorkloadAssumption ==
  /\ Workload \in [Threads -> Seq([kind : {"find", "insert"}, key : Keys])]
  /\ Timeouts \subseteq DOMAIN AfterSpin
  /\ MergeRatio \in Nat \ {0}
  /\ PartitionOf \in [Keys -> Partitions]
  /\ Stored0 \subseteq Keys /\ Sampled \subseteq Keys

NULL == 0    \* objects are numbered from 1

VARIABLES
  hy,       \* the atomics of MultiThreadedHybridIndex
  dyn,      \* the contents of every dynamic index created so far
  sta,      \* every static index created so far (StaticVersions)
  files,    \* the contents of every data file, by version and partition
  removed,  \* the versions whose file was removed
  tmp,      \* tmp_dynamic_data_
  th,       \* each thread: where it is and its local variables
  returned  \* history: the keys a dynamic index was given, by Build or by an
            \* insert that has returned

vars == <<hy, dyn, sta, files, removed, tmp, th, returned>>

Idle == [pc |-> "idle", ret |-> "", then |-> "", kind |-> "", key |-> 0,
         must |-> FALSE, found |-> FALSE, ratio |-> "unread", dy |-> NULL,
         mg |-> NULL, b |-> NULL, task |-> -1, who |-> 0, next |-> 0, done |-> 0]

\* After Build, which keeps INIT_SIZE records of its data in the dynamic index.
Init ==
  /\ hy = [mode |-> "Normal", dynamic |-> 1, merging |-> NULL, static |-> 1,
           backup |-> NULL, opsDynamic |-> 0, opsMerging |-> 0,
           readyMerge |-> TRUE, readyNormal |-> TRUE]
  /\ dyn = <<Sampled>>
  /\ sta = <<Built>>
  /\ files = <<[p \in Partitions |-> {k \in Stored0 : PartitionOf[k] = p}]>>
  /\ removed = {}
  /\ tmp = {}
  /\ th = [t \in Threads |-> Idle]
  /\ returned = Sampled

-----------------------------------------------------------------------------
At(t, step) == th[t].pc = step
Goto(t, step) == th' = [th EXCEPT ![t].pc = step]
Call(t, step, back) == th' = [th EXCEPT ![t].pc = step, ![t].ret = back]
Back(t) == th' = [th EXCEPT ![t].pc = th[t].ret, ![t].b = NULL,
                            ![t].task = -1, ![t].who = t]

Set(field, value) == hy' = [hy EXCEPT ![field] = value]

\* What a step leaves alone, when it is in the thread and in these variables.
OnlyThread == UNCHANGED <<hy, dyn, sta, files, removed, tmp, returned>>
OnlyHybrid == UNCHANGED <<dyn, sta, files, removed, tmp, returned>>
OnlyStatic == UNCHANGED <<hy, dyn, files, removed, tmp, returned>>

B(t) == sta[th[t].b]
ChangeB(t, object) == sta' = [sta EXCEPT ![th[t].b] = object]

\* (disk - memory) / memory <= merge_ratio_: what the total size has beyond the
\* memory is the data on disk; the memory is the dynamic index and the models,
\* whose size is neglected.
OnDiskNow == UNION {files[sta[hy.static].latest][p] : p \in Partitions}
RatioReached ==
  Cardinality(OnDiskNow) <= MergeRatio * Cardinality(dyn[hy.dynamic])

Begin(t) ==
  /\ At(t, "idle")
  /\ th[t].done < Len(Workload[t])
  /\ LET request == Workload[t][th[t].done + 1]
     IN  th' = [th EXCEPT ![t].pc = request.kind, ![t].kind = request.kind,
                          ![t].key = request.key, ![t].who = t,
                          ![t].must = request.kind = "find" /\
                                      request.key \in returned \cup Stored0]
  /\ OnlyThread

Finish(t) == th' = [th EXCEPT ![t] = [Idle EXCEPT !.done = th[t].done + 1]]

-----------------------------------------------------------------------------
(* AssignedToMerge: take a partition, merge it, and close the merge when it *)
(* was the last one.                                                        *)

LoadBackupToAssist(t) ==
  /\ At(t, "assist")
  /\ IF hy.backup = NULL THEN Back(t)
     ELSE th' = [th EXCEPT ![t].pc = "loadTask", ![t].b = hy.backup,
                           ![t].then = "checkFinished"]
  /\ OnlyThread

LoadTask(t) ==
  /\ At(t, "loadTask")
  /\ IF TaskOnOffer(B(t), t)
     THEN th' = [th EXCEPT ![t].pc = "takeTask", ![t].task = B(t).next]
     ELSE Goto(t, th[t].then)
  /\ OnlyThread

TakeTaskOrLoseIt(t) ==
  /\ At(t, "takeTask")
  /\ \/ /\ B(t).next = th[t].task
        /\ ChangeB(t, TakeTask(B(t), th[t].task))
        /\ Goto(t, "store")
     \/ /\ B(t).next # th[t].task
        /\ Goto(t, th[t].then)
        /\ UNCHANGED sta
  /\ OnlyStatic

\* Mutant: opens the new file before it has read the old one.
OpenThenRead(t) ==
  /\ At(t, "store")
  /\ LET p    == th[t].task
         v    == B(t).latest + 1
         all  == IF v <= Len(files) THEN files
                 ELSE Append(files, [q \in Partitions |-> {}])
     IN  files' = [all EXCEPT ![v][p] = @ \cup {k \in tmp : PartitionOf[k] = p}]
  /\ ChangeB(t, Stored(B(t), t, th[t].task))
  /\ Goto(t, "countStored")
  /\ UNCHANGED <<hy, dyn, removed, tmp, returned>>

\* Mutant: writes only what was there.
MergeOldData(t) ==
  /\ At(t, "store")
  /\ LET p    == th[t].task
         v    == B(t).latest + 1
         all  == IF v <= Len(files) THEN files
                 ELSE Append(files, [q \in Partitions |-> {}])
     IN  files' = [all EXCEPT ![v][p] = files[B(t).fd[t]][p]]
  /\ ChangeB(t, Stored(B(t), t, th[t].task))
  /\ Goto(t, "countStored")
  /\ UNCHANGED <<hy, dyn, removed, tmp, returned>>

\* The partition of the file the thread has open and the partition's part of
\* the collected keys go to the file of the next version.  The whole call
\* is one action: before it is counted nobody reads what it writes, but for a
\* find that is left over from the merge before.
MergeSubData(t) ==
  /\ At(t, "store")
  /\ LET p    == th[t].task
         v    == B(t).latest + 1
         mine == files[B(t).fd[t]][p] \cup {k \in tmp : PartitionOf[k] = p}
         all  == IF v <= Len(files) THEN files
                 ELSE Append(files, [q \in Partitions |-> {}])
     IN  files' = [all EXCEPT ![v][p] = mine]
  /\ ChangeB(t, Stored(B(t), t, th[t].task))
  /\ Goto(t, "countStored")
  /\ UNCHANGED <<hy, dyn, removed, tmp, returned>>

CountStored(t) ==
  /\ At(t, "countStored")
  /\ ChangeB(t, CountThread(B(t)))
  /\ Goto(t, "finishTask")
  /\ OnlyStatic

FinishMerge(t) ==
  /\ At(t, "finishTask")
  /\ ChangeB(t, FinishTask(B(t)))
  /\ Goto(t, th[t].then)
  /\ OnlyStatic

\* Two loads: mode_, then the count of finished partitions.
CheckFinished(t) ==
  /\ At(t, "checkFinished")
  /\ IF hy.mode = "Merging" /\ AllSubMergeFinished(B(t))
     THEN Goto(t, "closeMerge") ELSE Back(t)
  /\ OnlyThread

CloseMerge(t) ==
  /\ At(t, "closeMerge")
  /\ \/ /\ hy.mode = "Merging"
        /\ Set("mode", "Merged")
        /\ Goto(t, "announceVersion")
     \/ /\ hy.mode # "Merging"
        /\ Back(t) /\ UNCHANGED hy
  /\ OnlyHybrid

AnnounceVersion(t) ==
  /\ At(t, "announceVersion")
  /\ ChangeB(t, UpdateLatestVersion(B(t)))
  /\ Back(t)
  /\ OnlyStatic

-----------------------------------------------------------------------------
(* UpdateVersion, for thread who (itself, or an idle thread it stands in    *)
(* for): move it to the latest file, and swap the static index when it was  *)
(* the last.                                                                *)

\* Three loads: the backup, the mode and the backup's versions.
LoadBackupToUpdate(t) ==
  /\ At(t, "update")
  /\ IF hy.backup # NULL /\ hy.mode = "Merged" /\ GetUpdatedStatus(sta[hy.backup])
     THEN th' = [th EXCEPT ![t].pc = "checkVersion", ![t].b = hy.backup]
     ELSE Back(t)
  /\ OnlyThread

CheckVersion(t) ==
  /\ At(t, "checkVersion")
  /\ Goto(t, IF Outdated(B(t), th[t].who) THEN "openLatest" ELSE "checkCount")
  /\ OnlyThread

OpenLatestFile(t) ==
  /\ At(t, "openLatest")
  /\ ChangeB(t, OpenLatest(B(t), th[t].who))
  /\ Goto(t, "countUpdated")
  /\ OnlyStatic

CountUpdated(t) ==
  /\ At(t, "countUpdated")
  /\ ChangeB(t, CountThread(B(t)))
  /\ Goto(t, "checkCount")
  /\ OnlyStatic

CheckCount(t) ==
  /\ At(t, "checkCount")
  /\ IF EveryoneCurrent(B(t)) THEN Goto(t, "swapStatic") ELSE Back(t)
  /\ OnlyThread

\* The load of static_index_ and the compare-and-swap that expects it.  The
\* old index is remembered in dy for DeleteFile.
SwapStatic(t) ==
  /\ At(t, "swapStatic")
  /\ th' = [th EXCEPT ![t].pc = "clearBackup", ![t].found = hy.static # th[t].b,
                      ![t].dy = hy.static]
  /\ Set("static", th[t].b)
  /\ OnlyHybrid

\* Mutant: only the thread that lost the swap clears the backup.
ClearBackupOfLoser(t) ==
  /\ At(t, "clearBackup")
  /\ hy' = IF ~th[t].found /\ hy.backup = th[t].b THEN [hy EXCEPT !.backup = NULL] ELSE hy
  /\ IF th[t].found THEN Goto(t, "deleteFile") ELSE Back(t)
  /\ OnlyHybrid

\* The second swap is tried whether or not the first one succeeded.
ClearBackup(t) ==
  /\ At(t, "clearBackup")
  /\ hy' = IF hy.backup = th[t].b THEN [hy EXCEPT !.backup = NULL] ELSE hy
  /\ IF th[t].found THEN Goto(t, "deleteFile") ELSE Back(t)
  /\ OnlyHybrid

\* Mutant: deletes the file of the index now in use.
DeleteNewFile(t) ==
  /\ At(t, "deleteFile")
  /\ removed' = removed \cup {sta[hy.static].latest}
  /\ th' = [th EXCEPT ![t].pc = "awaitNormal", ![t].found = FALSE, ![t].dy = NULL]
  /\ UNCHANGED <<hy, dyn, sta, files, tmp, returned>>

DeleteFile(t) ==
  /\ At(t, "deleteFile")
  /\ removed' = removed \cup {sta[th[t].dy].latest}
  /\ th' = [th EXCEPT ![t].pc = "awaitNormal", ![t].found = FALSE, ![t].dy = NULL]
  /\ UNCHANGED <<hy, dyn, sta, files, tmp, returned>>

AwaitReadyToNormal(t) ==
  /\ At(t, "awaitNormal")
  /\ hy.readyNormal
  /\ Goto(t, "dropMerging")
  /\ OnlyThread

DropMerging(t) ==
  /\ At(t, "dropMerging")
  /\ Set("merging", NULL)
  /\ Goto(t, "toNormal")
  /\ OnlyHybrid

ToNormal(t) ==
  /\ At(t, "toNormal")
  /\ hy' = IF hy.mode = "Merged" THEN [hy EXCEPT !.mode = "Normal"] ELSE hy
  /\ Back(t)
  /\ OnlyHybrid

-----------------------------------------------------------------------------
(* Find *)

FindMode(t) ==
  /\ At(t, "find")
  /\ CASE hy.mode = "Merging" -> Call(t, "assist", "findDynamic")
       [] hy.mode = "Merged"  -> Call(t, "update", "findDynamic")
       [] OTHER               -> Goto(t, "findDynamic")
  /\ OnlyThread

Found(t, where, otherwise) ==
  th' = [th EXCEPT ![t].found = th[t].key \in where,
                   ![t].pc = IF th[t].key \in where THEN "found" ELSE otherwise]

\* The load of dynamic_index_ and the lookup in it.
FindDynamic(t) ==
  /\ At(t, "findDynamic")
  /\ Found(t, dyn[hy.dynamic], "missMode")
  /\ OnlyThread

\* Missed in the dynamic index: the mode says whether another one is merging.
MissMode(t) ==
  /\ At(t, "missMode")
  /\ Goto(t, CASE hy.mode = "Merging" -> "loadMerging"
                [] hy.mode = "Merged"  -> "mergedReady"
                [] OTHER               -> "diskMode")
  /\ OnlyThread

LoadMerging(t) ==
  /\ At(t, "loadMerging")
  /\ IF hy.merging = NULL THEN Goto(t, "diskMode")
     ELSE th' = [th EXCEPT ![t].pc = "notReadyNormal", ![t].mg = hy.merging]
  /\ OnlyThread

\* In merged mode the merging index is skipped while no thread is reading it.
MergedReady(t) ==
  /\ At(t, "mergedReady")
  /\ Goto(t, IF hy.readyNormal THEN "diskMode" ELSE "notReadyNormal")
  /\ OnlyThread

NotReadyToNormal(t) ==
  /\ At(t, "notReadyNormal")
  /\ Set("readyNormal", FALSE)
  /\ Goto(t, "enterMerging")
  /\ OnlyHybrid

\* Mutant: counts the operation with the inserts.
EnterMergingAsDynamic(t) ==
  /\ At(t, "enterMerging")
  /\ Set("opsDynamic", hy.opsDynamic + 1)
  /\ Goto(t, IF th[t].mg = NULL THEN "mergedPointer" ELSE "findMerging")
  /\ OnlyHybrid

EnterMerging(t) ==
  /\ At(t, "enterMerging")
  /\ Set("opsMerging", hy.opsMerging + 1)
  /\ Goto(t, IF th[t].mg = NULL THEN "mergedPointer" ELSE "findMerging")
  /\ OnlyHybrid

\* Only the merging mode tests the pointer; here it may have become null.
MergedPointer(t) ==
  /\ At(t, "mergedPointer")
  /\ th' = [th EXCEPT ![t].mg = hy.merging,
                      ![t].pc = IF hy.merging = NULL THEN "nullDereference"
                                                     ELSE "findMerging"]
  /\ OnlyThread

FindMerging(t) ==
  /\ At(t, "findMerging")
  /\ th' = [th EXCEPT ![t].found = th[t].key \in dyn[th[t].mg],
                      ![t].pc = "leaveMerging", ![t].mg = NULL]
  /\ OnlyThread

\* Mutant: tests the new value of the counter for the old one.
LeaveMergingTestsNew(t) ==
  /\ At(t, "leaveMerging")
  /\ Set("opsMerging", hy.opsMerging - 1)
  /\ Goto(t, IF hy.opsMerging - 1 = 1 THEN "readyNormal"
             ELSE IF th[t].found THEN "found" ELSE "diskMode")
  /\ OnlyHybrid

LeaveMerging(t) ==
  /\ At(t, "leaveMerging")
  /\ Set("opsMerging", hy.opsMerging - 1)
  /\ Goto(t, IF hy.opsMerging = 1 THEN "readyNormal"
             ELSE IF th[t].found THEN "found" ELSE "diskMode")
  /\ OnlyHybrid

ReadyToNormal(t) ==
  /\ At(t, "readyNormal")
  /\ Set("readyNormal", TRUE)
  /\ Goto(t, IF th[t].found THEN "found" ELSE "diskMode")
  /\ OnlyHybrid

DiskMode(t) ==
  /\ At(t, "diskMode")
  /\ Goto(t, IF hy.mode = "Merged" THEN "mergedBackup" ELSE "findStatic")
  /\ OnlyThread

\* Mutant: goes on with the static index until it is swapped.
MergedBackupIgnored(t) ==
  /\ At(t, "mergedBackup")
  /\ Goto(t, "findStatic")
  /\ OnlyThread

MergedBackup(t) ==
  /\ At(t, "mergedBackup")
  /\ IF hy.backup # NULL /\ GetUpdatedStatus(sta[hy.backup])
     THEN Call(t, "update", "reloadBackup") ELSE Goto(t, "findStatic")
  /\ OnlyThread

ReloadBackup(t) ==
  /\ At(t, "reloadBackup")
  /\ IF hy.backup = NULL THEN Goto(t, "findStatic")
     ELSE th' = [th EXCEPT ![t].pc = "findBackup", ![t].b = hy.backup]
  /\ OnlyThread

\* A lookup on disk: the partition's layout says which pages of the file that
\* the thread has open to read.  With another version's layout it reads the
\* wrong pages, and may or may not meet the key.
OnDisk(s, t, found) ==
  LET p == PartitionOf[th[t].key]
      v == s.fd[t]
  IN  s.layout[p] = v => found = (th[t].key \in files[v][p])

FindStatic(t) ==
  /\ At(t, "findStatic")
  /\ \E found \in BOOLEAN :
       /\ OnDisk(sta[hy.static], t, found)
       /\ th' = [th EXCEPT ![t].pc = "found", ![t].found = found]
  /\ OnlyThread

FindBackup(t) ==
  /\ At(t, "findBackup")
  /\ \E found \in BOOLEAN :
       /\ OnDisk(B(t), t, found)
       /\ th' = [th EXCEPT ![t].pc = "found", ![t].found = found, ![t].b = NULL]
  /\ OnlyThread

ReturnFind(t) ==
  /\ At(t, "found")
  /\ Finish(t)
  /\ OnlyThread

-----------------------------------------------------------------------------
(* Insert *)

\* A turn of a spin: a call, and what the sizes said before it.
Turn(t, step, back, ratio) ==
  th' = [th EXCEPT ![t].pc = step, ![t].ret = back, ![t].ratio = ratio]

\* The test of a turn uses the sizes read before its call; the first one, those
\* read after the call that comes before the loop.
StillReached(t) ==
  IF th[t].ratio = "unread" THEN RatioReached ELSE th[t].ratio = "reached"

SizesNow == IF RatioReached THEN "reached" ELSE "below"

EndSpin(t) == Turn(t, "announce", th[t].ret, "unread")

InsertMode(t) ==
  /\ At(t, "insert")
  /\ CASE hy.mode = "Normal"  -> Goto(t, IF RatioReached THEN "prepare" ELSE "announce")
       [] hy.mode = "Prepare" -> Goto(t, "awaitPrepared")
       [] hy.mode = "Merging" -> Turn(t, "assist", "awaitMerged", "unread")
       [] hy.mode = "Merged"  -> Turn(t, "update", "awaitSwapped", "unread")
  /\ OnlyThread

AwaitPrepared(t) ==
  /\ At(t, "awaitPrepared")
  /\ hy.mode # "Prepare"
  /\ Goto(t, "announce")
  /\ OnlyThread

\* Helps again on every turn of the spin.
AwaitMerged(t) ==
  /\ At(t, "awaitMerged")
  /\ IF hy.mode = "Merging" /\ StillReached(t)
     THEN Turn(t, "assist", "awaitMerged", SizesNow) ELSE EndSpin(t)
  /\ OnlyThread

AwaitSwapped(t) ==
  /\ At(t, "awaitSwapped")
  /\ IF hy.mode = "Merged" /\ StillReached(t)
     THEN Turn(t, "update", "awaitSwapped", SizesNow) ELSE EndSpin(t)
  /\ OnlyThread

\* threads_free_status_: zero outside an operation, and for a moment in an
\* insert that starts over.
Free(u) == th[u].pc \in {"idle", "startOver"}

\* Mutant: moves itself once per idle thread.
UpdateAllOwn(t) ==
  /\ At(t, "updateAll")
  /\ LET u == th[t].next
         me == [th[t] EXCEPT !.next = u + 1]
     IN  th' = [th EXCEPT ![t] =
           IF u \notin Threads THEN [th[t] EXCEPT !.pc = "announce", !.next = 0]
           ELSE IF Free(u) /\ hy.mode = "Merged"
                THEN [me EXCEPT !.pc = "update", !.ret = "updateAll"]
                ELSE me]
  /\ OnlyThread

\* UpdateAllVersion: on behalf of every thread that is not in an operation.
UpdateAllVersion(t) ==
  /\ At(t, "updateAll")
  /\ LET u == th[t].next
         me == [th[t] EXCEPT !.next = u + 1]
     IN  th' = [th EXCEPT ![t] =
           IF u \notin Threads THEN [th[t] EXCEPT !.pc = "announce", !.next = 0]
           ELSE IF Free(u) /\ hy.mode = "Merged"
                THEN [me EXCEPT !.pc = "update", !.ret = "updateAll", !.who = u]
                ELSE me]
  /\ OnlyThread

GiveUp(t) ==
  /\ th[t].pc \in Timeouts
  /\ Goto(t, AfterSpin[th[t].pc])
  /\ OnlyThread

\* Normal mode: the thread that wins the swap to PrepareToMerge starts a merge.
Prepare(t) ==
  /\ At(t, "prepare")
  /\ \/ hy.mode = "Normal" /\ Set("mode", "Prepare") /\ Goto(t, "awaitReady")
     \/ hy.mode # "Normal" /\ Goto(t, "announce") /\ UNCHANGED hy
  /\ OnlyHybrid

\* Waits for the inserts on the dynamic index to end.
AwaitReadyToMerge(t) ==
  /\ At(t, "awaitReady")
  /\ hy.readyMerge
  /\ Goto(t, "toMerging")
  /\ OnlyThread

\* This swap cannot fail: nobody else leaves PrepareToMerge.
ToMerging(t) ==
  /\ At(t, "toMerging")
  /\ hy.mode = "Prepare" /\ Set("mode", "Merging") /\ Goto(t, "setMerging")
  /\ OnlyHybrid

SetMerging(t) ==
  /\ At(t, "setMerging")
  /\ hy' = IF hy.merging = NULL THEN [hy EXCEPT !.merging = hy.dynamic] ELSE hy
  /\ Goto(t, "newDynamic")
  /\ OnlyHybrid

NewDynamic(t) ==
  /\ At(t, "newDynamic")
  /\ dyn' = Append(dyn, {})
  /\ Set("dynamic", Len(dyn) + 1)
  /\ Goto(t, "collect")
  /\ UNCHANGED <<sta, files, removed, tmp, returned>>

\* MergeData walks the leaves of the merging index without a lock.
Collect(t) ==
  /\ At(t, "collect")
  /\ tmp' = dyn[hy.merging]
  /\ Goto(t, "copyStatic")
  /\ UNCHANGED <<hy, dyn, sta, files, removed, returned>>

\* A new object nobody else knows, assigned from the static index; every
\* thread's descriptor is opened by the name of the latest file.
CopyStatic(t) ==
  /\ At(t, "copyStatic")
  /\ sta' = Append(sta, CopyOf(sta[hy.static]))
  /\ th' = [th EXCEPT ![t].pc = "publish", ![t].b = Len(sta) + 1]
  /\ OnlyStatic

\* The backup is known to all before its merge is set up.
PublishBackup(t) ==
  /\ At(t, "publish")
  /\ Set("backup", th[t].b)
  /\ Goto(t, "partition")
  /\ OnlyHybrid

PartitionData(t) ==
  /\ At(t, "partition")
  /\ ChangeB(t, StartRound(B(t)))
  /\ Goto(t, "offer")
  /\ OnlyStatic

Offer(t) ==
  /\ At(t, "offer")
  /\ ChangeB(t, OfferTasks(B(t)))
  /\ Goto(t, "resetCount")
  /\ OnlyStatic

ResetVersionCount(t) ==
  /\ At(t, "resetCount")
  /\ ChangeB(t, ResetCount(B(t)))
  /\ th' = [th EXCEPT ![t].pc = "loadTask", ![t].then = "announce"]
  /\ OnlyStatic

\* The insert itself: announce it, and look at the mode again.
Announce(t) ==
  /\ At(t, "announce")
  /\ Set("readyMerge", FALSE)
  /\ th' = [th EXCEPT ![t].pc = "enterDynamic", ![t].b = NULL, ![t].task = -1,
                      ![t].then = "", ![t].ret = ""]
  /\ OnlyHybrid

EnterDynamic(t) ==
  /\ At(t, "enterDynamic")
  /\ Set("opsDynamic", hy.opsDynamic + 1)
  /\ Goto(t, "loadDynamic")
  /\ OnlyHybrid

LoadDynamic(t) ==
  /\ At(t, "loadDynamic")
  /\ th' = [th EXCEPT ![t].pc = "recheckMode", ![t].dy = hy.dynamic]
  /\ OnlyThread

RecheckMode(t) ==
  /\ At(t, "recheckMode")
  /\ th' = IF hy.mode = "Prepare"
           THEN [th EXCEPT ![t].pc = "leaveDynamic", ![t].dy = NULL]
           ELSE [th EXCEPT ![t].pc = "insertKey"]
  /\ OnlyThread

InsertKey(t) ==
  /\ At(t, "insertKey")
  /\ dyn' = [dyn EXCEPT ![th[t].dy] = @ \cup {th[t].key}]
  /\ th' = [th EXCEPT ![t].pc = "leaveDynamic", ![t].found = TRUE]
  /\ UNCHANGED <<hy, sta, files, removed, tmp, returned>>

\* The insert that met PrepareToMerge starts over.
Left(t) == IF th[t].found THEN "inserted" ELSE "startOver"

\* Mutant: tests the new value of the counter for the old one.
LeaveDynamicTestsNew(t) ==
  /\ At(t, "leaveDynamic")
  /\ Set("opsDynamic", hy.opsDynamic - 1)
  /\ Goto(t, IF hy.opsDynamic - 1 = 1 THEN "readyMerge" ELSE Left(t))
  /\ OnlyHybrid

LeaveDynamic(t) ==
  /\ At(t, "leaveDynamic")
  /\ Set("opsDynamic", hy.opsDynamic - 1)
  /\ Goto(t, IF hy.opsDynamic = 1 THEN "readyMerge" ELSE Left(t))
  /\ OnlyHybrid

ReadyToMerge(t) ==
  /\ At(t, "readyMerge")
  /\ Set("readyMerge", TRUE)
  /\ Goto(t, Left(t))
  /\ OnlyHybrid

StartOver(t) ==
  /\ At(t, "startOver")
  /\ Goto(t, "insert")
  /\ OnlyThread

ReturnInsert(t) ==
  /\ At(t, "inserted")
  /\ returned' = returned \cup {th[t].key}
  /\ Finish(t)
  /\ UNCHANGED <<hy, dyn, sta, files, removed, tmp>>

-----------------------------------------------------------------------------
AssignedToMerge(t) ==
  \/ LoadBackupToAssist(t) \/ LoadTask(t) \/ TakeTaskOrLoseIt(t)
  \/ MergeSubData(t) \/ CountStored(t) \/ FinishMerge(t)
  \/ CheckFinished(t) \/ CloseMerge(t) \/ AnnounceVersion(t)

UpdateVersion(t) ==
  \/ LoadBackupToUpdate(t) \/ CheckVersion(t) \/ OpenLatestFile(t)
  \/ CountUpdated(t) \/ CheckCount(t) \/ SwapStatic(t) \/ ClearBackup(t)
  \/ DeleteFile(t) \/ AwaitReadyToNormal(t) \/ DropMerging(t) \/ ToNormal(t)

Find(t) ==
  \/ FindMode(t) \/ FindDynamic(t) \/ MissMode(t) \/ LoadMerging(t)
  \/ MergedReady(t) \/ NotReadyToNormal(t) \/ EnterMerging(t)
  \/ MergedPointer(t) \/ FindMerging(t) \/ LeaveMerging(t) \/ ReadyToNormal(t)
  \/ DiskMode(t) \/ MergedBackup(t) \/ ReloadBackup(t) \/ FindStatic(t)
  \/ FindBackup(t) \/ ReturnFind(t)

Merge(t) ==
  \/ SetMerging(t) \/ NewDynamic(t) \/ Collect(t) \/ CopyStatic(t)
  \/ PublishBackup(t) \/ PartitionData(t) \/ Offer(t) \/ ResetVersionCount(t)

Insert(t) ==
  \/ InsertMode(t) \/ AwaitPrepared(t) \/ AwaitMerged(t) \/ AwaitSwapped(t)
  \/ UpdateAllVersion(t) \/ Prepare(t) \/ AwaitReadyToMerge(t) \/ ToMerging(t)
  \/ Merge(t) \/ Announce(t) \/ EnterDynamic(t) \/ LoadDynamic(t)
  \/ RecheckMode(t) \/ InsertKey(t) \/ LeaveDynamic(t) \/ ReadyToMerge(t)
  \/ StartOver(t) \/ ReturnInsert(t)

Step(t) == AssignedToMerge(t) \/ UpdateVersion(t) \/ Find(t) \/ Insert(t)
           \/ GiveUp(t)

Next == \E t \in Threads : Begin(t) \/ Step(t)

Spec == Init /\ [][Next]_vars

\* Every benchmark thread runs its share of the workload to the end, and a spin
\* that it comes back to again and again uses up its turns.
FairSpec == Spec /\ \A t \in Threads : WF_vars(Begin(t) \/ Step(t)) /\ SF_vars(GiveUp(t))
-----------------------------------------------------------------------------
(* Properties *)

Modes == {"Normal", "Prepare", "Merging", "Merged"}
InsideDynamic == {t \in Threads : th[t].pc \in {"loadDynamic", "recheckMode",
                                                "insertKey", "leaveDynamic"}}
InsideMerging == {t \in Threads : th[t].pc \in {"mergedPointer", "findMerging",
                                                "leaveMerging", "nullDereference"}}

\* Pointers are null or point to an object that exists, and each counter of
\* operations in progress counts the threads that are in one.
TypeOK ==
  /\ hy.mode \in Modes
  /\ hy.dynamic \in DOMAIN dyn /\ hy.merging \in {NULL} \cup DOMAIN dyn
  /\ hy.static \in DOMAIN sta  /\ hy.backup \in {NULL} \cup DOMAIN sta
  /\ hy.readyMerge \in BOOLEAN /\ hy.readyNormal \in BOOLEAN
  /\ hy.opsDynamic = Cardinality(InsideDynamic)
  /\ hy.opsMerging = Cardinality(InsideMerging)
  /\ dyn \in Seq(SUBSET Keys) /\ tmp \subseteq Keys /\ returned \subseteq Keys
  /\ \A i \in DOMAIN sta : /\ sta[i].latest \in DOMAIN files
                           /\ sta[i].next \in {-1, MergeThreadNum} \cup Partitions
  /\ \A t \in Threads : th[t].b \in {NULL} \cup DOMAIN sta

\* Once no insert is on its way into the dynamic index ready_to_merge_ is true,
\* and once no find is on its way into the merging index ready_to_normal_ is
\* true: else the thread that waits for the flag would wait in vain.  The flag
\* and the counter are two variables, written by every thread in turn.
QuietMeansReady ==
  /\ \/ hy.readyMerge
     \/ \E t \in Threads : t \in InsideDynamic \/ th[t].pc \in {"enterDynamic", "readyMerge"}
  /\ \/ hy.readyNormal
     \/ \E t \in Threads : t \in InsideMerging \/ th[t].pc \in {"enterMerging", "readyNormal"}

\* The merge walks the leaves of the merging index, "designed for hybrid index
\* framework (immutable mode)" (dynamic/btree/BTreeOLC.h:263): from then on that
\* index does not change, so what was collected is all of it.
CollectedIsWhole ==
  hy.backup # NULL /\ hy.merging # NULL => tmp = dyn[hy.merging]

InMemory == dyn[hy.dynamic] \cup (IF hy.merging = NULL THEN {} ELSE dyn[hy.merging])

\* A key whose insert has returned, or that Build stored, is at every moment in
\* one of the places a find looks at: the dynamic index, the one being merged,
\* or the current file of the static index.
NothingLost ==
  returned \cup Stored0 \subseteq InMemory \cup OnDiskNow

\* A thread that searches a page range on disk has open the very file version
\* that the range was computed for, in the static index and in the backup.
RangeFitsFile ==
  \A t \in Threads :
    LET Fits(s) == s.layout[PartitionOf[th[t].key]] = s.fd[t]
    IN  /\ At(t, "findStatic") => Fits(sta[hy.static])
        /\ At(t, "findBackup") => Fits(B(t))

\* Outside a merge nothing of the last one is left over, and the static index
\* is settled: every thread has its current file open.
SettledBetweenMerges ==
  hy.mode \in {"Normal", "Prepare"} =>
    /\ hy.merging = NULL /\ hy.backup = NULL
    /\ LET s == sta[hy.static]
       IN  \A t \in Threads : s.fd[t] = s.latest /\ s.ver[t] = s.latest

\* When a merge announces its version the new file is complete: in every
\* partition the keys of the old file and those collected from the merging index.
AnnouncedFileIsComplete ==
  hy.backup # NULL /\ sta[hy.backup].updated =>
    \A p \in Partitions :
      files[sta[hy.backup].latest][p] =
        files[sta[hy.backup].old][p] \cup {k \in tmp : PartitionOf[k] = p}

\* A file is removed only when no thread will open it by its name again.  (The
\* open would create it anew, empty: ycsb_utils/util_search.h:15-31.)
FilesInUseExist ==
  /\ sta[hy.static].latest \notin removed
  /\ hy.backup # NULL => sta[hy.backup].latest \notin removed
  /\ \A t \in Threads : At(t, "openLatest") => B(t).latest \notin removed

\* A find that started after the insert of its key had returned finds it
\* (ycsb_utils/multi_threaded_benchmark.h:105-107 checks it after each insert).
FindsInserted == \A t \in Threads : At(t, "found") /\ th[t].must => th[t].found

\* What has been found on disk stays there: the file that finds are sent to
\* only gains keys, though it is another file after each merge.
DiskOnlyGrows == [][OnDiskNow \subseteq OnDiskNow']_vars

\* Every request of the workload is answered.
RequestsReturn == \A t \in Threads : <>(th[t].done = Len(Workload[t]))

\* A merge that starts ends, with its version in use.
MergeEnds == hy.mode = "Merging" ~> hy.mode = "Normal"
=============================================================================
