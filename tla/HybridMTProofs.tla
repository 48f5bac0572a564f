---------------------------- MODULE HybridMTProofs ----------------------------
(***************************************************************************)
(* The mode protocol of the multi-threaded hybrid index, for any number of *)
(* threads and partitions, any requests, any merge ratio and any spins     *)
(* that give up: the two counters of operations in progress are exact, no  *)
(* thread waits in vain for the flag that belongs to one of them, and one  *)
(* thread at a time starts a merge.                                        *)
(*                                                                         *)
(* Then, merge after merge: each file is complete before it is announced,  *)
(* every search reads the file that its range is of, no file is removed    *)
(* too early, no key is lost and a find answers what was inserted before   *)
(* it, in every behaviour that stays clear of the races of the code that   *)
(* each theorem names.                                                     *)
(***************************************************************************)
EXTENDS HybridMT, FiniteSetTheorems, SequenceTheorems, TLAPS

\* Where a call returns to, and where the work on the tasks goes on.
Returns == {"", "findDynamic", "reloadBackup", "awaitMerged", "awaitSwapped",
            "updateAll"}
Nexts == {"", "checkFinished", "announce"}

ThreadOf(pc, ret, then, r) ==
  [pc : pc, ret : ret, then : then, kind : {r.kind}, key : {r.key}, must : {r.must},
   found : {r.found}, ratio : {r.ratio}, dy : {r.dy}, mg : {r.mg}, b : {r.b}, task : {r.task},
   who : {r.who}, next : {r.next}, done : Nat]

IsThread(r) == r \in ThreadOf({r.pc}, Returns, Nexts, r)

HyShape == hy \in [mode : Modes, dynamic : {hy.dynamic}, merging : {hy.merging},
                   static : {hy.static}, backup : {hy.backup}, opsDynamic : Int,
                   opsMerging : Int, readyMerge : BOOLEAN, readyNormal : BOOLEAN]

Shape ==
  /\ th = [t \in Threads |-> th[t]] /\ \A t \in Threads : IsThread(th[t])
  /\ HyShape

\* The places of an insert that is counted in opsDynamic, and those where it is
\* about to be, or has just been, counted; of a find likewise.
DynIn   == {"loadDynamic", "recheckMode", "insertKey", "leaveDynamic"}
DynZone == DynIn \cup {"enterDynamic", "readyMerge"}
MrgIn   == {"mergedPointer", "findMerging", "leaveMerging", "nullDereference"}
MrgZone == MrgIn \cup {"enterMerging", "readyNormal"}

DynPart ==
  /\ hy.opsDynamic = Cardinality(InsideDynamic)
  /\ hy.readyMerge \/ \E t \in Threads : th[t].pc \in DynZone

MrgPart ==
  /\ hy.opsMerging = Cardinality(InsideMerging)
  /\ hy.readyNormal \/ \E t \in Threads : th[t].pc \in MrgZone

\* The thread that won the swap to PrepareToMerge.
StartIn == {"awaitReady", "toMerging"}
OneStarter ==
  /\ \A t, u \in Threads : th[t].pc \in StartIn /\ th[u].pc \in StartIn => t = u
  /\ hy.mode = "Prepare" <=> \E t \in Threads : th[t].pc \in StartIn

IInv == Shape /\ DynPart /\ MrgPart /\ OneStarter

-----------------------------------------------------------------------------
\* Thread t goes to place pc; nobody else moves.
Moved(t, pc) ==
  /\ th' = [u \in Threads |-> IF u = t THEN th'[t] ELSE th[u]]
  /\ IsThread(th'[t]) /\ th'[t].pc = pc

\* What Goto, Call, Turn, Back and Finish do to the thread.
LEMMA GotoMoves ==
  ASSUME Shape, NEW t \in Threads, NEW step, Goto(t, step)
  PROVE  Moved(t, step)
<1> DEFINE r == [th[t] EXCEPT !.pc = step]
<1>1. th' = [u \in Threads |-> IF u = t THEN r ELSE th[u]]
  BY DEF Shape, Goto
<1>2. IsThread(th[t])
  BY DEF Shape
<1>3. IsThread(r) /\ r.pc = step
  BY <1>2 DEF IsThread, ThreadOf
<1> HIDE DEF r
<1> QED
  BY <1>1, <1>3 DEF Moved

LEMMA CallMoves ==
  ASSUME Shape, NEW t \in Threads, NEW step, NEW back \in Returns, Call(t, step, back)
  PROVE  Moved(t, step)
<1> DEFINE r == [th[t] EXCEPT !.pc = step, !.ret = back]
<1>1. th' = [u \in Threads |-> IF u = t THEN r ELSE th[u]]
  BY DEF Shape, Call
<1>2. IsThread(th[t])
  BY DEF Shape
<1>3. IsThread(r) /\ r.pc = step
  BY <1>2 DEF IsThread, ThreadOf
<1> HIDE DEF r
<1> QED
  BY <1>1, <1>3 DEF Moved

LEMMA TurnMoves ==
  ASSUME Shape, NEW t \in Threads, NEW step, NEW back \in Returns, NEW ratio,
         Turn(t, step, back, ratio)
  PROVE  Moved(t, step)
<1> DEFINE r == [th[t] EXCEPT !.pc = step, !.ret = back, !.ratio = ratio]
<1>1. th' = [u \in Threads |-> IF u = t THEN r ELSE th[u]]
  BY DEF Shape, Turn
<1>2. IsThread(th[t])
  BY DEF Shape
<1>3. IsThread(r) /\ r.pc = step
  BY <1>2 DEF IsThread, ThreadOf
<1> HIDE DEF r
<1> QED
  BY <1>1, <1>3 DEF Moved

LEMMA BackMoves ==
  ASSUME Shape, NEW t \in Threads, Back(t)
  PROVE  Moved(t, th[t].ret) /\ th[t].ret \in Returns
<1> DEFINE r == [th[t] EXCEPT !.pc = th[t].ret, !.b = NULL, !.task = -1, !.who = t]
<1>1. th' = [u \in Threads |-> IF u = t THEN r ELSE th[u]]
  BY DEF Shape, Back
<1>2. IsThread(th[t])
  BY DEF Shape
<1>3. r.pc = th[t].ret
  BY <1>2 DEF IsThread, ThreadOf
<1>4. IsThread(r)
  BY <1>2 DEF IsThread, ThreadOf
<1>5. th[t].ret \in Returns
  BY <1>2 DEF IsThread, ThreadOf
<1> HIDE DEF r
<1> QED
  BY <1>1, <1>3, <1>4, <1>5 DEF Moved

LEMMA FinishMoves ==
  ASSUME Shape, NEW t \in Threads, Finish(t)
  PROVE  Moved(t, "idle")
<1> DEFINE r == [Idle EXCEPT !.done = th[t].done + 1]
<1>1. th' = [u \in Threads |-> IF u = t THEN r ELSE th[u]]
  BY DEF Shape, Finish
<1>2. th[t].done + 1 \in Nat
  BY DEF Shape, IsThread, ThreadOf
<1>3. IsThread(r) /\ r.pc = "idle"
  BY <1>2 DEF IsThread, ThreadOf, Idle, Returns, Nexts
<1> HIDE DEF r
<1> QED
  BY <1>1, <1>3 DEF Moved

-----------------------------------------------------------------------------
\* A step that leaves the counters and the flags alone, and starts no merge.
SameDyn == hy'.opsDynamic = hy.opsDynamic /\ hy'.readyMerge = hy.readyMerge
SameMrg == hy'.opsMerging = hy.opsMerging /\ hy'.readyNormal = hy.readyNormal
SameStart == hy'.mode = "Prepare" <=> hy.mode = "Prepare"

\* Such a step keeps the shape, and each of the three parts on its own.
LEMMA MovedShape ==
  ASSUME Shape, NEW t \in Threads, NEW pc, Moved(t, pc), HyShape'
  PROVE  Shape'
BY DEF Shape, Moved, HyShape

LEMMA DynSame ==
  ASSUME DynPart, NEW t \in Threads, NEW pc, Moved(t, pc), SameDyn,
         th[t].pc \in DynIn <=> pc \in DynIn,
         th[t].pc \in DynZone => pc \in DynZone
  PROVE  DynPart'
<1>1. \A u \in Threads : th'[u].pc \in DynIn <=> th[u].pc \in DynIn
  BY DEF Moved
<1>2. InsideDynamic' = InsideDynamic
  BY <1>1 DEF InsideDynamic, DynIn
<1>3. \A u \in Threads : th[u].pc \in DynZone => th'[u].pc \in DynZone
  BY DEF Moved
<1> QED
  BY <1>2, <1>3 DEF DynPart, SameDyn

LEMMA MrgSame ==
  ASSUME MrgPart, NEW t \in Threads, NEW pc, Moved(t, pc), SameMrg,
         th[t].pc \in MrgIn <=> pc \in MrgIn,
         th[t].pc \in MrgZone => pc \in MrgZone
  PROVE  MrgPart'
<1>1. \A u \in Threads : th'[u].pc \in MrgIn <=> th[u].pc \in MrgIn
  BY DEF Moved
<1>2. InsideMerging' = InsideMerging
  BY <1>1 DEF InsideMerging, MrgIn
<1>3. \A u \in Threads : th[u].pc \in MrgZone => th'[u].pc \in MrgZone
  BY DEF Moved
<1> QED
  BY <1>2, <1>3 DEF MrgPart, SameMrg

LEMMA StartSame ==
  ASSUME OneStarter, NEW t \in Threads, NEW pc, Moved(t, pc), SameStart,
         th[t].pc \in StartIn <=> pc \in StartIn
  PROVE  OneStarter'
<1>1. \A u \in Threads : th'[u].pc \in StartIn <=> th[u].pc \in StartIn
  BY DEF Moved
<1> QED
  BY <1>1 DEF OneStarter, SameStart

Zones == DynZone \cup MrgZone \cup StartIn

\* A step between places that matter to none of the three, and neither ends an
\* insert nor, but for Collect, goes on with the collected records.
Beyond(t, pc) ==
  pc \notin Zones /\ pc # "inserted" /\ (pc = "copyStatic" => th[t].pc = "collect")

Elsewhere(t) ==
  /\ th[t].pc \notin Zones
  /\ \E pc : Beyond(t, pc) /\ Moved(t, pc)
  /\ HyShape' /\ SameDyn /\ SameMrg /\ SameStart

LEMMA ElsewhereKeeps ==
  ASSUME IInv, NEW t \in Threads, Elsewhere(t)
  PROVE  IInv'
<1>1. PICK pc : pc \notin Zones /\ Moved(t, pc)
  BY DEF Elsewhere, Beyond
<1>2. th[t].pc \notin Zones /\ HyShape' /\ SameDyn /\ SameMrg /\ SameStart
  BY DEF Elsewhere
<1>3. Shape'
  BY <1>1, <1>2, MovedShape DEF IInv
<1>4. DynPart'
  BY <1>1, <1>2, DynSame DEF IInv, Zones, DynZone
<1>5. MrgPart'
  BY <1>1, <1>2, MrgSame DEF IInv, Zones, MrgZone
<1>6. OneStarter'
  BY <1>1, <1>2, StartSame DEF IInv, Zones
<1> QED
  BY <1>3, <1>4, <1>5, <1>6 DEF IInv

\* The same, for a step of the thread alone.
LEMMA OnlyMoves ==
  ASSUME Shape, NEW t \in Threads, NEW pc, Moved(t, pc), hy' = hy,
         th[t].pc \notin Zones, Beyond(t, pc)
  PROVE  Elsewhere(t)
BY DEF Elsewhere, Shape, HyShape, SameDyn, SameMrg, SameStart

\* The return and the next-step places are none of the three kinds.
LEMMA ReturnsElsewhere == \A t, pc : pc \in Returns \cup Nexts => Beyond(t, pc)
BY DEF Beyond, Returns, Nexts, Zones, DynZone, DynIn, MrgZone, MrgIn, StartIn

LEMMA BackElsewhere ==
  ASSUME Shape, NEW t \in Threads, Back(t), hy' = hy, th[t].pc \notin Zones
  PROVE  Elsewhere(t)
BY BackMoves, OnlyMoves, ReturnsElsewhere

LEMMA ThenElsewhere ==
  ASSUME Shape, NEW t \in Threads, Goto(t, th[t].then), hy' = hy, th[t].pc \notin Zones
  PROVE  Elsewhere(t)
<1>1. th[t].then \in Nexts
  BY DEF Shape, IsThread, ThreadOf
<1> QED
  BY <1>1, GotoMoves, OnlyMoves, ReturnsElsewhere

LEMMA GotoElsewhere ==
  ASSUME Shape, NEW t \in Threads, NEW pc, Goto(t, pc), hy' = hy,
         th[t].pc \notin Zones, Beyond(t, pc)
  PROVE  Elsewhere(t)
BY GotoMoves, OnlyMoves

LEMMA CallElsewhere ==
  ASSUME Shape, NEW t \in Threads, NEW pc, NEW back \in Returns, Call(t, pc, back),
         hy' = hy, th[t].pc \notin Zones, Beyond(t, pc)
  PROVE  Elsewhere(t)
BY CallMoves, OnlyMoves

LEMMA TurnElsewhere ==
  ASSUME Shape, NEW t \in Threads, NEW pc, NEW back \in Returns, NEW ratio,
         Turn(t, pc, back, ratio), hy' = hy, th[t].pc \notin Zones, Beyond(t, pc)
  PROVE  Elsewhere(t)
BY TurnMoves, OnlyMoves

\* A step that sets other variables of its thread too.
LEMMA StepMoves ==
  ASSUME Shape, NEW t \in Threads, NEW r, IsThread(r),
         th' = [u \in Threads |-> IF u = t THEN r ELSE th[u]]
  PROVE  Moved(t, r.pc)
BY DEF Moved

LEMMA ThreadShape == ASSUME Shape, NEW t \in Threads PROVE IsThread(th[t])
BY DEF Shape

\* The answer of a lookup in the dynamic index.
LEMMA AnswerMoves ==
  ASSUME Shape, NEW t \in Threads, NEW pc, NEW found,
         th' = [th EXCEPT ![t].found = found, ![t].pc = pc]
  PROVE  Moved(t, pc)
<1> DEFINE r == [th[t] EXCEPT !.found = found, !.pc = pc]
<1>1. th' = [u \in Threads |-> IF u = t THEN r ELSE th[u]]
  BY DEF Shape
<1>2. IsThread(th[t])
  BY ThreadShape
<1>3. IsThread(r)
  BY <1>2 DEF IsThread, ThreadOf
<1>4. r.pc = pc
  BY <1>2 DEF IsThread, ThreadOf
<1> HIDE DEF r
<1> QED
  BY <1>1, <1>3, <1>4, StepMoves

-----------------------------------------------------------------------------
\* The work on the tasks of a merge touches none of the three.
LEMMA AssignedToMergeElsewhere ==
  ASSUME Shape, NEW t \in Threads, AssignedToMerge(t)
  PROVE  Elsewhere(t)
<1> USE DEF At, Beyond, Zones, DynZone, DynIn, MrgZone, MrgIn, StartIn
<1>1. CASE LoadBackupToAssist(t)
  <2>1. At(t, "assist") /\ hy' = hy
    BY <1>1 DEF LoadBackupToAssist, OnlyThread
  <2>2. CASE Back(t)
    BY <2>1, <2>2, BackElsewhere
  <2>3. CASE th' = [th EXCEPT ![t].pc = "loadTask", ![t].b = hy.backup,
                              ![t].then = "checkFinished"]
    <3> DEFINE r == [th[t] EXCEPT !.pc = "loadTask", !.b = hy.backup,
                                  !.then = "checkFinished"]
    <3>1. th' = [u \in Threads |-> IF u = t THEN r ELSE th[u]]
      BY <2>3 DEF Shape
    <3>2. IsThread(r) /\ r.pc = "loadTask"
      <4>1. IsThread(th[t])
        BY ThreadShape
      <4>2. r.pc = "loadTask"
        BY <4>1 DEF IsThread, ThreadOf
      <4>3. IsThread(r)
        BY <4>1 DEF IsThread, ThreadOf, Nexts
      <4> QED
        BY <4>2, <4>3
    <3> HIDE DEF r
    <3>3. Moved(t, "loadTask")
      BY <3>1, <3>2, StepMoves
    <3> QED
      BY <2>1, <3>3, OnlyMoves
  <2> QED
    BY <1>1, <2>2, <2>3 DEF LoadBackupToAssist
<1>2. CASE LoadTask(t)
  <2>1. At(t, "loadTask") /\ hy' = hy
    BY <1>2 DEF LoadTask, OnlyThread
  <2>2. CASE Goto(t, th[t].then)
    BY <2>1, <2>2, ThenElsewhere
  <2>3. CASE th' = [th EXCEPT ![t].pc = "takeTask", ![t].task = B(t).next]
    <3> DEFINE r == [th[t] EXCEPT !.pc = "takeTask", !.task = B(t).next]
    <3>1. th' = [u \in Threads |-> IF u = t THEN r ELSE th[u]]
      BY <2>3 DEF Shape
    <3>2. IsThread(r) /\ r.pc = "takeTask"
      <4>1. IsThread(th[t])
        BY ThreadShape
      <4>2. r.pc = "takeTask"
        BY <4>1 DEF IsThread, ThreadOf
      <4>3. IsThread(r)
        BY <4>1 DEF IsThread, ThreadOf
      <4> QED
        BY <4>2, <4>3
    <3> HIDE DEF r
    <3>3. Moved(t, "takeTask")
      BY <3>1, <3>2, StepMoves
    <3> QED
      BY <2>1, <3>3, OnlyMoves
  <2> QED
    BY <1>2, <2>2, <2>3 DEF LoadTask
<1>3. CASE TakeTaskOrLoseIt(t)
  <2>1. At(t, "takeTask") /\ hy' = hy /\ (Goto(t, "store") \/ Goto(t, th[t].then))
    BY <1>3 DEF TakeTaskOrLoseIt, OnlyStatic
  <2> QED
    BY <2>1, GotoElsewhere, ThenElsewhere
<1>4. CASE MergeSubData(t)
  BY <1>4, GotoElsewhere DEF MergeSubData
<1>5. CASE CountStored(t)
  BY <1>5, GotoElsewhere DEF CountStored, OnlyStatic
<1>6. CASE FinishMerge(t)
  BY <1>6, ThenElsewhere DEF FinishMerge, OnlyStatic
<1>7. CASE CheckFinished(t)
  BY <1>7, GotoElsewhere, BackElsewhere DEF CheckFinished, OnlyThread
<1>8. CASE CloseMerge(t)
  <2>1. CASE hy.mode = "Merging" /\ Set("mode", "Merged") /\ Goto(t, "announceVersion")
    <3>1. HyShape' /\ SameDyn /\ SameMrg /\ SameStart
      BY <2>1 DEF Shape, HyShape, Set, SameDyn, SameMrg, SameStart, Modes
    <3>2. Moved(t, "announceVersion")
      BY <2>1, GotoMoves
    <3> QED
      BY <1>8, <3>1, <3>2 DEF CloseMerge, Elsewhere
  <2>2. CASE Back(t) /\ hy' = hy
    BY <1>8, <2>2, BackElsewhere DEF CloseMerge
  <2> QED
    BY <1>8, <2>1, <2>2 DEF CloseMerge
<1>9. CASE AnnounceVersion(t)
  BY <1>9, BackElsewhere DEF AnnounceVersion, OnlyStatic
<1> QED
  BY <1>1, <1>2, <1>3, <1>4, <1>5, <1>6, <1>7, <1>8, <1>9 DEF AssignedToMerge

\* Nor does the move to a new version.
LEMMA UpdateVersionElsewhere ==
  ASSUME Shape, NEW t \in Threads, UpdateVersion(t)
  PROVE  Elsewhere(t)
<1> USE DEF At, Beyond, Zones, DynZone, DynIn, MrgZone, MrgIn, StartIn
<1>1. CASE LoadBackupToUpdate(t)
  <2>1. At(t, "update") /\ hy' = hy
    BY <1>1 DEF LoadBackupToUpdate, OnlyThread
  <2>2. CASE Back(t)
    BY <2>1, <2>2, BackElsewhere
  <2>3. CASE th' = [th EXCEPT ![t].pc = "checkVersion", ![t].b = hy.backup]
    <3> DEFINE r == [th[t] EXCEPT !.pc = "checkVersion", !.b = hy.backup]
    <3>1. th' = [u \in Threads |-> IF u = t THEN r ELSE th[u]]
      BY <2>3 DEF Shape
    <3>2. IsThread(r) /\ r.pc = "checkVersion"
      <4>1. IsThread(th[t])
        BY ThreadShape
      <4>2. r.pc = "checkVersion"
        BY <4>1 DEF IsThread, ThreadOf
      <4>3. IsThread(r)
        BY <4>1 DEF IsThread, ThreadOf
      <4> QED
        BY <4>2, <4>3
    <3> HIDE DEF r
    <3>3. Moved(t, "checkVersion")
      BY <3>1, <3>2, StepMoves
    <3> QED
      BY <2>1, <3>3, OnlyMoves
  <2> QED
    BY <1>1, <2>2, <2>3 DEF LoadBackupToUpdate
<1>2. CASE CheckVersion(t)
  <2>1. /\ At(t, "checkVersion") /\ hy' = hy
        /\ Goto(t, "openLatest") \/ Goto(t, "checkCount")
    BY <1>2 DEF CheckVersion, OnlyThread
  <2> QED
    BY <2>1, GotoElsewhere
<1>3. CASE OpenLatestFile(t)
  BY <1>3, GotoElsewhere DEF OpenLatestFile, OnlyStatic
<1>4. CASE CountUpdated(t)
  BY <1>4, GotoElsewhere DEF CountUpdated, OnlyStatic
<1>5. CASE CheckCount(t)
  BY <1>5, GotoElsewhere, BackElsewhere DEF CheckCount, OnlyThread
<1>6. CASE SwapStatic(t)
  <2> DEFINE swapped == hy.static # th[t].b
             r == [th[t] EXCEPT !.pc = "clearBackup", !.found = swapped, !.dy = hy.static]
  <2>1. th' = [u \in Threads |-> IF u = t THEN r ELSE th[u]]
    BY <1>6 DEF SwapStatic, Shape
  <2> HIDE DEF swapped
  <2>2. IsThread(r) /\ r.pc = "clearBackup"
    BY ThreadShape DEF IsThread, ThreadOf
  <2> HIDE DEF r
  <2>3. Moved(t, "clearBackup")
    BY <2>1, <2>2, StepMoves
  <2>4. HyShape' /\ SameDyn /\ SameMrg /\ SameStart
    BY <1>6 DEF SwapStatic, Shape, HyShape, Set, SameDyn, SameMrg, SameStart
  <2> QED
    BY <1>6, <2>3, <2>4 DEF SwapStatic, Elsewhere
<1>7. CASE ClearBackup(t)
  <2>1. HyShape' /\ SameDyn /\ SameMrg /\ SameStart
    BY <1>7 DEF ClearBackup, Shape, HyShape, SameDyn, SameMrg, SameStart
  <2>2. \E pc : Beyond(t, pc) /\ Moved(t, pc)
    BY <1>7, GotoMoves, BackMoves, ReturnsElsewhere DEF ClearBackup
  <2> QED
    BY <1>7, <2>1, <2>2 DEF ClearBackup, Elsewhere
<1>8. CASE DeleteFile(t)
  <2> DEFINE r == [th[t] EXCEPT !.pc = "awaitNormal", !.found = FALSE, !.dy = NULL]
  <2>1. th' = [u \in Threads |-> IF u = t THEN r ELSE th[u]]
    BY <1>8 DEF DeleteFile, Shape
  <2>2. IsThread(r) /\ r.pc = "awaitNormal"
    BY ThreadShape DEF IsThread, ThreadOf
  <2> HIDE DEF r
  <2>3. Moved(t, "awaitNormal")
    BY <2>1, <2>2, StepMoves
  <2> QED
    BY <1>8, <2>3, OnlyMoves DEF DeleteFile
<1>9. CASE AwaitReadyToNormal(t)
  BY <1>9, GotoElsewhere DEF AwaitReadyToNormal, OnlyThread
<1>10. CASE DropMerging(t)
  <2>1. HyShape' /\ SameDyn /\ SameMrg /\ SameStart
    BY <1>10 DEF DropMerging, Set, Shape, HyShape, SameDyn, SameMrg, SameStart
  <2>2. Moved(t, "toNormal")
    BY <1>10, GotoMoves DEF DropMerging
  <2> QED
    BY <1>10, <2>1, <2>2 DEF DropMerging, Elsewhere
<1>11. CASE ToNormal(t)
  <2>1. HyShape' /\ SameDyn /\ SameMrg /\ SameStart
    BY <1>11 DEF ToNormal, Shape, HyShape, SameDyn, SameMrg, SameStart, Modes
  <2>2. \E pc : Beyond(t, pc) /\ Moved(t, pc)
    BY <1>11, BackMoves, ReturnsElsewhere DEF ToNormal
  <2> QED
    BY <1>11, <2>1, <2>2 DEF ToNormal, Elsewhere
<1> QED
  BY <1>1, <1>2, <1>3, <1>4, <1>5, <1>6, <1>7, <1>8, <1>9, <1>10, <1>11
     DEF UpdateVersion

-----------------------------------------------------------------------------
\* The steps of a find outside the merging index.
FindOutside(t) ==
  \/ FindMode(t) \/ FindDynamic(t) \/ MissMode(t) \/ LoadMerging(t)
  \/ MergedReady(t) \/ DiskMode(t) \/ MergedBackup(t) \/ ReloadBackup(t)
  \/ FindStatic(t) \/ FindBackup(t) \/ ReturnFind(t)

LEMMA FindElsewhere ==
  ASSUME Shape, NEW t \in Threads, FindOutside(t)
  PROVE  Elsewhere(t)
<1> USE DEF At, Beyond, Zones, DynZone, DynIn, MrgZone, MrgIn, StartIn
<1>1. CASE FindMode(t)
  <2>1. /\ At(t, "find") /\ hy' = hy
        /\ \/ Call(t, "assist", "findDynamic") \/ Call(t, "update", "findDynamic")
           \/ Goto(t, "findDynamic")
    BY <1>1 DEF FindMode, OnlyThread
  <2>2. "findDynamic" \in Returns
    BY DEF Returns
  <2> QED
    BY <2>1, <2>2, CallElsewhere, GotoElsewhere
<1>2. CASE FindDynamic(t)
  <2> DEFINE met == th[t].key \in dyn[hy.dynamic]
             pc == IF met THEN "found" ELSE "missMode"
  <2>1. th' = [th EXCEPT ![t].found = met, ![t].pc = pc]
    BY <1>2 DEF FindDynamic, Found
  <2>2. Beyond(t, pc)
    OBVIOUS
  <2> HIDE DEF met, pc
  <2>3. Moved(t, pc)
    BY <2>1, AnswerMoves, Zenon
  <2> QED
    BY <1>2, <2>2, <2>3, OnlyMoves DEF FindDynamic, OnlyThread
<1>3. CASE MissMode(t)
  <2>1. /\ At(t, "missMode") /\ hy' = hy
        /\ Goto(t, "loadMerging") \/ Goto(t, "mergedReady") \/ Goto(t, "diskMode")
    BY <1>3 DEF MissMode, OnlyThread
  <2> QED
    BY <2>1, GotoElsewhere
<1>4. CASE LoadMerging(t)
  <2>1. At(t, "loadMerging") /\ hy' = hy
    BY <1>4 DEF LoadMerging, OnlyThread
  <2>2. CASE Goto(t, "diskMode")
    BY <2>1, <2>2, GotoElsewhere
  <2>3. CASE th' = [th EXCEPT ![t].pc = "notReadyNormal", ![t].mg = hy.merging]
    <3> DEFINE r == [th[t] EXCEPT !.pc = "notReadyNormal", !.mg = hy.merging]
    <3>1. th' = [u \in Threads |-> IF u = t THEN r ELSE th[u]]
      BY <2>3 DEF Shape
    <3>2. IsThread(r) /\ r.pc = "notReadyNormal"
      <4>1. IsThread(th[t])
        BY ThreadShape
      <4>2. r.pc = "notReadyNormal"
        BY <4>1 DEF IsThread, ThreadOf
      <4>3. IsThread(r)
        BY <4>1 DEF IsThread, ThreadOf
      <4> QED
        BY <4>2, <4>3
    <3> HIDE DEF r
    <3>3. Moved(t, "notReadyNormal")
      BY <3>1, <3>2, StepMoves
    <3> QED
      BY <2>1, <3>3, OnlyMoves
  <2> QED
    BY <1>4, <2>2, <2>3 DEF LoadMerging
<1>5. CASE MergedReady(t)
  <2>1. /\ At(t, "mergedReady") /\ hy' = hy
        /\ Goto(t, "diskMode") \/ Goto(t, "notReadyNormal")
    BY <1>5 DEF MergedReady, OnlyThread
  <2> QED
    BY <2>1, GotoElsewhere
<1>6. CASE DiskMode(t)
  <2>1. /\ At(t, "diskMode") /\ hy' = hy
        /\ Goto(t, "mergedBackup") \/ Goto(t, "findStatic")
    BY <1>6 DEF DiskMode, OnlyThread
  <2> QED
    BY <2>1, GotoElsewhere
<1>7. CASE MergedBackup(t)
  <2>1. /\ At(t, "mergedBackup") /\ hy' = hy
        /\ Call(t, "update", "reloadBackup") \/ Goto(t, "findStatic")
    BY <1>7 DEF MergedBackup, OnlyThread
  <2>2. "reloadBackup" \in Returns
    BY DEF Returns
  <2> QED
    BY <2>1, <2>2, CallElsewhere, GotoElsewhere
<1>8. CASE ReloadBackup(t)
  <2>1. At(t, "reloadBackup") /\ hy' = hy
    BY <1>8 DEF ReloadBackup, OnlyThread
  <2>2. CASE Goto(t, "findStatic")
    BY <2>1, <2>2, GotoElsewhere
  <2>3. CASE th' = [th EXCEPT ![t].pc = "findBackup", ![t].b = hy.backup]
    <3> DEFINE r == [th[t] EXCEPT !.pc = "findBackup", !.b = hy.backup]
    <3>1. th' = [u \in Threads |-> IF u = t THEN r ELSE th[u]]
      BY <2>3 DEF Shape
    <3>2. IsThread(r) /\ r.pc = "findBackup"
      <4>1. IsThread(th[t])
        BY ThreadShape
      <4>2. r.pc = "findBackup"
        BY <4>1 DEF IsThread, ThreadOf
      <4>3. IsThread(r)
        BY <4>1 DEF IsThread, ThreadOf
      <4> QED
        BY <4>2, <4>3
    <3> HIDE DEF r
    <3>3. Moved(t, "findBackup")
      BY <3>1, <3>2, StepMoves
    <3> QED
      BY <2>1, <3>3, OnlyMoves
  <2> QED
    BY <1>8, <2>2, <2>3 DEF ReloadBackup
<1>9. CASE FindStatic(t)
  <2>1. PICK found :
          th' = [th EXCEPT ![t].pc = "found", ![t].found = found]
    BY <1>9 DEF FindStatic
  <2> DEFINE r == [th[t] EXCEPT !.pc = "found", !.found = found]
  <2>2. th' = [u \in Threads |-> IF u = t THEN r ELSE th[u]]
    BY <2>1 DEF Shape
  <2>3. IsThread(r) /\ r.pc = "found"
    BY ThreadShape DEF IsThread, ThreadOf
  <2> HIDE DEF r
  <2>4. Moved(t, "found")
    BY <2>2, <2>3, StepMoves
  <2> QED
    BY <1>9, <2>4, OnlyMoves DEF FindStatic, OnlyThread
<1>10. CASE FindBackup(t)
  <2>1. PICK found :
          th' = [th EXCEPT ![t].pc = "found", ![t].found = found, ![t].b = NULL]
    BY <1>10 DEF FindBackup
  <2> DEFINE r == [th[t] EXCEPT !.pc = "found", !.found = found, !.b = NULL]
  <2>2. th' = [u \in Threads |-> IF u = t THEN r ELSE th[u]]
    BY <2>1 DEF Shape
  <2>3. IsThread(r) /\ r.pc = "found"
    BY ThreadShape DEF IsThread, ThreadOf
  <2> HIDE DEF r
  <2>4. Moved(t, "found")
    BY <2>2, <2>3, StepMoves
  <2> QED
    BY <1>10, <2>4, OnlyMoves DEF FindBackup, OnlyThread
<1>11. CASE ReturnFind(t)
  BY <1>11, FinishMoves, OnlyMoves DEF ReturnFind, OnlyThread
<1> QED
  BY <1>1, <1>2, <1>3, <1>4, <1>5, <1>6, <1>7, <1>8, <1>9, <1>10, <1>11
     DEF FindOutside

\* The steps of an insert before it is announced and after it is counted out,
\* but for the start of a merge.
InsertOutside(t) ==
  \/ InsertMode(t) \/ AwaitPrepared(t) \/ AwaitMerged(t) \/ AwaitSwapped(t)
  \/ UpdateAllVersion(t) \/ Merge(t) \/ StartOver(t) \/ ReturnInsert(t)

LEMMA InsertElsewhere ==
  ASSUME Shape, NEW t \in Threads, InsertOutside(t)
  PROVE  Elsewhere(t)
<1> USE DEF At, Beyond, Zones, DynZone, DynIn, MrgZone, MrgIn, StartIn
<1>0. {"awaitMerged", "awaitSwapped", "updateAll"} \subseteq Returns
  BY DEF Returns
<1>1. CASE InsertMode(t)
  <2>1. /\ At(t, "insert") /\ hy' = hy
        /\ \/ Goto(t, "prepare") \/ Goto(t, "announce") \/ Goto(t, "awaitPrepared")
           \/ Turn(t, "assist", "awaitMerged", "unread")
           \/ Turn(t, "update", "awaitSwapped", "unread")
    BY <1>1 DEF InsertMode, OnlyThread, Shape, HyShape, Modes
  <2> QED
    BY <1>0, <2>1, TurnElsewhere, GotoElsewhere
<1>2. CASE AwaitPrepared(t)
  BY <1>2, GotoElsewhere DEF AwaitPrepared, OnlyThread
<1>3. CASE AwaitMerged(t)
  <2>1. /\ At(t, "awaitMerged") /\ hy' = hy
        /\ Turn(t, "assist", "awaitMerged", SizesNow) \/ EndSpin(t)
    BY <1>3 DEF AwaitMerged, OnlyThread
  <2>2. th[t].ret \in Returns
    BY ThreadShape DEF IsThread, ThreadOf
  <2> QED
    BY <1>0, <2>1, <2>2, TurnElsewhere DEF EndSpin
<1>4. CASE AwaitSwapped(t)
  <2>1. /\ At(t, "awaitSwapped") /\ hy' = hy
        /\ Turn(t, "update", "awaitSwapped", SizesNow) \/ EndSpin(t)
    BY <1>4 DEF AwaitSwapped, OnlyThread
  <2>2. th[t].ret \in Returns
    BY ThreadShape DEF IsThread, ThreadOf
  <2> QED
    BY <1>0, <2>1, <2>2, TurnElsewhere DEF EndSpin
<1>5. CASE UpdateAllVersion(t)
  <2> DEFINE v == th[t].next
             r1 == [th[t] EXCEPT !.pc = "announce", !.next = 0]
             r2 == [th[t] EXCEPT !.next = v + 1]
             r3 == [r2 EXCEPT !.pc = "update", !.ret = "updateAll", !.who = v]
  <2>1. At(t, "updateAll") /\ hy' = hy
    BY <1>5 DEF UpdateAllVersion, OnlyThread
  <2>2. \/ th' = [th EXCEPT ![t] = r1]
        \/ th' = [th EXCEPT ![t] = r2]
        \/ th' = [th EXCEPT ![t] = r3]
    BY <1>5 DEF UpdateAllVersion
  <2>3. \/ th' = [u \in Threads |-> IF u = t THEN r1 ELSE th[u]]
        \/ th' = [u \in Threads |-> IF u = t THEN r2 ELSE th[u]]
        \/ th' = [u \in Threads |-> IF u = t THEN r3 ELSE th[u]]
    <3> HIDE DEF r1, r2, r3
    <3> QED
      BY <2>2 DEF Shape
  <2>4. IsThread(r1) /\ r1.pc = "announce"
    <3>1. IsThread(th[t])
      BY ThreadShape
    <3>2. r1.pc = "announce"
      BY <3>1 DEF IsThread, ThreadOf
    <3>3. IsThread(r1)
      BY <3>1 DEF IsThread, ThreadOf
    <3> QED
      BY <3>2, <3>3
  <2>5. IsThread(r2) /\ r2.pc = "updateAll"
    BY <2>1, ThreadShape DEF IsThread, ThreadOf
  <2>6. IsThread(r3) /\ r3.pc = "update"
    <3> HIDE DEF r2, v
    <3>1. r3.pc = "update"
      BY <2>5 DEF IsThread, ThreadOf
    <3>2. IsThread(r3)
      BY <1>0, <2>5 DEF IsThread, ThreadOf
    <3> QED
      BY <3>1, <3>2
  <2> HIDE DEF r1, r2, r3
  <2>7. Moved(t, "announce") \/ Moved(t, "updateAll") \/ Moved(t, "update")
    BY <2>3, <2>4, <2>5, <2>6, StepMoves
  <2> QED
    BY <2>1, <2>7, OnlyMoves
<1>6. CASE Merge(t)
  <2>1. CASE SetMerging(t)
    <3>1. HyShape' /\ SameDyn /\ SameMrg /\ SameStart
      BY <2>1 DEF SetMerging, Shape, HyShape, SameDyn, SameMrg, SameStart
    <3>2. Moved(t, "newDynamic")
      BY <2>1, GotoMoves DEF SetMerging
    <3> QED
      BY <2>1, <3>1, <3>2 DEF SetMerging, Elsewhere
  <2>2. CASE NewDynamic(t)
    <3>1. HyShape' /\ SameDyn /\ SameMrg /\ SameStart
      BY <2>2 DEF NewDynamic, Set, Shape, HyShape, SameDyn, SameMrg, SameStart
    <3>2. Moved(t, "collect")
      BY <2>2, GotoMoves DEF NewDynamic
    <3> QED
      BY <2>2, <3>1, <3>2 DEF NewDynamic, Elsewhere
  <2>3. CASE Collect(t)
    BY <2>3, GotoElsewhere DEF Collect
  <2>4. CASE CopyStatic(t)
    <3> DEFINE r == [th[t] EXCEPT !.pc = "publish", !.b = Len(sta) + 1]
    <3>1. th' = [u \in Threads |-> IF u = t THEN r ELSE th[u]]
      BY <2>4 DEF CopyStatic, Shape
    <3>2. IsThread(r) /\ r.pc = "publish"
      <4>1. IsThread(th[t])
        BY ThreadShape
      <4>2. r.pc = "publish"
        BY <4>1 DEF IsThread, ThreadOf
      <4>3. IsThread(r)
        BY <4>1 DEF IsThread, ThreadOf
      <4> QED
        BY <4>2, <4>3
    <3> HIDE DEF r
    <3>3. Moved(t, "publish")
      BY <3>1, <3>2, StepMoves
    <3> QED
      BY <2>4, <3>3, OnlyMoves DEF CopyStatic, OnlyStatic
  <2>5. CASE PublishBackup(t)
    <3>1. HyShape' /\ SameDyn /\ SameMrg /\ SameStart
      BY <2>5 DEF PublishBackup, Set, Shape, HyShape, SameDyn, SameMrg, SameStart
    <3>2. Moved(t, "partition")
      BY <2>5, GotoMoves DEF PublishBackup
    <3> QED
      BY <2>5, <3>1, <3>2 DEF PublishBackup, Elsewhere
  <2>6. CASE PartitionData(t)
    BY <2>6, GotoElsewhere DEF PartitionData, OnlyStatic
  <2>7. CASE Offer(t)
    BY <2>7, GotoElsewhere DEF Offer, OnlyStatic
  <2>8. CASE ResetVersionCount(t)
    <3> DEFINE r == [th[t] EXCEPT !.pc = "loadTask", !.then = "announce"]
    <3>1. th' = [u \in Threads |-> IF u = t THEN r ELSE th[u]]
      BY <2>8 DEF ResetVersionCount, Shape
    <3>2. IsThread(r) /\ r.pc = "loadTask"
      <4>1. IsThread(th[t])
        BY ThreadShape
      <4>2. r.pc = "loadTask"
        BY <4>1 DEF IsThread, ThreadOf
      <4>3. IsThread(r)
        BY <4>1 DEF IsThread, ThreadOf, Nexts
      <4> QED
        BY <4>2, <4>3
    <3> HIDE DEF r
    <3>3. Moved(t, "loadTask")
      BY <3>1, <3>2, StepMoves
    <3> QED
      BY <2>8, <3>3, OnlyMoves DEF ResetVersionCount, OnlyStatic
  <2> QED
    BY <1>6, <2>1, <2>2, <2>3, <2>4, <2>5, <2>6, <2>7, <2>8 DEF Merge
<1>7. CASE StartOver(t)
  BY <1>7, GotoElsewhere DEF StartOver, OnlyThread
<1>8. CASE ReturnInsert(t)
  BY <1>8, FinishMoves, OnlyMoves DEF ReturnInsert
<1> QED
  BY <1>1, <1>2, <1>3, <1>4, <1>5, <1>6, <1>7, <1>8 DEF InsertOutside

\* A request starts at its first step.
\* A thread that begins has a request left.
LEMMA NextRequest ==
  ASSUME Shape, NEW t \in Threads, Begin(t)
  PROVE  Workload[t][th[t].done + 1] \in [kind : {"find", "insert"}, key : Keys]
<1>1. Workload[t] \in Seq([kind : {"find", "insert"}, key : Keys])
  BY WorkloadAssumption
<1> DEFINE S == [kind : {"find", "insert"}, key : Keys]
           requests == Workload[t]
           n == th[t].done + 1
<1>2. th[t].done \in Nat /\ th[t].done < Len(requests)
  BY DEF Shape, IsThread, ThreadOf, Begin
<1>3. requests \in Seq(S) /\ Len(requests) \in Nat
  BY <1>1
<1>4. n \in 1 .. Len(requests)
  BY <1>2, <1>3
<1> HIDE DEF S, requests, n
<1>5. requests[n] \in S
  BY <1>3, <1>4
<1> QED
  BY <1>5 DEF S, requests, n

LEMMA BeginElsewhere ==
  ASSUME Shape, NEW t \in Threads, Begin(t)
  PROVE  Elsewhere(t)
<1> USE DEF At, Beyond, Zones, DynZone, DynIn, MrgZone, MrgIn, StartIn
<1> DEFINE request == Workload[t][th[t].done + 1]
           must == request.kind = "find" /\ request.key \in returned \cup Stored0
<1>1. th' = [th EXCEPT ![t].pc = request.kind, ![t].kind = request.kind,
                       ![t].key = request.key, ![t].who = t, ![t].must = must]
  BY DEF Begin
<1>2. At(t, "idle") /\ hy' = hy /\ th[t].done < Len(Workload[t])
  BY DEF Begin, OnlyThread
<1>3. request.kind \in {"find", "insert"}
  BY NextRequest
<1> DEFINE kind == request.kind
           key == request.key
           r == [th[t] EXCEPT !.pc = kind, !.kind = kind, !.key = key, !.who = t,
                              !.must = must]
<1>4. th' = [u \in Threads |-> IF u = t THEN r ELSE th[u]]
  BY <1>1 DEF Shape
<1>5. Beyond(t, kind)
  BY <1>3
<1> HIDE DEF kind, key, must
<1>6. IsThread(th[t])
  BY ThreadShape
<1>7. r.pc = kind
  BY <1>6 DEF IsThread, ThreadOf
<1>8. IsThread(r)
  BY <1>6 DEF IsThread, ThreadOf
<1> HIDE DEF r
<1>9. Moved(t, kind)
  BY <1>4, <1>7, <1>8, StepMoves
<1> QED
  BY <1>2, <1>5, <1>9, OnlyMoves

-----------------------------------------------------------------------------
\* The steps of an insert through the dynamic index, which opsDynamic counts.
LEMMA AnnounceKeeps ==
  ASSUME IInv, NEW t \in Threads, Announce(t)
  PROVE  IInv'
<1> DEFINE r == [th[t] EXCEPT !.pc = "enterDynamic", !.b = NULL, !.task = -1,
                              !.then = "", !.ret = ""]
<1> USE DEF At, DynZone, DynIn, MrgZone, MrgIn, StartIn
<1>1. At(t, "announce") /\ Set("readyMerge", FALSE) /\ Shape
  BY DEF Announce, IInv
<1>2. th' = [u \in Threads |-> IF u = t THEN r ELSE th[u]]
  BY DEF Announce, IInv, Shape
<1>3. IsThread(th[t])
  BY <1>1, ThreadShape
<1>4. r.pc = "enterDynamic"
  BY <1>3 DEF IsThread, ThreadOf
<1>5. IsThread(r)
  BY <1>3 DEF IsThread, ThreadOf, Returns, Nexts
<1> HIDE DEF r
<1>6. Moved(t, "enterDynamic")
  BY <1>1, <1>2, <1>4, <1>5, StepMoves
<1>7. /\ HyShape' /\ SameMrg /\ SameStart /\ hy'.opsDynamic = hy.opsDynamic
  BY <1>1 DEF Set, Shape, HyShape, SameMrg, SameStart
<1>8. Shape'
  BY <1>1, <1>6, <1>7, MovedShape
<1>9. DynPart'
  <2>1. InsideDynamic' = InsideDynamic
    BY <1>1, <1>6 DEF Moved, InsideDynamic
  <2>2. th'[t].pc \in DynZone
    BY <1>6 DEF Moved
  <2> QED
    BY <1>7, <2>1, <2>2 DEF IInv, DynPart
<1>10. MrgPart'
  BY <1>1, <1>6, <1>7, MrgSame DEF IInv
<1>11. OneStarter'
  BY <1>1, <1>6, <1>7, StartSame DEF IInv
<1> QED
  BY <1>8, <1>9, <1>10, <1>11 DEF IInv

LEMMA EnterDynamicKeeps ==
  ASSUME IInv, NEW t \in Threads, EnterDynamic(t)
  PROVE  IInv'
<1> USE DEF At, DynZone, DynIn, MrgZone, MrgIn, StartIn
<1>1. At(t, "enterDynamic") /\ Set("opsDynamic", hy.opsDynamic + 1) /\ Shape
  BY DEF EnterDynamic, IInv
<1>2. Moved(t, "loadDynamic")
  BY <1>1, GotoMoves DEF EnterDynamic
<1>3. /\ HyShape' /\ SameMrg /\ SameStart
      /\ hy'.opsDynamic = hy.opsDynamic + 1
  BY <1>1 DEF Set, Shape, HyShape, SameMrg, SameStart
<1>4. Shape'
  BY <1>1, <1>2, <1>3, MovedShape
<1>5. DynPart'
  <2>1. InsideDynamic' = InsideDynamic \cup {t} /\ t \notin InsideDynamic
    BY <1>1, <1>2 DEF Moved, InsideDynamic
  <2>2. IsFiniteSet(InsideDynamic)
    BY StaticAssumption, FS_Subset DEF InsideDynamic
  <2>3. Cardinality(InsideDynamic') = Cardinality(InsideDynamic) + 1
    BY <2>1, <2>2, FS_AddElement
  <2>4. th'[t].pc \in DynZone
    BY <1>2 DEF Moved
  <2> QED
    BY <1>3, <2>3, <2>4 DEF IInv, DynPart
<1>6. MrgPart'
  BY <1>1, <1>2, <1>3, MrgSame DEF IInv
<1>7. OneStarter'
  BY <1>1, <1>2, <1>3, StartSame DEF IInv
<1> QED
  BY <1>4, <1>5, <1>6, <1>7 DEF IInv

\* The last one out of the index has yet to set the flag; if it was not the
\* last one, another is in.
LEMMA LeaveDynamicKeeps ==
  ASSUME IInv, NEW t \in Threads, LeaveDynamic(t)
  PROVE  IInv'
<1> DEFINE pc == IF hy.opsDynamic = 1 THEN "readyMerge" ELSE Left(t)
<1> USE DEF At, DynZone, DynIn, MrgZone, MrgIn, StartIn
<1>1. At(t, "leaveDynamic") /\ Set("opsDynamic", hy.opsDynamic - 1) /\ Shape
  BY DEF LeaveDynamic, IInv
<1>2. Goto(t, pc)
  BY DEF LeaveDynamic
<1>3. Moved(t, pc)
  BY <1>1, <1>2, GotoMoves
<1>4. pc \in {"readyMerge", "inserted", "startOver"} /\ (hy.opsDynamic = 1 => pc = "readyMerge")
  BY DEF Left
<1> HIDE DEF pc
<1>5. /\ HyShape' /\ SameMrg /\ SameStart
      /\ hy'.opsDynamic = hy.opsDynamic - 1
  BY <1>1 DEF Set, Shape, HyShape, SameMrg, SameStart
<1>6. Shape'
  BY <1>1, <1>3, <1>5, MovedShape
<1>7. DynPart'
  <2>1. InsideDynamic' = InsideDynamic \ {t} /\ t \in InsideDynamic
    BY <1>1, <1>3, <1>4 DEF Moved, InsideDynamic
  <2>2. IsFiniteSet(InsideDynamic)
    BY StaticAssumption, FS_Subset DEF InsideDynamic
  <2>3. Cardinality(InsideDynamic') = Cardinality(InsideDynamic) - 1
    BY <2>1, <2>2, FS_RemoveElement
  <2>4. \E u \in Threads : th'[u].pc \in DynZone
    <3>1. CASE hy.opsDynamic = 1
      BY <1>3, <1>4, <3>1 DEF Moved
    <3>2. CASE hy.opsDynamic # 1
      <4>1. Cardinality(InsideDynamic) # 1
        BY <3>2 DEF IInv, DynPart
      <4>2. InsideDynamic # {t}
        BY <4>1, FS_Singleton
      <4>3. PICK u \in InsideDynamic : u # t
        BY <2>1, <4>2
      <4> QED
        BY <1>3, <4>3 DEF Moved, InsideDynamic
    <3> QED
      BY <3>1, <3>2
  <2> QED
    BY <1>5, <2>3, <2>4 DEF IInv, DynPart
<1>8. MrgPart'
  BY <1>1, <1>3, <1>4, <1>5, MrgSame DEF IInv
<1>9. OneStarter'
  BY <1>1, <1>3, <1>4, <1>5, StartSame DEF IInv
<1> QED
  BY <1>6, <1>7, <1>8, <1>9 DEF IInv

LEMMA ReadyToMergeKeeps ==
  ASSUME IInv, NEW t \in Threads, ReadyToMerge(t)
  PROVE  IInv'
<1> USE DEF At, DynZone, DynIn, MrgZone, MrgIn, StartIn
<1>1. At(t, "readyMerge") /\ Set("readyMerge", TRUE) /\ Shape
  BY DEF ReadyToMerge, IInv
<1>2. PICK pc \in {"inserted", "startOver"} : Goto(t, pc)
  BY DEF ReadyToMerge, Left
<1>3. Moved(t, pc)
  BY <1>1, <1>2, GotoMoves
<1>4. /\ HyShape' /\ SameMrg /\ SameStart
      /\ hy'.opsDynamic = hy.opsDynamic /\ hy'.readyMerge
  BY <1>1 DEF Set, Shape, HyShape, SameMrg, SameStart
<1>5. Shape'
  BY <1>1, <1>3, <1>4, MovedShape
<1>6. DynPart'
  <2>1. InsideDynamic' = InsideDynamic
    BY <1>1, <1>2, <1>3 DEF Moved, InsideDynamic
  <2> QED
    BY <1>4, <2>1 DEF IInv, DynPart
<1>7. MrgPart'
  BY <1>1, <1>2, <1>3, <1>4, MrgSame DEF IInv
<1>8. OneStarter'
  BY <1>1, <1>2, <1>3, <1>4, StartSame DEF IInv
<1> QED
  BY <1>5, <1>6, <1>7, <1>8 DEF IInv

\* Steps within the index.
LEMMA InsideDynamicKeeps ==
  ASSUME IInv, NEW t \in Threads, LoadDynamic(t) \/ RecheckMode(t) \/ InsertKey(t)
  PROVE  IInv'
<1> USE DEF At, DynZone, DynIn, MrgZone, MrgIn, StartIn
<1>1. /\ th[t].pc \in {"loadDynamic", "recheckMode", "insertKey"} /\ hy' = hy /\ Shape
  BY DEF LoadDynamic, RecheckMode, InsertKey, OnlyThread, IInv
<1>2. PICK pc \in {"recheckMode", "leaveDynamic", "insertKey"} : Moved(t, pc)
  <2>1. IsThread(th[t])
    BY <1>1, ThreadShape
  <2>2. CASE LoadDynamic(t)
    <3> DEFINE r == [th[t] EXCEPT !.pc = "recheckMode", !.dy = hy.dynamic]
    <3>1. th' = [u \in Threads |-> IF u = t THEN r ELSE th[u]]
      BY <1>1, <2>2 DEF LoadDynamic, Shape
    <3>2. IsThread(r) /\ r.pc = "recheckMode"
      BY <2>1 DEF IsThread, ThreadOf
    <3> HIDE DEF r
    <3> QED
      BY <1>1, <3>1, <3>2, StepMoves
  <2>3. CASE RecheckMode(t)
    <3> DEFINE r == [th[t] EXCEPT !.pc = "leaveDynamic", !.dy = NULL]
               s == [th[t] EXCEPT !.pc = "insertKey"]
    <3>1. \/ th' = [u \in Threads |-> IF u = t THEN r ELSE th[u]]
          \/ th' = [u \in Threads |-> IF u = t THEN s ELSE th[u]]
      BY <1>1, <2>3 DEF RecheckMode, Shape
    <3>2. IsThread(r) /\ r.pc = "leaveDynamic"
      BY <2>1 DEF IsThread, ThreadOf
    <3>3. IsThread(s) /\ s.pc = "insertKey"
      BY <2>1 DEF IsThread, ThreadOf
    <3> HIDE DEF r, s
    <3> QED
      BY <1>1, <3>1, <3>2, <3>3, StepMoves
  <2>4. CASE InsertKey(t)
    <3> DEFINE r == [th[t] EXCEPT !.pc = "leaveDynamic", !.found = TRUE]
    <3>1. th' = [u \in Threads |-> IF u = t THEN r ELSE th[u]]
      BY <1>1, <2>4 DEF InsertKey, Shape
    <3>2. IsThread(r) /\ r.pc = "leaveDynamic"
      BY <2>1 DEF IsThread, ThreadOf
    <3> HIDE DEF r
    <3> QED
      BY <1>1, <3>1, <3>2, StepMoves
  <2> QED
    BY <2>2, <2>3, <2>4
<1>3. HyShape' /\ SameDyn /\ SameMrg /\ SameStart
  BY <1>1 DEF Shape, HyShape, SameDyn, SameMrg, SameStart
<1>4. Shape'
  BY <1>1, <1>2, <1>3, MovedShape
<1>5. DynPart'
  BY <1>1, <1>2, <1>3, DynSame DEF IInv
<1>6. MrgPart'
  BY <1>1, <1>2, <1>3, MrgSame DEF IInv
<1>7. OneStarter'
  BY <1>1, <1>2, <1>3, StartSame DEF IInv
<1> QED
  BY <1>4, <1>5, <1>6, <1>7 DEF IInv

-----------------------------------------------------------------------------
\* The steps of a find through the merging index, which opsMerging counts.
LEMMA NotReadyToNormalKeeps ==
  ASSUME IInv, NEW t \in Threads, NotReadyToNormal(t)
  PROVE  IInv'
<1> USE DEF At, DynZone, DynIn, MrgZone, MrgIn, StartIn
<1>1. At(t, "notReadyNormal") /\ Set("readyNormal", FALSE) /\ Shape
  BY DEF NotReadyToNormal, IInv
<1>2. Moved(t, "enterMerging")
  BY <1>1, GotoMoves DEF NotReadyToNormal
<1>3. /\ HyShape' /\ SameDyn /\ SameStart /\ hy'.opsMerging = hy.opsMerging
  BY <1>1 DEF Set, Shape, HyShape, SameDyn, SameStart
<1>4. Shape'
  BY <1>1, <1>2, <1>3, MovedShape
<1>5. MrgPart'
  <2>1. InsideMerging' = InsideMerging
    BY <1>1, <1>2 DEF Moved, InsideMerging
  <2>2. th'[t].pc \in MrgZone
    BY <1>2 DEF Moved
  <2> QED
    BY <1>3, <2>1, <2>2 DEF IInv, MrgPart
<1>6. DynPart'
  BY <1>1, <1>2, <1>3, DynSame DEF IInv
<1>7. OneStarter'
  BY <1>1, <1>2, <1>3, StartSame DEF IInv
<1> QED
  BY <1>4, <1>5, <1>6, <1>7 DEF IInv

LEMMA EnterMergingKeeps ==
  ASSUME IInv, NEW t \in Threads, EnterMerging(t)
  PROVE  IInv'
<1> USE DEF At, DynZone, DynIn, MrgZone, MrgIn, StartIn
<1>1. At(t, "enterMerging") /\ Set("opsMerging", hy.opsMerging + 1) /\ Shape
  BY DEF EnterMerging, IInv
<1>2. PICK pc \in {"mergedPointer", "findMerging"} : Goto(t, pc)
  BY DEF EnterMerging
<1>3. Moved(t, pc)
  BY <1>1, <1>2, GotoMoves
<1>4. /\ HyShape' /\ SameDyn /\ SameStart
      /\ hy'.opsMerging = hy.opsMerging + 1
  BY <1>1 DEF Set, Shape, HyShape, SameDyn, SameStart
<1>5. Shape'
  BY <1>1, <1>3, <1>4, MovedShape
<1>6. MrgPart'
  <2>1. InsideMerging' = InsideMerging \cup {t} /\ t \notin InsideMerging
    BY <1>1, <1>2, <1>3 DEF Moved, InsideMerging
  <2>2. IsFiniteSet(InsideMerging)
    BY StaticAssumption, FS_Subset DEF InsideMerging
  <2>3. Cardinality(InsideMerging') = Cardinality(InsideMerging) + 1
    BY <2>1, <2>2, FS_AddElement
  <2>4. th'[t].pc \in MrgZone
    BY <1>2, <1>3 DEF Moved
  <2> QED
    BY <1>4, <2>3, <2>4 DEF IInv, MrgPart
<1>7. DynPart'
  BY <1>1, <1>2, <1>3, <1>4, DynSame DEF IInv
<1>8. OneStarter'
  BY <1>1, <1>2, <1>3, <1>4, StartSame DEF IInv
<1> QED
  BY <1>5, <1>6, <1>7, <1>8 DEF IInv

LEMMA LeaveMergingKeeps ==
  ASSUME IInv, NEW t \in Threads, LeaveMerging(t)
  PROVE  IInv'
<1> DEFINE pc == IF hy.opsMerging = 1 THEN "readyNormal"
                 ELSE IF th[t].found THEN "found" ELSE "diskMode"
<1> USE DEF At, DynZone, DynIn, MrgZone, MrgIn, StartIn
<1>1. At(t, "leaveMerging") /\ Set("opsMerging", hy.opsMerging - 1) /\ Shape
  BY DEF LeaveMerging, IInv
<1>2. Goto(t, pc)
  BY DEF LeaveMerging
<1>3. Moved(t, pc)
  BY <1>1, <1>2, GotoMoves
<1>4. pc \in {"readyNormal", "found", "diskMode"} /\ (hy.opsMerging = 1 => pc = "readyNormal")
  OBVIOUS
<1> HIDE DEF pc
<1>5. /\ HyShape' /\ SameDyn /\ SameStart
      /\ hy'.opsMerging = hy.opsMerging - 1
  BY <1>1 DEF Set, Shape, HyShape, SameDyn, SameStart
<1>6. Shape'
  BY <1>1, <1>3, <1>5, MovedShape
<1>7. MrgPart'
  <2>1. InsideMerging' = InsideMerging \ {t} /\ t \in InsideMerging
    BY <1>1, <1>3, <1>4 DEF Moved, InsideMerging
  <2>2. IsFiniteSet(InsideMerging)
    BY StaticAssumption, FS_Subset DEF InsideMerging
  <2>3. Cardinality(InsideMerging') = Cardinality(InsideMerging) - 1
    BY <2>1, <2>2, FS_RemoveElement
  <2>4. \E u \in Threads : th'[u].pc \in MrgZone
    <3>1. CASE hy.opsMerging = 1
      BY <1>3, <1>4, <3>1 DEF Moved
    <3>2. CASE hy.opsMerging # 1
      <4>1. Cardinality(InsideMerging) # 1
        BY <3>2 DEF IInv, MrgPart
      <4>2. InsideMerging # {t}
        BY <4>1, FS_Singleton
      <4>3. PICK u \in InsideMerging : u # t
        BY <2>1, <4>2
      <4> QED
        BY <1>3, <4>3 DEF Moved, InsideMerging
    <3> QED
      BY <3>1, <3>2
  <2> QED
    BY <1>5, <2>3, <2>4 DEF IInv, MrgPart
<1>8. DynPart'
  BY <1>1, <1>3, <1>4, <1>5, DynSame DEF IInv
<1>9. OneStarter'
  BY <1>1, <1>3, <1>4, <1>5, StartSame DEF IInv
<1> QED
  BY <1>6, <1>7, <1>8, <1>9 DEF IInv

LEMMA ReadyToNormalKeeps ==
  ASSUME IInv, NEW t \in Threads, ReadyToNormal(t)
  PROVE  IInv'
<1> USE DEF At, DynZone, DynIn, MrgZone, MrgIn, StartIn
<1>1. At(t, "readyNormal") /\ Set("readyNormal", TRUE) /\ Shape
  BY DEF ReadyToNormal, IInv
<1>2. PICK pc \in {"found", "diskMode"} : Goto(t, pc)
  BY DEF ReadyToNormal
<1>3. Moved(t, pc)
  BY <1>1, <1>2, GotoMoves
<1>4. /\ HyShape' /\ SameDyn /\ SameStart
      /\ hy'.opsMerging = hy.opsMerging /\ hy'.readyNormal
  BY <1>1 DEF Set, Shape, HyShape, SameDyn, SameStart
<1>5. Shape'
  BY <1>1, <1>3, <1>4, MovedShape
<1>6. MrgPart'
  <2>1. InsideMerging' = InsideMerging
    BY <1>1, <1>2, <1>3 DEF Moved, InsideMerging
  <2> QED
    BY <1>4, <2>1 DEF IInv, MrgPart
<1>7. DynPart'
  BY <1>1, <1>2, <1>3, <1>4, DynSame DEF IInv
<1>8. OneStarter'
  BY <1>1, <1>2, <1>3, <1>4, StartSame DEF IInv
<1> QED
  BY <1>5, <1>6, <1>7, <1>8 DEF IInv

LEMMA InsideMergingKeeps ==
  ASSUME IInv, NEW t \in Threads, MergedPointer(t) \/ FindMerging(t)
  PROVE  IInv'
<1> USE DEF At, DynZone, DynIn, MrgZone, MrgIn, StartIn
<1>1. th[t].pc \in {"mergedPointer", "findMerging"} /\ hy' = hy /\ Shape
  BY DEF MergedPointer, FindMerging, OnlyThread, IInv
<1>2. PICK pc \in {"nullDereference", "findMerging", "leaveMerging"} : Moved(t, pc)
  <2>1. IsThread(th[t])
    BY <1>1, ThreadShape
  <2>2. CASE MergedPointer(t)
    <3> DEFINE pc == IF hy.merging = NULL THEN "nullDereference" ELSE "findMerging"
               r == [th[t] EXCEPT !.mg = hy.merging, !.pc = pc]
    <3>1. th' = [u \in Threads |-> IF u = t THEN r ELSE th[u]]
      BY <1>1, <2>2 DEF MergedPointer, Shape
    <3>2. pc \in {"nullDereference", "findMerging"}
      OBVIOUS
    <3> HIDE DEF pc
    <3>3. r.pc = pc
      BY <2>1 DEF IsThread, ThreadOf
    <3>4. IsThread(r)
      BY <2>1 DEF IsThread, ThreadOf
    <3> HIDE DEF r
    <3> QED
      BY <1>1, <3>1, <3>2, <3>3, <3>4, StepMoves
  <2>3. CASE FindMerging(t)
    <3>1. PICK found : th' = [th EXCEPT ![t].found = found, ![t].pc = "leaveMerging",
                                        ![t].mg = NULL]
      BY <2>3 DEF FindMerging
    <3> DEFINE r == [th[t] EXCEPT !.found = found, !.pc = "leaveMerging", !.mg = NULL]
    <3>2. th' = [u \in Threads |-> IF u = t THEN r ELSE th[u]]
      BY <1>1, <3>1 DEF Shape
    <3>3. r.pc = "leaveMerging"
      BY <2>1 DEF IsThread, ThreadOf
    <3>4. IsThread(r)
      BY <2>1 DEF IsThread, ThreadOf
    <3> HIDE DEF r
    <3> QED
      BY <1>1, <3>2, <3>3, <3>4, StepMoves
  <2> QED
    BY <2>2, <2>3
<1>3. HyShape' /\ SameDyn /\ SameMrg /\ SameStart
  BY <1>1 DEF Shape, HyShape, SameDyn, SameMrg, SameStart
<1>4. Shape'
  BY <1>1, <1>2, <1>3, MovedShape
<1>5. DynPart'
  BY <1>1, <1>2, <1>3, DynSame DEF IInv
<1>6. MrgPart'
  BY <1>1, <1>2, <1>3, MrgSame DEF IInv
<1>7. OneStarter'
  BY <1>1, <1>2, <1>3, StartSame DEF IInv
<1> QED
  BY <1>4, <1>5, <1>6, <1>7 DEF IInv

-----------------------------------------------------------------------------
\* The start of a merge.  Only in normal mode can the swap to PrepareToMerge
\* succeed, and then no thread has won it before.
LEMMA PrepareKeeps ==
  ASSUME IInv, NEW t \in Threads, Prepare(t)
  PROVE  IInv'
<1> USE DEF At, DynZone, DynIn, MrgZone, MrgIn, StartIn
<1>1. At(t, "prepare") /\ Shape
  BY DEF Prepare, IInv
<1>2. CASE hy.mode = "Normal" /\ Set("mode", "Prepare") /\ Goto(t, "awaitReady")
  <2>1. Moved(t, "awaitReady")
    BY <1>1, <1>2, GotoMoves
  <2>2. HyShape' /\ SameDyn /\ SameMrg /\ hy'.mode = "Prepare"
    BY <1>1, <1>2 DEF Set, Shape, HyShape, SameDyn, SameMrg, Modes
  <2>3. Shape'
    BY <1>1, <2>1, <2>2, MovedShape
  <2>4. DynPart'
    BY <1>1, <2>1, <2>2, DynSame DEF IInv
  <2>5. MrgPart'
    BY <1>1, <2>1, <2>2, MrgSame DEF IInv
  <2>6. OneStarter'
    <3>1. \A u \in Threads : th[u].pc \notin StartIn
      BY <1>2 DEF IInv, OneStarter
    <3>2. \A u \in Threads : th'[u].pc \in StartIn <=> u = t
      BY <2>1, <3>1 DEF Moved
    <3> QED
      BY <2>2, <3>2 DEF OneStarter
  <2> QED
    BY <2>3, <2>4, <2>5, <2>6 DEF IInv
<1>3. CASE Goto(t, "announce") /\ hy' = hy
  <2>1. Elsewhere(t)
    BY <1>1, <1>3, GotoElsewhere DEF Beyond, Zones
  <2> QED
    BY <2>1, ElsewhereKeeps
<1> QED
  BY <1>2, <1>3 DEF Prepare

\* The wait for the inserts under way ends, or is given up.
LEMMA StarterGoesOn ==
  ASSUME IInv, NEW t \in Threads, At(t, "awaitReady"), Goto(t, "toMerging"), hy' = hy
  PROVE  IInv'
<1> USE DEF At, DynZone, DynIn, MrgZone, MrgIn, StartIn
<1>1. Moved(t, "toMerging") /\ Shape
  BY GotoMoves DEF IInv
<1>2. HyShape' /\ SameDyn /\ SameMrg /\ SameStart
  BY <1>1 DEF Shape, HyShape, SameDyn, SameMrg, SameStart
<1>3. Shape'
  BY <1>1, <1>2, MovedShape
<1>4. DynPart'
  BY <1>1, <1>2, DynSame DEF IInv
<1>5. MrgPart'
  BY <1>1, <1>2, MrgSame DEF IInv
<1>6. OneStarter'
  BY <1>1, <1>2, StartSame DEF IInv
<1> QED
  BY <1>3, <1>4, <1>5, <1>6 DEF IInv

LEMMA ToMergingKeeps ==
  ASSUME IInv, NEW t \in Threads, ToMerging(t)
  PROVE  IInv'
<1> USE DEF At, DynZone, DynIn, MrgZone, MrgIn, StartIn
<1>1. /\ At(t, "toMerging") /\ hy.mode = "Prepare" /\ Set("mode", "Merging")
      /\ Goto(t, "setMerging") /\ Shape
  BY DEF ToMerging, IInv
<1>2. Moved(t, "setMerging")
  BY <1>1, GotoMoves
<1>3. HyShape' /\ SameDyn /\ SameMrg /\ hy'.mode = "Merging"
  BY <1>1 DEF Set, Shape, HyShape, SameDyn, SameMrg, Modes
<1>4. Shape'
  BY <1>1, <1>2, <1>3, MovedShape
<1>5. DynPart'
  BY <1>1, <1>2, <1>3, DynSame DEF IInv
<1>6. MrgPart'
  BY <1>1, <1>2, <1>3, MrgSame DEF IInv
<1>7. OneStarter'
  <2>1. \A u \in Threads : u # t => th[u].pc \notin StartIn
    BY <1>1 DEF IInv, OneStarter
  <2>2. \A u \in Threads : th'[u].pc \notin StartIn
    BY <1>2, <2>1 DEF Moved
  <2> QED
    BY <1>3, <2>2 DEF OneStarter
<1> QED
  BY <1>4, <1>5, <1>6, <1>7 DEF IInv

LEMMA GiveUpKeeps ==
  ASSUME IInv, NEW t \in Threads, GiveUp(t)
  PROVE  IInv'
<1>1. /\ th[t].pc \in {"awaitReady", "awaitPrepared", "awaitMerged", "awaitSwapped",
                       "awaitNormal"}
      /\ Goto(t, AfterSpin[th[t].pc]) /\ hy' = hy /\ Shape
  BY WorkloadAssumption DEF GiveUp, OnlyThread, AfterSpin, IInv
<1>2. CASE At(t, "awaitReady")
  <2>1. Goto(t, "toMerging")
    BY <1>1, <1>2 DEF AfterSpin, At
  <2> QED
    BY <1>1, <1>2, <2>1, StarterGoesOn
<1>3. CASE ~At(t, "awaitReady")
  <2>1. Goto(t, "announce") \/ Goto(t, "updateAll") \/ Goto(t, "dropMerging")
    BY <1>1, <1>3 DEF AfterSpin, At
  <2>2. Elsewhere(t)
    BY <1>1, <1>3, <2>1, GotoElsewhere
       DEF At, Beyond, Zones, DynZone, DynIn, MrgZone, MrgIn, StartIn
  <2> QED
    BY <2>2, ElsewhereKeeps
<1> QED
  BY <1>2, <1>3

-----------------------------------------------------------------------------
LEMMA InitIInv == Init => IInv
<1> SUFFICES ASSUME Init PROVE IInv
  OBVIOUS
<1>1. IsThread(Idle) /\ Idle.pc = "idle"
  BY DEF Idle, IsThread, ThreadOf, Returns, Nexts
<1>2. \A t \in Threads : th[t] = Idle
  BY DEF Init
<1>3. HyShape
  BY DEF Init, HyShape, Modes
<1>4. Shape
  BY <1>1, <1>2, <1>3 DEF Init, Shape
<1>5. InsideDynamic = {} /\ InsideMerging = {}
  BY <1>1, <1>2 DEF InsideDynamic, InsideMerging
<1>6. DynPart /\ MrgPart
  BY <1>5, FS_EmptySet DEF Init, DynPart, MrgPart
<1>7. OneStarter
  BY <1>1, <1>2 DEF Init, OneStarter, StartIn
<1> QED
  BY <1>4, <1>6, <1>7 DEF IInv

LEMMA StepKeepsIInv == IInv /\ [Next]_vars => IInv'
<1> SUFFICES ASSUME IInv, [Next]_vars PROVE IInv'
  OBVIOUS
<1>1. ASSUME NEW t \in Threads, Begin(t) PROVE IInv'
  BY <1>1, BeginElsewhere, ElsewhereKeeps DEF IInv
<1>2. ASSUME NEW t \in Threads, AssignedToMerge(t) PROVE IInv'
  BY <1>2, AssignedToMergeElsewhere, ElsewhereKeeps DEF IInv
<1>3. ASSUME NEW t \in Threads, UpdateVersion(t) PROVE IInv'
  BY <1>3, UpdateVersionElsewhere, ElsewhereKeeps DEF IInv
<1>4. ASSUME NEW t \in Threads, Find(t) PROVE IInv'
  <2>1. CASE FindOutside(t)
    BY <2>1, FindElsewhere, ElsewhereKeeps DEF IInv
  <2>2. CASE NotReadyToNormal(t)
    BY <2>2, NotReadyToNormalKeeps
  <2>3. CASE EnterMerging(t)
    BY <2>3, EnterMergingKeeps
  <2>4. CASE MergedPointer(t) \/ FindMerging(t)
    BY <2>4, InsideMergingKeeps
  <2>5. CASE LeaveMerging(t)
    BY <2>5, LeaveMergingKeeps
  <2>6. CASE ReadyToNormal(t)
    BY <2>6, ReadyToNormalKeeps
  <2> QED
    BY <1>4, <2>1, <2>2, <2>3, <2>4, <2>5, <2>6 DEF Find, FindOutside
<1>5. ASSUME NEW t \in Threads, Insert(t) PROVE IInv'
  <2>1. CASE InsertOutside(t)
    BY <2>1, InsertElsewhere, ElsewhereKeeps DEF IInv
  <2>2. CASE Prepare(t)
    BY <2>2, PrepareKeeps
  <2>3. CASE AwaitReadyToMerge(t)
    BY <2>3, StarterGoesOn DEF AwaitReadyToMerge, OnlyThread
  <2>4. CASE ToMerging(t)
    BY <2>4, ToMergingKeeps
  <2>5. CASE Announce(t)
    BY <2>5, AnnounceKeeps
  <2>6. CASE EnterDynamic(t)
    BY <2>6, EnterDynamicKeeps
  <2>7. CASE LoadDynamic(t) \/ RecheckMode(t) \/ InsertKey(t)
    BY <2>7, InsideDynamicKeeps
  <2>8. CASE LeaveDynamic(t)
    BY <2>8, LeaveDynamicKeeps
  <2>9. CASE ReadyToMerge(t)
    BY <2>9, ReadyToMergeKeeps
  <2> QED
    BY <1>5, <2>1, <2>2, <2>3, <2>4, <2>5, <2>6, <2>7, <2>8, <2>9
       DEF Insert, InsertOutside
<1>6. ASSUME NEW t \in Threads, GiveUp(t) PROVE IInv'
  BY <1>6, GiveUpKeeps
<1>7. CASE UNCHANGED vars
  BY <1>7 DEF vars, IInv, Shape, HyShape, DynPart, MrgPart, OneStarter,
              InsideDynamic, InsideMerging
<1> QED
  BY <1>1, <1>2, <1>3, <1>4, <1>5, <1>6, <1>7 DEF Next, Step

LEMMA AlwaysIInv == Spec => []IInv
BY InitIInv, StepKeepsIInv, PTL DEF Spec

-----------------------------------------------------------------------------
\* A thread that waits for ready_to_merge_ or ready_to_normal_ does not wait in
\* vain: while the flag is false, some thread is on its way to set it.  This is
\* for every number of threads, and with spins that give up as well.
THEOREM FlagsComeBack == Spec => []QuietMeansReady
<1>1. IInv => QuietMeansReady
  BY DEF IInv, DynPart, MrgPart, QuietMeansReady, InsideDynamic, InsideMerging,
         DynZone, DynIn, MrgZone, MrgIn
<1> QED
  BY <1>1, AlwaysIInv, PTL

\* Each counter is the number of the threads between its increment and its
\* decrement.
CountersAreExact ==
  /\ hy.opsDynamic = Cardinality(InsideDynamic)
  /\ hy.opsMerging = Cardinality(InsideMerging)

\* The two counters of operations in progress (ops_on_dynamic_ and
\* ops_on_merge_dynamic_) are exact at every step, from one merge to the next
\* as well, and for inserts that start over because the mode has changed: none
\* is lost or counted twice.
THEOREM CountersStayExact == Spec => []CountersAreExact
<1>1. IInv => CountersAreExact
  BY DEF IInv, DynPart, MrgPart, CountersAreExact
<1> QED
  BY <1>1, AlwaysIInv, PTL

\* The mode is PrepareToMerge exactly while one thread is between the swap it
\* won and the one to MergingMode (Insert): two merges are never started at
\* once, and the second swap succeeds whenever it is tried.
THEOREM OneThreadStartsTheMerge == Spec => []OneStarter
<1>1. IInv => OneStarter
  BY DEF IInv
<1> QED
  BY <1>1, AlwaysIInv, PTL

-----------------------------------------------------------------------------
(* Merge after merge.                                                       *)

\* Where a thread works on a merge, and where it moves to a new version.
TaskPlaces == {"loadTask", "takeTask", "store", "countStored", "finishTask",
               "checkFinished", "closeMerge", "announceVersion"}
MovePlaces == {"checkVersion", "openLatest", "countUpdated", "checkCount", "swapStatic",
               "clearBackup", "deleteFile", "awaitNormal", "dropMerging", "toNormal"}

\* A thread that holds on to the merge it met, or to the version it made.
BusyWithMerge(t) ==
  \/ th[t].pc \in TaskPlaces \cup MovePlaces
  \/ th[t].pc \in {"mergedBackup", "reloadBackup", "findBackup"}
  \/ th[t].pc = "update" /\ th[t].ret = "reloadBackup"

\* A merge begins when every thread is done with the one before.
NoneLeftOver == \A t \in Threads : At(t, "toMerging") => \A u \in Threads : ~BusyWithMerge(u)

\* No two threads open the new file for the same thread.
OneMover == \A t, u \in Threads :
  At(t, "openLatest") /\ At(u, "openLatest") /\ th[t].who = th[u].who => t = u

-----------------------------------------------------------------------------
\* The merges are numbered: that of number Round made, or makes, the file of
\* version Round and the static index New.
Round == Len(sta)
New   == sta[Round]

\* The places of the thread that starts a merge, before the backup is known to
\* all, before the tasks are on offer, and before the count is reset.
Opening   == {"setMerging", "newDynamic", "collect", "copyStatic", "publish"}
Offering  == {"publish", "partition", "offer"}
Uncounted == Offering \cup {"resetCount"}
Preparing == Opening \cup {"partition", "offer", "resetCount"}

\* The threads that have taken a partition and not finished it.
Storing == {"store", "countStored", "finishTask"}
Holders == {t \in Threads : th[t].pc \in Storing}

\* The thread that won the swap of the static index.
Winning(t) == \/ th[t].pc \in {"deleteFile", "awaitNormal", "dropMerging", "toNormal"}
              \/ th[t].pc = "clearBackup" /\ th[t].found

\* The places that use the object a thread has loaded.
UseB == TaskPlaces \cup MovePlaces \cup {"findBackup"} \cup Uncounted

\* The threads that have the new file open, and are counted for it.
OnNewFile == {t \in Threads : New.ver[t] = Round}
Pending == {u \in Threads : \E t \in Threads :
              \/ th[t].pc = "countStored" /\ u = t
              \/ th[t].pc = "countUpdated" /\ u = th[t].who}
Counted == OnNewFile \ Pending

AllStored == New.next = MergeThreadNum /\ Holders = {}

IsSettled(s, v) ==
  /\ s.latest = v
  /\ \A t \in Threads : s.ver[t] = v /\ s.fd[t] = v
  /\ \A p \in Partitions : s.layout[p] = v

IsComplete(p) ==
  /\ Len(files) = Round
  /\ files[Round][p] = files[Round - 1][p] \cup {k \in tmp : PartitionOf[k] = p}

-----------------------------------------------------------------------------
Object == [latest : Nat, old : Nat, updated : BOOLEAN, count : Int,
           ver : [Threads -> Nat], fd : [Threads -> Nat], next : -1 .. MergeThreadNum, finished : Int,
           layout : [Partitions -> Nat]]

TypesOK ==
  /\ sta \in Seq(Object)
  /\ dyn \in Seq(SUBSET Keys)
  /\ files \in Seq([Partitions -> SUBSET Keys])
  /\ tmp \subseteq Keys /\ returned \subseteq Keys

\* Where a find looks for a key on disk in merged mode, and where a thread has the
\* answer of a lookup, of a swap or of an insert.
OnTheWay == MovePlaces \cup {"update", "reloadBackup", "findBackup", "findStatic", "found"}
Answered == {"found", "leaveMerging", "readyNormal", "leaveDynamic", "readyMerge",
             "inserted", "clearBackup", "deleteFile"}

\* The variables of a thread.
FieldsOK(t) ==
  /\ th[t].b \in {NULL} \cup 1 .. Round
  /\ th[t].pc # "idle" =>
       /\ th[t].key \in Keys /\ th[t].who \in Threads
       /\ \/ th[t].who = t
          \/ th[t].pc \in MovePlaces \cup {"update"} /\ th[t].ret = "updateAll"
  /\ th[t].pc \in {"recheckMode", "insertKey"} => th[t].dy \in 1 .. Len(dyn)
  /\ th[t].ret = "reloadBackup" => th[t].pc \in OnTheWay
  /\ th[t].found => th[t].pc \in Answered
  /\ th[t].pc = "inserted" => th[t].found

Pointers ==
  /\ Round >= 1 /\ hy.dynamic = Len(dyn) /\ Len(dyn) \in {Round, Round + 1}
  /\ hy.static \in {Round - 1, Round} /\ hy.static >= 1
  /\ hy.backup \in {NULL, Round} /\ (hy.backup # NULL => Round >= 2)
  /\ hy.merging \in {NULL} \cup 1 .. Len(dyn)

FilesOK ==
  /\ hy.static = Round => Len(files) = Round
  /\ hy.static # Round => Len(files) \in {Round - 1, Round}
  /\ removed \subseteq 1 .. hy.static - 1
  /\ \A i \in 1 .. Round - 1 : sta[i].latest = i

StaticOK == IsSettled(sta[hy.static], hy.static)

NewOK ==
  /\ New.latest \in {Round - 1, Round}
  /\ New.updated <=> New.latest = Round
  /\ \A t \in Threads : New.ver[t] \in {Round - 1, Round} /\ New.fd[t] = New.ver[t]
  /\ \A p \in Partitions : New.layout[p] \in {Round - 1, Round}
  /\ New.next # -1 => New.old = Round - 1

\* Each partition is on offer, with a thread, or stored.
TasksOK ==
  /\ New.updated => AllStored
  /\ ~New.updated =>
       New.finished + Cardinality(Holders) = IF New.next = -1 THEN 0 ELSE New.next
  /\ \A t \in Holders : th[t].task \in Partitions /\ th[t].task < New.next
  /\ \A t, u \in Holders : th[t].task = th[u].task => t = u
  /\ \A p \in Partitions : p < New.next =>
       \/ \E t \in Threads : th[t].pc = "store" /\ th[t].task = p
       \/ /\ New.layout[p] = Round
          /\ (hy.static # Round \/ hy.backup # NULL => IsComplete(p))

\* The count is that of the threads moved; if it was not reset in time it is one
\* that ThreadNumbers threads do not bring back to ThreadNumbers.
CountOK ==
  /\ Pending \subseteq OnNewFile
  /\ New.updated \/ New.finished >= 1 => Counted # {}
  /\ \/ /\ New.count = ThreadNumbers + Cardinality(Counted)
        /\ Counted # {} \/ \E t \in Threads : th[t].pc \in Uncounted
     \/ /\ New.count = Cardinality(Counted)
        /\ \A t \in Threads : th[t].pc \notin Uncounted

MergeOK == Round >= 2 => NewOK /\ TasksOK /\ CountOK

ModeOK ==
  /\ hy.mode \in {"Normal", "Prepare"} =>
       /\ Len(dyn) = Round /\ hy.static = Round /\ hy.backup = NULL /\ hy.merging = NULL
       /\ \A t \in Threads : th[t].pc \notin Preparing
       /\ Round >= 2 => New.updated
  /\ hy.mode = "Merging" =>
       \/ \E t \in Threads : th[t].pc \in Opening
       \/ /\ Round >= 2 /\ Len(dyn) = Round /\ hy.static = Round - 1
          /\ hy.backup = Round /\ hy.merging = Round - 1 /\ ~New.updated
  /\ hy.mode = "Merged" =>
       /\ Round >= 2 /\ Len(dyn) = Round /\ AllStored
       /\ hy.static # Round => hy.backup = Round /\ hy.merging = Round - 1
       /\ New.updated \/ \E t \in Threads : th[t].pc = "announceVersion"
       /\ \A t \in Threads : th[t].pc \notin Opening

\* One thread prepares a merge, one announces its version, one swaps.
OneOfEach ==
  /\ \A t, u \in Threads : th[t].pc \in Preparing /\ th[u].pc \in Preparing => t = u
  /\ \A t, u \in Threads :
       th[t].pc = "announceVersion" /\ th[u].pc = "announceVersion" => t = u
  /\ \A t, u \in Threads : Winning(t) /\ Winning(u) => t = u
  /\ \A t, u \in Threads : th[t].pc = "countUpdated" /\ th[u].pc = "countUpdated"
                            /\ th[t].who = th[u].who => t = u

\* What holds where a thread prepares a merge,
OpeningOK(t) ==
  /\ th[t].pc \in Opening =>
       /\ hy.mode = "Merging" /\ hy.backup = NULL
       /\ \A u \in Threads : ~BusyWithMerge(u)
  /\ th[t].pc \in {"setMerging", "newDynamic"} => Len(dyn) = Round
  /\ th[t].pc \in {"collect", "copyStatic"} => Len(dyn) = Round + 1
  /\ th[t].pc \in {"setMerging", "newDynamic", "collect", "copyStatic"} =>
       hy.static = Round /\ hy.merging = IF th[t].pc = "setMerging" THEN NULL ELSE Round
  /\ th[t].pc \in Offering =>
       /\ Round >= 2 /\ Len(dyn) = Round /\ hy.static = Round - 1
       /\ hy.merging = Round - 1 /\ New.next = -1 /\ hy.mode = "Merging"
       /\ th[t].pc # "publish" => hy.backup = Round
  /\ th[t].pc = "offer" => New.old = Round - 1
  /\ th[t].pc = "resetCount" => hy.static = Round - 1 /\ New.next # -1

\* where it works on a task,
WorkingOK(t) ==
  /\ th[t].pc \in UseB => th[t].b = Round /\ Round >= 2
  /\ th[t].pc = "takeTask" =>
       th[t].task \in Partitions /\ (New.ver[t] = Round - 1 \/ New.updated)
  /\ th[t].pc = "store" => New.ver[t] = Round - 1
  /\ th[t].pc \in {"countStored", "finishTask"} => New.ver[t] = Round
  /\ th[t].pc = "finishTask" => t \in Counted
  /\ th[t].pc = "closeMerge" => AllStored
  /\ th[t].pc = "announceVersion" => hy.mode = "Merged" /\ ~New.updated

\* where it moves a thread to the new version,
MovingOK(t) ==
  /\ th[t].pc \in MovePlaces => New.updated
  /\ th[t].pc = "openLatest" => New.ver[th[t].who] = Round - 1
  /\ th[t].pc \in MovePlaces \ {"checkVersion", "openLatest"} => New.ver[th[t].who] = Round
  /\ th[t].pc = "swapStatic" => /\ \A u \in Threads : New.ver[u] = Round
                                /\ \A u \in Threads : th[u].pc \notin Preparing
  /\ th[t].pc = "clearBackup" => hy.static = Round
  /\ Winning(t) => hy.static = Round /\ hy.mode = "Merged"
  /\ Winning(t) /\ th[t].pc # "clearBackup" => hy.backup = NULL
  /\ Winning(t) /\ th[t].pc \in {"clearBackup", "deleteFile"} => th[t].dy = Round - 1
  /\ th[t].pc = "toNormal" => hy.merging = NULL

\* and where it looks for a key on disk.
FindingOK(t) ==
  /\ th[t].pc = "mergedBackup" => Round >= 2 /\ New.next # -1
  /\ th[t].pc = "update" /\ th[t].ret = "reloadBackup" => Round >= 2 /\ New.updated
  /\ th[t].pc = "reloadBackup" => hy.backup = NULL \/ (New.updated /\ New.ver[t] = Round)
  /\ th[t].pc = "findBackup" => New.updated /\ New.ver[t] = Round

PlacesOK == \A t \in Threads : OpeningOK(t) /\ WorkingOK(t) /\ MovingOK(t) /\ FindingOK(t)

VInv == /\ TypesOK /\ (\A t \in Threads : FieldsOK(t)) /\ Pointers /\ FilesOK /\ StaticOK
        /\ MergeOK /\ ModeOK /\ OneOfEach /\ PlacesOK

-----------------------------------------------------------------------------
\* An insert goes to the dynamic index of the moment.
NoLateInsert == \A t \in Threads : At(t, "insertKey") => th[t].dy = hy.dynamic

Inserted(t) == th[t].found /\ th[t].pc \in {"leaveDynamic", "readyMerge", "inserted"}
Kept == InMemory \cup OnDiskNow

LInv ==
  /\ returned \cup Stored0 \subseteq Kept
  /\ \A t \in Threads : Inserted(t) => th[t].key \in Kept
  /\ \A t \in Threads : th[t].pc = "copyStatic" => tmp = dyn[Round]
  /\ hy.static # Round => Len(dyn) = Round /\ tmp = dyn[Round - 1]
  /\ hy.mode = "Merged" /\ hy.static = Round /\ hy.merging # NULL =>
       /\ hy.merging = Round - 1 /\ tmp = dyn[Round - 1]
       /\ dyn[Round - 1] \subseteq OnDiskNow

-----------------------------------------------------------------------------
\* The calls on a static index, as functions on objects.
LEMMA Constants ==
  /\ ThreadNumbers \in Nat /\ MergeThreadNum \in Nat /\ MergeThreadNum > 0
  /\ IsFiniteSet(Threads) /\ Partitions = 0 .. MergeThreadNum - 1
BY StaticAssumption, FS_CardinalityType DEF ThreadNumbers, MergeThreadNum

LEMMA ObjectFields ==
  ASSUME NEW s \in Object
  PROVE  /\ s.latest \in Nat /\ s.old \in Nat /\ s.updated \in BOOLEAN /\ s.count \in Int
         /\ s.ver \in [Threads -> Nat] /\ s.fd \in [Threads -> Nat]
         /\ s.next \in -1 .. MergeThreadNum /\ s.finished \in Int
         /\ s.layout \in [Partitions -> Nat]
BY DEF Object

\* What an object keeps when a call changes only the tasks, or only the versions.
SameVersions(o, s) ==
  o.latest = s.latest /\ o.old = s.old /\ o.updated = s.updated
SameFiles(o, s) == o.ver = s.ver /\ o.fd = s.fd /\ o.layout = s.layout
SameTasks(o, s) == o.next = s.next /\ o.finished = s.finished

LEMMA BuiltObject == Built \in Object
<1>1. ThreadNumbers \in Int /\ -1 \in -1 .. MergeThreadNum
  BY Constants
<1> QED
  BY <1>1 DEF Built, Object

LEMMA CopyOfObject ==
  ASSUME NEW s \in Object
  PROVE  LET o == CopyOf(s)
         IN  /\ o \in Object /\ o.latest = s.latest /\ o.old = s.old /\ o.updated = FALSE
             /\ o.count = ThreadNumbers /\ o.ver = s.ver
             /\ o.fd = [t \in Threads |-> s.latest]
             /\ o.next = -1 /\ o.finished = 0 /\ o.layout = s.layout
<1>1. ThreadNumbers \in Int /\ -1 \in -1 .. MergeThreadNum
  BY Constants
<1> DEFINE f == [t \in Threads |-> s.latest]
<1>2. f \in [Threads -> Nat]
  BY ObjectFields
<1>3. CopyOf(s) = [s EXCEPT !.updated = FALSE, !.count = ThreadNumbers, !.fd = f,
                            !.next = -1, !.finished = 0]
  BY DEF CopyOf
<1> HIDE DEF f
<1> DEFINE q == [s EXCEPT !.updated = FALSE, !.count = ThreadNumbers]
           r == [q EXCEPT !.fd = f, !.next = -1]
           o == [r EXCEPT !.finished = 0]
<1>4. o \in Object
  <2>1. q \in Object
    BY <1>1 DEF Object
  <2> HIDE DEF q
  <2>2. r \in Object
    BY <1>1, <1>2, <2>1 DEF Object
  <2> HIDE DEF r
  <2> QED
    BY <2>2 DEF Object
<1>5. /\ o.latest = s.latest /\ o.old = s.old
      /\ o.count = ThreadNumbers /\ o.ver = s.ver /\ o.fd = f
      /\ o.next = -1 /\ o.finished = 0 /\ o.layout = s.layout
  BY DEF Object
<1>6. o.updated = FALSE
  BY DEF Object
<1> QED
  BY <1>3, <1>4, <1>5, <1>6 DEF f

LEMMA StartRoundObject ==
  ASSUME NEW s \in Object
  PROVE  LET o == StartRound(s)
         IN  /\ o \in Object /\ o.latest = s.latest /\ o.old = s.latest
             /\ o.updated = FALSE /\ o.count = s.count
             /\ SameFiles(o, s) /\ SameTasks(o, s)
BY DEF StartRound, Object, SameFiles, SameTasks

LEMMA OfferTasksObject ==
  ASSUME NEW s \in Object
  PROVE  LET o == OfferTasks(s)
         IN  /\ o \in Object /\ o.next = 0 /\ o.finished = s.finished
             /\ SameVersions(o, s) /\ SameFiles(o, s) /\ o.count = s.count
<1>1. 0 \in -1 .. MergeThreadNum
  BY Constants
<1> QED
  BY <1>1 DEF OfferTasks, Object, SameFiles, SameVersions

LEMMA ResetCountObject ==
  ASSUME NEW s \in Object
  PROVE  LET o == ResetCount(s)
         IN  /\ o \in Object
             /\ o.count = IF s.count = ThreadNumbers THEN 0 ELSE s.count
             /\ SameVersions(o, s) /\ SameFiles(o, s) /\ SameTasks(o, s)
BY DEF ResetCount, Object, SameFiles, SameVersions, SameTasks

LEMMA TakeTaskObject ==
  ASSUME NEW s \in Object, NEW p \in Partitions
  PROVE  LET o == TakeTask(s, p)
         IN  /\ o \in Object /\ o.next = p + 1 /\ o.finished = s.finished
             /\ SameVersions(o, s) /\ SameFiles(o, s) /\ o.count = s.count
<1>1. p + 1 \in -1 .. MergeThreadNum
  BY Constants
<1> QED
  BY <1>1 DEF TakeTask, Object, SameFiles, SameVersions

LEMMA StoredObject ==
  ASSUME NEW s \in Object, NEW t \in Threads, NEW p \in Partitions
  PROVE  LET o == Stored(s, t, p)
         IN  /\ o \in Object /\ SameVersions(o, s) /\ SameTasks(o, s) /\ o.count = s.count
             /\ o.ver = [s.ver EXCEPT ![t] = s.latest + 1]
             /\ o.fd = [s.fd EXCEPT ![t] = s.latest + 1]
             /\ o.layout = [s.layout EXCEPT ![p] = s.latest + 1]
<1>1. s.latest + 1 \in Nat
  BY ObjectFields
<1>2. /\ [s.ver EXCEPT ![t] = s.latest + 1] \in [Threads -> Nat]
      /\ [s.fd EXCEPT ![t] = s.latest + 1] \in [Threads -> Nat]
      /\ [s.layout EXCEPT ![p] = s.latest + 1] \in [Partitions -> Nat]
  BY <1>1, ObjectFields
<1>3. Stored(s, t, p) = [s EXCEPT !.ver = [s.ver EXCEPT ![t] = s.latest + 1],
                                  !.fd = [s.fd EXCEPT ![t] = s.latest + 1],
                                  !.layout = [s.layout EXCEPT ![p] = s.latest + 1]]
  BY DEF Stored, Object
<1> QED
  BY <1>2, <1>3 DEF Object, SameVersions, SameTasks

LEMMA CountThreadObject ==
  ASSUME NEW s \in Object
  PROVE  LET o == CountThread(s)
         IN  /\ o \in Object /\ o.count = s.count + 1
             /\ SameVersions(o, s) /\ SameFiles(o, s) /\ SameTasks(o, s)
BY DEF CountThread, Object, SameFiles, SameVersions, SameTasks

LEMMA FinishTaskObject ==
  ASSUME NEW s \in Object
  PROVE  LET o == FinishTask(s)
         IN  /\ o \in Object /\ o.next = s.next /\ o.finished = s.finished + 1
             /\ SameVersions(o, s) /\ SameFiles(o, s) /\ o.count = s.count
BY DEF FinishTask, Object, SameFiles, SameVersions

LEMMA UpdateLatestObject ==
  ASSUME NEW s \in Object, ~s.updated
  PROVE  LET o == UpdateLatestVersion(s)
         IN  /\ o \in Object /\ o.latest = s.latest + 1 /\ o.old = s.old /\ o.updated
             /\ o.next = s.next /\ o.finished = 0 /\ o.count = s.count /\ SameFiles(o, s)
<1> DEFINE q == [s EXCEPT !.updated = TRUE, !.latest = s.latest + 1]
           r == [q EXCEPT !.finished = 0]
<1>1. UpdateLatestVersion(s) = r
  BY DEF UpdateLatestVersion, Object
<1>2. s.latest + 1 \in Nat
  BY ObjectFields
<1>3. r \in Object
  <2>1. q \in Object
    <3> DEFINE l == s.latest + 1
    <3> HIDE DEF l
    <3>1. l \in Nat
      BY <1>2 DEF l
    <3>2. [s EXCEPT !.updated = TRUE, !.latest = l] \in Object
      BY <3>1 DEF Object
    <3> QED
      BY <3>2 DEF l
  <2> HIDE DEF q
  <2> QED
    BY <2>1 DEF Object
<1>4. /\ r.latest = s.latest + 1 /\ r.old = s.old
      /\ r.next = s.next /\ r.finished = 0 /\ r.count = s.count
  BY DEF Object
<1>5. r.updated
  BY DEF Object
<1>6. SameFiles(r, s)
  BY DEF Object, SameFiles
<1> HIDE DEF r
<1> QED
  BY <1>1, <1>3, <1>4, <1>5, <1>6

LEMMA OpenLatestObject ==
  ASSUME NEW s \in Object, NEW t \in Threads
  PROVE  LET o == OpenLatest(s, t)
         IN  /\ o \in Object /\ SameVersions(o, s) /\ SameTasks(o, s) /\ o.count = s.count
             /\ o.ver = [s.ver EXCEPT ![t] = s.latest]
             /\ o.fd = [s.fd EXCEPT ![t] = s.latest] /\ o.layout = s.layout
<1>1. /\ [s.ver EXCEPT ![t] = s.latest] \in [Threads -> Nat]
      /\ [s.fd EXCEPT ![t] = s.latest] \in [Threads -> Nat]
  BY ObjectFields
<1>2. OpenLatest(s, t) = [s EXCEPT !.ver = [s.ver EXCEPT ![t] = s.latest],
                                   !.fd = [s.fd EXCEPT ![t] = s.latest]]
  BY DEF OpenLatest, Object
<1> QED
  BY <1>1, <1>2 DEF Object, SameVersions, SameTasks

-----------------------------------------------------------------------------
\* What a step leaves alone: the other threads, the pointers and the mode, and
\* everything a merge has made.
Others(t) == \A u \in Threads : u # t => th'[u] = th[u]
SameHy == /\ hy'.mode = hy.mode /\ hy'.dynamic = hy.dynamic /\ hy'.merging = hy.merging
          /\ hy'.static = hy.static /\ hy'.backup = hy.backup
SameWorld == sta' = sta /\ files' = files /\ tmp' = tmp /\ Len(dyn') = Len(dyn)

\* The places that some other part of the invariant counts or asks for.
Fixed == Preparing \cup Storing \cup {"countUpdated", "announceVersion"}

PlaceOK(t) == FieldsOK(t) /\ WorkingOK(t) /\ MovingOK(t) /\ FindingOK(t)

\* A step of a thread alone, between places of no consequence to the others.
Alone(t) ==
  /\ Others(t) /\ SameHy /\ SameWorld /\ TypesOK' /\ removed' \subseteq 1 .. hy.static - 1
  /\ th[t].pc \notin Fixed /\ th'[t].pc \notin Fixed
  /\ Winning(t)' => Winning(t)
  /\ BusyWithMerge(t)' => \A u \in Threads : th[u].pc \notin Opening
  /\ PlaceOK(t)'

LEMMA Basics ==
  ASSUME VInv
  PROVE  /\ Round \in Nat /\ Round >= 1 /\ Len(dyn) \in Nat
         /\ \A i \in 1 .. Round : sta[i] \in Object
         /\ New \in Object
<1>1. sta \in Seq(Object) /\ dyn \in Seq(SUBSET Keys)
  BY DEF VInv, TypesOK
<1>2. Round \in Nat /\ Len(dyn) \in Nat
  BY <1>1, LenProperties DEF Round
<1>3. \A i \in 1 .. Round : sta[i] \in Object
  BY <1>1, ElementOfSeq DEF Round
<1>4. Round >= 1
  BY DEF VInv, Pointers
<1> QED
  BY <1>2, <1>3, <1>4 DEF New

\* The sets of threads that the invariant counts.
LEMMA SetsSame ==
  ASSUME NEW t \in Threads, Others(t), Round' = Round, New'.ver = New.ver,
         th[t].pc \notin Storing, th'[t].pc \notin Storing,
         th[t].pc # "countUpdated", th'[t].pc # "countUpdated"
  PROVE  Holders' = Holders /\ OnNewFile' = OnNewFile /\ Pending' = Pending
         /\ Counted' = Counted
<1>1. \A u \in Threads : th'[u].pc \in Storing <=> th[u].pc \in Storing
  BY DEF Others
<1>2. Holders' = Holders
  BY <1>1 DEF Holders
<1>3. OnNewFile' = OnNewFile
  BY DEF OnNewFile
<1>4. \A u \in Threads : /\ th'[u].pc = "countStored" <=> th[u].pc = "countStored"
                         /\ th'[u].pc = "countUpdated" <=> th[u].pc = "countUpdated"
                         /\ th[u].pc = "countUpdated" => th'[u].who = th[u].who
  BY DEF Others, Storing
<1>5. Pending' = Pending
  BY <1>4 DEF Pending
<1> QED
  BY <1>2, <1>3, <1>5 DEF Counted

LEMMA AloneMerge ==
  ASSUME VInv, NEW t \in Threads, Alone(t)
  PROVE  MergeOK'
<1>1. Others(t) /\ SameHy /\ SameWorld
  BY DEF Alone
<1>2. Round' = Round /\ New' = New /\ hy'.static = hy.static /\ hy'.backup = hy.backup
  BY <1>1 DEF SameWorld, SameHy, Round, New
<1>3. th[t].pc \notin Fixed /\ th'[t].pc \notin Fixed
  BY DEF Alone
<1>4. Holders' = Holders /\ OnNewFile' = OnNewFile /\ Pending' = Pending /\ Counted' = Counted
  BY <1>1, <1>2, <1>3, SetsSame DEF Fixed
<1>5. SUFFICES ASSUME Round >= 2 PROVE (NewOK /\ TasksOK /\ CountOK)'
  BY <1>2 DEF MergeOK
<1>6. NewOK /\ TasksOK /\ CountOK
  BY <1>5 DEF VInv, MergeOK
<1>7. NewOK'
  BY <1>2, <1>6 DEF NewOK
<1>8. CountOK'
  <2>1. \A u \in Threads : th'[u].pc \in Uncounted <=> th[u].pc \in Uncounted
    BY <1>1, <1>3 DEF Others, Fixed, Preparing, Opening, Uncounted, Offering
  <2> QED
    BY <1>2, <1>4, <1>6, <2>1 DEF CountOK
<1>9. TasksOK'
  <2>1. \A p : IsComplete(p) => IsComplete(p)'
    BY <1>1, <1>2 DEF SameWorld, IsComplete
  <2>2. \A u \in Threads : u \in Holders => th'[u] = th[u]
    BY <1>1, <1>3 DEF Others, Holders, Fixed
  <2>3. \A u \in Threads : th[u].pc = "store" => th'[u] = th[u]
    BY <1>1, <1>3 DEF Others, Fixed, Storing
  <2>4. AllStored' <=> AllStored
    BY <1>2, <1>4 DEF AllStored
  <2>5. New'.updated => AllStored'
    BY <1>2, <1>6, <2>4 DEF TasksOK
  <2>6. ~New'.updated =>
         New'.finished + Cardinality(Holders') = IF New'.next = -1 THEN 0 ELSE New'.next
    BY <1>2, <1>4, <1>6 DEF TasksOK
  <2>7. \A u \in Holders' : th'[u].task \in Partitions /\ th'[u].task < New'.next
    BY <1>2, <1>4, <1>6, <2>2 DEF TasksOK, Holders
  <2>8. \A u, w \in Holders' : th'[u].task = th'[w].task => u = w
    BY <1>2, <1>4, <1>6, <2>2 DEF TasksOK, Holders
  <2>9. \A p \in Partitions : p < New'.next =>
          \/ \E u \in Threads : th'[u].pc = "store" /\ th'[u].task = p
          \/ /\ New'.layout[p] = Round'
             /\ (hy'.static # Round' \/ hy'.backup # NULL => IsComplete(p)')
    BY <1>2, <1>6, <2>1, <2>3 DEF TasksOK
  <2> QED
    BY <2>5, <2>6, <2>7, <2>8, <2>9 DEF TasksOK
<1> QED
  BY <1>7, <1>8, <1>9

LEMMA AloneGlobals ==
  ASSUME VInv, NEW t \in Threads, Alone(t)
  PROVE  (TypesOK /\ Pointers /\ FilesOK /\ StaticOK /\ ModeOK /\ OneOfEach)'
<1>1. Others(t) /\ SameHy /\ SameWorld
  BY DEF Alone
<1>2. Round' = Round /\ New' = New
  BY <1>1 DEF SameWorld, Round, New
<1>3. th[t].pc \notin Fixed /\ th'[t].pc \notin Fixed
  BY DEF Alone
<1>4. Holders' = Holders
  BY <1>1, <1>2, <1>3, SetsSame DEF Fixed
<1>5. TypesOK'
  BY DEF Alone
<1>6. Pointers'
  BY <1>1, <1>2 DEF VInv, Pointers, SameHy, SameWorld
<1>7. FilesOK'
  BY <1>1, <1>2 DEF VInv, FilesOK, SameHy, SameWorld, Alone
<1>8. StaticOK'
  BY <1>1 DEF VInv, StaticOK, SameHy, SameWorld, IsSettled
<1>9. \A u \in Threads : /\ th'[u].pc \in Preparing <=> th[u].pc \in Preparing
                         /\ th'[u].pc \in Opening <=> th[u].pc \in Opening
                         /\ th'[u].pc = "announceVersion" <=> th[u].pc = "announceVersion"
                         /\ th'[u].pc = "countUpdated" => th'[u] = th[u]
  BY <1>1, <1>3 DEF Others, Fixed, Preparing
<1>10. ModeOK'
  <2>1. AllStored' <=> AllStored
    BY <1>2, <1>4 DEF AllStored
  <2> QED
    BY <1>1, <1>2, <1>9, <2>1 DEF VInv, ModeOK, SameHy, SameWorld
<1>11. OneOfEach'
  <2>1. \A u \in Threads : Winning(u)' => Winning(u)
    BY <1>1 DEF Alone, Others, Winning
  <2> QED
    BY <1>9, <2>1 DEF VInv, OneOfEach
<1> QED
  BY <1>5, <1>6, <1>7, <1>8, <1>10, <1>11

LEMMA AlonePlaces ==
  ASSUME VInv, NEW t \in Threads, Alone(t)
  PROVE  (PlacesOK /\ \A u \in Threads : FieldsOK(u))'
<1>1. Others(t) /\ SameHy /\ SameWorld
  BY DEF Alone
<1>2. Round' = Round /\ New' = New /\ Len(dyn') = Len(dyn)
  BY <1>1 DEF SameWorld, Round, New
<1>3. th[t].pc \notin Fixed /\ th'[t].pc \notin Fixed /\ PlaceOK(t)'
  BY DEF Alone
<1>4. Holders' = Holders /\ Counted' = Counted
  BY <1>1, <1>2, <1>3, SetsSame DEF Fixed
<1>5. SUFFICES ASSUME NEW u \in Threads
               PROVE  (FieldsOK(u) /\ OpeningOK(u) /\ WorkingOK(u) /\ MovingOK(u) /\ FindingOK(u))'
  BY DEF PlacesOK
<1>6. CASE u = t
  <2>1. OpeningOK(t)'
    BY <1>3 DEF OpeningOK, Fixed, Preparing, Opening, Offering
  <2> QED
    BY <1>3, <1>6, <2>1 DEF PlaceOK
<1>7. CASE u # t
  <2>1. th'[u] = th[u]
    BY <1>1, <1>7 DEF Others
  <2>2. FieldsOK(u) /\ OpeningOK(u) /\ WorkingOK(u) /\ MovingOK(u) /\ FindingOK(u)
    BY DEF VInv, PlacesOK
  <2>3. FieldsOK(u)'
    BY <1>2, <2>1, <2>2 DEF FieldsOK
  <2>4. OpeningOK(u)'
    <3>1. th[u].pc \in Opening => \A w \in Threads : ~BusyWithMerge(w)'
      BY <1>1, <2>2 DEF OpeningOK, Alone, Others, BusyWithMerge
    <3> QED
      BY <1>1, <1>2, <2>1, <2>2, <3>1 DEF OpeningOK, SameHy
  <2>5. WorkingOK(u)'
    <3>1. AllStored' <=> AllStored
      BY <1>2, <1>4 DEF AllStored
    <3> QED
      BY <1>1, <1>2, <1>4, <2>1, <2>2, <3>1 DEF WorkingOK, SameHy
  <2>6. MovingOK(u)'
    <3>1. \A w \in Threads : th'[w].pc \in Preparing <=> th[w].pc \in Preparing
      BY <1>1, <1>3 DEF Others, Fixed
    <3> QED
      BY <1>1, <1>2, <2>1, <2>2, <3>1 DEF MovingOK, SameHy, Winning
  <2>7. FindingOK(u)'
    BY <1>1, <1>2, <2>1, <2>2 DEF FindingOK, SameHy
  <2> QED
    BY <2>3, <2>4, <2>5, <2>6, <2>7
<1> QED
  BY <1>6, <1>7

LEMMA AloneKeeps ==
  ASSUME VInv, NEW t \in Threads, Alone(t)
  PROVE  VInv'
BY AloneMerge, AloneGlobals, AlonePlaces DEF VInv

-----------------------------------------------------------------------------
\* What Goto, Call, Turn, Back and Finish do to the variables of the thread.
Locals(t) == /\ th'[t].ret = th[t].ret /\ th'[t].b = th[t].b /\ th'[t].who = th[t].who
             /\ th'[t].task = th[t].task /\ th'[t].found = th[t].found
             /\ th'[t].key = th[t].key /\ th'[t].dy = th[t].dy

\* What the thread was asked for, and the merging index it has loaded.
SameRequest(t) == /\ th'[t].key = th[t].key /\ th'[t].must = th[t].must
                  /\ th'[t].mg = th[t].mg

LEMMA RecordEffect ==
  ASSUME Shape, NEW t \in Threads, NEW r, th' = [th EXCEPT ![t] = r]
  PROVE  Others(t) /\ th'[t] = r
BY DEF Shape, Others

LEMMA GotoEffect ==
  ASSUME Shape, NEW t \in Threads, NEW step, Goto(t, step)
  PROVE  Others(t) /\ th'[t].pc = step /\ Locals(t) /\ SameRequest(t)
<1> DEFINE r == [th[t] EXCEPT !.pc = step]
<1>1. th' = [th EXCEPT ![t] = r]
  BY DEF Goto
<1>2. IsThread(th[t])
  BY ThreadShape
<1>3. r.pc = step
  BY <1>2 DEF IsThread, ThreadOf
<1>4. /\ r.ret = th[t].ret /\ r.b = th[t].b /\ r.who = th[t].who /\ r.task = th[t].task
      /\ r.found = th[t].found /\ r.key = th[t].key /\ r.dy = th[t].dy
      /\ r.must = th[t].must /\ r.mg = th[t].mg
  BY <1>2 DEF IsThread, ThreadOf
<1> HIDE DEF r
<1>5. Others(t) /\ th'[t] = r
  BY <1>1, RecordEffect
<1> QED
  BY <1>3, <1>4, <1>5 DEF Locals, SameRequest

LEMMA CallEffect ==
  ASSUME Shape, NEW t \in Threads, NEW step, NEW back, Call(t, step, back)
  PROVE  /\ Others(t) /\ th'[t].pc = step /\ th'[t].ret = back /\ th'[t].b = th[t].b
         /\ th'[t].who = th[t].who /\ th'[t].found = th[t].found /\ th'[t].key = th[t].key
         /\ SameRequest(t)
<1> DEFINE r == [th[t] EXCEPT !.pc = step, !.ret = back]
<1>1. th' = [th EXCEPT ![t] = r]
  BY DEF Call, Shape
<1>2. IsThread(th[t])
  BY ThreadShape
<1>3. r.pc = step /\ r.ret = back
  BY <1>2 DEF IsThread, ThreadOf
<1>4. /\ r.b = th[t].b /\ r.who = th[t].who
      /\ r.found = th[t].found /\ r.key = th[t].key
      /\ r.must = th[t].must /\ r.mg = th[t].mg
  BY <1>2 DEF IsThread, ThreadOf
<1> HIDE DEF r
<1>5. Others(t) /\ th'[t] = r
  BY <1>1, RecordEffect
<1> QED
  BY <1>3, <1>4, <1>5 DEF SameRequest

LEMMA TurnEffect ==
  ASSUME Shape, NEW t \in Threads, NEW step, NEW back, NEW ratio, Turn(t, step, back, ratio)
  PROVE  /\ Others(t) /\ th'[t].pc = step /\ th'[t].ret = back /\ th'[t].b = th[t].b
         /\ th'[t].who = th[t].who /\ th'[t].found = th[t].found /\ th'[t].key = th[t].key
         /\ th'[t].task = th[t].task /\ th'[t].dy = th[t].dy /\ SameRequest(t)
<1> DEFINE r == [th[t] EXCEPT !.pc = step, !.ret = back, !.ratio = ratio]
<1>1. th' = [th EXCEPT ![t] = r]
  BY DEF Turn, Shape
<1>2. IsThread(th[t])
  BY ThreadShape
<1>3. r.pc = step /\ r.ret = back
  BY <1>2 DEF IsThread, ThreadOf
<1>4. /\ r.b = th[t].b /\ r.who = th[t].who
      /\ r.found = th[t].found /\ r.key = th[t].key
      /\ r.task = th[t].task /\ r.dy = th[t].dy
      /\ r.must = th[t].must /\ r.mg = th[t].mg
  BY <1>2 DEF IsThread, ThreadOf
<1> HIDE DEF r
<1>5. Others(t) /\ th'[t] = r
  BY <1>1, RecordEffect
<1> QED
  BY <1>3, <1>4, <1>5 DEF SameRequest

LEMMA BackEffect ==
  ASSUME Shape, NEW t \in Threads, Back(t)
  PROVE  /\ Others(t) /\ th'[t].pc = th[t].ret /\ th'[t].ret = th[t].ret
         /\ th[t].ret \in Returns
         /\ th'[t].b = NULL /\ th'[t].who = t /\ th'[t].found = th[t].found
         /\ th'[t].key = th[t].key /\ SameRequest(t)
<1> DEFINE r == [th[t] EXCEPT !.pc = th[t].ret, !.b = NULL, !.task = -1, !.who = t]
<1>1. th' = [th EXCEPT ![t] = r]
  BY DEF Back, Shape
<1>2. IsThread(th[t])
  BY ThreadShape
<1>3. r.pc = th[t].ret /\ r.ret = th[t].ret /\ r.b = NULL /\ r.who = t
  BY <1>2 DEF IsThread, ThreadOf
<1>4. /\ r.found = th[t].found /\ r.key = th[t].key
      /\ r.must = th[t].must /\ r.mg = th[t].mg
  BY <1>2 DEF IsThread, ThreadOf
<1>5. th[t].ret \in Returns
  BY <1>2 DEF IsThread, ThreadOf
<1> HIDE DEF r
<1>6. Others(t) /\ th'[t] = r
  BY <1>1, RecordEffect
<1> QED
  BY <1>3, <1>4, <1>5, <1>6 DEF SameRequest

LEMMA FinishEffect ==
  ASSUME Shape, NEW t \in Threads, Finish(t)
  PROVE  /\ Others(t) /\ th'[t].pc = "idle" /\ th'[t].ret = "" /\ th'[t].b = NULL
         /\ th'[t].found = FALSE /\ th'[t].must = FALSE /\ th'[t].mg = NULL
<1> DEFINE r == [Idle EXCEPT !.done = th[t].done + 1]
<1>1. th' = [th EXCEPT ![t] = r]
  BY DEF Finish
<1>2. r.pc = "idle" /\ r.ret = "" /\ r.b = NULL
  BY DEF Idle
<1>3. r.found = FALSE /\ r.must = FALSE /\ r.mg = NULL
  BY DEF Idle
<1> HIDE DEF r
<1>4. Others(t) /\ th'[t] = r
  BY <1>1, RecordEffect
<1> QED
  BY <1>2, <1>3, <1>4

-----------------------------------------------------------------------------
\* Places where nothing is asked of the thread but its variables.
Plain(t) ==
  /\ th[t].pc \notin TaskPlaces \cup MovePlaces \cup Preparing
                       \cup {"mergedBackup", "reloadBackup", "findBackup"}
  /\ ~(th[t].pc = "update" /\ th[t].ret = "reloadBackup")

LEMMA PlainPlace ==
  ASSUME NEW t \in Threads, Plain(t)'
  PROVE  /\ (WorkingOK(t) /\ MovingOK(t) /\ FindingOK(t) /\ OpeningOK(t))'
         /\ ~Winning(t)' /\ ~BusyWithMerge(t)' /\ th'[t].pc \notin Fixed
<1> USE DEF Plain
<1>1. WorkingOK(t)'
  BY DEF WorkingOK, UseB, TaskPlaces, Uncounted, Offering, Preparing, Opening
<1>2. MovingOK(t)'
  BY DEF MovingOK, MovePlaces, Winning
<1>3. FindingOK(t)'
  BY DEF FindingOK
<1>4. OpeningOK(t)'
  BY DEF OpeningOK, Preparing, Opening, Offering
<1>5. ~Winning(t)'
  BY DEF Winning, MovePlaces
<1>6. ~BusyWithMerge(t)'
  BY DEF BusyWithMerge
<1>7. th'[t].pc \notin Fixed
  BY DEF Fixed, Storing, TaskPlaces, MovePlaces
<1> QED
  BY <1>1, <1>2, <1>3, <1>4, <1>5, <1>6, <1>7

\* A step that leaves the merge alone.
Still == SameHy /\ SameWorld /\ TypesOK' /\ removed' \subseteq 1 .. hy.static - 1

LEMMA OnlyThreadStill == ASSUME VInv, OnlyThread PROVE Still
<1>1. TypesOK'
  BY DEF VInv, TypesOK, OnlyThread, Object, Round
<1> QED
  BY <1>1 DEF VInv, OnlyThread, Still, SameHy, SameWorld, FilesOK

LEMMA OnlyHybridStill == ASSUME VInv, OnlyHybrid, SameHy PROVE Still
<1>1. TypesOK'
  BY DEF VInv, TypesOK, OnlyHybrid, Object, Round
<1> QED
  BY <1>1 DEF VInv, OnlyHybrid, Still, SameWorld, FilesOK

LEMMA PlainKeeps ==
  ASSUME VInv, NEW t \in Threads, Others(t), Still, th[t].pc \notin Fixed,
         Plain(t)', FieldsOK(t)'
  PROVE  VInv'
<1>1. /\ WorkingOK(t)' /\ MovingOK(t)' /\ FindingOK(t)'
      /\ ~Winning(t)' /\ ~BusyWithMerge(t)' /\ th'[t].pc \notin Fixed
  BY PlainPlace
<1>2. PlaceOK(t)'
  BY <1>1 DEF PlaceOK
<1>3. Alone(t)
  BY <1>1, <1>2 DEF Alone, Still
<1> QED
  BY <1>3, AloneKeeps

-----------------------------------------------------------------------------
\* The ways into the places of no consequence.
Quiet(t) == th[t].pc \notin Fixed \cup OnTheWay \cup Answered \cup {"idle"}

LEMMA QuietKeeps ==
  ASSUME VInv, NEW t \in Threads, Others(t), Locals(t), Still, Quiet(t),
         th'[t].pc \notin TaskPlaces \cup MovePlaces \cup Preparing
                    \cup {"mergedBackup", "reloadBackup", "findBackup", "update",
                          "recheckMode", "insertKey", "inserted"}
  PROVE  VInv'
<1>1. Plain(t)'
  BY DEF Plain
<1>2. FieldsOK(t) /\ Round' = Round
  BY DEF VInv, Still, SameWorld, Round
<1>3. FieldsOK(t)'
  BY <1>2 DEF FieldsOK, Locals, Quiet, OnTheWay
<1> QED
  BY <1>1, <1>3, PlainKeeps DEF Quiet

LEMMA GotoKeeps ==
  ASSUME VInv, Shape, NEW t \in Threads, NEW pc, Goto(t, pc), Still, Quiet(t),
         pc \notin TaskPlaces \cup MovePlaces \cup Preparing
                   \cup {"mergedBackup", "reloadBackup", "findBackup", "update",
                         "recheckMode", "insertKey", "inserted"}
  PROVE  VInv'
<1>1. Others(t) /\ th'[t].pc = pc /\ Locals(t)
  BY GotoEffect
<1> QED
  BY <1>1, QuietKeeps

LEMMA CallKeeps ==
  ASSUME VInv, Shape, NEW t \in Threads, NEW pc \in {"assist", "update"},
         NEW back \in {"findDynamic", "awaitMerged", "awaitSwapped"},
         Call(t, pc, back), Still, Quiet(t)
  PROVE  VInv'
<1>1. /\ Others(t) /\ th'[t].pc = pc /\ th'[t].ret = back /\ th'[t].b = th[t].b
      /\ th'[t].who = th[t].who /\ th'[t].found = th[t].found /\ th'[t].key = th[t].key
  BY CallEffect
<1>2. Plain(t)'
  BY <1>1 DEF Plain, TaskPlaces, MovePlaces, Preparing, Opening
<1>3. FieldsOK(t) /\ Round' = Round
  BY DEF VInv, Still, SameWorld, Round
<1>4. FieldsOK(t)'
  BY <1>1, <1>3 DEF FieldsOK, Quiet, OnTheWay
<1> QED
  BY <1>1, <1>2, <1>4, PlainKeeps DEF Quiet

LEMMA TurnKeeps ==
  ASSUME VInv, Shape, NEW t \in Threads, NEW pc \in {"assist", "update"},
         NEW back \in {"awaitMerged", "awaitSwapped"}, NEW ratio,
         Turn(t, pc, back, ratio), Still, Quiet(t)
  PROVE  VInv'
<1>1. /\ Others(t) /\ th'[t].pc = pc /\ th'[t].ret = back /\ th'[t].b = th[t].b
      /\ th'[t].who = th[t].who /\ th'[t].found = th[t].found /\ th'[t].key = th[t].key
  BY TurnEffect
<1>2. Plain(t)'
  BY <1>1 DEF Plain, TaskPlaces, MovePlaces, Preparing, Opening
<1>3. FieldsOK(t) /\ Round' = Round
  BY DEF VInv, Still, SameWorld, Round
<1>4. FieldsOK(t)'
  BY <1>1, <1>3 DEF FieldsOK, Quiet, OnTheWay
<1> QED
  BY <1>1, <1>2, <1>4, PlainKeeps DEF Quiet

LEMMA EndSpinKeeps ==
  ASSUME VInv, Shape, NEW t \in Threads, EndSpin(t), Still, Quiet(t)
  PROVE  VInv'
<1>1. Others(t) /\ th'[t].pc = "announce" /\ Locals(t)
  BY TurnEffect DEF EndSpin, Locals
<1>2. "announce" \notin TaskPlaces \cup MovePlaces \cup Preparing
                       \cup {"mergedBackup", "reloadBackup", "findBackup", "update",
                             "recheckMode", "insertKey", "inserted"}
  BY DEF TaskPlaces, MovePlaces, Preparing, Opening
<1> QED
  BY <1>1, <1>2, QuietKeeps

\* The return of a call, whatever else the step does: to a plain place, or to
\* the lookup on disk in merged mode.
LEMMA BackPlace ==
  ASSUME Shape, NEW t \in Threads, Back(t), FieldsOK(t), th[t].pc # "idle", ~th[t].found,
         th[t].ret = "reloadBackup" =>
           hy'.backup = NULL \/ (New'.updated /\ New'.ver[t] = Round')
  PROVE  /\ Others(t) /\ PlaceOK(t)' /\ OpeningOK(t)' /\ th'[t].pc \notin Fixed
         /\ th'[t].pc \in Returns /\ ~Winning(t)'
         /\ (BusyWithMerge(t)' => th[t].ret = "reloadBackup")
<1>1. /\ Others(t) /\ th'[t].pc = th[t].ret /\ th'[t].ret = th[t].ret
      /\ th[t].ret \in Returns
      /\ th'[t].b = NULL /\ th'[t].who = t /\ th'[t].found = th[t].found
      /\ th'[t].key = th[t].key
  BY BackEffect
<1>2. FieldsOK(t)'
  BY <1>1 DEF FieldsOK, Returns, OnTheWay
<1>3. CASE th[t].ret = "reloadBackup"
  <2> USE <1>1, <1>3
  <2>1. WorkingOK(t)'
    BY DEF WorkingOK, UseB, TaskPlaces, MovePlaces, Uncounted, Offering
  <2>2. MovingOK(t)'
    BY DEF MovingOK, MovePlaces, Winning
  <2>3. FindingOK(t)'
    BY DEF FindingOK
  <2>4. OpeningOK(t)'
    BY DEF OpeningOK, Opening, Offering
  <2>5. th'[t].pc \notin Fixed
    BY DEF Fixed, Preparing, Opening, Storing
  <2>6. ~Winning(t)'
    BY DEF Winning
  <2> QED
    BY <1>2, <2>1, <2>2, <2>3, <2>4, <2>5, <2>6 DEF PlaceOK
<1>4. CASE th[t].ret # "reloadBackup"
  <2>1. Plain(t)'
    BY <1>1, <1>4 DEF Plain, Returns, TaskPlaces, MovePlaces, Preparing, Opening
  <2> QED
    BY <1>1, <1>2, <2>1, PlainPlace DEF PlaceOK
<1> QED
  BY <1>3, <1>4

LEMMA BackKeeps ==
  ASSUME VInv, Shape, NEW t \in Threads, Back(t), Still, th[t].pc \notin Fixed,
         th[t].pc # "idle", ~th[t].found,
         th[t].ret = "reloadBackup" =>
           /\ hy.backup = NULL \/ (New.updated /\ New.ver[t] = Round)
           /\ \A u \in Threads : th[u].pc \notin Opening
  PROVE  VInv'
<1>1. hy'.backup = hy.backup /\ Round' = Round /\ New' = New
  BY DEF Still, SameWorld, SameHy, Round, New
<1>2. FieldsOK(t)
  BY DEF VInv
<1>3. th[t].ret = "reloadBackup" =>
        hy'.backup = NULL \/ (New'.updated /\ New'.ver[t] = Round')
  BY <1>1
<1>4. /\ Others(t) /\ PlaceOK(t)' /\ th'[t].pc \notin Fixed /\ ~Winning(t)'
      /\ (BusyWithMerge(t)' => th[t].ret = "reloadBackup")
  BY <1>2, <1>3, BackPlace
<1>5. Alone(t)
  BY <1>4 DEF Alone, Still
<1> QED
  BY <1>5, AloneKeeps

\* A thread that is busy with the merge is busy with one that is prepared.
LEMMA BusyNoOpening ==
  ASSUME VInv, NEW t \in Threads, BusyWithMerge(t)
  PROVE  \A u \in Threads : th[u].pc \notin Opening
BY DEF VInv, PlacesOK, OpeningOK

-----------------------------------------------------------------------------
\* The steps of AssignedToMerge that only read.
LEMMA StillSame ==
  ASSUME Still
  PROVE  /\ Round' = Round /\ New' = New /\ hy'.mode = hy.mode /\ hy'.static = hy.static
         /\ hy'.backup = hy.backup /\ hy'.merging = hy.merging /\ Len(dyn') = Len(dyn)
BY DEF Still, SameWorld, SameHy, Round, New

LEMMA ThenKeeps ==
  ASSUME VInv, Shape, NEW t \in Threads, th[t].pc \in {"loadTask", "takeTask"},
         Goto(t, th[t].then), Still
  PROVE  VInv'
<1>1. th[t].then \in Nexts
  BY DEF Shape, IsThread, ThreadOf
<1>2. Quiet(t)
  BY DEF Quiet, Fixed, Preparing, Opening, Storing, OnTheWay, MovePlaces, Answered
<1>3. CASE th[t].then # "checkFinished"
  BY <1>1, <1>2, <1>3, GotoKeeps
     DEF Nexts, TaskPlaces, MovePlaces, Preparing, Opening
<1>4. CASE th[t].then = "checkFinished"
  <2>1. Others(t) /\ th'[t].pc = "checkFinished" /\ Locals(t)
    BY <1>4, GotoEffect
  <2>2. FieldsOK(t) /\ WorkingOK(t)
    BY DEF VInv, PlacesOK
  <2>3. FieldsOK(t)'
    BY <1>2, <2>1, <2>2, StillSame DEF FieldsOK, Locals, Quiet, OnTheWay, MovePlaces
  <2>4. WorkingOK(t)'
    BY <2>1, <2>2, StillSame DEF WorkingOK, Locals, UseB, TaskPlaces
  <2>5. MovingOK(t)' /\ FindingOK(t)' /\ ~Winning(t)'
    BY <2>1 DEF MovingOK, FindingOK, MovePlaces, Winning
  <2>6. BusyWithMerge(t)
    BY DEF BusyWithMerge, TaskPlaces
  <2>7. \A u \in Threads : th[u].pc \notin Opening
    BY <2>6, BusyNoOpening
  <2>8. th'[t].pc \notin Fixed /\ th[t].pc \notin Fixed
    BY <2>1 DEF Fixed, Preparing, Opening, Storing
  <2>9. Alone(t)
    BY <2>1, <2>3, <2>4, <2>5, <2>7, <2>8 DEF Alone, Still, PlaceOK
  <2> QED
    BY <2>9, AloneKeeps
<1> QED
  BY <1>3, <1>4

LEMMA LoadBackupToAssistKeeps ==
  ASSUME VInv, Shape, NEW t \in Threads, LoadBackupToAssist(t)
  PROVE  VInv'
<1>1. At(t, "assist") /\ Still
  BY OnlyThreadStill DEF LoadBackupToAssist
<1>2. FieldsOK(t)
  BY DEF VInv
<1>3. th[t].pc = "assist" /\ ~th[t].found /\ th[t].ret # "reloadBackup"
  BY <1>1, <1>2 DEF At, FieldsOK, Answered, OnTheWay, MovePlaces
<1>4. th[t].pc \notin Fixed
  BY <1>3 DEF Fixed, Preparing, Opening, Storing
<1>5. CASE hy.backup = NULL
  <2>1. Back(t)
    BY <1>5 DEF LoadBackupToAssist
  <2> QED
    BY <1>1, <1>3, <1>4, <2>1, BackKeeps
<1>6. CASE hy.backup # NULL
  <2> DEFINE r == [th[t] EXCEPT !.pc = "loadTask", !.b = hy.backup, !.then = "checkFinished"]
  <2>1. th' = [th EXCEPT ![t] = r]
    BY <1>6 DEF LoadBackupToAssist, Shape
  <2>2. IsThread(th[t])
    BY ThreadShape
  <2>3. /\ r.pc = "loadTask" /\ r.b = hy.backup /\ r.ret = th[t].ret /\ r.who = th[t].who
        /\ r.found = th[t].found /\ r.key = th[t].key
    BY <2>2 DEF IsThread, ThreadOf
  <2> HIDE DEF r
  <2>4. Others(t) /\ th'[t] = r
    BY <2>1, RecordEffect
  <2>5. hy.backup = Round /\ Round >= 2
    BY <1>6 DEF VInv, Pointers
  <2>6. FieldsOK(t)'
    BY <1>1, <1>2, <1>3, <2>3, <2>4, <2>5, StillSame, Basics
       DEF FieldsOK, OnTheWay, MovePlaces, NULL
  <2>7. WorkingOK(t)'
    BY <1>1, <2>3, <2>4, <2>5, StillSame DEF WorkingOK, UseB, TaskPlaces
  <2>8. MovingOK(t)' /\ FindingOK(t)' /\ ~Winning(t)'
    BY <2>3, <2>4 DEF MovingOK, FindingOK, MovePlaces, Winning
  <2>9. \A u \in Threads : th[u].pc \notin Opening
    BY <1>6 DEF VInv, PlacesOK, OpeningOK
  <2>10. th'[t].pc \notin Fixed
    BY <2>3, <2>4 DEF Fixed, Preparing, Opening, Storing
  <2>11. Alone(t)
    BY <1>1, <1>4, <2>4, <2>6, <2>7, <2>8, <2>9, <2>10 DEF Alone, Still, PlaceOK
  <2> QED
    BY <2>11, AloneKeeps
<1> QED
  BY <1>5, <1>6

\* The object a thread works on is the one of the merge under way.
LEMMA WorksOnNew ==
  ASSUME VInv, NEW t \in Threads, th[t].pc \in UseB
  PROVE  th[t].b = Round /\ Round >= 2 /\ B(t) = New /\ NewOK /\ TasksOK /\ CountOK
<1>1. th[t].b = Round /\ Round >= 2
  BY DEF VInv, PlacesOK, WorkingOK
<1> QED
  BY <1>1 DEF B, New, VInv, MergeOK

LEMMA LoadTaskKeeps ==
  ASSUME VInv, Shape, NEW t \in Threads, LoadTask(t)
  PROVE  VInv'
<1>1. th[t].pc = "loadTask" /\ Still
  BY OnlyThreadStill DEF LoadTask, At
<1>2. CASE ~TaskOnOffer(B(t), t)
  BY <1>1, <1>2, ThenKeeps DEF LoadTask
<1>3. CASE TaskOnOffer(B(t), t)
  <2> DEFINE n == B(t).next
             r == [th[t] EXCEPT !.pc = "takeTask", !.task = n]
  <2>1. th' = [th EXCEPT ![t] = r]
    BY <1>3 DEF LoadTask, Shape
  <2> HIDE DEF n
  <2>2. IsThread(th[t])
    BY ThreadShape
  <2>3. /\ r.pc = "takeTask" /\ r.b = th[t].b /\ r.ret = th[t].ret /\ r.who = th[t].who
        /\ r.found = th[t].found /\ r.key = th[t].key /\ r.task = n
    BY <2>2 DEF IsThread, ThreadOf
  <2> HIDE DEF r
  <2>4. Others(t) /\ th'[t] = r
    BY <2>1, RecordEffect
  <2>5. th[t].b = Round /\ Round >= 2 /\ B(t) = New /\ NewOK
    BY <1>1, WorksOnNew DEF UseB, TaskPlaces
  <2>6. n \in Partitions /\ (New.ver[t] = Round - 1 \/ New.updated)
    BY <1>3, <2>5, Basics DEF TaskOnOffer, NewOK, n
  <2>7. FieldsOK(t)
    BY DEF VInv
  <2>8. FieldsOK(t)'
    BY <1>1, <2>3, <2>4, <2>7, StillSame DEF FieldsOK, OnTheWay, MovePlaces, Answered
  <2>9. WorkingOK(t)'
    BY <1>1, <2>3, <2>4, <2>5, <2>6, StillSame DEF WorkingOK, UseB, TaskPlaces
  <2>10. MovingOK(t)' /\ FindingOK(t)' /\ ~Winning(t)'
    BY <2>3, <2>4 DEF MovingOK, FindingOK, MovePlaces, Winning
  <2>11. BusyWithMerge(t)
    BY <1>1 DEF BusyWithMerge, TaskPlaces
  <2>12. \A u \in Threads : th[u].pc \notin Opening
    BY <2>11, BusyNoOpening
  <2>13. th'[t].pc \notin Fixed /\ th[t].pc \notin Fixed
    BY <1>1, <2>3, <2>4 DEF Fixed, Preparing, Opening, Storing
  <2>14. Alone(t)
    BY <1>1, <2>4, <2>8, <2>9, <2>10, <2>12, <2>13 DEF Alone, Still, PlaceOK
  <2> QED
    BY <2>14, AloneKeeps
<1> QED
  BY <1>2, <1>3

LEMMA CheckFinishedKeeps ==
  ASSUME VInv, Shape, NEW t \in Threads, CheckFinished(t)
  PROVE  VInv'
<1>1. th[t].pc = "checkFinished" /\ Still
  BY OnlyThreadStill DEF CheckFinished, At
<1>2. FieldsOK(t) /\ th[t].pc \notin Fixed
  BY <1>1 DEF VInv, Fixed, Preparing, Opening, Storing
<1>3. ~th[t].found /\ th[t].ret # "reloadBackup"
  BY <1>1, <1>2 DEF FieldsOK, Answered, OnTheWay, MovePlaces
<1>4. CASE Back(t)
  BY <1>1, <1>2, <1>3, <1>4, BackKeeps
<1>5. CASE hy.mode = "Merging" /\ AllSubMergeFinished(B(t)) /\ Goto(t, "closeMerge")
  <2>1. Others(t) /\ th'[t].pc = "closeMerge" /\ Locals(t)
    BY <1>5, GotoEffect
  <2>2. th[t].b = Round /\ Round >= 2 /\ B(t) = New /\ TasksOK
    BY <1>1, WorksOnNew DEF UseB, TaskPlaces
  <2>3. AllStored
    <3>1. CASE New.updated
      BY <2>2, <3>1 DEF TasksOK
    <3>2. CASE ~New.updated
      <4>1. IsFiniteSet(Holders) /\ Cardinality(Holders) \in Nat
        BY Constants, FS_Subset, FS_CardinalityType DEF Holders
      <4>2. New.finished = MergeThreadNum /\ New.next \in -1 .. MergeThreadNum
        BY <1>5, <2>2, Basics, ObjectFields DEF AllSubMergeFinished
      <4>3. MergeThreadNum + Cardinality(Holders) = IF New.next = -1 THEN 0 ELSE New.next
        BY <2>2, <3>2, <4>2 DEF TasksOK
      <4>4. New.next = MergeThreadNum /\ Cardinality(Holders) = 0
        BY <4>1, <4>2, <4>3, Constants
      <4>5. Holders = {}
        BY <4>1, <4>4, FS_EmptySet
      <4> QED
        BY <4>4, <4>5 DEF AllStored
    <3> QED
      BY <3>1, <3>2
  <2>4. FieldsOK(t)'
    BY <1>1, <1>2, <2>1, StillSame DEF FieldsOK, Locals, OnTheWay, MovePlaces, Answered
  <2>5. AllStored'
    <3>1. Holders' = Holders
      BY <1>1, <1>2, <2>1, SetsSame, StillSame DEF Fixed, Storing
    <3> QED
      BY <1>1, <2>3, <3>1, StillSame DEF AllStored
  <2>6. WorkingOK(t)'
    BY <1>1, <2>1, <2>2, <2>5, StillSame DEF WorkingOK, UseB, TaskPlaces, Locals
  <2>7. MovingOK(t)' /\ FindingOK(t)' /\ ~Winning(t)'
    BY <2>1 DEF MovingOK, FindingOK, MovePlaces, Winning
  <2>8. BusyWithMerge(t)
    BY <1>1 DEF BusyWithMerge, TaskPlaces
  <2>9. \A u \in Threads : th[u].pc \notin Opening
    BY <2>8, BusyNoOpening
  <2>10. th'[t].pc \notin Fixed
    BY <2>1 DEF Fixed, Preparing, Opening, Storing
  <2>11. Alone(t)
    BY <1>1, <1>2, <2>1, <2>4, <2>6, <2>7, <2>9, <2>10 DEF Alone, Still, PlaceOK
  <2> QED
    BY <2>11, AloneKeeps
<1> QED
  BY <1>4, <1>5 DEF CheckFinished

-----------------------------------------------------------------------------
\* The steps of UpdateVersion that only read.
LEMMA BusyKeeps ==
  ASSUME VInv, NEW t \in Threads, Others(t), Still, BusyWithMerge(t),
         th[t].pc \notin Fixed, th'[t].pc \notin Fixed,
         Winning(t)' => Winning(t), PlaceOK(t)'
  PROVE  VInv'
<1>1. Alone(t)
  BY BusyNoOpening DEF Alone, Still
<1> QED
  BY <1>1, AloneKeeps

LEMMA UpdatedStatus ==
  ASSUME VInv, Round >= 2, New.next # -1
  PROVE  GetUpdatedStatus(New) <=> New.updated
BY Basics DEF VInv, MergeOK, NewOK, GetUpdatedStatus

LEMMA MergedStored ==
  ASSUME VInv, hy.mode = "Merged"
  PROVE  Round >= 2 /\ AllStored /\ New.next # -1 /\ \A u \in Threads : th[u].pc \notin Opening
<1>1. Round >= 2 /\ AllStored /\ \A u \in Threads : th[u].pc \notin Opening
  BY DEF VInv, ModeOK
<1> QED
  BY <1>1, Constants DEF AllStored

\* Once a version is announced, and before the next merge, the mode is Merged or
\* the backup is gone.
LEMMA UpdatedMode ==
  ASSUME VInv, Shape, NEW t \in Threads, BusyWithMerge(t), hy.backup # NULL, New.updated
  PROVE  hy.mode = "Merged"
<1>1. hy.mode \in Modes
  BY DEF Shape, HyShape
<1>2. hy.mode \notin {"Normal", "Prepare"}
  BY DEF VInv, ModeOK
<1>3. hy.mode # "Merging"
  BY BusyNoOpening DEF VInv, ModeOK
<1> QED
  BY <1>1, <1>2, <1>3 DEF Modes

LEMMA LoadBackupToUpdateKeeps ==
  ASSUME VInv, Shape, NEW t \in Threads, LoadBackupToUpdate(t)
  PROVE  VInv'
<1>1. th[t].pc = "update" /\ Still
  BY OnlyThreadStill DEF LoadBackupToUpdate, At
<1>2. FieldsOK(t) /\ FindingOK(t) /\ th[t].pc \notin Fixed
  BY <1>1 DEF VInv, PlacesOK, Fixed, Preparing, Opening, Storing
<1>3. ~th[t].found
  BY <1>1, <1>2 DEF FieldsOK, Answered
<1>4. hy.backup # NULL => hy.backup = Round
  BY DEF VInv, Pointers
<1>5. CASE ~(hy.backup # NULL /\ hy.mode = "Merged" /\ GetUpdatedStatus(sta[hy.backup]))
  <2>1. Back(t)
    BY <1>5 DEF LoadBackupToUpdate
  <2>2. ASSUME th[t].ret = "reloadBackup"
        PROVE  hy.backup = NULL /\ \A u \in Threads : th[u].pc \notin Opening
    <3>1. Round >= 2 /\ New.updated /\ BusyWithMerge(t)
      BY <1>1, <1>2, <2>2 DEF FindingOK, BusyWithMerge
    <3>2. hy.backup = NULL
      <4>1. SUFFICES ASSUME hy.backup # NULL PROVE FALSE
        OBVIOUS
      <4>2. hy.mode = "Merged"
        BY <3>1, <4>1, UpdatedMode
      <4>3. GetUpdatedStatus(New)
        BY <3>1, <4>2, MergedStored, UpdatedStatus
      <4> QED
        BY <1>4, <1>5, <4>1, <4>2, <4>3 DEF New
    <3> QED
      BY <3>1, <3>2, BusyNoOpening
  <2> QED
    BY <1>1, <1>2, <1>3, <2>1, <2>2, BackKeeps
<1>6. CASE hy.backup # NULL /\ hy.mode = "Merged" /\ GetUpdatedStatus(sta[hy.backup])
  <2> DEFINE r == [th[t] EXCEPT !.pc = "checkVersion", !.b = hy.backup]
  <2>1. th' = [th EXCEPT ![t] = r]
    BY <1>6 DEF LoadBackupToUpdate, Shape
  <2>2. IsThread(th[t])
    BY ThreadShape
  <2>3. /\ r.pc = "checkVersion" /\ r.b = hy.backup /\ r.ret = th[t].ret /\ r.who = th[t].who
        /\ r.found = th[t].found /\ r.key = th[t].key
    BY <2>2 DEF IsThread, ThreadOf
  <2> HIDE DEF r
  <2>4. Others(t) /\ th'[t] = r
    BY <2>1, RecordEffect
  <2>5. hy.backup = Round /\ New.updated /\ Round >= 2
    BY <1>4, <1>6, MergedStored, UpdatedStatus DEF New
  <2>6. FieldsOK(t)'
    BY <1>1, <1>2, <1>3, <2>3, <2>4, <2>5, StillSame, Basics
       DEF FieldsOK, OnTheWay, MovePlaces, NULL
  <2>7. WorkingOK(t)'
    BY <1>1, <2>3, <2>4, <2>5, StillSame DEF WorkingOK, UseB, MovePlaces
  <2>8. MovingOK(t)'
    BY <1>1, <2>3, <2>4, <2>5, StillSame DEF MovingOK, MovePlaces, Winning
  <2>9. FindingOK(t)' /\ ~Winning(t)'
    BY <2>3, <2>4 DEF FindingOK, Winning
  <2>10. th'[t].pc \notin Fixed
    BY <2>3, <2>4 DEF Fixed, Preparing, Opening, Storing
  <2>11. Alone(t)
    BY <1>1, <1>2, <1>6, <2>4, <2>6, <2>7, <2>8, <2>9, <2>10, MergedStored
       DEF Alone, Still, PlaceOK
  <2> QED
    BY <2>11, AloneKeeps
<1> QED
  BY <1>5, <1>6

LEMMA CheckVersionKeeps ==
  ASSUME VInv, Shape, NEW t \in Threads, CheckVersion(t)
  PROVE  VInv'
<1>1. th[t].pc = "checkVersion" /\ Still
  BY OnlyThreadStill DEF CheckVersion, At
<1>2. PICK pc \in {"openLatest", "checkCount"} :
        Goto(t, pc) /\ pc = IF Outdated(B(t), th[t].who) THEN "openLatest" ELSE "checkCount"
  BY DEF CheckVersion
<1>3. Others(t) /\ th'[t].pc = pc /\ Locals(t)
  BY <1>2, GotoEffect
<1>4. th[t].b = Round /\ Round >= 2 /\ B(t) = New /\ NewOK
  BY <1>1, WorksOnNew DEF UseB, MovePlaces
<1>5. FieldsOK(t) /\ New.updated /\ th[t].who \in Threads
  BY <1>1 DEF VInv, PlacesOK, MovingOK, MovePlaces, FieldsOK
<1>6. New.ver[th[t].who] = IF pc = "openLatest" THEN Round - 1 ELSE Round
  BY <1>2, <1>4, <1>5, Basics DEF NewOK, Outdated
<1>7. FieldsOK(t)'
  BY <1>1, <1>3, <1>5, StillSame DEF FieldsOK, Locals, OnTheWay, MovePlaces, Answered
<1>8. WorkingOK(t)'
  BY <1>1, <1>3, <1>4, StillSame DEF WorkingOK, UseB, MovePlaces, Locals
<1>9. MovingOK(t)'
  BY <1>1, <1>3, <1>5, <1>6, StillSame DEF MovingOK, MovePlaces, Winning, Locals
<1>10. FindingOK(t)' /\ ~Winning(t)'
  BY <1>3 DEF FindingOK, Winning
<1>11. BusyWithMerge(t) /\ th[t].pc \notin Fixed /\ th'[t].pc \notin Fixed
  BY <1>1, <1>3 DEF BusyWithMerge, MovePlaces, Fixed, Preparing, Opening, Storing
<1> QED
  BY <1>1, <1>3, <1>7, <1>8, <1>9, <1>10, <1>11, BusyKeeps DEF PlaceOK

\* The count reaches ThreadNumbers only with the last thread moved.
LEMMA AllCounted ==
  ASSUME VInv, Round >= 2, New.updated, New.count = ThreadNumbers
  PROVE  /\ \A u \in Threads : New.ver[u] = Round
         /\ \A u \in Threads : th[u].pc \notin Uncounted
<1>1. CountOK
  BY DEF VInv, MergeOK
<1>2. IsFiniteSet(Counted) /\ Cardinality(Counted) \in Nat /\ Counted \subseteq Threads
  BY Constants, FS_Subset, FS_CardinalityType DEF Counted, OnNewFile
<1>3. Counted # {}
  BY <1>1 DEF CountOK
<1>4. Cardinality(Counted) # 0
  BY <1>2, <1>3, FS_EmptySet
<1>5. New.count # ThreadNumbers + Cardinality(Counted)
  BY <1>2, <1>4, Constants
<1>6. New.count = Cardinality(Counted) /\ \A u \in Threads : th[u].pc \notin Uncounted
  BY <1>1, <1>5 DEF CountOK
<1>7. Counted = Threads
  BY <1>2, <1>6, Constants, FS_Subset DEF ThreadNumbers
<1>8. \A u \in Threads : u \in OnNewFile
  BY <1>7 DEF Counted
<1> QED
  BY <1>6, <1>8 DEF OnNewFile

LEMMA CheckCountKeeps ==
  ASSUME VInv, Shape, NEW t \in Threads, CheckCount(t)
  PROVE  VInv'
<1>1. th[t].pc = "checkCount" /\ Still
  BY OnlyThreadStill DEF CheckCount, At
<1>2. th[t].b = Round /\ Round >= 2 /\ B(t) = New
  BY <1>1, WorksOnNew DEF UseB, MovePlaces
<1>3. FieldsOK(t) /\ New.updated /\ New.ver[th[t].who] = Round
  BY <1>1 DEF VInv, PlacesOK, MovingOK, MovePlaces
<1>4. BusyWithMerge(t) /\ th[t].pc \notin Fixed
  BY <1>1 DEF BusyWithMerge, MovePlaces, Fixed, Preparing, Opening, Storing
<1>5. CASE Back(t)
  <2>1. ~th[t].found /\ (th[t].ret = "reloadBackup" => th[t].who = t)
    BY <1>1, <1>3 DEF FieldsOK, Answered
  <2> QED
    BY <1>1, <1>3, <1>4, <1>5, <2>1, BackKeeps, BusyNoOpening
<1>6. CASE EveryoneCurrent(B(t)) /\ Goto(t, "swapStatic")
  <2>1. Others(t) /\ th'[t].pc = "swapStatic" /\ Locals(t)
    BY <1>6, GotoEffect
  <2>2. /\ \A u \in Threads : New.ver[u] = Round
        /\ \A u \in Threads : th[u].pc \notin Uncounted
    BY <1>2, <1>3, <1>6, AllCounted DEF EveryoneCurrent
  <2>3. \A u \in Threads : th'[u].pc \notin Preparing
    <3>1. \A u \in Threads : th[u].pc \notin Opening
      BY <1>4, BusyNoOpening
    <3>2. \A u \in Threads : th[u].pc \notin Preparing
      BY <2>2, <3>1 DEF Preparing, Uncounted, Offering
    <3> QED
      BY <2>1, <3>2 DEF Others, Preparing, Opening
  <2>4. FieldsOK(t)'
    BY <1>1, <1>3, <2>1, StillSame DEF FieldsOK, Locals, OnTheWay, MovePlaces, Answered
  <2>5. WorkingOK(t)'
    BY <1>1, <1>2, <2>1, StillSame DEF WorkingOK, UseB, MovePlaces, Locals
  <2>6. MovingOK(t)'
    BY <1>1, <1>3, <2>1, <2>2, <2>3, StillSame DEF MovingOK, MovePlaces, Winning, Locals
  <2>7. FindingOK(t)' /\ ~Winning(t)'
    BY <2>1 DEF FindingOK, Winning
  <2>8. th'[t].pc \notin Fixed
    BY <2>1 DEF Fixed, Preparing, Opening, Storing
  <2> QED
    BY <1>1, <1>4, <2>1, <2>4, <2>5, <2>6, <2>7, <2>8, BusyKeeps DEF PlaceOK
<1> QED
  BY <1>5, <1>6 DEF CheckCount

LEMMA AwaitNormalKeeps ==
  ASSUME VInv, Shape, NEW t \in Threads, th[t].pc = "awaitNormal", Goto(t, "dropMerging"),
         Still
  PROVE  VInv'
<1>1. Others(t) /\ th'[t].pc = "dropMerging" /\ Locals(t)
  BY GotoEffect
<1>2. th[t].b = Round /\ Round >= 2
  BY WorksOnNew DEF UseB, MovePlaces
<1>3. FieldsOK(t) /\ MovingOK(t) /\ Winning(t)
  BY DEF VInv, PlacesOK, Winning
<1>4. FieldsOK(t)'
  BY <1>1, <1>3, StillSame DEF FieldsOK, Locals, OnTheWay, MovePlaces, Answered
<1>5. WorkingOK(t)'
  BY <1>1, <1>2, StillSame DEF WorkingOK, UseB, MovePlaces, Locals
<1>6. MovingOK(t)'
  BY <1>1, <1>3, StillSame DEF MovingOK, MovePlaces, Winning, Locals
<1>7. FindingOK(t)'
  BY <1>1 DEF FindingOK
<1>8. BusyWithMerge(t) /\ th[t].pc \notin Fixed /\ th'[t].pc \notin Fixed
  BY <1>1 DEF BusyWithMerge, MovePlaces, Fixed, Preparing, Opening, Storing
<1> QED
  BY <1>1, <1>3, <1>4, <1>5, <1>6, <1>7, <1>8, BusyKeeps DEF PlaceOK

-----------------------------------------------------------------------------
\* The steps of a find.
LEMMA SetStill ==
  ASSUME VInv, Shape, OnlyHybrid, NEW value,
         \/ Set("opsDynamic", value) \/ Set("opsMerging", value)
         \/ Set("readyMerge", value) \/ Set("readyNormal", value)
  PROVE  Still
<1>1. SameHy
  BY DEF Set, Shape, HyShape, SameHy
<1> QED
  BY <1>1, OnlyHybridStill

\* A step whose thread has its answer, or is about to.
LEMMA AnswerKeeps ==
  ASSUME VInv, NEW t \in Threads, Others(t), Still, th[t].pc \notin Fixed \cup {"idle"},
         th[t].who = t, th'[t].who = t, th'[t].key = th[t].key, th'[t].ret = th[t].ret,
         th'[t].b \in {NULL, th[t].b},
         th'[t].pc \notin TaskPlaces \cup MovePlaces \cup Preparing
                    \cup {"mergedBackup", "reloadBackup", "findBackup", "update",
                          "recheckMode", "insertKey"},
         th'[t].found => th'[t].pc \in Answered,
         th'[t].pc = "inserted" => th'[t].found,
         th[t].ret = "reloadBackup" => th'[t].pc \in OnTheWay
  PROVE  VInv'
<1>1. FieldsOK(t) /\ Round' = Round
  BY StillSame DEF VInv
<1>2. FieldsOK(t)'
  BY <1>1 DEF FieldsOK
<1>3. Plain(t)'
  BY DEF Plain
<1> QED
  BY <1>2, <1>3, PlainKeeps

LEMMA FindModeKeeps ==
  ASSUME VInv, Shape, NEW t \in Threads, FindMode(t)
  PROVE  VInv'
<1>1. th[t].pc = "find" /\ Still
  BY OnlyThreadStill DEF FindMode, At
<1>2. Quiet(t)
  BY <1>1 DEF Quiet, Fixed, Preparing, Opening, Storing, OnTheWay, MovePlaces, Answered
<1>3. \/ Call(t, "assist", "findDynamic") \/ Call(t, "update", "findDynamic")
      \/ Goto(t, "findDynamic")
  BY DEF FindMode
<1>4. CASE Goto(t, "findDynamic")
  BY <1>1, <1>2, <1>4, GotoKeeps DEF TaskPlaces, MovePlaces, Preparing, Opening
<1> QED
  BY <1>1, <1>2, <1>3, <1>4, CallKeeps

LEMMA FindDynamicKeeps ==
  ASSUME VInv, Shape, NEW t \in Threads, FindDynamic(t)
  PROVE  VInv'
<1>1. th[t].pc = "findDynamic" /\ Still
  BY OnlyThreadStill DEF FindDynamic, At
<1> DEFINE met == th[t].key \in dyn[hy.dynamic]
           pc == IF met THEN "found" ELSE "missMode"
           r == [th[t] EXCEPT !.found = met, !.pc = pc]
<1>2. th' = [th EXCEPT ![t] = r]
  BY DEF FindDynamic, Found, Shape
<1>3. pc \in {"found", "missMode"} /\ (met => pc = "found")
  OBVIOUS
<1> HIDE DEF met, pc
<1>4. IsThread(th[t])
  BY ThreadShape
<1>5. r.pc = pc
  BY <1>4 DEF IsThread, ThreadOf
<1>6. r.found = met
  BY <1>4 DEF IsThread, ThreadOf
<1>7. r.b = th[t].b /\ r.ret = th[t].ret /\ r.who = th[t].who /\ r.key = th[t].key
  BY <1>4 DEF IsThread, ThreadOf
<1> HIDE DEF r
<1>8. Others(t) /\ th'[t] = r
  BY <1>2, RecordEffect
<1>9. FieldsOK(t)
  BY DEF VInv
<1>10. th[t].who = t /\ th[t].ret # "reloadBackup" /\ th[t].pc \notin Fixed \cup {"idle"}
  BY <1>1, <1>9 DEF FieldsOK, OnTheWay, MovePlaces, Fixed, Preparing, Opening, Storing
<1>11. r.pc \notin TaskPlaces \cup MovePlaces \cup Preparing
                    \cup {"mergedBackup", "reloadBackup", "findBackup", "update",
                          "recheckMode", "insertKey"}
  BY <1>3, <1>5 DEF TaskPlaces, MovePlaces, Preparing, Opening
<1>12. /\ th'[t].found => th'[t].pc \in Answered
       /\ th'[t].pc # "inserted"
  BY <1>3, <1>5, <1>6, <1>8 DEF Answered
<1> QED
  BY <1>1, <1>7, <1>8, <1>10, <1>11, <1>12, AnswerKeeps

\* The lookup in the merging index, and those on disk.
LEMMA AnsweredKeeps ==
  ASSUME VInv, Shape, NEW t \in Threads, Still,
         th[t].pc \in {"findMerging", "findStatic", "findBackup"},
         Others(t), th'[t].pc = IF th[t].pc = "findMerging" THEN "leaveMerging" ELSE "found",
         th'[t].who = th[t].who, th'[t].key = th[t].key, th'[t].ret = th[t].ret,
         th'[t].b \in {NULL, th[t].b}
  PROVE  VInv'
<1>1. FieldsOK(t)
  BY DEF VInv
<1>2. th[t].who = t /\ th[t].pc \notin Fixed \cup {"idle"}
  BY <1>1 DEF FieldsOK, MovePlaces, Fixed, Preparing, Opening, Storing
<1>3. th[t].ret = "reloadBackup" => th'[t].pc = "found"
  BY <1>1 DEF FieldsOK, OnTheWay, MovePlaces
<1>4. th'[t].pc \in Answered /\ th'[t].pc # "inserted"
  BY DEF Answered
<1>5. th'[t].pc \notin TaskPlaces \cup MovePlaces \cup Preparing
                    \cup {"mergedBackup", "reloadBackup", "findBackup", "update",
                          "recheckMode", "insertKey"}
  BY DEF TaskPlaces, MovePlaces, Preparing, Opening
<1>6. th[t].ret = "reloadBackup" => th'[t].pc \in OnTheWay
  BY <1>3 DEF OnTheWay
<1> QED
  BY <1>2, <1>4, <1>5, <1>6, AnswerKeeps

LEMMA FindMergingKeeps ==
  ASSUME VInv, Shape, NEW t \in Threads, FindMerging(t)
  PROVE  VInv'
<1>1. th[t].pc = "findMerging" /\ Still
  BY OnlyThreadStill DEF FindMerging, At
<1>2. PICK found : th' = [th EXCEPT ![t].found = found, ![t].pc = "leaveMerging",
                                    ![t].mg = NULL]
  BY DEF FindMerging
<1> DEFINE r == [th[t] EXCEPT !.found = found, !.pc = "leaveMerging", !.mg = NULL]
<1>3. th' = [th EXCEPT ![t] = r]
  BY <1>2 DEF Shape
<1>4. IsThread(th[t])
  BY ThreadShape
<1>5. /\ r.pc = "leaveMerging"
      /\ r.b = th[t].b /\ r.ret = th[t].ret /\ r.who = th[t].who /\ r.key = th[t].key
  BY <1>4 DEF IsThread, ThreadOf
<1> HIDE DEF r
<1>6. Others(t) /\ th'[t] = r
  BY <1>3, RecordEffect
<1> QED
  BY <1>1, <1>5, <1>6, AnsweredKeeps

LEMMA FindStaticKeeps ==
  ASSUME VInv, Shape, NEW t \in Threads, FindStatic(t)
  PROVE  VInv'
<1>1. th[t].pc = "findStatic" /\ Still
  BY OnlyThreadStill DEF FindStatic, At
<1>2. PICK found : th' = [th EXCEPT ![t].pc = "found", ![t].found = found]
  BY DEF FindStatic
<1> DEFINE r == [th[t] EXCEPT !.pc = "found", !.found = found]
<1>3. th' = [th EXCEPT ![t] = r]
  BY <1>2 DEF Shape
<1>4. IsThread(th[t])
  BY ThreadShape
<1>5. /\ r.pc = "found"
      /\ r.b = th[t].b /\ r.ret = th[t].ret /\ r.who = th[t].who /\ r.key = th[t].key
  BY <1>4 DEF IsThread, ThreadOf
<1> HIDE DEF r
<1>6. Others(t) /\ th'[t] = r
  BY <1>3, RecordEffect
<1> QED
  BY <1>1, <1>5, <1>6, AnsweredKeeps

LEMMA FindBackupKeeps ==
  ASSUME VInv, Shape, NEW t \in Threads, FindBackup(t)
  PROVE  VInv'
<1>1. th[t].pc = "findBackup" /\ Still
  BY OnlyThreadStill DEF FindBackup, At
<1>2. PICK found : th' = [th EXCEPT ![t].pc = "found", ![t].found = found, ![t].b = NULL]
  BY DEF FindBackup
<1> DEFINE r == [th[t] EXCEPT !.pc = "found", !.found = found, !.b = NULL]
<1>3. th' = [th EXCEPT ![t] = r]
  BY <1>2 DEF Shape
<1>4. IsThread(th[t])
  BY ThreadShape
<1>5. /\ r.pc = "found"
      /\ r.b = NULL /\ r.ret = th[t].ret /\ r.who = th[t].who /\ r.key = th[t].key
  BY <1>4 DEF IsThread, ThreadOf
<1> HIDE DEF r
<1>6. Others(t) /\ th'[t] = r
  BY <1>3, RecordEffect
<1> QED
  BY <1>1, <1>5, <1>6, AnsweredKeeps

\* A step from a place where the answer is known.
LEMMA GotoAnswerKeeps ==
  ASSUME VInv, Shape, NEW t \in Threads, NEW pc, Still, Goto(t, pc),
         th[t].pc \in {"leaveMerging", "readyNormal", "leaveDynamic", "readyMerge"},
         pc \in {"found", "diskMode", "readyNormal", "inserted", "startOver", "readyMerge"},
         th[t].found => pc \in Answered,
         pc = "inserted" => th[t].found
  PROVE  VInv'
<1>1. Others(t) /\ th'[t].pc = pc /\ Locals(t)
  BY GotoEffect
<1>2. FieldsOK(t)
  BY DEF VInv
<1>3. th[t].who = t /\ th[t].ret # "reloadBackup" /\ th[t].pc \notin Fixed \cup {"idle"}
  BY <1>2 DEF FieldsOK, OnTheWay, MovePlaces, Fixed, Preparing, Opening, Storing
<1>4. pc \notin TaskPlaces \cup MovePlaces \cup Preparing
                    \cup {"mergedBackup", "reloadBackup", "findBackup", "update",
                          "recheckMode", "insertKey"}
  BY DEF TaskPlaces, MovePlaces, Preparing, Opening
<1> QED
  BY <1>1, <1>3, <1>4, AnswerKeeps DEF Locals

LEMMA LeaveMergingKeepsV ==
  ASSUME VInv, Shape, NEW t \in Threads, LeaveMerging(t) \/ ReadyToNormal(t)
  PROVE  VInv'
<1>1. th[t].pc \in {"leaveMerging", "readyNormal"} /\ Still
  BY SetStill DEF LeaveMerging, ReadyToNormal, At
<1>2. PICK pc \in {"found", "diskMode", "readyNormal"} :
        Goto(t, pc) /\ (th[t].found => pc \in {"found", "readyNormal"})
  <2>1. CASE LeaveMerging(t)
    BY <2>1 DEF LeaveMerging
  <2>2. CASE ReadyToNormal(t)
    BY <2>2 DEF ReadyToNormal
  <2> QED
    BY <2>1, <2>2
<1>3. th[t].found => pc \in Answered
  BY <1>2 DEF Answered
<1> QED
  BY <1>1, <1>2, <1>3, GotoAnswerKeeps

LEMMA MissModeKeeps ==
  ASSUME VInv, Shape, NEW t \in Threads,
         MissMode(t) \/ MergedReady(t) \/ NotReadyToNormal(t) \/ EnterMerging(t)
  PROVE  VInv'
<1>1. th[t].pc \in {"missMode", "mergedReady", "notReadyNormal", "enterMerging"} /\ Still
  <2>1. CASE MissMode(t) \/ MergedReady(t)
    BY <2>1, OnlyThreadStill DEF MissMode, MergedReady, At
  <2>2. CASE NotReadyToNormal(t) \/ EnterMerging(t)
    BY <2>2, SetStill DEF NotReadyToNormal, EnterMerging, At
  <2> QED
    BY <2>1, <2>2
<1>2. Quiet(t)
  BY <1>1 DEF Quiet, Fixed, Preparing, Opening, Storing, OnTheWay, MovePlaces, Answered
<1>3. PICK pc \in {"loadMerging", "mergedReady", "diskMode", "notReadyNormal",
                   "enterMerging", "mergedPointer", "findMerging"} : Goto(t, pc)
  <2>1. CASE MissMode(t)
    BY <2>1 DEF MissMode
  <2>2. CASE MergedReady(t)
    BY <2>2 DEF MergedReady
  <2>3. CASE NotReadyToNormal(t)
    BY <2>3 DEF NotReadyToNormal
  <2>4. CASE EnterMerging(t)
    BY <2>4 DEF EnterMerging
  <2> QED
    BY <2>1, <2>2, <2>3, <2>4
<1>4. pc \notin TaskPlaces \cup MovePlaces \cup Preparing
                \cup {"mergedBackup", "reloadBackup", "findBackup", "update",
                      "recheckMode", "insertKey", "inserted"}
  BY DEF TaskPlaces, MovePlaces, Preparing, Opening
<1> QED
  BY <1>1, <1>2, <1>3, <1>4, GotoKeeps

LEMMA LoadMergingKeeps ==
  ASSUME VInv, Shape, NEW t \in Threads, LoadMerging(t) \/ MergedPointer(t)
  PROVE  VInv'
<1>1. th[t].pc \in {"loadMerging", "mergedPointer"} /\ Still
  BY OnlyThreadStill DEF LoadMerging, MergedPointer, At
<1>2. Quiet(t)
  BY <1>1 DEF Quiet, Fixed, Preparing, Opening, Storing, OnTheWay, MovePlaces, Answered
<1>3. PICK pc \in {"diskMode", "notReadyNormal", "nullDereference", "findMerging"} :
        \/ Goto(t, pc)
        \/ th' = [th EXCEPT ![t].pc = pc, ![t].mg = hy.merging]
        \/ th' = [th EXCEPT ![t].mg = hy.merging, ![t].pc = pc]
  <2>1. CASE LoadMerging(t)
    BY <2>1 DEF LoadMerging
  <2>2. CASE MergedPointer(t)
    <3> DEFINE pc == IF hy.merging = NULL THEN "nullDereference" ELSE "findMerging"
    <3>1. th' = [th EXCEPT ![t].mg = hy.merging, ![t].pc = pc]
      BY <2>2 DEF MergedPointer
    <3>2. pc \in {"nullDereference", "findMerging"}
      OBVIOUS
    <3> HIDE DEF pc
    <3> QED
      BY <3>1, <3>2
  <2> QED
    BY <2>1, <2>2
<1>4. Others(t) /\ th'[t].pc = pc /\ Locals(t)
  <2>1. IsThread(th[t])
    BY ThreadShape
  <2>2. CASE Goto(t, pc)
    BY <2>2, GotoEffect
  <2>3. CASE th' = [th EXCEPT ![t].pc = pc, ![t].mg = hy.merging]
    <3> DEFINE r == [th[t] EXCEPT !.pc = pc, !.mg = hy.merging]
    <3>1. th' = [th EXCEPT ![t] = r]
      BY <2>3 DEF Shape
    <3>2. r.pc = pc
      BY <2>1 DEF IsThread, ThreadOf
    <3>3. /\ r.ret = th[t].ret /\ r.b = th[t].b /\ r.who = th[t].who /\ r.task = th[t].task
          /\ r.found = th[t].found /\ r.key = th[t].key /\ r.dy = th[t].dy
      BY <2>1 DEF IsThread, ThreadOf
    <3> HIDE DEF r
    <3>4. Others(t) /\ th'[t] = r
      BY <3>1, RecordEffect
    <3> QED
      BY <3>2, <3>3, <3>4 DEF Locals
  <2>4. CASE th' = [th EXCEPT ![t].mg = hy.merging, ![t].pc = pc]
    <3> DEFINE r == [th[t] EXCEPT !.mg = hy.merging, !.pc = pc]
    <3>1. th' = [th EXCEPT ![t] = r]
      BY <2>4 DEF Shape
    <3>2. r.pc = pc
      BY <2>1 DEF IsThread, ThreadOf
    <3>3. /\ r.ret = th[t].ret /\ r.b = th[t].b /\ r.who = th[t].who /\ r.task = th[t].task
          /\ r.found = th[t].found /\ r.key = th[t].key /\ r.dy = th[t].dy
      BY <2>1 DEF IsThread, ThreadOf
    <3> HIDE DEF r
    <3>4. Others(t) /\ th'[t] = r
      BY <3>1, RecordEffect
    <3> QED
      BY <3>2, <3>3, <3>4 DEF Locals
  <2> QED
    BY <1>3, <2>2, <2>3, <2>4
<1>5. pc \notin TaskPlaces \cup MovePlaces \cup Preparing
                \cup {"mergedBackup", "reloadBackup", "findBackup", "update",
                      "recheckMode", "insertKey", "inserted"}
  BY DEF TaskPlaces, MovePlaces, Preparing, Opening
<1> QED
  BY <1>1, <1>2, <1>4, <1>5, QuietKeeps

\* In merged mode the find goes on with the backup, if its version is announced.
LEMMA DiskModeKeeps ==
  ASSUME VInv, Shape, NEW t \in Threads, DiskMode(t)
  PROVE  VInv'
<1>1. th[t].pc = "diskMode" /\ Still
  BY OnlyThreadStill DEF DiskMode, At
<1>2. Quiet(t)
  BY <1>1 DEF Quiet, Fixed, Preparing, Opening, Storing, OnTheWay, MovePlaces, Answered
<1>3. CASE hy.mode # "Merged"
  <2>1. Goto(t, "findStatic")
    BY <1>3 DEF DiskMode
  <2> QED
    BY <1>1, <1>2, <2>1, GotoKeeps DEF TaskPlaces, MovePlaces, Preparing, Opening
<1>4. CASE hy.mode = "Merged"
  <2>1. Others(t) /\ th'[t].pc = "mergedBackup" /\ Locals(t)
    BY <1>4, GotoEffect DEF DiskMode
  <2>2. FieldsOK(t)
    BY DEF VInv
  <2>3. FieldsOK(t)'
    BY <1>1, <2>1, <2>2, StillSame DEF FieldsOK, Locals, OnTheWay, MovePlaces, Answered
  <2>4. WorkingOK(t)' /\ MovingOK(t)' /\ ~Winning(t)' /\ th'[t].pc \notin Fixed
    BY <2>1 DEF WorkingOK, UseB, TaskPlaces, MovePlaces, Uncounted, Offering, MovingOK,
                Winning, Fixed, Preparing, Opening, Storing
  <2>5. FindingOK(t)'
    BY <1>1, <1>4, <2>1, MergedStored, StillSame DEF FindingOK
  <2>6. Alone(t)
    BY <1>1, <1>2, <1>4, <2>1, <2>3, <2>4, <2>5, MergedStored
       DEF Alone, Still, PlaceOK, Quiet
  <2> QED
    BY <2>6, AloneKeeps
<1> QED
  BY <1>3, <1>4

LEMMA MergedBackupKeeps ==
  ASSUME VInv, Shape, NEW t \in Threads, MergedBackup(t)
  PROVE  VInv'
<1>1. th[t].pc = "mergedBackup" /\ Still
  BY OnlyThreadStill DEF MergedBackup, At
<1>2. Quiet(t)
  BY <1>1 DEF Quiet, Fixed, Preparing, Opening, Storing, OnTheWay, MovePlaces, Answered
<1>3. CASE Goto(t, "findStatic")
  BY <1>1, <1>2, <1>3, GotoKeeps DEF TaskPlaces, MovePlaces, Preparing, Opening
<1>4. CASE /\ hy.backup # NULL /\ GetUpdatedStatus(sta[hy.backup])
           /\ Call(t, "update", "reloadBackup")
  <2>1. /\ Others(t) /\ th'[t].pc = "update" /\ th'[t].ret = "reloadBackup"
        /\ th'[t].b = th[t].b /\ th'[t].who = th[t].who /\ th'[t].found = th[t].found
        /\ th'[t].key = th[t].key
    BY <1>4, CallEffect
  <2>2. FieldsOK(t) /\ FindingOK(t)
    BY DEF VInv, PlacesOK
  <2>3. Round >= 2 /\ New.updated
    <3>1. Round >= 2 /\ New.next # -1
      BY <1>1, <2>2 DEF FindingOK
    <3>2. hy.backup = Round
      BY <1>4 DEF VInv, Pointers
    <3> QED
      BY <1>4, <3>1, <3>2, UpdatedStatus DEF New
  <2>4. FieldsOK(t)'
    BY <1>1, <2>1, <2>2, StillSame DEF FieldsOK, OnTheWay, MovePlaces, Answered
  <2>5. WorkingOK(t)' /\ MovingOK(t)' /\ ~Winning(t)' /\ th'[t].pc \notin Fixed
    BY <2>1 DEF WorkingOK, UseB, TaskPlaces, MovePlaces, Uncounted, Offering, MovingOK,
                Winning, Fixed, Preparing, Opening, Storing
  <2>6. FindingOK(t)'
    BY <1>1, <2>1, <2>3, StillSame DEF FindingOK
  <2>7. BusyWithMerge(t)
    BY <1>1 DEF BusyWithMerge
  <2> QED
    BY <1>1, <1>2, <2>1, <2>4, <2>5, <2>6, <2>7, BusyKeeps DEF PlaceOK, Quiet
<1> QED
  BY <1>3, <1>4 DEF MergedBackup

LEMMA ReloadBackupKeeps ==
  ASSUME VInv, Shape, NEW t \in Threads, ReloadBackup(t)
  PROVE  VInv'
<1>1. th[t].pc = "reloadBackup" /\ Still
  BY OnlyThreadStill DEF ReloadBackup, At
<1>2. FieldsOK(t) /\ FindingOK(t)
  BY DEF VInv, PlacesOK
<1>3. th[t].who = t /\ ~th[t].found /\ th[t].pc \notin Fixed \cup {"idle"}
  BY <1>1, <1>2 DEF FieldsOK, Answered, MovePlaces, Fixed, Preparing, Opening, Storing
<1>4. CASE Goto(t, "findStatic")
  <2>1. Others(t) /\ th'[t].pc = "findStatic" /\ Locals(t)
    BY <1>4, GotoEffect
  <2> QED
    BY <1>1, <1>3, <2>1, AnswerKeeps
       DEF Locals, TaskPlaces, MovePlaces, Preparing, Opening, OnTheWay
<1>5. CASE hy.backup # NULL /\ th' = [th EXCEPT ![t].pc = "findBackup", ![t].b = hy.backup]
  <2> DEFINE r == [th[t] EXCEPT !.pc = "findBackup", !.b = hy.backup]
  <2>1. th' = [th EXCEPT ![t] = r]
    BY <1>5 DEF Shape
  <2>2. IsThread(th[t])
    BY ThreadShape
  <2>3. /\ r.pc = "findBackup" /\ r.b = hy.backup /\ r.ret = th[t].ret /\ r.who = th[t].who
        /\ r.found = th[t].found /\ r.key = th[t].key
    BY <2>2 DEF IsThread, ThreadOf
  <2> HIDE DEF r
  <2>4. Others(t) /\ th'[t] = r
    BY <2>1, RecordEffect
  <2>5. hy.backup = Round /\ Round >= 2
    BY <1>5 DEF VInv, Pointers
  <2>6. FieldsOK(t)'
    BY <1>1, <1>2, <1>3, <2>3, <2>4, <2>5, StillSame, Basics DEF FieldsOK, OnTheWay, NULL
  <2>7. WorkingOK(t)'
    BY <1>1, <2>3, <2>4, <2>5, StillSame DEF WorkingOK
  <2>8. MovingOK(t)' /\ ~Winning(t)' /\ th'[t].pc \notin Fixed
    BY <2>3, <2>4 DEF MovePlaces, MovingOK, Winning, Fixed, Preparing, Opening, Storing
  <2>9. FindingOK(t)'
    BY <1>1, <1>2, <1>5, <2>3, <2>4, StillSame DEF FindingOK
  <2>10. BusyWithMerge(t)
    BY <1>1 DEF BusyWithMerge
  <2> QED
    BY <1>1, <1>3, <2>4, <2>6, <2>7, <2>8, <2>9, <2>10, BusyKeeps DEF PlaceOK
<1> QED
  BY <1>4, <1>5 DEF ReloadBackup

LEMMA ReturnFindKeeps ==
  ASSUME VInv, Shape, NEW t \in Threads, Finish(t), Still, th[t].pc \notin Fixed
  PROVE  VInv'
<1>1. /\ Others(t) /\ th'[t].pc = "idle" /\ th'[t].ret = "" /\ th'[t].b = NULL
      /\ th'[t].found = FALSE
  BY FinishEffect
<1>2. Plain(t)'
  BY <1>1 DEF Plain, TaskPlaces, MovePlaces, Preparing, Opening
<1>3. FieldsOK(t)'
  BY <1>1 DEF FieldsOK
<1> QED
  BY <1>1, <1>2, <1>3, PlainKeeps

LEMMA FindKeepsV ==
  ASSUME VInv, Shape, NEW t \in Threads, Find(t)
  PROVE  VInv'
<1>1. CASE ReturnFind(t)
  <2>1. Finish(t) /\ Still /\ th[t].pc \notin Fixed
    BY <1>1, OnlyThreadStill DEF ReturnFind, At, Fixed, Preparing, Opening, Storing
  <2> QED
    BY <2>1, ReturnFindKeeps
<1> QED
  BY <1>1, FindModeKeeps, FindDynamicKeeps, MissModeKeeps, LoadMergingKeeps,
     FindMergingKeeps, LeaveMergingKeepsV, DiskModeKeeps, MergedBackupKeeps,
     ReloadBackupKeeps, FindStaticKeeps, FindBackupKeeps DEF Find

-----------------------------------------------------------------------------
\* The steps of an insert, but for the start of a merge.
LEMMA AwaitKeeps ==
  ASSUME VInv, Shape, NEW t \in Threads, NEW pc, Goto(t, pc), Still,
         th[t].pc \in {"insert", "awaitPrepared", "awaitMerged", "awaitSwapped", "startOver",
                       "prepare", "awaitReady", "enterDynamic"},
         pc \in {"prepare", "announce", "awaitPrepared", "insert", "toMerging", "updateAll",
                 "loadDynamic"}
  PROVE  VInv'
<1>1. Quiet(t)
  BY DEF Quiet, Fixed, Preparing, Opening, Storing, OnTheWay, MovePlaces, Answered
<1>2. pc \notin TaskPlaces \cup MovePlaces \cup Preparing
                \cup {"mergedBackup", "reloadBackup", "findBackup", "update",
                      "recheckMode", "insertKey", "inserted"}
  BY DEF TaskPlaces, MovePlaces, Preparing, Opening
<1> QED
  BY <1>1, <1>2, GotoKeeps

LEMMA InsertModeKeeps ==
  ASSUME VInv, Shape, NEW t \in Threads,
         InsertMode(t) \/ AwaitPrepared(t) \/ AwaitMerged(t) \/ AwaitSwapped(t)
  PROVE  VInv'
<1>1. th[t].pc \in {"insert", "awaitPrepared", "awaitMerged", "awaitSwapped"} /\ Still
  BY OnlyThreadStill DEF InsertMode, AwaitPrepared, AwaitMerged, AwaitSwapped, At
<1>2. Quiet(t)
  BY <1>1 DEF Quiet, Fixed, Preparing, Opening, Storing, OnTheWay, MovePlaces, Answered
<1>3. \/ Goto(t, "prepare") \/ Goto(t, "announce") \/ Goto(t, "awaitPrepared")
      \/ EndSpin(t)
      \/ \E ratio : \/ Turn(t, "assist", "awaitMerged", ratio)
                    \/ Turn(t, "update", "awaitSwapped", ratio)
  <2>1. hy.mode \in Modes
    BY DEF Shape, HyShape
  <2>2. CASE InsertMode(t)
    BY <2>1, <2>2 DEF InsertMode, Modes
  <2>3. CASE AwaitPrepared(t)
    BY <2>3 DEF AwaitPrepared
  <2>4. CASE AwaitMerged(t)
    BY <2>4 DEF AwaitMerged
  <2>5. CASE AwaitSwapped(t)
    BY <2>5 DEF AwaitSwapped
  <2> QED
    BY <2>2, <2>3, <2>4, <2>5
<1>4. ASSUME NEW ratio,
             Turn(t, "assist", "awaitMerged", ratio) \/ Turn(t, "update", "awaitSwapped", ratio)
      PROVE  VInv'
  BY <1>1, <1>2, <1>4, TurnKeeps
<1>5. CASE Goto(t, "prepare") \/ Goto(t, "announce") \/ Goto(t, "awaitPrepared")
  BY <1>1, <1>5, AwaitKeeps
<1>6. CASE EndSpin(t)
  BY <1>1, <1>2, <1>6, EndSpinKeeps
<1> QED
  BY <1>3, <1>4, <1>5, <1>6

LEMMA UpdateAllKeeps ==
  ASSUME VInv, Shape, NEW t \in Threads, UpdateAllVersion(t)
  PROVE  VInv'
<1>1. th[t].pc = "updateAll" /\ Still
  BY OnlyThreadStill DEF UpdateAllVersion, At
<1> DEFINE v == th[t].next
           r1 == [th[t] EXCEPT !.pc = "announce", !.next = 0]
           r2 == [th[t] EXCEPT !.next = v + 1]
           r3 == [r2 EXCEPT !.pc = "update", !.ret = "updateAll", !.who = v]
<1>2. \/ th' = [th EXCEPT ![t] = r1]
      \/ th' = [th EXCEPT ![t] = r2]
      \/ v \in Threads /\ th' = [th EXCEPT ![t] = r3]
  BY DEF UpdateAllVersion
<1>3. IsThread(th[t])
  BY ThreadShape
<1>4. FieldsOK(t)
  BY DEF VInv
<1>5. th[t].pc \notin Fixed \cup {"idle"} /\ Quiet(t)
  BY <1>1 DEF Quiet, Fixed, Preparing, Opening, Storing, OnTheWay, MovePlaces, Answered
<1>6. CASE th' = [th EXCEPT ![t] = r1]
  <2>1. r1.pc = "announce"
    BY <1>3 DEF IsThread, ThreadOf
  <2>2. /\ r1.ret = th[t].ret /\ r1.b = th[t].b /\ r1.who = th[t].who /\ r1.task = th[t].task
        /\ r1.found = th[t].found /\ r1.key = th[t].key /\ r1.dy = th[t].dy
    BY <1>3 DEF IsThread, ThreadOf
  <2> HIDE DEF r1
  <2>3. Others(t) /\ th'[t] = r1
    BY <1>6, RecordEffect
  <2>4. r1.pc \notin TaskPlaces \cup MovePlaces \cup Preparing
                \cup {"mergedBackup", "reloadBackup", "findBackup", "update",
                      "recheckMode", "insertKey", "inserted"}
    BY <2>1 DEF TaskPlaces, MovePlaces, Preparing, Opening
  <2> QED
    BY <1>1, <1>5, <2>2, <2>3, <2>4, QuietKeeps DEF Locals
<1>7. CASE th' = [th EXCEPT ![t] = r2]
  <2>1. r2.pc = "updateAll"
    BY <1>1, <1>3 DEF IsThread, ThreadOf
  <2>2. /\ r2.ret = th[t].ret /\ r2.b = th[t].b /\ r2.who = th[t].who /\ r2.task = th[t].task
        /\ r2.found = th[t].found /\ r2.key = th[t].key /\ r2.dy = th[t].dy
    BY <1>3 DEF IsThread, ThreadOf
  <2> HIDE DEF r2
  <2>3. Others(t) /\ th'[t] = r2
    BY <1>7, RecordEffect
  <2>4. r2.pc \notin TaskPlaces \cup MovePlaces \cup Preparing
                \cup {"mergedBackup", "reloadBackup", "findBackup", "update",
                      "recheckMode", "insertKey", "inserted"}
    BY <2>1 DEF TaskPlaces, MovePlaces, Preparing, Opening
  <2> QED
    BY <1>1, <1>5, <2>2, <2>3, <2>4, QuietKeeps DEF Locals
<1>8. CASE v \in Threads /\ th' = [th EXCEPT ![t] = r3]
  <2>1. r2.b = th[t].b /\ r2.found = th[t].found /\ r2.key = th[t].key
    BY <1>3 DEF IsThread, ThreadOf
  <2>2. IsThread(r2)
    BY <1>1, <1>3 DEF IsThread, ThreadOf
  <2> HIDE DEF r2, v
  <2>3. r3.pc = "update" /\ r3.ret = "updateAll" /\ r3.who = v
    BY <2>2 DEF IsThread, ThreadOf
  <2>4. r3.b = th[t].b /\ r3.found = th[t].found /\ r3.key = th[t].key
    BY <2>1, <2>2 DEF IsThread, ThreadOf
  <2> HIDE DEF r3
  <2>5. Others(t) /\ th'[t] = r3
    BY <1>8, RecordEffect
  <2>6. FieldsOK(t)'
    BY <1>1, <1>4, <1>8, <2>3, <2>4, <2>5, StillSame DEF FieldsOK, Answered
  <2>7. Plain(t)'
    BY <2>3, <2>5 DEF Plain, TaskPlaces, MovePlaces, Preparing, Opening
  <2> QED
    BY <1>1, <1>5, <2>5, <2>6, <2>7, PlainKeeps
<1> QED
  BY <1>2, <1>6, <1>7, <1>8

LEMMA AnnounceKeepsV ==
  ASSUME VInv, Shape, NEW t \in Threads, Announce(t)
  PROVE  VInv'
<1>1. th[t].pc = "announce" /\ Still
  BY SetStill DEF Announce, At
<1> DEFINE r == [th[t] EXCEPT !.pc = "enterDynamic", !.b = NULL, !.task = -1,
                              !.then = "", !.ret = ""]
<1>2. th' = [th EXCEPT ![t] = r]
  BY DEF Announce, Shape
<1>3. IsThread(th[t])
  BY ThreadShape
<1>4. r.pc = "enterDynamic" /\ r.b = NULL /\ r.ret = ""
  BY <1>3 DEF IsThread, ThreadOf
<1>5. r.who = th[t].who /\ r.found = th[t].found /\ r.key = th[t].key
  BY <1>3 DEF IsThread, ThreadOf
<1> HIDE DEF r
<1>6. Others(t) /\ th'[t] = r
  BY <1>2, RecordEffect
<1>7. FieldsOK(t)
  BY DEF VInv
<1>8. FieldsOK(t)'
  BY <1>1, <1>4, <1>5, <1>6, <1>7 DEF FieldsOK, MovePlaces, Answered
<1>9. Plain(t)'
  BY <1>4, <1>6 DEF Plain, TaskPlaces, MovePlaces, Preparing, Opening
<1>10. th[t].pc \notin Fixed
  BY <1>1 DEF Fixed, Preparing, Opening, Storing
<1> QED
  BY <1>1, <1>6, <1>8, <1>9, <1>10, PlainKeeps

LEMMA LoadDynamicKeepsV ==
  ASSUME VInv, Shape, NEW t \in Threads, LoadDynamic(t)
  PROVE  VInv'
<1>1. th[t].pc = "loadDynamic" /\ Still
  BY OnlyThreadStill DEF LoadDynamic, At
<1> DEFINE r == [th[t] EXCEPT !.pc = "recheckMode", !.dy = hy.dynamic]
<1>2. th' = [th EXCEPT ![t] = r]
  BY DEF LoadDynamic, Shape
<1>3. IsThread(th[t])
  BY ThreadShape
<1>4. r.pc = "recheckMode" /\ r.dy = hy.dynamic
  BY <1>3 DEF IsThread, ThreadOf
<1>5. /\ r.who = th[t].who /\ r.found = th[t].found /\ r.key = th[t].key
      /\ r.b = th[t].b /\ r.ret = th[t].ret
  BY <1>3 DEF IsThread, ThreadOf
<1> HIDE DEF r
<1>6. Others(t) /\ th'[t] = r
  BY <1>2, RecordEffect
<1>7. FieldsOK(t) /\ hy.dynamic \in 1 .. Len(dyn)
  BY Basics DEF VInv, Pointers
<1>8. FieldsOK(t)'
  BY <1>1, <1>4, <1>5, <1>6, <1>7, StillSame DEF FieldsOK, MovePlaces, Answered, OnTheWay
<1>9. Plain(t)'
  BY <1>4, <1>6 DEF Plain, TaskPlaces, MovePlaces, Preparing, Opening
<1>10. th[t].pc \notin Fixed
  BY <1>1 DEF Fixed, Preparing, Opening, Storing
<1> QED
  BY <1>1, <1>6, <1>8, <1>9, <1>10, PlainKeeps

LEMMA RecheckModeKeeps ==
  ASSUME VInv, Shape, NEW t \in Threads, RecheckMode(t)
  PROVE  VInv'
<1>1. th[t].pc = "recheckMode" /\ Still
  BY OnlyThreadStill DEF RecheckMode, At
<1>2. PICK pc \in {"leaveDynamic", "insertKey"}, dy \in {NULL, th[t].dy} :
        /\ th' = [th EXCEPT ![t] = [th[t] EXCEPT !.pc = pc, !.dy = dy]]
        /\ pc = "insertKey" => dy = th[t].dy
  <2>1. CASE hy.mode = "Prepare"
    <3>1. th' = [th EXCEPT ![t] = [th[t] EXCEPT !.pc = "leaveDynamic", !.dy = NULL]]
      BY <2>1 DEF RecheckMode, Shape
    <3> QED
      BY <3>1
  <2>2. CASE hy.mode # "Prepare"
    <3>1. th' = [th EXCEPT ![t] = [th[t] EXCEPT !.pc = "insertKey"]]
      BY <2>2 DEF RecheckMode, Shape
    <3>2. IsThread(th[t])
      BY ThreadShape
    <3>3. [th[t] EXCEPT !.pc = "insertKey"] = [th[t] EXCEPT !.pc = "insertKey", !.dy = th[t].dy]
      BY <3>2 DEF IsThread, ThreadOf
    <3> QED
      BY <3>1, <3>3
  <2> QED
    BY <2>1, <2>2
<1> DEFINE r == [th[t] EXCEPT !.pc = pc, !.dy = dy]
<1>3. IsThread(th[t])
  BY ThreadShape
<1>4. r.pc = pc
  BY <1>3 DEF IsThread, ThreadOf
<1>5. /\ r.dy = dy /\ r.who = th[t].who /\ r.found = th[t].found /\ r.key = th[t].key
      /\ r.b = th[t].b /\ r.ret = th[t].ret
  BY <1>3 DEF IsThread, ThreadOf
<1>6. th' = [th EXCEPT ![t] = r]
  BY <1>2
<1> HIDE DEF r
<1>7. Others(t) /\ th'[t] = r
  BY <1>6, RecordEffect
<1>8. FieldsOK(t)
  BY DEF VInv
<1>9. FieldsOK(t)'
  BY <1>1, <1>2, <1>4, <1>5, <1>7, <1>8, StillSame DEF FieldsOK, MovePlaces, Answered, OnTheWay
<1>10. Plain(t)'
  BY <1>4, <1>7 DEF Plain, TaskPlaces, MovePlaces, Preparing, Opening
<1>11. th[t].pc \notin Fixed
  BY <1>1 DEF Fixed, Preparing, Opening, Storing
<1> QED
  BY <1>1, <1>7, <1>9, <1>10, <1>11, PlainKeeps

\* The insert itself changes what an index holds, and nothing else.
LEMMA InsertKeyKeeps ==
  ASSUME VInv, Shape, NEW t \in Threads, InsertKey(t)
  PROVE  VInv'
<1>1. th[t].pc = "insertKey" /\ UNCHANGED <<hy, sta, files, removed, tmp, returned>>
  BY DEF InsertKey, At
<1>2. FieldsOK(t) /\ TypesOK
  BY DEF VInv
<1>3. th[t].key \in Keys /\ th[t].dy \in 1 .. Len(dyn)
  BY <1>1, <1>2 DEF FieldsOK
<1> DEFINE i == th[t].dy
           e == dyn[i] \cup {th[t].key}
<1>4. i \in 1 .. Len(dyn) /\ dyn \in Seq(SUBSET Keys)
  BY <1>2, <1>3 DEF TypesOK
<1>5. e \in SUBSET Keys
  BY <1>3, <1>4, ElementOfSeq
<1>6. dyn' = [dyn EXCEPT ![i] = e]
  BY DEF InsertKey
<1> HIDE DEF i, e
<1>7. dyn' \in Seq(SUBSET Keys) /\ Len(dyn') = Len(dyn)
  BY <1>4, <1>5, <1>6, ExceptSeq
<1>8. Still
  <2>1. TypesOK'
    BY <1>1, <1>2, <1>7 DEF TypesOK, Object
  <2> QED
    BY <1>1, <1>7, <2>1 DEF VInv, Still, SameHy, SameWorld, FilesOK
<1> DEFINE r == [th[t] EXCEPT !.pc = "leaveDynamic", !.found = TRUE]
<1>9. th' = [th EXCEPT ![t] = r]
  BY DEF InsertKey, Shape
<1>10. IsThread(th[t])
  BY ThreadShape
<1>11. r.pc = "leaveDynamic"
  BY <1>10 DEF IsThread, ThreadOf
<1>12. r.who = th[t].who /\ r.key = th[t].key /\ r.b = th[t].b /\ r.ret = th[t].ret
  BY <1>10 DEF IsThread, ThreadOf
<1> HIDE DEF r
<1>13. Others(t) /\ th'[t] = r
  BY <1>9, RecordEffect
<1>14. FieldsOK(t)'
  BY <1>1, <1>2, <1>8, <1>11, <1>12, <1>13, StillSame
     DEF FieldsOK, MovePlaces, Answered, OnTheWay
<1>15. Plain(t)'
  BY <1>11, <1>13 DEF Plain, TaskPlaces, MovePlaces, Preparing, Opening
<1>16. th[t].pc \notin Fixed
  BY <1>1 DEF Fixed, Preparing, Opening, Storing
<1> QED
  BY <1>8, <1>13, <1>14, <1>15, <1>16, PlainKeeps

LEMMA LeaveDynamicKeepsV ==
  ASSUME VInv, Shape, NEW t \in Threads, LeaveDynamic(t) \/ ReadyToMerge(t)
  PROVE  VInv'
<1>1. th[t].pc \in {"leaveDynamic", "readyMerge"} /\ Still
  BY SetStill DEF LeaveDynamic, ReadyToMerge, At
<1>2. PICK pc \in {"inserted", "startOver", "readyMerge"} :
        /\ Goto(t, pc) /\ (th[t].found => pc \in {"inserted", "readyMerge"})
        /\ (pc = "inserted" => th[t].found)
  <2>1. CASE LeaveDynamic(t)
    BY <2>1 DEF LeaveDynamic, Left
  <2>2. CASE ReadyToMerge(t)
    BY <2>2 DEF ReadyToMerge, Left
  <2> QED
    BY <2>1, <2>2
<1>3. th[t].found => pc \in Answered
  BY <1>2 DEF Answered
<1> QED
  BY <1>1, <1>2, <1>3, GotoAnswerKeeps

LEMMA ReturnInsertKeeps ==
  ASSUME VInv, Shape, NEW t \in Threads, ReturnInsert(t)
  PROVE  VInv'
<1>1. /\ th[t].pc = "inserted" /\ Finish(t) /\ UNCHANGED <<hy, dyn, sta, files, removed, tmp>>
      /\ returned' = returned \cup {th[t].key}
  BY DEF ReturnInsert, At
<1>2. th[t].key \in Keys
  BY <1>1 DEF VInv, FieldsOK
<1>3. TypesOK'
  BY <1>1, <1>2 DEF VInv, TypesOK, Object
<1>4. Still
  BY <1>1, <1>3 DEF VInv, Still, SameHy, SameWorld, FilesOK
<1>5. th[t].pc \notin Fixed
  BY <1>1 DEF Fixed, Preparing, Opening, Storing
<1> QED
  BY <1>1, <1>4, <1>5, ReturnFindKeeps

LEMMA GiveUpKeepsV ==
  ASSUME VInv, Shape, NEW t \in Threads, GiveUp(t)
  PROVE  VInv'
<1>1. /\ th[t].pc \in {"awaitReady", "awaitPrepared", "awaitMerged", "awaitSwapped",
                       "awaitNormal"}
      /\ Goto(t, AfterSpin[th[t].pc]) /\ Still
  BY WorkloadAssumption, OnlyThreadStill DEF GiveUp, AfterSpin
<1>2. CASE th[t].pc = "awaitNormal"
  BY <1>1, <1>2, AwaitNormalKeeps DEF AfterSpin
<1>3. CASE th[t].pc # "awaitNormal"
  <2>1. Goto(t, "toMerging") \/ Goto(t, "announce") \/ Goto(t, "updateAll")
    BY <1>1, <1>3 DEF AfterSpin
  <2> QED
    BY <1>1, <1>3, <2>1, AwaitKeeps
<1> QED
  BY <1>2, <1>3

LEMMA BeginKeepsV ==
  ASSUME VInv, Shape, NEW t \in Threads, Begin(t)
  PROVE  VInv'
<1> DEFINE request == Workload[t][th[t].done + 1]
           must == request.kind = "find" /\ request.key \in returned \cup Stored0
<1>1. th' = [th EXCEPT ![t].pc = request.kind, ![t].kind = request.kind,
                       ![t].key = request.key, ![t].who = t, ![t].must = must]
  BY DEF Begin
<1>2. th[t].pc = "idle" /\ Still /\ th[t].done < Len(Workload[t])
  BY OnlyThreadStill DEF Begin, At
<1>3. request.kind \in {"find", "insert"} /\ request.key \in Keys
  BY NextRequest
<1> DEFINE kind == request.kind
           key == request.key
           r == [th[t] EXCEPT !.pc = kind, !.kind = kind, !.key = key, !.who = t,
                              !.must = must]
<1>4. th' = [th EXCEPT ![t] = r]
  BY <1>1 DEF Shape
<1>5. kind \in {"find", "insert"} /\ key \in Keys
  BY <1>3
<1> HIDE DEF kind, key, must
<1>6. IsThread(th[t])
  BY ThreadShape
<1>7. r.pc = kind /\ r.key = key /\ r.who = t
  BY <1>6 DEF IsThread, ThreadOf
<1>8. r.b = th[t].b /\ r.ret = th[t].ret /\ r.found = th[t].found
  BY <1>6 DEF IsThread, ThreadOf
<1> HIDE DEF r
<1>9. Others(t) /\ th'[t] = r
  BY <1>4, RecordEffect
<1>10. FieldsOK(t)
  BY DEF VInv
<1>11. FieldsOK(t)'
  BY <1>2, <1>5, <1>7, <1>8, <1>9, <1>10, StillSame DEF FieldsOK, Answered, OnTheWay, MovePlaces
<1>12. Plain(t)'
  BY <1>5, <1>7, <1>9 DEF Plain, TaskPlaces, MovePlaces, Preparing, Opening
<1>13. th[t].pc \notin Fixed
  BY <1>2 DEF Fixed, Preparing, Opening, Storing
<1> QED
  BY <1>2, <1>9, <1>11, <1>12, <1>13, PlainKeeps

-----------------------------------------------------------------------------
\* A step that changes the object of the merge under way.
LEMMA ChangeNew ==
  ASSUME VInv, NEW o \in Object, sta' = [sta EXCEPT ![Round] = o]
  PROVE  /\ Round' = Round /\ New' = o /\ sta' \in Seq(Object)
         /\ \A i \in 1 .. Round : i # Round => sta'[i] = sta[i]
<1>1. sta \in Seq(Object) /\ Round \in 1 .. Len(sta)
  BY Basics DEF VInv, TypesOK, Round
<1> DEFINE i == Round
<1>2. i \in 1 .. Len(sta) /\ sta' = [sta EXCEPT ![i] = o]
  BY <1>1
<1> HIDE DEF i
<1>3. /\ sta' \in Seq(Object) /\ Len(sta') = Len(sta)
      /\ \A j \in 1 .. Len(sta) : sta'[j] = IF j = i THEN o ELSE sta[j]
  BY <1>1, <1>2, ExceptSeq
<1> QED
  BY <1>2, <1>3 DEF i, Round, New

\* The work of a thread on a task, or on the move to a new version.
Worker(t, o) ==
  /\ Others(t) /\ SameHy /\ BusyWithMerge(t) /\ PlaceOK(t)'
  /\ dyn' = dyn /\ removed' = removed /\ tmp' = tmp /\ returned' = returned
  /\ files' \in Seq([Partitions -> SUBSET Keys])
  /\ hy.static = Round => IsSettled(o, Round) /\ Len(files') = Round
  /\ hy.static # Round => Len(files') \in {Round - 1, Round}
  /\ o \in Object /\ sta' = [sta EXCEPT ![Round] = o]
  /\ SameVersions(o, New) /\ (o.next = -1 <=> New.next = -1)
  /\ AllStored => AllStored'
  /\ Counted \subseteq Counted'
  /\ \A w \in Threads : o.ver[w] # New.ver[w] =>
       /\ o.ver[w] = Round /\ (w = t \/ New.updated)
       /\ \A u \in Threads : u # t /\ th[u].pc = "openLatest" => th[u].who # w
  /\ th[t].pc \notin Preparing \cup {"announceVersion"}
  /\ th'[t].pc \notin Preparing \cup {"announceVersion"}
  /\ ~Winning(t)'
  /\ th'[t].pc = "countUpdated" =>
       \A u \in Threads : u # t /\ th[u].pc = "countUpdated" => th[u].who # th'[t].who

LEMMA WorkerGlobals ==
  ASSUME VInv, NEW t \in Threads, NEW o, Worker(t, o)
  PROVE  (TypesOK /\ Pointers /\ FilesOK /\ StaticOK /\ ModeOK /\ OneOfEach)'
<1> USE DEF Worker
<1>1. /\ Round' = Round /\ New' = o /\ sta' \in Seq(Object)
      /\ \A i \in 1 .. Round : i # Round => sta'[i] = sta[i]
  BY ChangeNew
<1>2. TypesOK'
  BY <1>1 DEF VInv, TypesOK
<1>3. Pointers'
  BY <1>1 DEF VInv, Pointers, SameHy
<1>4. FilesOK'
  <2>1. FilesOK /\ Round \in Nat
    BY Basics DEF VInv
  <2>2. \A i \in 1 .. Round - 1 : sta'[i].latest = i
    BY <1>1, <2>1 DEF FilesOK
  <2> QED
    BY <1>1, <2>1, <2>2 DEF FilesOK, SameHy
<1>5. StaticOK'
  <2>1. hy'.static = hy.static /\ hy.static \in 1 .. Round
    BY Basics DEF VInv, Pointers, SameHy
  <2>2. CASE hy.static = Round
    BY <1>1, <2>1, <2>2 DEF StaticOK, New, IsSettled
  <2>3. CASE hy.static # Round
    BY <1>1, <2>1, <2>3 DEF VInv, StaticOK, IsSettled
  <2> QED
    BY <2>2, <2>3
<1>6. \A u \in Threads : /\ th'[u].pc \in Preparing <=> th[u].pc \in Preparing
                         /\ th'[u].pc \in Opening <=> th[u].pc \in Opening
                         /\ th'[u].pc = "announceVersion" <=> th[u].pc = "announceVersion"
  BY DEF Others, Preparing
<1>7. ModeOK'
  <2>1. New'.updated = New.updated
    BY <1>1 DEF SameVersions
  <2> QED
    BY <1>1, <1>6, <2>1 DEF VInv, ModeOK, SameHy
<1>8. OneOfEach'
  <2>1. \A u \in Threads : Winning(u)' => Winning(u)
    BY DEF Others, Winning
  <2>2. \A u, w \in Threads : th'[u].pc = "countUpdated" /\ th'[w].pc = "countUpdated"
                              /\ th'[u].who = th'[w].who => u = w
    BY DEF Others, VInv, OneOfEach
  <2> QED
    BY <1>6, <2>1, <2>2 DEF VInv, OneOfEach
<1> QED
  BY <1>2, <1>3, <1>4, <1>5, <1>7, <1>8

LEMMA WorkerPlaces ==
  ASSUME VInv, NEW t \in Threads, NEW o, Worker(t, o)
  PROVE  (PlacesOK /\ \A u \in Threads : FieldsOK(u))'
<1> USE DEF Worker
<1>1. Round' = Round /\ New' = o /\ Len(dyn') = Len(dyn)
  BY ChangeNew
<1>2. SUFFICES ASSUME NEW u \in Threads
               PROVE  (FieldsOK(u) /\ OpeningOK(u) /\ WorkingOK(u) /\ MovingOK(u) /\ FindingOK(u))'
  BY DEF PlacesOK
<1>3. CASE u = t
  <2>1. OpeningOK(t)'
    BY DEF OpeningOK, Preparing, Opening, Offering
  <2> QED
    BY <1>3, <2>1 DEF PlaceOK
<1>4. CASE u # t
  <2>1. th'[u] = th[u]
    BY <1>4 DEF Others
  <2>2. FieldsOK(u) /\ OpeningOK(u) /\ WorkingOK(u) /\ MovingOK(u) /\ FindingOK(u)
    BY DEF VInv, PlacesOK
  <2>3. th[u].pc \notin Opening
    BY BusyNoOpening
  <2>4. Round \in Nat /\ New.updated \in BOOLEAN
    BY Basics, ObjectFields
  <2>5. FieldsOK(u)'
    BY <1>1, <2>1, <2>2 DEF FieldsOK
  <2>6. OpeningOK(u)'
    BY <1>1, <2>1, <2>2, <2>3 DEF OpeningOK, SameHy, SameVersions, Opening, Offering
  <2>7. WorkingOK(u)'
    <3>1. th[u].pc = "takeTask" => o.ver[u] = Round - 1 \/ o.updated
      BY <1>4, <2>2 DEF WorkingOK, SameVersions
    <3>2. th[u].pc = "store" => o.ver[u] = Round - 1
      <4>1. SUFFICES ASSUME th[u].pc = "store" PROVE o.ver[u] = Round - 1
        OBVIOUS
      <4>2. TasksOK
        BY <4>1, WorksOnNew DEF UseB, TaskPlaces
      <4>3. u \in Holders
        BY <4>1 DEF Holders, Storing
      <4>4. ~New.updated
        BY <4>2, <4>3 DEF TasksOK, AllStored
      <4> QED
        BY <1>4, <2>2, <4>1, <4>4 DEF WorkingOK
    <3>3. th[u].pc \in {"countStored", "finishTask"} => o.ver[u] = Round
      BY <2>2 DEF WorkingOK
    <3> QED
      BY <1>1, <2>1, <2>2, <3>1, <3>2, <3>3 DEF WorkingOK, SameHy, SameVersions
  <2>8. MovingOK(u)'
    <3>1. \A w \in Threads : th[w].pc \notin Preparing => th'[w].pc \notin Preparing
      BY DEF Others
    <3>2. th[u].pc = "openLatest" => o.ver[th[u].who] = Round - 1
      BY <1>4, <2>2 DEF MovingOK, FieldsOK
    <3>3. th[u].pc \in MovePlaces \ {"checkVersion", "openLatest"} => o.ver[th[u].who] = Round
      BY <2>2 DEF MovingOK, FieldsOK, MovePlaces
    <3>4. (\A w \in Threads : New.ver[w] = Round) => \A w \in Threads : o.ver[w] = Round
      OBVIOUS
    <3>5. Winning(u)' <=> Winning(u)
      BY <2>1 DEF Winning
    <3>6. New'.updated = New.updated
      BY <1>1 DEF SameVersions
    <3> QED
      BY <1>1, <2>1, <2>2, <3>1, <3>2, <3>3, <3>4, <3>5, <3>6 DEF MovingOK, SameHy
  <2>9. FindingOK(u)'
    BY <1>1, <2>1, <2>2 DEF FindingOK, SameHy, SameVersions
  <2> QED
    BY <2>5, <2>6, <2>7, <2>8, <2>9
<1> QED
  BY <1>3, <1>4

LEMMA WorkerKeeps ==
  ASSUME VInv, NEW t \in Threads, NEW o, Worker(t, o), MergeOK'
  PROVE  VInv'
BY WorkerGlobals, WorkerPlaces DEF VInv

\* The two sets of threads that the invariant counts are finite.
LEMMA FiniteSets ==
  /\ IsFiniteSet(Holders) /\ Cardinality(Holders) \in Nat
  /\ IsFiniteSet(Counted) /\ Cardinality(Counted) \in Nat
BY Constants, FS_Subset, FS_CardinalityType DEF Holders, Counted, OnNewFile

-----------------------------------------------------------------------------
\* The steps of a thread on a task.
LEMMA CountedSame ==
  ASSUME NEW t \in Threads, Others(t), Round' = Round, New'.ver = New.ver,
         th[t].pc \notin {"countStored", "countUpdated"},
         th'[t].pc \notin {"countStored", "countUpdated"}
  PROVE  Pending' = Pending /\ OnNewFile' = OnNewFile /\ Counted' = Counted
<1>1. OnNewFile' = OnNewFile
  BY DEF OnNewFile
<1>2. \A u \in Threads : /\ th'[u].pc = "countStored" <=> th[u].pc = "countStored"
                         /\ th'[u].pc = "countUpdated" <=> th[u].pc = "countUpdated"
                         /\ th[u].pc = "countUpdated" => th'[u].who = th[u].who
  BY DEF Others
<1>3. Pending' = Pending
  BY <1>2 DEF Pending
<1> QED
  BY <1>1, <1>3 DEF Counted

LEMMA CountSame ==
  ASSUME CountOK, NEW t \in Threads, Others(t),
         th[t].pc \notin Uncounted, th'[t].pc \notin Uncounted,
         Pending' \subseteq OnNewFile', Counted' = Counted,
         New'.count = New.count, New'.updated = New.updated,
         New'.finished >= 1 => New.finished >= 1 \/ Counted # {}
  PROVE  CountOK'
<1>1. \A u \in Threads : th'[u].pc \in Uncounted <=> th[u].pc \in Uncounted
  BY DEF Others
<1> QED
  BY <1>1 DEF CountOK

\* A thread that holds a task works on a version that is not announced.
LEMMA HolderFacts ==
  ASSUME VInv, NEW t \in Threads, th[t].pc \in Storing \/ New.next \in Partitions,
         Round >= 2
  PROVE  ~New.updated /\ New.latest = Round - 1 /\ hy.static # Round /\ ~AllStored
<1>1. TasksOK /\ NewOK
  BY DEF VInv, MergeOK
<1>2. ~AllStored
  BY Constants DEF AllStored, Holders
<1>3. ~New.updated
  BY <1>1, <1>2 DEF TasksOK
<1>4. New.latest = Round - 1
  BY <1>1, <1>3 DEF NewOK
<1>5. hy.static # Round
  BY <1>4, Basics DEF VInv, StaticOK, IsSettled, New
<1> QED
  BY <1>2, <1>3, <1>4, <1>5

LEMMA TakeKeeps ==
  ASSUME VInv, Shape, NEW t \in Threads, th[t].pc = "takeTask", B(t).next = th[t].task,
         ChangeB(t, TakeTask(B(t), th[t].task)), Goto(t, "store"), OnlyStatic
  PROVE  VInv'
<1> DEFINE p == th[t].task
           o == TakeTask(New, p)
<1>1. /\ th[t].b = Round /\ Round >= 2 /\ B(t) = New /\ NewOK /\ TasksOK /\ CountOK
      /\ WorkingOK(t) /\ FieldsOK(t) /\ Round \in Nat /\ New \in Object
  BY WorksOnNew, Basics DEF UseB, TaskPlaces, VInv, PlacesOK
<1>2. p \in Partitions /\ New.next = p /\ (New.ver[t] = Round - 1 \/ New.updated)
  BY <1>1 DEF WorkingOK
<1>3. ~New.updated /\ New.latest = Round - 1 /\ hy.static # Round /\ ~AllStored
  BY <1>1, <1>2, HolderFacts
<1>4. sta' = [sta EXCEPT ![Round] = o]
  BY <1>1 DEF ChangeB
<1>5. /\ o \in Object /\ o.next = p + 1 /\ o.finished = New.finished
      /\ SameVersions(o, New) /\ SameFiles(o, New) /\ o.count = New.count
  BY <1>1, <1>2, TakeTaskObject
<1> HIDE DEF o
<1>6. Round' = Round /\ New' = o
  BY <1>4, <1>5, ChangeNew
<1>7. Others(t) /\ th'[t].pc = "store" /\ Locals(t)
  BY GotoEffect
<1>8. p \in Nat /\ MergeThreadNum \in Nat
  BY <1>2, Constants
<1>9. Pending' = Pending /\ OnNewFile' = OnNewFile /\ Counted' = Counted
  BY <1>5, <1>6, <1>7, CountedSame DEF SameFiles
<1>10. t \notin Holders /\ Holders' = Holders \cup {t}
  BY <1>7 DEF Holders, Others, Storing
<1>11. PlaceOK(t)'
  <2>1. FieldsOK(t)'
    BY <1>1, <1>6, <1>7 DEF FieldsOK, Locals, OnTheWay, MovePlaces, Answered
  <2>2. WorkingOK(t)'
    BY <1>1, <1>2, <1>3, <1>5, <1>6, <1>7 DEF WorkingOK, Locals, SameFiles
  <2>3. MovingOK(t)' /\ FindingOK(t)'
    BY <1>7 DEF MovingOK, FindingOK, MovePlaces, Winning
  <2> QED
    BY <2>1, <2>2, <2>3 DEF PlaceOK
<1>12. Worker(t, o)
  <2>1. BusyWithMerge(t) /\ ~Winning(t)'
    BY <1>7 DEF BusyWithMerge, TaskPlaces, Winning
  <2>2. /\ th[t].pc \notin Preparing \cup {"announceVersion"}
        /\ th'[t].pc \notin Preparing \cup {"announceVersion"}
    BY <1>7 DEF Preparing, Opening
  <2>3. FilesOK /\ files \in Seq([Partitions -> SUBSET Keys])
    BY DEF VInv, TypesOK
  <2>4. hy.static # Round => Len(files') \in {Round - 1, Round}
    BY <2>3 DEF OnlyStatic, FilesOK
  <2>5. o.next # -1 /\ New.next # -1
    BY <1>2, <1>5, <1>8
  <2> QED
    BY <1>3, <1>4, <1>5, <1>7, <1>9, <1>11, <2>1, <2>2, <2>3, <2>4, <2>5
       DEF Worker, OnlyStatic, SameHy, SameFiles
<1>13. NewOK'
  BY <1>1, <1>5, <1>6, <1>8 DEF NewOK, SameVersions, SameFiles
<1>14. CountOK'
  <2>1. th[t].pc \notin Uncounted /\ th'[t].pc \notin Uncounted
    BY <1>7 DEF Uncounted, Offering
  <2> QED
    BY <1>1, <1>5, <1>6, <1>7, <1>9, <2>1, CountSame DEF SameVersions, CountOK
<1>15. TasksOK'
  <2>1. o.finished + Cardinality(Holders') = o.next
    <3>1. New.finished + Cardinality(Holders) = p
      BY <1>1, <1>2, <1>3, <1>8 DEF TasksOK
    <3>2. Cardinality(Holders') = Cardinality(Holders) + 1
      BY <1>10, FiniteSets, FS_AddElement
    <3>3. New.finished \in Int /\ Cardinality(Holders) \in Nat
      BY <1>1, ObjectFields, FiniteSets
    <3> QED
      BY <1>5, <1>8, <3>1, <3>2, <3>3
  <2>2. \A u \in Holders : th'[u].task = th[u].task /\ th[u].task \in Partitions /\ th[u].task < p
    BY <1>1, <1>2, <1>7, <1>10 DEF TasksOK, Others, Holders
  <2>3. th'[t].task = p
    BY <1>7 DEF Locals
  <2>4. \A u \in Holders : th[u].task \in Nat
    BY <2>2, Constants
  <2>5. \A u \in Holders' : th'[u].task \in Partitions /\ th'[u].task < o.next
    BY <1>2, <1>5, <1>8, <1>10, <2>2, <2>3, <2>4
  <2>6. \A u, w \in Holders' : th'[u].task = th'[w].task => u = w
    BY <1>1, <1>8, <1>10, <2>2, <2>3, <2>4 DEF TasksOK
  <2>7. ASSUME NEW q \in Partitions, q < o.next
        PROVE  \/ \E u \in Threads : th'[u].pc = "store" /\ th'[u].task = q
               \/ /\ o.layout[q] = Round
                  /\ (hy'.static # Round \/ hy'.backup # NULL => IsComplete(q)')
    <3>1. CASE q = p
      BY <1>7, <2>3, <3>1
    <3>2. CASE q # p
      <4>1. q < New.next
        BY <1>2, <1>5, <1>8, <2>7, <3>2, Constants
      <4>2. IsComplete(q) => IsComplete(q)'
        BY <1>6 DEF IsComplete, OnlyStatic
      <4>3. \A u \in Threads : th[u].pc = "store" => th'[u] = th[u]
        BY <1>7 DEF Others
      <4> QED
        BY <1>1, <1>5, <4>1, <4>2, <4>3 DEF TasksOK, SameFiles, OnlyStatic
    <3> QED
      BY <3>1, <3>2
  <2>8. ~o.updated /\ o.next # -1
    BY <1>3, <1>5, <1>8 DEF SameVersions
  <2> QED
    BY <1>6, <2>1, <2>5, <2>6, <2>7, <2>8 DEF TasksOK
<1> QED
  BY <1>12, <1>13, <1>14, <1>15, WorkerKeeps DEF MergeOK

LEMMA TakeTaskKeeps ==
  ASSUME VInv, Shape, NEW t \in Threads, TakeTaskOrLoseIt(t)
  PROVE  VInv'
<1>1. th[t].pc = "takeTask" /\ OnlyStatic
  BY DEF TakeTaskOrLoseIt, At
<1>2. CASE Goto(t, th[t].then) /\ UNCHANGED sta
  <2>1. OnlyThread
    BY <1>1, <1>2 DEF OnlyStatic, OnlyThread
  <2> QED
    BY <1>1, <1>2, <2>1, OnlyThreadStill, ThenKeeps
<1>3. CASE /\ B(t).next = th[t].task /\ ChangeB(t, TakeTask(B(t), th[t].task))
           /\ Goto(t, "store")
  BY <1>1, <1>3, TakeKeeps
<1> QED
  BY <1>2, <1>3 DEF TakeTaskOrLoseIt

LEMMA FinishMergeKeeps ==
  ASSUME VInv, Shape, NEW t \in Threads, FinishMerge(t)
  PROVE  VInv'
<1> DEFINE o == FinishTask(New)
<1>0. th[t].pc = "finishTask" /\ OnlyStatic /\ Goto(t, th[t].then)
  BY DEF FinishMerge, At
<1>1. /\ th[t].b = Round /\ Round >= 2 /\ B(t) = New /\ NewOK /\ TasksOK /\ CountOK
      /\ WorkingOK(t) /\ FieldsOK(t) /\ Round \in Nat /\ New \in Object
  BY <1>0, WorksOnNew, Basics DEF UseB, TaskPlaces, VInv, PlacesOK
<1>3. ~New.updated /\ New.latest = Round - 1 /\ hy.static # Round /\ ~AllStored
  BY <1>0, <1>1, HolderFacts DEF Storing
<1>4. sta' = [sta EXCEPT ![Round] = o]
  BY <1>1 DEF FinishMerge, ChangeB
<1>5. /\ o \in Object /\ o.next = New.next /\ o.finished = New.finished + 1
      /\ SameVersions(o, New) /\ SameFiles(o, New) /\ o.count = New.count
  BY <1>1, FinishTaskObject
<1> HIDE DEF o
<1>6. Round' = Round /\ New' = o
  BY <1>4, <1>5, ChangeNew
<1>7. Others(t) /\ th'[t].pc = th[t].then /\ Locals(t)
  BY <1>0, GotoEffect
<1>8. th'[t].pc \in {"", "checkFinished", "announce"}
  BY <1>7 DEF Shape, IsThread, ThreadOf, Nexts
<1>9. Pending' = Pending /\ OnNewFile' = OnNewFile /\ Counted' = Counted
  BY <1>0, <1>5, <1>6, <1>7, <1>8, CountedSame DEF SameFiles
<1>10. t \in Holders /\ Holders' = Holders \ {t}
  BY <1>0, <1>7, <1>8 DEF Holders, Others, Storing
<1>11. PlaceOK(t)'
  <2>1. FieldsOK(t)'
    BY <1>0, <1>1, <1>6, <1>7, <1>8 DEF FieldsOK, Locals, OnTheWay, MovePlaces, Answered
  <2>2. WorkingOK(t)'
    BY <1>1, <1>6, <1>7, <1>8 DEF WorkingOK, Locals, UseB, TaskPlaces, MovePlaces,
       Uncounted, Offering
  <2>3. MovingOK(t)' /\ FindingOK(t)'
    BY <1>8 DEF MovingOK, FindingOK, MovePlaces, Winning
  <2> QED
    BY <2>1, <2>2, <2>3 DEF PlaceOK
<1>12. Worker(t, o)
  <2>1. BusyWithMerge(t) /\ ~Winning(t)'
    BY <1>0, <1>8 DEF BusyWithMerge, TaskPlaces, Winning
  <2>2. /\ th[t].pc \notin Preparing \cup {"announceVersion"}
        /\ th'[t].pc \notin Preparing \cup {"announceVersion"}
    BY <1>0, <1>8 DEF Preparing, Opening
  <2>3. FilesOK /\ files \in Seq([Partitions -> SUBSET Keys])
    BY DEF VInv, TypesOK
  <2>4. hy.static # Round => Len(files') \in {Round - 1, Round}
    BY <1>0, <2>3 DEF OnlyStatic, FilesOK
  <2> QED
    BY <1>0, <1>3, <1>4, <1>5, <1>7, <1>8, <1>9, <1>11, <2>1, <2>2, <2>3, <2>4
       DEF Worker, OnlyStatic, SameHy, SameFiles
<1>13. NewOK'
  BY <1>1, <1>5, <1>6 DEF NewOK, SameVersions, SameFiles
<1>14. CountOK'
  <2>1. th[t].pc \notin Uncounted /\ th'[t].pc \notin Uncounted
    BY <1>0, <1>8 DEF Uncounted, Offering
  <2>2. Counted # {}
    BY <1>0, <1>1 DEF WorkingOK
  <2> QED
    BY <1>1, <1>5, <1>6, <1>7, <1>9, <2>1, <2>2, CountSame DEF SameVersions, CountOK
<1>15. TasksOK'
  <2>1. o.finished + Cardinality(Holders') = IF o.next = -1 THEN 0 ELSE o.next
    <3>1. New.finished + Cardinality(Holders) = IF New.next = -1 THEN 0 ELSE New.next
      BY <1>1, <1>3 DEF TasksOK
    <3>2. Cardinality(Holders') = Cardinality(Holders) - 1
      BY <1>10, FiniteSets, FS_RemoveElement
    <3>3. New.finished \in Int /\ Cardinality(Holders) \in Nat
      BY <1>1, ObjectFields, FiniteSets
    <3> QED
      BY <1>5, <3>1, <3>2, <3>3
  <2>2. \A u \in Holders' : u \in Holders /\ th'[u] = th[u]
    BY <1>7, <1>10 DEF Others, Holders
  <2>3. \A u \in Holders' : th'[u].task \in Partitions /\ th'[u].task < o.next
    BY <1>1, <1>5, <2>2 DEF TasksOK
  <2>4. \A u, w \in Holders' : th'[u].task = th'[w].task => u = w
    BY <1>1, <2>2 DEF TasksOK
  <2>5. ASSUME NEW q \in Partitions, q < o.next
        PROVE  \/ \E u \in Threads : th'[u].pc = "store" /\ th'[u].task = q
               \/ /\ o.layout[q] = Round
                  /\ (hy'.static # Round \/ hy'.backup # NULL => IsComplete(q)')
    <3>1. IsComplete(q) => IsComplete(q)'
      BY <1>0, <1>6 DEF IsComplete, OnlyStatic
    <3>2. \A u \in Threads : th[u].pc = "store" => th'[u] = th[u]
      BY <1>0, <1>7 DEF Others
    <3> QED
      BY <1>0, <1>1, <1>5, <2>5, <3>1, <3>2 DEF TasksOK, SameFiles, OnlyStatic
  <2>6. ~o.updated
    BY <1>3, <1>5 DEF SameVersions
  <2> QED
    BY <1>6, <2>1, <2>3, <2>4, <2>5, <2>6 DEF TasksOK
<1> QED
  BY <1>1, <1>6, <1>12, <1>13, <1>14, <1>15, WorkerKeeps DEF MergeOK

\* A step that leaves the tasks alone.
LEMMA TasksSame ==
  ASSUME TasksOK, NEW t \in Threads, Others(t), th'[t].task = th[t].task,
         th'[t].pc \in Storing <=> th[t].pc \in Storing,
         th[t].pc # "store", th'[t].pc # "store",
         Round' = Round, SameVersions(New', New), SameTasks(New', New),
         New'.layout = New.layout, files' = files, tmp' = tmp, SameHy
  PROVE  TasksOK' /\ Holders' = Holders
<1>1. Holders' = Holders
  BY DEF Holders, Others
<1>2. AllStored' <=> AllStored
  BY <1>1 DEF AllStored, SameTasks
<1>3. \A u \in Threads : th'[u].task = th[u].task /\ (th'[u].pc = "store" <=> th[u].pc = "store")
  BY DEF Others
<1>4. \A p : IsComplete(p)' <=> IsComplete(p)
  BY DEF IsComplete
<1>5. New'.updated = New.updated /\ New'.next = New.next /\ New'.finished = New.finished
  BY DEF SameVersions, SameTasks
<1>6. \A u \in Holders : u \in Threads
  BY DEF Holders
<1>7. New'.updated => AllStored'
  BY <1>2, <1>5 DEF TasksOK
<1>8. ~New'.updated =>
         New'.finished + Cardinality(Holders') = IF New'.next = -1 THEN 0 ELSE New'.next
  BY <1>1, <1>5 DEF TasksOK
<1>9. \A u \in Holders' : th'[u].task \in Partitions /\ th'[u].task < New'.next
  BY <1>1, <1>3, <1>5, <1>6 DEF TasksOK
<1>10. \A u, w \in Holders' : th'[u].task = th'[w].task => u = w
  BY <1>1, <1>3, <1>6 DEF TasksOK
<1>11. \A p \in Partitions : p < New'.next =>
         \/ \E u \in Threads : th'[u].pc = "store" /\ th'[u].task = p
         \/ /\ New'.layout[p] = Round'
            /\ (hy'.static # Round' \/ hy'.backup # NULL => IsComplete(p)')
  BY <1>3, <1>4, <1>5 DEF TasksOK, SameHy
<1> QED
  BY <1>1, <1>7, <1>8, <1>9, <1>10, <1>11 DEF TasksOK

LEMMA CountMore ==
  ASSUME VInv, CountOK, NEW t \in Threads, Others(t), NEW w \in Threads, w \notin Counted,
         th[t].pc \notin Uncounted, th'[t].pc \notin Uncounted,
         Pending' \subseteq OnNewFile', Counted' = Counted \cup {w},
         New'.count = New.count + 1, New.count \in Int
  PROVE  CountOK'
<1>1. \A u \in Threads : th'[u].pc \in Uncounted <=> th[u].pc \in Uncounted
  BY DEF Others
<1>2. Cardinality(Counted') = Cardinality(Counted) + 1 /\ Cardinality(Counted) \in Nat
  BY FiniteSets, FS_AddElement
<1>3. Counted' # {} /\ ThreadNumbers \in Nat
  BY Constants
<1>4. New.count = ThreadNumbers + Cardinality(Counted) =>
        New'.count = ThreadNumbers + Cardinality(Counted')
  BY <1>2, <1>3
<1>5. New.count = Cardinality(Counted) => New'.count = Cardinality(Counted')
  BY <1>2
<1> QED
  BY <1>1, <1>3, <1>4, <1>5 DEF CountOK

LEMMA CountStoredKeeps ==
  ASSUME VInv, Shape, NEW t \in Threads, CountStored(t)
  PROVE  VInv'
<1> DEFINE o == CountThread(New)
<1>0. th[t].pc = "countStored" /\ OnlyStatic /\ Goto(t, "finishTask")
  BY DEF CountStored, At
<1>1. /\ th[t].b = Round /\ Round >= 2 /\ B(t) = New /\ NewOK /\ TasksOK /\ CountOK
      /\ WorkingOK(t) /\ FieldsOK(t) /\ Round \in Nat /\ New \in Object
  BY <1>0, WorksOnNew, Basics DEF UseB, TaskPlaces, VInv, PlacesOK
<1>3. ~New.updated /\ New.latest = Round - 1 /\ hy.static # Round /\ ~AllStored
  BY <1>0, <1>1, HolderFacts DEF Storing
<1>4. sta' = [sta EXCEPT ![Round] = o]
  BY <1>1 DEF CountStored, ChangeB
<1>5. /\ o \in Object /\ o.count = New.count + 1 /\ New.count \in Int
      /\ SameVersions(o, New) /\ SameFiles(o, New) /\ SameTasks(o, New)
  BY <1>1, CountThreadObject, ObjectFields
<1> HIDE DEF o
<1>6. Round' = Round /\ New' = o
  BY <1>4, <1>5, ChangeNew
<1>7. Others(t) /\ th'[t].pc = "finishTask" /\ Locals(t)
  BY <1>0, GotoEffect
<1>8. New.ver[t] = Round
  BY <1>0, <1>1 DEF WorkingOK
<1>9. OnNewFile' = OnNewFile /\ t \in OnNewFile
  BY <1>5, <1>6, <1>8 DEF OnNewFile, SameFiles
<1>10. \A u \in Threads : th[u].pc # "countUpdated" /\ th'[u].pc # "countUpdated"
  BY <1>3, <1>7 DEF VInv, PlacesOK, MovingOK, MovePlaces, Others
<1>11. t \in Pending /\ Pending' = Pending \ {t}
  BY <1>0, <1>7, <1>10 DEF Pending, Others
<1>12. t \notin Counted /\ Counted' = Counted \cup {t}
  BY <1>9, <1>11 DEF Counted
<1>13. PlaceOK(t)'
  <2>1. FieldsOK(t)'
    BY <1>0, <1>1, <1>6, <1>7 DEF FieldsOK, Locals, OnTheWay, MovePlaces, Answered
  <2>2. WorkingOK(t)'
    BY <1>1, <1>5, <1>6, <1>7, <1>8, <1>12 DEF WorkingOK, Locals, SameFiles
  <2>3. MovingOK(t)' /\ FindingOK(t)'
    BY <1>7 DEF MovingOK, FindingOK, MovePlaces, Winning
  <2> QED
    BY <2>1, <2>2, <2>3 DEF PlaceOK
<1>14. Worker(t, o)
  <2>1. BusyWithMerge(t) /\ ~Winning(t)'
    BY <1>0, <1>7 DEF BusyWithMerge, TaskPlaces, Winning
  <2>2. /\ th[t].pc \notin Preparing \cup {"announceVersion"}
        /\ th'[t].pc \notin Preparing \cup {"announceVersion"}
    BY <1>0, <1>7 DEF Preparing, Opening
  <2>3. FilesOK /\ files \in Seq([Partitions -> SUBSET Keys])
    BY DEF VInv, TypesOK
  <2>4. hy.static # Round => Len(files') \in {Round - 1, Round}
    BY <1>0, <2>3 DEF OnlyStatic, FilesOK
  <2>5. o.next = New.next
    BY <1>5 DEF SameTasks
  <2> QED
    BY <1>0, <1>3, <1>4, <1>5, <1>7, <1>12, <1>13, <2>1, <2>2, <2>3, <2>4, <2>5
       DEF Worker, OnlyStatic, SameHy, SameFiles
<1>15. NewOK'
  BY <1>1, <1>5, <1>6 DEF NewOK, SameVersions, SameFiles, SameTasks
<1>16. CountOK'
  <2>1. th[t].pc \notin Uncounted /\ th'[t].pc \notin Uncounted
    BY <1>0, <1>7 DEF Uncounted, Offering
  <2>2. Pending' \subseteq OnNewFile'
    BY <1>1, <1>9, <1>11 DEF CountOK
  <2> QED
    BY <1>1, <1>5, <1>6, <1>7, <1>12, <2>1, <2>2, CountMore
<1>17. TasksOK'
  <2>1. th'[t].pc \in Storing /\ th[t].pc \in Storing
    BY <1>0, <1>7 DEF Storing
  <2> QED
    BY <1>0, <1>1, <1>5, <1>6, <1>7, <2>1, TasksSame
       DEF Locals, OnlyStatic, SameHy, SameFiles
<1> QED
  BY <1>1, <1>6, <1>14, <1>15, <1>16, <1>17, WorkerKeeps DEF MergeOK

LEMMA CountUpdatedKeeps ==
  ASSUME VInv, Shape, NEW t \in Threads, CountUpdated(t)
  PROVE  VInv'
<1> DEFINE o == CountThread(New)
           w == th[t].who
<1>0. th[t].pc = "countUpdated" /\ OnlyStatic /\ Goto(t, "checkCount")
  BY DEF CountUpdated, At
<1>1. /\ th[t].b = Round /\ Round >= 2 /\ B(t) = New /\ NewOK /\ TasksOK /\ CountOK
      /\ WorkingOK(t) /\ FieldsOK(t) /\ Round \in Nat /\ New \in Object
  BY <1>0, WorksOnNew, Basics DEF UseB, MovePlaces, VInv, PlacesOK
<1>2. w \in Threads /\ New.updated /\ New.ver[w] = Round
  BY <1>0, <1>1 DEF FieldsOK, VInv, PlacesOK, MovingOK, MovePlaces
<1>3. \A u \in Threads : th[u].pc \notin Storing
  BY <1>1, <1>2, HolderFacts
<1>4. sta' = [sta EXCEPT ![Round] = o]
  BY <1>1 DEF CountUpdated, ChangeB
<1>5. /\ o \in Object /\ o.count = New.count + 1 /\ New.count \in Int
      /\ SameVersions(o, New) /\ SameFiles(o, New) /\ SameTasks(o, New)
  BY <1>1, CountThreadObject, ObjectFields
<1> HIDE DEF o
<1>6. Round' = Round /\ New' = o
  BY <1>4, <1>5, ChangeNew
<1>7. Others(t) /\ th'[t].pc = "checkCount" /\ Locals(t)
  BY <1>0, GotoEffect
<1>9. OnNewFile' = OnNewFile /\ w \in OnNewFile
  BY <1>2, <1>5, <1>6 DEF OnNewFile, SameFiles
<1>10. \A u \in Threads : /\ th[u].pc # "countStored" /\ th'[u].pc # "countStored"
                          /\ th[u].pc = "countUpdated" /\ u # t => th[u].who # w
  BY <1>0, <1>3, <1>7 DEF Others, Storing, VInv, OneOfEach
<1>11. w \in Pending /\ Pending' = Pending \ {w}
  <2>1. Pending = {u \in Threads : \E x \in Threads : th[x].pc = "countUpdated" /\ u = th[x].who}
    BY <1>10 DEF Pending
  <2>2. Pending' = {u \in Threads : \E x \in Threads : th'[x].pc = "countUpdated" /\ u = th'[x].who}
    BY <1>10 DEF Pending
  <2> QED
    BY <1>0, <1>2, <1>7, <1>10, <2>1, <2>2 DEF Others
<1>12. w \notin Counted /\ Counted' = Counted \cup {w}
  BY <1>9, <1>11 DEF Counted
<1>13. PlaceOK(t)'
  <2>1. FieldsOK(t)'
    BY <1>0, <1>1, <1>6, <1>7 DEF FieldsOK, Locals, OnTheWay, MovePlaces, Answered
  <2>2. WorkingOK(t)'
    BY <1>1, <1>6, <1>7 DEF WorkingOK, Locals
  <2>3. MovingOK(t)' /\ FindingOK(t)'
    BY <1>2, <1>5, <1>6, <1>7 DEF MovingOK, FindingOK, MovePlaces, Winning, SameFiles,
       SameVersions, Locals
  <2> QED
    BY <2>1, <2>2, <2>3 DEF PlaceOK
<1>14. Worker(t, o)
  <2>1. BusyWithMerge(t) /\ ~Winning(t)'
    BY <1>0, <1>7 DEF BusyWithMerge, MovePlaces, Winning
  <2>2. /\ th[t].pc \notin Preparing \cup {"announceVersion"}
        /\ th'[t].pc \notin Preparing \cup {"announceVersion"}
    BY <1>0, <1>7 DEF Preparing, Opening
  <2>3. FilesOK /\ files \in Seq([Partitions -> SUBSET Keys])
    BY DEF VInv, TypesOK
  <2>4. /\ hy.static # Round => Len(files') \in {Round - 1, Round}
        /\ hy.static = Round => IsSettled(o, Round) /\ Len(files') = Round
    BY <1>0, <1>5, <2>3 DEF OnlyStatic, FilesOK, VInv, StaticOK, IsSettled, SameVersions,
       SameFiles, New
  <2>5. o.next = New.next
    BY <1>5 DEF SameTasks
  <2>6. AllStored => AllStored'
    BY <1>3, <1>6, <1>7, <2>5 DEF AllStored, Holders, Others, Storing
  <2> QED
    BY <1>0, <1>4, <1>5, <1>7, <1>12, <1>13, <2>1, <2>2, <2>3, <2>4, <2>5, <2>6
       DEF Worker, OnlyStatic, SameHy, SameFiles
<1>15. NewOK'
  BY <1>1, <1>5, <1>6 DEF NewOK, SameVersions, SameFiles, SameTasks
<1>16. CountOK'
  <2>1. th[t].pc \notin Uncounted /\ th'[t].pc \notin Uncounted
    BY <1>0, <1>7 DEF Uncounted, Offering
  <2>2. Pending' \subseteq OnNewFile'
    BY <1>1, <1>9, <1>11 DEF CountOK
  <2> QED
    BY <1>1, <1>2, <1>5, <1>6, <1>7, <1>12, <2>1, <2>2, CountMore
<1>17. TasksOK'
  <2>1. th'[t].pc \notin Storing /\ th[t].pc \notin Storing
    BY <1>0, <1>7 DEF Storing
  <2>2. th[t].pc # "store" /\ th'[t].pc # "store"
    BY <1>0, <1>7
  <2> QED
    BY <1>0, <1>1, <1>5, <1>6, <1>7, <2>1, <2>2, TasksSame
       DEF Locals, OnlyStatic, SameHy, SameFiles
<1> QED
  BY <1>1, <1>6, <1>14, <1>15, <1>16, <1>17, WorkerKeeps DEF MergeOK

LEMMA OpenLatestKeeps ==
  ASSUME VInv, Shape, OneMover, NEW t \in Threads, OpenLatestFile(t)
  PROVE  VInv'
<1> DEFINE w == th[t].who
           o == OpenLatest(New, w)
<1>0. th[t].pc = "openLatest" /\ OnlyStatic /\ Goto(t, "countUpdated")
  BY DEF OpenLatestFile, At
<1>1. /\ th[t].b = Round /\ Round >= 2 /\ B(t) = New /\ NewOK /\ TasksOK /\ CountOK
      /\ WorkingOK(t) /\ FieldsOK(t) /\ Round \in Nat /\ New \in Object
  BY <1>0, WorksOnNew, Basics DEF UseB, MovePlaces, VInv, PlacesOK
<1>2. w \in Threads /\ New.updated /\ New.ver[w] = Round - 1 /\ New.latest = Round
  BY <1>0, <1>1 DEF FieldsOK, VInv, PlacesOK, MovingOK, MovePlaces, NewOK
<1>3. hy.static # Round
  BY <1>1, <1>2 DEF VInv, StaticOK, IsSettled, New
<1>4. sta' = [sta EXCEPT ![Round] = o]
  BY <1>1 DEF OpenLatestFile, ChangeB
<1>5. /\ o \in Object /\ SameVersions(o, New) /\ SameTasks(o, New) /\ o.count = New.count
      /\ o.ver = [New.ver EXCEPT ![w] = Round] /\ o.fd = [New.fd EXCEPT ![w] = Round]
      /\ o.layout = New.layout
  BY <1>1, <1>2, OpenLatestObject, SMTT(30)
<1> HIDE DEF o
<1>6. Round' = Round /\ New' = o
  BY <1>4, <1>5, ChangeNew
<1>7. Others(t) /\ th'[t].pc = "countUpdated" /\ Locals(t)
  BY <1>0, GotoEffect
<1>8. /\ New.ver \in [Threads -> Nat] /\ New.fd \in [Threads -> Nat]
  BY <1>1, ObjectFields
<1>9. /\ o.ver[w] = Round /\ o.fd[w] = Round
      /\ \A u \in Threads : u # w => o.ver[u] = New.ver[u] /\ o.fd[u] = New.fd[u]
  BY <1>2, <1>5, <1>8
<1>10. w \notin OnNewFile /\ OnNewFile' = OnNewFile \cup {w}
  BY <1>1, <1>2, <1>6, <1>9 DEF OnNewFile
<1>11. \A u \in Threads : /\ th'[u].pc = "countStored" <=> th[u].pc = "countStored"
                          /\ th[u].pc = "countUpdated" => th'[u] = th[u]
                          /\ th'[u].pc = "countUpdated" <=> th[u].pc = "countUpdated" \/ u = t
  BY <1>0, <1>7 DEF Others
<1>12. Pending' = Pending \cup {w}
  BY <1>2, <1>7, <1>11 DEF Pending, Locals
<1>13. Counted' = Counted
  BY <1>1, <1>10, <1>12 DEF Counted, CountOK
<1>14. PlaceOK(t)'
  <2>1. FieldsOK(t)'
    BY <1>0, <1>1, <1>6, <1>7 DEF FieldsOK, Locals, OnTheWay, MovePlaces, Answered
  <2>2. WorkingOK(t)'
    BY <1>1, <1>6, <1>7 DEF WorkingOK, Locals
  <2>3. MovingOK(t)' /\ FindingOK(t)'
    BY <1>2, <1>5, <1>6, <1>7, <1>9 DEF MovingOK, FindingOK, MovePlaces, Winning,
       SameVersions, Locals
  <2> QED
    BY <2>1, <2>2, <2>3 DEF PlaceOK
<1>15. Worker(t, o)
  <2>1. BusyWithMerge(t) /\ ~Winning(t)'
    BY <1>0, <1>7 DEF BusyWithMerge, MovePlaces, Winning
  <2>2. /\ th[t].pc \notin Preparing \cup {"announceVersion"}
        /\ th'[t].pc \notin Preparing \cup {"announceVersion"}
    BY <1>0, <1>7 DEF Preparing, Opening
  <2>3. FilesOK /\ files \in Seq([Partitions -> SUBSET Keys])
    BY DEF VInv, TypesOK
  <2>4. hy.static # Round => Len(files') \in {Round - 1, Round}
    BY <1>0, <2>3 DEF OnlyStatic, FilesOK
  <2>5. o.next = New.next
    BY <1>5 DEF SameTasks
  <2>6. AllStored => AllStored'
    BY <1>0, <1>6, <1>7, <2>5 DEF AllStored, Holders, Others, Storing
  <2>7. \A u \in Threads : u # t /\ th[u].pc = "countUpdated" => th[u].who # th'[t].who
    <3>1. \A u \in Threads : th[u].pc = "countUpdated" => New.ver[th[u].who] = Round
      BY DEF VInv, PlacesOK, MovingOK, MovePlaces
    <3> QED
      BY <1>1, <1>2, <1>7, <3>1 DEF Locals
  <2>8. \A x \in Threads : o.ver[x] # New.ver[x] =>
          /\ o.ver[x] = Round /\ (x = t \/ New.updated)
          /\ \A u \in Threads : u # t /\ th[u].pc = "openLatest" => th[u].who # x
    BY <1>0, <1>2, <1>9 DEF OneMover, At
  <2> QED
    BY <1>0, <1>3, <1>4, <1>5, <1>7, <1>13, <1>14, <2>1, <2>2, <2>3, <2>4, <2>5, <2>6,
       <2>7, <2>8 DEF Worker, OnlyStatic, SameHy
<1>16. NewOK'
  <2>1. o.next = New.next /\ o.latest = New.latest /\ o.updated = New.updated /\ o.old = New.old
    BY <1>5 DEF SameVersions, SameTasks
  <2>2. \A u \in Threads : o.ver[u] \in {Round - 1, Round} /\ o.fd[u] = o.ver[u]
    BY <1>1, <1>9 DEF NewOK
  <2> QED
    BY <1>1, <1>5, <1>6, <2>1, <2>2 DEF NewOK
<1>17. CountOK'
  <2>1. th[t].pc \notin Uncounted /\ th'[t].pc \notin Uncounted
    BY <1>0, <1>7 DEF Uncounted, Offering
  <2>2. Pending' \subseteq OnNewFile'
    BY <1>1, <1>10, <1>12 DEF CountOK
  <2>3. Counted # {}
    BY <1>1, <1>2 DEF CountOK
  <2> QED
    BY <1>1, <1>5, <1>6, <1>7, <1>13, <2>1, <2>2, <2>3, CountSame DEF SameVersions
<1>18. TasksOK'
  <2>1. th'[t].pc \notin Storing /\ th[t].pc \notin Storing
    BY <1>0, <1>7 DEF Storing
  <2>2. th[t].pc # "store" /\ th'[t].pc # "store"
    BY <1>0, <1>7
  <2> QED
    BY <1>0, <1>1, <1>5, <1>6, <1>7, <2>1, <2>2, TasksSame DEF Locals, OnlyStatic, SameHy
<1> QED
  BY <1>1, <1>6, <1>15, <1>16, <1>17, <1>18, WorkerKeeps DEF MergeOK

-----------------------------------------------------------------------------
\* The merge of a partition.

\* What the files are after MergeSubData.
LEMMA StoredFiles ==
  ASSUME VInv, NEW t \in Threads, th[t].pc = "store", MergeSubData(t)
  PROVE  /\ files' \in Seq([Partitions -> SUBSET Keys]) /\ Len(files') = Round
         /\ \A i \in 1 .. Round - 1 : files'[i] = files[i]
         /\ files'[Round][th[t].task] =
              files[Round - 1][th[t].task] \cup {k \in tmp : PartitionOf[k] = th[t].task}
         /\ Len(files) = Round => \A q \in Partitions : q # th[t].task =>
                                    files'[Round][q] = files[Round][q]
<1> DEFINE p == th[t].task
           n == Round
           mine == files[n - 1][p] \cup {k \in tmp : PartitionOf[k] = p}
           blank == [q \in Partitions |-> {}]
           all == IF n <= Len(files) THEN files ELSE Append(files, blank)
           T == [Partitions -> SUBSET Keys]
<1>1. /\ Round >= 2 /\ B(t) = New /\ NewOK /\ TasksOK
      /\ WorkingOK(t) /\ n \in Nat /\ New \in Object
  BY WorksOnNew, Basics DEF UseB, TaskPlaces, VInv, PlacesOK
<1>2. New.latest + 1 = n /\ hy.static # n
  BY <1>1, HolderFacts DEF Storing
<1>3. New.fd[t] = n - 1 /\ p \in Partitions
  BY <1>1 DEF WorkingOK, NewOK, TasksOK, Holders, Storing
<1>4. files \in Seq(T) /\ Len(files) \in {n - 1, n} /\ tmp \subseteq Keys
  BY <1>2 DEF VInv, TypesOK, FilesOK
<1>5. files' = [all EXCEPT ![n][p] = mine]
  BY <1>1, <1>2, <1>3 DEF MergeSubData
<1>6. blank \in T
  OBVIOUS
<1> HIDE DEF n, blank
<1>7. all \in Seq(T) /\ Len(all) = n /\ \A i \in 1 .. n - 1 : all[i] = files[i]
  <2>1. CASE Len(files) = n
    BY <1>1, <1>4, <2>1
  <2>2. CASE Len(files) = n - 1
    BY <1>1, <1>4, <1>6, <2>2, AppendProperties
  <2> QED
    BY <1>4, <2>1, <2>2
<1>8. mine \in SUBSET Keys
  <2>1. files[n - 1] \in T
    <3> DEFINE m == n - 1
    <3>1. m \in 1 .. Len(files)
      BY <1>1, <1>4 DEF n
    <3> HIDE DEF m, T
    <3>2. files[m] \in T
      BY <1>4, <3>1, ElementOfSeq
    <3> QED
      BY <3>2 DEF m
  <2> QED
    BY <1>3, <1>4, <2>1
<1> HIDE DEF mine
<1>9. Len(files) = n => all = files
  BY <1>1
<1> HIDE DEF all
<1> DEFINE row == [all[n] EXCEPT ![p] = mine]
<1>10. n \in 1 .. Len(all) /\ all[n] \in T
  <2>1. n \in 1 .. Len(all)
    BY <1>1, <1>7 DEF n
  <2> HIDE DEF T
  <2> QED
    BY <1>7, <2>1, ElementOfSeq
<1>11. row \in T /\ row[p] = mine /\ \A q \in Partitions : q # p => row[q] = all[n][q]
  BY <1>3, <1>8, <1>10
<1>12. files' = [all EXCEPT ![n] = row]
  BY <1>5, <1>7, <1>10
<1> HIDE DEF row
<1>13. /\ files' \in Seq(T) /\ Len(files') = Len(all)
       /\ \A i \in 1 .. Len(all) : files'[i] = IF i = n THEN row ELSE all[i]
  BY <1>7, <1>10, <1>11, <1>12, ExceptSeq
<1>14. files'[n] = row
  BY <1>10, <1>13
<1>15. \A i \in 1 .. n - 1 : files'[i] = files[i]
  BY <1>1, <1>7, <1>13
<1> QED
  BY <1>1, <1>7, <1>9, <1>11, <1>13, <1>14, <1>15 DEF n, mine

LEMMA MergeSubDataKeeps ==
  ASSUME VInv, Shape, NEW t \in Threads, MergeSubData(t)
  PROVE  VInv'
<1> DEFINE p == th[t].task
           o == Stored(New, t, p)
<1>0. th[t].pc = "store" /\ Goto(t, "countStored")
      /\ hy' = hy /\ dyn' = dyn /\ removed' = removed /\ tmp' = tmp /\ returned' = returned
  BY DEF MergeSubData, At
<1>1. /\ th[t].b = Round /\ Round >= 2 /\ B(t) = New /\ NewOK /\ TasksOK /\ CountOK
      /\ WorkingOK(t) /\ FieldsOK(t) /\ Round \in Nat /\ New \in Object
  BY <1>0, WorksOnNew, Basics DEF UseB, TaskPlaces, VInv, PlacesOK
<1>2. ~New.updated /\ New.latest = Round - 1 /\ hy.static # Round /\ ~AllStored
  BY <1>0, <1>1, HolderFacts DEF Storing
<1>3. New.ver[t] = Round - 1 /\ p \in Partitions /\ p < New.next
  BY <1>0, <1>1 DEF WorkingOK, TasksOK, Holders, Storing
<1>4. sta' = [sta EXCEPT ![Round] = o]
  BY <1>1 DEF MergeSubData, ChangeB
<1>5. /\ o \in Object /\ SameVersions(o, New) /\ SameTasks(o, New) /\ o.count = New.count
      /\ o.ver = [New.ver EXCEPT ![t] = Round] /\ o.fd = [New.fd EXCEPT ![t] = Round]
      /\ o.layout = [New.layout EXCEPT ![p] = Round]
  <2>1. New.latest + 1 = Round
    BY <1>1, <1>2
  <2> QED
    BY <1>1, <1>3, <2>1, StoredObject
<1> HIDE DEF o
<1>6. Round' = Round /\ New' = o
  BY <1>4, <1>5, ChangeNew
<1>7. Others(t) /\ th'[t].pc = "countStored" /\ Locals(t)
  BY <1>0, GotoEffect
<1>8. /\ New.ver \in [Threads -> Nat] /\ New.fd \in [Threads -> Nat]
      /\ New.layout \in [Partitions -> Nat]
  BY <1>1, ObjectFields
<1>9. /\ o.ver[t] = Round /\ o.fd[t] = Round /\ o.layout[p] = Round
      /\ \A u \in Threads : u # t => o.ver[u] = New.ver[u] /\ o.fd[u] = New.fd[u]
      /\ \A q \in Partitions : q # p => o.layout[q] = New.layout[q]
  BY <1>3, <1>5, <1>8
<1>10. t \notin OnNewFile /\ OnNewFile' = OnNewFile \cup {t}
  BY <1>1, <1>3, <1>6, <1>9 DEF OnNewFile
<1>11. \A u \in Threads : th[u].pc \notin MovePlaces
  BY <1>2 DEF VInv, PlacesOK, MovingOK
<1>12. Pending' = Pending \cup {t}
  <2>1. \A u \in Threads : /\ th'[u].pc = "countUpdated" <=> th[u].pc = "countUpdated"
                           /\ th[u].pc = "countUpdated" => th'[u].who = th[u].who
                           /\ th'[u].pc = "countStored" <=> th[u].pc = "countStored" \/ u = t
    BY <1>0, <1>7 DEF Others
  <2> QED
    BY <2>1 DEF Pending
<1>13. Counted' = Counted
  BY <1>1, <1>10, <1>12 DEF Counted, CountOK
<1>14. Holders' = Holders /\ t \in Holders
  BY <1>0, <1>7 DEF Holders, Others, Storing
<1>15. PlaceOK(t)'
  <2>1. FieldsOK(t)'
    BY <1>0, <1>1, <1>6, <1>7 DEF FieldsOK, Locals, OnTheWay, MovePlaces, Answered
  <2>2. WorkingOK(t)'
    BY <1>1, <1>6, <1>7, <1>9 DEF WorkingOK, Locals
  <2>3. MovingOK(t)' /\ FindingOK(t)'
    BY <1>7 DEF MovingOK, FindingOK, MovePlaces, Winning
  <2> QED
    BY <2>1, <2>2, <2>3 DEF PlaceOK
<1>16. Worker(t, o)
  <2>1. BusyWithMerge(t) /\ ~Winning(t)'
    BY <1>0, <1>7 DEF BusyWithMerge, TaskPlaces, Winning
  <2>2. /\ th[t].pc \notin Preparing \cup {"announceVersion"}
        /\ th'[t].pc \notin Preparing \cup {"announceVersion"}
    BY <1>0, <1>7 DEF Preparing, Opening
  <2>3. files' \in Seq([Partitions -> SUBSET Keys]) /\ Len(files') = Round
    BY <1>0, StoredFiles
  <2>4. o.next = New.next
    BY <1>5 DEF SameTasks
  <2>5. \A x \in Threads : o.ver[x] # New.ver[x] =>
          /\ o.ver[x] = Round /\ (x = t \/ New.updated)
          /\ \A u \in Threads : u # t /\ th[u].pc = "openLatest" => th[u].who # x
    BY <1>9, <1>11 DEF MovePlaces
  <2> QED
    BY <1>0, <1>2, <1>4, <1>5, <1>7, <1>13, <1>15, <2>1, <2>2, <2>3, <2>4, <2>5
       DEF Worker, SameHy
<1>17. NewOK'
  <2>1. o.next = New.next /\ o.latest = New.latest /\ o.updated = New.updated /\ o.old = New.old
    BY <1>5 DEF SameVersions, SameTasks
  <2>2. \A u \in Threads : o.ver[u] \in {Round - 1, Round} /\ o.fd[u] = o.ver[u]
    BY <1>1, <1>9 DEF NewOK
  <2>3. \A q \in Partitions : o.layout[q] \in {Round - 1, Round}
    BY <1>1, <1>9 DEF NewOK
  <2> QED
    BY <1>1, <1>6, <2>1, <2>2, <2>3 DEF NewOK
<1>18. CountOK'
  <2>1. th[t].pc \notin Uncounted /\ th'[t].pc \notin Uncounted
    BY <1>0, <1>7 DEF Uncounted, Offering
  <2>2. Pending' \subseteq OnNewFile'
    BY <1>1, <1>10, <1>12 DEF CountOK
  <2> QED
    BY <1>1, <1>5, <1>6, <1>7, <1>13, <2>1, <2>2, CountSame DEF SameVersions, SameTasks
<1>19. TasksOK'
  <2>1. \A u \in Threads : th'[u].task = th[u].task
    BY <1>7 DEF Others, Locals
  <2>2. o.next = New.next /\ o.updated = New.updated /\ o.finished = New.finished
    BY <1>5 DEF SameVersions, SameTasks
  <2>3. \A u \in Holders' : th'[u].task \in Partitions /\ th'[u].task < o.next
    BY <1>1, <1>14, <2>1, <2>2 DEF TasksOK, Holders
  <2>4. \A u, w \in Holders' : th'[u].task = th'[w].task => u = w
    BY <1>1, <1>14, <2>1 DEF TasksOK, Holders
  <2>5. ASSUME NEW q \in Partitions, q < o.next
        PROVE  \/ \E u \in Threads : th'[u].pc = "store" /\ th'[u].task = q
               \/ o.layout[q] = Round /\ IsComplete(q)'
    <3>1. /\ Len(files') = Round /\ files'[Round - 1] = files[Round - 1] /\ tmp' = tmp
          /\ files'[Round][p] = files[Round - 1][p] \cup {k \in tmp : PartitionOf[k] = p}
      <4> DEFINE m == Round - 1
      <4>1. m \in 1 .. Round - 1
        BY <1>1
      <4> HIDE DEF m
      <4>2. files'[m] = files[m]
        BY <1>0, <4>1, StoredFiles
      <4> QED
        BY <1>0, <4>2, StoredFiles DEF m
    <3>2. CASE q = p
      BY <1>0, <1>6, <1>9, <3>1, <3>2 DEF IsComplete
    <3>3. CASE q # p
      <4>1. \A u \in Threads : th[u].pc = "store" /\ th[u].task = q => th'[u] = th[u]
        BY <1>7, <3>3 DEF Others
      <4>2. CASE \E u \in Threads : th[u].pc = "store" /\ th[u].task = q
        BY <4>1, <4>2
      <4>3. CASE New.layout[q] = Round /\ IsComplete(q)
        <5>1. files'[Round][q] = files[Round][q]
          BY <1>0, <3>3, <4>3, StoredFiles DEF IsComplete
        <5>2. IsComplete(q)'
          BY <1>6, <3>1, <4>3, <5>1 DEF IsComplete
        <5> QED
          BY <1>9, <3>3, <4>3, <5>2
      <4> QED
        BY <1>1, <1>2, <2>2, <2>5, <4>2, <4>3 DEF TasksOK
    <3> QED
      BY <3>2, <3>3
  <2> QED
    BY <1>1, <1>2, <1>6, <1>14, <2>2, <2>3, <2>4, <2>5 DEF TasksOK
<1> QED
  BY <1>1, <1>6, <1>16, <1>17, <1>18, <1>19, WorkerKeeps DEF MergeOK

-----------------------------------------------------------------------------
\* The steps that change the mode or a pointer.
LEMMA MergeStill ==
  ASSUME VInv, NEW t \in Threads, Others(t), sta' = sta,
         th[t].pc \notin Storing \cup {"countUpdated"},
         th'[t].pc \notin Storing \cup {"countUpdated"},
         th[t].pc \in Uncounted <=> th'[t].pc \in Uncounted,
         hy'.static # Round \/ hy'.backup # NULL =>
           (hy.static # Round \/ hy.backup # NULL) /\ files' = files /\ tmp' = tmp
  PROVE  /\ MergeOK' /\ Round' = Round /\ New' = New
         /\ Holders' = Holders /\ Counted' = Counted /\ (AllStored' <=> AllStored)
<1>1. Round' = Round /\ New' = New
  BY DEF Round, New
<1>3. Pending' = Pending /\ OnNewFile' = OnNewFile /\ Counted' = Counted
  BY <1>1, CountedSame DEF Storing
<1>4. Holders' = Holders
  BY DEF Holders, Others
<1>5. AllStored' <=> AllStored
  BY <1>1, <1>4 DEF AllStored
<1>6. SUFFICES ASSUME Round >= 2 PROVE (NewOK /\ TasksOK /\ CountOK)'
  BY <1>1, <1>3, <1>4, <1>5 DEF MergeOK
<1>7. NewOK /\ TasksOK /\ CountOK
  BY <1>6 DEF VInv, MergeOK
<1>8. NewOK'
  BY <1>1, <1>7 DEF NewOK
<1>9. CountOK'
  <2>1. \A u \in Threads : th'[u].pc \in Uncounted <=> th[u].pc \in Uncounted
    BY DEF Others
  <2> QED
    BY <1>1, <1>3, <1>7, <2>1 DEF CountOK
<1>10. TasksOK'
  <2>1. \A u \in Threads : u \in Holders \/ th[u].pc = "store" => th'[u] = th[u]
    BY DEF Others, Holders, Storing
  <2>2. hy'.static # Round \/ hy'.backup # NULL => \A p : IsComplete(p) => IsComplete(p)'
    BY <1>1 DEF IsComplete
  <2>3. \A u \in Holders' : th'[u].task \in Partitions /\ th'[u].task < New'.next
    BY <1>1, <1>4, <1>7, <2>1 DEF TasksOK, Holders
  <2>4. \A u, w \in Holders' : th'[u].task = th'[w].task => u = w
    BY <1>4, <1>7, <2>1 DEF TasksOK, Holders
  <2>5. \A p \in Partitions : p < New'.next =>
          \/ \E u \in Threads : th'[u].pc = "store" /\ th'[u].task = p
          \/ /\ New'.layout[p] = Round'
             /\ (hy'.static # Round' \/ hy'.backup # NULL => IsComplete(p)')
    BY <1>1, <1>7, <2>1, <2>2 DEF TasksOK
  <2> QED
    BY <1>1, <1>4, <1>5, <1>7, <2>3, <2>4, <2>5 DEF TasksOK
<1> QED
  BY <1>1, <1>3, <1>4, <1>5, <1>8, <1>9, <1>10

LEMMA HybridMerge ==
  ASSUME VInv, NEW t \in Threads, Others(t), OnlyHybrid,
         th[t].pc \notin Storing \cup {"countUpdated"},
         th'[t].pc \notin Storing \cup {"countUpdated"},
         th[t].pc \in Uncounted <=> th'[t].pc \in Uncounted,
         hy'.static # Round \/ hy'.backup # NULL => hy.static # Round \/ hy.backup # NULL
  PROVE  /\ MergeOK' /\ TypesOK' /\ Round' = Round /\ New' = New /\ Len(dyn') = Len(dyn)
         /\ Holders' = Holders /\ Counted' = Counted /\ (AllStored' <=> AllStored)
<1>1. sta' = sta /\ files' = files /\ tmp' = tmp /\ Len(dyn') = Len(dyn)
  BY DEF OnlyHybrid
<1>2. TypesOK'
  BY DEF VInv, TypesOK, OnlyHybrid, Object, Round
<1> QED
  BY <1>1, <1>2, MergeStill

\* The places of the other threads.
OthersOK(t) == \A u \in Threads : u # t =>
  FieldsOK(u) /\ OpeningOK(u) /\ WorkingOK(u) /\ MovingOK(u) /\ FindingOK(u)

LEMMA PlacesTogether ==
  ASSUME NEW t \in Threads, OthersOK(t)', PlaceOK(t)', OpeningOK(t)'
  PROVE  (PlacesOK /\ \A u \in Threads : FieldsOK(u))'
BY DEF OthersOK, PlaceOK, PlacesOK

LEMMA OthersPlaces ==
  ASSUME VInv, NEW t \in Threads, NEW u \in Threads, u # t, Others(t)
  PROVE  /\ th'[u] = th[u]
         /\ FieldsOK(u) /\ OpeningOK(u) /\ WorkingOK(u) /\ MovingOK(u) /\ FindingOK(u)
BY DEF Others, VInv, PlacesOK

LEMMA CloseMergeKeeps ==
  ASSUME VInv, Shape, NEW t \in Threads, CloseMerge(t)
  PROVE  VInv'
<1>0. th[t].pc = "closeMerge" /\ OnlyHybrid
  BY DEF CloseMerge, At
<1>1. FieldsOK(t) /\ WorkingOK(t) /\ ~th[t].found /\ th[t].ret # "reloadBackup"
  BY <1>0 DEF VInv, PlacesOK, FieldsOK, Answered, OnTheWay, MovePlaces
<1>2. /\ th[t].b = Round /\ Round >= 2 /\ AllStored /\ New.next = MergeThreadNum
      /\ Round \in Nat
  BY <1>0, <1>1, WorksOnNew, Basics DEF UseB, TaskPlaces, WorkingOK, AllStored
<1>3. th[t].pc \notin Fixed
  BY <1>0 DEF Fixed, Preparing, Opening, Storing
<1>4. \A u \in Threads : th[u].pc \notin Opening
  BY <1>0, BusyNoOpening DEF BusyWithMerge, TaskPlaces
<1>5. CASE Back(t) /\ UNCHANGED hy
  <2>1. OnlyThread
    BY <1>0, <1>5 DEF OnlyHybrid, OnlyThread
  <2> QED
    BY <1>0, <1>1, <1>3, <1>5, <2>1, OnlyThreadStill, BackKeeps
<1>6. CASE hy.mode = "Merging" /\ Set("mode", "Merged") /\ Goto(t, "announceVersion")
  <2>1. Others(t) /\ th'[t].pc = "announceVersion" /\ Locals(t)
    BY <1>6, GotoEffect
  <2>2. /\ hy'.mode = "Merged" /\ hy'.static = hy.static /\ hy'.backup = hy.backup
        /\ hy'.merging = hy.merging /\ hy'.dynamic = hy.dynamic
    BY <1>6 DEF Set, Shape, HyShape
  <2>3. /\ Len(dyn) = Round /\ hy.static = Round - 1
        /\ hy.backup = Round /\ hy.merging = Round - 1 /\ ~New.updated
    BY <1>4, <1>6 DEF VInv, ModeOK
  <2>4. /\ MergeOK' /\ TypesOK' /\ Round' = Round /\ New' = New /\ Len(dyn') = Len(dyn)
        /\ Holders' = Holders /\ Counted' = Counted /\ (AllStored' <=> AllStored)
    <3>1. th[t].pc \notin Storing \cup {"countUpdated"} \cup Uncounted
      BY <1>0 DEF Storing, Uncounted, Offering
    <3>2. th'[t].pc \notin Storing \cup {"countUpdated"} \cup Uncounted
      BY <2>1 DEF Storing, Uncounted, Offering
    <3> QED
      BY <1>0, <2>1, <2>2, <3>1, <3>2, HybridMerge
  <2>5. \A u \in Threads : th[u].pc \notin Offering /\ th[u].pc # "announceVersion"
    BY <1>2, <1>6, Constants DEF VInv, PlacesOK, OpeningOK, WorkingOK
  <2>6. \A u \in Threads : /\ th'[u].pc \notin Opening
                           /\ th'[u].pc \in Preparing <=> th[u].pc \in Preparing
                           /\ th'[u].pc = "announceVersion" <=> u = t
                           /\ (Winning(u)' => Winning(u))
                           /\ th'[u].pc = "countUpdated" => th'[u] = th[u]
    <3>1. th[t].pc \notin Preparing /\ th'[t].pc \notin Preparing /\ ~Winning(t)'
      BY <1>0, <2>1 DEF Preparing, Opening, Winning
    <3>2. th'[t].pc \notin Opening /\ th'[t].pc # "countUpdated"
      BY <2>1 DEF Opening
    <3>3. \A u \in Threads : u # t => (Winning(u)' <=> Winning(u))
      BY <2>1 DEF Winning, Others
    <3> QED
      BY <1>4, <2>1, <2>5, <3>1, <3>2, <3>3 DEF Others
  <2>7. Pointers' /\ FilesOK' /\ StaticOK'
    BY <1>0, <2>2, <2>4 DEF VInv, Pointers, FilesOK, StaticOK, OnlyHybrid, IsSettled
  <2>8. ModeOK'
    BY <1>2, <2>1, <2>2, <2>3, <2>4, <2>6 DEF ModeOK
  <2>9. OneOfEach'
    BY <2>6 DEF VInv, OneOfEach
  <2>10. FieldsOK(t)'
    BY <1>0, <1>1, <2>1, <2>4 DEF FieldsOK, Locals, OnTheWay, MovePlaces, Answered
  <2>11. PlaceOK(t)' /\ OpeningOK(t)'
    <3>1. WorkingOK(t)'
      BY <1>2, <2>1, <2>2, <2>3, <2>4 DEF WorkingOK, Locals
    <3>2. MovingOK(t)' /\ FindingOK(t)' /\ OpeningOK(t)'
      BY <2>1 DEF MovingOK, FindingOK, OpeningOK, MovePlaces, Winning, Opening, Offering
    <3> QED
      BY <2>10, <3>1, <3>2 DEF PlaceOK
  <2>12. OthersOK(t)'
    <3>1. SUFFICES ASSUME NEW u \in Threads, u # t
                   PROVE (FieldsOK(u) /\ OpeningOK(u) /\ WorkingOK(u) /\ MovingOK(u) /\ FindingOK(u))'
      BY DEF OthersOK
    <3>2. /\ th'[u] = th[u]
          /\ FieldsOK(u) /\ OpeningOK(u) /\ WorkingOK(u) /\ MovingOK(u) /\ FindingOK(u)
      BY <2>1, <3>1, OthersPlaces
    <3>3. FieldsOK(u)' /\ FindingOK(u)'
      BY <2>2, <2>4, <3>2 DEF FieldsOK, FindingOK
    <3>4. OpeningOK(u)'
      BY <1>4, <2>2, <2>4, <2>5, <3>2 DEF OpeningOK, Opening, Offering
    <3>5. WorkingOK(u)'
      BY <2>2, <2>4, <2>5, <3>2 DEF WorkingOK
    <3>6. MovingOK(u)'
      BY <2>2, <2>4, <2>6, <3>2 DEF MovingOK, Winning
    <3> QED
      BY <3>3, <3>4, <3>5, <3>6
  <2> QED
    BY <2>4, <2>7, <2>8, <2>9, <2>11, <2>12, PlacesTogether DEF VInv
<1> QED
  BY <1>5, <1>6 DEF CloseMerge

LEMMA AnnounceVersionKeeps ==
  ASSUME VInv, Shape, NEW t \in Threads, AnnounceVersion(t)
  PROVE  VInv'
<1> DEFINE o == UpdateLatestVersion(New)
<1>0. th[t].pc = "announceVersion" /\ OnlyStatic /\ Back(t)
  BY DEF AnnounceVersion, At
<1>1. /\ th[t].b = Round /\ Round >= 2 /\ B(t) = New /\ NewOK /\ TasksOK /\ CountOK
      /\ WorkingOK(t) /\ FieldsOK(t) /\ Round \in Nat /\ New \in Object
  BY <1>0, WorksOnNew, Basics DEF UseB, TaskPlaces, VInv, PlacesOK
<1>2. /\ ~th[t].found /\ th[t].ret # "reloadBackup"
      /\ hy.mode = "Merged" /\ ~New.updated
  BY <1>0, <1>1 DEF FieldsOK, Answered, OnTheWay, MovePlaces, WorkingOK
<1>3. AllStored /\ \A u \in Threads : th[u].pc \notin Opening
  BY <1>2, MergedStored
<1>4. New.latest = Round - 1 /\ hy.static # Round
  BY <1>1, <1>2, Basics DEF NewOK, VInv, StaticOK, IsSettled, New
<1>5. sta' = [sta EXCEPT ![Round] = o]
  BY <1>1 DEF AnnounceVersion, ChangeB
<1>6. /\ o \in Object /\ o.latest = Round /\ o.old = New.old /\ o.updated
      /\ o.next = New.next /\ o.finished = 0 /\ o.count = New.count /\ SameFiles(o, New)
  <2>1. New.latest + 1 = Round
    BY <1>1, <1>4
  <2> QED
    BY <1>1, <1>2, <2>1, UpdateLatestObject
<1> HIDE DEF o
<1>7. /\ Round' = Round /\ New' = o /\ sta' \in Seq(Object)
      /\ \A i \in 1 .. Round : i # Round => sta'[i] = sta[i]
  BY <1>5, <1>6, ChangeNew
<1>8. /\ Others(t) /\ PlaceOK(t)' /\ OpeningOK(t)' /\ th'[t].pc \notin Fixed
      /\ ~Winning(t)'
  BY <1>0, <1>1, <1>2, BackPlace
<1>9. th[t].pc \notin Storing \cup {"countUpdated", "countStored"} \cup Preparing \cup Uncounted
  BY <1>0 DEF Storing, Preparing, Opening, Uncounted, Offering
<1>10. /\ th'[t].pc \notin Storing \cup {"countUpdated", "countStored"} \cup Preparing \cup Uncounted
       /\ th'[t].pc # "announceVersion"
  BY <1>8 DEF Fixed, Storing, Preparing, Uncounted, Offering, Opening
<1>11. Pending' = Pending /\ OnNewFile' = OnNewFile /\ Counted' = Counted
  BY <1>6, <1>7, <1>8, <1>9, <1>10, CountedSame DEF SameFiles
<1>12. Holders' = Holders /\ (AllStored' <=> AllStored)
  BY <1>6, <1>7, <1>8, <1>9, <1>10 DEF Holders, Others, AllStored
<1>13. NewOK'
  BY <1>1, <1>6, <1>7 DEF NewOK, SameFiles
<1>14. CountOK'
  <2>1. New.finished >= 1
    <3>1. New.finished + Cardinality(Holders) = IF New.next = -1 THEN 0 ELSE New.next
      BY <1>1, <1>2 DEF TasksOK
    <3>2. Cardinality(Holders) = 0 /\ New.next = MergeThreadNum
      BY <1>3, FS_EmptySet DEF AllStored
    <3> QED
      BY <1>1, <3>1, <3>2, ObjectFields, Constants
  <2>2. Counted # {}
    BY <1>1, <2>1 DEF CountOK
  <2>3. \A u \in Threads : th'[u].pc \in Uncounted <=> th[u].pc \in Uncounted
    BY <1>8, <1>9, <1>10 DEF Others
  <2> QED
    BY <1>1, <1>6, <1>7, <1>11, <2>2, <2>3 DEF CountOK
<1>15. TasksOK'
  <2>1. \A u \in Threads : u \in Holders \/ th[u].pc = "store" => th'[u] = th[u]
    BY <1>8, <1>9 DEF Others, Holders, Storing
  <2>2. \A p : IsComplete(p)' <=> IsComplete(p)
    BY <1>0, <1>7 DEF IsComplete, OnlyStatic
  <2>3. Holders' = {}
    BY <1>3, <1>12 DEF AllStored
  <2>4. \A p \in Partitions : p < New'.next =>
          \/ \E u \in Threads : th'[u].pc = "store" /\ th'[u].task = p
          \/ /\ New'.layout[p] = Round'
             /\ (hy'.static # Round' \/ hy'.backup # NULL => IsComplete(p)')
    BY <1>0, <1>1, <1>6, <1>7, <2>1, <2>2 DEF TasksOK, OnlyStatic, SameFiles
  <2> QED
    BY <1>3, <1>6, <1>7, <1>12, <2>3, <2>4 DEF TasksOK
<1>16. TypesOK'
  BY <1>0, <1>7 DEF VInv, TypesOK, OnlyStatic
<1>17. Pointers' /\ FilesOK' /\ StaticOK'
  <2>1. Pointers'
    BY <1>0, <1>7 DEF VInv, Pointers, OnlyStatic
  <2>2. \A i \in 1 .. Round - 1 : sta'[i].latest = i
    BY <1>1, <1>7 DEF VInv, FilesOK
  <2>3. FilesOK'
    BY <1>0, <1>7, <2>2 DEF VInv, FilesOK, OnlyStatic
  <2>4. hy.static \in 1 .. Round
    BY <1>1 DEF VInv, Pointers
  <2>5. StaticOK'
    BY <1>0, <1>4, <1>7, <2>4 DEF VInv, StaticOK, OnlyStatic, IsSettled
  <2> QED
    BY <2>1, <2>3, <2>5
<1>18. \A u \in Threads : /\ th'[u].pc \notin Opening
                          /\ th'[u].pc \in Preparing <=> th[u].pc \in Preparing
                          /\ th'[u].pc # "announceVersion"
                          /\ (Winning(u)' => Winning(u))
                          /\ th'[u].pc = "countUpdated" => th'[u] = th[u]
  <2>1. \A u \in Threads : u # t => (Winning(u)' <=> Winning(u)) /\ th[u].pc # "announceVersion"
    BY <1>0, <1>8 DEF Winning, Others, VInv, OneOfEach
  <2> QED
    BY <1>3, <1>8, <1>9, <1>10, <2>1 DEF Others, Preparing
<1>19. ModeOK'
  BY <1>0, <1>1, <1>2, <1>3, <1>6, <1>7, <1>12, <1>18 DEF ModeOK, OnlyStatic, VInv
<1>20. OneOfEach'
  BY <1>18 DEF VInv, OneOfEach
<1>21. OthersOK(t)'
  <2>1. SUFFICES ASSUME NEW u \in Threads, u # t
                 PROVE (FieldsOK(u) /\ OpeningOK(u) /\ WorkingOK(u) /\ MovingOK(u) /\ FindingOK(u))'
    BY DEF OthersOK
  <2>2. /\ th'[u] = th[u] /\ hy' = hy /\ dyn' = dyn
        /\ FieldsOK(u) /\ OpeningOK(u) /\ WorkingOK(u) /\ MovingOK(u) /\ FindingOK(u)
    BY <1>0, <1>8, <2>1, OthersPlaces DEF OnlyStatic
  <2>3. New'.ver = New.ver
    BY <1>6, <1>7 DEF SameFiles
  <2>4. FieldsOK(u)' /\ FindingOK(u)'
    BY <1>6, <1>7, <2>2, <2>3 DEF FieldsOK, FindingOK
  <2>5. OpeningOK(u)'
    BY <1>2, <1>3, <1>6, <1>7, <2>2 DEF OpeningOK, Opening, Offering
  <2>6. WorkingOK(u)'
    BY <1>6, <1>7, <1>11, <1>12, <1>18, <2>2, <2>3 DEF WorkingOK
  <2>7. MovingOK(u)'
    BY <1>6, <1>7, <1>18, <2>2, <2>3 DEF MovingOK, Winning
  <2> QED
    BY <2>4, <2>5, <2>6, <2>7
<1> QED
  BY <1>8, <1>13, <1>14, <1>15, <1>16, <1>17, <1>19, <1>20, <1>21, PlacesTogether
     DEF VInv, MergeOK

LEMMA DeleteFileKeeps ==
  ASSUME VInv, Shape, NEW t \in Threads, DeleteFile(t)
  PROVE  VInv'
<1>0. th[t].pc = "deleteFile"
      /\ hy' = hy /\ dyn' = dyn /\ sta' = sta /\ files' = files /\ tmp' = tmp /\ returned' = returned
  BY DEF DeleteFile, At
<1>1. /\ th[t].b = Round /\ Round >= 2 /\ FieldsOK(t) /\ MovingOK(t) /\ Winning(t)
      /\ Round \in Nat
  BY <1>0, WorksOnNew, Basics DEF UseB, MovePlaces, VInv, PlacesOK, Winning
<1>2. hy.static = Round /\ th[t].dy = Round - 1
  BY <1>0, <1>1 DEF MovingOK
<1>3. Still
  <2>1. sta[Round - 1].latest = Round - 1
    BY <1>1 DEF VInv, FilesOK
  <2>2. removed' = removed \cup {Round - 1}
    BY <1>2, <2>1 DEF DeleteFile
  <2>3. removed' \subseteq 1 .. hy.static - 1
    <3>1. removed \subseteq 1 .. hy.static - 1
      BY DEF VInv, FilesOK
    <3>2. Round - 1 \in 1 .. hy.static - 1
      BY <1>1, <1>2
    <3> QED
      BY <2>2, <3>1, <3>2
  <2>4. TypesOK'
    BY <1>0 DEF VInv, TypesOK, Object, Round
  <2> QED
    BY <1>0, <2>3, <2>4 DEF Still, SameHy, SameWorld
<1> DEFINE r == [th[t] EXCEPT !.pc = "awaitNormal", !.found = FALSE, !.dy = NULL]
<1>4. th' = [th EXCEPT ![t] = r]
  BY DEF DeleteFile, Shape
<1>5. IsThread(th[t])
  BY ThreadShape
<1>6. r.pc = "awaitNormal"
  BY <1>5 DEF IsThread, ThreadOf
<1>7. r.ret = th[t].ret /\ r.b = th[t].b /\ r.who = th[t].who /\ r.key = th[t].key
  BY <1>5 DEF IsThread, ThreadOf
<1>8. r.found = FALSE
  BY <1>5 DEF IsThread, ThreadOf
<1> HIDE DEF r
<1>9. Others(t) /\ th'[t] = r
  BY <1>4, RecordEffect
<1>10. PlaceOK(t)'
  <2>1. FieldsOK(t)'
    BY <1>0, <1>1, <1>3, <1>6, <1>7, <1>8, <1>9, StillSame
       DEF FieldsOK, OnTheWay, MovePlaces, Answered
  <2>2. WorkingOK(t)'
    BY <1>1, <1>3, <1>6, <1>7, <1>9, StillSame DEF WorkingOK
  <2>3. MovingOK(t)'
    BY <1>0, <1>1, <1>3, <1>6, <1>7, <1>9, StillSame DEF MovingOK, MovePlaces, Winning
  <2>4. FindingOK(t)'
    BY <1>6, <1>9 DEF FindingOK
  <2> QED
    BY <2>1, <2>2, <2>3, <2>4 DEF PlaceOK
<1>11. BusyWithMerge(t) /\ th[t].pc \notin Fixed /\ th'[t].pc \notin Fixed
  BY <1>0, <1>6, <1>9 DEF BusyWithMerge, MovePlaces, Fixed, Preparing, Opening, Storing
<1> QED
  BY <1>1, <1>3, <1>9, <1>10, <1>11, BusyKeeps

LEMMA DropMergingKeeps ==
  ASSUME VInv, Shape, NEW t \in Threads, DropMerging(t)
  PROVE  VInv'
<1>0. th[t].pc = "dropMerging" /\ OnlyHybrid /\ Set("merging", NULL) /\ Goto(t, "toNormal")
  BY DEF DropMerging, At
<1>1. /\ th[t].b = Round /\ Round >= 2 /\ FieldsOK(t) /\ MovingOK(t) /\ Winning(t)
      /\ Round \in Nat
  BY <1>0, WorksOnNew, Basics DEF UseB, MovePlaces, VInv, PlacesOK, Winning
<1>2. hy.static = Round /\ hy.mode = "Merged" /\ hy.backup = NULL /\ New.updated
  BY <1>0, <1>1 DEF MovingOK, MovePlaces
<1>3. Others(t) /\ th'[t].pc = "toNormal" /\ Locals(t)
  BY <1>0, GotoEffect
<1>4. /\ hy'.mode = hy.mode /\ hy'.static = hy.static /\ hy'.backup = hy.backup
      /\ hy'.merging = NULL /\ hy'.dynamic = hy.dynamic
  BY <1>0 DEF Set, Shape, HyShape
<1>5. /\ MergeOK' /\ TypesOK' /\ Round' = Round /\ New' = New /\ Len(dyn') = Len(dyn)
      /\ Holders' = Holders /\ Counted' = Counted /\ (AllStored' <=> AllStored)
  <2>1. th[t].pc \notin Storing \cup {"countUpdated"} \cup Uncounted
    BY <1>0 DEF Storing, Uncounted, Offering
  <2>2. th'[t].pc \notin Storing \cup {"countUpdated"} \cup Uncounted
    BY <1>3 DEF Storing, Uncounted, Offering
  <2> QED
    BY <1>0, <1>3, <1>4, <2>1, <2>2, HybridMerge
<1>6. \A u \in Threads : /\ th[u].pc \notin Preparing /\ th'[u].pc \notin Preparing
                         /\ th'[u].pc \notin Opening
                         /\ th'[u].pc = "announceVersion" <=> th[u].pc = "announceVersion"
                         /\ (Winning(u)' => Winning(u))
                         /\ th'[u].pc = "countUpdated" => th'[u] = th[u]
  <2>1. \A u \in Threads : th[u].pc \notin Opening
    BY <1>0, BusyNoOpening DEF BusyWithMerge, MovePlaces
  <2>2. \A u \in Threads : th[u].pc \notin Offering /\ th[u].pc # "resetCount"
    BY <1>1, <1>2 DEF VInv, PlacesOK, OpeningOK
  <2>3. \A u \in Threads : th[u].pc \notin Preparing
    BY <2>1, <2>2 DEF Preparing, Offering
  <2>4. th'[t].pc \notin Preparing /\ th'[t].pc \notin Opening
    BY <1>3 DEF Preparing, Opening
  <2>5. \A u \in Threads : u # t => (Winning(u)' <=> Winning(u))
    BY <1>3 DEF Winning, Others
  <2> QED
    BY <1>0, <1>1, <1>3, <2>1, <2>3, <2>4, <2>5 DEF Others
<1>7. Pointers' /\ FilesOK' /\ StaticOK'
  BY <1>0, <1>4, <1>5 DEF VInv, Pointers, FilesOK, StaticOK, OnlyHybrid, IsSettled
<1>8. ModeOK'
  BY <1>2, <1>4, <1>5, <1>6 DEF VInv, ModeOK
<1>9. OneOfEach'
  BY <1>6 DEF VInv, OneOfEach
<1>10. PlaceOK(t)' /\ OpeningOK(t)'
  <2>1. FieldsOK(t)'
    BY <1>0, <1>1, <1>3, <1>5 DEF FieldsOK, Locals, OnTheWay, MovePlaces, Answered
  <2>2. WorkingOK(t)'
    BY <1>1, <1>3, <1>5 DEF WorkingOK, Locals
  <2>3. MovingOK(t)'
    BY <1>0, <1>1, <1>2, <1>3, <1>4, <1>5 DEF MovingOK, MovePlaces, Winning, Locals
  <2>4. FindingOK(t)' /\ OpeningOK(t)'
    BY <1>3 DEF FindingOK, OpeningOK, Opening, Offering
  <2> QED
    BY <2>1, <2>2, <2>3, <2>4 DEF PlaceOK
<1>11. OthersOK(t)'
  <2>1. SUFFICES ASSUME NEW u \in Threads, u # t
                 PROVE (FieldsOK(u) /\ OpeningOK(u) /\ WorkingOK(u) /\ MovingOK(u) /\ FindingOK(u))'
    BY DEF OthersOK
  <2>2. /\ th'[u] = th[u]
        /\ FieldsOK(u) /\ OpeningOK(u) /\ WorkingOK(u) /\ MovingOK(u) /\ FindingOK(u)
    BY <1>3, <2>1, OthersPlaces
  <2>3. FieldsOK(u)' /\ FindingOK(u)' /\ WorkingOK(u)'
    BY <1>4, <1>5, <2>2 DEF FieldsOK, FindingOK, WorkingOK
  <2>4. OpeningOK(u)'
    BY <1>6, <2>2 DEF OpeningOK, Preparing, Opening, Offering
  <2>5. MovingOK(u)'
    BY <1>4, <1>5, <1>6, <2>2 DEF MovingOK, Winning
  <2> QED
    BY <2>3, <2>4, <2>5
<1> QED
  BY <1>5, <1>7, <1>8, <1>9, <1>10, <1>11, PlacesTogether DEF VInv

LEMMA SwapStaticKeeps ==
  ASSUME VInv, Shape, NEW t \in Threads, SwapStatic(t)
  PROVE  VInv'
<1>0. th[t].pc = "swapStatic" /\ OnlyHybrid /\ Set("static", th[t].b)
  BY DEF SwapStatic, At
<1>1. /\ th[t].b = Round /\ Round >= 2 /\ FieldsOK(t) /\ MovingOK(t) /\ NewOK /\ TasksOK
      /\ Round \in Nat /\ New \in Object
  BY <1>0, WorksOnNew, Basics DEF UseB, MovePlaces, VInv, PlacesOK
<1>2. /\ New.updated /\ New.latest = Round
      /\ \A u \in Threads : New.ver[u] = Round /\ th[u].pc \notin Preparing
  BY <1>0, <1>1 DEF MovingOK, MovePlaces, NewOK
<1>3. AllStored /\ BusyWithMerge(t) /\ \A u \in Threads : th[u].pc \notin Opening
  BY <1>0, <1>1, <1>2, BusyNoOpening DEF TasksOK, BusyWithMerge, MovePlaces
<1>4. /\ hy'.mode = hy.mode /\ hy'.static = Round /\ hy'.backup = hy.backup
      /\ hy'.merging = hy.merging /\ hy'.dynamic = hy.dynamic
  BY <1>0, <1>1 DEF Set, Shape, HyShape
<1>5. hy.static # Round => /\ hy.mode = "Merged" /\ hy.static = Round - 1
                           /\ hy.backup = Round
  <2>1. SUFFICES ASSUME hy.static # Round
                 PROVE  hy.mode = "Merged" /\ hy.static = Round - 1 /\ hy.backup = Round
    OBVIOUS
  <2>2. hy.mode \in Modes
    BY DEF Shape, HyShape
  <2>3. hy.mode \notin {"Normal", "Prepare"}
    BY <2>1 DEF VInv, ModeOK
  <2>4. hy.mode # "Merging"
    BY <1>2, <1>3 DEF VInv, ModeOK
  <2>5. hy.mode = "Merged"
    BY <2>2, <2>3, <2>4 DEF Modes
  <2> QED
    BY <2>1, <2>5 DEF VInv, ModeOK, Pointers
<1> DEFINE r == [th[t] EXCEPT !.pc = "clearBackup", !.found = hy.static # th[t].b,
                              !.dy = hy.static]
<1>6. th' = [th EXCEPT ![t] = r]
  BY DEF SwapStatic, Shape
<1>7. IsThread(th[t])
  BY ThreadShape
<1>8. r.pc = "clearBackup" /\ r.dy = hy.static
  BY <1>7 DEF IsThread, ThreadOf
<1>9. r.ret = th[t].ret /\ r.b = th[t].b /\ r.who = th[t].who /\ r.key = th[t].key
  BY <1>7 DEF IsThread, ThreadOf
<1>10. r.found <=> hy.static # Round
  BY <1>1, <1>7 DEF IsThread, ThreadOf
<1> HIDE DEF r
<1>11. Others(t) /\ th'[t] = r
  BY <1>6, RecordEffect
<1>12. /\ MergeOK' /\ TypesOK' /\ Round' = Round /\ New' = New /\ Len(dyn') = Len(dyn)
       /\ Holders' = Holders /\ Counted' = Counted /\ (AllStored' <=> AllStored)
  <2>1. th[t].pc \notin Storing \cup {"countUpdated"} \cup Uncounted
    BY <1>0 DEF Storing, Uncounted, Offering
  <2>2. th'[t].pc \notin Storing \cup {"countUpdated"} \cup Uncounted
    BY <1>8, <1>11 DEF Storing, Uncounted, Offering
  <2> QED
    BY <1>0, <1>4, <1>11, <2>1, <2>2, HybridMerge
<1>13. \A u \in Threads : /\ th'[u].pc \notin Preparing /\ th'[u].pc \notin Opening
                          /\ th'[u].pc = "announceVersion" <=> th[u].pc = "announceVersion"
                          /\ th'[u].pc = "countUpdated" => th'[u] = th[u]
                          /\ u # t => (Winning(u)' <=> Winning(u))
                          /\ hy.static # Round => ~Winning(u)
                          /\ Winning(t)' => hy.static # Round
  <2>1. th'[t].pc \notin Preparing /\ th'[t].pc \notin Opening
    BY <1>8, <1>11 DEF Preparing, Opening
  <2>2. \A u \in Threads : u # t => (Winning(u)' <=> Winning(u))
    BY <1>11 DEF Winning, Others
  <2>3. \A u \in Threads : hy.static # Round => ~Winning(u)
    BY DEF VInv, PlacesOK, MovingOK
  <2>4. Winning(t)' => hy.static # Round
    BY <1>8, <1>10, <1>11 DEF Winning
  <2> QED
    BY <1>0, <1>2, <1>3, <1>8, <1>11, <2>1, <2>2, <2>3, <2>4 DEF Others
<1>14. FilesOK'
  <2>1. Len(files) = Round
    <3>1. CASE hy.static = Round
      BY <3>1 DEF VInv, FilesOK
    <3>2. CASE hy.static # Round
      <4>1. 0 \in Partitions /\ 0 < New.next
        BY <1>3, Constants DEF AllStored
      <4>2. IsComplete(0)
        BY <1>1, <1>3, <3>2, <4>1 DEF TasksOK, AllStored, Holders, Storing
      <4> QED
        BY <4>2 DEF IsComplete
    <3> QED
      BY <3>1, <3>2
  <2>2. removed \subseteq 1 .. Round - 1
    <3>1. removed \subseteq 1 .. hy.static - 1
      BY DEF VInv, FilesOK
    <3>2. hy.static \in Int /\ hy.static <= Round
      BY <1>1 DEF VInv, Pointers
    <3>3. \A i \in 1 .. hy.static - 1 : i \in 1 .. Round - 1
      BY <1>1, <3>2
    <3> QED
      BY <3>1, <3>3
  <2> QED
    BY <1>0, <1>4, <1>12, <2>1, <2>2 DEF OnlyHybrid, FilesOK, VInv
<1>15. StaticOK'
  <2>1. \A q \in Partitions : New.layout[q] = Round
    <3>1. \A q \in Partitions : q < New.next
      BY <1>3, Constants DEF AllStored
    <3> QED
      BY <1>1, <1>3, <3>1 DEF TasksOK, AllStored, Holders, Storing
  <2>2. IsSettled(New, Round)
    BY <1>1, <1>2, <2>1 DEF IsSettled, NewOK
  <2>3. IsSettled(New', Round')
    BY <1>12, <2>2 DEF IsSettled
  <2> QED
    BY <1>4, <1>12, <2>3 DEF StaticOK, New
<1>16. Pointers'
  BY <1>1, <1>4, <1>12 DEF VInv, Pointers
<1>17. ModeOK'
  <2>1. hy.mode = "Merging" => FALSE
    BY <1>2, <1>3 DEF VInv, ModeOK
  <2> QED
    BY <1>1, <1>2, <1>4, <1>5, <1>12, <1>13, <2>1 DEF VInv, ModeOK
<1>18. OneOfEach'
  BY <1>13 DEF VInv, OneOfEach
<1>19. PlaceOK(t)' /\ OpeningOK(t)'
  <2>1. FieldsOK(t)'
    BY <1>0, <1>1, <1>8, <1>9, <1>11, <1>12 DEF FieldsOK, OnTheWay, MovePlaces, Answered
  <2>2. WorkingOK(t)'
    BY <1>1, <1>8, <1>9, <1>11, <1>12 DEF WorkingOK
  <2>3. MovingOK(t)'
    BY <1>0, <1>1, <1>2, <1>4, <1>5, <1>8, <1>9, <1>10, <1>11, <1>12
       DEF MovingOK, MovePlaces, Winning
  <2>4. FindingOK(t)' /\ OpeningOK(t)'
    BY <1>8, <1>11 DEF FindingOK, OpeningOK, Opening, Offering
  <2> QED
    BY <2>1, <2>2, <2>3, <2>4 DEF PlaceOK
<1>20. OthersOK(t)'
  <2>1. SUFFICES ASSUME NEW u \in Threads, u # t
                 PROVE (FieldsOK(u) /\ OpeningOK(u) /\ WorkingOK(u) /\ MovingOK(u) /\ FindingOK(u))'
    BY DEF OthersOK
  <2>2. /\ th'[u] = th[u]
        /\ FieldsOK(u) /\ OpeningOK(u) /\ WorkingOK(u) /\ MovingOK(u) /\ FindingOK(u)
    BY <1>11, <2>1, OthersPlaces
  <2>3. FieldsOK(u)' /\ FindingOK(u)' /\ WorkingOK(u)'
    BY <1>4, <1>12, <2>2 DEF FieldsOK, FindingOK, WorkingOK
  <2>4. OpeningOK(u)'
    BY <1>13 DEF OpeningOK, Preparing, Opening, Offering
  <2>5. MovingOK(u)'
    BY <1>4, <1>12, <1>13, <2>1, <2>2 DEF MovingOK
  <2> QED
    BY <2>3, <2>4, <2>5
<1> QED
  BY <1>12, <1>14, <1>15, <1>16, <1>17, <1>18, <1>19, <1>20, PlacesTogether DEF VInv

LEMMA ClearBackupKeeps ==
  ASSUME VInv, Shape, NEW t \in Threads, ClearBackup(t)
  PROVE  VInv'
<1>0. th[t].pc = "clearBackup" /\ OnlyHybrid
  BY DEF ClearBackup, At
<1>1. /\ th[t].b = Round /\ Round >= 2 /\ FieldsOK(t) /\ MovingOK(t) /\ Round \in Nat
  BY <1>0, WorksOnNew, Basics DEF UseB, MovePlaces, VInv, PlacesOK
<1>2. hy.static = Round /\ New.updated /\ New.ver[th[t].who] = Round
  BY <1>0, <1>1 DEF MovingOK, MovePlaces
<1>3. BusyWithMerge(t) /\ \A u \in Threads : th[u].pc \notin Opening
  BY <1>0, BusyNoOpening DEF BusyWithMerge, MovePlaces
<1>4. /\ hy'.mode = hy.mode /\ hy'.static = hy.static /\ hy'.backup = NULL
      /\ hy'.merging = hy.merging /\ hy'.dynamic = hy.dynamic
  <2>1. hy.backup \in {NULL, Round}
    BY DEF VInv, Pointers
  <2> QED
    BY <1>1, <2>1 DEF ClearBackup, Shape, HyShape
<1>5. /\ Others(t) /\ PlaceOK(t)' /\ OpeningOK(t)' /\ th'[t].pc \notin Fixed
      /\ (Winning(t)' => Winning(t))
  <2>0. Round' = Round /\ New' = New
    BY <1>0 DEF OnlyHybrid, Round, New
  <2>1. CASE th[t].found
    <3>1. Goto(t, "deleteFile") /\ Winning(t)
      BY <1>0, <2>1 DEF ClearBackup, Winning
    <3>2. Others(t) /\ th'[t].pc = "deleteFile" /\ Locals(t)
      BY <3>1, GotoEffect
    <3>3. FieldsOK(t)'
      BY <1>0, <1>1, <2>0, <3>2 DEF FieldsOK, Locals, OnTheWay, MovePlaces, Answered
    <3>4. WorkingOK(t)'
      BY <1>1, <2>0, <3>2 DEF WorkingOK, Locals
    <3>5. MovingOK(t)'
      BY <1>0, <1>1, <1>2, <1>4, <2>0, <3>1, <3>2 DEF MovingOK, MovePlaces, Winning, Locals
    <3>6. FindingOK(t)' /\ OpeningOK(t)'
      BY <3>2 DEF FindingOK, OpeningOK, Opening, Offering
    <3>7. th'[t].pc \notin Fixed
      BY <3>2 DEF Fixed, Preparing, Opening, Storing
    <3> QED
      BY <3>1, <3>2, <3>3, <3>4, <3>5, <3>6, <3>7 DEF PlaceOK
  <2>2. CASE ~th[t].found
    <3>1. Back(t)
      BY <2>2 DEF ClearBackup
    <3> QED
      BY <1>0, <1>1, <1>4, <2>2, <3>1, BackPlace
  <2> QED
    BY <2>1, <2>2
<1>6. /\ MergeOK' /\ TypesOK' /\ Round' = Round /\ New' = New /\ Len(dyn') = Len(dyn)
      /\ Holders' = Holders /\ Counted' = Counted /\ (AllStored' <=> AllStored)
  <2>1. th[t].pc \notin Storing \cup {"countUpdated"} \cup Uncounted
    BY <1>0 DEF Storing, Uncounted, Offering
  <2>2. th'[t].pc \notin Storing \cup {"countUpdated"} \cup Uncounted
    BY <1>5 DEF Fixed, Preparing, Opening, Storing, Uncounted, Offering
  <2> QED
    BY <1>0, <1>2, <1>4, <1>5, <2>1, <2>2, HybridMerge
<1>7. \A u \in Threads : /\ th[u].pc \notin Preparing /\ th'[u].pc \notin Preparing
                         /\ th'[u].pc \notin Opening
                         /\ th'[u].pc = "announceVersion" <=> th[u].pc = "announceVersion"
                         /\ (Winning(u)' => Winning(u))
                         /\ th'[u].pc = "countUpdated" => th'[u] = th[u]
  <2>1. \A u \in Threads : th[u].pc \notin Offering /\ th[u].pc # "resetCount"
    BY <1>1, <1>2 DEF VInv, PlacesOK, OpeningOK
  <2>2. \A u \in Threads : th[u].pc \notin Preparing
    BY <1>3, <2>1 DEF Preparing, Offering
  <2>3. th'[t].pc \notin Preparing \cup Opening \cup {"announceVersion", "countUpdated"}
    BY <1>5 DEF Fixed, Preparing
  <2>4. \A u \in Threads : u # t => (Winning(u)' <=> Winning(u))
    BY <1>5 DEF Winning, Others
  <2> QED
    BY <1>0, <1>3, <1>5, <2>2, <2>3, <2>4 DEF Others
<1>8. Pointers' /\ FilesOK' /\ StaticOK'
  BY <1>0, <1>4, <1>6 DEF VInv, Pointers, FilesOK, StaticOK, OnlyHybrid, IsSettled
<1>9. ModeOK'
  <2>1. hy.mode = "Merging" => FALSE
    BY <1>1, <1>2, <1>3 DEF VInv, ModeOK
  <2> QED
    BY <1>2, <1>4, <1>6, <1>7, <2>1 DEF VInv, ModeOK
<1>10. OneOfEach'
  BY <1>7 DEF VInv, OneOfEach
<1>11. OthersOK(t)'
  <2>1. SUFFICES ASSUME NEW u \in Threads, u # t
                 PROVE (FieldsOK(u) /\ OpeningOK(u) /\ WorkingOK(u) /\ MovingOK(u) /\ FindingOK(u))'
    BY DEF OthersOK
  <2>2. /\ th'[u] = th[u]
        /\ FieldsOK(u) /\ OpeningOK(u) /\ WorkingOK(u) /\ MovingOK(u) /\ FindingOK(u)
    BY <1>5, <2>1, OthersPlaces
  <2>3. FieldsOK(u)' /\ FindingOK(u)' /\ WorkingOK(u)'
    BY <1>4, <1>6, <2>2 DEF FieldsOK, FindingOK, WorkingOK
  <2>4. OpeningOK(u)'
    BY <1>7 DEF OpeningOK, Preparing, Opening, Offering
  <2>5. MovingOK(u)'
    BY <1>4, <1>6, <1>7, <2>2 DEF MovingOK, Winning
  <2> QED
    BY <2>3, <2>4, <2>5
<1> QED
  BY <1>5, <1>6, <1>8, <1>9, <1>10, <1>11, PlacesTogether DEF VInv

LEMMA ToNormalKeeps ==
  ASSUME VInv, Shape, NEW t \in Threads, ToNormal(t)
  PROVE  VInv'
<1>0. th[t].pc = "toNormal" /\ OnlyHybrid /\ Back(t)
  BY DEF ToNormal, At
<1>1. /\ th[t].b = Round /\ Round >= 2 /\ FieldsOK(t) /\ MovingOK(t) /\ Winning(t)
      /\ Round \in Nat
  BY <1>0, WorksOnNew, Basics DEF UseB, MovePlaces, VInv, PlacesOK, Winning
<1>2. /\ hy.static = Round /\ hy.mode = "Merged" /\ hy.backup = NULL /\ hy.merging = NULL
      /\ New.updated /\ ~th[t].found
  BY <1>0, <1>1 DEF MovingOK, MovePlaces, FieldsOK, Answered
<1>3. Len(dyn) = Round /\ \A u \in Threads : th[u].pc \notin Opening
  BY <1>2 DEF VInv, ModeOK
<1>4. /\ hy'.mode = "Normal" /\ hy'.static = hy.static /\ hy'.backup = NULL
      /\ hy'.merging = NULL /\ hy'.dynamic = hy.dynamic
  BY <1>2 DEF ToNormal, Shape, HyShape
<1>5. /\ Others(t) /\ PlaceOK(t)' /\ OpeningOK(t)' /\ th'[t].pc \notin Fixed
      /\ ~Winning(t)'
  BY <1>0, <1>1, <1>2, <1>4, BackPlace
<1>6. /\ MergeOK' /\ TypesOK' /\ Round' = Round /\ New' = New /\ Len(dyn') = Len(dyn)
      /\ Holders' = Holders /\ Counted' = Counted /\ (AllStored' <=> AllStored)
  <2>1. th[t].pc \notin Storing \cup {"countUpdated"} \cup Uncounted
    BY <1>0 DEF Storing, Uncounted, Offering
  <2>2. th'[t].pc \notin Storing \cup {"countUpdated"} \cup Uncounted
    BY <1>5 DEF Fixed, Preparing, Opening, Storing, Uncounted, Offering
  <2> QED
    BY <1>0, <1>2, <1>4, <1>5, <2>1, <2>2, HybridMerge
<1>7. \A u \in Threads : /\ th'[u].pc \notin Preparing
                         /\ th'[u].pc # "announceVersion" /\ th[u].pc # "announceVersion"
                         /\ ~Winning(u)'
                         /\ th'[u].pc = "countUpdated" => th'[u] = th[u]
  <2>1. \A u \in Threads : th[u].pc \notin Offering /\ th[u].pc # "resetCount"
    BY <1>1, <1>2 DEF VInv, PlacesOK, OpeningOK
  <2>2. \A u \in Threads : th[u].pc \notin Preparing
    BY <1>3, <2>1 DEF Preparing, Offering
  <2>3. th'[t].pc \notin Preparing \cup {"announceVersion", "countUpdated"}
    BY <1>5 DEF Fixed
  <2>4. \A u \in Threads : u # t => (Winning(u)' <=> Winning(u)) /\ ~Winning(u)
    BY <1>1, <1>5 DEF Winning, Others, VInv, OneOfEach
  <2>5. \A u \in Threads : th[u].pc # "announceVersion"
    BY <1>2 DEF VInv, PlacesOK, WorkingOK
  <2> QED
    BY <1>5, <2>2, <2>3, <2>4, <2>5 DEF Others
<1>8. Pointers' /\ FilesOK' /\ StaticOK'
  BY <1>0, <1>1, <1>2, <1>4, <1>6 DEF VInv, Pointers, FilesOK, StaticOK, OnlyHybrid, IsSettled
<1>9. ModeOK'
  BY <1>2, <1>3, <1>4, <1>6, <1>7 DEF ModeOK
<1>10. OneOfEach'
  BY <1>7 DEF VInv, OneOfEach
<1>11. OthersOK(t)'
  <2>1. SUFFICES ASSUME NEW u \in Threads, u # t
                 PROVE (FieldsOK(u) /\ OpeningOK(u) /\ WorkingOK(u) /\ MovingOK(u) /\ FindingOK(u))'
    BY DEF OthersOK
  <2>2. /\ th'[u] = th[u]
        /\ FieldsOK(u) /\ OpeningOK(u) /\ WorkingOK(u) /\ MovingOK(u) /\ FindingOK(u)
    BY <1>5, <2>1, OthersPlaces
  <2>3. FieldsOK(u)' /\ FindingOK(u)'
    BY <1>2, <1>4, <1>6, <2>2 DEF FieldsOK, FindingOK
  <2>4. OpeningOK(u)'
    BY <1>7 DEF OpeningOK, Preparing, Opening, Offering
  <2>5. WorkingOK(u)'
    BY <1>6, <1>7, <2>2 DEF WorkingOK
  <2>6. MovingOK(u)'
    BY <1>2, <1>4, <1>6, <1>7, <2>2 DEF MovingOK
  <2> QED
    BY <2>3, <2>4, <2>5, <2>6
<1> QED
  BY <1>5, <1>6, <1>8, <1>9, <1>10, <1>11, PlacesTogether DEF VInv

-----------------------------------------------------------------------------
\* The start of a merge.
LEMMA PrepareKeepsV ==
  ASSUME VInv, Shape, NEW t \in Threads, Prepare(t)
  PROVE  VInv'
<1>0. th[t].pc = "prepare" /\ OnlyHybrid
  BY DEF Prepare, At
<1>1. CASE Goto(t, "announce") /\ UNCHANGED hy
  <2>1. OnlyThread
    BY <1>0, <1>1 DEF OnlyHybrid, OnlyThread
  <2> QED
    BY <1>0, <1>1, <2>1, OnlyThreadStill, AwaitKeeps
<1>2. CASE hy.mode = "Normal" /\ Set("mode", "Prepare") /\ Goto(t, "awaitReady")
  <2>1. Others(t) /\ th'[t].pc = "awaitReady" /\ Locals(t)
    BY <1>2, GotoEffect
  <2>2. /\ hy'.mode = "Prepare" /\ hy'.static = hy.static /\ hy'.backup = hy.backup
        /\ hy'.merging = hy.merging /\ hy'.dynamic = hy.dynamic
    BY <1>2 DEF Set, Shape, HyShape
  <2>3. /\ MergeOK' /\ TypesOK' /\ Round' = Round /\ New' = New /\ Len(dyn') = Len(dyn)
        /\ Holders' = Holders /\ Counted' = Counted /\ (AllStored' <=> AllStored)
    <3>1. th[t].pc \notin Storing \cup {"countUpdated"} \cup Uncounted
      BY <1>0 DEF Storing, Uncounted, Offering
    <3>2. th'[t].pc \notin Storing \cup {"countUpdated"} \cup Uncounted
      BY <2>1 DEF Storing, Uncounted, Offering
    <3> QED
      BY <1>0, <2>1, <2>2, <3>1, <3>2, HybridMerge
  <2>4. \A u \in Threads : /\ th'[u].pc \notin Preparing /\ th'[u].pc # "announceVersion"
                           /\ ~Winning(u)'
                           /\ th'[u].pc = "countUpdated" => th'[u] = th[u]
    <3>1. \A u \in Threads : /\ th[u].pc \notin Preparing /\ th[u].pc # "announceVersion"
                             /\ ~Winning(u)
      BY <1>2 DEF VInv, ModeOK, PlacesOK, WorkingOK, MovingOK
    <3>2. /\ th'[t].pc \notin Preparing /\ th'[t].pc \notin {"announceVersion", "countUpdated"}
          /\ ~Winning(t)'
      BY <2>1 DEF Preparing, Opening, Winning
    <3>3. \A u \in Threads : u # t => (Winning(u)' <=> Winning(u))
      BY <2>1 DEF Winning, Others
    <3> QED
      BY <2>1, <3>1, <3>2, <3>3 DEF Others
  <2>5. Pointers' /\ FilesOK' /\ StaticOK'
    BY <1>0, <2>2, <2>3 DEF VInv, Pointers, FilesOK, StaticOK, OnlyHybrid, IsSettled
  <2>6. ModeOK'
    BY <1>2, <2>2, <2>3, <2>4 DEF VInv, ModeOK
  <2>7. OneOfEach'
    BY <2>4 DEF VInv, OneOfEach
  <2>8. PlaceOK(t)' /\ OpeningOK(t)'
    <3>1. Plain(t)'
      BY <2>1 DEF Plain, TaskPlaces, MovePlaces, Preparing, Opening
    <3>2. FieldsOK(t)'
      BY <1>0, <2>1, <2>3 DEF VInv, FieldsOK, Locals, OnTheWay, MovePlaces, Answered
    <3> QED
      BY <3>1, <3>2, PlainPlace DEF PlaceOK
  <2>9. OthersOK(t)'
    <3>1. SUFFICES ASSUME NEW u \in Threads, u # t
                   PROVE (FieldsOK(u) /\ OpeningOK(u) /\ WorkingOK(u) /\ MovingOK(u) /\ FindingOK(u))'
      BY DEF OthersOK
    <3>2. /\ th'[u] = th[u]
          /\ FieldsOK(u) /\ OpeningOK(u) /\ WorkingOK(u) /\ MovingOK(u) /\ FindingOK(u)
      BY <2>1, <3>1, OthersPlaces
    <3>3. FieldsOK(u)' /\ FindingOK(u)'
      BY <2>2, <2>3, <3>2 DEF FieldsOK, FindingOK
    <3>4. OpeningOK(u)'
      BY <2>4 DEF OpeningOK, Preparing, Opening, Offering
    <3>5. WorkingOK(u)'
      BY <2>3, <2>4, <3>2 DEF WorkingOK
    <3>6. MovingOK(u)'
      BY <2>2, <2>3, <2>4, <3>2 DEF MovingOK
    <3> QED
      BY <3>3, <3>4, <3>5, <3>6
  <2> QED
    BY <2>3, <2>5, <2>6, <2>7, <2>8, <2>9, PlacesTogether DEF VInv
<1> QED
  BY <1>1, <1>2 DEF Prepare

\* While a merge opens, every other thread is at a plain place.
OthersPlain(t) == \A u \in Threads : u # t => Plain(u)

LEMMA OpeningAlone ==
  ASSUME VInv, NEW t \in Threads, th[t].pc \in Opening
  PROVE  OthersPlain(t)
<1>1. SUFFICES ASSUME NEW u \in Threads, u # t PROVE Plain(u)
  BY DEF OthersPlain
<1>2. ~BusyWithMerge(u)
  BY DEF VInv, PlacesOK, OpeningOK
<1>3. th[u].pc \notin Preparing
  BY <1>1 DEF VInv, OneOfEach, Preparing
<1> QED
  BY <1>2, <1>3 DEF Plain, BusyWithMerge

LEMMA OpeningOthers ==
  ASSUME VInv, NEW t \in Threads, OthersPlain(t), Others(t), Round' \in {Round, Round + 1},
         Len(dyn') \in {Len(dyn), Len(dyn) + 1}
  PROVE  /\ OthersOK(t)'
         /\ \A u \in Threads : u # t => /\ ~BusyWithMerge(u)' /\ ~Winning(u)'
                                        /\ th'[u].pc \notin Fixed
<1>1. SUFFICES ASSUME NEW u \in Threads, u # t
               PROVE  /\ (FieldsOK(u) /\ OpeningOK(u) /\ WorkingOK(u) /\ MovingOK(u)
                                      /\ FindingOK(u))'
                      /\ ~BusyWithMerge(u)' /\ ~Winning(u)' /\ th'[u].pc \notin Fixed
  BY DEF OthersOK
<1>2. th'[u] = th[u] /\ FieldsOK(u) /\ Plain(u)
  BY <1>1, OthersPlaces DEF OthersPlain
<1>3. Plain(u)'
  BY <1>2 DEF Plain
<1>4. FieldsOK(u)'
  <2>1. 1 .. Round \subseteq 1 .. Round' /\ 1 .. Len(dyn) \subseteq 1 .. Len(dyn')
    BY Basics
  <2> QED
    BY <1>2, <2>1 DEF FieldsOK
<1> QED
  BY <1>3, <1>4, PlainPlace

LEMMA OpeningStep ==
  ASSUME VInv, NEW t \in Threads, OthersPlain(t), Others(t), Round' \in {Round, Round + 1},
         Len(dyn') \in {Len(dyn), Len(dyn) + 1}, th'[t].pc \in Opening,
         hy'.mode = "Merging"
  PROVE  /\ ModeOK' /\ OneOfEach' /\ OthersOK(t)' /\ \A u \in Threads : ~BusyWithMerge(u)'
         /\ MovingOK(t)' /\ FindingOK(t)'
<1>1. /\ OthersOK(t)'
      /\ \A u \in Threads : u # t => /\ ~BusyWithMerge(u)' /\ ~Winning(u)'
                                     /\ th'[u].pc \notin Fixed
  BY OpeningOthers
<1>2. /\ ~BusyWithMerge(t)' /\ ~Winning(t)' /\ th'[t].pc \notin {"announceVersion", "countUpdated"}
      /\ MovingOK(t)' /\ FindingOK(t)'
  BY DEF Opening, BusyWithMerge, TaskPlaces, MovePlaces, Winning, MovingOK, FindingOK
<1>3. ModeOK'
  BY DEF ModeOK
<1>4. OneOfEach'
  BY <1>1, <1>2 DEF OneOfEach, Fixed
<1> QED
  BY <1>1, <1>2, <1>3, <1>4

LEMMA OpeningKeeps ==
  ASSUME VInv, NEW t \in Threads, OthersPlain(t), Others(t), Locals(t), Round' = Round,
         sta' = sta, files' = files, removed' = removed, hy'.static = Round,
         hy.static = Round, hy.backup = NULL, hy'.backup = NULL, hy'.mode = "Merging",
         th[t].pc \in {"toMerging", "setMerging", "newDynamic", "collect"},
         th'[t].pc \in {"setMerging", "newDynamic", "collect", "copyStatic"},
         Len(dyn') \in {Len(dyn), Len(dyn) + 1}, TypesOK', Pointers',
         th'[t].pc \in {"setMerging", "newDynamic"} => Len(dyn') = Round,
         th'[t].pc \in {"collect", "copyStatic"} => Len(dyn') = Round + 1,
         hy'.merging = IF th'[t].pc = "setMerging" THEN NULL ELSE Round
  PROVE  VInv'
<1>1. th'[t].pc \in Opening /\ Round' \in {Round, Round + 1}
  BY DEF Opening
<1>2. /\ ModeOK' /\ OneOfEach' /\ OthersOK(t)' /\ \A u \in Threads : ~BusyWithMerge(u)'
      /\ MovingOK(t)' /\ FindingOK(t)'
  BY <1>1, OpeningStep
<1>3. MergeOK'
  <2>1. th[t].pc \notin Storing \cup {"countUpdated"} \cup Uncounted
    BY DEF Storing, Uncounted, Offering
  <2>2. th'[t].pc \notin Storing \cup {"countUpdated"} \cup Uncounted
    BY DEF Storing, Uncounted, Offering
  <2> QED
    BY <2>1, <2>2, MergeStill
<1>4. FilesOK' /\ StaticOK'
  BY DEF VInv, FilesOK, StaticOK, IsSettled
<1>5. FieldsOK(t)'
  BY DEF VInv, FieldsOK, Locals, OnTheWay, MovePlaces, Answered
<1>6. WorkingOK(t)'
  BY DEF WorkingOK, UseB, TaskPlaces, MovePlaces, Uncounted, Offering
<1>7. OpeningOK(t)'
  BY <1>2 DEF OpeningOK, Opening, Offering
<1> QED
  BY <1>2, <1>3, <1>4, <1>5, <1>6, <1>7, PlacesTogether DEF VInv, PlaceOK

LEMMA ToMergingKeepsV ==
  ASSUME VInv, Shape, NoneLeftOver, NEW t \in Threads, ToMerging(t)
  PROVE  VInv'
<1>0. /\ th[t].pc = "toMerging" /\ OnlyHybrid /\ Goto(t, "setMerging")
      /\ hy.mode = "Prepare" /\ Set("mode", "Merging")
  BY DEF ToMerging, At
<1>1. /\ Len(dyn) = Round /\ hy.static = Round /\ hy.backup = NULL /\ hy.merging = NULL
      /\ \A u \in Threads : th[u].pc \notin Preparing /\ ~BusyWithMerge(u)
  BY <1>0 DEF VInv, ModeOK, NoneLeftOver, At
<1>2. OthersPlain(t)
  BY <1>1 DEF OthersPlain, Plain, BusyWithMerge
<1>3. Others(t) /\ th'[t].pc = "setMerging" /\ Locals(t)
  BY <1>0, GotoEffect
<1>4. /\ hy'.mode = "Merging" /\ hy'.static = hy.static /\ hy'.backup = hy.backup
      /\ hy'.merging = hy.merging /\ hy'.dynamic = hy.dynamic
  BY <1>0 DEF Set, Shape, HyShape
<1>5. /\ sta' = sta /\ files' = files /\ removed' = removed /\ Len(dyn') = Len(dyn)
      /\ Round' = Round
  BY <1>0 DEF OnlyHybrid, Round
<1>6. TypesOK'
  BY <1>0 DEF VInv, TypesOK, OnlyHybrid, Object, Round
<1>7. Pointers'
  BY <1>4, <1>5 DEF VInv, Pointers
<1> QED
  BY <1>0, <1>1, <1>2, <1>3, <1>4, <1>5, <1>6, <1>7, OpeningKeeps

LEMMA SetMergingKeeps ==
  ASSUME VInv, Shape, NEW t \in Threads, SetMerging(t)
  PROVE  VInv'
<1>0. th[t].pc = "setMerging" /\ OnlyHybrid /\ Goto(t, "newDynamic")
  BY DEF SetMerging, At
<1>1. /\ Len(dyn) = Round /\ hy.static = Round /\ hy.backup = NULL /\ hy.merging = NULL
      /\ hy.mode = "Merging"
  BY <1>0 DEF VInv, PlacesOK, OpeningOK, Opening
<1>2. OthersPlain(t)
  BY <1>0, OpeningAlone DEF Opening
<1>3. Others(t) /\ th'[t].pc = "newDynamic" /\ Locals(t)
  BY <1>0, GotoEffect
<1>4. /\ hy'.mode = "Merging" /\ hy'.static = hy.static /\ hy'.backup = hy.backup
      /\ hy'.merging = Round /\ hy'.dynamic = hy.dynamic
  BY <1>1 DEF SetMerging, Shape, HyShape, VInv, Pointers
<1>5. /\ sta' = sta /\ files' = files /\ removed' = removed /\ Len(dyn') = Len(dyn)
      /\ Round' = Round
  BY <1>0 DEF OnlyHybrid, Round
<1>6. TypesOK'
  BY <1>0 DEF VInv, TypesOK, OnlyHybrid, Object, Round
<1>7. Pointers'
  BY <1>1, <1>4, <1>5, Basics DEF VInv, Pointers
<1> QED
  BY <1>0, <1>1, <1>2, <1>3, <1>4, <1>5, <1>6, <1>7, OpeningKeeps

LEMMA NewDynamicKeeps ==
  ASSUME VInv, Shape, NEW t \in Threads, NewDynamic(t)
  PROVE  VInv'
<1>0. /\ th[t].pc = "newDynamic" /\ Goto(t, "collect") /\ Set("dynamic", Len(dyn) + 1)
      /\ dyn' = Append(dyn, {}) /\ sta' = sta /\ files' = files /\ removed' = removed
      /\ tmp' = tmp /\ returned' = returned
  BY DEF NewDynamic, At
<1>1. /\ Len(dyn) = Round /\ hy.static = Round /\ hy.backup = NULL /\ hy.merging = Round
      /\ hy.mode = "Merging"
  BY <1>0 DEF VInv, PlacesOK, OpeningOK, Opening
<1>2. OthersPlain(t)
  BY <1>0, OpeningAlone DEF Opening
<1>3. Others(t) /\ th'[t].pc = "collect" /\ Locals(t)
  BY <1>0, GotoEffect
<1>4. /\ hy'.mode = "Merging" /\ hy'.static = hy.static /\ hy'.backup = hy.backup
      /\ hy'.merging = Round /\ hy'.dynamic = Len(dyn) + 1
  BY <1>0, <1>1 DEF Set, Shape, HyShape
<1>5. dyn' \in Seq(SUBSET Keys) /\ Len(dyn') = Len(dyn) + 1 /\ Round' = Round
  <2>1. dyn \in Seq(SUBSET Keys) /\ {} \in SUBSET Keys
    BY DEF VInv, TypesOK
  <2> QED
    BY <1>0, <2>1, AppendProperties DEF Round
<1>6. TypesOK'
  BY <1>0, <1>5 DEF VInv, TypesOK, Object, Round
<1>7. Pointers'
  BY <1>1, <1>4, <1>5, Basics DEF VInv, Pointers
<1> QED
  BY <1>0, <1>1, <1>2, <1>3, <1>4, <1>5, <1>6, <1>7, OpeningKeeps

LEMMA CollectKeeps ==
  ASSUME VInv, Shape, NEW t \in Threads, Collect(t)
  PROVE  VInv'
<1>0. /\ th[t].pc = "collect" /\ Goto(t, "copyStatic") /\ hy' = hy /\ dyn' = dyn
      /\ sta' = sta /\ files' = files /\ removed' = removed /\ returned' = returned
      /\ tmp' = dyn[hy.merging]
  BY DEF Collect, At
<1>1. /\ Len(dyn) = Round + 1 /\ hy.static = Round /\ hy.backup = NULL /\ hy.merging = Round
      /\ hy.mode = "Merging"
  BY <1>0 DEF VInv, PlacesOK, OpeningOK, Opening
<1>2. OthersPlain(t)
  BY <1>0, OpeningAlone DEF Opening
<1>3. Others(t) /\ th'[t].pc = "copyStatic" /\ Locals(t)
  BY <1>0, GotoEffect
<1>4. Len(dyn') = Len(dyn) /\ Round' = Round
  BY <1>0 DEF Round
<1>5. tmp' \subseteq Keys
  <2>1. hy.merging \in 1 .. Len(dyn)
    BY <1>1, Basics
  <2>2. dyn[hy.merging] \in SUBSET Keys
    BY <2>1, ElementOfSeq DEF VInv, TypesOK
  <2> QED
    BY <1>0, <2>2
<1>6. TypesOK'
  BY <1>0, <1>5 DEF VInv, TypesOK, Object, Round
<1>7. Pointers'
  BY <1>0, <1>4 DEF VInv, Pointers
<1> QED
  BY <1>0, <1>1, <1>2, <1>3, <1>4, <1>6, <1>7, OpeningKeeps

LEMMA CopyStaticKeeps ==
  ASSUME VInv, Shape, NEW t \in Threads, CopyStatic(t)
  PROVE  VInv'
<1> DEFINE n == Round
           s == sta[n]
           o == CopyOf(s)
<1>0. /\ th[t].pc = "copyStatic" /\ OnlyStatic
  BY DEF CopyStatic, At
<1>1. /\ Len(dyn) = n + 1 /\ hy.static = n /\ hy.backup = NULL /\ hy.merging = n
      /\ hy.mode = "Merging" /\ FieldsOK(t) /\ \A u \in Threads : ~BusyWithMerge(u)
  BY <1>0 DEF VInv, PlacesOK, OpeningOK, Opening
<1>2. OthersPlain(t)
  BY <1>0, OpeningAlone DEF Opening
<1>3. n \in Nat /\ n >= 1 /\ s \in Object
  BY Basics
<1>4. IsSettled(s, n)
  BY <1>1 DEF VInv, StaticOK
<1>5. /\ o \in Object /\ o.latest = n /\ o.updated = FALSE /\ o.count = ThreadNumbers
      /\ o.ver = s.ver /\ o.fd = [u \in Threads |-> n]
      /\ o.next = -1 /\ o.finished = 0 /\ o.layout = s.layout
  BY <1>3, <1>4, CopyOfObject DEF IsSettled
<1> HIDE DEF o
<1>6. sta' = Append(sta, o)
  BY <1>1 DEF CopyStatic, o
<1>7. /\ sta' \in Seq(Object) /\ Round' = n + 1 /\ New' = o
      /\ \A i \in 1 .. n : sta'[i] = sta[i]
  <2>1. sta \in Seq(Object)
    BY DEF VInv, TypesOK
  <2> QED
    BY <1>5, <1>6, <2>1, AppendProperties DEF Round, New
<1> DEFINE r == [th[t] EXCEPT !.pc = "publish", !.b = Len(sta) + 1]
<1>8. th' = [th EXCEPT ![t] = r]
  BY DEF CopyStatic, Shape
<1>9. IsThread(th[t])
  BY ThreadShape
<1>10. /\ r.pc = "publish" /\ r.b = Len(sta) + 1 /\ r.ret = th[t].ret /\ r.who = th[t].who
       /\ r.key = th[t].key /\ r.found = th[t].found
  BY <1>9 DEF IsThread, ThreadOf
<1> HIDE DEF r
<1>11. Others(t) /\ th'[t] = r
  BY <1>8, RecordEffect
<1>12. r.b = n + 1
  BY <1>10 DEF Round
<1>13. hy' = hy /\ dyn' = dyn /\ files' = files /\ removed' = removed /\ tmp' = tmp
       /\ returned' = returned
  BY <1>0 DEF OnlyStatic
<1> HIDE DEF n, s
<1>14. /\ ModeOK' /\ OneOfEach' /\ OthersOK(t)' /\ \A u \in Threads : ~BusyWithMerge(u)'
       /\ MovingOK(t)' /\ FindingOK(t)'
  <2>1. Round' \in {Round, Round + 1} /\ Len(dyn') \in {Len(dyn), Len(dyn) + 1}
        /\ th'[t].pc \in Opening /\ hy'.mode = "Merging"
    BY <1>1, <1>7, <1>10, <1>11, <1>13 DEF n, Opening
  <2> QED
    BY <1>2, <1>11, <2>1, OpeningStep
<1>15. TypesOK'
  BY <1>7, <1>13 DEF VInv, TypesOK
<1>16. Pointers'
  BY <1>1, <1>3, <1>7, <1>13 DEF VInv, Pointers, NULL
<1>17. FilesOK'
  <2>1. Len(files) = n /\ removed \subseteq 1 .. hy.static - 1
    BY <1>1 DEF VInv, FilesOK, n
  <2>2. \A i \in 1 .. n : sta'[i].latest = i
    <3>1. \A i \in 1 .. n - 1 : sta[i].latest = i
      BY DEF VInv, FilesOK, n
    <3>2. sta[n].latest = n
      BY <1>4 DEF IsSettled, s
    <3> QED
      BY <1>3, <1>7, <3>1, <3>2
  <2> QED
    BY <1>1, <1>3, <1>7, <1>13, <2>1, <2>2 DEF FilesOK
<1>18. StaticOK'
  <2>1. sta'[hy'.static] = s /\ hy'.static = n
    BY <1>1, <1>3, <1>7, <1>13 DEF s
  <2> QED
    BY <1>4, <2>1 DEF StaticOK, IsSettled
<1>19. /\ Holders' = {} /\ OnNewFile' = {} /\ Pending' = {} /\ Counted' = {}
  <2>1. \A u \in Threads : th'[u].pc \notin Storing \cup {"countUpdated"}
    BY <1>14 DEF BusyWithMerge, TaskPlaces, MovePlaces, Storing
  <2>2. Holders' = {}
    BY <2>1 DEF Holders
  <2>3. \A u \in Threads : o.ver[u] # n + 1
    BY <1>3, <1>4, <1>5 DEF IsSettled
  <2>4. OnNewFile' = {}
    BY <1>7, <2>3 DEF OnNewFile
  <2>5. Pending' = {}
    BY <2>1 DEF Pending, Storing
  <2> QED
    BY <2>2, <2>4, <2>5 DEF Counted
<1>20. MergeOK'
  <2>1. NewOK'
    BY <1>3, <1>4, <1>5, <1>7 DEF NewOK, IsSettled
  <2>2. CountOK'
    <3>1. Cardinality(Counted') = 0
      BY <1>19, FS_EmptySet
    <3>2. New'.count = ThreadNumbers + Cardinality(Counted')
      BY <1>5, <1>7, <3>1, Constants
    <3>3. th'[t].pc \in Uncounted
      BY <1>10, <1>11 DEF Uncounted, Offering
    <3> QED
      BY <1>5, <1>7, <1>19, <3>2, <3>3 DEF CountOK
  <2>3. TasksOK'
    <3>1. Cardinality(Holders') = 0
      BY <1>19, FS_EmptySet
    <3>2. \A p \in Partitions : ~(p < -1)
      BY Constants
    <3> QED
      BY <1>5, <1>7, <1>19, <3>1, <3>2 DEF TasksOK
  <2> QED
    BY <2>1, <2>2, <2>3 DEF MergeOK
<1>21. FieldsOK(t)'
  <2>1. n + 1 \in 1 .. n + 1
    BY <1>3
  <2> QED
    BY <1>0, <1>1, <1>7, <1>10, <1>11, <1>12, <2>1
       DEF FieldsOK, OnTheWay, MovePlaces, Answered
<1>22. WorkingOK(t)'
  BY <1>3, <1>7, <1>10, <1>11, <1>12 DEF WorkingOK
<1>23. OpeningOK(t)'
  BY <1>1, <1>3, <1>5, <1>7, <1>10, <1>11, <1>13, <1>14 DEF OpeningOK, Opening, Offering
<1> QED
  BY <1>14, <1>15, <1>16, <1>17, <1>18, <1>20, <1>21, <1>22, <1>23, PlacesTogether
     DEF VInv, PlaceOK

LEMMA PublishKeeps ==
  ASSUME VInv, Shape, NEW t \in Threads, PublishBackup(t)
  PROVE  VInv'
<1>0. th[t].pc = "publish" /\ OnlyHybrid /\ Set("backup", th[t].b) /\ Goto(t, "partition")
  BY DEF PublishBackup, At
<1>1. /\ th[t].b = Round /\ Round >= 2 /\ Round \in Nat /\ TasksOK
      /\ Len(dyn) = Round /\ hy.static = Round - 1 /\ hy.merging = Round - 1 /\ New.next = -1
      /\ hy.mode = "Merging" /\ FieldsOK(t)
  BY <1>0, WorksOnNew, Basics DEF VInv, PlacesOK, OpeningOK, Offering, UseB, Uncounted
<1>2. ~New.updated
  BY <1>1, Constants DEF TasksOK, AllStored
<1>3. OthersPlain(t)
  BY <1>0, OpeningAlone DEF Opening
<1>4. Others(t) /\ th'[t].pc = "partition" /\ Locals(t)
  BY <1>0, GotoEffect
<1>5. /\ hy'.mode = "Merging" /\ hy'.static = hy.static /\ hy'.backup = Round
      /\ hy'.merging = hy.merging /\ hy'.dynamic = hy.dynamic
  BY <1>0, <1>1 DEF Set, Shape, HyShape
<1>6. /\ MergeOK' /\ TypesOK' /\ Round' = Round /\ New' = New /\ Len(dyn') = Len(dyn)
      /\ Holders' = Holders /\ Counted' = Counted /\ (AllStored' <=> AllStored)
  <2>1. th[t].pc \notin Storing \cup {"countUpdated"} /\ th[t].pc \in Uncounted
    BY <1>0 DEF Storing, Uncounted, Offering
  <2>2. th'[t].pc \notin Storing \cup {"countUpdated"} /\ th'[t].pc \in Uncounted
    BY <1>4 DEF Storing, Uncounted, Offering
  <2> QED
    BY <1>0, <1>1, <1>4, <1>5, <2>1, <2>2, HybridMerge
<1>7. /\ OthersOK(t)'
      /\ \A u \in Threads : u # t => /\ ~BusyWithMerge(u)' /\ ~Winning(u)'
                                     /\ th'[u].pc \notin Fixed
  BY <1>3, <1>4, <1>6, OpeningOthers
<1>8. Pointers' /\ FilesOK' /\ StaticOK'
  BY <1>0, <1>1, <1>5, <1>6 DEF VInv, Pointers, FilesOK, StaticOK, OnlyHybrid, IsSettled
<1>9. ModeOK'
  BY <1>1, <1>2, <1>5, <1>6 DEF ModeOK
<1>10. OneOfEach'
  <2>1. ~Winning(t)' /\ th'[t].pc \notin {"announceVersion", "countUpdated"}
    BY <1>4 DEF Winning
  <2> QED
    BY <1>7, <2>1 DEF OneOfEach, Fixed
<1>11. PlaceOK(t)' /\ OpeningOK(t)'
  <2>1. FieldsOK(t)'
    BY <1>0, <1>1, <1>4, <1>6 DEF FieldsOK, Locals, OnTheWay, MovePlaces, Answered
  <2>2. WorkingOK(t)'
    BY <1>1, <1>4, <1>6 DEF WorkingOK, Locals
  <2>3. MovingOK(t)' /\ FindingOK(t)'
    BY <1>4 DEF MovingOK, FindingOK, MovePlaces, Winning
  <2>4. OpeningOK(t)'
    BY <1>1, <1>4, <1>5, <1>6 DEF OpeningOK, Opening, Offering
  <2> QED
    BY <2>1, <2>2, <2>3, <2>4 DEF PlaceOK
<1> QED
  BY <1>6, <1>7, <1>8, <1>9, <1>10, <1>11, PlacesTogether DEF VInv

-----------------------------------------------------------------------------
\* The set-up of a merge that is known to all.
Setup(t, o) ==
  /\ Others(t) /\ OnlyStatic /\ th[t].pc \in {"partition", "offer", "resetCount"}
  /\ th'[t].pc \in {"offer", "resetCount", "loadTask"}
  /\ o \in Object /\ sta' = [sta EXCEPT ![Round] = o]
  /\ o.latest = New.latest /\ o.updated = New.updated /\ SameFiles(o, New)
  /\ (New.next # -1 => o.next # -1) /\ (AllStored => AllStored')

LEMMA SetupKeeps ==
  ASSUME VInv, NEW t \in Threads, NEW o, Setup(t, o), hy.static = Round - 1, Round >= 2,
         MergeOK', PlaceOK(t)', OpeningOK(t)'
  PROVE  VInv'
<1> USE DEF Setup
<1>1. /\ Round' = Round /\ New' = o /\ sta' \in Seq(Object)
      /\ \A i \in 1 .. Round : i # Round => sta'[i] = sta[i]
  BY ChangeNew
<1>2. /\ hy' = hy /\ dyn' = dyn /\ files' = files /\ removed' = removed /\ tmp' = tmp
      /\ returned' = returned
  BY DEF OnlyStatic
<1>3. Round \in Nat /\ th[t].pc \in Preparing /\ th[t].pc \notin Opening
      /\ th'[t].pc \notin Opening \cup {"announceVersion", "countUpdated"} /\ ~Winning(t)'
  BY Basics DEF Preparing, Opening, Winning
<1>4. TypesOK' /\ Pointers'
  BY <1>1, <1>2 DEF VInv, TypesOK, Pointers
<1>5. FilesOK'
  <2>1. \A i \in 1 .. Round - 1 : sta'[i].latest = i
    BY <1>1, <1>3 DEF VInv, FilesOK
  <2> QED
    BY <1>1, <1>2, <2>1 DEF VInv, FilesOK
<1>6. StaticOK'
  BY <1>1, <1>2, <1>3 DEF VInv, StaticOK, IsSettled
<1>7. /\ Counted' = Counted
      /\ \A u \in Threads : /\ u # t => th'[u] = th[u] /\ th[u].pc \notin Preparing
                            /\ th'[u].pc \in Opening <=> th[u].pc \in Opening
                            /\ th'[u].pc = "announceVersion" <=> th[u].pc = "announceVersion"
                            /\ (Winning(u)' => Winning(u))
                            /\ th'[u].pc = "countUpdated" => th'[u] = th[u]
  <2>1. Counted' = Counted
    BY <1>1, CountedSame DEF SameFiles
  <2>2. \A u \in Threads : u # t => (Winning(u)' <=> Winning(u))
    BY DEF Others, Winning
  <2>3. \A u \in Threads : u # t => th[u].pc \notin Preparing
    BY <1>3 DEF VInv, OneOfEach
  <2> QED
    BY <1>3, <2>1, <2>2, <2>3 DEF Others
<1>8. ModeOK'
  <2>1. hy.mode \notin {"Normal", "Prepare"}
    BY <1>3 DEF VInv, ModeOK
  <2> QED
    BY <1>1, <1>2, <1>7, <2>1 DEF VInv, ModeOK
<1>9. OneOfEach'
  BY <1>7 DEF VInv, OneOfEach
<1>10. OthersOK(t)'
  <2>1. SUFFICES ASSUME NEW u \in Threads, u # t
                 PROVE (FieldsOK(u) /\ OpeningOK(u) /\ WorkingOK(u) /\ MovingOK(u) /\ FindingOK(u))'
    BY DEF OthersOK
  <2>2. /\ th'[u] = th[u]
        /\ FieldsOK(u) /\ OpeningOK(u) /\ WorkingOK(u) /\ MovingOK(u) /\ FindingOK(u)
    BY <2>1, OthersPlaces
  <2>3. New'.ver = New.ver /\ New'.updated = New.updated
    BY <1>1 DEF SameFiles
  <2>4. FieldsOK(u)' /\ FindingOK(u)'
    BY <1>1, <1>2, <2>2, <2>3 DEF FieldsOK, FindingOK
  <2>5. OpeningOK(u)'
    BY <1>7, <2>1 DEF OpeningOK, Preparing, Opening, Offering
  <2>6. WorkingOK(u)'
    BY <1>1, <1>2, <1>7, <2>2, <2>3 DEF WorkingOK
  <2>7. MovingOK(u)'
    BY <1>1, <1>2, <1>3, <1>7, <2>1, <2>2, <2>3 DEF MovingOK
  <2> QED
    BY <2>4, <2>5, <2>6, <2>7
<1> QED
  BY <1>4, <1>5, <1>6, <1>8, <1>9, <1>10, PlacesTogether DEF VInv

LEMMA PartitionDataKeeps ==
  ASSUME VInv, Shape, NEW t \in Threads, PartitionData(t)
  PROVE  VInv'
<1> DEFINE o == StartRound(New)
<1>0. th[t].pc = "partition" /\ OnlyStatic /\ Goto(t, "offer")
  BY DEF PartitionData, At
<1>1. /\ th[t].b = Round /\ Round >= 2 /\ B(t) = New /\ NewOK /\ TasksOK /\ CountOK
      /\ FieldsOK(t) /\ Round \in Nat /\ New \in Object
      /\ Len(dyn) = Round /\ hy.static = Round - 1 /\ hy.merging = Round - 1 /\ New.next = -1
      /\ hy.mode = "Merging" /\ hy.backup = Round
  BY <1>0, WorksOnNew, Basics DEF UseB, Uncounted, Offering, VInv, PlacesOK, OpeningOK
<1>2. ~New.updated /\ New.latest = Round - 1
  BY <1>1, Constants DEF TasksOK, AllStored, NewOK
<1>3. sta' = [sta EXCEPT ![Round] = o]
  BY <1>1 DEF PartitionData, ChangeB
<1>4. /\ o \in Object /\ o.latest = New.latest /\ o.old = New.latest
      /\ o.updated = FALSE /\ o.count = New.count
      /\ SameFiles(o, New) /\ SameTasks(o, New)
  BY <1>1, StartRoundObject
<1> HIDE DEF o
<1>5. Round' = Round /\ New' = o
  BY <1>3, <1>4, ChangeNew
<1>6. Others(t) /\ th'[t].pc = "offer" /\ Locals(t)
  BY <1>0, GotoEffect
<1>7. New.updated \in BOOLEAN
  BY <1>1, ObjectFields
<1>8. Setup(t, o)
  <2>1. ~AllStored
    BY <1>1, Constants DEF AllStored
  <2> QED
    BY <1>0, <1>1, <1>2, <1>3, <1>4, <1>6, <1>7, <2>1 DEF Setup
<1>9. NewOK'
  BY <1>1, <1>2, <1>4, <1>5 DEF NewOK, SameFiles, SameTasks
<1>10. CountOK'
  <2>1. Pending' = Pending /\ OnNewFile' = OnNewFile /\ Counted' = Counted
    BY <1>0, <1>4, <1>5, <1>6, CountedSame DEF SameFiles
  <2>2. th'[t].pc \in Uncounted
    BY <1>6 DEF Uncounted, Offering
  <2>3. New.count = ThreadNumbers + Cardinality(Counted)
    BY <1>0, <1>1 DEF CountOK, Uncounted, Offering
  <2> QED
    BY <1>1, <1>4, <1>5, <2>1, <2>2, <2>3 DEF CountOK, SameTasks
<1>11. TasksOK'
  <2>1. th[t].pc \notin Storing /\ th'[t].pc \notin Storing
        /\ th[t].pc # "store" /\ th'[t].pc # "store"
    BY <1>0, <1>6 DEF Storing
  <2>2. Holders' = Holders
    BY <1>6, <2>1 DEF Holders, Others
  <2>3. \A u \in Holders : FALSE
    BY <1>1, Constants DEF TasksOK
  <2>4. \A p \in Partitions : ~(p < -1)
    BY Constants
  <2>5. New.finished + Cardinality(Holders) = 0
    BY <1>1, <1>2 DEF TasksOK
  <2> QED
    BY <1>1, <1>4, <1>5, <2>2, <2>3, <2>4, <2>5 DEF TasksOK, SameTasks
<1>12. PlaceOK(t)' /\ OpeningOK(t)'
  <2>1. FieldsOK(t)'
    BY <1>0, <1>1, <1>5, <1>6 DEF FieldsOK, Locals, OnTheWay, MovePlaces, Answered
  <2>2. WorkingOK(t)'
    BY <1>1, <1>5, <1>6 DEF WorkingOK, Locals
  <2>3. MovingOK(t)' /\ FindingOK(t)'
    BY <1>6 DEF MovingOK, FindingOK, MovePlaces, Winning
  <2>4. OpeningOK(t)'
    BY <1>0, <1>1, <1>2, <1>4, <1>5, <1>6 DEF OpeningOK, Opening, Offering, OnlyStatic, SameTasks
  <2> QED
    BY <2>1, <2>2, <2>3, <2>4 DEF PlaceOK
<1> QED
  BY <1>1, <1>8, <1>9, <1>10, <1>11, <1>12, SetupKeeps DEF MergeOK

LEMMA OfferKeeps ==
  ASSUME VInv, Shape, NEW t \in Threads, Offer(t)
  PROVE  VInv'
<1> DEFINE o == OfferTasks(New)
<1>0. th[t].pc = "offer" /\ OnlyStatic /\ Goto(t, "resetCount")
  BY DEF Offer, At
<1>1. /\ th[t].b = Round /\ Round >= 2 /\ B(t) = New /\ NewOK /\ TasksOK /\ CountOK
      /\ FieldsOK(t) /\ Round \in Nat /\ New \in Object
      /\ hy.static = Round - 1 /\ New.next = -1 /\ New.old = Round - 1
  BY <1>0, WorksOnNew, Basics DEF UseB, Uncounted, Offering, VInv, PlacesOK, OpeningOK
<1>2. ~New.updated /\ ~AllStored
  BY <1>1, Constants DEF TasksOK, AllStored
<1>3. sta' = [sta EXCEPT ![Round] = o]
  BY <1>1 DEF Offer, ChangeB
<1>4. /\ o \in Object /\ o.next = 0 /\ o.finished = New.finished
      /\ SameVersions(o, New) /\ SameFiles(o, New) /\ o.count = New.count
  BY <1>1, OfferTasksObject
<1> HIDE DEF o
<1>5. Round' = Round /\ New' = o
  BY <1>3, <1>4, ChangeNew
<1>6. Others(t) /\ th'[t].pc = "resetCount" /\ Locals(t)
  BY <1>0, GotoEffect
<1>7. Setup(t, o)
  BY <1>0, <1>1, <1>2, <1>3, <1>4, <1>6 DEF Setup, SameVersions
<1>8. NewOK'
  BY <1>1, <1>4, <1>5 DEF NewOK, SameFiles, SameVersions
<1>9. CountOK'
  <2>1. Pending' = Pending /\ OnNewFile' = OnNewFile /\ Counted' = Counted
    BY <1>0, <1>4, <1>5, <1>6, CountedSame DEF SameFiles
  <2>2. th'[t].pc \in Uncounted
    BY <1>6 DEF Uncounted, Offering
  <2>3. New.count = ThreadNumbers + Cardinality(Counted)
    BY <1>0, <1>1 DEF CountOK, Uncounted, Offering
  <2> QED
    BY <1>1, <1>4, <1>5, <2>1, <2>2, <2>3 DEF CountOK, SameVersions
<1>10. TasksOK'
  <2>1. th[t].pc \notin Storing /\ th'[t].pc \notin Storing
        /\ th[t].pc # "store" /\ th'[t].pc # "store"
    BY <1>0, <1>6 DEF Storing
  <2>2. Holders' = Holders
    BY <1>6, <2>1 DEF Holders, Others
  <2>3. \A u \in Holders : FALSE
    BY <1>1, Constants DEF TasksOK
  <2>4. \A p \in Partitions : ~(p < 0)
    BY Constants
  <2>5. New.finished + Cardinality(Holders) = 0
    BY <1>1, <1>2 DEF TasksOK
  <2> QED
    BY <1>1, <1>2, <1>4, <1>5, <2>2, <2>3, <2>4, <2>5 DEF TasksOK, SameVersions
<1>11. PlaceOK(t)' /\ OpeningOK(t)'
  <2>1. FieldsOK(t)'
    BY <1>0, <1>1, <1>5, <1>6 DEF FieldsOK, Locals, OnTheWay, MovePlaces, Answered
  <2>2. WorkingOK(t)'
    BY <1>1, <1>5, <1>6 DEF WorkingOK, Locals
  <2>3. MovingOK(t)' /\ FindingOK(t)'
    BY <1>6 DEF MovingOK, FindingOK, MovePlaces, Winning
  <2>4. OpeningOK(t)'
    BY <1>0, <1>1, <1>4, <1>5, <1>6 DEF OpeningOK, Opening, Offering, OnlyStatic
  <2> QED
    BY <2>1, <2>2, <2>3, <2>4 DEF PlaceOK
<1> QED
  BY <1>1, <1>7, <1>8, <1>9, <1>10, <1>11, SetupKeeps DEF MergeOK

LEMMA ResetVersionCountKeeps ==
  ASSUME VInv, Shape, NEW t \in Threads, ResetVersionCount(t)
  PROVE  VInv'
<1> DEFINE o == ResetCount(New)
           r == [th[t] EXCEPT !.pc = "loadTask", !.then = "announce"]
<1>0. th[t].pc = "resetCount" /\ OnlyStatic
  BY DEF ResetVersionCount, At
<1>1. /\ th[t].b = Round /\ Round >= 2 /\ B(t) = New /\ NewOK /\ TasksOK /\ CountOK
      /\ FieldsOK(t) /\ Round \in Nat /\ New \in Object
      /\ hy.static = Round - 1 /\ New.next # -1
  BY <1>0, WorksOnNew, Basics DEF UseB, Uncounted, Offering, VInv, PlacesOK, OpeningOK
<1>2. sta' = [sta EXCEPT ![Round] = o]
  BY <1>1 DEF ResetVersionCount, ChangeB
<1>3. /\ o \in Object /\ o.count = IF New.count = ThreadNumbers THEN 0 ELSE New.count
      /\ SameVersions(o, New) /\ SameFiles(o, New) /\ SameTasks(o, New)
  BY <1>1, ResetCountObject
<1> HIDE DEF o
<1>4. Round' = Round /\ New' = o
  BY <1>2, <1>3, ChangeNew
<1>5. th' = [th EXCEPT ![t] = r]
  BY DEF ResetVersionCount, Shape
<1>6. IsThread(th[t])
  BY ThreadShape
<1>7. /\ r.pc = "loadTask" /\ r.b = th[t].b /\ r.ret = th[t].ret /\ r.who = th[t].who
      /\ r.key = th[t].key /\ r.found = th[t].found /\ r.task = th[t].task
  BY <1>6 DEF IsThread, ThreadOf
<1> HIDE DEF r
<1>8. Others(t) /\ th'[t] = r
  BY <1>5, RecordEffect
<1>9. th[t].pc \notin Storing /\ th'[t].pc \notin Storing
      /\ th[t].pc # "store" /\ th'[t].pc # "store"
  BY <1>0, <1>7, <1>8 DEF Storing
<1>10. TasksOK' /\ Holders' = Holders
  BY <1>0, <1>1, <1>3, <1>4, <1>7, <1>8, <1>9, TasksSame DEF OnlyStatic, SameHy, SameFiles
<1>11. Setup(t, o)
  BY <1>0, <1>2, <1>3, <1>4, <1>7, <1>8, <1>10 DEF Setup, SameVersions, SameTasks, AllStored
<1>12. NewOK'
  BY <1>1, <1>3, <1>4 DEF NewOK, SameFiles, SameVersions, SameTasks
<1>13. CountOK'
  <2>1. Pending' = Pending /\ OnNewFile' = OnNewFile /\ Counted' = Counted
    BY <1>0, <1>3, <1>4, <1>7, <1>8, CountedSame DEF SameFiles
  <2>2. New.count = ThreadNumbers + Cardinality(Counted)
    BY <1>0, <1>1 DEF CountOK, Uncounted
  <2>3. \A u \in Threads : th'[u].pc \notin Uncounted
    <3>1. \A u \in Threads : u # t => th[u].pc \notin Preparing
      BY <1>0 DEF VInv, OneOfEach, Preparing
    <3>2. \A u \in Threads : u # t => th[u].pc \notin Uncounted
      BY <3>1 DEF Preparing, Opening, Uncounted, Offering
    <3> QED
      BY <1>7, <1>8, <3>2 DEF Others, Uncounted, Offering
  <2>4. ThreadNumbers \in Nat /\ Cardinality(Counted) \in Nat
    BY Constants, FiniteSets
  <2>5. CASE Counted = {}
    <3>1. Cardinality(Counted) = 0
      BY <2>5, FS_EmptySet
    <3>2. o.count = Cardinality(Counted)
      BY <1>3, <2>2, <2>4, <3>1
    <3> QED
      BY <1>1, <1>3, <1>4, <2>1, <2>3, <3>2 DEF CountOK, SameVersions, SameTasks
  <2>6. CASE Counted # {}
    <3>1. Cardinality(Counted) # 0
      BY <2>6, FiniteSets, FS_EmptySet
    <3>2. o.count = ThreadNumbers + Cardinality(Counted)
      BY <1>3, <2>2, <2>4, <3>1
    <3> QED
      BY <1>1, <1>4, <2>1, <2>6, <3>2 DEF CountOK
  <2> QED
    BY <2>5, <2>6
<1>14. PlaceOK(t)' /\ OpeningOK(t)'
  <2>1. FieldsOK(t)'
    BY <1>0, <1>1, <1>4, <1>7, <1>8 DEF FieldsOK, OnTheWay, MovePlaces, Answered
  <2>2. WorkingOK(t)'
    BY <1>1, <1>4, <1>7, <1>8 DEF WorkingOK
  <2>3. MovingOK(t)' /\ FindingOK(t)' /\ OpeningOK(t)'
    BY <1>7, <1>8 DEF MovingOK, FindingOK, MovePlaces, Winning, OpeningOK, Opening, Offering
  <2> QED
    BY <2>1, <2>2, <2>3 DEF PlaceOK
<1> QED
  BY <1>1, <1>10, <1>11, <1>12, <1>13, <1>14, SetupKeeps DEF MergeOK

-----------------------------------------------------------------------------
\* The invariant holds at the start, and every step keeps it that meets the two
\* assumptions.
LEMMA InitVInv == Init => VInv
<1> SUFFICES ASSUME Init PROVE VInv
  OBVIOUS
<1>1. Built \in Object
  BY BuiltObject
<1>2. sta = <<Built>> /\ Round = 1 /\ New = Built /\ sta[1] = Built
  BY DEF Init, Round, New
<1>3. dyn = <<Sampled>> /\ Len(dyn) = 1 /\ Len(files) = 1
  BY DEF Init
<1>4. /\ hy.mode = "Normal" /\ hy.dynamic = 1 /\ hy.merging = NULL /\ hy.static = 1
      /\ hy.backup = NULL
  BY DEF Init
<1>5. \A t \in Threads : /\ th[t].pc = "idle" /\ th[t].b = NULL /\ th[t].ret = ""
                         /\ th[t].found = FALSE
  BY DEF Init, Idle
<1>6. TypesOK
  <2>1. [p \in Partitions |-> {k \in Stored0 : PartitionOf[k] = p}] \in [Partitions -> SUBSET Keys]
    BY WorkloadAssumption
  <2>2. files \in Seq([Partitions -> SUBSET Keys])
    BY <2>1 DEF Init
  <2>3. sta \in Seq(Object)
    BY <1>1, <1>2
  <2>4. dyn \in Seq(SUBSET Keys) /\ Sampled \subseteq Keys
    BY <1>3, WorkloadAssumption
  <2> QED
    BY <2>2, <2>3, <2>4 DEF Init, TypesOK
<1>7. \A t \in Threads : FieldsOK(t)
  BY <1>5 DEF FieldsOK
<1>8. Pointers
  BY <1>2, <1>3, <1>4 DEF Pointers
<1>9. FilesOK
  BY <1>2, <1>3, <1>4 DEF FilesOK, Init
<1>10. StaticOK
  BY <1>2, <1>4 DEF StaticOK, IsSettled, Built
<1>11. MergeOK
  BY <1>2 DEF MergeOK
<1>12. ModeOK
  <2>1. \A t \in Threads : th[t].pc \notin Preparing
    BY <1>5 DEF Preparing, Opening
  <2>2. Len(dyn) = Round /\ hy.static = Round /\ ~(Round >= 2)
    BY <1>2, <1>3, <1>4
  <2>3. hy.mode # "Merging" /\ hy.mode # "Merged"
    BY <1>4
  <2> HIDE DEF Round, New, Preparing
  <2> QED
    BY <1>4, <2>1, <2>2, <2>3 DEF ModeOK
<1>13. OneOfEach
  BY <1>5 DEF OneOfEach, Preparing, Opening, Winning
<1>14. PlacesOK
  <2>1. SUFFICES ASSUME NEW t \in Threads
                 PROVE  OpeningOK(t) /\ WorkingOK(t) /\ MovingOK(t) /\ FindingOK(t)
    BY DEF PlacesOK
  <2>2. th[t].pc = "idle"
    BY <1>5
  <2>3. OpeningOK(t)
    BY <2>2 DEF OpeningOK, Opening, Offering
  <2>4. WorkingOK(t)
    BY <2>2 DEF WorkingOK, UseB, TaskPlaces, MovePlaces, Uncounted, Offering
  <2>5. MovingOK(t) /\ FindingOK(t)
    BY <2>2 DEF MovingOK, MovePlaces, Winning, FindingOK
  <2> QED
    BY <2>3, <2>4, <2>5
<1> QED
  BY <1>6, <1>7, <1>8, <1>9, <1>10, <1>11, <1>12, <1>13, <1>14 DEF VInv

LEMMA AwaitStepsKeep ==
  ASSUME VInv, Shape, NEW t \in Threads,
         AwaitReadyToMerge(t) \/ StartOver(t) \/ EnterDynamic(t) \/ AwaitReadyToNormal(t)
  PROVE  VInv'
<1>1. CASE AwaitReadyToMerge(t)
  <2>1. th[t].pc = "awaitReady" /\ Goto(t, "toMerging") /\ Still
    BY <1>1, OnlyThreadStill DEF AwaitReadyToMerge, At
  <2> QED
    BY <2>1, AwaitKeeps
<1>2. CASE StartOver(t)
  <2>1. th[t].pc = "startOver" /\ Goto(t, "insert") /\ Still
    BY <1>2, OnlyThreadStill DEF StartOver, At
  <2> QED
    BY <2>1, AwaitKeeps
<1>3. CASE EnterDynamic(t)
  <2>1. SameHy
    BY <1>3 DEF EnterDynamic, Set, Shape, HyShape, SameHy
  <2>2. th[t].pc = "enterDynamic" /\ Goto(t, "loadDynamic") /\ Still
    BY <1>3, <2>1, OnlyHybridStill DEF EnterDynamic, At
  <2> QED
    BY <2>2, AwaitKeeps
<1>4. CASE AwaitReadyToNormal(t)
  <2>1. th[t].pc = "awaitNormal" /\ Goto(t, "dropMerging") /\ Still
    BY <1>4, OnlyThreadStill DEF AwaitReadyToNormal, At
  <2> QED
    BY <2>1, AwaitNormalKeeps
<1> QED
  BY <1>1, <1>2, <1>3, <1>4

LEMMA AssignedToMergeKeeps ==
  ASSUME VInv, Shape, NEW t \in Threads, AssignedToMerge(t)
  PROVE  VInv'
BY LoadBackupToAssistKeeps, LoadTaskKeeps, TakeTaskKeeps, MergeSubDataKeeps,
   CountStoredKeeps, FinishMergeKeeps, CheckFinishedKeeps, CloseMergeKeeps,
   AnnounceVersionKeeps DEF AssignedToMerge

LEMMA UpdateVersionKeeps ==
  ASSUME VInv, Shape, OneMover, NEW t \in Threads, UpdateVersion(t)
  PROVE  VInv'
BY LoadBackupToUpdateKeeps, CheckVersionKeeps, OpenLatestKeeps, CountUpdatedKeeps,
   CheckCountKeeps, SwapStaticKeeps, ClearBackupKeeps, DeleteFileKeeps,
   AwaitStepsKeep, DropMergingKeeps, ToNormalKeeps DEF UpdateVersion

LEMMA MergeKeeps ==
  ASSUME VInv, Shape, NEW t \in Threads, Merge(t)
  PROVE  VInv'
BY SetMergingKeeps, NewDynamicKeeps, CollectKeeps, CopyStaticKeeps, PublishKeeps,
   PartitionDataKeeps, OfferKeeps, ResetVersionCountKeeps DEF Merge

LEMMA InsertKeeps ==
  ASSUME VInv, Shape, NoneLeftOver, NEW t \in Threads, Insert(t)
  PROVE  VInv'
BY InsertModeKeeps, UpdateAllKeeps, PrepareKeepsV, AwaitStepsKeep, ToMergingKeepsV,
   MergeKeeps, AnnounceKeepsV, LoadDynamicKeepsV, RecheckModeKeeps, InsertKeyKeeps,
   LeaveDynamicKeepsV, ReturnInsertKeeps DEF Insert

LEMMA StepKeepsVInv ==
  VInv /\ IInv /\ NoneLeftOver /\ OneMover /\ [Next]_vars => VInv'
<1> SUFFICES ASSUME VInv, IInv, NoneLeftOver, OneMover, [Next]_vars PROVE VInv'
  OBVIOUS
<1>1. Shape
  BY DEF IInv
<1>2. ASSUME NEW t \in Threads, Begin(t) PROVE VInv'
  BY <1>1, <1>2, BeginKeepsV
<1>3. ASSUME NEW t \in Threads, AssignedToMerge(t) PROVE VInv'
  BY <1>1, <1>3, AssignedToMergeKeeps
<1>4. ASSUME NEW t \in Threads, UpdateVersion(t) PROVE VInv'
  BY <1>1, <1>4, UpdateVersionKeeps
<1>5. ASSUME NEW t \in Threads, Find(t) PROVE VInv'
  BY <1>1, <1>5, FindKeepsV
<1>6. ASSUME NEW t \in Threads, Insert(t) PROVE VInv'
  BY <1>1, <1>6, InsertKeeps
<1>7. ASSUME NEW t \in Threads, GiveUp(t) PROVE VInv'
  BY <1>1, <1>7, GiveUpKeepsV
<1>8. CASE UNCHANGED vars
  <2>1. Round' = Round /\ New' = New
    BY <1>8 DEF vars, Round, New
  <2>2. Holders' = Holders /\ OnNewFile' = OnNewFile /\ Pending' = Pending
    BY <1>8, <2>1 DEF vars, Holders, OnNewFile, Pending
  <2>3. Counted' = Counted /\ (AllStored' <=> AllStored)
    BY <2>1, <2>2 DEF Counted, AllStored
  <2>4. MergeOK'
    <3>1. \A p : IsComplete(p)' <=> IsComplete(p)
      BY <1>8, <2>1 DEF vars, IsComplete
    <3> QED
      BY <1>8, <2>1, <2>2, <2>3, <3>1 DEF vars, VInv, MergeOK, NewOK, TasksOK, CountOK
  <2>5. (TypesOK /\ Pointers /\ FilesOK /\ StaticOK)'
    BY <1>8, <2>1 DEF vars, VInv, TypesOK, Object, Pointers, FilesOK, StaticOK, IsSettled
  <2>6. \A t \in Threads : Winning(t)' <=> Winning(t)
    BY <1>8 DEF vars, Winning
  <2>7. ModeOK' /\ OneOfEach'
    BY <1>8, <2>1, <2>3, <2>6 DEF vars, VInv, ModeOK, OneOfEach
  <2>8. (PlacesOK /\ \A t \in Threads : FieldsOK(t))'
    <3>1. SUFFICES ASSUME NEW t \in Threads
                   PROVE (FieldsOK(t) /\ OpeningOK(t) /\ WorkingOK(t) /\ MovingOK(t) /\ FindingOK(t))'
      BY DEF PlacesOK
    <3>2. FieldsOK(t) /\ OpeningOK(t) /\ WorkingOK(t) /\ MovingOK(t) /\ FindingOK(t)
      BY DEF VInv, PlacesOK
    <3>3. FieldsOK(t)' /\ FindingOK(t)' /\ WorkingOK(t)'
      BY <1>8, <2>1, <2>3, <3>2 DEF vars, FieldsOK, FindingOK, WorkingOK
    <3>4. OpeningOK(t)'
      BY <1>8, <2>1, <3>2 DEF vars, OpeningOK, BusyWithMerge
    <3>5. MovingOK(t)'
      BY <1>8, <2>1, <2>6, <3>2 DEF vars, MovingOK
    <3> QED
      BY <3>3, <3>4, <3>5
  <2> QED
    BY <2>4, <2>5, <2>7, <2>8 DEF VInv
<1> QED
  BY <1>2, <1>3, <1>4, <1>5, <1>6, <1>7, <1>8 DEF Next, Step

LEMMA AlwaysVInv == Spec /\ []NoneLeftOver /\ []OneMover => []VInv
BY InitVInv, StepKeepsVInv, AlwaysIInv, PTL DEF Spec

-----------------------------------------------------------------------------
\* What the invariant gives.
\* When all partitions are stored, the layout is that of the new file, and the file
\* is whole unless the merge is over.
LEMMA StoredLayout ==
  ASSUME VInv, Round >= 2, AllStored, NEW p \in Partitions
  PROVE  /\ New.layout[p] = Round /\ New.old = Round - 1
         /\ hy.static # Round \/ hy.backup # NULL => IsComplete(p)
<1>1. NewOK /\ TasksOK
  BY DEF VInv, MergeOK
<1>2. p < New.next /\ New.next # -1
  BY Constants DEF AllStored
<1>3. \A t \in Threads : th[t].pc # "store"
  BY DEF AllStored, Holders, Storing
<1> QED
  BY <1>1, <1>2, <1>3 DEF NewOK, TasksOK

\* An object that threads can move to is the last one, and its file is the latest.
LEMMA UpdatedObject ==
  ASSUME VInv, Round >= 2, New.updated
  PROVE  New.latest = Round /\ AllStored
BY DEF VInv, MergeOK, NewOK, TasksOK

LEMMA LatestFiles ==
  ASSUME VInv, NEW i \in 1 .. Round
  PROVE  sta[i].latest \in 1 .. Len(files)
<1>1. /\ Round \in Nat /\ Round >= 1
      /\ hy.static \in {Round - 1, Round} /\ hy.static >= 1
  BY Basics DEF VInv, Pointers
<1>2. /\ hy.static = Round => Len(files) = Round
      /\ hy.static # Round => Len(files) \in {Round - 1, Round}
      /\ \A j \in 1 .. Round - 1 : sta[j].latest = j
  BY DEF VInv, FilesOK
<1>3. CASE i # Round
  BY <1>1, <1>2, <1>3
<1>4. CASE i = Round
  <2>1. CASE hy.static = Round
    <3>1. New.latest = Round
      BY <2>1 DEF VInv, StaticOK, IsSettled, New
    <3> QED
      BY <1>1, <1>2, <1>4, <2>1, <3>1 DEF New
  <2>2. CASE hy.static # Round
    <3>1. Round >= 2
      BY <1>1, <2>2
    <3>2. New.latest \in {Round - 1, Round} /\ (New.latest = Round => New.updated)
      BY <3>1 DEF VInv, MergeOK, NewOK
    <3>3. CASE New.updated
      <4>1. AllStored /\ 0 \in Partitions
        BY <3>1, <3>3, UpdatedObject, Constants
      <4>2. IsComplete(0)
        BY <2>2, <3>1, <4>1, StoredLayout
      <4>3. Len(files) = Round
        BY <4>2 DEF IsComplete
      <4> QED
        BY <1>1, <1>4, <3>1, <3>2, <4>3 DEF New
    <3>4. CASE ~New.updated
      BY <1>1, <1>2, <1>4, <2>2, <3>1, <3>2, <3>4 DEF New
    <3> QED
      BY <3>3, <3>4
  <2> QED
    BY <2>1, <2>2
<1> QED
  BY <1>3, <1>4

LEMMA TypesFollow == VInv /\ IInv => TypeOK
<1> SUFFICES ASSUME VInv, IInv PROVE TypeOK
  OBVIOUS
<1>1. /\ hy.mode \in Modes /\ hy.readyMerge \in BOOLEAN /\ hy.readyNormal \in BOOLEAN
      /\ hy.opsDynamic = Cardinality(InsideDynamic)
      /\ hy.opsMerging = Cardinality(InsideMerging)
  BY DEF IInv, Shape, HyShape, DynPart, MrgPart
<1>2. /\ sta \in Seq(Object) /\ dyn \in Seq(SUBSET Keys)
      /\ files \in Seq([Partitions -> SUBSET Keys])
      /\ tmp \subseteq Keys /\ returned \subseteq Keys
  BY DEF VInv, TypesOK
<1>3. /\ Round \in Nat /\ Round >= 1 /\ Len(dyn) \in Nat
      /\ \A i \in 1 .. Round : sta[i] \in Object
  BY Basics
<1>4. DOMAIN sta = 1 .. Round /\ DOMAIN dyn = 1 .. Len(dyn) /\ DOMAIN files = 1 .. Len(files)
  BY <1>2, LenProperties DEF Round
<1>5. /\ hy.dynamic \in DOMAIN dyn /\ hy.merging \in {NULL} \cup DOMAIN dyn
      /\ hy.static \in DOMAIN sta /\ hy.backup \in {NULL} \cup DOMAIN sta
  <2>1. /\ hy.dynamic = Len(dyn) /\ Len(dyn) \in {Round, Round + 1}
        /\ hy.static \in {Round - 1, Round} /\ hy.static >= 1
        /\ hy.backup \in {NULL, Round} /\ hy.merging \in {NULL} \cup 1 .. Len(dyn)
    BY DEF VInv, Pointers
  <2>2. hy.dynamic \in 1 .. Len(dyn) /\ hy.static \in 1 .. Round
    BY <1>3, <2>1
  <2>3. hy.backup \in {NULL} \cup 1 .. Round
    BY <1>3, <2>1
  <2> QED
    BY <1>4, <2>1, <2>2, <2>3
<1>6. ASSUME NEW i \in DOMAIN sta
      PROVE  sta[i].latest \in DOMAIN files /\ sta[i].next \in {-1, MergeThreadNum} \cup Partitions
  <2>1. sta[i].latest \in DOMAIN files
    BY <1>4, LatestFiles
  <2>2. sta[i].next \in -1 .. MergeThreadNum
    BY <1>3, <1>4, ObjectFields
  <2> QED
    BY <2>1, <2>2, Constants
<1>7. \A t \in Threads : th[t].b \in {NULL} \cup DOMAIN sta
  BY <1>4 DEF VInv, FieldsOK
<1> QED
  BY <1>1, <1>2, <1>5, <1>6, <1>7 DEF TypeOK

LEMMA RangesFollow == VInv => RangeFitsFile
<1> SUFFICES ASSUME VInv, NEW t \in Threads, NEW p, p = PartitionOf[th[t].key]
             PROVE  /\ At(t, "findStatic") => sta[hy.static].layout[p] = sta[hy.static].fd[t]
                    /\ At(t, "findBackup") => B(t).layout[p] = B(t).fd[t]
  BY DEF RangeFitsFile
<1>1. th[t].pc # "idle" => p \in Partitions
  BY WorkloadAssumption DEF VInv, FieldsOK
<1>2. At(t, "findStatic") => sta[hy.static].layout[p] = sta[hy.static].fd[t]
  BY <1>1 DEF VInv, StaticOK, IsSettled, At
<1>3. ASSUME At(t, "findBackup")
      PROVE  B(t).layout[p] = B(t).fd[t]
  <2>1. B(t) = New /\ Round >= 2
    BY <1>3 DEF VInv, PlacesOK, WorkingOK, UseB, At, B, New
  <2>2. New.updated /\ New.ver[t] = Round
    BY <1>3 DEF VInv, PlacesOK, FindingOK, At
  <2>3. New.layout[p] = Round
    BY <1>1, <1>3, <2>1, <2>2, UpdatedObject, StoredLayout DEF At
  <2> QED
    BY <2>1, <2>2, <2>3 DEF VInv, MergeOK, NewOK
<1> QED
  BY <1>2, <1>3

LEMMA SettledFollows == VInv => SettledBetweenMerges
BY DEF VInv, ModeOK, StaticOK, IsSettled, SettledBetweenMerges

LEMMA AnnouncedFollows == VInv => AnnouncedFileIsComplete
<1> SUFFICES ASSUME VInv, hy.backup # NULL, sta[hy.backup].updated, NEW p \in Partitions
             PROVE  files[sta[hy.backup].latest][p] =
                      files[sta[hy.backup].old][p] \cup {k \in tmp : PartitionOf[k] = p}
  BY DEF AnnouncedFileIsComplete
<1>1. hy.backup = Round /\ Round >= 2 /\ sta[hy.backup] = New
  BY DEF VInv, Pointers, New
<1>2. New.latest = Round /\ AllStored
  BY <1>1, UpdatedObject
<1>3. New.old = Round - 1 /\ IsComplete(p)
  BY <1>1, <1>2, StoredLayout
<1> QED
  BY <1>1, <1>2, <1>3 DEF IsComplete

LEMMA FilesFollow == VInv => FilesInUseExist
<1> SUFFICES ASSUME VInv PROVE FilesInUseExist
  OBVIOUS
<1>1. /\ Round \in Nat /\ hy.static \in {Round - 1, Round}
      /\ hy.backup \in {NULL, Round} /\ (hy.backup # NULL => Round >= 2)
      /\ removed \subseteq 1 .. hy.static - 1
      /\ sta[hy.static].latest = hy.static
  BY Basics DEF VInv, Pointers, FilesOK, StaticOK, IsSettled
<1>2. sta[hy.static].latest \notin removed
  BY <1>1
<1>3. ASSUME hy.backup # NULL PROVE sta[hy.backup].latest \notin removed
  <2>1. CASE hy.static = Round
    BY <1>1, <1>3, <2>1
  <2>2. CASE hy.static = Round - 1
    <3>1. sta[hy.backup].latest \in {Round - 1, Round}
      BY <1>1, <1>3 DEF VInv, MergeOK, NewOK, New
    <3> QED
      BY <1>1, <2>2, <3>1
  <2> QED
    BY <1>1, <2>1, <2>2
<1>4. ASSUME NEW t \in Threads, At(t, "openLatest") PROVE B(t).latest \notin removed
  <2>1. B(t) = New /\ Round >= 2
    BY <1>4 DEF VInv, PlacesOK, WorkingOK, UseB, MovePlaces, At, B, New
  <2>2. New.latest = Round
    BY <1>4, <2>1, UpdatedObject DEF VInv, PlacesOK, MovingOK, MovePlaces, At
  <2> QED
    BY <1>1, <2>1, <2>2
<1> QED
  BY <1>2, <1>3, <1>4 DEF FilesInUseExist

\* Through any number of merges no pointer of the hybrid index is left without its
\* object (Insert, MergeData), each counter is exact, and no thread takes a
\* partition that is not there (ObtainMergeTask), if no thread is left over when
\* a merge starts and no two threads move the same one.
THEOREM TypesAreKept ==
  Spec /\ []NoneLeftOver /\ []OneMover => []TypeOK
BY TypesFollow, AlwaysVInv, AlwaysIInv, PTL

\* Whoever searches on disk, in the static index or in the backup, has open the
\* file that the page range of the partition was computed for: MergeSubData and
\* UpdateVersion change the range and the descriptors of one thread at a time,
\* and no search meets the one without the other.
THEOREM SearchReadsItsRange ==
  Spec /\ []NoneLeftOver /\ []OneMover => []RangeFitsFile
BY RangesFollow, AlwaysVInv, PTL

\* When the mode is NormalMode or PrepareToMerge again, the merge has left nothing:
\* both pointers are null, and every thread has the file of the static index open,
\* the threads that were idle all along and those that another thread moved too.
THEOREM MergeLeavesNothing ==
  Spec /\ []NoneLeftOver /\ []OneMover => []SettledBetweenMerges
BY SettledFollows, AlwaysVInv, PTL

\* UpdateLatestVersion makes a file known only when every partition of it is
\* written, each from the partition of the old file and its part of the merged
\* records, by whichever threads came to help.
THEOREM NewFileIsComplete ==
  Spec /\ []NoneLeftOver /\ []OneMover => []AnnouncedFileIsComplete
BY AnnouncedFollows, AlwaysVInv, PTL

\* DeleteFile removes a file after the last thread that could open it has moved on.
THEOREM OpenedFilesExist ==
  Spec /\ []NoneLeftOver /\ []OneMover => []FilesInUseExist
BY FilesFollow, AlwaysVInv, PTL

-----------------------------------------------------------------------------
\* What a step does to the shared variables: all but a few leave each one alone.
Disk(t) ==
  /\ MergeSubData(t) \/ files' = files
  /\ SwapStatic(t) \/ hy'.static = hy.static

Memory(t) ==
  /\ NewDynamic(t) \/ InsertKey(t) \/ dyn' = dyn
  /\ NewDynamic(t) \/ hy'.dynamic = hy.dynamic
  /\ SetMerging(t) \/ DropMerging(t) \/ hy'.merging = hy.merging
  /\ Collect(t) \/ tmp' = tmp
  /\ ReturnInsert(t) \/ returned' = returned
  /\ CloseMerge(t) \/ (hy'.mode = "Merged" => hy.mode = "Merged")

LEMMA TasksDisk ==
  ASSUME HyShape, NEW t \in Threads, AssignedToMerge(t)
  PROVE  Disk(t) /\ Memory(t)
<1>1. hy' = hy \/ CloseMerge(t)
  BY DEF AssignedToMerge, LoadBackupToAssist, LoadTask, TakeTaskOrLoseIt, MergeSubData,
         CountStored, FinishMerge, CheckFinished, AnnounceVersion, OnlyThread, OnlyStatic
<1>2. /\ dyn' = dyn /\ tmp' = tmp /\ returned' = returned
      /\ MergeSubData(t) \/ files' = files
  BY DEF AssignedToMerge, LoadBackupToAssist, LoadTask, TakeTaskOrLoseIt, MergeSubData,
         CountStored, FinishMerge, CheckFinished, AnnounceVersion, CloseMerge,
         OnlyThread, OnlyStatic, OnlyHybrid
<1>3. CloseMerge(t) => /\ hy'.static = hy.static /\ hy'.dynamic = hy.dynamic
                       /\ hy'.merging = hy.merging
  BY DEF CloseMerge, Set, HyShape
<1> QED
  BY <1>1, <1>2, <1>3 DEF Disk, Memory

LEMMA MoveDisk ==
  ASSUME HyShape, NEW t \in Threads, UpdateVersion(t)
  PROVE  Disk(t) /\ Memory(t)
<1>1. \/ hy' = hy
      \/ SwapStatic(t) \/ ClearBackup(t) \/ DropMerging(t) \/ ToNormal(t)
  BY DEF UpdateVersion, LoadBackupToUpdate, CheckVersion, OpenLatestFile, CountUpdated,
         CheckCount, DeleteFile, AwaitReadyToNormal, OnlyThread, OnlyStatic
<1>2. dyn' = dyn /\ tmp' = tmp /\ returned' = returned /\ files' = files
  BY DEF UpdateVersion, LoadBackupToUpdate, CheckVersion, OpenLatestFile, CountUpdated,
         CheckCount, SwapStatic, ClearBackup, DeleteFile, AwaitReadyToNormal, DropMerging,
         ToNormal, OnlyThread, OnlyStatic, OnlyHybrid
<1>3. SwapStatic(t) => /\ hy'.mode = hy.mode /\ hy'.dynamic = hy.dynamic
                       /\ hy'.merging = hy.merging
  BY DEF SwapStatic, Set, HyShape
<1>4. ClearBackup(t) => /\ hy'.mode = hy.mode /\ hy'.dynamic = hy.dynamic
                        /\ hy'.merging = hy.merging /\ hy'.static = hy.static
  BY DEF ClearBackup, HyShape
<1>5. DropMerging(t) => /\ hy'.mode = hy.mode /\ hy'.dynamic = hy.dynamic
                        /\ hy'.static = hy.static
  BY DEF DropMerging, Set, HyShape
<1>6. ToNormal(t) => /\ (hy'.mode = "Merged" => hy.mode = "Merged")
                     /\ hy'.dynamic = hy.dynamic
                     /\ hy'.merging = hy.merging /\ hy'.static = hy.static
  BY DEF ToNormal, HyShape
<1> QED
  BY <1>1, <1>2, <1>3, <1>4, <1>5, <1>6 DEF Disk, Memory

LEMMA FindDisk ==
  ASSUME HyShape, NEW t \in Threads, Find(t)
  PROVE  Disk(t) /\ Memory(t)
<1>1. \/ hy' = hy
      \/ NotReadyToNormal(t) \/ EnterMerging(t) \/ LeaveMerging(t) \/ ReadyToNormal(t)
  BY DEF Find, FindMode, FindDynamic, MissMode, LoadMerging, MergedReady, MergedPointer,
         FindMerging, DiskMode, MergedBackup, ReloadBackup, FindStatic, FindBackup,
         ReturnFind, OnlyThread
<1>2. dyn' = dyn /\ tmp' = tmp /\ returned' = returned /\ files' = files
  BY DEF Find, FindMode, FindDynamic, MissMode, LoadMerging, MergedReady, MergedPointer,
         FindMerging, DiskMode, MergedBackup, ReloadBackup, FindStatic, FindBackup,
         ReturnFind, NotReadyToNormal, EnterMerging, LeaveMerging, ReadyToNormal,
         OnlyThread, OnlyHybrid
<1>3. NotReadyToNormal(t) \/ EnterMerging(t) \/ LeaveMerging(t) \/ ReadyToNormal(t) =>
        /\ hy'.mode = hy.mode /\ hy'.dynamic = hy.dynamic
        /\ hy'.merging = hy.merging /\ hy'.static = hy.static
  BY DEF NotReadyToNormal, EnterMerging, LeaveMerging, ReadyToNormal, Set, HyShape
<1> QED
  BY <1>1, <1>2, <1>3 DEF Disk, Memory

LEMMA MergeDisk ==
  ASSUME HyShape, NEW t \in Threads, Merge(t)
  PROVE  Disk(t) /\ Memory(t)
<1>1. hy' = hy \/ SetMerging(t) \/ NewDynamic(t) \/ PublishBackup(t)
  BY DEF Merge, Collect, CopyStatic, PartitionData, Offer, ResetVersionCount, OnlyStatic
<1>2. /\ returned' = returned /\ files' = files
      /\ NewDynamic(t) \/ dyn' = dyn
      /\ Collect(t) \/ tmp' = tmp
  BY DEF Merge, SetMerging, NewDynamic, Collect, CopyStatic, PublishBackup, PartitionData,
         Offer, ResetVersionCount, OnlyStatic, OnlyHybrid
<1>3. SetMerging(t) => /\ hy'.mode = hy.mode /\ hy'.dynamic = hy.dynamic
                       /\ hy'.static = hy.static
  BY DEF SetMerging, HyShape
<1>4. NewDynamic(t) => /\ hy'.mode = hy.mode /\ hy'.merging = hy.merging
                       /\ hy'.static = hy.static
  BY DEF NewDynamic, Set, HyShape
<1>5. PublishBackup(t) => /\ hy'.mode = hy.mode /\ hy'.dynamic = hy.dynamic
                          /\ hy'.merging = hy.merging /\ hy'.static = hy.static
  BY DEF PublishBackup, Set, HyShape
<1> QED
  BY <1>1, <1>2, <1>3, <1>4, <1>5 DEF Disk, Memory

LEMMA InsertDisk ==
  ASSUME HyShape, NEW t \in Threads, Insert(t)
  PROVE  Disk(t) /\ Memory(t)
<1>1. CASE Merge(t)
  BY <1>1, MergeDisk
<1>2. CASE ~Merge(t)
  <2>1. \/ hy' = hy
        \/ Prepare(t) \/ ToMerging(t) \/ Announce(t) \/ EnterDynamic(t) \/ LeaveDynamic(t)
        \/ ReadyToMerge(t)
    BY <1>2 DEF Insert, InsertMode, AwaitPrepared, AwaitMerged, AwaitSwapped,
           UpdateAllVersion, AwaitReadyToMerge, LoadDynamic, RecheckMode, InsertKey,
           StartOver, ReturnInsert, OnlyThread
  <2>2. /\ files' = files /\ tmp' = tmp
        /\ InsertKey(t) \/ dyn' = dyn
        /\ ReturnInsert(t) \/ returned' = returned
    BY <1>2 DEF Insert, InsertMode, AwaitPrepared, AwaitMerged, AwaitSwapped,
           UpdateAllVersion, AwaitReadyToMerge, LoadDynamic, RecheckMode, InsertKey,
           StartOver, ReturnInsert, Prepare, ToMerging, Announce, EnterDynamic,
           LeaveDynamic, ReadyToMerge, OnlyThread, OnlyHybrid
  <2>3. Prepare(t) \/ ToMerging(t) =>
          /\ (hy'.mode = "Merged" => hy.mode = "Merged") /\ hy'.dynamic = hy.dynamic
          /\ hy'.merging = hy.merging /\ hy'.static = hy.static
    BY DEF Prepare, ToMerging, Set, HyShape
  <2>4. Announce(t) \/ EnterDynamic(t) \/ LeaveDynamic(t) \/ ReadyToMerge(t) =>
          /\ hy'.mode = hy.mode /\ hy'.dynamic = hy.dynamic
          /\ hy'.merging = hy.merging /\ hy'.static = hy.static
    BY DEF Announce, EnterDynamic, LeaveDynamic, ReadyToMerge, Set, HyShape
  <2> QED
    BY <2>1, <2>2, <2>3, <2>4 DEF Disk, Memory
<1> QED
  BY <1>1, <1>2

LEMMA StepDisk ==
  ASSUME HyShape, NEW t \in Threads, Begin(t) \/ Step(t)
  PROVE  Disk(t) /\ Memory(t)
<1>1. ASSUME Begin(t) \/ GiveUp(t) PROVE Disk(t) /\ Memory(t)
  BY <1>1 DEF Begin, GiveUp, OnlyThread, Disk, Memory
<1> QED
  BY <1>1, TasksDisk, MoveDisk, FindDisk, InsertDisk DEF Step

\* The file in use is only written anew while it is not in use, and is then replaced
\* by one that has all its keys.
LEMMA DiskGrows ==
  ASSUME VInv, VInv', Shape, [Next]_vars
  PROVE  OnDiskNow \subseteq OnDiskNow'
<1>1. sta[hy.static].latest = hy.static /\ sta'[hy'.static].latest = hy'.static
  BY DEF VInv, StaticOK, IsSettled
<1>2. Round \in Nat /\ hy.static \in {Round - 1, Round}
  BY Basics DEF VInv, Pointers
<1>3. ASSUME NEW p \in Partitions
      PROVE  files[hy.static][p] \subseteq files'[hy'.static][p]
  <2>1. CASE UNCHANGED vars
    BY <2>1 DEF vars
  <2>2. ASSUME NEW t \in Threads, Begin(t) \/ Step(t)
        PROVE  files[hy.static][p] \subseteq files'[hy'.static][p]
    <3>1. Disk(t)
      BY <2>2, StepDisk DEF Shape
    <3>2. CASE MergeSubData(t)
      <4>1. th[t].pc = "store" /\ hy' = hy
        BY <3>2 DEF MergeSubData, At
      <4>2. Round >= 2 /\ New.ver[t] = Round - 1
        BY <4>1 DEF VInv, PlacesOK, WorkingOK, UseB, TaskPlaces
      <4>3. hy.static # Round
        BY <1>2, <4>2 DEF VInv, StaticOK, IsSettled, New
      <4>4. \A i \in 1 .. Round - 1 : files'[i] = files[i]
        BY <3>2, <4>1, StoredFiles
      <4> QED
        BY <1>2, <4>1, <4>2, <4>3, <4>4
    <3>3. CASE SwapStatic(t)
      <4>1. th[t].pc = "swapStatic" /\ files' = files /\ hy'.static = th[t].b
        BY <3>3 DEF SwapStatic, At, Set, OnlyHybrid, Shape, HyShape
      <4>2. th[t].b = Round /\ Round >= 2 /\ New.updated
        BY <4>1 DEF VInv, PlacesOK, WorkingOK, MovingOK, UseB, MovePlaces
      <4>3. hy.static # Round => IsComplete(p)
        BY <4>2, UpdatedObject, StoredLayout
      <4> QED
        BY <1>2, <4>1, <4>2, <4>3 DEF IsComplete
    <3> QED
      BY <3>1, <3>2, <3>3 DEF Disk
  <2> QED
    BY <2>1, <2>2 DEF Next
<1>4. ASSUME NEW k \in OnDiskNow PROVE k \in OnDiskNow'
  <2>1. PICK p \in Partitions : k \in files[hy.static][p]
    BY <1>1 DEF OnDiskNow
  <2>2. k \in files'[hy'.static][p]
    BY <1>3, <2>1
  <2> QED
    BY <1>1, <2>2 DEF OnDiskNow
<1> QED
  BY <1>4

\* A file that finds are sent to has all the keys of the one before it: nobody
\* writes to the file in use (MergeSubData), and the swap of the static index
\* (UpdateVersion) puts a complete file in its place.
THEOREM DiskKeepsItsKeys ==
  Spec /\ []NoneLeftOver /\ []OneMover => DiskOnlyGrows
<1>1. VInv /\ VInv' /\ IInv /\ [Next]_vars => [OnDiskNow \subseteq OnDiskNow']_vars
  BY DiskGrows DEF IInv
<1> QED
  BY <1>1, AlwaysVInv, AlwaysIInv, PTL DEF Spec, DiskOnlyGrows

-----------------------------------------------------------------------------
\* Which steps put a thread where its key has to be in an index, and which goes on
\* with the collected records.
Insertions(t) ==
  /\ Others(t)
  /\ Inserted(t)' => th'[t].key = th[t].key /\ (Inserted(t) \/ InsertKey(t))
  /\ th'[t].pc = "copyStatic" => th[t].pc = "collect"

LEMMA ElsewhereInsertions ==
  ASSUME NEW t \in Threads, Elsewhere(t)
  PROVE  Insertions(t)
<1>1. PICK pc : Beyond(t, pc) /\ Moved(t, pc)
  BY DEF Elsewhere
<1>2. Others(t) /\ th'[t].pc = pc
  BY <1>1 DEF Moved, Others
<1>3. pc \notin {"leaveDynamic", "readyMerge", "inserted"}
  BY <1>1 DEF Beyond, Zones, DynZone, DynIn
<1> QED
  BY <1>1, <1>2, <1>3 DEF Insertions, Inserted, Beyond

\* A step to a place of another kind.
LEMMA GotoInsertions ==
  ASSUME Shape, NEW t \in Threads, NEW pc, Goto(t, pc),
         pc \notin {"leaveDynamic", "readyMerge", "inserted", "copyStatic"}
  PROVE  Insertions(t)
BY GotoEffect DEF Insertions, Inserted

\* A step that sets other variables as well.
LEMMA RecordInsertions ==
  ASSUME Shape, NEW t \in Threads, NEW r, th' = [th EXCEPT ![t] = r],
         r.pc \notin {"leaveDynamic", "readyMerge", "inserted", "copyStatic"}
  PROVE  Insertions(t)
BY RecordEffect DEF Insertions, Inserted

LEMMA FindInsertions ==
  ASSUME Shape, NEW t \in Threads, Find(t)
  PROVE  Insertions(t)
<1>1. CASE FindOutside(t)
  BY <1>1, FindElsewhere, ElsewhereInsertions
<1>2. CASE NotReadyToNormal(t)
  BY <1>2, GotoInsertions DEF NotReadyToNormal
<1>3. CASE EnterMerging(t)
  <2>1. Goto(t, "mergedPointer") \/ Goto(t, "findMerging")
    BY <1>3 DEF EnterMerging
  <2> QED
    BY <2>1, GotoInsertions
<1>4. CASE MergedPointer(t)
  <2> DEFINE pc == IF hy.merging = NULL THEN "nullDereference" ELSE "findMerging"
             r == [th[t] EXCEPT !.mg = hy.merging, !.pc = pc]
  <2>1. th' = [th EXCEPT ![t] = r]
    BY <1>4 DEF MergedPointer, Shape
  <2>2. IsThread(th[t])
    BY ThreadShape
  <2>3. r.pc = pc
    BY <2>2 DEF IsThread, ThreadOf
  <2>4. pc \in {"nullDereference", "findMerging"}
    OBVIOUS
  <2> HIDE DEF r, pc
  <2> QED
    BY <2>1, <2>3, <2>4, RecordInsertions
<1>5. CASE FindMerging(t)
  <2> DEFINE r == [th[t] EXCEPT !.found = th[t].key \in dyn[th[t].mg],
                                !.pc = "leaveMerging", !.mg = NULL]
  <2>1. th' = [th EXCEPT ![t] = r]
    BY <1>5 DEF FindMerging, Shape
  <2>2. IsThread(th[t])
    BY ThreadShape
  <2>3. r.pc = "leaveMerging"
    BY <2>2 DEF IsThread, ThreadOf
  <2> HIDE DEF r
  <2> QED
    BY <2>1, <2>3, RecordInsertions
<1>6. CASE LeaveMerging(t)
  <2>1. Goto(t, "readyNormal") \/ Goto(t, "found") \/ Goto(t, "diskMode")
    BY <1>6 DEF LeaveMerging
  <2> QED
    BY <2>1, GotoInsertions
<1>7. CASE ReadyToNormal(t)
  <2>1. Goto(t, "found") \/ Goto(t, "diskMode")
    BY <1>7 DEF ReadyToNormal
  <2> QED
    BY <2>1, GotoInsertions
<1> QED
  BY <1>1, <1>2, <1>3, <1>4, <1>5, <1>6, <1>7 DEF Find, FindOutside

LEMMA InsertInsertions ==
  ASSUME VInv, Shape, NEW t \in Threads, Insert(t)
  PROVE  Insertions(t)
<1>0. IsThread(th[t])
  BY ThreadShape
<1>1. CASE InsertOutside(t)
  BY <1>1, InsertElsewhere, ElsewhereInsertions
<1>2. CASE Prepare(t) \/ AwaitReadyToMerge(t) \/ ToMerging(t) \/ EnterDynamic(t)
  <2>1. PICK pc \in {"awaitReady", "announce", "toMerging", "setMerging", "loadDynamic"} :
          Goto(t, pc)
    BY <1>2 DEF Prepare, AwaitReadyToMerge, ToMerging, EnterDynamic
  <2> QED
    BY <2>1, GotoInsertions
<1>3. CASE Announce(t)
  <2> DEFINE q == [th[t] EXCEPT !.b = NULL, !.task = -1, !.then = "", !.ret = ""]
             r == [q EXCEPT !.pc = "enterDynamic"]
  <2>1. th' = [th EXCEPT ![t] = r]
    BY <1>3 DEF Announce, Shape
  <2>2. IsThread(q)
    BY <1>0 DEF IsThread, ThreadOf, Returns, Nexts
  <2> HIDE DEF q
  <2>3. r.pc = "enterDynamic"
    BY <2>2 DEF IsThread, ThreadOf
  <2> HIDE DEF r
  <2> QED
    BY <2>1, <2>3, RecordInsertions
<1>4. CASE LoadDynamic(t)
  <2> DEFINE r == [th[t] EXCEPT !.pc = "recheckMode", !.dy = hy.dynamic]
  <2>1. th' = [th EXCEPT ![t] = r]
    BY <1>4 DEF LoadDynamic, Shape
  <2>2. r.pc = "recheckMode"
    BY <1>0 DEF IsThread, ThreadOf
  <2> HIDE DEF r
  <2> QED
    BY <2>1, <2>2, RecordInsertions
<1>5. CASE RecheckMode(t)
  <2> DEFINE r == [th[t] EXCEPT !.pc = "leaveDynamic", !.dy = NULL]
  <2>1. th[t].pc = "recheckMode"
    BY <1>5 DEF RecheckMode, At
  <2>2. ~th[t].found
    BY <2>1 DEF VInv, FieldsOK, Answered
  <2>3. CASE th' = [th EXCEPT ![t] = r]
    <3>1. r.pc = "leaveDynamic" /\ r.found = th[t].found
      BY <1>0 DEF IsThread, ThreadOf
    <3> HIDE DEF r
    <3> QED
      BY <2>2, <2>3, <3>1, RecordEffect DEF Insertions, Inserted
  <2>4. CASE Goto(t, "insertKey")
    BY <2>4, GotoInsertions
  <2> QED
    BY <1>5, <2>3, <2>4 DEF RecheckMode, Goto, Shape
<1>6. CASE InsertKey(t)
  <2> DEFINE r == [th[t] EXCEPT !.pc = "leaveDynamic", !.found = TRUE]
  <2>1. th' = [th EXCEPT ![t] = r]
    BY <1>6 DEF InsertKey, Shape
  <2>2. r.pc = "leaveDynamic" /\ r.key = th[t].key
    BY <1>0 DEF IsThread, ThreadOf
  <2> HIDE DEF r
  <2> QED
    BY <1>6, <2>1, <2>2, RecordEffect DEF Insertions
<1>7. CASE LeaveDynamic(t) \/ ReadyToMerge(t)
  <2>1. th[t].pc \in {"leaveDynamic", "readyMerge"}
    BY <1>7 DEF LeaveDynamic, ReadyToMerge, At
  <2>2. PICK pc \in {"inserted", "startOver", "readyMerge"} : Goto(t, pc)
    BY <1>7 DEF LeaveDynamic, ReadyToMerge, Left
  <2>3. Others(t) /\ th'[t].pc = pc /\ th'[t].found = th[t].found /\ th'[t].key = th[t].key
    BY <2>2, GotoEffect DEF Locals
  <2> QED
    BY <2>1, <2>2, <2>3 DEF Insertions, Inserted
<1> QED
  BY <1>1, <1>2, <1>3, <1>4, <1>5, <1>6, <1>7 DEF Insert, InsertOutside

LEMMA StepInsertions ==
  ASSUME VInv, Shape, NEW t \in Threads, Begin(t) \/ Step(t)
  PROVE  Insertions(t)
<1>1. CASE GiveUp(t)
  <2>1. Goto(t, AfterSpin[th[t].pc]) /\ th[t].pc \in DOMAIN AfterSpin
    BY <1>1, WorkloadAssumption DEF GiveUp
  <2>2. AfterSpin[th[t].pc] \in {"toMerging", "announce", "updateAll", "dropMerging"}
    BY <2>1 DEF AfterSpin
  <2> QED
    BY <2>1, <2>2, GotoInsertions
<1> QED
  BY <1>1, BeginElsewhere, AssignedToMergeElsewhere, UpdateVersionElsewhere,
     ElsewhereInsertions, FindInsertions, InsertInsertions DEF Step

\* Only Collect and CopyStatic are between the walk and the copy.
LEMMA AtCollect ==
  ASSUME NEW t \in Threads, th[t].pc = "collect", Begin(t) \/ Step(t)
  PROVE  Collect(t)
<1>1. ~Begin(t) /\ ~GiveUp(t)
  BY WorkloadAssumption DEF Begin, GiveUp, AfterSpin, At
<1>2. ~AssignedToMerge(t)
  BY DEF AssignedToMerge, LoadBackupToAssist, LoadTask, TakeTaskOrLoseIt, MergeSubData,
         CountStored, FinishMerge, CheckFinished, CloseMerge, AnnounceVersion, At
<1>3. ~UpdateVersion(t)
  BY DEF UpdateVersion, LoadBackupToUpdate, CheckVersion, OpenLatestFile, CountUpdated,
         CheckCount, SwapStatic, ClearBackup, DeleteFile, AwaitReadyToNormal, DropMerging,
         ToNormal, At
<1>4. ~Find(t)
  BY DEF Find, FindMode, FindDynamic, MissMode, LoadMerging, MergedReady, MergedPointer,
         FindMerging, DiskMode, MergedBackup, ReloadBackup, FindStatic, FindBackup,
         ReturnFind, NotReadyToNormal, EnterMerging, LeaveMerging, ReadyToNormal, At
<1>5. Insert(t) => Collect(t)
  BY DEF Insert, InsertMode, AwaitPrepared, AwaitMerged, AwaitSwapped,
         UpdateAllVersion, AwaitReadyToMerge, LoadDynamic, RecheckMode, InsertKey,
         StartOver, ReturnInsert, Prepare, ToMerging, Announce, EnterDynamic,
         LeaveDynamic, ReadyToMerge, Merge, SetMerging, NewDynamic, CopyStatic,
         PublishBackup, PartitionData, Offer, ResetVersionCount, At
<1> QED
  BY <1>1, <1>2, <1>3, <1>4, <1>5 DEF Step

-----------------------------------------------------------------------------
\* What the merge keeps of the keys, when no insert comes too late for it.
LEMMA SameLength ==
  ASSUME NEW S, NEW s \in Seq(S), NEW r \in Seq(S), DOMAIN s = DOMAIN r
  PROVE  Len(s) = Len(r)
<1>1. Len(s) \in Nat /\ Len(r) \in Nat /\ 1 .. Len(s) = 1 .. Len(r)
  BY LenProperties
<1>2. Len(s) = 0 \/ Len(s) \in 1 .. Len(r)
  BY <1>1
<1>3. Len(r) = 0 \/ Len(r) \in 1 .. Len(s)
  BY <1>1
<1> QED
  BY <1>1, <1>2, <1>3

\* Only CopyStatic makes a static index.
LEMMA SameRound ==
  ASSUME VInv, VInv', NEW t \in Threads, Begin(t) \/ Step(t)
  PROVE  CopyStatic(t) \/ Round' = Round
<1> SUFFICES ASSUME ~CopyStatic(t) PROVE Round' = Round
  OBVIOUS
<1>1. sta' = sta \/ \E o : ChangeB(t, o)
  <2>1. Begin(t) \/ GiveUp(t) => sta' = sta
    BY DEF Begin, GiveUp, OnlyThread
  <2>2. AssignedToMerge(t) => sta' = sta \/ \E o : ChangeB(t, o)
    BY DEF AssignedToMerge, LoadBackupToAssist, LoadTask, TakeTaskOrLoseIt, MergeSubData,
           CountStored, FinishMerge, CheckFinished, CloseMerge, AnnounceVersion,
           OnlyThread, OnlyHybrid
  <2>3. UpdateVersion(t) => sta' = sta \/ \E o : ChangeB(t, o)
    BY DEF UpdateVersion, LoadBackupToUpdate, CheckVersion, OpenLatestFile, CountUpdated,
           CheckCount, SwapStatic, ClearBackup, DeleteFile, AwaitReadyToNormal,
           DropMerging, ToNormal, OnlyThread, OnlyHybrid
  <2>4. Find(t) => sta' = sta
    BY DEF Find, FindMode, FindDynamic, MissMode, LoadMerging, MergedReady, MergedPointer,
           FindMerging, DiskMode, MergedBackup, ReloadBackup, FindStatic, FindBackup,
           ReturnFind, NotReadyToNormal, EnterMerging, LeaveMerging, ReadyToNormal,
           OnlyThread, OnlyHybrid
  <2>5. Merge(t) => sta' = sta \/ \E o : ChangeB(t, o)
    BY DEF Merge, SetMerging, NewDynamic, Collect, PublishBackup, PartitionData, Offer,
           ResetVersionCount, OnlyHybrid
  <2>6. Insert(t) => sta' = sta \/ \E o : ChangeB(t, o)
    BY <2>5 DEF Insert, InsertMode, AwaitPrepared, AwaitMerged, AwaitSwapped,
           UpdateAllVersion, AwaitReadyToMerge, LoadDynamic, RecheckMode, InsertKey,
           StartOver, ReturnInsert, Prepare, ToMerging, Announce, EnterDynamic,
           LeaveDynamic, ReadyToMerge, OnlyThread, OnlyHybrid
  <2> QED
    BY <2>1, <2>2, <2>3, <2>4, <2>6 DEF Step
<1>2. DOMAIN sta' = DOMAIN sta
  BY <1>1 DEF ChangeB
<1>3. sta \in Seq(Object) /\ sta' \in Seq(Object')
  BY DEF VInv, TypesOK
<1>4. Object' = Object
  BY DEF Object
<1> QED
  BY <1>2, <1>3, <1>4, SameLength DEF Round

\* No dynamic index loses a key, and one that is no longer in use keeps its keys.
LEMMA DynGrows ==
  ASSUME VInv, Shape, NoLateInsert, NEW t \in Threads, Begin(t) \/ Step(t)
  PROVE  /\ \A i \in 1 .. Len(dyn) : dyn[i] \subseteq dyn'[i]
         /\ \A i \in 1 .. Len(dyn) : i # hy.dynamic => dyn'[i] = dyn[i]
         /\ NewDynamic(t) \/ Len(dyn') = Len(dyn)
         /\ InsertKey(t) => th[t].key \in dyn'[hy.dynamic] /\ hy' = hy
<1>1. dyn \in Seq(SUBSET Keys) /\ Len(dyn) \in Nat
  BY Basics DEF VInv, TypesOK
<1>2. CASE NewDynamic(t)
  <2>1. dyn' = Append(dyn, {}) /\ th[t].pc = "newDynamic"
    BY <1>2 DEF NewDynamic, At
  <2>2. \A i \in 1 .. Len(dyn) : dyn'[i] = dyn[i]
    BY <1>1, <2>1, AppendProperties
  <2>3. ~InsertKey(t)
    BY <2>1 DEF InsertKey, At
  <2> QED
    BY <1>2, <2>2, <2>3
<1>3. CASE InsertKey(t)
  <2> DEFINE j == th[t].dy
             e == dyn[j] \cup {th[t].key}
  <2>1. th[t].pc = "insertKey" /\ hy' = hy /\ dyn' = [dyn EXCEPT ![j] = e]
    BY <1>3 DEF InsertKey, At
  <2>2. j = hy.dynamic /\ th[t].key \in Keys /\ j \in 1 .. Len(dyn)
    BY <2>1 DEF NoLateInsert, At, VInv, FieldsOK
  <2>3. e \in SUBSET Keys /\ dyn[j] \subseteq e /\ th[t].key \in e
    BY <1>1, <2>2, ElementOfSeq
  <2> HIDE DEF j, e
  <2>4. /\ Len(dyn') = Len(dyn)
        /\ \A i \in 1 .. Len(dyn) : dyn'[i] = IF i = j THEN e ELSE dyn[i]
    BY <1>1, <2>1, <2>2, <2>3, ExceptSeq
  <2> QED
    BY <2>1, <2>2, <2>3, <2>4
<1>4. CASE dyn' = dyn /\ ~InsertKey(t)
  BY <1>4
<1>5. NewDynamic(t) \/ InsertKey(t) \/ dyn' = dyn
  BY StepDisk DEF Shape, Memory
<1> QED
  BY <1>2, <1>3, <1>4, <1>5

\* What can be found stays so: a key leaves the merging index when the file that
\* finds are sent to has it.
LEMMA KeptGrows ==
  ASSUME VInv, VInv', Shape, LInv, NoLateInsert, NEW t \in Threads, Begin(t) \/ Step(t)
  PROVE  Kept \subseteq Kept'
<1>0. [Next]_vars
  BY DEF Next
<1>1. OnDiskNow \subseteq OnDiskNow'
  BY <1>0, DiskGrows
<1>2. /\ \A i \in 1 .. Len(dyn) : dyn[i] \subseteq dyn'[i]
      /\ Memory(t)
  BY DynGrows, StepDisk DEF Shape
<1>3. /\ hy.dynamic = Len(dyn) /\ hy.dynamic \in 1 .. Len(dyn)
      /\ hy.merging \in {NULL} \cup 1 .. Len(dyn)
  BY Basics DEF VInv, Pointers
<1>4. ASSUME NEW k \in OnDiskNow PROVE k \in Kept'
  BY <1>1, <1>4 DEF Kept
<1>5. ASSUME NEW k \in dyn[hy.dynamic] PROVE k \in Kept'
  <2>1. k \in dyn'[hy.dynamic]
    BY <1>2, <1>3, <1>5
  <2>2. CASE hy'.dynamic = hy.dynamic
    BY <2>1, <2>2 DEF Kept, InMemory
  <2>3. CASE NewDynamic(t)
    <3>1. th[t].pc = "newDynamic" /\ hy'.merging = hy.merging
      BY <2>3 DEF NewDynamic, Set, At, Shape, HyShape
    <3>2. Len(dyn) = Round /\ hy.merging = Round
      BY <3>1 DEF VInv, PlacesOK, OpeningOK
    <3>3. hy'.merging = hy.dynamic /\ hy'.merging # NULL
      BY <1>3, <3>1, <3>2, Basics DEF NULL
    <3> QED
      BY <2>1, <3>3 DEF Kept, InMemory
  <2> QED
    BY <1>2, <2>2, <2>3 DEF Memory
<1>6. ASSUME hy.merging # NULL, NEW k \in dyn[hy.merging] PROVE k \in Kept'
  <2>1. k \in dyn'[hy.merging]
    BY <1>2, <1>3, <1>6
  <2>2. CASE hy'.merging = hy.merging
    BY <1>6, <2>1, <2>2 DEF Kept, InMemory
  <2>3. CASE SetMerging(t)
    <3>1. hy'.merging = hy.merging
      BY <1>6, <2>3 DEF SetMerging
    <3> QED
      BY <2>2, <3>1
  <2>4. CASE DropMerging(t)
    <3>1. th[t].pc = "dropMerging"
      BY <2>4 DEF DropMerging, At
    <3>2. hy.static = Round /\ hy.mode = "Merged"
      BY <3>1 DEF VInv, PlacesOK, MovingOK, Winning
    <3>3. k \in OnDiskNow
      BY <1>6, <3>2 DEF LInv
    <3> QED
      BY <1>4, <3>3
  <2> QED
    BY <1>2, <2>2, <2>3, <2>4 DEF Memory
<1> QED
  BY <1>4, <1>5, <1>6 DEF Kept, InMemory

LEMMA InitLInv == Init => LInv
<1> SUFFICES ASSUME Init PROVE LInv
  OBVIOUS
<1>1. /\ sta = <<Built>> /\ Round = 1 /\ sta[1] = Built /\ hy.static = 1 /\ hy.mode = "Normal"
      /\ returned = Sampled /\ dyn[hy.dynamic] = Sampled
      /\ files[1] = [p \in Partitions |-> {k \in Stored0 : PartitionOf[k] = p}]
  BY DEF Init, Round
<1>2. \A t \in Threads : th[t].pc = "idle"
  BY DEF Init, Idle
<1>3. OnDiskNow = UNION {files[1][p] : p \in Partitions}
  BY <1>1 DEF OnDiskNow, Built
<1>4. Stored0 \subseteq OnDiskNow
  <2>1. SUFFICES ASSUME NEW k \in Stored0 PROVE k \in OnDiskNow
    OBVIOUS
  <2>2. PartitionOf[k] \in Partitions
    BY WorkloadAssumption
  <2>3. k \in files[1][PartitionOf[k]]
    BY <1>1, <2>2
  <2> QED
    BY <1>3, <2>2, <2>3
<1>5. \A t \in Threads : ~Inserted(t) /\ th[t].pc # "copyStatic"
  BY <1>2 DEF Inserted
<1> HIDE DEF Round
<1> QED
  BY <1>1, <1>4, <1>5 DEF LInv, Kept, InMemory

LEMMA StepKeepsLInv ==
  ASSUME VInv, VInv', Shape, LInv, NoLateInsert, NEW t \in Threads, Begin(t) \/ Step(t)
  PROVE  LInv'
<1>0. /\ Round \in Nat /\ Round >= 1 /\ Len(dyn) \in Nat
      /\ hy.dynamic = Len(dyn) /\ Len(dyn) \in {Round, Round + 1}
      /\ hy.static \in {Round - 1, Round} /\ hy.static >= 1
      /\ hy.merging \in {NULL} \cup 1 .. Len(dyn)
  BY Basics DEF VInv, Pointers
<1>1. Kept \subseteq Kept' /\ OnDiskNow \subseteq OnDiskNow'
  BY KeptGrows, DiskGrows DEF Next
<1>2. /\ \A i \in 1 .. Len(dyn) : i # hy.dynamic => dyn'[i] = dyn[i]
      /\ NewDynamic(t) \/ Len(dyn') = Len(dyn)
      /\ InsertKey(t) => th[t].key \in dyn'[hy.dynamic] /\ hy' = hy
  BY DynGrows
<1>3. Disk(t) /\ Memory(t) /\ Insertions(t) /\ (CopyStatic(t) \/ Round' = Round)
  BY StepDisk, StepInsertions, SameRound DEF Shape
<1>4. OpeningOK(t)
  BY DEF VInv, PlacesOK
<1>5. (returned \cup Stored0 \subseteq Kept)'
  <2>1. CASE ReturnInsert(t)
    <3>1. th[t].pc = "inserted" /\ returned' = returned \cup {th[t].key}
      BY <2>1 DEF ReturnInsert, At
    <3>2. Inserted(t)
      BY <3>1 DEF Inserted, VInv, FieldsOK
    <3> QED
      BY <1>1, <3>1, <3>2 DEF LInv
  <2>2. CASE returned' = returned
    BY <1>1, <2>2 DEF LInv
  <2> QED
    BY <1>3, <2>1, <2>2 DEF Memory
<1>6. (\A u \in Threads : Inserted(u) => th[u].key \in Kept)'
  <2>1. SUFFICES ASSUME NEW u \in Threads, Inserted(u)' PROVE th'[u].key \in Kept'
    OBVIOUS
  <2>2. CASE Inserted(u) /\ th'[u].key = th[u].key
    BY <1>1, <2>2 DEF LInv
  <2>3. CASE u = t /\ InsertKey(t) /\ th'[t].key = th[t].key
    BY <1>2, <2>3 DEF Kept, InMemory
  <2>4. u # t => Inserted(u) /\ th'[u].key = th[u].key
    BY <1>3, <2>1 DEF Insertions, Others, Inserted
  <2> QED
    BY <1>3, <2>1, <2>2, <2>3, <2>4 DEF Insertions
<1>7. (\A u \in Threads : th[u].pc = "copyStatic" => tmp = dyn[Round])'
  <2>1. SUFFICES ASSUME NEW u \in Threads, th'[u].pc = "copyStatic"
                 PROVE  tmp' = dyn'[Round']
    OBVIOUS
  <2>2. CASE u = t
    <3>1. th[t].pc = "collect"
      BY <1>3, <2>1, <2>2 DEF Insertions
    <3>2. tmp' = dyn[hy.merging] /\ dyn' = dyn /\ sta' = sta
      BY <3>1, AtCollect DEF Collect
    <3>3. hy.merging = Round
      BY <1>4, <3>1 DEF OpeningOK
    <3> QED
      BY <3>2, <3>3 DEF Round
  <2>3. CASE u # t
    <3>1. th[u].pc = "copyStatic"
      BY <1>3, <2>1, <2>3 DEF Insertions, Others
    <3>2. tmp = dyn[Round] /\ OpeningOK(u)
      BY <3>1 DEF LInv, VInv, PlacesOK
    <3>3. Len(dyn) = Round + 1
      BY <3>1, <3>2 DEF OpeningOK
    <3>4. th[t].pc \notin Preparing
      BY <2>3, <3>1 DEF VInv, OneOfEach, Preparing, Opening
    <3>5. ~Collect(t) /\ ~CopyStatic(t)
      BY <3>4 DEF Collect, CopyStatic, At, Preparing, Opening
    <3>6. tmp' = tmp /\ Round' = Round
      BY <1>3, <3>5 DEF Memory
    <3>7. dyn'[Round] = dyn[Round]
      BY <1>0, <1>2, <3>3
    <3> QED
      BY <3>2, <3>6, <3>7
  <2> QED
    BY <2>2, <2>3
<1>8. (hy.static # Round => Len(dyn) = Round /\ tmp = dyn[Round - 1])'
  <2>1. SUFFICES ASSUME hy'.static # Round'
                 PROVE  Len(dyn') = Round' /\ tmp' = dyn'[Round' - 1]
    OBVIOUS
  <2>2. CASE CopyStatic(t)
    <3>1. /\ th[t].pc = "copyStatic" /\ dyn' = dyn /\ tmp' = tmp
          /\ sta' = Append(sta, CopyOf(sta[hy.static]))
      BY <2>2 DEF CopyStatic, OnlyStatic, At
    <3>2. tmp = dyn[Round] /\ Len(dyn) = Round + 1
      BY <1>4, <3>1 DEF LInv, OpeningOK
    <3>3. hy.static \in 1 .. Round
      BY <1>0
    <3>4. CopyOf(sta[hy.static]) \in Object
      BY <3>3, Basics, CopyOfObject
    <3>5. Round' = Round + 1
      BY <3>1, <3>4, AppendProperties DEF Round, VInv, TypesOK
    <3> QED
      BY <1>0, <3>1, <3>2, <3>5
  <2>3. CASE ~CopyStatic(t)
    <3>1. Round' = Round
      BY <1>3, <2>3
    <3>2. hy.static # Round /\ hy'.static = hy.static
      <4>1. ASSUME SwapStatic(t) PROVE FALSE
        <5>1. th[t].pc = "swapStatic" /\ hy'.static = th[t].b
          BY <4>1 DEF SwapStatic, At, Set, Shape, HyShape
        <5>2. th[t].b = Round
          BY <5>1 DEF VInv, PlacesOK, WorkingOK, UseB, MovePlaces
        <5> QED
          BY <2>1, <3>1, <5>1, <5>2
      <4> QED
        BY <1>3, <2>1, <3>1, <4>1 DEF Disk
    <3>3. Len(dyn) = Round /\ tmp = dyn[Round - 1]
      BY <3>2 DEF LInv
    <3>4. ~NewDynamic(t) /\ ~Collect(t)
      BY <1>4, <3>2 DEF OpeningOK, NewDynamic, Collect, At
    <3>5. dyn'[Round - 1] = dyn[Round - 1]
      BY <1>0, <1>2, <3>2, <3>3
    <3> QED
      BY <1>2, <1>3, <3>1, <3>3, <3>4, <3>5 DEF Memory
  <2> QED
    BY <2>2, <2>3
<1>9. (hy.mode = "Merged" /\ hy.static = Round /\ hy.merging # NULL =>
         /\ hy.merging = Round - 1 /\ tmp = dyn[Round - 1]
         /\ dyn[Round - 1] \subseteq OnDiskNow)'
  <2>1. SUFFICES ASSUME hy'.mode = "Merged", hy'.static = Round', hy'.merging # NULL
                 PROVE  /\ hy'.merging = Round' - 1 /\ tmp' = dyn'[Round' - 1]
                        /\ dyn'[Round' - 1] \subseteq OnDiskNow'
    OBVIOUS
  <2>2. CASE hy.mode = "Merged"
    <3>1. th[t].pc \notin Opening
      BY <2>2 DEF VInv, ModeOK
    <3>2. ~CopyStatic(t) /\ ~SetMerging(t) /\ tmp' = tmp
      BY <1>3, <3>1 DEF CopyStatic, SetMerging, Collect, At, Opening, Memory
    <3>3. Round' = Round
      BY <1>3, <3>2
    <3>4. hy'.merging = hy.merging
      <4>1. DropMerging(t) => hy'.merging = NULL
        BY DEF DropMerging, Set, Shape, HyShape
      <4> QED
        BY <1>3, <2>1, <3>2, <4>1 DEF Memory
    <3>5. hy.merging = Round - 1 /\ Round - 1 \in 1 .. Len(dyn) /\ Len(dyn) = Round
      <4>1. hy.merging = Round - 1
        BY <2>1, <2>2, <3>4 DEF LInv, VInv, ModeOK
      <4>2. Len(dyn) = Round
        BY <2>2 DEF VInv, ModeOK
      <4> QED
        BY <1>0, <2>1, <3>4, <4>1, <4>2
    <3>6. dyn'[Round - 1] = dyn[Round - 1]
      BY <1>0, <1>2, <3>5
    <3>7. CASE hy.static = Round
      BY <1>1, <2>1, <2>2, <3>2, <3>3, <3>4, <3>5, <3>6, <3>7 DEF LInv
    <3>8. CASE hy.static # Round
      <4>1. SwapStatic(t)
        BY <1>3, <2>1, <3>3, <3>8 DEF Disk
      <4>2. th[t].pc = "swapStatic" /\ files' = files
        BY <4>1 DEF SwapStatic, OnlyHybrid, At
      <4>3. Round >= 2 /\ New.updated
        BY <4>2 DEF VInv, PlacesOK, WorkingOK, MovingOK, UseB, MovePlaces
      <4>4. tmp = dyn[Round - 1] /\ tmp \subseteq Keys
        BY <3>8 DEF LInv, VInv, TypesOK
      <4>5. sta'[hy'.static].latest = Round
        BY <2>1, <3>3 DEF VInv, StaticOK, IsSettled
      <4>6. ASSUME NEW k \in dyn[Round - 1] PROVE k \in OnDiskNow'
        <5> DEFINE p == PartitionOf[k]
        <5>1. p \in Partitions
          BY <4>4, <4>6, WorkloadAssumption
        <5>2. IsComplete(p)
          BY <3>8, <4>3, <5>1, UpdatedObject, StoredLayout
        <5>3. k \in files[Round][p]
          BY <4>4, <4>6, <5>2 DEF IsComplete
        <5> HIDE DEF p
        <5> QED
          BY <4>2, <4>5, <5>1, <5>3 DEF OnDiskNow
      <4> QED
        BY <3>2, <3>3, <3>4, <3>5, <3>6, <4>4, <4>6
    <3> QED
      BY <3>7, <3>8
  <2>3. CASE hy.mode # "Merged"
    <3>1. CloseMerge(t)
      BY <1>3, <2>1, <2>3 DEF Memory
    <3>2. /\ th[t].pc = "closeMerge" /\ sta' = sta /\ hy.mode = "Merging"
          /\ hy'.static = hy.static
      BY <2>1, <2>3, <3>1 DEF CloseMerge, At, OnlyHybrid, Set, Shape, HyShape
    <3>3. \A u \in Threads : th[u].pc \notin Opening
      BY <3>2, BusyNoOpening DEF BusyWithMerge, TaskPlaces
    <3>4. hy.static = Round - 1
      BY <3>2, <3>3 DEF VInv, ModeOK
    <3> QED
      BY <1>0, <2>1, <3>2, <3>4 DEF Round
  <2> QED
    BY <2>2, <2>3
<1> QED
  BY <1>5, <1>6, <1>7, <1>8, <1>9 DEF LInv

LEMMA AlwaysLInv ==
  Spec /\ []NoneLeftOver /\ []OneMover /\ []NoLateInsert => []LInv
<1>1. VInv /\ VInv' /\ IInv /\ LInv /\ NoLateInsert /\ [Next]_vars => LInv'
  <2>1. SUFFICES ASSUME VInv, VInv', Shape, LInv, NoLateInsert, [Next]_vars PROVE LInv'
    BY DEF IInv
  <2>2. CASE UNCHANGED vars
    <3>1. /\ OnDiskNow' = OnDiskNow /\ InMemory' = InMemory /\ Round' = Round
          /\ \A t \in Threads : Inserted(t)' <=> Inserted(t)
      BY <2>2 DEF vars, OnDiskNow, InMemory, Round, Inserted
    <3> QED
      BY <2>1, <2>2, <3>1 DEF vars, LInv, Kept
  <2> QED
    BY <2>1, <2>2, StepKeepsLInv DEF Next
<1> QED
  BY <1>1, InitLInv, AlwaysVInv, AlwaysIInv, PTL DEF Spec

\* A key that Build stored, or whose insert has returned, can be found at every
\* moment and through any number of merges, in the dynamic index, in the merging
\* index or in the current file: MergeData leaves no record behind, and the merging
\* index is dropped only after its records are on disk.  An insert that goes to an
\* index already collected is the one way to lose a key.
THEOREM NoKeyIsLost ==
  Spec /\ []NoneLeftOver /\ []OneMover /\ []NoLateInsert => []NothingLost
<1>1. LInv => NothingLost
  BY DEF LInv, NothingLost, Kept
<1> QED
  BY <1>1, AlwaysLInv, PTL

LEMMA CollectedFollows == VInv /\ Shape /\ LInv => CollectedIsWhole
<1> SUFFICES ASSUME VInv, Shape, LInv, hy.backup # NULL, hy.merging # NULL
             PROVE  tmp = dyn[hy.merging]
  BY DEF CollectedIsWhole
<1>1. hy.mode \in Modes /\ \A t \in Threads : th[t].pc \notin Opening
  BY DEF Shape, HyShape, VInv, PlacesOK, OpeningOK
<1>2. CASE hy.mode = "Merging"
  BY <1>1, <1>2, Basics DEF VInv, ModeOK, LInv
<1>3. CASE hy.mode = "Merged"
  BY <1>1, <1>3, Basics DEF VInv, ModeOK, LInv
<1>4. CASE hy.mode \in {"Normal", "Prepare"}
  BY <1>4 DEF VInv, ModeOK
<1> QED
  BY <1>1, <1>2, <1>3, <1>4 DEF Modes

\* What MergeData collected in its walk over the merging index is all of that index
\* until the merge is over, whatever was inserted meanwhile.
THEOREM CollectionIsWhole ==
  Spec /\ []NoneLeftOver /\ []OneMover /\ []NoLateInsert => []CollectedIsWhole
BY CollectedFollows, AlwaysLInv, AlwaysVInv, AlwaysIInv, PTL DEF IInv

-----------------------------------------------------------------------------
\* A find looks at the backup only when its version has been announced.
NoEarlySearch ==
  \A t \in Threads : At(t, "mergedBackup") => \A u \in Threads : ~At(u, "announceVersion")

\* Where a key is that the dynamic index did not have, and where it is once the
\* merging index is skipped, or did not have it.
Below(k) == k \in OnDiskNow \/ (hy.merging # NULL /\ k \in dyn[hy.merging])
Reached(k) ==
  \/ k \in OnDiskNow
  \/ hy.mode = "Merged" /\ hy.static # Round /\ k \in files[Round][PartitionOf[k]]

\* The places of a find after the dynamic index.
SearchPlaces ==
  {"missMode", "loadMerging", "mergedReady", "notReadyNormal", "enterMerging",
   "mergedPointer", "findMerging", "leaveMerging", "readyNormal", "diskMode",
   "mergedBackup", "reloadBackup", "findStatic", "findBackup", "found"}

\* A find that moves to a new version before it searches it.
MovesToFind(t) ==
  th[t].pc \in MovePlaces \cup {"update"} /\ th[t].ret = "reloadBackup"
Searching(t) == th[t].pc \in SearchPlaces \/ MovesToFind(t)

\* Where a find has the merging index before it, and where only the disk.
MergingAwaits == {"notReadyNormal", "enterMerging", "findMerging"}
DiskAwaits == {"mergedReady", "mergedPointer", "diskMode", "mergedBackup", "reloadBackup"}

\* What a find that must succeed can count on, wherever it is.
Owed(t) ==
  LET k == th[t].key
  IN  /\ th[t].pc # "idle" /\ k \in returned \cup Stored0
      /\ th[t].pc \in {"missMode", "loadMerging"} => Below(k)
      /\ th[t].pc \in DiskAwaits => Reached(k)
      /\ MovesToFind(t) => Reached(k)
      /\ th[t].pc \in MergingAwaits =>
           Reached(k) \/ (th[t].mg # NULL /\ k \in dyn[th[t].mg])
      /\ th[t].pc \in {"leaveMerging", "readyNormal"} => th[t].found \/ Reached(k)
      /\ th[t].pc = "findStatic" => k \in OnDiskNow
      /\ th[t].pc = "findBackup" => k \in files[Round][PartitionOf[k]]
      /\ th[t].pc = "found" => th[t].found

InPlace == \A p \in Partitions : \A k \in files[hy.static][p] : PartitionOf[k] = p

SInv ==
  /\ InPlace
  /\ \A t \in Threads : th[t].mg \in {NULL} \cup 1 .. Len(dyn)
  /\ \A t \in Threads : th[t].must => Owed(t)

-----------------------------------------------------------------------------
LEMMA KeyOnDisk ==
  ASSUME VInv, InPlace, NEW k, k \in OnDiskNow
  PROVE  k \in files[hy.static][PartitionOf[k]] /\ PartitionOf[k] \in Partitions
<1>1. sta[hy.static].latest = hy.static
  BY DEF VInv, StaticOK, IsSettled
<1>2. PICK p \in Partitions : k \in files[hy.static][p]
  BY <1>1 DEF OnDiskNow
<1> QED
  BY <1>2 DEF InPlace

\* In merged mode what the merging index has is on disk too.
LEMMA MergedReaches ==
  ASSUME VInv, LInv, hy.mode = "Merged", NEW k \in Keys, Below(k)
  PROVE  Reached(k)
<1>1. CASE k \in OnDiskNow
  BY <1>1 DEF Reached
<1>2. CASE hy.merging # NULL /\ k \in dyn[hy.merging] /\ hy.static = Round
  <2>1. k \in OnDiskNow
    BY <1>2 DEF LInv
  <2> QED
    BY <2>1 DEF Reached
<1>3. CASE hy.merging # NULL /\ k \in dyn[hy.merging] /\ hy.static # Round
  <2>1. hy.merging = Round - 1 /\ tmp = dyn[Round - 1]
    BY <1>3 DEF VInv, ModeOK, LInv
  <2>2. PartitionOf[k] \in Partitions
    BY WorkloadAssumption
  <2>3. IsComplete(PartitionOf[k])
    BY <1>3, <2>2, MergedStored, StoredLayout
  <2>4. k \in files[Round][PartitionOf[k]]
    BY <1>3, <2>1, <2>3 DEF IsComplete
  <2> QED
    BY <1>3, <2>4 DEF Reached
<1> QED
  BY <1>1, <1>2, <1>3 DEF Below

\* A key on disk is in the file of the version that was announced last.
LEMMA ReachedInBackup ==
  ASSUME VInv, InPlace, Round >= 2, New.updated, NEW k \in Keys, Reached(k)
  PROVE  k \in files[Round][PartitionOf[k]]
<1>1. CASE ~(k \in OnDiskNow)
  BY <1>1 DEF Reached
<1>2. CASE k \in OnDiskNow
  <2>1. k \in files[hy.static][PartitionOf[k]] /\ PartitionOf[k] \in Partitions
    BY <1>2, KeyOnDisk
  <2>2. CASE hy.static = Round
    BY <2>1, <2>2
  <2>3. CASE hy.static # Round
    <3>1. IsComplete(PartitionOf[k])
      BY <2>1, <2>3, UpdatedObject, StoredLayout
    <3>2. hy.static = Round - 1
      BY <2>3 DEF VInv, Pointers
    <3> QED
      BY <2>1, <3>1, <3>2 DEF IsComplete
  <2> QED
    BY <2>2, <2>3
<1> QED
  BY <1>1, <1>2

\* Only ToNormal ends the merged mode.
LEMMA LeavesMerged ==
  ASSUME HyShape, NEW t \in Threads, Begin(t) \/ Step(t), hy.mode = "Merged"
  PROVE  ToNormal(t) \/ hy'.mode = "Merged"
<1>1. Begin(t) \/ GiveUp(t) => hy' = hy
  BY DEF Begin, GiveUp, OnlyThread
<1>2. AssignedToMerge(t) => hy' = hy
  BY DEF AssignedToMerge, LoadBackupToAssist, LoadTask, TakeTaskOrLoseIt, MergeSubData,
         CountStored, FinishMerge, CheckFinished, CloseMerge, AnnounceVersion,
         OnlyThread, OnlyStatic
<1>3. UpdateVersion(t) => ToNormal(t) \/ hy'.mode = hy.mode
  <2>1. UpdateVersion(t) => \/ hy' = hy \/ SwapStatic(t) \/ ClearBackup(t)
                            \/ DropMerging(t) \/ ToNormal(t)
    BY DEF UpdateVersion, LoadBackupToUpdate, CheckVersion, OpenLatestFile, CountUpdated,
           CheckCount, DeleteFile, AwaitReadyToNormal, OnlyThread, OnlyStatic
  <2>2. SwapStatic(t) \/ ClearBackup(t) \/ DropMerging(t) => hy'.mode = hy.mode
    BY DEF SwapStatic, ClearBackup, DropMerging, Set, HyShape
  <2> QED
    BY <2>1, <2>2
<1>4. Find(t) => hy'.mode = hy.mode
  <2>1. Find(t) => hy' = hy \/ NotReadyToNormal(t) \/ EnterMerging(t) \/ LeaveMerging(t)
                   \/ ReadyToNormal(t)
    BY DEF Find, FindMode, FindDynamic, MissMode, LoadMerging, MergedReady, MergedPointer,
           FindMerging, DiskMode, MergedBackup, ReloadBackup, FindStatic, FindBackup,
           ReturnFind, OnlyThread
  <2>2. NotReadyToNormal(t) \/ EnterMerging(t) \/ LeaveMerging(t) \/ ReadyToNormal(t) =>
          hy'.mode = hy.mode
    BY DEF NotReadyToNormal, EnterMerging, LeaveMerging, ReadyToNormal, Set, HyShape
  <2> QED
    BY <2>1, <2>2
<1>5. Insert(t) => hy'.mode = hy.mode
  <2>1. Insert(t) => \/ hy' = hy \/ SetMerging(t) \/ NewDynamic(t) \/ PublishBackup(t)
                     \/ Announce(t) \/ EnterDynamic(t) \/ LeaveDynamic(t) \/ ReadyToMerge(t)
    BY DEF Insert, InsertMode, AwaitPrepared, AwaitMerged, AwaitSwapped, UpdateAllVersion,
           Prepare, AwaitReadyToMerge, ToMerging, LoadDynamic, RecheckMode, InsertKey,
           StartOver, ReturnInsert, Merge, Collect, CopyStatic, PartitionData, Offer,
           ResetVersionCount, OnlyThread, OnlyStatic
  <2>2. SetMerging(t) \/ NewDynamic(t) \/ PublishBackup(t) \/ Announce(t) \/ EnterDynamic(t)
        \/ LeaveDynamic(t) \/ ReadyToMerge(t) => hy'.mode = hy.mode
    BY DEF SetMerging, NewDynamic, PublishBackup, Announce, EnterDynamic, LeaveDynamic,
           ReadyToMerge, Set, HyShape
  <2> QED
    BY <2>1, <2>2
<1> QED
  BY <1>1, <1>2, <1>3, <1>4, <1>5 DEF Step

\* What a step keeps of the places of a key.
LEMMA BelowStays ==
  ASSUME VInv, VInv', Shape, LInv, NoLateInsert, NEW t \in Threads, Begin(t) \/ Step(t),
         NEW k, Below(k)
  PROVE  Below(k)'
<1>0. [Next]_vars
  BY DEF Next
<1>1. OnDiskNow \subseteq OnDiskNow'
  BY <1>0, DiskGrows
<1>2. /\ \A i \in 1 .. Len(dyn) : dyn[i] \subseteq dyn'[i]
      /\ Memory(t)
  BY DynGrows, StepDisk DEF Shape
<1>3. CASE k \in OnDiskNow
  BY <1>1, <1>3 DEF Below
<1>4. ASSUME hy.merging # NULL, k \in dyn[hy.merging] PROVE Below(k)'
  <2>1. k \in dyn'[hy.merging]
    BY <1>2, <1>4 DEF VInv, Pointers
  <2>2. CASE hy'.merging = hy.merging
    BY <1>4, <2>1, <2>2 DEF Below
  <2>3. CASE SetMerging(t)
    <3>1. hy'.merging = hy.merging
      BY <1>4, <2>3 DEF SetMerging
    <3> QED
      BY <2>2, <3>1
  <2>4. CASE DropMerging(t)
    <3>1. th[t].pc = "dropMerging"
      BY <2>4 DEF DropMerging, At
    <3>2. hy.static = Round /\ hy.mode = "Merged"
      BY <3>1 DEF VInv, PlacesOK, MovingOK, Winning
    <3>3. k \in OnDiskNow
      BY <1>4, <3>2 DEF LInv
    <3> QED
      BY <1>3, <3>3
  <2> QED
    BY <1>2, <2>2, <2>3, <2>4 DEF Memory
<1> QED
  BY <1>3, <1>4 DEF Below

\* Nobody writes to the file of a version that all have stored.
LEMMA StoredStays ==
  ASSUME VInv, VInv', Shape, NEW t \in Threads, Begin(t) \/ Step(t), AllStored,
         \A u \in Threads : th[u].pc \notin Opening
  PROVE  files' = files /\ Round' = Round
<1>1. ~MergeSubData(t)
  BY DEF MergeSubData, At, AllStored, Holders, Storing
<1>2. ~CopyStatic(t)
  BY DEF CopyStatic, At, Opening
<1> QED
  BY <1>1, <1>2, StepDisk, SameRound DEF Disk, Shape

LEMMA ReachedStays ==
  ASSUME VInv, VInv', Shape, NEW t \in Threads, Begin(t) \/ Step(t), NEW k \in Keys, Reached(k)
  PROVE  Reached(k)'
<1>1. CASE k \in OnDiskNow
  BY <1>1, DiskGrows DEF Next, Reached
<1>2. CASE k \notin OnDiskNow
  <2>1. hy.mode = "Merged" /\ hy.static # Round /\ k \in files[Round][PartitionOf[k]]
    BY <1>2 DEF Reached
  <2>2. files' = files /\ Round' = Round
    BY <2>1, MergedStored, StoredStays
  <2>3. CASE SwapStatic(t)
    <3>1. th[t].pc = "swapStatic" /\ hy'.static = th[t].b
      BY <2>3 DEF SwapStatic, At, Set, Shape, HyShape
    <3>2. hy'.static = Round
      BY <3>1 DEF VInv, PlacesOK, WorkingOK, UseB, MovePlaces
    <3>3. sta'[hy'.static].latest = Round
      BY <2>2, <3>2 DEF VInv, StaticOK, IsSettled
    <3>4. PartitionOf[k] \in Partitions
      BY WorkloadAssumption
    <3>5. k \in OnDiskNow'
      BY <2>1, <2>2, <3>3, <3>4 DEF OnDiskNow
    <3> QED
      BY <3>5 DEF Reached
  <2>4. CASE ~SwapStatic(t)
    <3>1. hy'.static = hy.static
      BY <2>4, StepDisk DEF Disk, Shape
    <3>2. ~ToNormal(t)
      BY <2>1 DEF ToNormal, At, VInv, PlacesOK, MovingOK, Winning
    <3>3. hy'.mode = "Merged"
      BY <2>1, <3>2, LeavesMerged DEF Shape
    <3> QED
      BY <2>1, <2>2, <3>1, <3>3 DEF Reached
  <2> QED
    BY <2>3, <2>4
<1> QED
  BY <1>1, <1>2

\* The keys of the file in use are in the parts of the file they belong to.
LEMMA InPlaceStays ==
  ASSUME VInv, VInv', Shape, InPlace, NEW t \in Threads, Begin(t) \/ Step(t)
  PROVE  InPlace'
<1> SUFFICES ASSUME NEW p \in Partitions, NEW k \in files'[hy'.static][p]
             PROVE  PartitionOf[k] = p
  BY DEF InPlace
<1>1. Round \in Nat /\ hy.static \in {Round - 1, Round} /\ hy.static >= 1
  BY Basics DEF VInv, Pointers
<1>2. Disk(t)
  BY StepDisk DEF Shape
<1>3. CASE MergeSubData(t)
  <2>1. th[t].pc = "store" /\ hy' = hy
    BY <1>3 DEF MergeSubData, At
  <2>2. Round >= 2 /\ New.ver[t] = Round - 1
    BY <2>1 DEF VInv, PlacesOK, WorkingOK, UseB, TaskPlaces
  <2>3. hy.static # Round
    BY <1>1, <2>2 DEF VInv, StaticOK, IsSettled, New
  <2>4. \A i \in 1 .. Round - 1 : files'[i] = files[i]
    BY <1>3, <2>1, StoredFiles
  <2>5. files'[hy'.static] = files[hy.static]
    BY <1>1, <2>1, <2>3, <2>4
  <2> QED
    BY <2>5 DEF InPlace
<1>4. CASE SwapStatic(t)
  <2>1. th[t].pc = "swapStatic" /\ files' = files /\ hy'.static = th[t].b
    BY <1>4 DEF SwapStatic, At, Set, OnlyHybrid, Shape, HyShape
  <2>2. th[t].b = Round /\ Round >= 2 /\ New.updated
    BY <2>1 DEF VInv, PlacesOK, WorkingOK, MovingOK, UseB, MovePlaces
  <2>3. CASE hy.static = Round
    BY <2>1, <2>2, <2>3 DEF InPlace
  <2>4. CASE hy.static # Round
    <3>1. IsComplete(p)
      BY <2>2, <2>4, UpdatedObject, StoredLayout
    <3>2. k \in files[hy.static][p] \/ PartitionOf[k] = p
      BY <1>1, <2>1, <2>2, <2>4, <3>1 DEF IsComplete
    <3> QED
      BY <3>2 DEF InPlace
  <2> QED
    BY <2>3, <2>4
<1>5. CASE files' = files /\ hy'.static = hy.static
  BY <1>5 DEF InPlace
<1> QED
  BY <1>2, <1>3, <1>4, <1>5 DEF Disk

-----------------------------------------------------------------------------
\* The steps of the other threads.
LEMMA OthersOwed ==
  ASSUME VInv, VInv', Shape, LInv, NoLateInsert, NEW t \in Threads, Begin(t) \/ Step(t),
         NEW u \in Threads, th'[u] = th[u], th[u].mg \in {NULL} \cup 1 .. Len(dyn),
         th[u].must, Owed(u)
  PROVE  Owed(u)'
<1>0. PICK k : k = th[u].key
  OBVIOUS
<1>1. k \in Keys
  BY <1>0 DEF VInv, FieldsOK, Owed
<1>2. returned \subseteq returned'
  <2>1. returned' = returned \/ ReturnInsert(t)
    BY StepDisk DEF Memory, Shape
  <2> QED
    BY <2>1 DEF ReturnInsert
<1>3. /\ Below(k) => Below(k)'
      /\ Reached(k) => Reached(k)'
      /\ k \in OnDiskNow => k \in OnDiskNow'
  BY <1>1, BelowStays, ReachedStays, DiskGrows DEF Next
<1>4. th[u].mg # NULL /\ k \in dyn[th[u].mg] => k \in dyn'[th[u].mg]
  BY DynGrows
<1>5. th[u].pc = "findBackup" => files' = files /\ Round' = Round
  <2>1. SUFFICES ASSUME th[u].pc = "findBackup" PROVE files' = files /\ Round' = Round
    OBVIOUS
  <2>2. New.updated /\ Round >= 2
    BY <2>1 DEF VInv, PlacesOK, FindingOK, WorkingOK, UseB
  <2>3. BusyWithMerge(u)
    BY <2>1 DEF BusyWithMerge
  <2> QED
    BY <2>2, <2>3, UpdatedObject, BusyNoOpening, StoredStays
<1>6. MovesToFind(u)' <=> MovesToFind(u)
  BY DEF MovesToFind
<1>7. th'[u].key = k
  BY <1>0
<1>8. (th[u].pc \in {"missMode", "loadMerging"} => Below(th[u].key))'
  BY <1>0, <1>3, <1>7 DEF Owed, Below
<1>9. (/\ th[u].pc \in DiskAwaits =>
            Reached(th[u].key)
       /\ MovesToFind(u) => Reached(th[u].key))'
  BY <1>0, <1>3, <1>6, <1>7 DEF Owed, Reached
<1>10. (th[u].pc \in MergingAwaits =>
          Reached(th[u].key) \/ (th[u].mg # NULL /\ th[u].key \in dyn[th[u].mg]))'
  BY <1>0, <1>3, <1>4, <1>7 DEF Owed, Reached
<1>11. (th[u].pc \in {"leaveMerging", "readyNormal"} => th[u].found \/ Reached(th[u].key))'
  BY <1>0, <1>3, <1>7 DEF Owed, Reached
<1>12. (/\ th[u].pc = "findStatic" => th[u].key \in OnDiskNow
        /\ th[u].pc = "findBackup" => th[u].key \in files[Round][PartitionOf[th[u].key]])'
  BY <1>0, <1>3, <1>5, <1>7 DEF Owed
<1>13. (/\ th[u].pc # "idle" /\ th[u].key \in returned \cup Stored0
        /\ th[u].pc = "found" => th[u].found)'
  BY <1>2 DEF Owed
<1> QED
  BY <1>8, <1>9, <1>10, <1>11, <1>12, <1>13 DEF Owed

\* The thread itself: a step to a place where nothing is owed.
LEMMA ApartOwed ==
  ASSUME NEW t \in Threads, Begin(t) \/ Step(t), Shape,
         th[t].must => Owed(t), SameRequest(t), ~Searching(t)', th'[t].pc # "idle"
  PROVE  th'[t].must => Owed(t)'
<1>1. returned \subseteq returned'
  <2>1. returned' = returned \/ ReturnInsert(t)
    BY StepDisk DEF Memory, Shape
  <2> QED
    BY <2>1 DEF ReturnInsert
<1> QED
  BY <1>1 DEF Owed, SameRequest, Searching, SearchPlaces, MergingAwaits, DiskAwaits

-----------------------------------------------------------------------------
\* What the steps outside Find do to the request.
Apart(t) == /\ Others(t) /\ SameRequest(t) /\ ~Searching(t)' /\ th'[t].pc # "idle"

LEMMA GotoApart ==
  ASSUME Shape, NEW t \in Threads, NEW pc, Goto(t, pc),
         pc \notin SearchPlaces \cup MovePlaces \cup {"update", "idle"}
  PROVE  Apart(t)
BY GotoEffect DEF Apart, Searching, MovesToFind

LEMMA RecordApart ==
  ASSUME Shape, NEW t \in Threads, NEW r, th' = [th EXCEPT ![t] = r],
         r.key = th[t].key, r.must = th[t].must, r.mg = th[t].mg,
         r.pc \notin SearchPlaces \cup MovePlaces \cup {"update", "idle"}
  PROVE  Apart(t)
BY RecordEffect DEF Apart, Searching, MovesToFind, SameRequest

LEMMA CallApart ==
  ASSUME Shape, NEW t \in Threads, NEW pc \in {"assist", "update"}, NEW back, Call(t, pc, back),
         back # "reloadBackup"
  PROVE  Apart(t)
BY CallEffect DEF Apart, Searching, MovesToFind, SearchPlaces, MovePlaces

LEMMA TurnApart ==
  ASSUME Shape, NEW t \in Threads, NEW pc \in {"assist", "update"}, NEW back, NEW ratio,
         Turn(t, pc, back, ratio), back # "reloadBackup"
  PROVE  Apart(t)
BY TurnEffect DEF Apart, Searching, MovesToFind, SearchPlaces, MovePlaces

LEMMA BackApart ==
  ASSUME Shape, NEW t \in Threads, Back(t), th[t].ret # "reloadBackup"
  PROVE  Apart(t)
BY BackEffect DEF Apart, Searching, MovesToFind, SearchPlaces, MovePlaces, Returns

LEMMA TaskApart ==
  ASSUME VInv, Shape, NEW t \in Threads, AssignedToMerge(t)
  PROVE  Apart(t)
<1>0. IsThread(th[t])
  BY ThreadShape
<1>1. th[t].pc \in TaskPlaces \cup {"assist"}
  BY DEF AssignedToMerge, LoadBackupToAssist, LoadTask, TakeTaskOrLoseIt, MergeSubData,
         CountStored, FinishMerge, CheckFinished, CloseMerge, AnnounceVersion, At, TaskPlaces
<1>2. th[t].ret # "reloadBackup"
  BY <1>1 DEF VInv, FieldsOK, OnTheWay, MovePlaces, TaskPlaces
<1>3. th[t].then \in Nexts
  BY <1>0 DEF IsThread, ThreadOf
<1>4. CASE Back(t)
  BY <1>2, <1>4, BackApart
<1>5. ASSUME NEW pc \in TaskPlaces \cup Nexts, Goto(t, pc) PROVE Apart(t)
  <2>1. pc \notin SearchPlaces \cup MovePlaces \cup {"update", "idle"}
    BY DEF TaskPlaces, Nexts, SearchPlaces, MovePlaces
  <2> QED
    BY <1>5, <2>1, GotoApart
<1>6. CASE LoadBackupToAssist(t) /\ ~Back(t)
  <2> DEFINE r == [th[t] EXCEPT !.pc = "loadTask", !.b = hy.backup, !.then = "checkFinished"]
  <2>1. th' = [th EXCEPT ![t] = r]
    BY <1>6 DEF LoadBackupToAssist, Shape
  <2>2. /\ r.key = th[t].key /\ r.must = th[t].must /\ r.mg = th[t].mg
        /\ r.pc = "loadTask"
    BY <1>0 DEF IsThread, ThreadOf
  <2> HIDE DEF r
  <2> QED
    BY <2>1, <2>2, RecordApart DEF SearchPlaces, MovePlaces
<1>7. CASE LoadTask(t)
  <2> DEFINE r == [th[t] EXCEPT !.pc = "takeTask", !.task = B(t).next]
  <2>1. CASE Goto(t, th[t].then)
    BY <1>3, <1>5, <2>1
  <2>2. CASE ~Goto(t, th[t].then)
    <3>1. th' = [th EXCEPT ![t] = r]
      BY <1>7, <2>2 DEF LoadTask, Shape
    <3>2. /\ r.key = th[t].key /\ r.must = th[t].must /\ r.mg = th[t].mg
          /\ r.pc = "takeTask"
      BY <1>0 DEF IsThread, ThreadOf
    <3> HIDE DEF r
    <3> QED
      BY <3>1, <3>2, RecordApart DEF SearchPlaces, MovePlaces
  <2> QED
    BY <2>1, <2>2
<1>8. CASE TakeTaskOrLoseIt(t) \/ MergeSubData(t) \/ CountStored(t) \/ FinishMerge(t)
           \/ CheckFinished(t) \/ CloseMerge(t) \/ AnnounceVersion(t)
  <2>1. Back(t) \/ \E pc \in TaskPlaces \cup Nexts : Goto(t, pc)
    BY <1>3, <1>8 DEF TakeTaskOrLoseIt, MergeSubData, CountStored, FinishMerge, CheckFinished,
         CloseMerge, AnnounceVersion, TaskPlaces
  <2> QED
    BY <1>4, <1>5, <2>1
<1> QED
  BY <1>4, <1>6, <1>7, <1>8 DEF AssignedToMerge

\* A step of UpdateVersion goes on in it, or returns.
OnItsMove(t) ==
  /\ Others(t) /\ SameRequest(t) /\ th'[t].ret = th[t].ret
  /\ th[t].pc \in MovePlaces \cup {"update"}
  /\ th'[t].pc \in MovePlaces \cup {th[t].ret} /\ th[t].ret \in Returns

LEMMA MoveOnItsMove ==
  ASSUME VInv, Shape, NEW t \in Threads, UpdateVersion(t)
  PROVE  OnItsMove(t)
<1>0. IsThread(th[t])
  BY ThreadShape
<1>1. th[t].pc \in MovePlaces \cup {"update"}
  BY DEF UpdateVersion, LoadBackupToUpdate, CheckVersion, OpenLatestFile, CountUpdated,
         CheckCount, SwapStatic, ClearBackup, DeleteFile, AwaitReadyToNormal, DropMerging,
         ToNormal, At, MovePlaces
<1>2. th[t].ret \in Returns
  BY <1>0 DEF IsThread, ThreadOf
<1>3. CASE Back(t)
  BY <1>1, <1>2, <1>3, BackEffect DEF OnItsMove
<1>4. ASSUME NEW pc \in MovePlaces, Goto(t, pc) PROVE OnItsMove(t)
  BY <1>1, <1>2, <1>4, GotoEffect DEF OnItsMove, Locals
<1>5. ASSUME NEW r, th' = [th EXCEPT ![t] = r], r.key = th[t].key, r.must = th[t].must,
             r.mg = th[t].mg, r.pc \in MovePlaces, r.ret = th[t].ret
      PROVE  OnItsMove(t)
  BY <1>1, <1>2, <1>5, RecordEffect DEF OnItsMove, SameRequest
<1>6. CASE LoadBackupToUpdate(t) /\ ~Back(t)
  <2> DEFINE r == [th[t] EXCEPT !.pc = "checkVersion", !.b = hy.backup]
  <2>1. th' = [th EXCEPT ![t] = r]
    BY <1>6 DEF LoadBackupToUpdate, Shape
  <2>2. /\ r.key = th[t].key /\ r.must = th[t].must /\ r.mg = th[t].mg
        /\ r.pc = "checkVersion" /\ r.ret = th[t].ret
    BY <1>0 DEF IsThread, ThreadOf
  <2> HIDE DEF r
  <2> QED
    BY <1>5, <2>1, <2>2 DEF MovePlaces
<1>7. CASE SwapStatic(t)
  <2> DEFINE swapped == hy.static # th[t].b
             r == [th[t] EXCEPT !.pc = "clearBackup", !.found = swapped, !.dy = hy.static]
  <2>1. th' = [th EXCEPT ![t] = r]
    BY <1>7 DEF SwapStatic, Shape
  <2> HIDE DEF swapped
  <2>2. /\ r.key = th[t].key /\ r.must = th[t].must /\ r.mg = th[t].mg
        /\ r.pc = "clearBackup" /\ r.ret = th[t].ret
    BY <1>0 DEF IsThread, ThreadOf
  <2> HIDE DEF r
  <2> QED
    BY <1>5, <2>1, <2>2 DEF MovePlaces
<1>8. CASE DeleteFile(t)
  <2> DEFINE r == [th[t] EXCEPT !.pc = "awaitNormal", !.found = FALSE, !.dy = NULL]
  <2>1. th' = [th EXCEPT ![t] = r]
    BY <1>8 DEF DeleteFile, Shape
  <2>2. /\ r.key = th[t].key /\ r.must = th[t].must /\ r.mg = th[t].mg
        /\ r.pc = "awaitNormal" /\ r.ret = th[t].ret
    BY <1>0 DEF IsThread, ThreadOf
  <2> HIDE DEF r
  <2> QED
    BY <1>5, <2>1, <2>2 DEF MovePlaces
<1>9. CASE CheckVersion(t) \/ OpenLatestFile(t) \/ CountUpdated(t) \/ CheckCount(t)
           \/ ClearBackup(t) \/ AwaitReadyToNormal(t) \/ DropMerging(t) \/ ToNormal(t)
  <2>1. Back(t) \/ \E pc \in MovePlaces : Goto(t, pc)
    BY <1>9 DEF CheckVersion, OpenLatestFile, CountUpdated, CheckCount, ClearBackup,
                AwaitReadyToNormal, DropMerging, ToNormal, MovePlaces
  <2> QED
    BY <1>3, <1>4, <2>1
<1> QED
  BY <1>3, <1>6, <1>7, <1>8, <1>9 DEF UpdateVersion

LEMMA InsertApart ==
  ASSUME VInv, Shape, NEW t \in Threads, Insert(t), ~ReturnInsert(t)
  PROVE  Apart(t)
<1> DEFINE InsertPlaces ==
      {"prepare", "announce", "awaitPrepared", "awaitReady", "toMerging", "setMerging",
       "newDynamic", "collect", "copyStatic", "publish", "partition", "offer", "resetCount",
       "loadTask", "enterDynamic", "loadDynamic", "recheckMode", "insertKey", "leaveDynamic",
       "readyMerge", "inserted", "startOver", "insert", "updateAll"}
<1>0. IsThread(th[t])
  BY ThreadShape
<1>1. ASSUME NEW pc \in InsertPlaces
      PROVE  pc \notin SearchPlaces \cup MovePlaces \cup {"update", "idle"}
  BY DEF SearchPlaces, MovePlaces
<1> HIDE DEF InsertPlaces
<1>2. ASSUME NEW pc \in InsertPlaces, Goto(t, pc) PROVE Apart(t)
  BY <1>1, <1>2, GotoApart
<1>3. ASSUME NEW r, th' = [th EXCEPT ![t] = r], r.key = th[t].key, r.must = th[t].must,
             r.mg = th[t].mg, r.pc \in InsertPlaces
      PROVE  Apart(t)
  BY <1>1, <1>3, RecordApart
<1>4. CASE InsertMode(t) \/ AwaitMerged(t) \/ AwaitSwapped(t)
  <2>1. \/ Goto(t, "prepare") \/ Goto(t, "announce") \/ Goto(t, "awaitPrepared")
        \/ EndSpin(t)
        \/ \E ratio : \/ Turn(t, "assist", "awaitMerged", ratio)
                      \/ Turn(t, "update", "awaitSwapped", ratio)
    BY <1>4 DEF InsertMode, AwaitMerged, AwaitSwapped, Shape, HyShape, Modes
  <2>2. EndSpin(t) => Apart(t)
    BY TurnEffect DEF EndSpin, Apart, Searching, MovesToFind, SearchPlaces, MovePlaces
  <2> QED
    BY <1>2, <2>1, <2>2, TurnApart DEF InsertPlaces
<1>6. CASE UpdateAllVersion(t)
  <2> DEFINE u == th[t].next
             me == [th[t] EXCEPT !.next = u + 1]
             r1 == [th[t] EXCEPT !.pc = "announce", !.next = 0]
             r2 == [me EXCEPT !.pc = "update", !.ret = "updateAll", !.who = u]
  <2>1. \/ th' = [th EXCEPT ![t] = r1] \/ th' = [th EXCEPT ![t] = r2]
        \/ th' = [th EXCEPT ![t] = me]
    BY <1>6 DEF UpdateAllVersion
  <2>2. th[t].pc = "updateAll"
    BY <1>6 DEF UpdateAllVersion, At
  <2>3. r1.key = th[t].key /\ r1.must = th[t].must /\ r1.mg = th[t].mg /\ r1.pc = "announce"
    BY <1>0 DEF IsThread, ThreadOf
  <2>4. me.key = th[t].key /\ me.must = th[t].must /\ me.mg = th[t].mg /\ me.pc = "updateAll"
    BY <1>0, <2>2 DEF IsThread, ThreadOf
  <2>5. /\ r2.key = th[t].key /\ r2.must = th[t].must /\ r2.mg = th[t].mg
        /\ r2.pc = "update" /\ r2.ret = "updateAll"
    BY <1>0 DEF IsThread, ThreadOf
  <2> HIDE DEF r1, r2, me
  <2>6. CASE th' = [th EXCEPT ![t] = r1]
    BY <1>3, <2>3, <2>6 DEF InsertPlaces
  <2>7. CASE th' = [th EXCEPT ![t] = me]
    BY <1>3, <2>4, <2>7 DEF InsertPlaces
  <2>8. CASE th' = [th EXCEPT ![t] = r2]
    BY <2>5, <2>8, RecordEffect DEF Apart, Searching, MovesToFind, SameRequest, SearchPlaces
  <2> QED
    BY <2>1, <2>6, <2>7, <2>8
<1>7. CASE CopyStatic(t)
  <2> DEFINE n == Len(sta) + 1
             r == [th[t] EXCEPT !.pc = "publish", !.b = n]
  <2>1. th' = [th EXCEPT ![t] = r]
    BY <1>7 DEF CopyStatic, Shape
  <2> HIDE DEF n
  <2>2. r.key = th[t].key /\ r.must = th[t].must /\ r.mg = th[t].mg /\ r.pc = "publish"
    BY <1>0 DEF IsThread, ThreadOf
  <2> HIDE DEF r
  <2> QED
    BY <1>3, <2>1, <2>2 DEF InsertPlaces
<1>8. CASE ResetVersionCount(t)
  <2> DEFINE r == [th[t] EXCEPT !.pc = "loadTask", !.then = "announce"]
  <2>1. th' = [th EXCEPT ![t] = r]
    BY <1>8 DEF ResetVersionCount, Shape
  <2>2. r.key = th[t].key /\ r.must = th[t].must /\ r.mg = th[t].mg /\ r.pc = "loadTask"
    BY <1>0 DEF IsThread, ThreadOf
  <2> HIDE DEF r
  <2> QED
    BY <1>3, <2>1, <2>2 DEF InsertPlaces
<1>9. CASE Announce(t)
  <2> DEFINE q == [th[t] EXCEPT !.b = NULL, !.task = -1, !.then = "", !.ret = ""]
             r == [q EXCEPT !.pc = "enterDynamic"]
  <2>1. th' = [th EXCEPT ![t] = r]
    BY <1>9 DEF Announce, Shape
  <2>2. q.key = th[t].key /\ q.must = th[t].must /\ q.mg = th[t].mg /\ IsThread(q)
    BY <1>0 DEF IsThread, ThreadOf, Returns, Nexts
  <2> HIDE DEF q
  <2>3. r.key = th[t].key /\ r.must = th[t].must /\ r.mg = th[t].mg /\ r.pc = "enterDynamic"
    BY <2>2 DEF IsThread, ThreadOf
  <2> HIDE DEF r
  <2> QED
    BY <1>3, <2>1, <2>3 DEF InsertPlaces
<1>10. CASE LoadDynamic(t)
  <2> DEFINE r == [th[t] EXCEPT !.pc = "recheckMode", !.dy = hy.dynamic]
  <2>1. th' = [th EXCEPT ![t] = r]
    BY <1>10 DEF LoadDynamic, Shape
  <2>2. r.key = th[t].key /\ r.must = th[t].must /\ r.mg = th[t].mg /\ r.pc = "recheckMode"
    BY <1>0 DEF IsThread, ThreadOf
  <2> HIDE DEF r
  <2> QED
    BY <1>3, <2>1, <2>2 DEF InsertPlaces
<1>11. CASE RecheckMode(t)
  <2> DEFINE r == [th[t] EXCEPT !.pc = "leaveDynamic", !.dy = NULL]
             q == [th[t] EXCEPT !.pc = "insertKey"]
  <2>1. th' = [th EXCEPT ![t] = r] \/ th' = [th EXCEPT ![t] = q]
    BY <1>11 DEF RecheckMode, Shape
  <2>2. r.key = th[t].key /\ r.must = th[t].must /\ r.mg = th[t].mg /\ r.pc = "leaveDynamic"
    BY <1>0 DEF IsThread, ThreadOf
  <2>3. q.key = th[t].key /\ q.must = th[t].must /\ q.mg = th[t].mg /\ q.pc = "insertKey"
    BY <1>0 DEF IsThread, ThreadOf
  <2> HIDE DEF r, q
  <2> QED
    BY <1>3, <2>1, <2>2, <2>3 DEF InsertPlaces
<1>12. CASE InsertKey(t)
  <2> DEFINE r == [th[t] EXCEPT !.pc = "leaveDynamic", !.found = TRUE]
  <2>1. th' = [th EXCEPT ![t] = r]
    BY <1>12 DEF InsertKey, Shape
  <2>2. r.key = th[t].key /\ r.must = th[t].must /\ r.mg = th[t].mg /\ r.pc = "leaveDynamic"
    BY <1>0 DEF IsThread, ThreadOf
  <2> HIDE DEF r
  <2> QED
    BY <1>3, <2>1, <2>2 DEF InsertPlaces
<1>13. CASE
       \/ AwaitPrepared(t) \/ Prepare(t) \/ AwaitReadyToMerge(t) \/ ToMerging(t)
       \/ SetMerging(t) \/ NewDynamic(t) \/ Collect(t) \/ PublishBackup(t) \/ PartitionData(t)
       \/ Offer(t) \/ EnterDynamic(t) \/ LeaveDynamic(t) \/ ReadyToMerge(t) \/ StartOver(t)
  <2>1. \E pc \in InsertPlaces : Goto(t, pc)
    BY <1>13 DEF AwaitPrepared, Prepare, AwaitReadyToMerge, ToMerging, SetMerging,
         NewDynamic, Collect, PublishBackup, PartitionData, Offer, EnterDynamic,
         LeaveDynamic, ReadyToMerge, StartOver, Left, InsertPlaces
  <2> QED
    BY <1>2, <2>1
<1> QED
  BY <1>4, <1>6, <1>7, <1>8, <1>9, <1>10, <1>11, <1>12, <1>13 DEF Insert, Merge

\* The thread itself, when the step is outside Find.
LEMMA OutsideOwed ==
  ASSUME VInv, VInv', Shape, LInv, NoLateInsert, SInv, NEW t \in Threads,
         Begin(t) \/ AssignedToMerge(t) \/ UpdateVersion(t) \/ Insert(t) \/ GiveUp(t)
  PROVE  th'[t].mg \in {NULL, th[t].mg} /\ (th'[t].must => Owed(t)')
<1>0. Begin(t) \/ Step(t)
  BY DEF Step
<1>1. th[t].must => Owed(t)
  BY DEF SInv
<1>2. CASE Apart(t)
  BY <1>0, <1>1, <1>2, ApartOwed DEF Apart, SameRequest
<1>3. CASE OnItsMove(t)
  <2>1. th'[t].mg = th[t].mg
    BY <1>3 DEF OnItsMove, SameRequest
  <2>2. CASE th[t].ret # "reloadBackup"
    <3>1. Apart(t)
      BY <1>3, <2>2 DEF OnItsMove, Apart, Searching, MovesToFind, SearchPlaces, MovePlaces, Returns
    <3> QED
      BY <1>2, <3>1
  <2>3. CASE th[t].ret = "reloadBackup"
    <3>1. SUFFICES ASSUME th'[t].must PROVE Owed(t)'
      BY <2>1
    <3>2. MovesToFind(t) /\ Owed(t)
      BY <1>1, <1>3, <2>3, <3>1 DEF OnItsMove, SameRequest, MovesToFind
    <3>3. PICK k : k = th[t].key
      OBVIOUS
    <3>4. Reached(k) /\ k \in Keys
      BY <3>2, <3>3 DEF Owed, VInv, FieldsOK
    <3>5. Reached(k)'
      BY <1>0, <3>4, ReachedStays
    <3>6. th'[t].key = k /\ th'[t].pc \in MovePlaces \cup {"reloadBackup"}
      BY <1>3, <2>3, <3>3 DEF OnItsMove, SameRequest
    <3>7. k \in returned' \cup Stored0
      BY <1>0, <3>2, <3>3, StepDisk DEF Owed, Memory, ReturnInsert, Shape
    <3> QED
      BY <3>5, <3>6, <3>7 DEF Owed, Reached, MovePlaces
  <2> QED
    BY <2>2, <2>3
<1>4. CASE Begin(t)
  <2> DEFINE request == Workload[t][th[t].done + 1]
             must == request.kind = "find" /\ request.key \in returned \cup Stored0
             r == [th[t] EXCEPT !.pc = request.kind, !.kind = request.kind,
                          !.key = request.key, !.who = t, !.must = must]
  <2>1. th' = [th EXCEPT ![t] = r] /\ returned' = returned /\ th[t].pc = "idle"
    BY <1>4 DEF Begin, OnlyThread, At
  <2>2. IsThread(th[t])
    BY ThreadShape
  <2>3. request.kind \in {"find", "insert"}
    BY <1>4, NextRequest
  <2> HIDE DEF request
  <2>4. /\ r.pc = request.kind /\ r.key = request.key /\ r.mg = th[t].mg
        /\ r.must => r.key \in returned \cup Stored0
    BY <2>2 DEF IsThread, ThreadOf
  <2> HIDE DEF r
  <2>5. th'[t] = r
    BY <2>1, RecordEffect
  <2> QED
    BY <2>1, <2>3, <2>4, <2>5 DEF Owed, MovesToFind, MovePlaces, MergingAwaits, DiskAwaits
<1>5. CASE ReturnInsert(t)
  BY <1>5, FinishEffect DEF ReturnInsert
<1>6. CASE GiveUp(t)
  <2>1. Goto(t, AfterSpin[th[t].pc]) /\ th[t].pc \in DOMAIN AfterSpin
    BY <1>6, WorkloadAssumption DEF GiveUp
  <2>2. CASE th[t].pc = "awaitNormal"
    <3>1. Goto(t, "dropMerging") /\ IsThread(th[t])
      BY <2>1, <2>2, ThreadShape DEF AfterSpin
    <3>2. th[t].ret \in Returns
      BY <3>1 DEF IsThread, ThreadOf
    <3>3. OnItsMove(t)
      BY <2>2, <3>1, <3>2, GotoEffect DEF OnItsMove, Locals, MovePlaces
    <3> QED
      BY <1>3, <3>3
  <2>3. CASE th[t].pc # "awaitNormal"
    <3>1. AfterSpin[th[t].pc] \in {"toMerging", "announce", "updateAll"}
      BY <2>1, <2>3 DEF AfterSpin
    <3>2. Apart(t)
      BY <2>1, <3>1, GotoApart DEF SearchPlaces, MovePlaces
    <3> QED
      BY <1>2, <3>2
  <2> QED
    BY <2>2, <2>3
<1> QED
  BY <1>2, <1>3, <1>4, <1>5, <1>6, TaskApart, MoveOnItsMove, InsertApart

-----------------------------------------------------------------------------
\* The steps of Find leave the indexes alone.
LEMMA FindStill ==
  ASSUME HyShape, NEW t \in Threads, Find(t)
  PROVE  /\ SameHy /\ dyn' = dyn /\ sta' = sta /\ files' = files /\ returned' = returned
         /\ OnDiskNow' = OnDiskNow /\ Round' = Round
         /\ \A k : Below(k)' = Below(k) /\ Reached(k)' = Reached(k)
<1>1. hy' = hy \/ NotReadyToNormal(t) \/ EnterMerging(t) \/ LeaveMerging(t) \/ ReadyToNormal(t)
  BY DEF Find, FindMode, FindDynamic, MissMode, LoadMerging, MergedReady, MergedPointer,
         FindMerging, DiskMode, MergedBackup, ReloadBackup, FindStatic, FindBackup,
         ReturnFind, OnlyThread
<1>2. SameHy
  BY <1>1 DEF NotReadyToNormal, EnterMerging, LeaveMerging, ReadyToNormal, Set, HyShape, SameHy
<1>3. dyn' = dyn /\ sta' = sta /\ files' = files /\ returned' = returned
  BY DEF Find, FindMode, FindDynamic, MissMode, LoadMerging, MergedReady, MergedPointer,
         FindMerging, DiskMode, MergedBackup, ReloadBackup, FindStatic, FindBackup,
         ReturnFind, NotReadyToNormal, EnterMerging, LeaveMerging, ReadyToNormal,
         OnlyThread, OnlyHybrid
<1>4. OnDiskNow' = OnDiskNow /\ Round' = Round
  BY <1>2, <1>3 DEF SameHy, OnDiskNow, Round
<1> QED
  BY <1>2, <1>3, <1>4 DEF Below, Reached, SameHy

\* What is owed to a find at the place where a step leads it.
LEMMA LandsOwed ==
  ASSUME HyShape, NEW t \in Threads, Find(t), NEW k, k = th[t].key, th'[t].key = k,
         k \in returned \cup Stored0, th'[t].pc # "idle", ~MovesToFind(t)' \/ Reached(k),
         th'[t].pc \in {"missMode", "loadMerging"} => Below(k),
         th'[t].pc \in DiskAwaits => Reached(k),
         th'[t].pc \in MergingAwaits =>
           Reached(k) \/ (th'[t].mg # NULL /\ k \in dyn[th'[t].mg]),
         th'[t].pc \in {"leaveMerging", "readyNormal"} => th'[t].found \/ Reached(k),
         th'[t].pc = "findStatic" => k \in OnDiskNow,
         th'[t].pc = "findBackup" => k \in files[Round][PartitionOf[k]],
         th'[t].pc = "found" => th'[t].found
  PROVE  Owed(t)'
<1>1. /\ dyn' = dyn /\ files' = files /\ returned' = returned
      /\ OnDiskNow' = OnDiskNow /\ Round' = Round
      /\ Below(k)' = Below(k) /\ Reached(k)' = Reached(k)
  BY FindStill
<1>2. (th[t].pc \in {"missMode", "loadMerging"} => Below(th[t].key))'
  BY <1>1 DEF Below
<1>3. (/\ th[t].pc \in DiskAwaits =>
            Reached(th[t].key)
       /\ MovesToFind(t) => Reached(th[t].key))'
  BY <1>1 DEF Reached
<1>4. (th[t].pc \in MergingAwaits =>
          Reached(th[t].key) \/ (th[t].mg # NULL /\ th[t].key \in dyn[th[t].mg]))'
  BY <1>1 DEF Reached
<1>5. (th[t].pc \in {"leaveMerging", "readyNormal"} => th[t].found \/ Reached(th[t].key))'
  BY <1>1 DEF Reached
<1>6. (/\ th[t].pc = "findStatic" => th[t].key \in OnDiskNow
       /\ th[t].pc = "findBackup" => th[t].key \in files[Round][PartitionOf[th[t].key]])'
  BY <1>1
<1>7. (/\ th[t].pc # "idle" /\ th[t].key \in returned \cup Stored0
       /\ th[t].pc = "found" => th[t].found)'
  BY <1>1
<1> QED
  BY <1>2, <1>3, <1>4, <1>5, <1>6, <1>7 DEF Owed

\* The lookups on disk: the range fits the file, and the file has the key.
LEMMA OnDiskFinds ==
  ASSUME VInv, SInv, NEW t \in Threads, th[t].pc \in {"findStatic", "findBackup"}, Owed(t),
         NEW found \in BOOLEAN,
         th[t].pc = "findStatic" => OnDisk(sta[hy.static], t, found),
         th[t].pc = "findBackup" => OnDisk(B(t), t, found)
  PROVE  found
<1> DEFINE p == PartitionOf[th[t].key]
<1>1. RangeFitsFile
  BY RangesFollow
<1>2. CASE th[t].pc = "findStatic"
  <2>1. th[t].key \in files[hy.static][p]
    BY <1>2, KeyOnDisk DEF Owed, SInv
  <2>2. sta[hy.static].fd[t] = hy.static
    BY DEF VInv, StaticOK, IsSettled
  <2> QED
    BY <1>1, <1>2, <2>1, <2>2 DEF OnDisk, RangeFitsFile, At
<1>3. CASE th[t].pc = "findBackup"
  <2>1. th[t].key \in files[Round][p]
    BY <1>3 DEF Owed
  <2>2. B(t) = New /\ Round >= 2
    BY <1>3 DEF VInv, PlacesOK, WorkingOK, UseB, B, New
  <2>3. New.fd[t] = Round
    BY <1>3, <2>2 DEF VInv, PlacesOK, FindingOK, MergeOK, NewOK
  <2> QED
    BY <1>1, <1>3, <2>1, <2>2, <2>3 DEF OnDisk, RangeFitsFile, At
<1> QED
  BY <1>2, <1>3

LEMMA FindOwed ==
  ASSUME VInv, VInv', Shape, LInv, NoEarlySearch, SInv, NEW t \in Threads, Find(t)
  PROVE  th'[t].mg \in {NULL} \cup 1 .. Len(dyn) /\ (th'[t].must => Owed(t)')
<1>0. IsThread(th[t]) /\ HyShape
  BY ThreadShape DEF Shape
<1>mg. /\ th[t].mg \in {NULL} \cup 1 .. Len(dyn) /\ hy.merging \in {NULL} \cup 1 .. Len(dyn)
       /\ NULL \in {NULL} \cup 1 .. Len(dyn)
  BY DEF SInv, VInv, Pointers
<1>owed. th[t].must => Owed(t)
  BY DEF SInv
<1>k. PICK k : k = th[t].key
  OBVIOUS
<1>key. Owed(t) => k \in Keys
  BY <1>k DEF Owed, VInv, FieldsOK
<1>loc. ASSUME NEW pc, Goto(t, pc)
        PROVE  /\ th'[t].pc = pc /\ th'[t].mg = th[t].mg /\ th'[t].key = th[t].key
               /\ th'[t].must = th[t].must /\ th'[t].found = th[t].found
  BY <1>loc, GotoEffect DEF Locals, SameRequest
<1>1. CASE FindMode(t)
  <2>1. \/ Goto(t, "findDynamic") \/ Call(t, "assist", "findDynamic")
        \/ Call(t, "update", "findDynamic")
    BY <1>1 DEF FindMode
  <2>2. Apart(t)
    BY <2>1, GotoApart, CallApart DEF SearchPlaces, MovePlaces
  <2>3. Begin(t) \/ Step(t)
    BY DEF Step
  <2> QED
    BY <1>mg, <1>owed, <2>2, <2>3, ApartOwed DEF Apart, SameRequest
<1>2. CASE FindDynamic(t)
  <2> DEFINE met == th[t].key \in dyn[hy.dynamic]
             pc == IF met THEN "found" ELSE "missMode"
             r == [th[t] EXCEPT !.found = met, !.pc = pc]
  <2>1. th' = [th EXCEPT ![t] = r]
    BY <1>2 DEF FindDynamic, Found, Shape
  <2> HIDE DEF met, pc
  <2>2. r.key = th[t].key /\ r.must = th[t].must /\ r.mg = th[t].mg /\ r.pc = pc
    BY <1>0 DEF IsThread, ThreadOf
  <2>3. r.found = met
    BY <1>0 DEF IsThread, ThreadOf
  <2> HIDE DEF r
  <2>4. th'[t] = r
    BY <2>1, RecordEffect
  <2>5. SUFFICES ASSUME th'[t].must PROVE Owed(t)'
    BY <1>mg, <2>2, <2>4
  <2>6. Owed(t)
    BY <1>owed, <2>2, <2>4, <2>5
  <2>7. k \in Kept
    BY <1>k, <2>6 DEF Owed, LInv
  <2>8. ~met => Below(k)
    BY <1>k, <2>7 DEF met, Kept, InMemory, Below
  <2>9. pc \in {"found", "missMode"} /\ (pc = "found" => met) /\ (pc = "missMode" => ~met)
    BY DEF pc
  <2>10. ~MovesToFind(t)'
    BY <2>2, <2>4, <2>9 DEF MovesToFind, MovePlaces
  <2>11. k \in returned \cup Stored0
    BY <1>k, <2>6 DEF Owed
  <2> QED
    BY <1>0, <1>k, <2>2, <2>3, <2>4, <2>8, <2>9, <2>10, <2>11, LandsOwed
      DEF MergingAwaits, DiskAwaits
<1>3. ASSUME NEW pc \in SearchPlaces, Goto(t, pc), th[t].must => Owed(t),
             Owed(t) =>
               /\ pc \in {"missMode", "loadMerging"} => Below(k)
               /\ pc \in DiskAwaits => Reached(k)
               /\ pc \in MergingAwaits =>
                    Reached(k) \/ (th[t].mg # NULL /\ k \in dyn[th[t].mg])
               /\ pc \in {"leaveMerging", "readyNormal"} => th[t].found \/ Reached(k)
               /\ pc = "findStatic" => k \in OnDiskNow
               /\ pc = "findBackup" => k \in files[Round][PartitionOf[k]]
               /\ pc = "found" => th[t].found
      PROVE  th'[t].mg \in {NULL} \cup 1 .. Len(dyn) /\ (th'[t].must => Owed(t)')
  <2>1. /\ th'[t].pc = pc /\ th'[t].mg = th[t].mg /\ th'[t].key = th[t].key
        /\ th'[t].must = th[t].must /\ th'[t].found = th[t].found
    BY <1>3, <1>loc
  <2>2. SUFFICES ASSUME th'[t].must PROVE Owed(t)'
    BY <1>mg, <2>1
  <2>3. Owed(t)
    BY <1>3, <2>1, <2>2
  <2>4. ~MovesToFind(t)' /\ pc # "idle"
    BY <2>1 DEF MovesToFind, MovePlaces, SearchPlaces
  <2>5. k \in returned \cup Stored0
    BY <1>k, <2>3 DEF Owed
  <2> QED
    BY <1>0, <1>3, <1>k, <2>1, <2>3, <2>4, <2>5, LandsOwed
<1>4. CASE MissMode(t)
  <2>1. th[t].pc = "missMode"
    BY <1>4 DEF MissMode, At
  <2>2. Owed(t) => Below(k)
    BY <1>k, <2>1 DEF Owed
  <2>3. CASE hy.mode = "Merging"
    BY <1>3, <1>4, <1>owed, <2>2, <2>3 DEF MissMode, SearchPlaces, MergingAwaits, DiskAwaits
  <2>4. CASE hy.mode = "Merged"
    <3>1. Owed(t) => Reached(k)
      BY <1>key, <2>2, <2>4, MergedReaches
    <3>2. Goto(t, "mergedReady")
      BY <1>4, <2>4 DEF MissMode
    <3> QED
      BY <1>3, <1>owed, <3>1, <3>2 DEF SearchPlaces
  <2>5. CASE hy.mode \in {"Normal", "Prepare"}
    <3>1. hy.merging = NULL
      BY <2>5 DEF VInv, ModeOK
    <3>2. Owed(t) => Reached(k)
      BY <2>2, <3>1 DEF Below, Reached
    <3>3. Goto(t, "diskMode")
      BY <1>4, <2>5 DEF MissMode
    <3> QED
      BY <1>3, <1>owed, <3>2, <3>3 DEF SearchPlaces
  <2> QED
    BY <1>0, <2>3, <2>4, <2>5 DEF HyShape, Modes
<1>5. CASE LoadMerging(t)
  <2>1. th[t].pc = "loadMerging"
    BY <1>5 DEF LoadMerging, At
  <2>2. Owed(t) => Below(k)
    BY <1>k, <2>1 DEF Owed
  <2>3. CASE hy.merging = NULL
    <3>1. Owed(t) => Reached(k)
      BY <2>2, <2>3 DEF Below, Reached
    <3>2. Goto(t, "diskMode")
      BY <1>5, <2>3 DEF LoadMerging
    <3> QED
      BY <1>3, <1>owed, <3>1, <3>2 DEF SearchPlaces
  <2>4. CASE hy.merging # NULL
    <3> DEFINE r == [th[t] EXCEPT !.pc = "notReadyNormal", !.mg = hy.merging]
    <3>1. th' = [th EXCEPT ![t] = r]
      BY <1>5, <2>4 DEF LoadMerging, Shape
    <3>2. /\ r.key = th[t].key /\ r.must = th[t].must /\ r.mg = hy.merging
          /\ r.pc = "notReadyNormal"
      BY <1>0 DEF IsThread, ThreadOf
    <3> HIDE DEF r
    <3>3. th'[t] = r
      BY <3>1, RecordEffect
    <3>4. SUFFICES ASSUME th'[t].must PROVE Owed(t)'
      BY <1>mg, <3>2, <3>3
    <3>5. Owed(t)
      BY <1>owed, <3>2, <3>3, <3>4
    <3>6. Reached(k) \/ k \in dyn[hy.merging]
      BY <2>2, <3>5 DEF Below, Reached
    <3>7. ~MovesToFind(t)'
      BY <3>2, <3>3 DEF MovesToFind, MovePlaces
    <3>8. k \in returned \cup Stored0
      BY <1>k, <3>5 DEF Owed
    <3> QED
      BY <1>0, <1>k, <2>4, <3>2, <3>3, <3>6, <3>7, <3>8, LandsOwed DEF MergingAwaits, DiskAwaits
  <2> QED
    BY <2>3, <2>4
<1>6. CASE MergedReady(t)
  <2>1. th[t].pc = "mergedReady"
    BY <1>6 DEF MergedReady, At
  <2>2. Owed(t) => Reached(k)
    BY <1>k, <2>1 DEF Owed, MergingAwaits, DiskAwaits
  <2>3. Goto(t, "diskMode") \/ Goto(t, "notReadyNormal")
    BY <1>6 DEF MergedReady
  <2> QED
    BY <1>3, <1>owed, <2>2, <2>3 DEF SearchPlaces
<1>7. CASE NotReadyToNormal(t) \/ EnterMerging(t)
  <2>1. th[t].pc \in {"notReadyNormal", "enterMerging"}
    BY <1>7 DEF NotReadyToNormal, EnterMerging, At
  <2>2. Owed(t) => Reached(k) \/ (th[t].mg # NULL /\ k \in dyn[th[t].mg])
    BY <1>k, <2>1 DEF Owed, MergingAwaits, DiskAwaits
  <2>3. CASE Goto(t, "enterMerging") \/ Goto(t, "findMerging")
    BY <1>3, <1>owed, <2>2, <2>3 DEF SearchPlaces, MergingAwaits, DiskAwaits
  <2>4. CASE Goto(t, "mergedPointer") /\ th[t].mg = NULL
    <3>1. Owed(t) => Reached(k)
      BY <2>2, <2>4
    <3> QED
      BY <1>3, <1>owed, <2>4, <3>1 DEF SearchPlaces, MergingAwaits, DiskAwaits
  <2>5. \/ Goto(t, "enterMerging") \/ Goto(t, "findMerging")
        \/ Goto(t, "mergedPointer") /\ th[t].mg = NULL
    BY <1>7 DEF NotReadyToNormal, EnterMerging
  <2> QED
    BY <2>3, <2>4, <2>5
<1>8. CASE MergedPointer(t)
  <2> DEFINE pc == IF hy.merging = NULL THEN "nullDereference" ELSE "findMerging"
             r == [th[t] EXCEPT !.mg = hy.merging, !.pc = pc]
  <2>1. th' = [th EXCEPT ![t] = r] /\ th[t].pc = "mergedPointer"
    BY <1>8 DEF MergedPointer, Shape, At
  <2> HIDE DEF pc
  <2>2. /\ r.key = th[t].key /\ r.must = th[t].must /\ r.mg = hy.merging /\ r.pc = pc
    BY <1>0 DEF IsThread, ThreadOf
  <2> HIDE DEF r
  <2>3. th'[t] = r
    BY <2>1, RecordEffect
  <2>4. SUFFICES ASSUME th'[t].must PROVE Owed(t)'
    BY <1>mg, <2>2, <2>3
  <2>5. Owed(t)
    BY <1>owed, <2>2, <2>3, <2>4
  <2>6. pc \in {"nullDereference", "findMerging"}
    BY DEF pc
  <2>7. Reached(k)
    BY <1>k, <2>1, <2>5 DEF Owed, MergingAwaits, DiskAwaits
  <2>8. ~MovesToFind(t)'
    BY <2>2, <2>3, <2>6 DEF MovesToFind, MovePlaces
  <2>9. k \in returned \cup Stored0
    BY <1>k, <2>5 DEF Owed
  <2> QED
    BY <1>0, <1>k, <2>2, <2>3, <2>6, <2>7, <2>8, <2>9, LandsOwed
<1>9. CASE FindMerging(t)
  <2> DEFINE met == th[t].key \in dyn[th[t].mg]
             r == [th[t] EXCEPT !.found = met, !.pc = "leaveMerging", !.mg = NULL]
  <2>1. th' = [th EXCEPT ![t] = r] /\ th[t].pc = "findMerging"
    BY <1>9 DEF FindMerging, Shape, At
  <2> HIDE DEF met
  <2>2. r.key = th[t].key /\ r.must = th[t].must /\ r.mg = NULL /\ r.pc = "leaveMerging"
    BY <1>0 DEF IsThread, ThreadOf
  <2>3. r.found = met
    BY <1>0 DEF IsThread, ThreadOf
  <2> HIDE DEF r
  <2>4. th'[t] = r
    BY <2>1, RecordEffect
  <2>5. SUFFICES ASSUME th'[t].must PROVE Owed(t)'
    BY <1>mg, <2>2, <2>4
  <2>6. Owed(t)
    BY <1>owed, <2>2, <2>4, <2>5
  <2>7. met \/ Reached(k)
    BY <1>k, <2>1, <2>6 DEF Owed, met, MergingAwaits, DiskAwaits
  <2>8. ~MovesToFind(t)'
    BY <2>2, <2>4 DEF MovesToFind, MovePlaces
  <2>9. k \in returned \cup Stored0
    BY <1>k, <2>6 DEF Owed
  <2> QED
    BY <1>0, <1>k, <2>2, <2>3, <2>4, <2>7, <2>8, <2>9, LandsOwed DEF MergingAwaits, DiskAwaits
<1>10. CASE LeaveMerging(t) \/ ReadyToNormal(t)
  <2>1. th[t].pc \in {"leaveMerging", "readyNormal"}
    BY <1>10 DEF LeaveMerging, ReadyToNormal, At
  <2>2. Owed(t) => th[t].found \/ Reached(k)
    BY <1>k, <2>1 DEF Owed
  <2>3. \/ Goto(t, "readyNormal")
        \/ Goto(t, "found") /\ th[t].found
        \/ Goto(t, "diskMode") /\ ~th[t].found
    BY <1>10 DEF LeaveMerging, ReadyToNormal
  <2>4. CASE Goto(t, "readyNormal")
    BY <1>3, <1>owed, <2>2, <2>4 DEF SearchPlaces, MergingAwaits, DiskAwaits
  <2>5. CASE Goto(t, "found") /\ th[t].found
    BY <1>3, <1>owed, <2>5 DEF SearchPlaces, MergingAwaits, DiskAwaits
  <2>6. CASE Goto(t, "diskMode") /\ ~th[t].found
    BY <1>3, <1>owed, <2>2, <2>6 DEF SearchPlaces
  <2> QED
    BY <2>3, <2>4, <2>5, <2>6
<1>11. CASE DiskMode(t)
  <2>1. th[t].pc = "diskMode"
    BY <1>11 DEF DiskMode, At
  <2>2. Owed(t) => Reached(k)
    BY <1>k, <2>1 DEF Owed, MergingAwaits, DiskAwaits
  <2>3. CASE hy.mode = "Merged"
    <3>1. Goto(t, "mergedBackup")
      BY <1>11, <2>3 DEF DiskMode
    <3> QED
      BY <1>3, <1>owed, <2>2, <3>1 DEF SearchPlaces
  <2>4. CASE hy.mode # "Merged"
    <3>1. Goto(t, "findStatic")
      BY <1>11, <2>4 DEF DiskMode
    <3>2. Owed(t) => k \in OnDiskNow
      BY <2>2, <2>4 DEF Reached
    <3> QED
      BY <1>3, <1>owed, <3>1, <3>2 DEF SearchPlaces, MergingAwaits, DiskAwaits
  <2> QED
    BY <2>3, <2>4
<1>12. CASE MergedBackup(t)
  <2>1. th[t].pc = "mergedBackup"
    BY <1>12 DEF MergedBackup, At
  <2>2. Owed(t) => Reached(k) /\ k \in returned \cup Stored0
    BY <1>k, <2>1 DEF Owed, MergingAwaits, DiskAwaits
  <2>3. CASE hy.backup # NULL /\ GetUpdatedStatus(sta[hy.backup])
    <3>1. Call(t, "update", "reloadBackup")
      BY <1>12, <2>3 DEF MergedBackup
    <3>2. th'[t].pc = "update" /\ SameRequest(t)
      BY <3>1, CallEffect
    <3> QED
      BY <1>0, <1>mg, <1>owed, <1>k, <2>2, <3>2, LandsOwed DEF SameRequest
  <2>4. CASE ~(hy.backup # NULL /\ GetUpdatedStatus(sta[hy.backup]))
    <3>1. Goto(t, "findStatic")
      BY <1>12, <2>4 DEF MergedBackup
    <3>2. ASSUME hy.mode = "Merged", hy.static # Round PROVE FALSE
      <4>1. hy.backup = Round /\ Round >= 2 /\ New.updated
        BY <2>1, <3>2 DEF VInv, ModeOK, NoEarlySearch, At
      <4>2. New.next # -1
        BY <3>2, MergedStored
      <4>3. GetUpdatedStatus(New)
        BY <4>1, <4>2, UpdatedStatus
      <4> QED
        BY <2>4, <4>1, <4>3 DEF New, NULL
    <3>3. Owed(t) => k \in OnDiskNow
      BY <2>2, <3>2 DEF Reached
    <3> QED
      BY <1>3, <1>owed, <3>1, <3>3 DEF SearchPlaces, MergingAwaits, DiskAwaits
  <2> QED
    BY <2>3, <2>4
<1>13. CASE ReloadBackup(t)
  <2>1. th[t].pc = "reloadBackup"
    BY <1>13 DEF ReloadBackup, At
  <2>2. Owed(t) => Reached(k)
    BY <1>k, <2>1 DEF Owed, MergingAwaits, DiskAwaits
  <2>3. CASE hy.backup = NULL
    <3>1. Goto(t, "findStatic")
      BY <1>13, <2>3 DEF ReloadBackup
    <3>2. ~(hy.mode = "Merged" /\ hy.static # Round)
      <4>1. Round # NULL
        BY Basics DEF NULL
      <4> QED
        BY <2>3, <4>1 DEF VInv, ModeOK
    <3>3. Owed(t) => k \in OnDiskNow
      BY <2>2, <3>2 DEF Reached
    <3> QED
      BY <1>3, <1>owed, <3>1, <3>3 DEF SearchPlaces, MergingAwaits, DiskAwaits
  <2>4. CASE hy.backup # NULL
    <3> DEFINE r == [th[t] EXCEPT !.pc = "findBackup", !.b = hy.backup]
    <3>1. th' = [th EXCEPT ![t] = r]
      BY <1>13, <2>4 DEF ReloadBackup, Shape
    <3>2. /\ r.key = th[t].key /\ r.must = th[t].must /\ r.mg = th[t].mg
          /\ r.pc = "findBackup"
      BY <1>0 DEF IsThread, ThreadOf
    <3> HIDE DEF r
    <3>3. th'[t] = r
      BY <3>1, RecordEffect
    <3>4. SUFFICES ASSUME th'[t].must PROVE Owed(t)'
      BY <1>mg, <3>2, <3>3
    <3>5. Owed(t)
      BY <1>owed, <3>2, <3>3, <3>4
    <3>6. New.updated /\ Round >= 2
      BY <2>1, <2>4 DEF VInv, PlacesOK, FindingOK, Pointers
    <3>7. k \in files[Round][PartitionOf[k]]
      BY <1>key, <2>2, <3>5, <3>6, ReachedInBackup DEF SInv
    <3>8. ~MovesToFind(t)'
      BY <3>2, <3>3 DEF MovesToFind, MovePlaces
    <3>9. k \in returned \cup Stored0
      BY <1>k, <3>5 DEF Owed
    <3> QED
      BY <1>0, <1>k, <3>2, <3>3, <3>7, <3>8, <3>9, LandsOwed DEF MergingAwaits, DiskAwaits
  <2> QED
    BY <2>3, <2>4
<1>14. CASE FindStatic(t) \/ FindBackup(t)
  <2>1. th[t].pc \in {"findStatic", "findBackup"}
    BY <1>14 DEF FindStatic, FindBackup, At
  <2>2. PICK found \in BOOLEAN :
          /\ th[t].pc = "findStatic" => OnDisk(sta[hy.static], t, found)
          /\ th[t].pc = "findBackup" => OnDisk(B(t), t, found)
          /\ \/ th' = [th EXCEPT ![t].pc = "found", ![t].found = found]
             \/ th' = [th EXCEPT ![t].pc = "found", ![t].found = found, ![t].b = NULL]
    BY <1>14 DEF FindStatic, FindBackup, At
  <2> DEFINE r == [th[t] EXCEPT !.pc = "found", !.found = found]
             q == [th[t] EXCEPT !.pc = "found", !.found = found, !.b = NULL]
  <2>3. th' = [th EXCEPT ![t] = r] \/ th' = [th EXCEPT ![t] = q]
    BY <2>2 DEF Shape
  <2>4. /\ r.key = th[t].key /\ r.must = th[t].must /\ r.mg = th[t].mg /\ r.pc = "found"
        /\ r.found = found
    BY <1>0 DEF IsThread, ThreadOf
  <2>5. /\ q.key = th[t].key /\ q.must = th[t].must /\ q.mg = th[t].mg /\ q.pc = "found"
        /\ q.found = found
    BY <1>0 DEF IsThread, ThreadOf
  <2> HIDE DEF r, q
  <2>6. th'[t] \in {r, q}
    BY <2>3, RecordEffect
  <2>7. /\ th'[t].key = th[t].key /\ th'[t].must = th[t].must /\ th'[t].mg = th[t].mg
        /\ th'[t].pc = "found" /\ th'[t].found = found
    BY <2>4, <2>5, <2>6
  <2>8. SUFFICES ASSUME th'[t].must PROVE Owed(t)'
    BY <1>mg, <2>7
  <2>9. Owed(t)
    BY <1>owed, <2>7, <2>8
  <2>10. found
    BY <2>1, <2>2, <2>9, OnDiskFinds
  <2>11. ~MovesToFind(t)'
    BY <2>7 DEF MovesToFind, MovePlaces
  <2>12. k \in returned \cup Stored0
    BY <1>k, <2>9 DEF Owed
  <2> QED
    BY <1>0, <1>k, <2>7, <2>10, <2>11, <2>12, LandsOwed DEF MergingAwaits, DiskAwaits
<1>15. CASE ReturnFind(t)
  BY <1>15, <1>mg, FinishEffect DEF ReturnFind
<1> QED
  BY <1>1, <1>2, <1>4, <1>5, <1>6, <1>7, <1>8, <1>9, <1>10, <1>11, <1>12, <1>13, <1>14, <1>15
     DEF Find

-----------------------------------------------------------------------------
LEMMA InitSInv == Init => SInv
<1> SUFFICES ASSUME Init PROVE SInv
  OBVIOUS
<1>1. hy.static = 1 /\ files[1] = [p \in Partitions |-> {k \in Stored0 : PartitionOf[k] = p}]
  BY DEF Init
<1>2. \A t \in Threads : ~th[t].must /\ th[t].mg = NULL
  BY DEF Init, Idle
<1>3. InPlace
  BY <1>1 DEF InPlace
<1> QED
  BY <1>2, <1>3 DEF SInv

LEMMA StepKeepsSInv ==
  ASSUME VInv, VInv', Shape, LInv, NoLateInsert, NoEarlySearch, SInv,
         NEW t \in Threads, Begin(t) \/ Step(t)
  PROVE  SInv'
<1>1. InPlace'
  BY InPlaceStays DEF SInv
<1>2. Others(t) /\ (NewDynamic(t) \/ Len(dyn') = Len(dyn))
  BY StepInsertions, DynGrows DEF Insertions
<1>3. Len(dyn) \in Nat /\ Len(dyn') \in Nat /\ Len(dyn') >= Len(dyn)
  <2>1. Len(dyn) \in Nat /\ dyn \in Seq(SUBSET Keys)
    BY Basics DEF VInv, TypesOK
  <2>2. NewDynamic(t) => Len(dyn') = Len(dyn) + 1
    BY <2>1, AppendProperties DEF NewDynamic
  <2> QED
    BY <1>2, <2>1, <2>2
<1>4. th'[t].mg \in {NULL} \cup 1 .. Len(dyn) /\ (th'[t].must => Owed(t)')
  <2>1. CASE Find(t)
    BY <2>1, FindOwed
  <2>2. CASE ~Find(t)
    BY <2>2, OutsideOwed DEF SInv, Step
  <2> QED
    BY <2>1, <2>2
<1>5. ASSUME NEW u \in Threads PROVE (th[u].mg \in {NULL} \cup 1 .. Len(dyn))'
  <2>1. th'[u].mg \in {NULL} \cup 1 .. Len(dyn)
    BY <1>2, <1>4 DEF Others, SInv
  <2> QED
    BY <1>3, <2>1
<1>6. ASSUME NEW u \in Threads, th'[u].must PROVE Owed(u)'
  <2>1. CASE u = t
    BY <1>4, <1>6, <2>1
  <2>2. CASE u # t
    <3>1. th'[u] = th[u]
      BY <1>2, <2>2 DEF Others
    <3> QED
      BY <1>6, <3>1, OthersOwed DEF SInv
  <2> QED
    BY <2>1, <2>2
<1> QED
  BY <1>1, <1>5, <1>6 DEF SInv

\* A find that started after the insert of its key had returned answers it, unless
\* it searches the old file while the new one waits to be announced: in each mode the
\* places that a find skips have nothing the others do not have.
THEOREM FindsAnswer ==
  Spec /\ []NoneLeftOver /\ []OneMover /\ []NoLateInsert /\ []NoEarlySearch => []FindsInserted
<1>1. VInv /\ VInv' /\ IInv /\ LInv /\ NoLateInsert /\ NoEarlySearch /\ SInv /\ [Next]_vars
      => SInv'
  <2>1. SUFFICES ASSUME VInv, VInv', Shape, LInv, NoLateInsert, NoEarlySearch, SInv, [Next]_vars
                 PROVE  SInv'
    BY DEF IInv
  <2>2. CASE UNCHANGED vars
    <3>1. /\ OnDiskNow' = OnDiskNow /\ Round' = Round
          /\ \A k : Below(k)' = Below(k) /\ Reached(k)' = Reached(k)
      BY <2>2 DEF vars, OnDiskNow, Round, Below, Reached
    <3>2. \A t \in Threads : Owed(t) => Owed(t)'
      BY <2>2, <3>1 DEF vars, Owed, MovesToFind
    <3> QED
      BY <2>1, <2>2, <3>2 DEF vars, SInv, InPlace
  <2> QED
    BY <2>1, <2>2, StepKeepsSInv DEF Next
<1>2. SInv => FindsInserted
  BY DEF SInv, Owed, FindsInserted, At
<1> QED
  BY <1>1, <1>2, InitSInv, AlwaysVInv, AlwaysIInv, AlwaysLInv, PTL DEF Spec
=============================================================================
