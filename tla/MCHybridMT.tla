----------------------------- MODULE MCHybridMT -----------------------------
(***************************************************************************)
(* Small instances of the hybrid index: two or three threads, one or two   *)
(* partitions, a ratio that the first record of a merge reaches again.     *)
(***************************************************************************)
EXTENDS HybridMT, TLC

Ins(k)  == [kind |-> "insert", key |-> k]
Look(k) == [kind |-> "find", key |-> k]

TwoThreads == 0 .. 1
ThreeThreads == 0 .. 2
OnePartition  == 0 .. 0
TwoPartitions == 0 .. 1

MCKeys == 0 .. 6
Sample == {0}
Built2 == {3, 6}
Built1 == {6}
AllInOne == [k \in MCKeys |-> 0]
InTwo    == [k \in MCKeys |-> k % 2]

\* A writer and a reader through one merge: the reader takes a partition, or
\* has to move to the new version.
WriterReader == (0 :> <<Ins(1), Ins(2), Look(4), Ins(4)>>) @@ (1 :> <<Look(0), Look(1), Look(3)>>)

\* Two threads write.
TwoWriters == (0 :> <<Ins(1), Ins(2), Look(0)>>) @@ (1 :> <<Ins(4), Look(3)>>)

\* Two threads write, of which one goes on to find a key of the sample; a third
\* one finds a key on disk.
Contention == (0 :> <<Ins(1), Look(0)>>) @@ (1 :> <<Ins(4)>>) @@ (2 :> <<Look(3)>>)

\* One thread goes through two merges, and finds what it inserted; the second
\* one asks for nothing, and the first has to move it.
Idler == (0 :> <<Ins(1), Ins(2), Look(1), Ins(4), Look(3), Look(2), Ins(5), Look(1), Ins(3), Look(5)>>) @@ (1 :> <<>>)
=============================================================================
