----------------------------- MODULE MCBTreeOLC -----------------------------
(***************************************************************************)
(* Small trees: leaves of two records and inner nodes of four keys, so     *)
(* that a handful of inserts splits leaves, the root leaf and an inner     *)
(* root.                                                                   *)
(***************************************************************************)
EXTENDS BTreeOLC

CONSTANTS t1, t2, t3

Ins(k, v) == [kind |-> "insert", key |-> k, value |-> v]
Look(k)   == [kind |-> "lookup", key |-> k]

TwoThreads   == {t1, t2}
ThreeThreads == {t1, t2, t3}
MCKeys   == 1 .. 7
MCValues == 1 .. 2

\* Build leaves a full inner root; the first insert splits it.
DeepRecords  == <<Ins(1, 1), Ins(2, 1), Ins(3, 1), Ins(4, 1), Ins(6, 1), Ins(7, 1)>>
DeepRequests == {Ins(5, 2), Ins(7, 2), Look(5), Look(7)}

\* Build leaves one leaf: the root leaf splits, and its halves after it.
WideRecords  == <<Ins(2, 1)>>
WideRequests == {Ins(1, 2), Ins(3, 2), Ins(2, 2), Look(2), Look(3)}
=============================================================================
