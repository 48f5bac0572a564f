-------------------------- MODULE MCOptLockCoupling --------------------------
(***************************************************************************)
(* Three threads on one node.                                              *)
(***************************************************************************)
EXTENDS OptLockCoupling

CONSTANTS t1, t2, t3

MCThreads == {t1, t2, t3}
=============================================================================
