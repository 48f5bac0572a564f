--------------------------- MODULE MCPartitionMerge ---------------------------
(***************************************************************************)
(* Three partitions of two records, pages of two records: merged           *)
(* partitions take two pages and more, and keys come before, between, upon *)
(* and, in one run, behind the records on disk.  In another one every key  *)
(* that is inserted is on disk.                                            *)
(***************************************************************************)
EXTENDS PartitionMerge

MCKeys   == 1 .. 9
MCLoaded == {2, 3, 5, 6, 8}
InRange  == {1, 2, 4, 5, 7}
Beyond   == {4, 9}
Again    == {2, 5}
=============================================================================
