---------------------------- MODULE MCHybridIndex ----------------------------
(***************************************************************************)
(* Seven keys of which four are loaded and one is above them all, pages of *)
(* two records: the file ends in a full page or in a half one.             *)
(***************************************************************************)
EXTENDS HybridIndex

MCKeys   == 1 .. 7
MCLoaded == {2, 3, 5, 6}
MCValues == 1 .. 2
MCModelSizes == {2, 3}
=============================================================================
