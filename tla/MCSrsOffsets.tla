---------------------------- MODULE MCSrsOffsets ----------------------------
(***************************************************************************)
(* TLC instance of SrsOffsets: a table of two periods, one UE more than  *)
(* the longest of them has offsets, and a counter whose range is no        *)
(* multiple of a period, so that the wrap-around is seen at every phase.   *)
(***************************************************************************)
EXTENDS SrsOffsets, TLC

MCStandardPeriodicity == {2, 4}

MCSymmetry == Permutations(UE)
=============================================================================
