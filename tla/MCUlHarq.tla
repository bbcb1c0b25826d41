------------------------------ MODULE MCUlHarq ------------------------------
(***************************************************************************)
(* TLC instances of UlHarq: two UEs that compete for the symbols, and slots *)
(* that leave them a part of what a whole uplink slot has.                 *)
(***************************************************************************)
EXTENDS UlHarq, TLC

MCSymmetry == Permutations(UE)
=============================================================================
