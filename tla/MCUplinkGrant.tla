--------------------------- MODULE MCUplinkGrant ---------------------------
(***************************************************************************)
(* TLC instances of UplinkGrant.                                           *)
(***************************************************************************)
EXTENDS UplinkGrant
=============================================================================
