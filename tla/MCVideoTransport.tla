-------------------------- MODULE MCVideoTransport --------------------------
(***************************************************************************)
(* TLC instances of VideoTransport.                                        *)
(***************************************************************************)
EXTENDS VideoTransport
=============================================================================
