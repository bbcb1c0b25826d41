--------------------------- MODULE MCVideoDecoder ---------------------------
(***************************************************************************)
(* TLC instance of VideoDecoder: the constants are in the configurations.  *)
(***************************************************************************)
EXTENDS VideoDecoder
=============================================================================
