------------------------- MODULE MCTranscriberStream -------------------------
(***************************************************************************)
(* Instances of TranscriberStream for TLC.                                 *)
(***************************************************************************)
EXTENDS TranscriberStream
=============================================================================
