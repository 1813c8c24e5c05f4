--------------------------- MODULE MCRequestLoop ---------------------------
(***************************************************************************)
(* Instances of RequestLoop for TLC.                                       *)
(***************************************************************************)
EXTENDS RequestLoopProps

CONSTANT r1
=============================================================================
