---------------------------- MODULE MCF32cUpload ----------------------------
(***************************************************************************)
(* Model checking of F32cUpload: two blocks. What the core has received    *)
(* before may have the checksum of either.                                 *)
(***************************************************************************)
EXTENDS F32cUpload

CONSTANTS s, t
TwoSums == <<s, t>>
=============================================================================
