------------------------------- MODULE MCWebSd -------------------------------
(***************************************************************************)
(* Model checking of WebSd: one SVF file, or two.                          *)
(***************************************************************************)
EXTENDS WebSd, TLC

CONSTANTS f32c, other
OneFile  == {f32c}
TwoFiles == {f32c, other}
=============================================================================
