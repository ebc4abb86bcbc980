---------------------------- MODULE MCSvfReader -----------------------------
(***************************************************************************)
(* Model checking of SvfReader: every usual text up to MaxText characters, *)
(* cut into packets in every way.                                          *)
(***************************************************************************)
EXTENDS SvfReader

Classes == Char \ {"upper"}   \* letters that are upper case already add nothing
=============================================================================
