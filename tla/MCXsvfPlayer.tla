---------------------------- MODULE MCXsvfPlayer ----------------------------
(***************************************************************************)
(* Model checking of XsvfPlayer: bytes of two bits, registers of one bit,  *)
(* which needs padding, and of two bits, a whole byte.                     *)
(***************************************************************************)
EXTENDS XsvfPlayer

\* a state every walk reaches and one that only a Pause leads to
FileStates  == {DRPAUSE, DREXIT2}
FoundStates == {DRSHIFT}
AddrChoice  == {{1}, {0, 1}}
DataChoice  == {{}, {0}}
=============================================================================
