---------------------------- MODULE MCSvfSession ----------------------------
(***************************************************************************)
(* Model checking of SvfSession: two clients with files of different       *)
(* length.                                                                 *)
(***************************************************************************)
EXTENDS SvfSession, TLC

CONSTANTS a, b
TwoClients  == {a, b}
ThreeAndTwo == a :> 3 @@ b :> 2
=============================================================================
