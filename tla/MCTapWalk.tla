----------------------------- MODULE MCTapWalk ------------------------------
(***************************************************************************)
(* Model checking of TapWalk with every target the callers can name, and   *)
(* of the scans of chains that ChainScan computes from whole walks.        *)
(***************************************************************************)
EXTENDS ChainScan

MCTargets == WalkTarget
=============================================================================
