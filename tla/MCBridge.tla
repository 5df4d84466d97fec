------------------------------- MODULE MCBridge -------------------------------
(***************************************************************************)
(* Instances of Bridge for TLC.                                            *)
(***************************************************************************)
EXTENDS Bridge, TLC

Symmetric == Permutations(Tasks) \cup Permutations(Paths)
=============================================================================
