----------------------------- MODULE MCAdmission -----------------------------
(***************************************************************************)
(* Instances of Admission for TLC.                                         *)
(***************************************************************************)
EXTENDS Admission, TLC

CONSTANTS c1, c2, a1, a2, a3, a4, k1, k2, k3

\* Two clients with two addresses each; one prefix holds an address of both.
TwoOwners == (a1 :> c1) @@ (a2 :> c2) @@ (a3 :> c2) @@ (a4 :> c1)
ThreePrefixes == (a1 :> k1) @@ (a2 :> k1) @@ (a3 :> k2) @@ (a4 :> k3)
=============================================================================
