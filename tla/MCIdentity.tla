----------------------------- MODULE MCIdentity ------------------------------
(***************************************************************************)
(* An instance of Identity for TLC: two processes and three keys, so that  *)
(* there is always a fresh one.                                            *)
(***************************************************************************)
EXTENDS Identity

CONSTANTS p1, p2, k1, k2, k3

TwoProcesses == {p1, p2}
ThreeKeys    == {k1, k2, k3}
=============================================================================
