------------------------------ MODULE MCGateway ------------------------------
(***************************************************************************)
(* Instances of Gateway for TLC: one hash, one admin request, two requests *)
(* of readers and one permit, so that a request can find the gateway busy. *)
(***************************************************************************)
EXTENDS Gateway, TLC

CONSTANTS h1, a1, r1, r2

OneHash  == {h1}
OneAdmin == {a1}
OneSize  == h1 :> 1
MCReader == {r1, r2}

(* The slots of the readers are interchangeable.                            *)
MCSymmetry == Permutations(MCReader)
=============================================================================
