------------------------------- MODULE MCServe -------------------------------
(***************************************************************************)
(* An instance of Serve for TLC: more requests than permits and channel    *)
(* places together.                                                        *)
(***************************************************************************)
EXTENDS Serve

CONSTANTS h1, s1, s2, s3

OneHash    == {h1}
ThreeSlots == {s1, s2, s3}
=============================================================================
