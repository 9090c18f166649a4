------------------------------- MODULE MCPins --------------------------------
(***************************************************************************)
(* Instances of Pins for TLC: two domains, two hashes, and a chain that is *)
(* long enough for a domain of several pages with confirmed ones among     *)
(* them.                                                                   *)
(***************************************************************************)
EXTENDS Pins, TLC

CONSTANTS d1, d2, h1, h2

TwoDomains == {d1, d2}
TwoHashes  == {h1, h2}

MCSymmetry == Permutations(TwoDomains) \cup Permutations(TwoHashes)
=============================================================================
