------------------------------- MODULE MCFetch -------------------------------
(***************************************************************************)
(* Instances of Fetch for TLC: p1 runs this program, p2 need not; o is the *)
(* content origin and g a gateway that the chain names.  The payload of h2 *)
(* is over the limit.                                                      *)
(***************************************************************************)
EXTENDS Fetch

CONSTANTS h1, h2, p1, p2, a1, o, g

TwoHashes == {h1, h2}
OneHash   == {h1}
LongHash  == {h2}
Nothing   == {}
TwoUrls   == {o, g}
OneUrl    == {o}
JustG     == {g}
NoHints   == [h \in Hash |-> {}]
TwoPeers  == {p1, p2}
OnePeer   == {p1}
OneAdmin  == {a1}
=============================================================================
