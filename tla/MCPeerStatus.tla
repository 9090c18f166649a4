---------------------------- MODULE MCPeerStatus -----------------------------
(***************************************************************************)
(* An instance of Announce for TLC: two peers of up to two connections,    *)
(* one of which runs this program; two hashes of which one fits a message. *)
(***************************************************************************)
EXTENDS Announce

CONSTANTS p1, p2, a1, a2, h1, h2

MCPeer     == {p1, p2}
MCAddr     == {a1, a2}
MCHash     == {h1, h2}
MCListener == {p1}
=============================================================================
