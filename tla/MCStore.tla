------------------------------- MODULE MCStore -------------------------------
(***************************************************************************)
(* Instances of Store for TLC: two hashes of different sizes that do not   *)
(* fit the budget together, and two concurrent admin requests.  Under      *)
(* faults one hash is enough: the properties checked then relate a hash    *)
(* only to itself, and the index to its total.                             *)
(***************************************************************************)
EXTENDS Store, TLC

CONSTANTS h1, h2, a1, a2

MCHash   == {h1, h2}
OneHash  == {h1}
MCAdmin  == {a1, a2}
MCSize   == h1 :> 1 @@ h2 :> 2
OneSize  == h1 :> 1

(* The admin slots are interchangeable; the hashes are not (their sizes).   *)
MCSymmetry == Permutations(MCAdmin)
=============================================================================
