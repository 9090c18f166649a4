------------------------------- MODULE Replica -------------------------------
(***************************************************************************)
(* What a node promises about the payloads on its disk, whatever its       *)
(* sources.  It admits a payload only while the chain lists it and the     *)
(* operator has not taken it down, one at a time, and only what it has     *)
(* admitted can come to its disk, in the right bytes and of a length it    *)
(* accepts: after a takedown at most the one payload that was admitted     *)
(* before.  It loses a payload only to a takedown, at once or at the start *)
(* after it, though the takedown may have been withdrawn by then.          *)
(***************************************************************************)
CONSTANTS Hash, Oversized

VARIABLES
  listed,   \* hashes the chain lists
  denied,   \* hashes the operator has taken down
  held,     \* hash -> "none" or the bytes on disk
  admitted, \* the hash whose payload is on its way to the disk, if any
  doomed    \* hashes that a takedown has yet to remove

vars == <<listed, denied, held, admitted, doomed>>

Init ==
  /\ listed = {} /\ denied = {} /\ held = [h \in Hash |-> "none"]
  /\ admitted = {} /\ doomed = {}

List(h) == listed' = listed \cup {h} /\ UNCHANGED <<denied, held, admitted, doomed>>

Admit(h) ==
  /\ admitted = {} /\ h \in listed \ (denied \cup Oversized)
  /\ admitted' = {h}
  /\ UNCHANGED <<listed, denied, held, doomed>>

Gain(h) ==
  /\ h \in admitted
  /\ held' = [held EXCEPT ![h] = "good"]
  /\ admitted' = {}
  /\ UNCHANGED <<listed, denied, doomed>>

GiveUp == admitted' = {} /\ UNCHANGED <<listed, denied, held, doomed>>

TakeDown(h) ==
  /\ denied' = denied \cup {h} /\ doomed' = doomed \cup {h}
  /\ UNCHANGED <<listed, held, admitted>>

Withdraw(h) == denied' = denied \ {h} /\ UNCHANGED <<listed, held, admitted, doomed>>

(* Another takedown of the same hash may be on its way.                     *)
Lose(h) ==
  /\ h \in doomed
  /\ held' = [held EXCEPT ![h] = "none"]
  /\ doomed' \in {doomed, doomed \ {h}}
  /\ UNCHANGED <<listed, denied, admitted>>

Restart ==
  /\ held' = [h \in Hash |-> IF h \in denied THEN "none" ELSE held[h]]
  /\ admitted' = {} /\ doomed' = {}
  /\ UNCHANGED <<listed, denied>>

Next ==
  \/ \E h \in Hash : List(h) \/ Admit(h) \/ Gain(h) \/ TakeDown(h) \/ Withdraw(h) \/ Lose(h)
  \/ GiveUp \/ Restart

Spec == Init /\ [][Next]_vars
=============================================================================
