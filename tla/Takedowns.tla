------------------------------ MODULE Takedowns ------------------------------
(***************************************************************************)
(* What the denylist promises the operator, whatever the store does inside *)
(* (store.rs:7-9, 39-42, 176-178, 199-201): a durable set of hashes that    *)
(* changes one entry at a time, from which nothing the operator was told    *)
(* is taken down disappears until the operator allows it again.             *)
(***************************************************************************)
CONSTANT Hash

VARIABLES
  listed,  \* the hashes on file
  told     \* takedowns reported as done and not withdrawn since

Init == listed = {} /\ told = {}

(* A takedown reaches the file.                                             *)
List(h) == listed' = listed \cup {h} /\ UNCHANGED told

(* The operator asks for h to be allowed again.                             *)
Withdraw(h) == told' = told \ {h} /\ UNCHANGED listed

(* Only a withdrawn takedown leaves the file.                               *)
Unlist(h) == h \notin told /\ listed' = listed \ {h} /\ UNCHANGED told

(* Only a takedown that is on file is reported as done.                     *)
Ack(h) == h \in listed /\ told' = told \cup {h} /\ UNCHANGED listed

Next == \E h \in Hash : List(h) \/ Withdraw(h) \/ Unlist(h) \/ Ack(h)

Spec == Init /\ [][Next]_<<listed, told>>
=============================================================================
