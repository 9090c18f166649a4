----------------------------- MODULE PeerStatus ------------------------------
(***************************************************************************)
(* The view of connected peers that the p2p task keeps for GET /p2p and    *)
(* GET /health (src/p2p.rs, ConnectionEstablished and ConnectionClosed).   *)
(* The swarm opens and closes connections on its own; the task handles its *)
(* events one by one, and later.                                           *)
(***************************************************************************)
EXTENDS Integers, Sequences, FiniteSets, Functions

CONSTANTS
  Peer,
  Addr,       \* remote addresses, one for each connection of a peer
  MaxPerPeer, \* MAX_ESTABLISHED_PER_PEER
  MaxTotal,   \* MAX_ESTABLISHED_TOTAL
  MaxEvents   \* bound of the model: events the task has not handled yet

ASSUME PeerStatusAssumption ==
  MaxPerPeer \in Nat \ {0} /\ MaxTotal \in Nat \ {0} /\ MaxEvents \in Nat \ {0}

VARIABLES
  open,   \* the connections of the swarm
  events, \* those of its events that wait for the task
  status  \* PeerStatus: peer -> remote address

vars == <<open, events, status>>

Connection == [peer : Peer, addr : Addr]

(* left: num_established, the other connections of the peer.                *)
Event == [kind : {"established", "closed"}, conn : Connection, left : Nat]

OfPeer(p) == {c \in open : c.peer = p}

Init == open = {} /\ events = <<>> /\ status = [p \in {} |-> ""]

Emit(kind, c) ==
  /\ Len(events) < MaxEvents
  /\ events' = Append(events, [kind |-> kind, conn |-> c,
                               left |-> Cardinality({d \in OfPeer(c.peer) : d # c})])

(* connection_limits refuses what is past the ceilings.                     *)
Establish(c) ==
  /\ c \notin open
  /\ Cardinality(OfPeer(c.peer)) < MaxPerPeer /\ Cardinality(open) < MaxTotal
  /\ open' = open \cup {c}
  /\ Emit("established", c)
  /\ UNCHANGED status

Close(c) ==
  /\ c \in open
  /\ open' = open \ {c}
  /\ Emit("closed", c)
  /\ UNCHANGED status

(* Mutant: the peer is forgotten with any of its connections.               *)
ForgottenAny(e) == [p \in DOMAIN status \ {e.conn.peer} |-> status[p]]

(* Only the last connection takes the peer with it.                         *)
Forgotten(e) == IF e.left = 0 THEN Restrict(status, DOMAIN status \ {e.conn.peer}) ELSE status

(* Mutant: the address is not known yet.                                    *)
RecordedEmpty(e) ==
  [p \in DOMAIN status \cup {e.conn.peer} |-> IF p = e.conn.peer THEN "" ELSE status[p]]

Recorded(e) ==
  [p \in DOMAIN status \cup {e.conn.peer} |-> IF p = e.conn.peer THEN e.conn.addr ELSE status[p]]

HandleEvent ==
  /\ events # <<>>
  /\ events' = Tail(events)
  /\ status' = LET e == Head(events)
               IN IF e.kind = "established" THEN Recorded(e) ELSE Forgotten(e)
  /\ UNCHANGED open

Next == (\E c \in Connection : Establish(c) \/ Close(c)) \/ HandleEvent

Spec == Init /\ [][Next]_vars

-----------------------------------------------------------------------------
(* Properties.                                                             *)

(* Every variable holds a value of its kind.                                *)
TypeOK ==
  /\ open \subseteq Connection
  /\ events \in Seq(Event) /\ Len(events) <= MaxEvents
  /\ DOMAIN status \subseteq Peer /\ \A p \in DOMAIN status : status[p] \in Addr

(* p2p.rs:44-46, 380-385: once the task has caught up, the peers it shows   *)
(* are the connected ones, after connections of one peer that overlap and   *)
(* come and go in any order.                                                *)
ShowsConnected == events = <<>> => DOMAIN status = {c.peer : c \in open}
=============================================================================
