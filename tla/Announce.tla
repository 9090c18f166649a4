------------------------------ MODULE Announce -------------------------------
(***************************************************************************)
(* What the node tells its peers it holds (src/p2p.rs: publish_held, on    *)
(* every new connection and every 20 s), on top of the connection events   *)
(* of PeerStatus.  An announcement is one gossip message with all hashes   *)
(* held, and gossipsub delivers it, if at all, only to peers whose         *)
(* subscription to the topic has arrived.                                  *)
(***************************************************************************)
EXTENDS PeerStatus

CONSTANTS
  Hash,
  Listener, \* the peers that run this program
  MaxLines  \* hashes that fit in one gossip message

ASSUME AnnounceAssumption == Listener \subseteq Peer /\ MaxLines \in Nat

VARIABLES
  held,       \* Store.index
  subscribed, \* peers known to have subscribed
  mail,       \* the announcement under way to each peer, {} when there is none
  known       \* the hashes each peer has heard this node announce

gossip  == <<subscribed, mail, known>>
annVars == <<vars, held, gossip>>

AnnInit ==
  /\ Init
  /\ held = {} /\ subscribed = {}
  /\ mail = [p \in Listener |-> {}] /\ known = [p \in Listener |-> {}]

Connected(p) == OfPeer(p) # {}

(* publish fails silently when the message is too long.                     *)
Announcement == IF Cardinality(held) <= MaxLines THEN held ELSE {}

(* publish_held.  It takes the place of one still under way, which then is  *)
(* lost; nothing is published when nothing is held.                         *)
Publish ==
  mail' = IF Announcement = {} THEN mail
          ELSE [p \in Listener |-> IF p \in subscribed THEN Announcement ELSE mail[p]]

(* Mutant: there is no interval; only connections are announced to.         *)
TickNever == FALSE /\ UNCHANGED annVars

(* announce.tick()                                                          *)
Tick ==
  /\ Publish
  /\ UNCHANGED <<vars, held, subscribed, known>>

(* A new connection is announced to at once, before its peer subscribes.    *)
Handle ==
  /\ HandleEvent
  /\ IF Head(events).kind = "established" THEN Publish ELSE UNCHANGED mail
  /\ UNCHANGED <<held, subscribed, known>>

-----------------------------------------------------------------------------
(* libp2p, the peers, and the store.                                       *)

Open(c) == Establish(c) /\ UNCHANGED <<held, gossip>>

(* With its last connection a peer is no longer a subscriber.               *)
Lost(c) ==
  /\ Close(c)
  /\ LET gone == {p \in {c.peer} : OfPeer(p) = {c}}
     IN /\ subscribed' = subscribed \ gone
        /\ mail' = [p \in Listener |-> IF p \in gone THEN {} ELSE mail[p]]
  /\ UNCHANGED <<held, known>>

Subscribe(p) ==
  /\ Connected(p) /\ p \notin subscribed
  /\ subscribed' = subscribed \cup {p}
  /\ UNCHANGED <<vars, held, mail, known>>

Deliver(p) ==
  /\ mail[p] # {}
  /\ known' = [known EXCEPT ![p] = @ \cup mail[p]]
  /\ mail' = [mail EXCEPT ![p] = {}]
  /\ UNCHANGED <<vars, held, subscribed>>

(* A full send queue, or no mesh.                                           *)
Drop(p) ==
  /\ mail[p] # {}
  /\ mail' = [mail EXCEPT ![p] = {}]
  /\ UNCHANGED <<vars, held, subscribed, known>>

(* A peer remembers what it heard until it is started again.                *)
PeerRestarts(p) ==
  /\ ~Connected(p)
  /\ known' = [known EXCEPT ![p] = {}]
  /\ UNCHANGED <<vars, held, subscribed, mail>>

(* put, and purge.                                                          *)
Pin(h)   == held' = held \cup {h} /\ UNCHANGED <<vars, gossip>>
Purge(h) == held' = held \ {h} /\ UNCHANGED <<vars, gossip>>

AnnNext ==
  \/ Tick \/ Handle
  \/ \E c \in Connection : Open(c) \/ Lost(c)
  \/ \E p \in Listener : Subscribe(p) \/ Deliver(p) \/ Drop(p) \/ PeerRestarts(p)
  \/ \E h \in Hash : Pin(h) \/ Purge(h)

AnnSpec == AnnInit /\ [][AnnNext]_annVars

(* The loop and its interval keep running; identify and gossipsub tell of   *)
(* the topics of a connected peer; not every message is dropped.            *)
AnnFairSpec ==
  /\ AnnSpec
  /\ WF_annVars(Tick) /\ WF_annVars(Handle)
  /\ \A p \in Listener : WF_annVars(Subscribe(p)) /\ SF_annVars(Deliver(p))

-----------------------------------------------------------------------------
(* Properties.                                                             *)

(* Every variable holds a value of its kind, and mail is under way only to  *)
(* subscribers, subscribers are connected.                                  *)
AnnTypeOK ==
  /\ TypeOK
  /\ held \subseteq Hash
  /\ subscribed \subseteq {p \in Listener : Connected(p)}
  /\ mail \in [Listener -> SUBSET Hash] /\ known \in [Listener -> SUBSET Hash]
  /\ \A p \in Listener : mail[p] # {} => p \in subscribed

(* p2p.rs:1-5, 228, 359-379: a peer that runs this program and stays        *)
(* connected learns of a hash that stays held, also when it connected       *)
(* before the hash was held, or the hash was held before and the peer's     *)
(* subscription came after the announcement to it; unless the hashes held   *)
(* are too many for one message.                                            *)
Announced(p, h) == Connected(p) /\ h \in held /\ Cardinality(held) <= MaxLines
LearnsHeld ==
  \A p \in Listener, h \in Hash : <>[]Announced(p, h) => <>[](h \in known[p])
=============================================================================
