--------------------------- MODULE AnnounceProofs ----------------------------
(***************************************************************************)
(* Proofs about Announce and the PeerStatus it extends, for any peers,     *)
(* addresses, limits and length of the event queue.                        *)
(***************************************************************************)
EXTENDS Announce, FiniteSetTheorems, TLAPS

(* The waiting events after which the shown status of p is known whatever   *)
(* it was: each new connection, and the close of the last.                  *)
Decides(e, p) == e.conn.peer = p /\ (e.kind = "established" \/ e.left = 0)
Deciding(p)   == {i \in DOMAIN events : Decides(events[i], p)}

(* The last of them tells whether p is connected now; without any, what is  *)
(* shown does.                                                              *)
InStep(p) ==
  /\ Deciding(p) = {} => (p \in DOMAIN status <=> OfPeer(p) # {})
  /\ \A i \in Deciding(p) :
       (\A j \in Deciding(p) : j <= i) => (events[i].kind = "established" <=> OfPeer(p) # {})

PInv == TypeOK /\ IsFiniteSet(open) /\ \A p \in Peer : InStep(p)

LEMMA InitPInv == Init => PInv
<1> SUFFICES ASSUME Init PROVE PInv
  OBVIOUS
<1>1. TypeOK /\ IsFiniteSet(open)
  BY FS_EmptySet, PeerStatusAssumption DEF Init, TypeOK
<1>2. \A p \in Peer : InStep(p)
  BY DEF Init, InStep, Deciding, OfPeer
<1> QED BY <1>1, <1>2 DEF PInv

(* The swarm appends an event that decides for its peer, or changes nothing *)
(* for it.                                                                  *)
LEMMA Appended ==
  ASSUME PInv, NEW e \in Event, events' = Append(events, e), status' = status,
         \A p \in Peer \ {e.conn.peer} : OfPeer(p)' = OfPeer(p),
         \/ Decides(e, e.conn.peer) /\ (e.kind = "established" <=> OfPeer(e.conn.peer)' # {})
         \/ ~Decides(e, e.conn.peer)
              /\ (OfPeer(e.conn.peer)' # {} <=> OfPeer(e.conn.peer) # {})
  PROVE  \A p \in Peer : InStep(p)'
<1> TAKE p \in Peer
<1> DEFINE n == Len(events) + 1
<1>1. /\ events \in Seq(Event) /\ InStep(p)
      /\ DOMAIN events = 1..Len(events) /\ Len(events) \in Nat /\ DOMAIN events' = 1..n
      /\ \A i \in 1..Len(events) : events'[i] = events[i]
      /\ events'[n] = e
  BY DEF PInv, TypeOK
<1>2. CASE Decides(e, p)
  <2>1. Deciding(p)' = Deciding(p) \cup {n} /\ \A j \in Deciding(p)' : j <= n
    BY <1>1, <1>2 DEF Deciding
  <2>2. \A i \in Deciding(p)' : (\A j \in Deciding(p)' : j <= i) => i = n
    BY <1>1, <2>1 DEF Deciding
  <2>3. e.kind = "established" <=> OfPeer(p)' # {}
    BY <1>2 DEF Decides
  <2> QED BY <1>1, <2>1, <2>2, <2>3 DEF InStep
<1>3. CASE ~Decides(e, p)
  <2>1. Deciding(p)' = Deciding(p)
    BY <1>1, <1>3 DEF Deciding
  <2>2. OfPeer(p)' # {} <=> OfPeer(p) # {}
    BY <1>3
  <2>3. \A i \in Deciding(p) : events'[i] = events[i]
    BY <1>1 DEF Deciding
  <2> QED BY <1>1, <2>1, <2>2, <2>3 DEF InStep
<1> QED BY <1>2, <1>3

LEMMA EmitIs ==
  ASSUME PInv, NEW kind \in {"established", "closed"}, NEW c \in Connection, Emit(kind, c)
  PROVE  \E left \in Nat :
           /\ events' = Append(events, [kind |-> kind, conn |-> c, left |-> left])
           /\ [kind |-> kind, conn |-> c, left |-> left] \in Event
           /\ left = 0 <=> {d \in OfPeer(c.peer) : d # c} = {}
<1> DEFINE others == {d \in OfPeer(c.peer) : d # c}
<1>1. IsFiniteSet(others)
  BY FS_Subset DEF PInv, OfPeer
<1>2. Cardinality(others) \in Nat /\ (Cardinality(others) = 0 <=> others = {})
  BY <1>1, FS_CardinalityType, FS_EmptySet
<1> QED BY <1>2 DEF Emit, Event

LEMMA StepOpen ==
  ASSUME PInv, NEW c \in Connection, Establish(c)
  PROVE  PInv'
<1>1. PICK left \in Nat :
        LET e == [kind |-> "established", conn |-> c, left |-> left]
        IN events' = Append(events, e) /\ e \in Event
  BY EmitIs DEF Establish
<1>2. TypeOK' /\ IsFiniteSet(open')
  <2>1. open' = open \cup {c} /\ status' = status /\ Len(events) < MaxEvents
    BY DEF Establish, Emit
  <2>2. IsFiniteSet(open')
    BY <2>1, FS_AddElement DEF PInv
  <2>3. events' \in Seq(Event) /\ Len(events') = Len(events) + 1 /\ Len(events) \in Nat
    BY <1>1 DEF PInv, TypeOK
  <2> QED BY <2>1, <2>2, <2>3, PeerStatusAssumption DEF PInv, TypeOK
<1>3. c.peer \in Peer /\ OfPeer(c.peer)' # {} /\ \A p \in Peer \ {c.peer} : OfPeer(p)' = OfPeer(p)
  BY DEF Establish, OfPeer, Connection
<1>4. \A p \in Peer : InStep(p)'
  BY <1>1, <1>3, Appended DEF Establish, Decides
<1> QED BY <1>2, <1>4 DEF PInv

LEMMA StepClose ==
  ASSUME PInv, NEW c \in Connection, Close(c)
  PROVE  PInv'
<1>1. PICK left \in Nat :
        /\ LET e == [kind |-> "closed", conn |-> c, left |-> left]
           IN events' = Append(events, e) /\ e \in Event
        /\ left = 0 <=> {d \in OfPeer(c.peer) : d # c} = {}
  BY EmitIs DEF Close
<1>2. TypeOK' /\ IsFiniteSet(open')
  <2>1. open' \subseteq open /\ status' = status /\ Len(events) < MaxEvents
    BY DEF Close, Emit
  <2>2. IsFiniteSet(open')
    BY <2>1, FS_Subset DEF PInv
  <2>3. events' \in Seq(Event) /\ Len(events') = Len(events) + 1 /\ Len(events) \in Nat
    BY <1>1 DEF PInv, TypeOK
  <2> QED BY <2>1, <2>2, <2>3, PeerStatusAssumption DEF PInv, TypeOK
<1>3. /\ c.peer \in Peer /\ OfPeer(c.peer) # {}
      /\ OfPeer(c.peer)' = {d \in OfPeer(c.peer) : d # c}
      /\ \A p \in Peer \ {c.peer} : OfPeer(p)' = OfPeer(p)
  BY DEF Close, OfPeer, Connection
<1>4. \A p \in Peer : InStep(p)'
  BY <1>1, <1>3, Appended DEF Close, Decides
<1> QED BY <1>2, <1>4 DEF PInv

(* The task takes the first event; what decides for a peer and waits still  *)
(* does, and if there is none the event decided, or nothing changed.        *)
LEMMA StepHandle ==
  ASSUME PInv, HandleEvent
  PROVE  PInv'
<1> DEFINE e == Head(events)
<1>1. /\ events \in Seq(Event) /\ e \in Event /\ e = events[1]
      /\ Len(events) \in Nat \ {0} /\ DOMAIN events = 1..Len(events)
      /\ events' \in Seq(Event) /\ Len(events') = Len(events) - 1
      /\ DOMAIN events' = 1..(Len(events) - 1)
      /\ \A i \in DOMAIN events' : events'[i] = events[i + 1]
  BY DEF PInv, TypeOK, HandleEvent
<1>2. e.conn.peer \in Peer /\ e.conn.addr \in Addr /\ e.kind \in {"established", "closed"}
  BY <1>1 DEF Event, Connection
<1>3. /\ e.kind = "established" =>
           /\ DOMAIN status' = DOMAIN status \cup {e.conn.peer}
           /\ \A p \in DOMAIN status' : status'[p] \in Addr
      /\ e.kind = "closed" =>
           /\ DOMAIN status' = IF e.left = 0 THEN DOMAIN status \ {e.conn.peer} ELSE DOMAIN status
           /\ \A p \in DOMAIN status' : status'[p] \in Addr
  BY <1>2 DEF HandleEvent, Recorded, Forgotten, Restrict, PInv, TypeOK
<1>4. TypeOK' /\ IsFiniteSet(open')
  <2>1. open' = open
    BY DEF HandleEvent
  <2>2. DOMAIN status' \subseteq Peer /\ \A p \in DOMAIN status' : status'[p] \in Addr
    BY <1>2, <1>3 DEF PInv, TypeOK
  <2> QED BY <1>1, <2>1, <2>2, PeerStatusAssumption DEF PInv, TypeOK
<1>5. ASSUME NEW p \in Peer
      PROVE  InStep(p)'
  <2>1. Deciding(p)' = {i \in 1..(Len(events) - 1) : i + 1 \in Deciding(p)}
    BY <1>1 DEF Deciding
  <2>2. InStep(p) /\ OfPeer(p)' = OfPeer(p)
    BY DEF PInv, OfPeer, HandleEvent
  <2>3. CASE Deciding(p) \subseteq {1}
    <3>1. Deciding(p)' = {}
      BY <1>1, <2>1, <2>3
    <3>2. CASE 1 \in Deciding(p)
      <4>1. e.kind = "established" <=> OfPeer(p) # {}
        BY <1>1, <2>2, <2>3, <3>2 DEF InStep
      <4>2. p \in DOMAIN status' <=> e.kind = "established"
        BY <1>1, <1>2, <1>3, <3>2 DEF Deciding, Decides
      <4> QED BY <2>2, <3>1, <4>1, <4>2 DEF InStep
    <3>3. CASE 1 \notin Deciding(p)
      <4>1. p \in DOMAIN status' <=> p \in DOMAIN status
        BY <1>1, <1>2, <1>3, <3>3 DEF Deciding, Decides
      <4> QED BY <2>2, <2>3, <3>1, <3>3, <4>1 DEF InStep
    <3> QED BY <3>2, <3>3
  <2>4. CASE ~(Deciding(p) \subseteq {1})
    <3>1. Deciding(p)' # {} /\ Deciding(p) \subseteq 1..Len(events)
      <4>1. PICK i \in Deciding(p) : i # 1
        BY <2>4
      <4>2. i \in 1..Len(events)
        BY <1>1 DEF Deciding
      <4>3. i - 1 \in Deciding(p)'
        BY <1>1, <2>1, <4>1, <4>2
      <4> QED BY <1>1, <4>3 DEF Deciding
    <3>2. ASSUME NEW i \in Deciding(p)', \A j \in Deciding(p)' : j <= i
          PROVE  events'[i].kind = "established" <=> OfPeer(p)' # {}
      <4>1. i + 1 \in Deciding(p) /\ i \in 1..(Len(events) - 1) /\ events'[i] = events[i + 1]
        BY <1>1, <2>1
      <4>2. \A j \in Deciding(p) : j <= i + 1
        <5> TAKE j \in Deciding(p)
        <5>1. CASE j = 1
          BY <1>1, <4>1, <5>1
        <5>2. CASE j # 1
          <6>1. j \in 1..Len(events) /\ j - 1 \in Deciding(p)'
            BY <1>1, <2>1, <3>1, <5>2
          <6> QED BY <1>1, <3>2, <4>1, <6>1
        <5> QED BY <5>1, <5>2
      <4> QED BY <2>2, <4>1, <4>2 DEF InStep
    <3> QED BY <3>1, <3>2 DEF InStep
  <2> QED BY <2>3, <2>4
<1> QED BY <1>4, <1>5 DEF PInv

LEMMA StepPInv == PInv /\ [Next]_vars => PInv'
<1>1. PInv /\ UNCHANGED vars => PInv'
  BY DEF vars, PInv, TypeOK, InStep, Deciding, OfPeer
<1> QED BY <1>1, StepOpen, StepClose, StepHandle DEF Next

-----------------------------------------------------------------------------
(* Announce.                                                               *)

LEMMA AnnStepIsStep == AnnInit /\ [][AnnNext]_annVars => Init /\ [][Next]_vars
<1>1. AnnInit => Init
  BY DEF AnnInit
<1>2. [AnnNext]_annVars => [Next]_vars
  BY DEF AnnNext, Tick, Handle, Open, Lost, Subscribe, Deliver, Drop, PeerRestarts, Pin, Purge,
         Next, annVars
<1> QED BY <1>1, <1>2, PTL

LEMMA PInvAlways == AnnSpec => []PInv
BY InitPInv, StepPInv, AnnStepIsStep, PTL DEF AnnSpec

(* PeerStatus.ShowsConnected for every instance of Announce: however        *)
(* connections of a peer overlap and the task lags, the peers it shows once *)
(* it has caught up are the connected ones.                                 *)
THEOREM ShowsTheConnected == AnnSpec => []ShowsConnected
<1>1. PInv => ShowsConnected
  <2> SUFFICES ASSUME PInv, events = <<>> PROVE DOMAIN status = {c.peer : c \in open}
    BY DEF ShowsConnected
  <2>1. \A p \in Peer : p \in DOMAIN status <=> OfPeer(p) # {}
    BY DEF PInv, InStep, Deciding
  <2>2. DOMAIN status \subseteq Peer /\ \A c \in open : c.peer \in Peer
    BY DEF PInv, TypeOK, Connection
  <2> QED BY <2>1, <2>2 DEF OfPeer
<1> QED BY <1>1, PInvAlways, PTL

LEMMA StepAnnTypeOK == AnnTypeOK /\ TypeOK' /\ [AnnNext]_annVars => AnnTypeOK'
<1> SUFFICES ASSUME AnnTypeOK, TypeOK', [AnnNext]_annVars PROVE AnnTypeOK'
  OBVIOUS
<1> USE AnnounceAssumption DEF AnnTypeOK
<1>0. ASSUME UNCHANGED <<held, open, subscribed>>, Publish \/ UNCHANGED mail, known' = known
      PROVE  AnnTypeOK'
  BY <1>0 DEF Publish, Announcement, Connected, OfPeer
<1>1. CASE Tick
  BY <1>0, <1>1 DEF Tick, vars
<1>2. CASE Handle
  BY <1>0, <1>2 DEF Handle, HandleEvent
<1>3. ASSUME NEW c \in Connection, Open(c)
      PROVE  AnnTypeOK'
  BY <1>3 DEF Open, Establish, Connected, OfPeer, gossip
<1>4. ASSUME NEW c \in Connection, Lost(c)
      PROVE  AnnTypeOK'
  <2>1. /\ \A p \in Listener : Connected(p) /\ p # c.peer => Connected(p)'
        /\ OfPeer(c.peer) # {c} => Connected(c.peer)'
    BY <1>4 DEF Lost, Close, Connected, OfPeer
  <2> QED BY <1>4, <2>1 DEF Lost
<1>5. ASSUME NEW p \in Listener, Subscribe(p) \/ Deliver(p) \/ Drop(p) \/ PeerRestarts(p)
      PROVE  AnnTypeOK'
  BY <1>5 DEF Subscribe, Deliver, Drop, PeerRestarts, Connected, OfPeer, vars
<1>6. ASSUME NEW h \in Hash, Pin(h) \/ Purge(h)
      PROVE  AnnTypeOK'
  BY <1>6 DEF Pin, Purge, Connected, OfPeer, vars, gossip
<1>7. CASE UNCHANGED annVars
  BY <1>7 DEF annVars, vars, gossip, Connected, OfPeer
<1> QED BY <1>1, <1>2, <1>3, <1>4, <1>5, <1>6, <1>7 DEF AnnNext

(* Announce.AnnTypeOK for every instance: an announcement is on its way     *)
(* only to connected subscribers.                                           *)
THEOREM AnnounceTypeCorrect == AnnSpec => []AnnTypeOK
<1>1. AnnInit => AnnTypeOK
  BY InitPInv DEF AnnInit, AnnTypeOK, PInv
<1>2. PInv => TypeOK
  BY DEF PInv
<1> QED BY <1>1, <1>2, StepAnnTypeOK, PInvAlways, PTL DEF AnnSpec
=============================================================================
