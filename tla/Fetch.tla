-------------------------------- MODULE Fetch --------------------------------
(***************************************************************************)
(* How a node comes to hold what the chain lists: the ingest task (main.rs *)
(* and acquire.rs) walks the confirmed pins, tries the content origin and  *)
(* then asks the p2p task, which picks a provider it learned of by gossip, *)
(* sends it a Get, and hands back only bytes that match the hash (p2p.rs). *)
(* The two tasks share nothing but the command channel and the oneshot of  *)
(* each Want.  Takedowns run beside them.  Of the store, only what decides *)
(* whether a hash is held is here; module Store has its locks, its budget  *)
(* and its failures.                                                       *)
(***************************************************************************)
EXTENDS Integers, Sequences, FiniteSets

CONSTANTS
  Hash,           \* the payload hashes
  Oversized,      \* those whose payload is longer than CSD_MAX_OBJECT
  Url,            \* where HTTP can fetch from: the origin, hints, gateways
  Origin,         \* the content origin, CSD_ORIGIN
  Public,         \* urls with a public host (host_is_public)
  Hint,           \* hash -> its on-chain uri, if hints are followed
  Reliable,       \* urls that give the payload for as long as they are up
  Peer,           \* the remote peers
  Honest,         \* those that run this program and hold all that fit
  MaxTracked,     \* MAX_TRACKED_HASHES
  MaxPeersPerHash,\* MAX_PEERS_PER_HASH
  ChannelSize,    \* places in the command channel
  MaxDials,       \* bound of the model: entry peers found in a pass
  Admin,          \* admin requests that can be under way at a time
  Disputed,       \* hashes the operator denies and allows
  NoHash,         \* nothing
  Faults          \* what the environment may do

(* offline: a peer goes away and comes back; busy: an honest peer refuses a *)
(* Get or is too slow; refuse: put fails; rpc: the node's list is cut short *)
(* and the indexer's too; takedown: the operator denies and allows; crash:  *)
(* the process restarts; p2p: the p2p task ends during its start.           *)
FaultKinds == {"offline", "busy", "refuse", "rpc", "takedown", "crash", "p2p"}

ASSUME FetchAssumption ==
  /\ Oversized \subseteq Hash /\ Honest \subseteq Peer /\ Disputed \subseteq Hash
  /\ Origin \in Url /\ Reliable \subseteq Url /\ Hint \in [Hash -> SUBSET Url]
  /\ MaxTracked \in Nat \ {0} /\ MaxPeersPerHash \in Nat \ {0}
  /\ ChannelSize \in Nat \ {0} /\ MaxDials \in Nat
  /\ NoHash \notin Hash
  /\ Faults \subseteq FaultKinds

VARIABLES
  confirmed,   \* hashes the chain lists
  up,          \* reliable urls that are still there
  online,      \* honest peers that can be reached
  blob,        \* the files of the store: hash -> "none" or the bytes on disk
  index,       \* hashes in the index
  denied,      \* the denylist
  admin,       \* what each admin request has yet to purge, and where it is
  ingest,      \* the ingest task
  todo,        \* pins the current pass has yet to look at
  found,       \* gateways the current pass was told of
  dials,       \* entry peers the current pass has yet to send to the p2p task
  loop,        \* the p2p task
  chan,        \* the command channel: the hash of a Want, or NoHash for a Dial
  providers,   \* tracked hash -> peers that announced it
  front,       \* tracked hash -> the peer that `iter().next()` returns
  pending,     \* Gets in flight
  reply        \* the oneshot of the Want that ingest waits for

world    == <<confirmed, up, online>>
store    == <<blob, index, denied, admin>>
pass     == <<todo, found, dials>>
p2pVars  == <<loop, providers, front, pending>>
vars     == <<world, store, ingest, pass, chan, p2pVars, reply>>

Answer   == {"good", "bad", "none"}   \* bytes that hash to what was asked for, or do not
At(step, h, bytes) == [at |-> step, h |-> h, bytes |-> bytes]
Asleep   == At("sleep", NoHash, "none")
Dialing  == At("dial", NoHash, "none")
NextPin  == At("next", NoHash, "none")
Working  == [at : {"has", "acquire", "ask", "await", "put", "write", "insert"},
             h : Hash, bytes : Answer]
Purge    == [at : {"unlink", "unindex"}, h : Hash]
Idle     == [at |-> "idle", h |-> NoHash]
Get      == [h : Hash, peer : Peer]
Empty    == [h \in {} |-> {}]

Init ==
  /\ confirmed = {} /\ up = Reliable /\ online = Honest
  /\ blob = [h \in Hash |-> "none"] /\ index = {} /\ denied = {}
  /\ admin = [a \in Admin |-> Idle]
  /\ ingest = Asleep /\ todo = {} /\ found = {} /\ dials = 0
  /\ loop = "starting" /\ chan = <<>>
  /\ providers = Empty /\ front = Empty /\ pending = {} /\ reply = "unsent"

Gateway == Url \ {Origin}

(* What fetch_capped with the hash check, and accept_get, let through.      *)
Verified(got, h) == IF got = "good" /\ h \notin Oversized THEN "good" ELSE "none"

-----------------------------------------------------------------------------
(* The ingest task.                                                        *)

(* gateways::discover and peers::discover.                                  *)
StartPass(gateways, peers) ==
  /\ ingest = Asleep
  /\ ingest' = Dialing
  /\ found' = gateways /\ dials' = peers
  /\ UNCHANGED <<world, store, todo, chan, p2pVars, reply>>

(* Sending waits for a place in the channel, and fails at once when the p2p *)
(* task has ended.                                                          *)
CanSend == loop = "ended" \/ Len(chan) < ChannelSize
Send(cmd) == chan' = IF loop = "ended" THEN chan ELSE Append(chan, cmd)

Dial ==
  /\ ingest = Dialing /\ dials > 0
  /\ CanSend /\ Send(NoHash)
  /\ dials' = dials - 1
  /\ UNCHANGED <<world, store, ingest, todo, found, p2pVars, reply>>

(* confirmed_pins.                                                          *)
ReadPins(list) ==
  /\ ingest = Dialing /\ dials = 0
  /\ ingest' = NextPin
  /\ todo' = list
  /\ UNCHANGED <<world, store, found, dials, chan, p2pVars, reply>>

(* candidate_urls and expand: the origin, and what else has a public host.  *)
Candidates(h) == {Origin} \cup ((Hint[h] \cup found) \cap Public)

(* is_denied; the pins are taken by height, which is first does not matter. *)
LookAt(h) ==
  /\ ingest = NextPin
  /\ h \in todo
  /\ todo' = todo \ {h}
  /\ ingest' = IF h \in denied THEN ingest ELSE At("has", h, "none")
  /\ UNCHANGED <<world, store, found, dials, chan, p2pVars, reply>>

(* Store::has, which looks at the index and not at the file.                *)
Has ==
  /\ ingest.at = "has"
  /\ ingest' = IF ingest.h \in index THEN NextPin ELSE At("acquire", ingest.h, "none")
  /\ UNCHANGED <<world, store, pass, chan, p2pVars, reply>>

(* A reliable url that is gone has no payload; any other may have it.       *)
MayHave(u) == u \in Reliable => u \in up

Answers(h) == {answers \in [Candidates(h) -> Answer] :
                 \A u \in Candidates(h) : answers[u] = "good" => MayHave(u)}

(* Mutant: the first url decides.                                           *)
FirstOnly(h, answers) ==
  IF Verified(answers[Origin], h) = "none" THEN {} ELSE {Verified(answers[Origin], h)}

(* The urls one after the other, up to the first whose answer is verified.  *)
Taken(h, answers) == {Verified(answers[u], h) : u \in Candidates(h)} \ {"none"}

(* acquire; nobody else sees what happens in between.                       *)
Acquire(h, answers) ==
  /\ ingest = At("acquire", h, "none")
  /\ \/ \E bytes \in Taken(h, answers) : ingest' = At("put", h, bytes)
     \/ Taken(h, answers) = {} /\ ingest' = At("ask", h, "none")
  /\ UNCHANGED <<world, store, pass, chan, p2pVars, reply>>

Ask ==
  /\ ingest.at = "ask"
  /\ CanSend /\ Send(ingest.h)
  /\ ingest' = IF loop = "ended" THEN NextPin ELSE At("await", ingest.h, "none")
  /\ UNCHANGED <<world, store, pass, p2pVars, reply>>

(* Mutant: the hash of the Want stays behind.                               *)
AwaitedKept ==
  /\ ingest.at = "await"
  /\ reply # "unsent"
  /\ ingest' = [ingest EXCEPT !.at = IF reply = "none" THEN "next" ELSE "put", !.bytes = reply]
  /\ reply' = "unsent"
  /\ UNCHANGED <<world, store, pass, chan, p2pVars>>

Awaited ==
  /\ ingest.at = "await"
  /\ reply # "unsent"
  /\ ingest' = IF reply = "none" THEN NextPin ELSE At("put", ingest.h, reply)
  /\ reply' = "unsent"
  /\ UNCHANGED <<world, store, pass, chan, p2pVars>>

(* Mutant: put leaves the denylist to LookAt.                               *)
CheckBudget ==
  /\ ingest.at = "put"
  /\ \/ ingest' = [ingest EXCEPT !.at = "write"]
     \/ "refuse" \in Faults /\ ingest' = NextPin
  /\ UNCHANGED <<world, store, pass, chan, p2pVars, reply>>

(* Store::put: the denylist, and the budget that may refuse.                *)
CheckPut ==
  /\ ingest.at = "put"
  /\ \/ ingest.h \notin denied /\ ingest' = [ingest EXCEPT !.at = "write"]
     \/ (ingest.h \in denied \/ "refuse" \in Faults) /\ ingest' = NextPin
  /\ UNCHANGED <<world, store, pass, chan, p2pVars, reply>>

(* The write and the rename; a deny since the check does not stop them.     *)
WriteFile ==
  /\ ingest.at = "write"
  /\ \/ /\ blob' = [blob EXCEPT ![ingest.h] = ingest.bytes]
        /\ ingest' = [ingest EXCEPT !.at = "insert"]
     \/ "refuse" \in Faults /\ ingest' = NextPin /\ UNCHANGED blob
  /\ UNCHANGED <<world, index, denied, admin, pass, chan, p2pVars, reply>>

Insert ==
  /\ ingest.at = "insert"
  /\ index' = index \cup {ingest.h}
  /\ ingest' = NextPin
  /\ UNCHANGED <<world, blob, denied, admin, pass, chan, p2pVars, reply>>

EndPass ==
  /\ ingest = NextPin
  /\ todo = {}
  /\ ingest' = Asleep /\ found' = {}
  /\ UNCHANGED <<world, store, todo, dials, chan, p2pVars, reply>>

-----------------------------------------------------------------------------
(* The p2p task: one event at a time, to its end.                          *)

(* The oneshot of a Want that is dropped reads as None.                     *)
Wants    == {i \in DOMAIN chan : chan[i] # NoHash}
Dropped  == reply' = IF Wants # {} THEN "none" ELSE reply

(* Identity, transport and listener; what fails there ends the task, and    *)
(* the receiver of the channel is dropped with it.                          *)
Started ==
  /\ loop = "starting"
  /\ \/ loop' = "running" /\ UNCHANGED <<chan, reply>>
     \/ "p2p" \in Faults /\ loop' = "ended" /\ chan' = <<>> /\ Dropped
  /\ UNCHANGED <<world, store, ingest, pass, providers, front, pending>>

(* Want: ask the first known provider, or answer None; Dial: nothing here.  *)
HandleCmd ==
  /\ loop = "running"
  /\ chan # <<>>
  /\ chan' = Tail(chan)
  /\ LET h == Head(chan) IN
     IF h = NoHash THEN UNCHANGED <<pending, reply>>
     ELSE IF h \in DOMAIN providers
            THEN pending' = pending \cup {[h |-> h, peer |-> front[h]]} /\ UNCHANGED reply
            ELSE reply' = "none" /\ UNCHANGED pending
  /\ UNCHANGED <<world, store, ingest, pass, loop, providers, front>>

(* Mutant: a hash that is not tracked yet is, whatever the bound.           *)
AnyHash(h) == TRUE

Trackable(h) == h \in DOMAIN providers \/ Cardinality(DOMAIN providers) < MaxTracked
HasRoom(known) == Cardinality(known) < MaxPeersPerHash

(* A line of an announcement of p.  Inserting may rehash the set, and so    *)
(* change which provider comes first; nothing else does.                    *)
Heard(p, h) ==
  /\ loop = "running"
  /\ Trackable(h)
  /\ LET known == IF h \in DOMAIN providers THEN providers[h] ELSE {}
         now   == IF HasRoom(known) THEN known \cup {p} ELSE known
     IN /\ now # known
        /\ providers' = [k \in DOMAIN providers \cup {h} |-> IF k = h THEN now ELSE providers[k]]
        /\ \E q \in now :
             front' = [k \in DOMAIN providers \cup {h} |-> IF k = h THEN q ELSE front[k]]
  /\ UNCHANGED <<world, store, ingest, pass, chan, loop, pending, reply>>

(* A peer announces what it holds; one that does not run this program       *)
(* announces what it likes.                                                 *)
Reachable(p) == p \in Honest => p \in online

Gossip(p, h) ==
  /\ Reachable(p)
  /\ Heard(p, h)

(* Mutant: an answered request stays in the map.                            *)
ResponseKept(get) ==
  /\ get \in pending
  /\ Reachable(get.peer)
  /\ reply' = "none"
  /\ UNCHANGED <<world, store, ingest, pass, chan, p2pVars>>

Response(get) ==
  /\ get \in pending
  /\ Reachable(get.peer)
  /\ \E got \in Answer : reply' = Verified(got, get.h)
  /\ pending' = pending \ {get}
  /\ UNCHANGED <<world, store, ingest, pass, chan, loop, providers, front>>

Fails(p) == p \notin online \/ "busy" \in Faults

(* Mutant: nobody is told that the request failed.                          *)
ForgetRequest(get) ==
  /\ get \in pending
  /\ Fails(get.peer)
  /\ pending' = pending \ {get}
  /\ UNCHANGED <<world, store, ingest, pass, chan, loop, providers, front, reply>>

(* The peer cannot be reached, or the request times out.                    *)
OutboundFailure(get) ==
  /\ get \in pending
  /\ Fails(get.peer)
  /\ reply' = "none"
  /\ pending' = pending \ {get}
  /\ UNCHANGED <<world, store, ingest, pass, chan, loop, providers, front>>

-----------------------------------------------------------------------------
(* Takedowns.  The denylist lock is held from the change of the set to the  *)
(* end of the rewrite, or to its roll-back: to everybody else, who reads    *)
(* the denylist under that lock, the two are one step, or none.             *)

Deny(a, h) ==
  /\ "takedown" \in Faults /\ admin[a] = Idle
  /\ denied' = denied \cup {h}
  /\ admin' = [admin EXCEPT ![a] = [at |-> "unlink", h |-> h]]
  /\ UNCHANGED <<world, blob, index, ingest, pass, chan, p2pVars, reply>>

(* The two halves of Store::purge.                                          *)
Unlink(a) ==
  /\ admin[a].at = "unlink"
  /\ blob' = [blob EXCEPT ![admin[a].h] = "none"]
  /\ admin' = [admin EXCEPT ![a].at = "unindex"]
  /\ UNCHANGED <<world, index, denied, ingest, pass, chan, p2pVars, reply>>

Unindex(a) ==
  /\ admin[a].at = "unindex"
  /\ index' = index \ {admin[a].h}
  /\ admin' = [admin EXCEPT ![a] = Idle]
  /\ UNCHANGED <<world, blob, denied, ingest, pass, chan, p2pVars, reply>>

Allow(a, h) ==
  /\ "takedown" \in Faults /\ admin[a] = Idle
  /\ denied' = denied \ {h}
  /\ UNCHANGED <<world, blob, index, admin, ingest, pass, chan, p2pVars, reply>>

-----------------------------------------------------------------------------
(* The environment.                                                        *)

Confirm(h) ==
  /\ confirmed' = confirmed \cup {h}
  /\ UNCHANGED <<up, online, store, ingest, pass, chan, p2pVars, reply>>

(* The origin, a hint or a gateway is gone for good.                        *)
UrlGone(u) ==
  /\ u \in up
  /\ up' = up \ {u}
  /\ UNCHANGED <<confirmed, online, store, ingest, pass, chan, p2pVars, reply>>

PeerFlips(p) ==
  /\ "offline" \in Faults
  /\ online' = IF p \in online THEN online \ {p} ELSE online \cup {p}
  /\ UNCHANGED <<confirmed, up, store, ingest, pass, chan, p2pVars, reply>>

(* What the process keeps in memory is gone; the scan purges what is denied *)
(* and indexes the other files.                                             *)
Restart ==
  /\ "crash" \in Faults
  /\ ingest' = Asleep /\ todo' = {} /\ found' = {} /\ dials' = 0
  /\ loop' = "starting" /\ chan' = <<>>
  /\ providers' = Empty /\ front' = Empty /\ pending' = {} /\ reply' = "unsent"
  /\ blob' = [h \in Hash |-> IF h \in denied THEN "none" ELSE blob[h]]
  /\ index' = {h \in Hash : blob'[h] # "none"}
  /\ admin' = [a \in Admin |-> Idle]
  /\ UNCHANGED <<world, denied>>

-----------------------------------------------------------------------------
IngestStep ==
  \/ Dial
  \/ \E h \in Hash : LookAt(h)
  \/ \E h \in Hash : \E answers \in Answers(h) : Acquire(h, answers)
  \/ Has \/ Ask \/ Awaited \/ CheckPut \/ WriteFile \/ Insert \/ EndPass

AdminStep(a) == Unlink(a) \/ Unindex(a)

Answered == \E get \in pending : Response(get) \/ OutboundFailure(get)

(* The lists of the indexer and the node come through, in full.             *)
FoundAll == \E n \in 0..MaxDials : StartPass(Gateway, n)

Next ==
  \/ FoundAll \/ ReadPins(confirmed)
  \/ "rpc" \in Faults /\ \E gateways \in SUBSET Gateway, n \in 0..MaxDials : StartPass(gateways, n)
  \/ "rpc" \in Faults /\ \E list \in SUBSET confirmed : ReadPins(list)
  \/ IngestStep
  \/ Started \/ HandleCmd \/ Answered
  \/ \E p \in Peer, h \in Hash : Gossip(p, h)
  \/ \E h \in Hash : Confirm(h)
  \/ \E a \in Admin : AdminStep(a) \/ \E h \in Disputed : Deny(a, h) \/ Allow(a, h)
  \/ \E u \in Url : UrlGone(u)
  \/ \E p \in Honest : PeerFlips(p)
  \/ Restart

Spec == Init /\ [][Next]_vars

(* A source or peer that has the payload is not busy for ever, nor is every *)
(* put of a hash refused for ever.                                          *)
Delivered(h) ==
  \E answers \in Answers(h) :
    (\E u \in up \cap Candidates(h) : answers[u] = "good") /\ Acquire(h, answers)
Helped(h) == \E get \in pending : get.h = h /\ get.peer \in online /\ Response(get) /\ reply' = "good"
Admitted(h) == CheckPut /\ ingest' = At("write", h, ingest.bytes)
Written(h)  == WriteFile /\ ingest' = At("insert", h, ingest.bytes)

(* Both tasks keep running, libp2p ends every request with a response or a  *)
(* failure, full lists come through again and again and in one pass, and a  *)
(* peer that runs this program announces what it holds every 20 s (Announce *)
(* shows that it comes through).  The process does not crash for ever.      *)
FairSpec ==
  /\ Spec
  /\ SF_vars(FoundAll) /\ WF_vars(\E list \in SUBSET confirmed : ReadPins(list))
  /\ SF_vars(found = Gateway /\ ReadPins(confirmed))
  /\ WF_vars(IngestStep) /\ \A a \in Admin : WF_vars(AdminStep(a))
  /\ WF_vars(Started) /\ WF_vars(HandleCmd) /\ WF_vars(Answered)
  /\ \A h \in Hash \ Oversized :
       /\ SF_vars(Admitted(h)) /\ SF_vars(Written(h))
       /\ SF_vars(Helped(h)) /\ SF_vars(Delivered(h))
       /\ \A p \in Honest : SF_vars(Gossip(p, h))
  /\ <>[][~Restart]_vars

-----------------------------------------------------------------------------
(* Properties.                                                             *)

(* Every variable holds a value of its kind.                                *)
TypeOK ==
  /\ confirmed \subseteq Hash /\ up \subseteq Reliable /\ online \subseteq Honest
  /\ blob \in [Hash -> Answer] /\ index \subseteq Hash /\ denied \subseteq Hash
  /\ admin \in [Admin -> {Idle} \cup Purge]
  /\ ingest \in {Asleep, Dialing, NextPin} \cup Working
  /\ todo \subseteq confirmed /\ found \subseteq Url /\ dials \in Nat
  /\ loop \in {"starting", "running", "ended"}
  /\ chan \in Seq(Hash \cup {NoHash}) /\ reply \in Answer \cup {"unsent"}
  /\ DOMAIN providers \subseteq Hash /\ providers \in [DOMAIN providers -> SUBSET Peer]
  /\ front \in [DOMAIN providers -> Peer]
  /\ pending \subseteq Get

(* p2p.rs:3-5, acquire.rs:1-4, main.rs:23-26, store.rs:126-133: only what   *)
(* the chain lists and was not denied when its put was checked comes to the *)
(* disk, whole and within the size limit, and nothing is lost but to a      *)
(* takedown, in every order of passes, answers, crashes and takedowns.      *)
Contract == INSTANCE Replica WITH
  listed   <- confirmed,
  held     <- blob,
  admitted <- IF ingest.at = "write" THEN {ingest.h} ELSE {},
  doomed   <- {h \in Hash : \E a \in Admin : admin[a] = [at |-> "unlink", h |-> h]}
KeepsContract == Contract!Spec

(* p2p.rs:195-197, 338-348, 432-440, main.rs:209-219: a Want is in one      *)
(* place: the channel, a request in flight, or its answered oneshot; and it *)
(* is the one that ingest waits for.  So an answer is never taken for the   *)
(* answer to another Want.                                                  *)
Whereabouts == Cardinality(pending) + Cardinality(Wants) + (IF reply # "unsent" THEN 1 ELSE 0)
OneWant ==
  /\ Whereabouts = IF ingest.at = "await" THEN 1 ELSE 0
  /\ \A i \in Wants : chan[i] = ingest.h
  /\ \A get \in pending : get.h = ingest.h

(* p2p.rs:24-26, 391-399: gossip cannot grow the map beyond its two bounds, *)
(* and a tracked hash has a provider to ask.                                *)
TableBounded ==
  /\ Cardinality(DOMAIN providers) <= MaxTracked
  /\ \A h \in DOMAIN providers :
       front[h] \in providers[h] /\ Cardinality(providers[h]) <= MaxPeersPerHash

(* main.rs:169-254: no pass is stuck, on a full channel, on an answer that  *)
(* never comes, or on a p2p task that has ended: ingest sleeps ever again.  *)
PassEnds == []<>(ingest = Asleep)

(* README.md:26-27, gateways.rs:1-6, p2p.rs:338-348: what the chain lists   *)
(* is held here in the end, when some url that has it stays up, or without  *)
(* any, when the provider that is asked first can be reached and has it.    *)
(* Except a hash that a put and a purge which overlapped have left in the   *)
(* index without its file: Has keeps it from being fetched until a restart. *)
SourceUp == up \cap ({Origin} \cup Public) # {}
FirstUseful(h) == loop # "ended" /\ h \in DOMAIN providers /\ front[h] \in online
Held(h)     == h \in index /\ blob[h] = "good"
Stranded(h) == h \in index /\ blob[h] = "none"
Fetched ==
  \A h \in Hash \ Oversized :
    h \in confirmed ~>
      (Held(h) \/ h \in denied \/ ~(SourceUp \/ FirstUseful(h)) \/ []Stranded(h))

(* README.md:26-27, p2p.rs:1: or when any reachable peer holds it and       *)
(* announces it.                                                            *)
Replicates ==
  \A h \in Hash :
    h \in confirmed ~> (Held(h) \/ h \in denied \/ online = {})
=============================================================================
