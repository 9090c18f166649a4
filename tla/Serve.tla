-------------------------------- MODULE Serve --------------------------------
(***************************************************************************)
(* How the p2p task serves its peers (src/p2p.rs, `run`).  A Get takes a   *)
(* permit for its disk read, is read in a spawned task, comes back to the  *)
(* event loop over a bounded channel, and goes from there to libp2p, which *)
(* writes it to the peer.  A Have is answered by the loop itself, which    *)
(* does nothing else while it waits for the locks of the store.            *)
(***************************************************************************)
EXTENDS Integers, Sequences, FiniteSets

CONSTANTS
  Hash,
  Slot,      \* slots for requests under way
  MaxServes, \* MAX_CONCURRENT_SERVES: permits, and places in the channel
  NoHash

ASSUME ServeAssumption == MaxServes \in Nat \ {0} /\ NoHash \notin Hash

VARIABLES
  held, denied, \* the store, as in module Store but put and purge are a step
  rewriting,    \* the hash of the deny that has the denylist lock, or NoHash
  get,          \* the request in each slot
  permits,      \* serve_permits
  answers       \* the channel of finished reads: slots

store == <<held, denied, rewriting>>
vars  == <<store, get, permits, answers>>

(* ask: a Get or a Have; late: history, the takedown of h was acknowledged  *)
(* before the request and has not been withdrawn; body: what the answer     *)
(* tells of h (empty: that it is here, with length 0).                      *)
NoGet == [at |-> "free", ask |-> "get", h |-> NoHash, body |-> "none", late |-> FALSE]

Spawned == {"check", "read", "hand"}        \* the steps of the spawned task
Inline  == {"denied?", "indexed?", "length"} \* those of the loop for a Have

GetState == [at : {"free", "arrived", "queued", "writing"} \cup Spawned \cup Inline,
             ask : {"get", "have"}, h : Hash \cup {NoHash},
             body : {"none", "bytes", "has", "empty"}, late : BOOLEAN]

Init ==
  /\ held = {} /\ denied = {} /\ rewriting = NoHash
  /\ get = [s \in Slot |-> NoGet]
  /\ permits = MaxServes /\ answers = <<>>

(* The loop takes the next event only when it is done with the last.        *)
LoopFree == \A s \in Slot : get[s].at \notin Inline

Goto(s, label) == get' = [get EXCEPT ![s].at = label]
Done(s)        == get' = [get EXCEPT ![s] = NoGet]

(* A takedown is acknowledged when its rewrite is done.                     *)
Arrive(s, h) ==
  /\ get[s] = NoGet
  /\ \E ask \in {"get", "have"} :
       get' = [get EXCEPT ![s] = [at |-> "arrived", ask |-> ask, h |-> h, body |-> "none",
                                  late |-> h \in denied \ {rewriting}]]
  /\ UNCHANGED <<store, permits, answers>>

(* Mutant: every Get gets a task.                                           *)
AdmitAll(s) ==
  /\ get[s].at = "arrived" /\ get[s].ask = "get" /\ LoopFree
  /\ Goto(s, "check")
  /\ permits' = permits - 1
  /\ UNCHANGED <<store, answers>>

(* Past the permit budget the answer is None, at once.                      *)
Admit(s) ==
  /\ get[s].at = "arrived" /\ get[s].ask = "get" /\ LoopFree
  /\ IF permits > 0 THEN Goto(s, "check") /\ permits' = permits - 1
                    ELSE Goto(s, "writing") /\ UNCHANGED permits
  /\ UNCHANGED <<store, answers>>

(* Mutant: the denylist is not read.                                        *)
CheckNothing(s) ==
  /\ get[s].at = "check"
  /\ Goto(s, "read")
  /\ UNCHANGED <<store, permits, answers>>

Check(s) ==
  /\ get[s].at = "check"
  /\ rewriting = NoHash
  /\ Goto(s, IF get[s].h \in denied THEN "hand" ELSE "read")
  /\ UNCHANGED <<store, permits, answers>>

Read(s) ==
  /\ get[s].at = "read"
  /\ get' = [get EXCEPT ![s] =
               [@ EXCEPT !.at = "hand", !.body = IF get[s].h \in held THEN "bytes" ELSE "none"]]
  /\ UNCHANGED <<store, permits, answers>>

(* Mutant: the channel has no bound.                                        *)
HandUnbounded(s) ==
  /\ get[s].at = "hand"
  /\ Goto(s, "queued")
  /\ answers' = Append(answers, s)
  /\ permits' = permits + 1
  /\ UNCHANGED store

(* The permit is dropped once the answer is in the channel.                 *)
Hand(s) ==
  /\ get[s].at = "hand"
  /\ Len(answers) < MaxServes
  /\ Goto(s, "queued")
  /\ answers' = Append(answers, s)
  /\ permits' = permits + 1
  /\ UNCHANGED store

(* Mutant: the loop drops what it takes from the channel.                   *)
RespondNever ==
  /\ answers # <<>> /\ LoopFree
  /\ answers' = Tail(answers)
  /\ UNCHANGED <<store, get, permits>>

(* The loop takes the next answer; send_response fails silently when the    *)
(* peer has gone since.                                                     *)
Respond ==
  /\ answers # <<>> /\ LoopFree
  /\ answers' = Tail(answers)
  /\ Goto(Head(answers), "writing") \/ Done(Head(answers))
  /\ UNCHANGED <<store, permits>>

TakeHave(s) ==
  /\ get[s].at = "arrived" /\ get[s].ask = "have" /\ LoopFree
  /\ Goto(s, "denied?")
  /\ UNCHANGED <<store, permits, answers>>

(* send_response of a Have.                                                 *)
Answer(s, body) ==
  Done(s) \/ get' = [get EXCEPT ![s] = [@ EXCEPT !.at = "writing", !.body = body]]

IsDenied(s) ==
  /\ get[s].at = "denied?"
  /\ rewriting = NoHash
  /\ IF get[s].h \in denied THEN Answer(s, "none") ELSE Goto(s, "indexed?")
  /\ UNCHANGED <<store, permits, answers>>

IsIndexed(s) ==
  /\ get[s].at = "indexed?"
  /\ IF get[s].h \in held THEN Goto(s, "length") ELSE Answer(s, "none")
  /\ UNCHANGED <<store, permits, answers>>

(* The index is read again for the length, 0 when the blob has gone since.  *)
ReadLength(s) ==
  /\ get[s].at = "length"
  /\ Answer(s, IF get[s].h \in held THEN "has" ELSE "empty")
  /\ UNCHANGED <<store, permits, answers>>

Written(s) ==
  /\ get[s].at = "writing"
  /\ Done(s)
  /\ UNCHANGED <<store, permits, answers>>

(* Mutant: the task is aborted and its permit with it.                      *)
DisconnectAborts(s) ==
  /\ get[s].at \in {"arrived", "writing"} \cup Spawned
  /\ Done(s)
  /\ UNCHANGED <<store, permits, answers>>

(* The peer goes away.  The spawned task does not know, nor does the loop;  *)
(* they finish.                                                             *)
Disconnect(s) ==
  /\ get[s].at \in {"arrived", "writing"}
  /\ Done(s)
  /\ UNCHANGED <<store, permits, answers>>

(* Store::deny: the lock is kept while the file is rewritten, and the set   *)
(* put back when that fails; the purge, and a deny of what is denied        *)
(* already, do not need it.                                                 *)
Deny(h) ==
  /\ rewriting = NoHash
  /\ IF h \in denied THEN held' = held \ {h} /\ UNCHANGED <<denied, rewriting>>
                     ELSE denied' = denied \cup {h} /\ rewriting' = h /\ UNCHANGED held
  /\ UNCHANGED <<get, permits, answers>>

Rewritten ==
  /\ rewriting # NoHash
  /\ rewriting' = NoHash
  /\ \/ held' = held \ {rewriting} /\ UNCHANGED denied
     \/ denied' = denied \ {rewriting} /\ UNCHANGED held
  /\ UNCHANGED <<get, permits, answers>>

Allow(h) ==
  /\ rewriting = NoHash
  /\ h \in denied
  /\ denied' = denied \ {h}
  /\ get' = [s \in Slot |-> IF get[s].h = h THEN [get[s] EXCEPT !.late = FALSE] ELSE get[s]]
  /\ UNCHANGED <<held, rewriting, permits, answers>>

(* Store::put, which may have passed its check of the denylist before the   *)
(* deny (see Store).                                                        *)
Pin(h) ==
  /\ held' = held \cup {h}
  /\ UNCHANGED <<denied, rewriting, get, permits, answers>>

TaskStep(s) == Check(s) \/ Read(s) \/ Hand(s)
LoopStep(s) == Admit(s) \/ TakeHave(s) \/ IsDenied(s) \/ IsIndexed(s) \/ ReadLength(s)

Next ==
  \/ \E s \in Slot :
       \/ \E h \in Hash : Arrive(s, h)
       \/ LoopStep(s) \/ TaskStep(s) \/ Written(s) \/ Disconnect(s)
  \/ Respond \/ Rewritten
  \/ \E h \in Hash : Deny(h) \/ Allow(h) \/ Pin(h)

Spec == Init /\ [][Next]_vars

(* tokio runs every task that can run, its locks and channels queue those   *)
(* that wait in order, select! takes its branches at random, and the swarm  *)
(* hands over its events in order; a rewrite ends; a substream is written   *)
(* or times out.                                                            *)
FairSpec ==
  /\ Spec
  /\ \A s \in Slot : SF_vars(LoopStep(s)) /\ SF_vars(TaskStep(s)) /\ WF_vars(Written(s))
  /\ SF_vars(Respond) /\ WF_vars(Rewritten)

-----------------------------------------------------------------------------
(* Properties.                                                             *)

(* Every variable holds a value of its kind.                                *)
TypeOK ==
  /\ held \subseteq Hash /\ denied \subseteq Hash /\ rewriting \in denied \cup {NoHash}
  /\ get \in [Slot -> GetState]
  /\ permits \in 0..MaxServes
  /\ answers \in Seq(Slot)

(* p2p.rs:411-412, 407: a takedown also stops replication: a Get that comes *)
(* after it carries no byte away, even of a blob that a racing put brought  *)
(* back, and a Have is told nothing.                                        *)
TakedownStopsReplication == \A s \in Slot : get[s].late => get[s].body = "none"

(* p2p.rs:415-426: every permit is free or with one running read, and the   *)
(* channel holds each finished read once.                                   *)
PermitsReturn ==
  /\ permits + Cardinality({s \in Slot : get[s].at \in Spawned}) = MaxServes
  /\ {answers[i] : i \in DOMAIN answers} = {s \in Slot : get[s].at = "queued"}
  /\ Cardinality({answers[i] : i \in DOMAIN answers}) = Len(answers)

(* p2p.rs:328-334: what waits for the loop, however slow it is, is bounded  *)
(* by the permits and the places in the channel together.                   *)
BacklogBounded ==
  Cardinality({s \in Slot : get[s].at \in Spawned \cup {"queued"} /\ get[s].body = "bytes"})
    <= 2 * MaxServes

(* p2p.rs:405-431: every request ends, refused or answered, while others    *)
(* keep coming; none waits for a permit or a place that never comes, or for *)
(* a loop that waits for the denylist.  The slots are interchangeable; one  *)
(* stands for all.                                                          *)
AnySlot == CHOOSE s \in Slot : TRUE
GetsEnd == get[AnySlot] # NoGet ~> get[AnySlot] = NoGet
=============================================================================
