----------------------------- MODULE ServeProofs -----------------------------
(***************************************************************************)
(* Proofs about Serve, for any number of requests under way and any number *)
(* of permits.                                                             *)
(***************************************************************************)
EXTENDS Serve, FiniteSetTheorems, TLAPS

Reading == {s \in Slot : get[s].at \in Spawned}
Queued  == {s \in Slot : get[s].at = "queued"}
Waiting == {answers[i] : i \in DOMAIN answers}

Kinds == /\ held \subseteq Hash /\ denied \subseteq Hash /\ rewriting \in denied \cup {NoHash}
         /\ get \in [Slot -> GetState]

(* A request that a takedown precedes is past no check of the denylist that *)
(* would have let it through, and that takedown is not under way any more.  *)
NothingLate ==
  \A s \in Slot : get[s].late =>
    /\ get[s].h \in denied /\ get[s].h # rewriting
    /\ get[s].body = "none" /\ get[s].at \notin {"read", "indexed?", "length"}

PermitsOut ==
  /\ permits \in Nat
  /\ IsFiniteSet(Reading) /\ permits + Cardinality(Reading) = MaxServes

ChannelOK ==
  /\ answers \in Seq(Slot) /\ Len(answers) <= MaxServes
  /\ Waiting = Queued
  /\ \A i, j \in DOMAIN answers : answers[i] = answers[j] => i = j
  /\ IsFiniteSet(Waiting) /\ Cardinality(Waiting) = Len(answers)

SInv == Kinds /\ NothingLate /\ PermitsOut /\ ChannelOK

LEMMA InitSInv == Init => SInv
<1> SUFFICES ASSUME Init PROVE SInv
  OBVIOUS
<1> USE ServeAssumption DEF Init, NoGet, Spawned, Inline
<1>1. Kinds /\ NothingLate
  BY DEF Kinds, NothingLate, GetState
<1>2. Reading = {} /\ Queued = {} /\ Waiting = {}
  BY DEF Reading, Queued, Waiting
<1>3. PermitsOut
  BY <1>2, FS_EmptySet DEF PermitsOut
<1>4. ChannelOK
  BY <1>2, FS_EmptySet DEF ChannelOK
<1> QED BY <1>1, <1>3, <1>4 DEF SInv

-----------------------------------------------------------------------------
(* What Goto and Answer leave alone.                                       *)

Moved(s, label, bytes) ==
  get' = [get EXCEPT ![s] = [at |-> label, ask |-> get[s].ask, h |-> get[s].h,
                             body |-> bytes, late |-> get[s].late]]

LEMMA GotoMoves ==
  ASSUME Kinds, NEW s \in Slot, NEW label, Goto(s, label)
  PROVE  Moved(s, label, get[s].body)
<1>1. [get[s] EXCEPT !.at = label] = [at |-> label, ask |-> get[s].ask, h |-> get[s].h,
                                      body |-> get[s].body, late |-> get[s].late]
  BY DEF Kinds, GetState
<1> QED BY <1>1 DEF Goto, Moved

LEMMA TwoFields ==
  ASSUME NEW r \in GetState, NEW label, NEW bytes
  PROVE  [r EXCEPT !.at = label, !.body = bytes]
           = [at |-> label, ask |-> r.ask, h |-> r.h, body |-> bytes, late |-> r.late]
<1> DEFINE q == [r EXCEPT !.at = label]
<1>1. q = [at |-> label, ask |-> r.ask, h |-> r.h, body |-> r.body, late |-> r.late]
  BY DEF GetState
<1>2. q \in [at : {label}, ask : {"get", "have"}, h : Hash \cup {NoHash},
            body : {"none", "bytes", "has", "empty"}, late : BOOLEAN]
  BY <1>1 DEF GetState
<1> HIDE DEF q
<1>3. [q EXCEPT !.body = bytes]
        = [at |-> q.at, ask |-> q.ask, h |-> q.h, body |-> bytes, late |-> q.late]
  BY <1>2
<1>4. [q EXCEPT !.body = bytes]
        = [at |-> label, ask |-> r.ask, h |-> r.h, body |-> bytes, late |-> r.late]
  BY <1>1, <1>3
<1>5. [r EXCEPT !.at = label, !.body = bytes] = [q EXCEPT !.body = bytes]
  BY Zenon DEF q
<1> QED BY <1>4, <1>5

LEMMA AnswerMoves ==
  ASSUME Kinds, NEW s \in Slot, NEW bytes, Answer(s, bytes)
  PROVE  Done(s) \/ Moved(s, "writing", bytes)
<1>1. get[s] \in GetState
  BY DEF Kinds
<1>2. [get[s] EXCEPT !.at = "writing", !.body = bytes]
        = [at |-> "writing", ask |-> get[s].ask, h |-> get[s].h,
           body |-> bytes, late |-> get[s].late]
  BY <1>1, TwoFields
<1> QED BY <1>2 DEF Answer, Moved

(* Each step of a request as a move of its slot.                            *)
LoopMoves(s) ==
  \/ /\ get[s].at = "arrived" /\ permits > 0
     /\ Moved(s, "check", get[s].body) /\ permits' = permits - 1
     /\ UNCHANGED <<store, answers>>
  \/ /\ get[s].at = "arrived" /\ Moved(s, "writing", get[s].body)
     /\ UNCHANGED <<store, permits, answers>>
  \/ /\ get[s].at = "arrived" /\ Moved(s, "denied?", get[s].body)
     /\ UNCHANGED <<store, permits, answers>>
  \/ /\ get[s].at = "denied?" /\ rewriting = NoHash /\ get[s].h \notin denied
     /\ Moved(s, "indexed?", get[s].body)
     /\ UNCHANGED <<store, permits, answers>>
  \/ /\ get[s].at = "indexed?" /\ Moved(s, "length", get[s].body)
     /\ UNCHANGED <<store, permits, answers>>
  \/ /\ get[s].at \in Inline
     /\ \/ Done(s) \/ Moved(s, "writing", "none")
        \/ get[s].at = "length" /\ \E told \in {"has", "empty"} : Moved(s, "writing", told)
     /\ UNCHANGED <<store, permits, answers>>

LEMMA LoopStepMoves ==
  ASSUME SInv, NEW s \in Slot, LoopStep(s)
  PROVE  LoopMoves(s)
<1> USE DEF SInv
<1>1. CASE Admit(s)
  BY <1>1, GotoMoves DEF Admit, LoopMoves, PermitsOut
<1>2. CASE TakeHave(s)
  BY <1>2, GotoMoves DEF TakeHave, LoopMoves
<1>3. CASE IsDenied(s)
  BY <1>3, GotoMoves, AnswerMoves DEF IsDenied, LoopMoves, Inline
<1>4. CASE IsIndexed(s)
  BY <1>4, GotoMoves, AnswerMoves DEF IsIndexed, LoopMoves, Inline
<1>5. CASE ReadLength(s)
  <2>1. PICK told \in {"has", "empty"} : Answer(s, told)
    BY <1>5 DEF ReadLength
  <2> QED BY <1>5, <2>1, AnswerMoves DEF ReadLength, LoopMoves, Inline
<1> QED BY <1>1, <1>2, <1>3, <1>4, <1>5 DEF LoopStep

-----------------------------------------------------------------------------
(* The counting of permits and answers.                                    *)

LEMMA SameSlots ==
  ASSUME PermitsOut, ChannelOK, UNCHANGED <<permits, answers>>, Reading' = Reading, Queued' = Queued
  PROVE  PermitsOut' /\ ChannelOK'
<1>1. Waiting' = Waiting
  BY DEF Waiting
<1> QED BY <1>1 DEF PermitsOut, ChannelOK

LEMMA OneMoreReading ==
  ASSUME PermitsOut, ChannelOK, NEW s \in Slot, s \notin Reading, permits > 0,
         permits' = permits - 1, answers' = answers, Reading' = Reading \cup {s}, Queued' = Queued
  PROVE  PermitsOut' /\ ChannelOK'
<1>1. Waiting' = Waiting
  BY DEF Waiting
<1>2. Cardinality(Reading) \in Nat
  BY FS_CardinalityType DEF PermitsOut
<1>3. IsFiniteSet(Reading') /\ Cardinality(Reading') = Cardinality(Reading) + 1
  BY FS_AddElement DEF PermitsOut
<1> QED BY <1>1, <1>2, <1>3, ServeAssumption DEF PermitsOut, ChannelOK

LEMMA OneMoreQueued ==
  ASSUME PermitsOut, ChannelOK, NEW s \in Slot, s \in Reading, s \notin Queued,
         Len(answers) < MaxServes, answers' = Append(answers, s), permits' = permits + 1,
         Reading' = Reading \ {s}, Queued' = Queued \cup {s}
  PROVE  PermitsOut' /\ ChannelOK'
<1>1. PermitsOut'
  <2>1. Cardinality(Reading) \in Nat
    BY FS_CardinalityType DEF PermitsOut
  <2>2. IsFiniteSet(Reading') /\ Cardinality(Reading') = Cardinality(Reading) - 1
    BY FS_RemoveElement DEF PermitsOut
  <2> QED BY <2>1, <2>2, ServeAssumption DEF PermitsOut
<1>2. ChannelOK'
  <2>1. /\ answers' \in Seq(Slot) /\ Len(answers') = Len(answers) + 1
        /\ \A i \in 1..Len(answers) : answers'[i] = answers[i]
        /\ answers'[Len(answers) + 1] = s
    BY DEF ChannelOK
  <2>2. Waiting' = Waiting \cup {s}
    BY <2>1 DEF Waiting, ChannelOK
  <2>3. s \notin Waiting
    BY DEF ChannelOK
  <2>4. \A i, j \in DOMAIN answers' : answers'[i] = answers'[j] => i = j
    BY <2>1, <2>3 DEF Waiting, ChannelOK
  <2>5. IsFiniteSet(Waiting') /\ Cardinality(Waiting') = Len(answers')
    BY <2>1, <2>2, <2>3, FS_AddElement DEF ChannelOK
  <2> QED BY <2>1, <2>2, <2>4, <2>5, ServeAssumption DEF ChannelOK
<1> QED BY <1>1, <1>2

LEMMA OneLessQueued ==
  ASSUME PermitsOut, ChannelOK, answers # <<>>, answers' = Tail(answers), permits' = permits,
         Reading' = Reading, Queued' = Queued \ {Head(answers)}
  PROVE  PermitsOut' /\ ChannelOK'
<1>1. /\ answers' \in Seq(Slot) /\ Len(answers') = Len(answers) - 1 /\ Len(answers) > 0
      /\ \A i \in 1..(Len(answers) - 1) : answers'[i] = answers[i + 1]
      /\ Head(answers) = answers[1]
  BY DEF ChannelOK
<1>2. Waiting' = Waiting \ {Head(answers)} /\ Head(answers) \in Waiting
  <2>1. \A i \in DOMAIN answers : i = 1 \/ (i - 1 \in DOMAIN answers' /\ answers'[i - 1] = answers[i])
    BY <1>1 DEF ChannelOK
  <2>2. \A i \in DOMAIN answers' : i + 1 \in DOMAIN answers /\ answers'[i] = answers[i + 1]
                                   /\ answers[i + 1] # answers[1]
    BY <1>1 DEF ChannelOK
  <2> QED BY <1>1, <2>1, <2>2 DEF Waiting, ChannelOK
<1>3. \A i, j \in DOMAIN answers' : answers'[i] = answers'[j] => i = j
  BY <1>1 DEF ChannelOK
<1>4. IsFiniteSet(Waiting') /\ Cardinality(Waiting') = Len(answers')
  BY <1>1, <1>2, FS_RemoveElement DEF ChannelOK
<1> QED BY <1>1, <1>2, <1>3, <1>4, ServeAssumption DEF PermitsOut, ChannelOK

-----------------------------------------------------------------------------
(* The steps.                                                              *)

(* A move of one slot between labels, seen by the sets of slots.            *)
LEMMA MovedSets ==
  ASSUME Kinds, NEW s \in Slot, NEW label, NEW bytes, Moved(s, label, bytes) \/ Done(s),
         label \notin Spawned, label # "queued", get[s].at \notin Spawned, get[s].at # "queued"
  PROVE  Reading' = Reading /\ Queued' = Queued
BY DEF Kinds, GetState, Moved, Done, NoGet, Reading, Queued, Spawned

LEMMA StepLoop ==
  ASSUME SInv, NEW s \in Slot, LoopMoves(s)
  PROVE  SInv'
<1> USE DEF SInv
<1>1. CASE /\ get[s].at = "arrived" /\ permits > 0
           /\ Moved(s, "check", get[s].body) /\ permits' = permits - 1
           /\ UNCHANGED <<store, answers>>
  <2>1. Kinds' /\ NothingLate'
    BY <1>1 DEF Moved, Kinds, GetState, Spawned, Inline, NothingLate, store
  <2>2. Reading' = Reading \cup {s} /\ s \notin Reading /\ Queued' = Queued
    BY <1>1 DEF Moved, Kinds, Reading, Queued, Spawned
  <2> QED BY <1>1, <2>1, <2>2, OneMoreReading
<1>2. ASSUME get[s].at \in {"arrived"} \cup Inline, UNCHANGED <<permits, answers>>,
             NEW label \in {"writing"} \cup Inline, NEW bytes,
             Moved(s, label, bytes) \/ Done(s), Kinds', NothingLate'
      PROVE  SInv'
  BY <1>2, MovedSets, SameSlots DEF Inline, Spawned
<1>3. CASE /\ get[s].at = "arrived"
           /\ \/ Moved(s, "writing", get[s].body)
              \/ Moved(s, "denied?", get[s].body)
           /\ UNCHANGED <<store, permits, answers>>
  <2>1. Kinds' /\ NothingLate'
    BY <1>3 DEF Moved, Kinds, GetState, Inline, NothingLate, store
  <2> QED BY <1>2, <1>3, <2>1 DEF Inline
<1>4. CASE /\ get[s].at = "denied?" /\ rewriting = NoHash /\ get[s].h \notin denied
           /\ Moved(s, "indexed?", get[s].body)
           /\ UNCHANGED <<store, permits, answers>>
  <2>1. Kinds' /\ NothingLate'
    BY <1>4 DEF Moved, Kinds, GetState, Inline, NothingLate, store
  <2> QED BY <1>2, <1>4, <2>1 DEF Inline
<1>5. CASE /\ get[s].at = "indexed?" /\ Moved(s, "length", get[s].body)
           /\ UNCHANGED <<store, permits, answers>>
  <2>1. Kinds' /\ NothingLate'
    BY <1>5 DEF Moved, Kinds, GetState, Inline, NothingLate, store
  <2> QED BY <1>2, <1>5, <2>1 DEF Inline
<1>6. CASE /\ get[s].at \in Inline /\ Done(s) /\ UNCHANGED <<store, permits, answers>>
  <2>1. Kinds' /\ NothingLate'
    BY <1>6 DEF Done, NoGet, Kinds, GetState, NothingLate, store
  <2> QED BY <1>2, <1>6, <2>1
<1>7. CASE /\ get[s].at \in Inline /\ Moved(s, "writing", "none")
           /\ UNCHANGED <<store, permits, answers>>
  <2>1. Kinds' /\ NothingLate'
    BY <1>7 DEF Moved, Kinds, GetState, NothingLate, store
  <2> QED BY <1>2, <1>7, <2>1
<1>8. ASSUME NEW told \in {"has", "empty"}, get[s].at = "length", Moved(s, "writing", told),
             UNCHANGED <<store, permits, answers>>
      PROVE  SInv'
  <2>1. ~get[s].late
    BY <1>8 DEF NothingLate
  <2>2. Kinds' /\ NothingLate'
    BY <1>8, <2>1 DEF Moved, Kinds, GetState, NothingLate, store
  <2> QED BY <1>2, <1>8, <2>2 DEF Inline
<1> QED BY <1>1, <1>3, <1>4, <1>5, <1>6, <1>7, <1>8 DEF LoopMoves

LEMMA StepTask ==
  ASSUME SInv, NEW s \in Slot, TaskStep(s)
  PROVE  SInv'
<1> USE DEF SInv
<1>1. CASE Check(s)
  <2>1. PICK label \in {"hand", "read"} :
          Moved(s, label, get[s].body) /\ (label = "read" => get[s].h \notin denied)
    BY <1>1, GotoMoves DEF Check
  <2>2. Kinds' /\ NothingLate'
    BY <1>1, <2>1 DEF Check, Moved, Kinds, GetState, Spawned, NothingLate, store
  <2>3. Reading' = Reading /\ Queued' = Queued
    BY <1>1, <2>1 DEF Check, Moved, Kinds, Reading, Queued, Spawned
  <2> QED BY <1>1, <2>2, <2>3, SameSlots DEF Check
<1>2. CASE Read(s)
  <2>1. PICK bytes \in {"bytes", "none"} :
          get' = [get EXCEPT ![s] = [get[s] EXCEPT !.at = "hand", !.body = bytes]]
    BY <1>2 DEF Read
  <2>2. Moved(s, "hand", bytes)
    BY <2>1, TwoFields DEF Kinds, Moved
  <2>3. get[s].at = "read" /\ ~get[s].late /\ UNCHANGED <<store, permits, answers>>
    BY <1>2 DEF Read, NothingLate
  <2>4. Kinds' /\ NothingLate'
    BY <2>2, <2>3 DEF Moved, Kinds, GetState, Spawned, NothingLate, store
  <2>5. Reading' = Reading /\ Queued' = Queued
    BY <2>2, <2>3 DEF Moved, Kinds, Reading, Queued, Spawned
  <2> QED BY <2>3, <2>4, <2>5, SameSlots
<1>3. CASE Hand(s)
  <2>1. Moved(s, "queued", get[s].body) /\ get[s].at = "hand"
    BY <1>3, GotoMoves DEF Hand
  <2>2. Kinds' /\ NothingLate'
    BY <1>3, <2>1 DEF Hand, Moved, Kinds, GetState, NothingLate, store
  <2>3. /\ Reading' = Reading \ {s} /\ s \in Reading
        /\ Queued' = Queued \cup {s} /\ s \notin Queued
    BY <2>1 DEF Moved, Kinds, Reading, Queued, Spawned
  <2> QED BY <1>3, <2>2, <2>3, OneMoreQueued DEF Hand
<1> QED BY <1>1, <1>2, <1>3 DEF TaskStep

LEMMA StepRespond ==
  ASSUME SInv, Respond
  PROVE  SInv'
<1> USE DEF SInv
<1> DEFINE s == Head(answers)
<1>1. s \in Slot /\ get[s].at = "queued"
  <2>1. s = answers[1] /\ 1 \in DOMAIN answers
    BY DEF Respond, ChannelOK
  <2>2. s \in Waiting
    BY <2>1 DEF Waiting
  <2> QED BY <2>2 DEF ChannelOK, Queued
<1>2. Moved(s, "writing", get[s].body) \/ Done(s)
  BY <1>1, GotoMoves DEF Respond
<1> HIDE DEF s
<1>3. Kinds' /\ NothingLate'
  <2>1. CASE Moved(s, "writing", get[s].body)
    BY <1>1, <2>1 DEF Respond, Moved, Kinds, GetState, NothingLate, store
  <2>2. CASE Done(s)
    BY <1>1, <2>2 DEF Respond, Done, NoGet, Kinds, GetState, NothingLate, store
  <2> QED BY <1>2, <2>1, <2>2
<1>4. Reading' = Reading /\ Queued' = Queued \ {s}
  BY <1>1, <1>2 DEF Moved, Done, NoGet, Kinds, Reading, Queued, Spawned
<1> QED BY <1>3, <1>4, OneLessQueued DEF Respond, s

(* A peer asks, is written to, or goes away.                                *)
LEMMA StepPeer ==
  ASSUME SInv, NEW s \in Slot, (\E h \in Hash : Arrive(s, h)) \/ Written(s) \/ Disconnect(s)
  PROVE  SInv'
<1> USE DEF SInv
<1>1. ASSUME NEW h \in Hash, Arrive(s, h)
      PROVE  SInv'
  <2> DEFINE now == h \in denied \ {rewriting}
  <2>1. now \in BOOLEAN /\ (now => h \in denied /\ h # rewriting)
    OBVIOUS
  <2>2. PICK ask \in {"get", "have"} :
          get' = [get EXCEPT ![s] = [at |-> "arrived", ask |-> ask, h |-> h, body |-> "none",
                                     late |-> now]]
    BY <1>1, Zenon DEF Arrive
  <2> HIDE DEF now
  <2>3. Kinds' /\ NothingLate'
    BY <1>1, <2>1, <2>2 DEF Arrive, Kinds, GetState, NothingLate, store
  <2>4. Reading' = Reading /\ Queued' = Queued
    BY <1>1, <2>2 DEF Arrive, NoGet, Kinds, Reading, Queued, Spawned
  <2> QED BY <1>1, <2>3, <2>4, SameSlots DEF Arrive
<1>2. CASE Written(s) \/ Disconnect(s)
  <2>1. Done(s) /\ get[s].at \in {"arrived", "writing"} /\ UNCHANGED <<store, permits, answers>>
    BY <1>2 DEF Written, Disconnect
  <2>2. Kinds' /\ NothingLate'
    BY <2>1 DEF Done, NoGet, Kinds, GetState, NothingLate, store
  <2>3. Reading' = Reading /\ Queued' = Queued
    BY <2>1 DEF Done, NoGet, Kinds, Reading, Queued, Spawned
  <2> QED BY <2>1, <2>2, <2>3, SameSlots
<1> QED BY <1>1, <1>2

(* An allow changes nothing of a request but its history.                   *)
LEMMA AllowKeeps ==
  ASSUME Kinds, NEW h \in Hash, Allow(h)
  PROVE  /\ get' \in [Slot -> GetState]
         /\ \A s \in Slot : /\ get'[s].at = get[s].at /\ get'[s].h = get[s].h
                            /\ get'[s].body = get[s].body
                            /\ get'[s].late => get[s].late /\ get[s].h # h
<1>1. \A r \in GetState : [r EXCEPT !.late = FALSE]
                           = [at |-> r.at, ask |-> r.ask, h |-> r.h, body |-> r.body, late |-> FALSE]
  <2> TAKE r \in GetState
  <2> DEFINE off == FALSE
  <2>1. [r EXCEPT !.late = off]
          = [at |-> r.at, ask |-> r.ask, h |-> r.h, body |-> r.body, late |-> off]
    <3> HIDE DEF off
    <3> QED BY DEF GetState
  <2> QED BY <2>1, Zenon
<1>2. \A s \in Slot :
        get'[s] = IF get[s].h = h THEN [at |-> get[s].at, ask |-> get[s].ask, h |-> get[s].h,
                                        body |-> get[s].body, late |-> FALSE]
                                  ELSE get[s]
  BY <1>1 DEF Allow, Kinds
<1>3. DOMAIN get' = Slot /\ get' = [s \in Slot |-> get'[s]]
  BY DEF Allow
<1>4. ASSUME NEW s \in Slot
      PROVE  /\ get'[s] \in GetState
             /\ get'[s].at = get[s].at /\ get'[s].h = get[s].h /\ get'[s].body = get[s].body
             /\ get'[s].late => get[s].late /\ get[s].h # h
  <2>1. CASE get[s].h = h
    <3>1. get'[s] = [at |-> get[s].at, ask |-> get[s].ask, h |-> get[s].h,
                     body |-> get[s].body, late |-> FALSE]
      BY <1>2, <2>1
    <3>2. get[s] \in GetState
      BY DEF Kinds
    <3> QED BY <3>1, <3>2 DEF GetState
  <2>2. CASE get[s].h # h
    <3>1. get'[s] = get[s] /\ get[s] \in GetState
      BY <1>2, <2>2 DEF Kinds
    <3> QED BY <2>2, <3>1
  <2> QED BY <2>1, <2>2
<1>5. get' \in [Slot -> GetState]
  BY <1>3, <1>4
<1> QED BY <1>4, <1>5

LEMMA StepStore ==
  ASSUME SInv, Rewritten \/ (\E h \in Hash : Deny(h) \/ Allow(h) \/ Pin(h)) \/ UNCHANGED vars
  PROVE  SInv'
<1> USE DEF SInv
<1>1. Kinds' /\ NothingLate'
  <2>1. CASE Rewritten
    BY <2>1, ServeAssumption DEF Rewritten, Kinds, NothingLate
  <2>2. ASSUME NEW h \in Hash, Deny(h) \/ Pin(h)
        PROVE  Kinds' /\ NothingLate'
    BY <2>2 DEF Deny, Pin, Kinds, NothingLate
  <2>3. ASSUME NEW h \in Hash, Allow(h)
        PROVE  Kinds' /\ NothingLate'
    BY <2>3, AllowKeeps, ServeAssumption DEF Allow, Kinds, NothingLate
  <2>4. CASE UNCHANGED vars
    BY <2>4 DEF vars, store, Kinds, NothingLate
  <2> QED BY <2>1, <2>2, <2>3, <2>4
<1>2. UNCHANGED <<permits, answers>>
  BY DEF Rewritten, Deny, Allow, Pin, vars
<1>3. Reading' = Reading /\ Queued' = Queued
  <2>1. ASSUME NEW h \in Hash, Allow(h)
        PROVE  Reading' = Reading /\ Queued' = Queued
    BY <2>1, AllowKeeps DEF Reading, Queued
  <2> QED BY <2>1 DEF Rewritten, Deny, Pin, vars, Reading, Queued
<1> QED BY <1>1, <1>2, <1>3, SameSlots

LEMMA StepSInv == SInv /\ [Next]_vars => SInv'
<1> SUFFICES ASSUME SInv, [Next]_vars PROVE SInv'
  OBVIOUS
<1> QED BY LoopStepMoves, StepLoop, StepTask, StepRespond, StepPeer, StepStore DEF Next

LEMMA SInvAlways == Spec => []SInv
BY InitSInv, StepSInv, PTL DEF Spec

-----------------------------------------------------------------------------
(* Results.                                                                *)

(* Serve.TypeOK for every instance; no permit is ever owed.                 *)
THEOREM ServeTypeCorrect == Spec => []TypeOK
<1>1. SInv => TypeOK
  <2> SUFFICES ASSUME SInv PROVE TypeOK
    OBVIOUS
  <2>1. Cardinality(Reading) \in Nat
    BY FS_CardinalityType DEF SInv, PermitsOut
  <2> QED BY <2>1, ServeAssumption DEF SInv, Kinds, PermitsOut, ChannelOK, TypeOK
<1> QED BY <1>1, SInvAlways, PTL

(* Serve.TakedownStopsReplication for every instance: after a takedown, no  *)
(* peer that asks gets a byte or is told that the payload is here.          *)
THEOREM ReplicationStops == Spec => []TakedownStopsReplication
<1>1. SInv => TakedownStopsReplication
  BY DEF SInv, NothingLate, TakedownStopsReplication
<1> QED BY <1>1, SInvAlways, PTL

(* Serve.PermitsReturn for every instance.                                  *)
THEOREM PermitsComeBack == Spec => []PermitsReturn
<1>1. SInv => PermitsReturn
  BY DEF SInv, PermitsOut, ChannelOK, Reading, Queued, Waiting, PermitsReturn
<1> QED BY <1>1, SInvAlways, PTL

(* Serve.BacklogBounded for every instance: the bytes read for peers and    *)
(* not yet handed to libp2p are of at most 2 * MaxServes payloads.          *)
THEOREM BacklogStaysBounded == Spec => []BacklogBounded
<1>1. SInv => BacklogBounded
  <2> SUFFICES ASSUME SInv PROVE BacklogBounded
    OBVIOUS
  <2> DEFINE Loaded == {s \in Slot : get[s].at \in Spawned \cup {"queued"} /\ get[s].body = "bytes"}
  <2>1. /\ IsFiniteSet(Reading) /\ Cardinality(Reading) \in Nat /\ Cardinality(Reading) <= MaxServes
        /\ IsFiniteSet(Queued) /\ Cardinality(Queued) \in Nat /\ Cardinality(Queued) <= MaxServes
    BY FS_CardinalityType, ServeAssumption DEF SInv, PermitsOut, ChannelOK
  <2>2. /\ IsFiniteSet(Reading \cup Queued) /\ Cardinality(Reading \cup Queued) \in Nat
        /\ Cardinality(Reading \cup Queued) <= 2 * MaxServes
    <3>1. IsFiniteSet(Reading \cup Queued) /\ IsFiniteSet(Reading \cap Queued)
      BY <2>1, FS_Union, FS_Intersection
    <3>2. Cardinality(Reading \cup Queued)
            = Cardinality(Reading) + Cardinality(Queued) - Cardinality(Reading \cap Queued)
      BY <2>1, FS_Union
    <3> QED BY <2>1, <3>1, <3>2, FS_CardinalityType, ServeAssumption
  <2>3. Loaded \subseteq Reading \cup Queued
    BY DEF Reading, Queued
  <2>4. Cardinality(Loaded) \in Nat /\ Cardinality(Loaded) <= Cardinality(Reading \cup Queued)
    BY <2>2, <2>3, FS_Subset, FS_CardinalityType
  <2> QED BY <2>2, <2>4, ServeAssumption DEF BacklogBounded
<1> QED BY <1>1, SInvAlways, PTL
=============================================================================
