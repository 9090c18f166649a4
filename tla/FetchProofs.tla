----------------------------- MODULE FetchProofs -----------------------------
(***************************************************************************)
(* Proofs about Fetch, for any hashes, urls, peers, bounds and faults.     *)
(***************************************************************************)
EXTENDS Fetch, FiniteSetTheorems, TLAPS

(* Where the one Want is, without counting.                                 *)
WantPlaced ==
  /\ \A get \in pending : get.h = ingest.h /\ \A other \in pending : other = get
  /\ \A i \in Wants : chan[i] = ingest.h /\ \A j \in Wants : j = i
  /\ pending # {} => ingest.at = "await" /\ Wants = {}
  /\ Wants # {} => ingest.at = "await"
  /\ reply # "unsent" => ingest.at = "await" /\ pending = {} /\ Wants = {}
  /\ ingest.at = "await" => reply # "unsent" \/ pending # {} \/ Wants # {}

(* What is on its way to the store is listed and verified.                  *)
OnlyVerified ==
  /\ ingest \in Working => ingest.h \in confirmed
  /\ ingest.at \in {"put", "write", "insert"} => ingest.bytes = "good" /\ ingest.h \notin Oversized
  /\ reply \in {"unsent", "none", "good"}
  /\ reply = "good" => ingest.h \notin Oversized

FiniteTable ==
  IsFiniteSet(DOMAIN providers) /\ \A h \in DOMAIN providers : IsFiniteSet(providers[h])

FInv == TypeOK /\ WantPlaced /\ OnlyVerified /\ FiniteTable /\ TableBounded

LEMMA VerifiedIsGood ==
  ASSUME NEW got, NEW h
  PROVE  /\ Verified(got, h) \in {"none", "good"}
         /\ Verified(got, h) = "good" => h \notin Oversized
BY DEF Verified

LEMMA InitFInv == Init => FInv
<1> SUFFICES ASSUME Init PROVE FInv
  OBVIOUS
<1> USE FetchAssumption DEF Init
<1>1. TypeOK
  BY DEF TypeOK, Asleep, At, Empty, Answer, Idle
<1>2. WantPlaced
  BY DEF WantPlaced, Wants, Asleep, At
<1>3. OnlyVerified
  BY DEF OnlyVerified, Working, Asleep, At
<1>4. FiniteTable /\ TableBounded
  BY FS_EmptySet DEF FiniteTable, TableBounded, Empty
<1> QED BY <1>1, <1>2, <1>3, <1>4 DEF FInv

-----------------------------------------------------------------------------
(* The steps, by what they can disturb.                                    *)

LEMMA StepTypeOK ==
  ASSUME FInv, [Next]_vars
  PROVE  TypeOK'
<1> USE FetchAssumption DEF FInv, TypeOK
<1>1. CASE UNCHANGED vars
  BY <1>1 DEF vars, world, store, pass, p2pVars
<1>2. ASSUME NEW gateways \in SUBSET Gateway, NEW n \in 0..MaxDials, StartPass(gateways, n)
      PROVE  TypeOK'
  BY <1>2 DEF StartPass, Gateway, Dialing, world, store, p2pVars
<1>3. CASE Dial
  BY <1>3 DEF Dial, CanSend, Send, world, store, p2pVars
<1>4. ASSUME NEW list \in SUBSET confirmed, ReadPins(list)
      PROVE  TypeOK'
  BY <1>4 DEF ReadPins, NextPin, world, store, p2pVars
<1>5. ASSUME NEW h \in Hash, LookAt(h)
      PROVE  TypeOK'
  BY <1>5 DEF LookAt, At, Working, Answer, world, store, p2pVars
<1>6. ASSUME NEW h \in Hash, NEW answers \in Answers(h), Acquire(h, answers)
      PROVE  TypeOK'
  BY <1>6, VerifiedIsGood DEF Acquire, Taken, At, Working, Answer, world, store, pass, p2pVars
<1>7. CASE Ask
  BY <1>7 DEF Ask, CanSend, Send, At, NextPin, Asleep, Dialing, Working, Answer,
              world, store, pass, p2pVars
<1>8. CASE Awaited
  BY <1>8 DEF Awaited, At, NextPin, Asleep, Dialing, Working, Answer, world, store, pass, p2pVars
<1>9. CASE Has \/ CheckPut \/ WriteFile \/ Insert
  BY <1>9 DEF Has, CheckPut, WriteFile, Insert, At, NextPin, Asleep, Dialing, Working, Answer,
              world, store, pass, p2pVars
<1>10. CASE EndPass
  BY <1>10 DEF EndPass, Asleep, world, store, p2pVars
<1>11. CASE Started
  <2>1. chan' \in {chan, <<>>} /\ reply' \in {reply, "none"}
    BY <1>11 DEF Started, Dropped
  <2>2. loop' \in {"starting", "running", "ended"}
    BY <1>11 DEF Started
  <2>3. chan' \in Seq(Hash \cup {NoHash})
    <3>1. <<>> \in Seq(Hash \cup {NoHash}) /\ chan \in Seq(Hash \cup {NoHash})
      OBVIOUS
    <3> QED BY <2>1, <3>1
  <2>4. reply' \in Answer \cup {"unsent"}
    BY <2>1 DEF Answer
  <2> QED BY <1>11, <2>2, <2>3, <2>4 DEF Started, world, store, pass
<1>12. CASE HandleCmd
  <2>1. chan' \in Seq(Hash \cup {NoHash}) /\ Head(chan) \in Hash \cup {NoHash}
    BY <1>12 DEF HandleCmd
  <2>2. pending' \subseteq Get /\ reply' \in Answer \cup {"unsent"}
    BY <1>12, <2>1 DEF HandleCmd, Get, Answer
  <2> QED BY <1>12, <2>1, <2>2 DEF HandleCmd, world, store, pass
<1>13. ASSUME NEW get \in pending, Response(get)
      PROVE  TypeOK'
  BY <1>13, VerifiedIsGood DEF Response, Answer, world, store, pass
<1>14. ASSUME NEW get \in pending, OutboundFailure(get)
      PROVE  TypeOK'
  BY <1>14 DEF OutboundFailure, Answer, world, store, pass
<1>15. ASSUME NEW p \in Peer, NEW h \in Hash, Gossip(p, h)
      PROVE  TypeOK'
  BY <1>15 DEF Gossip, Heard, world, store, pass
<1>16. ASSUME NEW h \in Hash, Confirm(h)
      PROVE  TypeOK'
  BY <1>16 DEF Confirm, store, pass, p2pVars
<1>17. ASSUME NEW a \in Admin, AdminStep(a) \/ \E h \in Hash : Deny(a, h) \/ Allow(a, h)
      PROVE  TypeOK'
  BY <1>17 DEF AdminStep, Unlink, Unindex, Deny, Allow, Answer, Purge, Idle, world, pass, p2pVars
<1>18. ASSUME NEW u \in Url, UrlGone(u)
      PROVE  TypeOK'
  BY <1>18 DEF UrlGone, store, pass, p2pVars
<1>19. ASSUME NEW p \in Honest, PeerFlips(p)
      PROVE  TypeOK'
  BY <1>19 DEF PeerFlips, store, pass, p2pVars
<1>20. CASE Restart
  BY <1>20 DEF Restart, Asleep, Empty, Answer, world
<1> QED BY <1>1, <1>2, <1>3, <1>4, <1>5, <1>6, <1>7, <1>8, <1>9, <1>10, <1>11, <1>12, <1>13,
           <1>14, <1>15, <1>16, <1>17, <1>18, <1>19, <1>20
        DEF Next, IngestStep, FoundAll, Answered

(* The Want: it is sent when there is none, travels from the channel to a   *)
(* request or to its answer, and is taken from there.                       *)
LEMMA StepWantPlaced ==
  ASSUME FInv, [Next]_vars
  PROVE  WantPlaced'
<1> USE FetchAssumption DEF FInv, WantPlaced
<1> TypeOK
  OBVIOUS
<1>1. CASE UNCHANGED <<ingest, chan, pending, reply>>
  BY <1>1 DEF Wants
<1>2. CASE UNCHANGED <<chan, pending, reply>> /\ ingest.at # "await" /\ ingest'.at # "await"
  BY <1>2 DEF Wants
<1>3. CASE Dial
  <2>1. Wants' = Wants
    BY <1>3 DEF Dial, Send, Wants, TypeOK
  <2> QED BY <1>3, <2>1 DEF Dial, Send, Wants, p2pVars, Dialing, At
<1>4. CASE Ask
  <2>1. CASE loop = "ended"
    BY <1>4, <2>1 DEF Ask, Send, Wants, NextPin, At, p2pVars
  <2>2. CASE loop # "ended"
    <3>1. ingest.h \in Hash
      BY <1>4 DEF Ask, TypeOK, Working, Asleep, Dialing, NextPin, At
    <3>2. chan' = Append(chan, ingest.h) /\ ingest' = At("await", ingest.h, "none")
      BY <1>4, <2>2 DEF Ask, Send
    <3>3. Wants' = {Len(chan) + 1} /\ chan'[Len(chan) + 1] = ingest.h
      BY <1>4, <3>1, <3>2 DEF Ask, Wants, TypeOK
    <3> QED BY <1>4, <3>2, <3>3 DEF Ask, At, p2pVars
  <2> QED BY <2>1, <2>2
<1>5. CASE Awaited
  BY <1>5 DEF Awaited, Wants, NextPin, At, p2pVars
<1>6. CASE Started
  <2>1. CASE UNCHANGED <<chan, reply>>
    BY <1>6, <2>1 DEF Started, Wants
  <2>2. CASE chan' = <<>> /\ Dropped
    <3>1. Wants' = {}
      BY <2>2 DEF Wants
    <3> QED BY <1>6, <2>2, <3>1 DEF Started, Dropped
  <2> QED BY <1>6, <2>1, <2>2 DEF Started
<1>7. CASE HandleCmd
  <2>1. Wants' = {i \in 1..(Len(chan) - 1) : i + 1 \in Wants}
        /\ \A i \in Wants' : chan'[i] = chan[i + 1]
    BY <1>7 DEF HandleCmd, Wants, TypeOK
  <2>2. CASE Head(chan) = NoHash
    <3>1. 1 \notin Wants /\ Wants \subseteq 1..Len(chan)
      BY <1>7, <2>2 DEF HandleCmd, Wants, TypeOK
    <3>2. \A i \in Wants : i - 1 \in Wants'
      BY <1>7, <2>1, <3>1 DEF HandleCmd, TypeOK
    <3>3. UNCHANGED <<ingest, pending, reply>>
      BY <1>7, <2>2 DEF HandleCmd
    <3>4. \A i \in Wants' : chan'[i] = ingest.h /\ \A j \in Wants' : j = i
      BY <2>1
    <3>5. Wants' = {} <=> Wants = {}
      BY <2>1, <3>2
    <3> QED BY <3>3, <3>4, <3>5
  <2>3. CASE Head(chan) # NoHash
    <3>1. 1 \in Wants /\ chan[1] = Head(chan)
      BY <1>7, <2>3 DEF HandleCmd, Wants, TypeOK
    <3>2. Wants = {1} /\ Wants' = {}
      BY <2>1, <3>1
    <3>3. ingest' = ingest /\ ingest.at = "await" /\ ingest.h = Head(chan)
          /\ pending = {} /\ reply = "unsent"
      BY <1>7, <3>1, <3>2 DEF HandleCmd
    <3>4. CASE Head(chan) \in DOMAIN providers
      <4>1. pending' = {[h |-> Head(chan), peer |-> front[Head(chan)]]} /\ reply' = "unsent"
        BY <1>7, <2>3, <3>3, <3>4 DEF HandleCmd
      <4> QED BY <3>2, <3>3, <4>1
    <3>5. CASE Head(chan) \notin DOMAIN providers
      <4>1. pending' = {} /\ reply' = "none"
        BY <1>7, <2>3, <3>3, <3>5 DEF HandleCmd
      <4> QED BY <3>2, <3>3, <4>1
    <3> QED BY <3>4, <3>5
  <2> QED BY <2>2, <2>3
<1>8. ASSUME NEW get \in pending, Response(get) \/ OutboundFailure(get)
      PROVE  WantPlaced'
  <2>1. pending' = {} /\ UNCHANGED <<ingest, chan>>
    BY <1>8 DEF Response, OutboundFailure
  <2>2. reply' # "unsent"
    BY <1>8, VerifiedIsGood DEF Response, OutboundFailure
  <2>3. Wants' = Wants
    BY <2>1 DEF Wants
  <2> QED BY <2>1, <2>2, <2>3
<1>9. CASE Restart
  BY <1>9 DEF Restart, Wants, Asleep, At
<1>10. ASSUME NEW gateways, NEW n, StartPass(gateways, n)
       PROVE  WantPlaced'
  BY <1>2, <1>10 DEF StartPass, Asleep, Dialing, At, p2pVars
<1>11. ASSUME NEW list, ReadPins(list)
       PROVE  WantPlaced'
  BY <1>2, <1>11 DEF ReadPins, Dialing, NextPin, At, p2pVars
<1>12. ASSUME NEW h, LookAt(h)
       PROVE  WantPlaced'
  BY <1>2, <1>12 DEF LookAt, NextPin, At, p2pVars
<1>13. ASSUME NEW h, NEW answers, Acquire(h, answers)
       PROVE  WantPlaced'
  BY <1>2, <1>13 DEF Acquire, At, p2pVars
<1>14. CASE Has \/ CheckPut \/ WriteFile \/ Insert \/ EndPass
  <2>1. UNCHANGED <<chan, pending, reply>> /\ ingest.at # "await"
    BY <1>14 DEF Has, CheckPut, WriteFile, Insert, EndPass, NextPin, At, p2pVars
  <2>2. ingest'.at # "await"
    BY <1>14 DEF Has, CheckPut, WriteFile, Insert, EndPass, Asleep, NextPin, At,
                 TypeOK, Working, Dialing
  <2> QED BY <1>2, <2>1, <2>2
<1>15. ASSUME NEW p, NEW h, Gossip(p, h)
       PROVE  WantPlaced'
  BY <1>1, <1>15 DEF Gossip, Heard
<1>16. ASSUME NEW x, Confirm(x) \/ UrlGone(x) \/ PeerFlips(x)
       PROVE  WantPlaced'
  BY <1>1, <1>16 DEF Confirm, UrlGone, PeerFlips, p2pVars
<1>18. ASSUME NEW a, AdminStep(a) \/ \E h \in Hash : Deny(a, h) \/ Allow(a, h)
       PROVE  WantPlaced'
  BY <1>1, <1>18 DEF AdminStep, Unlink, Unindex, Deny, Allow, p2pVars
<1>17. CASE UNCHANGED vars
  BY <1>1, <1>17 DEF vars, p2pVars
<1> QED BY <1>3, <1>4, <1>5, <1>6, <1>7, <1>8, <1>9, <1>10, <1>11, <1>12, <1>13, <1>14, <1>15,
           <1>16, <1>17, <1>18
        DEF Next, IngestStep, FoundAll, Answered

(* What is put was confirmed when the pass read its pins, and confirmed     *)
(* hashes stay so; every source goes through Verified.                      *)
LEMMA StepOnlyVerified ==
  ASSUME FInv, [Next]_vars
  PROVE  OnlyVerified'
<1> USE FetchAssumption DEF FInv, OnlyVerified
<1> DEFINE Quiet == {Asleep, Dialing, NextPin}
<1>1. CASE UNCHANGED <<confirmed, ingest, reply>>
  BY <1>1
<1>2. ASSUME ingest' \in Quiet, UNCHANGED <<confirmed, reply>>, ingest.at # "await"
      PROVE  OnlyVerified'
  <2>1. reply' = "unsent"
    BY <1>2 DEF WantPlaced
  <2> QED BY <1>2, <2>1 DEF Working, Asleep, Dialing, NextPin, At
<1>3. ASSUME NEW gateways, NEW n, StartPass(gateways, n)
      PROVE  OnlyVerified'
  BY <1>2, <1>3 DEF StartPass, Asleep, At, world, p2pVars
<1>4. ASSUME NEW list, ReadPins(list)
      PROVE  OnlyVerified'
  BY <1>2, <1>4 DEF ReadPins, Dialing, At, world, p2pVars
<1>5. ASSUME NEW h \in Hash, LookAt(h)
      PROVE  OnlyVerified'
  <2>1. h \in confirmed /\ reply = "unsent"
    BY <1>5 DEF LookAt, TypeOK, WantPlaced, NextPin, At
  <2>2. UNCHANGED <<confirmed, reply>> /\ ingest' \in {ingest, At("has", h, "none")}
    BY <1>5 DEF LookAt, world, p2pVars
  <2> QED BY <2>1, <2>2 DEF At
<1>6. ASSUME NEW h \in Hash, NEW answers \in Answers(h), Acquire(h, answers)
      PROVE  OnlyVerified'
  <2>1. h \in confirmed /\ reply = "unsent"
    BY <1>6 DEF Acquire, WantPlaced, Working, Answer, At
  <2>2. UNCHANGED <<confirmed, reply>>
    BY <1>6 DEF Acquire, world, p2pVars
  <2>3. \/ ingest' = At("put", h, "good") /\ h \notin Oversized
        \/ ingest' = At("ask", h, "none")
    BY <1>6, VerifiedIsGood DEF Acquire, Taken
  <2> QED BY <2>1, <2>2, <2>3 DEF At
<1>7. CASE Ask
  <2>1. UNCHANGED <<confirmed, reply>>
        /\ ingest' \in {NextPin, At("await", ingest.h, "none")}
    BY <1>7 DEF Ask, world, p2pVars
  <2>2. reply = "unsent" /\ ingest.h \in confirmed
    BY <1>7 DEF Ask, WantPlaced, TypeOK, Asleep, Dialing, NextPin, At
  <2> QED BY <2>1, <2>2 DEF NextPin, Working, At
<1>8. CASE Awaited
  <2>1. reply' = "unsent" /\ confirmed' = confirmed
    BY <1>8 DEF Awaited, world
  <2>2. ingest.h \in confirmed
    BY <1>8 DEF Awaited, TypeOK, Asleep, Dialing, NextPin, At
  <2>3. \/ ingest' = NextPin
        \/ ingest' = At("put", ingest.h, "good") /\ ingest.h \notin Oversized
    BY <1>8 DEF Awaited
  <2> QED BY <2>1, <2>2, <2>3 DEF NextPin, Working, At
<1>9. CASE EndPass
  BY <1>2, <1>9 DEF EndPass, NextPin, At, world, p2pVars
<1>17. CASE Has \/ CheckPut \/ WriteFile \/ Insert
  <2>1. UNCHANGED <<confirmed, reply>> /\ ingest.at # "await" /\ ingest \in Working
    BY <1>17 DEF Has, CheckPut, WriteFile, Insert, TypeOK, Asleep, Dialing, NextPin, At,
                 world, p2pVars
  <2>2. CASE ingest' = NextPin
    BY <1>2, <2>1, <2>2
  <2>3. CASE ingest' # NextPin
    <3>1. ingest'.h = ingest.h /\ ingest'.bytes = IF ingest.at = "has" THEN "none" ELSE ingest.bytes
      BY <1>17, <2>1, <2>3 DEF Has, CheckPut, WriteFile, Insert, At, Working
    <3>2. /\ ingest.at = "has" => ingest'.at = "acquire"
          /\ ingest.at # "has" => ingest.at \in {"put", "write"} /\ ingest'.at \in {"write", "insert"}
      BY <1>17, <2>1, <2>3 DEF Has, CheckPut, WriteFile, Insert, At, Working
    <3> QED BY <2>1, <3>1, <3>2
  <2> QED BY <2>2, <2>3
<1>10. CASE Started \/ HandleCmd
  <2>1. reply' \in {reply, "none"} /\ UNCHANGED <<confirmed, ingest>>
    BY <1>10 DEF Started, Dropped, HandleCmd, world
  <2> QED BY <2>1
<1>11. ASSUME NEW get \in pending, Response(get) \/ OutboundFailure(get)
       PROVE  OnlyVerified'
  <2>1. UNCHANGED <<confirmed, ingest>> /\ get.h = ingest.h
    BY <1>11 DEF Response, OutboundFailure, WantPlaced, world
  <2>2. reply' \in {"none", "good"} /\ (reply' = "good" => get.h \notin Oversized)
    BY <1>11, VerifiedIsGood DEF Response, OutboundFailure
  <2> QED BY <2>1, <2>2
<1>12. ASSUME NEW h, Confirm(h)
       PROVE  OnlyVerified'
  BY <1>12 DEF Confirm, p2pVars
<1>13. CASE Restart
  BY <1>13 DEF Restart, Working, Asleep, At, world
<1>14. CASE Dial \/ UNCHANGED vars
  BY <1>1, <1>14 DEF Dial, vars, world, p2pVars
<1>15. ASSUME NEW p, NEW h, Gossip(p, h)
       PROVE  OnlyVerified'
  BY <1>1, <1>15 DEF Gossip, Heard, world
<1>16. ASSUME NEW x, UrlGone(x) \/ PeerFlips(x)
       PROVE  OnlyVerified'
  BY <1>1, <1>16 DEF UrlGone, PeerFlips, world
<1>18. ASSUME NEW a, AdminStep(a) \/ \E h \in Hash : Deny(a, h) \/ Allow(a, h)
       PROVE  OnlyVerified'
  BY <1>1, <1>18 DEF AdminStep, Unlink, Unindex, Deny, Allow, world
<1> QED BY <1>3, <1>4, <1>5, <1>6, <1>7, <1>8, <1>9, <1>10, <1>11, <1>12, <1>13, <1>14, <1>15, <1>16,
           <1>17, <1>18
        DEF Next, IngestStep, FoundAll, Answered

LEMMA OneMore ==
  ASSUME NEW S, NEW x, IsFiniteSet(S)
  PROVE  /\ IsFiniteSet(S \cup {x})
         /\ Cardinality(S \cup {x}) \in Nat
         /\ Cardinality(S \cup {x}) <= Cardinality(S) + 1
<1>1. Cardinality(S) \in Nat
  BY FS_CardinalityType
<1>2. /\ IsFiniteSet(S \cup {x})
      /\ Cardinality(S \cup {x}) = Cardinality(S) \/ Cardinality(S \cup {x}) = Cardinality(S) + 1
  BY FS_AddElement
<1> QED BY <1>1, <1>2

(* Only gossip adds to the table, a peer or a hash at a time.               *)
LEMMA StepTable ==
  ASSUME FInv, [Next]_vars
  PROVE  FiniteTable' /\ TableBounded'
<1> USE FetchAssumption DEF FInv, FiniteTable, TableBounded
<1>1. CASE UNCHANGED <<providers, front>>
  BY <1>1
<1>2. ASSUME NEW p \in Peer, NEW h \in Hash, Heard(p, h)
      PROVE  FiniteTable' /\ TableBounded'
  <2> DEFINE known == IF h \in DOMAIN providers THEN providers[h] ELSE {}
             now   == IF HasRoom(known) THEN known \cup {p} ELSE known
             hs    == DOMAIN providers \cup {h}
  <2>1. providers' = [k \in hs |-> IF k = h THEN now ELSE providers[k]]
    BY <1>2 DEF Heard
  <2>2. PICK q \in now : front' = [k \in hs |-> IF k = h THEN q ELSE front[k]]
    BY <1>2 DEF Heard
  <2>3. IsFiniteSet(known) /\ Cardinality(known) <= MaxPeersPerHash /\ Cardinality(known) \in Nat
    BY FS_EmptySet, FS_CardinalityType
  <2>4. IsFiniteSet(now) /\ Cardinality(now) <= MaxPeersPerHash
    <3>1. /\ IsFiniteSet(known \cup {p}) /\ Cardinality(known \cup {p}) \in Nat
          /\ Cardinality(known \cup {p}) <= Cardinality(known) + 1
      BY <2>3, OneMore
    <3> QED BY <2>3, <3>1 DEF HasRoom
  <2>5. IsFiniteSet(hs) /\ Cardinality(hs) <= MaxTracked
    <3>1. h \in DOMAIN providers \/ Cardinality(DOMAIN providers) < MaxTracked
      BY <1>2 DEF Heard, Trackable
    <3>2. Cardinality(DOMAIN providers) \in Nat
      BY FS_CardinalityType
    <3>3. IsFiniteSet(hs) /\ Cardinality(hs) \in Nat
          /\ Cardinality(hs) <= Cardinality(DOMAIN providers) + 1
      BY OneMore
    <3>4. CASE h \in DOMAIN providers
      <4>1. hs = DOMAIN providers
        BY <3>4
      <4> QED BY <4>1
    <3> QED BY <3>1, <3>2, <3>3, <3>4
  <2> HIDE DEF known, now
  <2> QED BY <2>1, <2>2, <2>4, <2>5
<1>3. CASE Restart
  BY <1>3, FS_EmptySet DEF Restart, Empty
<1>4. CASE Next
  <2>1. \/ UNCHANGED <<providers, front>>
        \/ Restart
        \/ \E p \in Peer, h \in Hash : Heard(p, h)
    BY <1>4 DEF Next, IngestStep, FoundAll, Answered, StartPass, Dial, ReadPins, LookAt, Acquire,
       Has, Ask, Awaited, CheckPut, WriteFile, Insert, EndPass, Started, HandleCmd, Gossip, Response,
       OutboundFailure, Confirm, AdminStep, Unlink, Unindex, Deny, Allow, UrlGone, PeerFlips, p2pVars
  <2> QED BY <1>1, <1>2, <1>3, <2>1
<1> QED BY <1>1, <1>4 DEF vars, p2pVars

LEMMA StepFInv == FInv /\ [Next]_vars => FInv'
BY StepTypeOK, StepWantPlaced, StepOnlyVerified, StepTable DEF FInv

LEMMA FInvAlways == Spec => []FInv
BY InitFInv, StepFInv, PTL DEF Spec
-----------------------------------------------------------------------------
(* Results.                                                                *)

(* Fetch.TypeOK for every instance.                                         *)
THEOREM FetchTypeCorrect == Spec => []TypeOK
<1>1. FInv => TypeOK
  BY DEF FInv
<1> QED BY <1>1, FInvAlways, PTL

(* Fetch.TableBounded for every instance: whatever is announced by whoever, *)
(* the table stays within MAX_TRACKED_HASHES and MAX_PEERS_PER_HASH.        *)
THEOREM TableStaysBounded == Spec => []TableBounded
<1>1. FInv => TableBounded
  BY DEF FInv
<1> QED BY <1>1, FInvAlways, PTL

LEMMA AtMostOne ==
  ASSUME NEW S, \A x \in S : \A y \in S : y = x
  PROVE  Cardinality(S) = IF S = {} THEN 0 ELSE 1
<1>1. CASE S = {}
  BY <1>1, FS_EmptySet
<1>2. CASE S # {}
  <2>1. PICK x : S = {x}
    BY <1>2
  <2> QED BY <1>2, <2>1, FS_Singleton
<1> QED BY <1>1, <1>2

(* Fetch.OneWant for every instance: a Want is neither lost nor answered    *)
(* twice, and the answer is for the hash that ingest waits for.             *)
THEOREM WantIsOne == Spec => []OneWant
<1>1. FInv => OneWant
  <2> SUFFICES ASSUME FInv PROVE OneWant
    OBVIOUS
  <2> USE DEF FInv, WantPlaced
  <2>1. Cardinality(pending) = IF pending = {} THEN 0 ELSE 1
    BY AtMostOne
  <2>2. Cardinality(Wants) = IF Wants = {} THEN 0 ELSE 1
    BY AtMostOne
  <2>3. Whereabouts = IF ingest.at = "await" THEN 1 ELSE 0
    BY <2>1, <2>2 DEF Whereabouts
  <2> QED BY <2>3 DEF OneWant
<1> QED BY <1>1, FInvAlways, PTL

LEMMA InitContract == Init => Contract!Init
BY FetchAssumption DEF Init, Contract!Init, Asleep, Idle, At

(* What the contract speaks of, and what the steps below may leave alone.   *)
Admitting == IF ingest.at = "write" THEN {ingest.h} ELSE {}
Doomed    == {h \in Hash : \E a \in Admin : admin[a] = [at |-> "unlink", h |-> h]}

LEMMA ContractVars ==
  [Contract!Next]_(Contract!vars)
    <=> Contract!Next \/ UNCHANGED <<confirmed, denied, blob, Admitting, Doomed>>
BY DEF Contract!vars, Admitting, Doomed

(* A put is admitted, and then written or not.                              *)
LEMMA PutContract ==
  ASSUME FInv, CheckPut \/ WriteFile
  PROVE  [Contract!Next]_(Contract!vars)
<1> USE DEF FInv
<1>1. /\ ingest.h \in confirmed \ Oversized /\ ingest.bytes = "good"
      /\ ingest.h \in Hash /\ ingest \in Working
  BY DEF CheckPut, WriteFile, OnlyVerified, TypeOK, Working, Asleep, Dialing, NextPin, At
<1>2. UNCHANGED <<confirmed, denied, admin>> /\ UNCHANGED Doomed
  BY DEF CheckPut, WriteFile, world, store, Doomed
<1>3. CASE CheckPut /\ ingest' = [ingest EXCEPT !.at = "write"] /\ ingest.h \notin denied
  <2>1. Admitting = {} /\ Admitting' = {ingest.h} /\ blob' = blob
    BY <1>1, <1>3 DEF CheckPut, Admitting, Working, store
  <2>2. Contract!Admit(ingest.h)
    BY <1>1, <1>2, <1>3, <2>1 DEF Contract!Admit, Admitting, Doomed
  <2> QED BY <1>1, <2>2 DEF Contract!Next
<1>4. CASE CheckPut /\ ingest' = NextPin
  BY <1>2, <1>4, ContractVars DEF CheckPut, Admitting, NextPin, At, store
<1>5. CASE WriteFile /\ blob' = [blob EXCEPT ![ingest.h] = ingest.bytes]
                    /\ ingest' = [ingest EXCEPT !.at = "insert"]
  <2>1. Admitting = {ingest.h} /\ Admitting' = {}
    BY <1>1, <1>5 DEF WriteFile, Admitting, Working
  <2>2. Contract!Gain(ingest.h)
    BY <1>1, <1>2, <1>5, <2>1 DEF Contract!Gain, Admitting, Doomed
  <2> QED BY <1>1, <2>2 DEF Contract!Next
<1>6. CASE WriteFile /\ ingest' = NextPin /\ UNCHANGED blob
  <2>1. Admitting' = {}
    BY <1>6 DEF Admitting, NextPin, At
  <2>2. Contract!GiveUp
    BY <1>2, <1>6, <2>1 DEF Contract!GiveUp, Admitting, Doomed
  <2> QED BY <2>2 DEF Contract!Next
<1> QED BY <1>3, <1>4, <1>5, <1>6 DEF CheckPut, WriteFile

(* A takedown dooms the payload until its file is removed.                  *)
LEMMA AdminContract ==
  ASSUME FInv, NEW a \in Admin, AdminStep(a) \/ \E h \in Hash : Deny(a, h) \/ Allow(a, h)
  PROVE  [Contract!Next]_(Contract!vars)
<1> USE DEF FInv
<1>1. UNCHANGED <<confirmed, ingest>> /\ UNCHANGED Admitting
  BY DEF AdminStep, Unlink, Unindex, Deny, Allow, world, Admitting
<1>2. admin \in [Admin -> {Idle} \cup Purge]
  BY DEF TypeOK
<1>3. ASSUME NEW h \in Hash, Deny(a, h)
      PROVE  Contract!Next
  <2>1. /\ admin[a] = Idle /\ admin' = [admin EXCEPT ![a] = [at |-> "unlink", h |-> h]]
        /\ blob' = blob /\ denied' = denied \cup {h}
    BY <1>3 DEF Deny
  <2>2. Doomed' = Doomed \cup {h}
    BY <1>2, <2>1 DEF Doomed, Idle
  <2>3. Contract!TakeDown(h)
    BY <1>1, <2>1, <2>2 DEF Contract!TakeDown, Admitting, Doomed
  <2> QED BY <2>3 DEF Contract!Next
<1>4. ASSUME NEW h \in Hash, Allow(a, h)
      PROVE  Contract!Next
  <2>1. denied' = denied \ {h} /\ UNCHANGED <<blob, admin>> /\ UNCHANGED Doomed
    BY <1>4 DEF Allow, Doomed
  <2>2. Contract!Withdraw(h)
    BY <1>1, <2>1 DEF Contract!Withdraw, Admitting, Doomed
  <2> QED BY <2>2 DEF Contract!Next
<1>5. CASE Unlink(a)
  <2>1. PICK k \in Hash : admin[a] = [at |-> "unlink", h |-> k]
    BY <1>2, <1>5 DEF Unlink, Purge, Idle
  <2>2. /\ admin' = [admin EXCEPT ![a] = [at |-> "unindex", h |-> k]]
        /\ blob' = [blob EXCEPT ![k] = "none"] /\ denied' = denied
    <3>1. admin' = [admin EXCEPT ![a] = [admin[a] EXCEPT !.at = "unindex"]]
      BY <1>5 DEF Unlink
    <3>2. [[at |-> "unlink", h |-> k] EXCEPT !.at = "unindex"] = [at |-> "unindex", h |-> k]
      OBVIOUS
    <3> QED BY <1>5, <2>1, <3>1, <3>2 DEF Unlink
  <2>3. k \in Doomed /\ Doomed' \in {Doomed, Doomed \ {k}}
    <3>1. \A j \in Hash \ {k} : j \in Doomed' <=> j \in Doomed
      BY <1>2, <2>1, <2>2 DEF Doomed
    <3>2. k \in Doomed /\ Doomed \subseteq Hash /\ Doomed' \subseteq Hash
      BY <2>1 DEF Doomed
    <3> QED BY <3>1, <3>2
  <2>4. Contract!Lose(k)
    BY <1>1, <2>2, <2>3 DEF Contract!Lose, Admitting, Doomed
  <2> QED BY <2>1, <2>4 DEF Contract!Next
<1>6. CASE Unindex(a)
  <2>1. /\ admin[a].at = "unindex" /\ admin' = [admin EXCEPT ![a] = Idle]
        /\ UNCHANGED <<blob, denied>>
    BY <1>6 DEF Unindex
  <2>2. UNCHANGED Doomed
    BY <1>2, <2>1 DEF Doomed, Idle
  <2> QED BY <1>1, <2>1, <2>2, ContractVars
<1> QED BY <1>3, <1>4, <1>5, <1>6 DEF AdminStep

LEMMA RestartContract == FInv /\ Restart => Contract!Next
<1> SUFFICES ASSUME FInv, Restart PROVE Contract!Next
  OBVIOUS
<1>1. Admitting' = {} /\ Doomed' = {}
  BY DEF Restart, Admitting, Doomed, Asleep, Idle, At
<1>2. Contract!Restart
  BY <1>1 DEF Restart, Contract!Restart, Admitting, Doomed, world
<1> QED BY <1>2 DEF Contract!Next

(* Each step is one of the contract or leaves what it speaks of alone.      *)
LEMMA StepContract == FInv /\ [Next]_vars => [Contract!Next]_(Contract!vars)
<1> SUFFICES ASSUME FInv, [Next]_vars PROVE [Contract!Next]_(Contract!vars)
  OBVIOUS
<1>1. CASE UNCHANGED <<confirmed, denied, blob, admin>> /\ ingest.at # "write" /\ ingest'.at # "write"
  BY <1>1, ContractVars DEF Admitting, Doomed
<1>2. CASE UNCHANGED <<confirmed, denied, blob, admin, ingest>>
  BY <1>2, ContractVars DEF Admitting, Doomed
<1>3. ASSUME NEW h \in Hash, Confirm(h)
      PROVE  [Contract!Next]_(Contract!vars)
  <2>1. UNCHANGED <<denied, blob, admin, ingest>> /\ UNCHANGED <<Admitting, Doomed>>
    BY <1>3 DEF Confirm, store, Admitting, Doomed
  <2>2. Contract!List(h)
    BY <1>3, <2>1 DEF Confirm, Contract!List, Admitting, Doomed
  <2> QED BY <2>2 DEF Contract!Next
<1>4. CASE Has \/ Ask \/ Awaited \/ Insert \/ EndPass
  BY <1>1, <1>4 DEF Has, Ask, Awaited, Insert, EndPass, NextPin, Asleep, At, world, store,
                    FInv, TypeOK, Working, Dialing
<1>5. ASSUME NEW h, LookAt(h) \/ (\E answers : Acquire(h, answers)) \/ ReadPins(h)
              \/ (\E n : StartPass(h, n))
      PROVE  [Contract!Next]_(Contract!vars)
  BY <1>1, <1>5 DEF LookAt, Acquire, ReadPins, StartPass, NextPin, Dialing, Asleep, At, world, store
<1>6. CASE Dial \/ Started \/ HandleCmd \/ Answered
  BY <1>2, <1>6 DEF Dial, Started, HandleCmd, Answered, Response, OutboundFailure, world, store
<1>7. ASSUME NEW x, (\E h : Gossip(x, h)) \/ UrlGone(x) \/ PeerFlips(x)
      PROVE  [Contract!Next]_(Contract!vars)
  BY <1>2, <1>7 DEF Gossip, Heard, UrlGone, PeerFlips, world, store
<1>8. CASE UNCHANGED vars
  BY <1>2, <1>8 DEF vars, world, store
<1> QED BY <1>3, <1>4, <1>5, <1>6, <1>7, <1>8, PutContract, AdminContract, RestartContract,
           FetchAssumption
        DEF Next, IngestStep, FoundAll

(* Fetch.KeepsContract for every instance: Fetch implements Replica.  Only  *)
(* a payload that was listed, verified, small enough and not denied when    *)
(* its put was checked comes to the disk, at most one after a takedown, and *)
(* only a takedown removes one, however passes, the steps of puts and       *)
(* purges, answers, crashes and allows interleave.                          *)
THEOREM FetchImplementsReplica == Spec => KeepsContract
BY InitContract, StepContract, FInvAlways, PTL DEF Spec, KeepsContract, Contract!Spec
=============================================================================
