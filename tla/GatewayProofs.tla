---------------------------- MODULE GatewayProofs ----------------------------
(***************************************************************************)
(* Proofs about Gateway, for any hashes, requests, permits and faults.     *)
(***************************************************************************)
EXTENDS Gateway, StoreProofs, FiniteSetTheorems

Active == {r \in Reader : req[r].at \in InHandler}

ReqOK ==
  /\ req \in [Reader -> Request]
  /\ \A r \in Reader : req[r].at # "free" => req[r].h \in Hash

PermitsOut == permits \in Nat /\ IsFiniteSet(Active) /\ permits + Cardinality(Active) = MaxConns

(* Only bytes that match their hash are sent.                               *)
ServesWhole == \A r \in Reader : req[r].at = "send" => req[r].body = "whole"

GwInv == TypeOK /\ HoldsFinite /\ ReqOK /\ PermitsOut /\ ServesWhole

-----------------------------------------------------------------------------
(* Beneath the gateway the store only takes steps of its own.              *)

LEMMA StoreBelow == [GwNext]_gwAll => [Next]_vars
<1> SUFFICES ASSUME [GwNext]_gwAll PROVE [Next]_vars
  OBVIOUS
<1>1. CASE StoreStep
  BY <1>1 DEF StoreStep, Next
<1>2. CASE GwDeny \/ GwAllow
  BY <1>2 DEF GwDeny, GwAllow, Next
<1>3. CASE GwRestart
  BY <1>3 DEF GwRestart, Next
<1>4. ASSUME NEW r \in Reader, GwStep(r) PROVE UNCHANGED vars
  BY <1>4 DEF GwStep, Arrive, Gone, Head, Admit, LookUp, ReadFile, Verify, Sent, Disconnect
<1> QED BY <1>1, <1>2, <1>3, <1>4 DEF GwNext, gwAll

-----------------------------------------------------------------------------
(* A step of one request: the request it becomes, and the permit it takes   *)
(* or returns with the move.                                                *)
Becomes(r, q) ==
  /\ UNCHANGED vars
  /\ req' = [req EXCEPT ![r] = q]
  /\ q \in Request
  /\ q.at # "free" => q.h \in Hash
  /\ q.at = "send" => q.body = "whole"
  /\ \/ req[r].at \in InHandler /\ q.at \notin InHandler /\ permits' = permits + 1
     \/ req[r].at \notin InHandler /\ q.at \in InHandler /\ permits > 0 /\ permits' = permits - 1
     \/ (req[r].at \in InHandler <=> q.at \in InHandler) /\ permits' = permits

LEMMA NoRequestType == NoRequest \in Request /\ NoRequest.at = "free" /\ ~NoRequest.late
BY DEF NoRequest, Request, FileState

LEMMA AnsweredBecomes ==
  ASSUME ReqOK, NEW r \in Reader, UNCHANGED vars, Answered(r),
         permits' = IF req[r].at \in InHandler THEN permits + 1 ELSE permits
  PROVE  Becomes(r, NoRequest)
BY NoRequestType DEF Answered, Becomes, InHandler

LEMMA GotoBecomes ==
  ASSUME ReqOK, NEW r \in Reader, NEW label, GwGoto(r, label)
  PROVE  req' = [req EXCEPT ![r] = [at |-> label, h |-> req[r].h, late |-> req[r].late, body |-> req[r].body]]
<1>1. req[r] \in Request
  BY DEF ReqOK
<1>2. [req[r] EXCEPT !.at = label] = [at |-> label, h |-> req[r].h, late |-> req[r].late, body |-> req[r].body]
  BY <1>1 DEF Request
<1> QED BY <1>2 DEF GwGoto

LEMMA ReadFields ==
  ASSUME NEW q \in Request, NEW bytes
  PROVE  [q EXCEPT !.at = "verify", !.body = bytes]
           = [at |-> "verify", h |-> q.h, late |-> q.late, body |-> bytes]
<1> DEFINE p == [q EXCEPT !.at = "verify"]
<1>1. p = [at |-> "verify", h |-> q.h, late |-> q.late, body |-> q.body]
  BY DEF Request
<1>2. p \in [at : {"verify"}, h : Hash \cup {NoHash}, late : BOOLEAN, body : FileState]
  BY <1>1 DEF Request
<1> HIDE DEF p
<1>3. [p EXCEPT !.body = bytes] = [at |-> p.at, h |-> p.h, late |-> p.late, body |-> bytes]
  BY <1>2
<1>4. p.at = "verify" /\ p.h = q.h /\ p.late = q.late
  BY <1>1, Zenon
<1>5. [p EXCEPT !.body = bytes] = [at |-> "verify", h |-> q.h, late |-> q.late, body |-> bytes]
  BY <1>3, <1>4, Zenon
<1> QED BY <1>5, Zenon DEF p

(* A request moves with permit, hash and history as they were.              *)
LEMMA MovesBecomes ==
  ASSUME ReqOK, NEW r \in Reader, UNCHANGED vars,
         NEW label \in {"headLookup", "lookup", "read", "verify", "send"}, NEW bytes \in FileState,
         req' = [req EXCEPT ![r] = [at |-> label, h |-> req[r].h, late |-> req[r].late, body |-> bytes]],
         req[r].at # "free", label = "send" => bytes = "whole",
         \/ req[r].at \in InHandler /\ label \notin InHandler /\ permits' = permits + 1
         \/ req[r].at \notin InHandler /\ label \in InHandler /\ permits > 0 /\ permits' = permits - 1
         \/ (req[r].at \in InHandler <=> label \in InHandler) /\ permits' = permits
  PROVE  \E q : Becomes(r, q)
<1> DEFINE q == [at |-> label, h |-> req[r].h, late |-> req[r].late, body |-> bytes]
<1>1. req[r] \in Request /\ req[r].h \in Hash
  BY DEF ReqOK
<1>2. q \in Request
  BY <1>1 DEF Request, InHandler
<1>3. q.at = label /\ q.h = req[r].h /\ q.body = bytes
  OBVIOUS
<1> HIDE DEF q
<1>4. req' = [req EXCEPT ![r] = q]
  BY DEF q
<1>5. Becomes(r, q)
  BY <1>1, <1>2, <1>3, <1>4 DEF Becomes
<1> QED BY <1>5

LEMMA StepBecomes ==
  ASSUME GwInv, NEW r \in Reader, GwStep(r)
  PROVE  \E q : Becomes(r, q)
<1> USE DEF GwInv
<1>0. req[r] \in Request /\ req[r].body \in FileState /\ (req[r].at # "free" => req[r].h \in Hash)
  BY DEF ReqOK, Request
<1>1. ASSUME NEW h \in Hash, Arrive(r, h) PROVE \E q : Becomes(r, q)
  <2>1. PICK method \in {"head", "arrived"} :
          req' = [req EXCEPT ![r] = [at |-> method, h |-> h, late |-> h \in acked, body |-> "none"]]
    BY <1>1 DEF Arrive
  <2> DEFINE q == [at |-> method, h |-> h, late |-> h \in acked, body |-> "none"]
  <2>2. q \in Request
    BY DEF Request, FileState
  <2>3. q.at = method /\ q.h = h
    OBVIOUS
  <2>4. req[r].at \notin InHandler /\ permits' = permits /\ UNCHANGED vars
    BY <1>1, NoRequestType DEF Arrive, InHandler
  <2> HIDE DEF q
  <2>5. req' = [req EXCEPT ![r] = q]
    BY <2>1 DEF q
  <2>6. Becomes(r, q)
    BY <2>2, <2>3, <2>4, <2>5 DEF Becomes, InHandler
  <2> QED BY <2>6
<1>2. CASE Gone(r) \/ Sent(r)
  <2>1. Answered(r) /\ req[r].at \notin InHandler /\ permits' = permits /\ UNCHANGED vars
    BY <1>2 DEF Gone, Sent, InHandler
  <2> QED BY <2>1, AnsweredBecomes
<1>3. CASE Head(r)
  <2>1. CASE req[r].at = "headLookup"
    <3>1. Answered(r) /\ req[r].at \notin InHandler /\ permits' = permits /\ UNCHANGED vars
      BY <1>3, <2>1 DEF Head, InHandler
    <3> QED BY <3>1, AnsweredBecomes
  <2>2. CASE req[r].at # "headLookup"
    <3>1. req[r].at = "head" /\ GwGoto(r, "headLookup") /\ permits' = permits /\ UNCHANGED vars
      BY <1>3, <2>2 DEF Head
    <3>2. req' = [req EXCEPT ![r] = [at |-> "headLookup", h |-> req[r].h, late |-> req[r].late,
                                     body |-> req[r].body]]
      BY <3>1, GotoBecomes
    <3> QED BY <1>0, <3>1, <3>2, MovesBecomes DEF InHandler
  <2> QED BY <2>1, <2>2
<1>4. CASE Admit(r)
  <2>1. CASE permits = 0
    <3>1. Answered(r) /\ req[r].at \notin InHandler /\ permits' = permits /\ UNCHANGED vars
      BY <1>4, <2>1 DEF Admit, InHandler
    <3> QED BY <3>1, AnsweredBecomes
  <2>2. CASE permits # 0
    <3>1. /\ req[r].at = "arrived" /\ GwGoto(r, "lookup") /\ permits' = permits - 1
          /\ permits > 0 /\ UNCHANGED vars
      BY <1>4, <2>2 DEF Admit, PermitsOut
    <3>2. req' = [req EXCEPT ![r] = [at |-> "lookup", h |-> req[r].h, late |-> req[r].late,
                                     body |-> req[r].body]]
      BY <3>1, GotoBecomes
    <3> QED BY <1>0, <3>1, <3>2, MovesBecomes DEF InHandler
  <2> QED BY <2>1, <2>2
<1>5. CASE LookUp(r)
  <2>1. CASE req[r].h \in DOMAIN index
    <3>1. req[r].at = "lookup" /\ GwGoto(r, "read") /\ permits' = permits /\ UNCHANGED vars
      BY <1>5, <2>1 DEF LookUp
    <3>2. req' = [req EXCEPT ![r] = [at |-> "read", h |-> req[r].h, late |-> req[r].late,
                                     body |-> req[r].body]]
      BY <3>1, GotoBecomes
    <3> QED BY <1>0, <3>1, <3>2, MovesBecomes DEF InHandler
  <2>2. CASE req[r].h \notin DOMAIN index
    <3>1. Answered(r) /\ req[r].at \in InHandler /\ permits' = permits + 1 /\ UNCHANGED vars
      BY <1>5, <2>2 DEF LookUp, LeaveHandler, InHandler
    <3> QED BY <3>1, AnsweredBecomes
  <2> QED BY <2>1, <2>2
<1>6. CASE ReadFile(r)
  <2>1. CASE blob[req[r].h] = "none"
    <3>1. Answered(r) /\ req[r].at \in InHandler /\ permits' = permits + 1 /\ UNCHANGED vars
      BY <1>6, <2>1 DEF ReadFile, LeaveHandler, InHandler
    <3> QED BY <3>1, AnsweredBecomes
  <2>2. CASE blob[req[r].h] # "none"
    <3>1. /\ req[r].at = "read" /\ permits' = permits /\ UNCHANGED vars
          /\ req' = [req EXCEPT ![r] = [req[r] EXCEPT !.at = "verify", !.body = blob[req[r].h]]]
      BY <1>6, <2>2 DEF ReadFile
    <3>2. blob[req[r].h] \in FileState
      BY <1>0, <3>1 DEF TypeOK
    <3>3. req' = [req EXCEPT ![r] = [at |-> "verify", h |-> req[r].h, late |-> req[r].late,
                                     body |-> blob[req[r].h]]]
      BY <1>0, <3>1, ReadFields
    <3> QED BY <1>0, <3>1, <3>2, <3>3, MovesBecomes DEF InHandler
  <2> QED BY <2>1, <2>2
<1>7. CASE Verify(r)
  <2>1. CASE req[r].body # "whole"
    <3>1. Answered(r) /\ req[r].at \in InHandler /\ permits' = permits + 1 /\ UNCHANGED vars
      BY <1>7, <2>1 DEF Verify, InHandler
    <3> QED BY <3>1, AnsweredBecomes
  <2>2. CASE req[r].body = "whole"
    <3>1. req[r].at = "verify" /\ GwGoto(r, "send") /\ permits' = permits + 1 /\ UNCHANGED vars
      BY <1>7, <2>2 DEF Verify
    <3>2. req' = [req EXCEPT ![r] = [at |-> "send", h |-> req[r].h, late |-> req[r].late,
                                     body |-> req[r].body]]
      BY <3>1, GotoBecomes
    <3> QED BY <1>0, <2>2, <3>1, <3>2, MovesBecomes DEF InHandler
  <2> QED BY <2>1, <2>2
<1>8. CASE Disconnect(r)
  <2>1. /\ Answered(r) /\ UNCHANGED vars
        /\ permits' = IF req[r].at \in InHandler THEN permits + 1 ELSE permits
    BY <1>8 DEF Disconnect
  <2> QED BY <2>1, AnsweredBecomes
<1> QED BY <1>1, <1>2, <1>3, <1>4, <1>5, <1>6, <1>7, <1>8 DEF GwStep

LEMMA BecomesKeeps ==
  ASSUME GwInv, NEW r \in Reader, NEW q, Becomes(r, q)
  PROVE  ReqOK' /\ PermitsOut' /\ ServesWhole'
<1> USE DEF GwInv
<1>1. req \in [Reader -> Request] /\ req' = [req EXCEPT ![r] = q] /\ q \in Request
  BY DEF ReqOK, Becomes
<1>2. req'[r] = q /\ \A s \in Reader : s # r => req'[s] = req[s]
  BY <1>1
<1>3. ReqOK'
  BY <1>1, <1>2 DEF ReqOK, Becomes
<1>4. ServesWhole'
  BY <1>2 DEF ServesWhole, Becomes
<1>5. PermitsOut'
  <2>1. Cardinality(Active) \in Nat /\ permits \in Nat /\ MaxConns \in Nat
    BY FS_CardinalityType, GatewayAssumption DEF PermitsOut
  <2>2. CASE r \in Active /\ q.at \notin InHandler
    <3>1. Active' = Active \ {r} /\ permits' = permits + 1
      BY <1>2, <2>2 DEF Active, Becomes
    <3>2. IsFiniteSet(Active') /\ Cardinality(Active') = Cardinality(Active) - 1
      BY <2>2, <3>1, FS_RemoveElement DEF PermitsOut
    <3> QED BY <2>1, <3>1, <3>2 DEF PermitsOut
  <2>3. CASE r \notin Active /\ q.at \in InHandler
    <3>1. Active' = Active \cup {r} /\ permits > 0 /\ permits' = permits - 1
      BY <1>2, <2>3 DEF Active, Becomes
    <3>2. IsFiniteSet(Active') /\ Cardinality(Active') = Cardinality(Active) + 1
      BY <2>3, <3>1, FS_AddElement DEF PermitsOut
    <3> QED BY <2>1, <3>1, <3>2 DEF PermitsOut
  <2>4. CASE r \in Active <=> q.at \in InHandler
    <3>1. Active' = Active /\ permits' = permits
      BY <1>2, <2>4 DEF Active, Becomes
    <3> QED BY <3>1 DEF PermitsOut
  <2> QED BY <2>2, <2>3, <2>4
<1> QED BY <1>3, <1>4, <1>5

-----------------------------------------------------------------------------
(* The invariant.                                                          *)

LEMMA NoneActive ==
  ASSUME req = [r \in Reader |-> NoRequest], permits = MaxConns
  PROVE  ReqOK /\ PermitsOut /\ ServesWhole
<1>1. Active = {}
  BY NoRequestType DEF Active, InHandler
<1>2. PermitsOut
  BY <1>1, FS_EmptySet, GatewayAssumption DEF PermitsOut
<1> QED BY <1>2, NoRequestType DEF ReqOK, ServesWhole

LEMMA GwInitInv == GwInit => GwInv
BY TypeInit, NoneActive DEF GwInit, GwInv

(* An allow touches the history of the waiting requests, nothing else.      *)
LEMMA WithdrawnFields ==
  ASSUME ReqOK, NEW h, Withdrawn(h)
  PROVE  /\ req' \in [Reader -> Request]
         /\ \A r \in Reader : /\ req'[r].at = req[r].at /\ req'[r].h = req[r].h
                              /\ req'[r].body = req[r].body
                              /\ req'[r].late => req[r].late /\ req[r].h # h
<1>1. ASSUME NEW r \in Reader
      PROVE  /\ req'[r] \in Request /\ req'[r].at = req[r].at /\ req'[r].h = req[r].h
             /\ req'[r].body = req[r].body
             /\ req'[r].late => req[r].late /\ req[r].h # h
  <2>1. req[r] \in Request
    BY DEF ReqOK
  <2>2. CASE req[r].h = h
    <3>1. req'[r] = [req[r] EXCEPT !.late = FALSE]
      BY <2>2 DEF Withdrawn
    <3> QED BY <2>1, <3>1 DEF Request
  <2>3. CASE req[r].h # h
    <3>1. req'[r] = req[r]
      BY <2>3 DEF Withdrawn
    <3> QED BY <2>1, <2>3, <3>1
  <2> QED BY <2>2, <2>3
<1>2. req' = [r \in Reader |-> req'[r]]
  BY DEF Withdrawn
<1> QED BY <1>1, <1>2

LEMMA GwNextInv == GwInv /\ [GwNext]_gwAll => GwInv'
<1> SUFFICES ASSUME GwInv, [GwNext]_gwAll PROVE GwInv'
  OBVIOUS
<1>1. TypeOK' /\ HoldsFinite'
  BY StoreBelow, TypeNext DEF GwInv
<1> SUFFICES ReqOK' /\ PermitsOut' /\ ServesWhole'
  BY <1>1 DEF GwInv
<1>2. CASE UNCHANGED gwVars
  BY <1>2 DEF gwVars, GwInv, ReqOK, PermitsOut, Active, ServesWhole
<1>3. CASE GwAllow
  <2>1. PICK h \in Hash : Withdrawn(h) /\ permits' = permits
    BY <1>3 DEF GwAllow
  <2>2. /\ req' \in [Reader -> Request]
        /\ \A r \in Reader : /\ req'[r].at = req[r].at /\ req'[r].h = req[r].h
                             /\ req'[r].body = req[r].body
    BY <2>1, WithdrawnFields DEF GwInv
  <2>3. Active' = Active
    BY <2>2 DEF Active
  <2> QED BY <2>1, <2>2, <2>3 DEF GwInv, ReqOK, PermitsOut, ServesWhole
<1>4. CASE GwRestart
  <2>1. req' = [r \in Reader |-> NoRequest] /\ permits' = MaxConns
    BY <1>4 DEF GwRestart
  <2>2. Active' = {}
    BY <2>1, NoRequestType DEF Active, InHandler
  <2>3. PermitsOut'
    BY <2>1, <2>2, FS_EmptySet, GatewayAssumption DEF PermitsOut
  <2> QED BY <2>1, <2>3, NoRequestType DEF ReqOK, ServesWhole
<1>5. ASSUME NEW r \in Reader, GwStep(r) PROVE ReqOK' /\ PermitsOut' /\ ServesWhole'
  <2>1. PICK q : Becomes(r, q)
    BY <1>5, StepBecomes
  <2> QED BY <2>1, BecomesKeeps
<1>6. CASE StoreStep \/ GwDeny
  BY <1>2, <1>6 DEF StoreStep, GwDeny
<1> QED BY <1>2, <1>3, <1>4, <1>5, <1>6 DEF GwNext, gwAll

THEOREM GwInvariantHolds == GwSpec => []GwInv
BY GwInitInv, GwNextInv, PTL DEF GwSpec

(* The gateway's handlers (src/gateway.rs) are callers of the store that    *)
(* change nothing beneath their deny and allow: every theorem of            *)
(* StoreProofs holds of the node with them.                                 *)
THEOREM GatewayKeepsStore == GwSpec => Spec
<1>1. GwInit => Init
  BY DEF GwInit
<1> QED BY <1>1, StoreBelow, PTL DEF GwSpec, Spec

(* No answer, fault, disconnect or restart loses a permit of                *)
(* CSD_GATEWAY_MAX_CONNS (src/gateway.rs:205-211).                          *)
THEOREM GatewayPermitsReturn == GwSpec => []PermitsReturn
<1>1. GwInv => PermitsReturn
  BY DEF GwInv, PermitsOut, Active, PermitsReturn
<1> QED BY <1>1, GwInvariantHolds, PTL

-----------------------------------------------------------------------------
(* A read past the denylist, of a hash that has not been allowed and on     *)
(* disk at one moment since the request came, has not found its file: it    *)
(* could only come into being by a put, of a hash that is not denied.       *)

NothingFound(r) ==
  req[r].h \notin raced /\ r \notin offered =>
    /\ req[r].at \in {"lookup", "read"} => blob[req[r].h] # "whole"
    /\ req[r].at \in {"verify", "send"} => req[r].body # "whole"

OfferInv == offered \subseteq Reader /\ \A r \in Reader : NothingFound(r)

LEMMA OfferInit == GwInit => OfferInv
BY NoRequestType DEF GwInit, OfferInv, NothingFound

(* How a step moves a request past the denylist.                            *)
LEMMA GetMoves ==
  ASSUME ReqOK, NEW r \in Reader, GwStep(r), req'[r].at \in {"lookup", "read", "verify", "send"}
  PROVE  /\ req'[r].h = req[r].h /\ req[r].h \in Hash
         /\ \/ Admit(r) /\ req[r].h \notin denied /\ req[r].at = "arrived" /\ req'[r].at = "lookup"
            \/ req[r].at = "lookup" /\ req'[r].at = "read"
            \/ req[r].at = "read" /\ req'[r].at = "verify" /\ req'[r].body = blob[req[r].h]
            \/ req[r].at = "verify" /\ req'[r].at = "send" /\ req'[r].body = req[r].body
<1>0. /\ req \in [Reader -> Request] /\ (req[r].at # "free" => req[r].h \in Hash)
  BY DEF ReqOK
<1>1. ~Answered(r)
  BY <1>0, NoRequestType DEF Answered
<1>2. \A h \in Hash : ~Arrive(r, h)
  <2> SUFFICES ASSUME NEW h \in Hash, Arrive(r, h) PROVE req'[r].at \in {"head", "arrived"}
    OBVIOUS
  <2>1. PICK method \in {"head", "arrived"} :
          req' = [req EXCEPT ![r] = [at |-> method, h |-> h, late |-> h \in acked, body |-> "none"]]
    BY DEF Arrive
  <2> QED BY <1>0, <2>1
<1>3. \A label : GwGoto(r, label) =>
        req'[r].at = label /\ req'[r].h = req[r].h /\ req'[r].body = req[r].body
  <2> SUFFICES ASSUME NEW label, GwGoto(r, label)
               PROVE  req'[r].at = label /\ req'[r].h = req[r].h /\ req'[r].body = req[r].body
    OBVIOUS
  <2>1. req' = [req EXCEPT ![r] = [at |-> label, h |-> req[r].h, late |-> req[r].late, body |-> req[r].body]]
    BY GotoBecomes
  <2> QED BY <1>0, <2>1
<1>4. CASE Head(r)
  BY <1>1, <1>3, <1>4 DEF Head
<1>5. CASE Admit(r)
  BY <1>0, <1>1, <1>3, <1>5 DEF Admit
<1>6. CASE LookUp(r)
  BY <1>0, <1>1, <1>3, <1>6 DEF LookUp, LeaveHandler
<1>7. CASE ReadFile(r)
  <2>1. /\ req[r].at = "read" /\ req[r].h \in Hash
        /\ req' = [req EXCEPT ![r] = [req[r] EXCEPT !.at = "verify", !.body = blob[req[r].h]]]
    BY <1>0, <1>1, <1>7 DEF ReadFile, LeaveHandler
  <2>2. req' = [req EXCEPT ![r] = [at |-> "verify", h |-> req[r].h, late |-> req[r].late,
                                   body |-> blob[req[r].h]]]
    BY <1>0, <2>1, ReadFields
  <2> QED BY <1>0, <2>1, <2>2
<1>8. CASE Verify(r)
  BY <1>0, <1>1, <1>3, <1>8 DEF Verify
<1>9. ~Gone(r) /\ ~Sent(r) /\ ~Disconnect(r)
  BY <1>1 DEF Gone, Sent, Disconnect
<1> QED BY <1>2, <1>4, <1>5, <1>6, <1>7, <1>8, <1>9 DEF GwStep

(* Beneath a waiting read, a file only becomes whole by a put that was not  *)
(* refused, of a hash that is not denied or raced by its takedown.          *)
LEMMA WholeFile ==
  ASSUME StepInv, [Next]_vars, NEW h \in Hash \ raced, blob[h] # "whole", blob'[h] = "whole"
  PROVE  Offered(h)'
<1> USE DEF StepInv
<1>1. ~Restart
  BY DEF Restart
<1>2. \A a \in Admin : blob' = [blob EXCEPT ![call[a].h] = "none"] => blob'[h] # "whole"
  BY DEF TypeOK
<1>3. \A k \in Hash : ~Corrupt(k)
  BY DEF Corrupt, TypeOK
<1>4. Rename
  BY <1>1, <1>2, <1>3, BlobSteps
<1>5. call[Ingest].h = h /\ denied' = denied
  BY <1>4 DEF Rename, TypeOK, listVars
<1>6. h \notin denied
  BY <1>5 DEF RaceInv, PutInFlight
<1> QED BY <1>5, <1>6 DEF Offered

(* The store forgets which hashes were raced only in a restart.             *)
LEMMA RacedStays ==
  ASSUME StoreStep \/ GwDeny \/ GwAllow
  PROVE  raced \subseteq raced'
<1>1. CASE StoreStep
  <2>1. ASSUME NEW h \in Hash, Put(h) \/ Corrupt(h) PROVE raced \subseteq raced'
    BY <2>1 DEF Put, Corrupt, history
  <2>2. CASE IngestStep
    BY <2>2 DEF IngestStep, ReadTotal, CheckBudget, WriteTmp, Rename, PutIoError, Insert, AddTotal, history
  <2>3. ASSUME NEW a \in Admin, AdminStep(a) \/ Cancel(a) PROVE raced \subseteq raced'
    BY <2>3 DEF AdminStep, Cancel, RewriteTmp, RewriteRename, RollBack, RemoveFile, Unindex, SubTotal,
                StrayFinishes, history
  <2> QED BY <1>1, <2>1, <2>2, <2>3 DEF StoreStep
<1>2. ASSUME NEW a \in Admin, NEW h \in Hash, Deny(a, h) \/ Allow(a, h) PROVE raced \subseteq raced'
  BY <1>2 DEF Deny, Allow
<1> QED BY <1>1, <1>2 DEF GwDeny, GwAllow

LEMMA OfferNext == GwInv /\ StepInv /\ OfferInv /\ [GwNext]_gwAll => OfferInv'
<1> SUFFICES ASSUME GwInv, StepInv, OfferInv, [GwNext]_gwAll PROVE OfferInv'
  OBVIOUS
<1>1. CASE UNCHANGED gwAll
  BY <1>1 DEF gwAll, gwVars, vars, diskVars, history, OfferInv, NothingFound
<1>2. CASE ~UNCHANGED gwAll
  <2>1. NoteOffers /\ GwNext
    BY <1>2 DEF GwNext, StoreStep, GwDeny, GwAllow, GwRestart, GwStep
  <2> SUFFICES ASSUME NEW r \in Reader, req'[r].h \notin raced', r \notin offered',
                      req'[r].at \in {"lookup", "read", "verify", "send"}
               PROVE  /\ req'[r].at \in {"lookup", "read"} => blob'[req'[r].h] # "whole"
                      /\ req'[r].at \in {"verify", "send"} => req'[r].body # "whole"
    BY <2>1 DEF NoteOffers, OfferInv, NothingFound
  <2>2. r \notin offered /\ ~Offered(req[r].h)' /\ NothingFound(r)
    BY <2>1 DEF NoteOffers, Getting, InHandler, OfferInv
  <2>3. CASE GwStep(r)
    <3>1. UNCHANGED <<denied, blob, raced>>
      BY <2>3 DEF GwStep, Arrive, Gone, Head, Admit, LookUp, ReadFile, Verify, Sent, Disconnect,
                  vars, listVars, diskVars, history
    <3>2. ~(req'[r].h \notin denied /\ blob[req'[r].h] = "whole")
      BY <2>2, <3>1 DEF Offered
    <3> QED BY <2>2, <2>3, <3>1, <3>2, GetMoves DEF GwInv, NothingFound
  <2>4. ASSUME NEW s \in Reader \ {r}, GwStep(s)
        PROVE  req'[r] = req[r] /\ UNCHANGED <<blob, raced>>
    <3>1. PICK q : Becomes(s, q)
      BY <2>4, StepBecomes
    <3> QED BY <3>1 DEF Becomes, GwInv, ReqOK, vars, diskVars, history
  <2>5. CASE StoreStep \/ GwDeny \/ GwAllow \/ \E s \in Reader \ {r} : GwStep(s)
    <3>1. req'[r].at = req[r].at /\ req'[r].h = req[r].h /\ req'[r].body = req[r].body
      BY <2>4, <2>5, WithdrawnFields DEF StoreStep, GwDeny, GwAllow, gwVars, GwInv
    <3> PICK h \in Hash : h = req[r].h
      BY <3>1 DEF GwInv, ReqOK
    <3>2. h \in Hash \ raced
      <4>1. raced \subseteq raced'
        BY <2>4, <2>5, RacedStays
      <4> QED BY <3>1, <4>1 DEF GwInv, ReqOK
    <3>3. blob[h] # "whole" => blob'[h] # "whole"
      <4>1. ~Offered(h)'
        BY <2>2, <3>1 DEF Offered
      <4> QED BY <3>2, <4>1, StoreBelow, WholeFile
    <3> QED BY <2>2, <3>1, <3>2, <3>3 DEF NothingFound
  <2>6. ~GwRestart
    BY NoRequestType DEF GwRestart
  <2> QED BY <2>1, <2>3, <2>5, <2>6 DEF GwNext
<1> QED BY <1>1, <1>2

LEMMA OfferHolds == GwSpec => []OfferInv
<1>1. GwInit => GwInv /\ StepInv /\ OfferInv
  BY GwInitInv, StepInit, OfferInit DEF GwInit
<1>2. GwInv /\ StepInv /\ OfferInv /\ [GwNext]_gwAll => (GwInv /\ StepInv /\ OfferInv)'
  BY GwNextInv, StepNext, StoreBelow, OfferNext
<1> QED BY <1>1, <1>2, PTL DEF GwSpec

(* What is sent matches its hash, and at one moment of the request it was   *)
(* allowed and on disk: looking at denylist, index and file one after the   *)
(* other serves nothing that a look at all three at once would not serve at *)
(* some moment, whatever takedowns, puts, faults and starts do in between,  *)
(* unless a put and a purge of the hash overlapped (src/gateway.rs:201-222). *)
THEOREM GatewayServesOffered == GwSpec => []ServesOffered
<1>1. GwInv /\ OfferInv => ServesOffered
  BY DEF GwInv, ServesWhole, OfferInv, NothingFound, ServesOffered
<1> QED BY <1>1, GwInvariantHolds, OfferHolds, PTL

(* Requests hold values of their kind and no more permits are free than     *)
(* there are (src/gateway.rs, GwState.conns).                               *)
THEOREM GatewayTypeCorrect == GwSpec => []GwTypeOK
<1>1. GwInv /\ OfferInv => GwTypeOK
  <2> SUFFICES ASSUME GwInv, OfferInv PROVE GwTypeOK
    OBVIOUS
  <2>1. Cardinality(Active) \in Nat /\ permits \in Nat /\ MaxConns \in Nat
    BY FS_CardinalityType, GatewayAssumption DEF GwInv, PermitsOut
  <2>2. permits \in 0..MaxConns
    BY <2>1 DEF GwInv, PermitsOut
  <2> QED BY <2>2 DEF GwInv, ReqOK, OfferInv, GwTypeOK
<1> QED BY <1>1, GwInvariantHolds, OfferHolds, PTL

-----------------------------------------------------------------------------
(* A request that comes after a takedown waits at the denylist, and that    *)
(* takedown stands.                                                         *)
LateWaits ==
  \A r \in Reader : req[r].late => req[r].h \in acked /\ req[r].at \in {"head", "arrived"}

LEMMA LateInit == GwInit => LateWaits
BY NoRequestType DEF GwInit, LateWaits

(* The store withdraws an acknowledged takedown only in an allow.           *)
LEMMA AckedStays ==
  ASSUME AckInv, StoreStep \/ GwDeny
  PROVE  acked \subseteq acked'
<1>1. CASE StoreStep
  <2>1. ASSUME NEW h \in Hash, Put(h) \/ Corrupt(h) PROVE acked \subseteq acked'
    BY <2>1 DEF Put, Corrupt, history
  <2>2. CASE IngestStep
    BY <2>2 DEF IngestStep, ReadTotal, CheckBudget, WriteTmp, Rename, PutIoError, Insert, AddTotal, history
  <2>3. ASSUME NEW a \in Admin, AdminStep(a) \/ Cancel(a) PROVE acked \subseteq acked'
    BY <2>3 DEF AdminStep, Cancel, RewriteTmp, RewriteRename, RollBack, RemoveFile, Unindex, SubTotal,
                StrayFinishes, Acknowledge, history
  <2> QED BY <1>1, <2>1, <2>2, <2>3 DEF StoreStep
<1>2. ASSUME NEW a \in Admin, NEW h \in Hash, Deny(a, h) PROVE acked \subseteq acked'
  BY <1>2 DEF Deny, AckInv
<1> QED BY <1>1, <1>2 DEF GwDeny

LEMMA LateNext == GwInv /\ AckInv /\ LateWaits /\ [GwNext]_gwAll => LateWaits'
<1> SUFFICES ASSUME GwInv, AckInv, LateWaits, [GwNext]_gwAll PROVE LateWaits'
  OBVIOUS
<1>0. req \in [Reader -> Request]
  BY DEF GwInv, ReqOK
<1>1. CASE UNCHANGED gwAll
  BY <1>1 DEF vars, history, gwAll, gwVars, LateWaits
<1>2. CASE StoreStep \/ GwDeny
  <2>1. UNCHANGED req
    BY <1>2 DEF StoreStep, GwDeny, gwVars
  <2> QED BY <1>2, <2>1, AckedStays DEF LateWaits
<1>3. CASE GwAllow
  <2>1. PICK a \in Admin, h \in Hash : Allow(a, h) /\ Withdrawn(h)
    BY <1>3 DEF GwAllow
  <2>2. acked' = acked \ {h}
    BY <2>1 DEF Allow
  <2>3. \A r \in Reader : /\ req'[r].at = req[r].at /\ req'[r].h = req[r].h
                          /\ req'[r].late => req[r].late /\ req[r].h # h
    BY <2>1, WithdrawnFields DEF GwInv
  <2> QED BY <2>2, <2>3 DEF LateWaits
<1>4. CASE GwRestart
  BY <1>4, NoRequestType DEF GwRestart, LateWaits
<1>5. ASSUME NEW r \in Reader, GwStep(r) PROVE LateWaits'
  <2>1. acked' = acked
    BY <1>5 DEF GwStep, Arrive, Gone, Head, Admit, LookUp, ReadFile, Verify, Sent, Disconnect, vars, history
  <2> SUFFICES /\ \A s \in Reader : s # r => req'[s] = req[s]
               /\ req'[r].late => req'[r].h \in acked /\ req'[r].at \in {"head", "arrived"}
    BY <2>1 DEF LateWaits
  <2>2. ASSUME NEW h \in Hash, Arrive(r, h)
        PROVE  /\ \A s \in Reader : s # r => req'[s] = req[s]
               /\ req'[r].late => req'[r].h \in acked /\ req'[r].at \in {"head", "arrived"}
    <3>1. PICK method \in {"head", "arrived"} :
            req' = [req EXCEPT ![r] = [at |-> method, h |-> h, late |-> h \in acked, body |-> "none"]]
      BY <2>2 DEF Arrive
    <3> DEFINE b == h \in acked
    <3>2. b => h \in acked
      OBVIOUS
    <3>3. req' = [req EXCEPT ![r] = [at |-> method, h |-> h, late |-> b, body |-> "none"]]
      BY <3>1
    <3> HIDE DEF b
    <3>4. /\ req'[r].at = method /\ req'[r].h = h /\ req'[r].late = b
          /\ \A s \in Reader : s # r => req'[s] = req[s]
      BY <1>0, <3>3
    <3> QED BY <3>2, <3>4
  <2>3. CASE Answered(r)
    BY <1>0, <2>3, NoRequestType DEF Answered
  <2>4. ASSUME NEW label, GwGoto(r, label), ~req[r].late
        PROVE  /\ \A s \in Reader : s # r => req'[s] = req[s]
               /\ req'[r].late => req'[r].h \in acked /\ req'[r].at \in {"head", "arrived"}
    <3>1. req' = [req EXCEPT ![r] = [at |-> label, h |-> req[r].h, late |-> req[r].late, body |-> req[r].body]]
      BY <2>4, GotoBecomes DEF GwInv
    <3> QED BY <1>0, <2>4, <3>1
  <2>5. ASSUME ReadFile(r), ~Answered(r)
        PROVE  /\ \A s \in Reader : s # r => req'[s] = req[s]
               /\ req'[r].late => req'[r].h \in acked /\ req'[r].at \in {"head", "arrived"}
    <3>1. ~req[r].late
      BY <2>5 DEF ReadFile, LateWaits
    <3>2. req' = [req EXCEPT ![r] = [req[r] EXCEPT !.at = "verify", !.body = blob[req[r].h]]]
      BY <2>5 DEF ReadFile, LeaveHandler
    <3>3. req' = [req EXCEPT ![r] = [at |-> "verify", h |-> req[r].h, late |-> req[r].late,
                                     body |-> blob[req[r].h]]]
      BY <1>0, <3>2, ReadFields
    <3> QED BY <1>0, <3>1, <3>3
  <2>6. Head(r) \/ Admit(r) \/ LookUp(r) \/ Verify(r) =>
          Answered(r) \/ (~req[r].late /\ \E label : GwGoto(r, label))
    BY DEF Head, Admit, LookUp, Verify, LeaveHandler, LateWaits, AckInv
  <2>7. Gone(r) \/ Sent(r) \/ Disconnect(r) => Answered(r)
    BY DEF Gone, Sent, Disconnect
  <2> QED BY <1>5, <2>2, <2>3, <2>4, <2>5, <2>6, <2>7 DEF GwStep
<1> QED BY <1>1, <1>2, <1>3, <1>4, <1>5 DEF GwNext

(* A request that arrives after the takedown was acknowledged is answered   *)
(* 410 before it takes a permit or looks the hash up (src/gateway.rs:179,   *)
(* 201-204), unless a handler was dropped half way or the denylist could    *)
(* not be read at a start.                                                  *)
THEOREM GatewayGoneIsGone == NoListFault /\ GwSpec => []GoneIsGone
<1>1. NoListFault /\ GwInit => ListInv /\ GwInv /\ LateWaits
  BY ListInit, GwInitInv, LateInit DEF GwInit
<1>2. NoListFault /\ ListInv /\ GwInv /\ LateWaits /\ [GwNext]_gwAll
        => (ListInv /\ GwInv /\ LateWaits)'
  BY ListNext, StoreBelow, GwNextInv, LateNext DEF ListInv
<1>3. NoListFault => NoListFault'
  BY DEF NoListFault
<1>4. LateWaits => GoneIsGone
  BY DEF LateWaits, GoneIsGone, InHandler
<1> QED BY <1>1, <1>2, <1>3, <1>4, PTL DEF GwSpec

(* In an idle node whose files are sound HEAD answers what GET answers      *)
(* (CONVENTION.md:31, src/gateway.rs:176-226), unless a handler was dropped *)
(* between the two removals of a purge.                                     *)
THEOREM GatewayHeadMirrorsGet == NoCancel /\ GwSpec => []HeadMirrorsGet
<1>1. TypeOK /\ IndexedOnDisk => HeadMirrorsGet
  <2> SUFFICES ASSUME TypeOK, IndexedOnDisk, \A t \in Task : call[t] = Idle,
                      NEW h \in Hash \ raced, blob[h] # "torn"
               PROVE  HeadStatus(h) = GetStatus(h)
    BY DEF HeadMirrorsGet
  <2>1. ~UnindexDue(h)
    BY DEF UnindexDue, Idle, Task
  <2>2. h \in DOMAIN index => blob[h] # "none"
    BY <2>1 DEF IndexedOnDisk
  <2>3. blob[h] \in {"none", "whole"}
    BY DEF TypeOK, FileState
  <2> QED BY <2>2, <2>3 DEF HeadStatus, GetStatus
<1> QED BY <1>1, GatewayKeepsStore, TypeCorrect, EntriesHaveFiles, PTL
=============================================================================
