------------------------------ MODULE Gateway ------------------------------
(***************************************************************************)
(* The read side of the HTTP gateway (src/gateway.rs) on top of Store: GET *)
(* and HEAD requests interleave with puts, takedowns, faults and crashes.  *)
(* A step runs up to the next await: the denied lock, the index lock, the  *)
(* file read, and hyper sending the body after the handler has returned.   *)
(***************************************************************************)
EXTENDS Store, FiniteSets

CONSTANTS
  Reader,   \* slots for concurrent requests
  MaxConns, \* CSD_GATEWAY_MAX_CONNS
  AdminApi  \* CSD_ADMIN_TOKEN is set

ASSUME GatewayAssumption == MaxConns \in Nat \ {0} /\ AdminApi \in BOOLEAN

VARIABLES
  req,      \* the request in each slot
  permits,  \* free permits of GwState.conns
  offered   \* history: GETs since whose arrival the hash was, at one moment, allowed and on disk

gwVars == <<req, permits>>
gwAll  == <<vars, gwVars, offered>>

(* late: history, the takedown of h was acknowledged before the request     *)
(* arrived and has not been withdrawn since; body: the bytes the request    *)
(* holds in memory.                                                         *)
NoRequest == [at |-> "free", h |-> NoHash, late |-> FALSE, body |-> "none"]

InHandler == {"lookup", "read", "verify"}

Request == [at : {"free", "head", "headLookup", "arrived", "send"} \cup InHandler,
            h : Hash \cup {NoHash}, late : BOOLEAN, body : FileState]

GwInit ==
  Init /\ req = [r \in Reader |-> NoRequest] /\ permits = MaxConns /\ offered = {}

GwGoto(r, label) == req' = [req EXCEPT ![r].at = label]
Answered(r)      == req' = [req EXCEPT ![r] = NoRequest]

(* The permit is an RAII guard: every way out of the handler returns it.    *)
LeaveHandler(r)  == Answered(r) /\ permits' = permits + 1

Arrive(r, h) ==
  /\ req[r] = NoRequest
  /\ \E method \in {"head", "arrived"} :
       req' = [req EXCEPT ![r] = [at |-> method, h |-> h, late |-> h \in acked, body |-> "none"]]
  /\ UNCHANGED <<vars, permits>>

Gone(r) ==
  /\ req[r].at \in {"head", "arrived"}
  /\ deniedLock = NoTask
  /\ req[r].h \in denied   \* 410
  /\ Answered(r)
  /\ UNCHANGED <<vars, permits>>

(* head_content: past the denylist, 200 or 404 by the index alone.          *)
Head(r) ==
  /\ \/ /\ req[r].at = "head"
        /\ deniedLock = NoTask
        /\ req[r].h \notin denied
        /\ GwGoto(r, "headLookup")
     \/ /\ req[r].at = "headLookup"
        /\ indexLock = NoTask
        /\ Answered(r)
  /\ UNCHANGED <<vars, permits>>

(* Mutant: the denylist is not consulted.                                   *)
AdmitAny(r) ==
  /\ req[r].at = "arrived"
  /\ permits > 0
  /\ permits' = permits - 1
  /\ GwGoto(r, "lookup")
  /\ UNCHANGED vars

(* get_content up to the permit; without one the answer is 503.             *)
Admit(r) ==
  /\ req[r].at = "arrived"
  /\ deniedLock = NoTask
  /\ req[r].h \notin denied
  /\ IF permits = 0 THEN Answered(r) /\ UNCHANGED permits
                    ELSE GwGoto(r, "lookup") /\ permits' = permits - 1
  /\ UNCHANGED vars

(* Mutant: the permit is lost when the hash is not held.                    *)
LookUpLeak(r) ==
  /\ req[r].at = "lookup"
  /\ indexLock = NoTask
  /\ IF req[r].h \in DOMAIN index THEN GwGoto(r, "read") ELSE Answered(r)
  /\ UNCHANGED <<vars, permits>>

(* Store::get: the index, then the file; 404 when either has nothing.       *)
LookUp(r) ==
  /\ req[r].at = "lookup"
  /\ indexLock = NoTask
  /\ IF req[r].h \in DOMAIN index THEN GwGoto(r, "read") /\ UNCHANGED permits
                                  ELSE LeaveHandler(r)
  /\ UNCHANGED vars

ReadFile(r) ==
  /\ req[r].at = "read"
  /\ IF blob[req[r].h] = "none"
       THEN LeaveHandler(r)
       ELSE /\ req' = [req EXCEPT ![r] = [@ EXCEPT !.at = "verify", !.body = blob[req[r].h]]]
            /\ UNCHANGED permits
  /\ UNCHANGED vars

(* Mutant: the bytes are not hashed again.                                  *)
Unverified(r) ==
  /\ req[r].at = "verify"
  /\ GwGoto(r, "send")
  /\ permits' = permits + 1
  /\ UNCHANGED vars

(* The self-check; the handler returns and its permit with it, before the   *)
(* body has been sent.                                                      *)
Verify(r) ==
  /\ req[r].at = "verify"
  /\ IF req[r].body = "whole" THEN GwGoto(r, "send") ELSE Answered(r)   \* 500
  /\ permits' = permits + 1
  /\ UNCHANGED vars

Sent(r) ==
  /\ req[r].at = "send"
  /\ Answered(r)
  /\ UNCHANGED <<vars, permits>>

(* Mutant: a permit is returned for a request that holds none.              *)
DisconnectAlways(r) ==
  /\ req[r] # NoRequest
  /\ LeaveHandler(r)
  /\ UNCHANGED vars

(* The client goes away and the handler, or the body, is dropped.           *)
Disconnect(r) ==
  /\ req[r] # NoRequest
  /\ Answered(r)
  /\ permits' = IF req[r].at \in InHandler THEN permits + 1 ELSE permits
  /\ UNCHANGED vars

(* What the history takes down after every step.                            *)
Getting    == {"arrived", "send"} \cup InHandler
Offered(h) == h \notin denied /\ blob[h] = "whole"
NoteOffers ==
  offered' = {r \in Reader : req'[r].at \in Getting /\ (r \in offered \/ Offered(req[r].h)')}

GwStep(r) ==
  /\ \/ \E h \in Hash : Arrive(r, h)
     \/ Gone(r) \/ Head(r) \/ Admit(r) \/ LookUp(r) \/ ReadFile(r) \/ Verify(r) \/ Sent(r)
     \/ Disconnect(r)
  /\ NoteOffers

(* An allow withdraws the takedowns the waiting requests came after.        *)
Withdrawn(h) ==
  req' = [r \in Reader |-> IF req[r].h = h THEN [req[r] EXCEPT !.late = FALSE] ELSE req[r]]

(* The admin handlers; a request without the token is refused by admin_ok.  *)
GwDeny  == AdminApi /\ \E a \in Admin, h \in Hash : Deny(a, h) /\ UNCHANGED gwVars /\ NoteOffers
GwAllow ==
  /\ AdminApi
  /\ \E a \in Admin, h \in Hash : Allow(a, h) /\ Withdrawn(h)
  /\ UNCHANGED permits
  /\ NoteOffers

StoreStep ==
  /\ \/ \E h \in Hash : Put(h) \/ Corrupt(h)
     \/ IngestStep
     \/ \E a \in Admin : AdminStep(a) \/ Cancel(a)
  /\ UNCHANGED gwVars
  /\ NoteOffers

GwRestart ==
  /\ Restart
  /\ req' = [r \in Reader |-> NoRequest]
  /\ permits' = MaxConns
  /\ NoteOffers

GwNext == StoreStep \/ GwDeny \/ GwAllow \/ GwRestart \/ \E r \in Reader : GwStep(r)

GwSpec == GwInit /\ [][GwNext]_gwAll

-----------------------------------------------------------------------------
(* Properties.                                                             *)

(* Requests and permits are of their kind.                                  *)
GwTypeOK == req \in [Reader -> Request] /\ permits \in 0..MaxConns /\ offered \subseteq Reader

(* store.rs:176-178, gateway.rs:179, 201-204: a request that arrives after  *)
(* the takedown was acknowledged is answered 410, even when a put that      *)
(* raced with the takedown left the blob behind.                            *)
GoneIsGone ==
  \A r \in Reader : req[r].late => req[r].at \notin InHandler \cup {"send", "headLookup"}

(* gateway.rs:201-222: denylist, index and file are looked at one after the *)
(* other, with takedowns, puts and damage in between; still what is sent    *)
(* matches its hash, and at one moment of the request it was allowed and on *)
(* disk, unless a put and a purge of it overlapped.                         *)
ServesOffered ==
  \A r \in Reader :
    req[r].at = "send" => req[r].body = "whole" /\ (r \in offered \/ req[r].h \in raced)

(* gateway.rs:205-211: no answer, fault or disconnect loses a permit.       *)
PermitsReturn == permits + Cardinality({r \in Reader : req[r].at \in InHandler}) = MaxConns

(* What HEAD and GET of h answer when nothing else runs.                    *)
HeadStatus(h) == IF h \in denied THEN 410 ELSE IF h \in DOMAIN index THEN 200 ELSE 404
GetStatus(h) ==
  CASE h \in denied        -> 410
    [] h \notin denied /\ (h \notin DOMAIN index \/ blob[h] = "none") -> 404
    [] OTHER               -> IF blob[h] = "whole" THEN 200 ELSE 500

(* CONVENTION.md:31: HEAD mirrors GET, in an idle node, of every hash whose *)
(* file the medium has not damaged and no put and purge of which overlapped. *)
HeadMirrorsGet ==
  (\A t \in Task : call[t] = Idle)
    => \A h \in Hash \ raced : blob[h] # "torn" => HeadStatus(h) = GetStatus(h)
=============================================================================
