------------------------------- MODULE Store -------------------------------
(***************************************************************************)
(* The content-addressed blob store (src/store.rs) as its callers          *)
(* interleave in a running node: the ingest task, the only caller of put   *)
(* (main.rs), and a set of admin requests calling deny and allow           *)
(* (gateway.rs).  A step runs up to the next await at which another task   *)
(* can interfere: a lock acquisition or one file-system operation.  The    *)
(* `denied` and `index` locks are variables because they are held across   *)
(* an await; the `total` lock never is, so its uses are atomic.            *)
(***************************************************************************)
EXTENDS Integers, Functions

CONSTANTS
  Hash,      \* content hashes, all valid store keys
  Size,      \* length of the one byte string that has that hash
  MaxBytes,  \* CSD_MAX_STORE_BYTES; 0 = unlimited
  Ingest,    \* the ingest task
  Admin,     \* slots for concurrent admin requests
  NoTask,    \* owner of a free lock
  NoHash,    \* argument of an idle task
  NoFile,    \* content of a file that does not exist
  Faults,    \* what the environment may do besides crashing the process
  MaxDrift   \* bound of the model: no more bytes are overcounted once total exceeds it

(* cancel: the HTTP client disconnects and the handler's future is dropped; *)
(* unlink: remove_file fails; corrupt: a stored file is truncated by the    *)
(* medium; unreadable: the denylist exists but reading it fails.            *)
FaultKinds == {"cancel", "unlink", "corrupt", "unreadable"}

FileState == {"none", "whole", "torn"}

(* The index that open() builds from the files.  A torn file is one that was *)
(* truncated to nothing, so its length is 0.                                *)
OnDisk(files)     == {h \in Hash : files[h] # "none"}
FileLen(files, h) == IF files[h] = "whole" THEN Size[h] ELSE 0
Scan(files)       == [h \in OnDisk(files) |-> FileLen(files, h)]

ASSUME StoreAssumption ==
  /\ Size \in [Hash -> Nat]
  /\ MaxBytes \in Nat
  /\ Ingest \notin Admin
  /\ NoTask \notin Admin \cup {Ingest}
  /\ NoHash \notin Hash
  /\ \A S \in SUBSET Hash : NoFile # S
  /\ Faults \subseteq FaultKinds
  /\ MaxDrift \in Nat

VARIABLES
  denied, deniedLock,     \* the in-memory denylist and its write lock
  denylist, denylistTmp,  \* denylist.txt and denylist.txt.tmp
  index, indexLock,       \* hash -> length of every held blob, and its lock
  total,                  \* the cached sum of index
  blob, tmp,              \* state of each <hash>.bin; the <hash>.tmp present
  call,                   \* the call each task is executing
  acked,   \* history: takedowns the operator was told succeeded, not allowed since
  claim,   \* history: tasks whose deny no allow of the same hash has overtaken
  raced    \* history: hashes put and purged at the same time in this process

listVars  == <<denied, deniedLock, denylist, denylistTmp>>
indexVars == <<index, indexLock, total>>
diskVars  == <<blob, tmp>>
history   == <<acked, claim, raced>>
vars      == <<listVars, indexVars, diskVars, call, history>>

Task == Admin \cup {Ingest}

(* at: the next step; n: the number a put or purge remembers across an     *)
(* await; body: the denylist body a rewrite is about to write.             *)
Idle == [at |-> "idle", h |-> NoHash, n |-> 0, body |-> {}]

Rewriting == {"rewriteTmp", "rewriteRename"}
Purging   == {"removeFile", "unindex", "subTotal"}
Stray     == {"strayTmp", "strayRename", "strayFile"}
Putting   == {"readTotal", "checkBudget", "writeTmp", "rename", "insert", "addTotal"}

Label     == Rewriting \cup Purging \cup Stray \cup Putting

Call == [at : Label, h : Hash, n : Nat, body : SUBSET Hash]

Init ==
  /\ denied = {} /\ deniedLock = NoTask /\ denylist = {} /\ denylistTmp = NoFile
  /\ index = [h \in {} |-> 0] /\ indexLock = NoTask /\ total = 0
  /\ blob = [h \in Hash |-> "none"] /\ tmp = {}
  /\ call = [t \in Task |-> Idle]
  /\ acked = {} /\ claim = {} /\ raced = {}

Goto(t, label)   == call' = [call EXCEPT ![t].at = label]
GotoWith(t, label, k) == call' = [call EXCEPT ![t] = [@ EXCEPT !.at = label, !.n = k]]
Return(t)        == call' = [call EXCEPT ![t] = Idle]

Lookup(h)            == IF h \in DOMAIN index THEN index[h] ELSE 0
SaturatingSub(a, b)  == IF a >= b THEN a - b ELSE 0

PutInFlight(h)  == call[Ingest].h = h
PurgePending(h) == \E a \in Admin : call[a].h = h /\ call[a].at \in Purging \cup {"strayFile"}

-----------------------------------------------------------------------------
(* put: a refused put (denied, or over budget) changes nothing.            *)

(* Mutant: the denylist is not consulted.                                   *)
PutUnchecked(h) ==
  /\ call[Ingest] = Idle
  /\ call' = [call EXCEPT ![Ingest] = [Idle EXCEPT !.at = "writeTmp", !.h = h]]
  /\ UNCHANGED <<listVars, indexVars, diskVars, history>>

Put(h) ==
  /\ call[Ingest] = Idle
  /\ deniedLock = NoTask
  /\ h \notin denied
  /\ call' = [call EXCEPT ![Ingest] =
                [Idle EXCEPT !.at = IF MaxBytes > 0 THEN "readTotal" ELSE "writeTmp", !.h = h]]
  /\ raced' = IF PurgePending(h) THEN raced \cup {h} ELSE raced
  /\ UNCHANGED <<listVars, indexVars, diskVars, acked, claim>>

ReadTotal ==
  /\ call[Ingest].at = "readTotal"
  /\ GotoWith(Ingest, "checkBudget", total)
  /\ UNCHANGED <<listVars, indexVars, diskVars, history>>

(* Mutant: the bytes about to be added are not counted.                     *)
OverBudgetTooLate == Lookup(call[Ingest].h) = 0 /\ call[Ingest].n > MaxBytes

OverBudget == Lookup(call[Ingest].h) = 0 /\ call[Ingest].n + Size[call[Ingest].h] > MaxBytes

CheckBudget ==
  /\ call[Ingest].at = "checkBudget"
  /\ indexLock = NoTask
  /\ IF OverBudget THEN Return(Ingest) ELSE GotoWith(Ingest, "writeTmp", 0)
  /\ UNCHANGED <<listVars, indexVars, diskVars, history>>

(* Mutant: the file is never renamed into place.                            *)
WriteTmpOnly ==
  /\ call[Ingest].at = "writeTmp"
  /\ tmp' = tmp \cup {call[Ingest].h}
  /\ Goto(Ingest, "insert")
  /\ UNCHANGED <<listVars, indexVars, blob, history>>

WriteTmp ==
  /\ call[Ingest].at = "writeTmp"
  /\ tmp' = tmp \cup {call[Ingest].h}
  /\ Goto(Ingest, "rename")
  /\ UNCHANGED <<listVars, indexVars, blob, history>>

Rename ==
  /\ call[Ingest].at = "rename"
  /\ blob' = [blob EXCEPT ![call[Ingest].h] = "whole"]
  /\ tmp' = tmp \ {call[Ingest].h}
  /\ Goto(Ingest, "insert")
  /\ UNCHANGED <<listVars, indexVars, history>>

(* An I/O error in either file operation ends the put; `?` leaves the tmp.  *)
PutIoError ==
  /\ call[Ingest].at \in {"writeTmp", "rename"}
  /\ tmp' \in {tmp, tmp \cup {call[Ingest].h}}
  /\ Return(Ingest)
  /\ UNCHANGED <<listVars, indexVars, blob, history>>

Insert ==
  LET h == call[Ingest].h IN
  /\ call[Ingest].at = "insert"
  /\ indexLock = NoTask
  /\ indexLock' = Ingest
  /\ index' = [k \in DOMAIN index \cup {h} |-> IF k = h THEN Size[h] ELSE index[k]]
  /\ GotoWith(Ingest, "addTotal", Lookup(h))
  /\ UNCHANGED <<listVars, total, diskVars, history>>

(* Mutants: the length of the old or of the new copy is forgotten.          *)
AddTotalTwice ==
  /\ call[Ingest].at = "addTotal"
  /\ total' = total + Size[call[Ingest].h]
  /\ indexLock' = NoTask
  /\ Return(Ingest)
  /\ UNCHANGED <<listVars, index, diskVars, history>>
AddTotalLess ==
  /\ call[Ingest].at = "addTotal"
  /\ total' = total - call[Ingest].n
  /\ indexLock' = NoTask
  /\ Return(Ingest)
  /\ UNCHANGED <<listVars, index, diskVars, history>>

AddTotal ==
  /\ call[Ingest].at = "addTotal"
  /\ total' = SaturatingSub(total, call[Ingest].n) + Size[call[Ingest].h]
  /\ indexLock' = NoTask
  /\ Return(Ingest)
  /\ UNCHANGED <<listVars, index, diskVars, history>>

-----------------------------------------------------------------------------
(* deny and allow: insert or remove under the write lock, which is held    *)
(* until the file is rewritten; a deny then purges the blob.               *)

Deny(a, h) ==
  /\ call[a] = Idle
  /\ deniedLock = NoTask
  /\ claim' = claim \cup {a}
  /\ raced' = IF PutInFlight(h) THEN raced \cup {h} ELSE raced
  /\ \/ /\ h \in denied   \* set.insert is false: the file is not rewritten
        /\ call' = [call EXCEPT ![a] = [Idle EXCEPT !.at = "removeFile", !.h = h]]
        /\ UNCHANGED <<denied, deniedLock, acked>>
     \/ /\ h \notin denied
        /\ denied' = denied \cup {h}
        /\ deniedLock' = a
        /\ acked' = acked \ {h}   \* asked anew
        /\ call' = [call EXCEPT ![a] = [Idle EXCEPT !.at = "rewriteTmp", !.h = h, !.body = denied']]
  /\ UNCHANGED <<denylist, denylistTmp, indexVars, diskVars>>

Allow(a, h) ==
  /\ call[a] = Idle
  /\ deniedLock = NoTask
  /\ h \in denied   \* otherwise allow returns Ok(false)
  /\ denied' = denied \ {h}
  /\ deniedLock' = a
  /\ call' = [call EXCEPT ![a] = [Idle EXCEPT !.at = "rewriteTmp", !.h = h, !.body = denied']]
  /\ acked' = acked \ {h}
  /\ claim' = claim \ {b \in Admin : call[b].h = h}
  /\ UNCHANGED <<denylist, denylistTmp, indexVars, diskVars, raced>>

Denying(a) == call[a].h \in call[a].body

(* Mutant: the file gets the one entry and not the whole set.               *)
RewriteTmpOne(a) ==
  /\ call[a].at = "rewriteTmp"
  /\ denylistTmp' = {call[a].h}
  /\ Goto(a, "rewriteRename")
  /\ UNCHANGED <<denied, deniedLock, denylist, indexVars, diskVars, history>>

RewriteTmp(a) ==
  /\ call[a].at = "rewriteTmp"
  /\ denylistTmp' = call[a].body
  /\ Goto(a, "rewriteRename")
  /\ UNCHANGED <<denied, deniedLock, denylist, indexVars, diskVars, history>>

RewriteRename(a) ==
  /\ call[a].at = "rewriteRename"
  /\ denylistTmp # NoFile
  /\ denylist' = denylistTmp
  /\ denylistTmp' = NoFile
  /\ deniedLock' = NoTask
  /\ IF Denying(a) THEN call' = [call EXCEPT ![a] = [@ EXCEPT !.at = "removeFile", !.body = {}]]
                   ELSE Return(a)
  /\ UNCHANGED <<denied, indexVars, diskVars, history>>

(* Mutant: the set is not rolled back.                                      *)
RollBackNothing(a) ==
  /\ call[a].at \in Rewriting
  /\ deniedLock' = NoTask
  /\ claim' = claim \ {a}
  /\ Return(a)
  /\ UNCHANGED <<denied, denylist, denylistTmp, indexVars, diskVars, acked, raced>>

(* Either file operation of write_denylist may fail; the set is rolled back *)
(* and the operator gets an error.  The tmp may or may not have been made.  *)
RollBack(a) ==
  /\ call[a].at \in Rewriting
  /\ denied' = IF Denying(a) THEN denied \ {call[a].h} ELSE denied \cup {call[a].h}
  /\ denylistTmp' \in {denylistTmp} \cup IF call[a].at = "rewriteTmp" THEN {call[a].body} ELSE {}
  /\ deniedLock' = NoTask
  /\ claim' = claim \ {a}
  /\ Return(a)
  /\ UNCHANGED <<denylist, indexVars, diskVars, acked, raced>>

RemoveFile(a) ==
  /\ call[a].at = "removeFile"
  /\ \/ blob' = [blob EXCEPT ![call[a].h] = "none"]
     \/ "unlink" \in Faults /\ UNCHANGED blob   \* `let _ =` ignores the error
  /\ Goto(a, "unindex")
  /\ UNCHANGED <<listVars, indexVars, tmp, history>>

(* The deny is answered 200; an allow that overtook it has the last word.   *)
Acknowledge(a) ==
  /\ acked' = IF a \in claim THEN acked \cup {call[a].h} ELSE acked
  /\ claim' = claim \ {a}
  /\ Return(a)

Unindex(a) ==
  LET h == call[a].h IN
  /\ call[a].at = "unindex"
  /\ indexLock = NoTask
  /\ \/ /\ h \in DOMAIN index
        /\ index' = Restrict(index, DOMAIN index \ {h})
        /\ indexLock' = a
        /\ GotoWith(a, "subTotal", index[h])
        /\ UNCHANGED <<acked, claim>>
     \/ /\ h \notin DOMAIN index
        /\ Acknowledge(a)
        /\ UNCHANGED <<index, indexLock>>
  /\ UNCHANGED <<listVars, total, diskVars, raced>>

(* Mutant: the guard of the index is never dropped.                         *)
SubTotalLocked(a) ==
  /\ call[a].at = "subTotal"
  /\ total' = SaturatingSub(total, call[a].n)
  /\ Acknowledge(a)
  /\ UNCHANGED <<listVars, index, indexLock, diskVars, raced>>

SubTotal(a) ==
  /\ call[a].at = "subTotal"
  /\ total' = SaturatingSub(total, call[a].n)
  /\ indexLock' = NoTask
  /\ Acknowledge(a)
  /\ UNCHANGED <<listVars, index, diskVars, raced>>

-----------------------------------------------------------------------------
(* Faults of the environment, and the crash of the process.                *)

(* axum drops the handler's future at the await it is suspended at: guards  *)
(* are released, nothing is rolled back, and a file operation already       *)
(* handed to the blocking pool still runs (StrayFinishes).                  *)
AfterCancel(label) ==
  CASE label = "rewriteTmp"    -> {"strayTmp"}
    [] label = "rewriteRename" -> {"idle", "strayRename"}
    [] label = "removeFile"    -> {"idle", "strayFile"}
    [] OTHER                   -> {"idle"}

Cancel(a) ==
  /\ "cancel" \in Faults
  /\ call[a].at \in Rewriting \cup Purging
  /\ call[a].at = "subTotal" => total <= MaxDrift
  /\ \E label \in AfterCancel(call[a].at) : IF label = "idle" THEN Return(a) ELSE Goto(a, label)
  /\ deniedLock' = IF deniedLock = a THEN NoTask ELSE deniedLock
  /\ indexLock' = IF indexLock = a THEN NoTask ELSE indexLock
  /\ claim' = claim \ {a}
  /\ UNCHANGED <<denied, denylist, denylistTmp, index, total, diskVars, acked, raced>>

StrayFinishes(a) ==
  /\ \/ /\ call[a].at = "strayTmp"
        /\ denylistTmp' = call[a].body
        /\ UNCHANGED <<denylist, blob>>
     \/ /\ call[a].at = "strayRename"
        /\ IF denylistTmp = NoFile
             THEN UNCHANGED <<denylist, denylistTmp>>
             ELSE denylist' = denylistTmp /\ denylistTmp' = NoFile
        /\ UNCHANGED blob
     \/ /\ call[a].at = "strayFile"
        /\ blob' = [blob EXCEPT ![call[a].h] = "none"]
        /\ UNCHANGED <<denylist, denylistTmp>>
  /\ Return(a)
  /\ UNCHANGED <<denied, deniedLock, indexVars, tmp, history>>

(* A stored file loses its content.                                         *)
Corrupt(h) ==
  /\ "corrupt" \in Faults
  /\ blob[h] = "whole"
  /\ blob' = [blob EXCEPT ![h] = "torn"]
  /\ UNCHANGED <<listVars, indexVars, tmp, call, history>>

(* load_denylist: any read error yields the empty set.                      *)
Loaded == {denylist} \cup IF "unreadable" \in Faults THEN {{}} ELSE {}

(* The process dies at any point and is started again: Store::open, which   *)
(* purges what is listed, and leaves out of the index what it cannot purge. *)
Unpurged(loaded) == IF "unlink" \in Faults THEN SUBSET loaded ELSE {{}}

Restart ==
  /\ \E loaded \in Loaded : \E left \in Unpurged(loaded) :
       /\ denied' = loaded
       /\ blob' = [h \in Hash |-> IF h \in loaded \ left THEN "none" ELSE blob[h]]
       /\ index' = Restrict(Scan(blob'), OnDisk(blob') \ loaded)
  /\ total' = SumFunction(index')
  /\ deniedLock' = NoTask /\ indexLock' = NoTask
  /\ call' = [t \in Task |-> Idle]
  /\ claim' = {} /\ raced' = {}
  /\ UNCHANGED <<denylist, denylistTmp, tmp, acked>>

-----------------------------------------------------------------------------
IngestStep ==
  ReadTotal \/ CheckBudget \/ WriteTmp \/ Rename \/ PutIoError \/ Insert \/ AddTotal

AdminStep(a) ==
  \/ RewriteTmp(a) \/ RewriteRename(a) \/ RollBack(a)
  \/ RemoveFile(a) \/ Unindex(a) \/ SubTotal(a)
  \/ StrayFinishes(a)

Next ==
  \/ \E h \in Hash : Put(h) \/ Corrupt(h)
  \/ IngestStep
  \/ \E a \in Admin :
       \/ \E h \in Hash : Deny(a, h) \/ Allow(a, h)
       \/ AdminStep(a)
       \/ Cancel(a)
  \/ Restart

Spec == Init /\ [][Next]_vars

(* tokio runs every task that can run, and its RwLock queues its waiters in *)
(* order, so a task that waits for a lock gets it: strong fairness.         *)
FairSpec ==
  /\ Spec
  /\ SF_vars(IngestStep)
  /\ \A a \in Admin : SF_vars(AdminStep(a))

-----------------------------------------------------------------------------
(* Properties.                                                             *)

(* Every variable holds a value of its kind, and locks belong to tasks.     *)
TypeOK ==
  /\ denied \subseteq Hash /\ denylist \subseteq Hash
  /\ denylistTmp \in (SUBSET Hash) \cup {NoFile}
  /\ deniedLock \in Admin \cup {NoTask} /\ indexLock \in Task \cup {NoTask}
  /\ DOMAIN index \subseteq Hash /\ index \in [DOMAIN index -> Nat]
  /\ total \in Nat
  /\ blob \in [Hash -> FileState] /\ tmp \subseteq Hash
  /\ call \in [Task -> Call \cup {Idle}]
  /\ acked \subseteq Hash /\ claim \subseteq Admin /\ raced \subseteq Hash

(* store.rs:22, 153-155, 166-169: whenever nobody holds the index lock the  *)
(* cached total is the sum of the index, across puts, purges and restarts.  *)
TotalIsSum == indexLock = NoTask => total = SumFunction(index)

(* As TotalIsSum when a purge may be dropped between its two updates: the   *)
(* budget then sees more than is held, never less.                          *)
TotalCovers == indexLock = NoTask => total >= SumFunction(index)

(* store.rs:134-155: the budget is read, checked and charged in separate    *)
(* steps; a put may still not push the store past it, unless a purge of the *)
(* same hash took away the copy that exempted the put from the check.       *)
GrowsWithinBudget ==
  [][total' > total /\ ~Restart /\ MaxBytes > 0
       => total' <= MaxBytes \/ call[Ingest].h \in raced]_vars

(* store.rs:39-42, 185-187: whenever the denylist lock is free, memory and  *)
(* file agree, after every interleaving, I/O error and crash.               *)
DenylistDurable == deniedLock = NoTask => denied = denylist

(* store.rs:176-178: a takedown the operator was told of, and has not       *)
(* withdrawn, is on file, so that a restart cannot forget it.               *)
AckedDurable == acked \subseteq denylist

(* store.rs:39-42, 199-201: the denylist file is the registry of takedowns  *)
(* that module Takedowns specifies: no rewrite loses or revives the         *)
(* takedown of a hash other than the one its request names.                 *)
Takedowns == INSTANCE Takedowns WITH listed <- denylist, told <- acked
KeepsTakedowns == Takedowns!Spec

Held(h) == blob[h] # "none" \/ h \in DOMAIN index

DenyPending(h) ==
  \E a \in Admin : call[a].h = h /\ call[a].at \in Rewriting \cup {"removeFile", "unindex"}

(* store.rs:8-9: a denied hash whose deny is not under way has no file and  *)
(* no index entry, unless a put of it overlapped the deny.                  *)
DeniedNotHeld ==
  \A h \in denied \ raced : ~DenyPending(h) => ~Held(h)

(* gateway.rs:99-118: what the operator was told is gone is gone, even when *)
(* other admin requests were cut off half way, with the same exception.     *)
TakedownHolds == \A h \in (acked \cap denied) \ raced : ~Held(h)

(* store.rs:113-122: and if its file could not be removed, get still does   *)
(* not find it, with a process that runs on.                                *)
TakedownUnserved == \A h \in (acked \cap denied) \ raced : h \notin DOMAIN index

(* store.rs:19-26: the index tells what is on disk, outside the windows in  *)
(* which a put has renamed its file and a purge has removed it.             *)
InsertDue(h)  == call[Ingest].h = h /\ call[Ingest].at = "insert"
UnindexDue(h) == \E a \in Admin : call[a].h = h /\ call[a].at = "unindex"
IndexMirrorsDisk ==
  \A h \in Hash \ raced :
    ~InsertDue(h) /\ ~UnindexDue(h) => (h \in DOMAIN index <=> blob[h] # "none")

(* store.rs:176-178, without any exception: the claim of the doc comment.   *)
TakedownStaysDown == \A h \in acked : ~Held(h)

(* Every put, deny and allow ends: no lock is kept, no two tasks wait for   *)
(* each other.                                                              *)
CallsReturn == \A t \in Task : call[t] # Idle ~> call[t] = Idle
=============================================================================
