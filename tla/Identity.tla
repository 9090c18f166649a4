------------------------------ MODULE Identity -------------------------------
(***************************************************************************)
(* The p2p identity file across starts, crashes, I/O errors and processes  *)
(* that share a store directory (src/p2p.rs: load_or_create_identity,      *)
(* peer_id_at; main reads the peer id before it spawns the p2p task that   *)
(* creates the file), and which records of the registry main dials with    *)
(* that peer id (src/peers.rs: discover).                                  *)
(***************************************************************************)
EXTENDS Integers

CONSTANTS
  Process, \* processes started on the same store directory
  Key,     \* the keypairs that can be generated
  NoKey,   \* no keypair; as a peer id, the empty string
  NoFile,  \* the file is not there
  Broken,  \* the file is there and does not decode (empty, or half written)
  MaxFaults \* bound of the model: crashes and I/O errors of starts

ASSUME IdentityAssumption ==
  /\ {NoKey, NoFile, Broken} \cap Key = {}
  /\ NoFile # Broken
  /\ MaxFaults \in Nat

VARIABLES
  file,   \* content of the identity file: a key, NoFile or Broken
  proc,   \* each process: where it is, its key, and its self_peer_id
  faults  \* how often a start has crashed or met an I/O error

vars == <<file, proc, faults>>

(* key: the keypair of the p2p task; self: the self_peer_id of main.        *)
Down == [at |-> "down", key |-> NoKey, self |-> NoKey]

Phase == {"down", "load", "create", "write", "up", "failed"}

Init == file = NoFile /\ proc = [p \in Process |-> Down] /\ faults = 0

Fault   == faults < MaxFaults /\ faults' = faults + 1
NoFault == faults' = faults

(* A generated keypair is nobody else's.                                    *)
Fresh == Key \ ({file} \cup {proc[p].key : p \in Process})

MoveTo(p, at, key, self) == proc' = [proc EXCEPT ![p] = [at |-> at, key |-> key, self |-> self]]
Move(p, at, key)         == MoveTo(p, at, key, proc[p].self)

(* peer_id_at, or the empty string; also when the file cannot be read.      *)
PeerIdAt(self) ==
  \/ file \in Key /\ self = file /\ NoFault
  \/ self = NoKey /\ IF file \in Key THEN Fault ELSE NoFault

(* main, before it spawns the p2p task.                                     *)
Start(p) ==
  /\ proc[p] = Down
  /\ \E self \in Key \cup {NoKey} : PeerIdAt(self) /\ MoveTo(p, "load", NoKey, self)
  /\ UNCHANGED file

(* A new keypair is generated.                                              *)
Generate(p) == \E k \in Fresh : Move(p, "create", k)

(* Mutant: any file is taken for an identity.                               *)
LoadAny(p) ==
  /\ proc[p].at = "load"
  /\ IF file # NoFile THEN Move(p, "up", file) ELSE Generate(p)
  /\ UNCHANGED <<file, faults>>

(* A file that is read and decodes is the identity.                         *)
Load(p) ==
  /\ proc[p].at = "load"
  /\ \/ file \in Key /\ NoFault /\ Move(p, "up", file)
     \/ (IF file \in Key THEN Fault ELSE NoFault) /\ Generate(p)
  /\ UNCHANGED file

(* Mutant: the file is truncated when it is there already.                  *)
CreateOver(p) ==
  /\ proc[p].at = "create"
  /\ file' = Broken
  /\ Move(p, "write", proc[p].key)
  /\ UNCHANGED faults

(* create_dir_all and open may fail; create_new makes an existing file an   *)
(* error.  With an error the p2p task ends; the process goes on without it. *)
Create(p) ==
  /\ proc[p].at = "create"
  /\ \/ /\ file = NoFile /\ NoFault
        /\ file' = Broken   \* empty
        /\ Move(p, "write", proc[p].key)
     \/ /\ IF file = NoFile THEN Fault ELSE NoFault
        /\ Move(p, "failed", proc[p].key)
        /\ UNCHANGED file

(* Mutant: the identity is used although it was not saved.                  *)
WriteNothing(p) ==
  /\ proc[p].at = "write"
  /\ Move(p, "up", proc[p].key)
  /\ UNCHANGED <<file, faults>>

(* Mutant: an error of the write is ignored.                                *)
WriteUnchecked(p) ==
  /\ proc[p].at = "write"
  /\ \/ file' = proc[p].key /\ NoFault
     \/ file' = file /\ Fault
  /\ Move(p, "up", proc[p].key)

(* write_all may fail half way, and what it leaves behind does not decode.  *)
Write(p) ==
  /\ proc[p].at = "write"
  /\ \/ file' = proc[p].key /\ Move(p, "up", proc[p].key) /\ NoFault
     \/ file' = file /\ Move(p, "failed", proc[p].key) /\ Fault

(* A process is stopped, or dies during its start.                          *)
Stop(p) ==
  /\ proc[p].at \in {"up", "failed"}
  /\ proc' = [proc EXCEPT ![p] = Down]
  /\ UNCHANGED <<file, faults>>

Crash(p) ==
  /\ proc[p].at \in {"load", "create", "write"}
  /\ Fault
  /\ proc' = [proc EXCEPT ![p] = Down]
  /\ UNCHANGED file

Steps(p) == Start(p) \/ Load(p) \/ Create(p) \/ Write(p)

Next == \E p \in Process : Steps(p) \/ Stop(p) \/ Crash(p)

Spec == Init /\ [][Next]_vars

(* A process that is down is started again and runs its start.              *)
FairSpec == Spec /\ \A p \in Process : WF_vars(Steps(p))

-----------------------------------------------------------------------------
(* What is dialed.                                                         *)

(* A record: the peer id it is registered under, and the one that its       *)
(* multiaddr carries, if it does.  Anybody can register any.                *)
Record == [id : Key \cup {NoKey}, carried : Key \cup {NoKey}]

Target(r) == IF r.carried = NoKey THEN r.id ELSE r.carried

(* Mutant: nobody is left out.                                              *)
DiscoverAll(p, records) == {Target(r) : r \in {q \in records : q.id # NoKey}}

(* The peer ids that a process dials when these are the records.            *)
Discover(p, records) == {Target(r) : r \in {q \in records : q.id \notin {proc[p].self, NoKey}}}

-----------------------------------------------------------------------------
(* Properties.                                                             *)

(* Every variable holds a value of its kind.                                *)
TypeOK ==
  /\ file \in Key \cup {NoFile, Broken}
  /\ proc \in [Process -> [at : Phase, key : Key \cup {NoKey}, self : Key \cup {NoKey}]]
  /\ faults \in 0..MaxFaults

(* p2p.rs:52-55, 76-78: the identity a process runs under is the one on     *)
(* file, also when several start at once, so that the next start draws the  *)
(* same.                                                                    *)
IdentityOnFile == \A p \in Process : proc[p].at = "up" => file = proc[p].key

(* README.md:63-64: and once there is an identity, it stays.                *)
IdentityStable == [][(file \in Key) => file' = file]_vars

(* p2p.rs:52-53: there is an identity in the end, loaded, or generated and  *)
(* saved, whoever else starts at the same time and whatever fails, unless   *)
(* the start that created the file did not come to the end of its write and *)
(* did not come up: create_new refuses what it left for ever; or every      *)
(* start has failed.                                                        *)
Spoiled == file = Broken /\ \A p \in Process : proc[p].at \notin {"write", "up"}
IdentityFound == <>(file \in Key \/ Spoiled \/ \A p \in Process : proc[p].at = "failed")

(* main.rs:117-121, peers.rs:16-17, 33: no process that has read a peer id  *)
(* dials the one it runs under on account of a record under that id, though *)
(* it read it before its p2p task loaded or created the identity.           *)
SelfExcluded ==
  \A p \in Process : proc[p].at = "up" /\ proc[p].self # NoKey =>
    \A r \in Record : r.id = proc[p].key => Discover(p, {r}) = {}
=============================================================================
