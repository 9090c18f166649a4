--------------------------- MODULE IdentityProofs ----------------------------
(***************************************************************************)
(* Proofs about Identity, for any number of processes, keys and faults.    *)
(***************************************************************************)
EXTENDS Identity, TLAPS

(* Why the identity is on file: a file with a key is never replaced, since  *)
(* the one process that writes found no file when it created it, and until  *)
(* it has written the file does not decode.                                 *)
PhaseOK(p) ==
  /\ proc[p].self # NoKey => file = proc[p].self
  /\ proc[p].at = "create" => proc[p].key \in Key
  /\ proc[p].at = "write" => proc[p].key \in Key /\ file = Broken
  /\ proc[p].at = "up" => proc[p].key \in Key /\ file = proc[p].key

OneWriter == \A p, q \in Process : proc[p].at = "write" /\ proc[q].at = "write" => p = q

IInv == TypeOK /\ (\A p \in Process : PhaseOK(p)) /\ OneWriter

LEMMA InitIInv == Init => IInv
BY IdentityAssumption DEF Init, IInv, TypeOK, PhaseOK, OneWriter, Down, Phase

(* The identity on file is not replaced by any step.                        *)
LEMMA StepKeepsFile ==
  ASSUME IInv, [Next]_vars, file \in Key
  PROVE  file' = file
<1>1. CASE UNCHANGED vars
  BY <1>1 DEF vars
<1>2. ASSUME NEW p \in Process, Steps(p)
      PROVE  file' = file
  BY <1>2, IdentityAssumption DEF Steps, Start, Load, Create, Write, IInv, PhaseOK
<1>3. ASSUME NEW p \in Process, Stop(p) \/ Crash(p)
      PROVE  file' = file
  BY <1>3 DEF Stop, Crash
<1> QED BY <1>1, <1>2, <1>3 DEF Next

(* What a step of one process does: its new state, and what it has to do    *)
(* with the file.                                                           *)
MovesTo(p, at, key, self) ==
  /\ MoveTo(p, at, key, self)
  /\ self \in {proc[p].self, NoKey, file}
  /\ at = "create" => key \in Key
  /\ at = "write" => key = proc[p].key /\ proc[p].at = "create" /\ file = NoFile /\ file' = Broken
  /\ at = "up" => key \in Key /\ file' = key

MovesFile(p) ==
  \/ file' = file
  \/ file = NoFile /\ file' = Broken
  \/ proc[p].at = "write" /\ file' = proc[p].key

LEMMA StepPhases ==
  ASSUME IInv, NEW p \in Process, Steps(p) \/ Stop(p) \/ Crash(p)
  PROVE  /\ \E at \in Phase, key \in Key \cup {NoKey}, self \in Key \cup {NoKey} :
              MovesTo(p, at, key, self)
         /\ MovesFile(p)
<1> USE IdentityAssumption DEF Phase, MovesTo, MovesFile, Move
<1> DEFINE K == Key \cup {NoKey}
           Moves == \E at \in Phase, key \in K, self \in K : MovesTo(p, at, key, self)
<1>1. /\ proc[p].at \in Phase /\ proc[p].key \in K /\ proc[p].self \in K
      /\ proc[p].at \in {"create", "write"} => proc[p].key \in Key
  BY DEF IInv, TypeOK, PhaseOK
<1>2. CASE Start(p)
  <2>1. PICK self \in {file, NoKey} \cap K : MoveTo(p, "load", NoKey, self)
    BY <1>2 DEF Start, PeerIdAt
  <2>2. MovesTo(p, "load", NoKey, self)
    BY <2>1
  <2>3. file' = file
    BY <1>2 DEF Start
  <2> QED BY <2>1, <2>2, <2>3
<1>3. CASE Load(p)
  <2>1. file' = file
    BY <1>3 DEF Load
  <2>2. CASE file \in Key /\ Move(p, "up", file)
    <3>1. MovesTo(p, "up", file, proc[p].self)
      BY <2>1, <2>2
    <3> QED BY <1>1, <2>1, <2>2, <3>1
  <2>3. CASE Generate(p)
    <3>1. PICK k \in Key : Move(p, "create", k)
      BY <2>3 DEF Generate, Fresh
    <3>2. MovesTo(p, "create", k, proc[p].self)
      BY <3>1
    <3> QED BY <1>1, <2>1, <3>1, <3>2
  <2> QED BY <1>3, <2>2, <2>3 DEF Load
<1>4. CASE Create(p) \/ Write(p)
  <2>1. PICK at \in {"write", "up", "failed"} :
          /\ Move(p, at, proc[p].key)
          /\ at = "write" => proc[p].at = "create" /\ file = NoFile /\ file' = Broken
          /\ at = "up" => proc[p].at = "write" /\ file' = proc[p].key
          /\ at = "failed" => file' = file
    BY <1>4 DEF Create, Write
  <2>2. MovesTo(p, at, proc[p].key, proc[p].self)
    BY <1>1, <2>1
  <2> QED BY <1>1, <2>1, <2>2
<1>5. CASE Stop(p) \/ Crash(p)
  <2>1. MovesTo(p, "down", NoKey, NoKey) /\ file' = file
    BY <1>5 DEF Stop, Crash, Down, MoveTo
  <2> QED BY <2>1
<1> QED BY <1>2, <1>3, <1>4, <1>5 DEF Steps

LEMMA StepIInv == IInv /\ [Next]_vars => IInv'
<1> SUFFICES ASSUME IInv, [Next]_vars PROVE IInv'
  OBVIOUS
<1> USE IdentityAssumption
<1>1. CASE UNCHANGED vars
  BY <1>1 DEF vars, IInv, TypeOK, PhaseOK, OneWriter
<1>2. ASSUME NEW p \in Process, Steps(p) \/ Stop(p) \/ Crash(p)
      PROVE  IInv'
  <2> USE <1>2 DEF IInv
  <2>1. PICK at \in Phase, key \in Key \cup {NoKey}, self \in Key \cup {NoKey} :
          MovesTo(p, at, key, self)
    BY StepPhases
  <2>2. MovesFile(p)
    BY StepPhases
  <2> DEFINE q == [at |-> at, key |-> key, self |-> self]
  <2>3. faults' \in 0..MaxFaults
    BY DEF TypeOK, Steps, Start, PeerIdAt, Load, Create, Write, Stop, Crash, Fault, NoFault
  <2>4. TypeOK'
    <3>1. q \in [at : Phase, key : Key \cup {NoKey}, self : Key \cup {NoKey}]
      BY <2>1
    <3>2. proc' = [proc EXCEPT ![p] = q]
      BY <2>1 DEF MovesTo, MoveTo
    <3> QED BY <2>2, <2>3, <3>1, <3>2 DEF TypeOK, PhaseOK, MovesFile
  <2>5. file \in Key => file' = file
    BY StepKeepsFile
  <2>6. \A r \in Process : PhaseOK(r)'
    <3>1. PhaseOK(p)'
      BY <2>1, <2>2, <2>5 DEF PhaseOK, TypeOK, MovesTo, MoveTo, MovesFile
    <3>2. ASSUME NEW r \in Process \ {p} PROVE PhaseOK(r)'
      <4>1. proc'[r] = proc[r]
        BY <2>1 DEF TypeOK, MovesTo, MoveTo
      <4>2. proc[r].at = "write" => proc[p].at # "write"
        BY <3>2 DEF OneWriter
      <4> QED BY <2>2, <2>5, <4>1, <4>2 DEF PhaseOK, TypeOK, MovesFile
    <3> QED BY <3>1, <3>2
  <2>7. OneWriter'
    <3>1. \A r \in Process \ {p} : proc'[r] = proc[r]
      BY <2>1 DEF TypeOK, MovesTo, MoveTo
    <3>2. proc'[p] = q
      BY <2>1 DEF TypeOK, MovesTo, MoveTo
    <3>3. at = "write" => \A r \in Process : proc[r].at # "write"
      BY <2>1 DEF PhaseOK, MovesTo
    <3> QED BY <3>1, <3>2, <3>3 DEF OneWriter
  <2> QED BY <2>4, <2>6, <2>7
<1> QED BY <1>1, <1>2 DEF Next

LEMMA IInvAlways == Spec => []IInv
BY InitIInv, StepIInv, PTL DEF Spec

(* Identity.TypeOK for every instance.                                      *)
THEOREM IdentityTypeCorrect == Spec => []TypeOK
<1>1. IInv => TypeOK
  BY DEF IInv
<1> QED BY <1>1, IInvAlways, PTL

(* Identity.IdentityOnFile for every instance: a running p2p task has the   *)
(* identity the next start will load.                                       *)
THEOREM RunsOnFile == Spec => []IdentityOnFile
<1>1. IInv => IdentityOnFile
  BY DEF IInv, PhaseOK, IdentityOnFile
<1> QED BY <1>1, IInvAlways, PTL

(* Identity.SelfExcluded for every instance: what main read at its start,  *)
(* if anything, is the identity its p2p task came to run under, so that the *)
(* records under that identity are the ones that discovery leaves out.      *)
THEOREM OwnRecordNotDialed == Spec => []SelfExcluded
<1>1. IInv => SelfExcluded
  BY DEF IInv, PhaseOK, SelfExcluded, Discover
<1> QED BY <1>1, IInvAlways, PTL

(* Identity.IdentityStable for every instance: no start, crash or other     *)
(* process replaces an identity that is on file.                            *)
THEOREM IdentityStays == Spec => IdentityStable
<1>1. IInv /\ [Next]_vars => [(file \in Key) => file' = file]_vars
  BY StepKeepsFile
<1> QED BY <1>1, IInvAlways, PTL DEF Spec, IdentityStable
=============================================================================
