---------------------------- MODULE StoreProofs ----------------------------
(***************************************************************************)
(* Proofs about Store, for any hashes, sizes, budget and number of admin    *)
(* requests.                                                                *)
(***************************************************************************)
EXTENDS Store, FiniteSetTheorems, WellFoundedInduction, TLAPS

-----------------------------------------------------------------------------
(* The sum of lengths.  The library adds up a function with a fold that is  *)
(* defined as the CHOICE of a recursive function on the subsets of its      *)
(* domain.  On a finite set there is one, so that the sum can be taken      *)
(* apart at any element.                                                    *)

(* Induction over the subsets of a finite set: by well-foundedness of the   *)
(* strict subset relation, for a set T of subsets.                          *)
LEMMA FiniteInduction ==
  ASSUME NEW S, IsFiniteSet(S), NEW T \in SUBSET SUBSET S,
         \A s \in SUBSET S : (\A x \in s : s \ {x} \in T) => s \in T
  PROVE  S \in T
  <1> DEFINE Rest == (SUBSET S) \ T
             R    == StrictSubsetOrdering(S)
  <1>1. IsWellFoundedOn(R, SUBSET S)
    BY FS_StrictSubsetOrderingWellFounded, FS_FiniteSubsetsOfFinite
  <1>2. CASE Rest # {}
    <2> HIDE DEF R
    <2>1. Rest \subseteq SUBSET S
      OBVIOUS
    <2> HIDE DEF Rest
    <2>2. PICK s \in Rest : \A r \in Rest : ~(<<r, s>> \in R)
      BY <1>1, <1>2, <2>1, WFMin
    <2> USE DEF Rest
    <2>3. ASSUME NEW x \in s PROVE s \ {x} \in T
      <3>1. s \in SUBSET S /\ s \ {x} \in SUBSET S /\ s \ {x} # s
        BY <2>3
      <3>2. <<s \ {x}, s>> \in R
        BY <3>1 DEF R, StrictSubsetOrdering
      <3> QED BY <2>2, <3>1, <3>2
    <2> QED BY <2>3
  <1> QED BY <1>2

Chosen(s) == CHOOSE x \in s : TRUE
FoldStep(f, g, s) == IF s = {} THEN 0 ELSE f[Chosen(s)] + g[s \ {Chosen(s)}]
IsFold(f, S, g)   == g = [s \in SUBSET S |-> FoldStep(f, g, s)]
TheFold(f, S)     == CHOOSE g : IsFold(f, S, g)

LEMMA SumIsFold ==
  ASSUME NEW f, NEW S
  PROVE  SumFunctionOnSet(f, S) = TheFold(f, S)[S]
  BY DEF SumFunctionOnSet, FoldFunctionOnSet, MapThenFoldSet, TheFold, IsFold, FoldStep, Chosen

LEMMA ChosenIn == ASSUME NEW s, s # {} PROVE Chosen(s) \in s
  BY DEF Chosen

(* Two folds agree wherever both are defined.                               *)
LEMMA FoldsAgree ==
  ASSUME NEW f, NEW S, NEW R, NEW g, NEW k, IsFiniteSet(R), R \subseteq S,
         IsFold(f, S, g), IsFold(f, R, k)
  PROVE  g[R] = k[R]
  <1> DEFINE T == {s \in SUBSET R : g[s] = k[s]}
  <1>1. ASSUME NEW s \in SUBSET R, \A x \in s : s \ {x} \in T PROVE s \in T
    <2>1. g[s] = FoldStep(f, g, s) /\ k[s] = FoldStep(f, k, s)
      BY DEF IsFold
    <2>2. CASE s = {}
      BY <2>1, <2>2 DEF FoldStep
    <2>3. CASE s # {}
      <3>1. s \ {Chosen(s)} \in T
        BY <1>1, <2>3, ChosenIn
      <3> QED BY <2>1, <2>3, <3>1 DEF FoldStep
    <2> QED BY <2>2, <2>3
  <1> HIDE DEF T
  <1>2. R \in T
    BY <1>1, FiniteInduction DEF T
  <1> QED BY <1>2 DEF T

LEMMA FoldIsFold ==
  ASSUME NEW f, NEW S, \E g : IsFold(f, S, g)
  PROVE  IsFold(f, S, TheFold(f, S))
  BY DEF TheFold

(* The recursion of the fold has a solution on every finite set: on a set   *)
(* whose strict subsets all have one, those are put together.               *)
LEMMA FoldExists ==
  ASSUME NEW f, NEW S, IsFiniteSet(S)
  PROVE  IsFold(f, S, TheFold(f, S))
  <1> DEFINE T == {s \in SUBSET S : \A r \in SUBSET s : IsFold(f, r, TheFold(f, r))}
  <1>1. ASSUME NEW s \in SUBSET S, \A x \in s : s \ {x} \in T PROVE s \in T
    <2> DEFINE G == [r \in SUBSET s |-> IF r = s THEN FoldStep(f, [q \in SUBSET s |-> TheFold(f, q)[q]], s)
                                                 ELSE TheFold(f, r)[r]]
    <2>1. ASSUME NEW r \in SUBSET s, r # s PROVE IsFold(f, r, TheFold(f, r))
      <3>1. PICK x \in s : r \in SUBSET (s \ {x})
        BY <2>1
      <3> QED BY <1>1, <3>1
    <2>2. ASSUME NEW r \in SUBSET s PROVE G[r] = FoldStep(f, G, r)
      <3>1. CASE r = {} /\ r # s
        <4>1. TheFold(f, r)[r] = FoldStep(f, TheFold(f, r), r)
          BY <2>1, <3>1 DEF IsFold
        <4> QED BY <3>1, <4>1 DEF FoldStep
      <3>2. CASE r # {} /\ r # s
        <4> DEFINE q == r \ {Chosen(r)}
        <4>1. q \in SUBSET r /\ q \in SUBSET s /\ q # s
          BY <3>2, ChosenIn
        <4>2. IsFold(f, r, TheFold(f, r)) /\ IsFold(f, q, TheFold(f, q))
          BY <2>1, <3>2, <4>1
        <4>3. TheFold(f, r)[q] = TheFold(f, q)[q]
          BY <4>1, <4>2, FoldsAgree, FS_Subset
        <4>4. TheFold(f, r)[r] = f[Chosen(r)] + TheFold(f, r)[q]
          BY <3>2, <4>2 DEF IsFold, FoldStep
        <4>5. G[r] = TheFold(f, r)[r] /\ G[q] = TheFold(f, q)[q]
          BY <3>2, <4>1
        <4> QED BY <3>2, <4>3, <4>4, <4>5 DEF FoldStep
      <3>3. CASE r = s /\ s = {}
        BY <3>3 DEF FoldStep
      <3>4. CASE r = s /\ s # {}
        <4>1. s \ {Chosen(s)} \in SUBSET s /\ s \ {Chosen(s)} # s
          BY <3>4, ChosenIn
        <4> QED BY <3>4, <4>1 DEF FoldStep
      <3> QED BY <3>1, <3>2, <3>3, <3>4
    <2>3. IsFold(f, s, G)
      <3> HIDE DEF FoldStep
      <3>1. G = [r \in SUBSET s |-> G[r]]
        OBVIOUS
      <3> HIDE DEF G
      <3>2. G = [r \in SUBSET s |-> FoldStep(f, G, r)]
        BY <2>2, <3>1
      <3> QED BY <3>2 DEF IsFold
    <2>4. IsFold(f, s, TheFold(f, s))
      BY <2>3, FoldIsFold
    <2> QED BY <2>1, <2>4
  <1>2. T \in SUBSET SUBSET S
    OBVIOUS
  <1> HIDE DEF T
  <1>3. S \in T
    BY <1>1, <1>2, FiniteInduction
  <1> QED BY <1>3 DEF T

LEMMA SumEmpty == ASSUME NEW f PROVE SumFunctionOnSet(f, {}) = 0
  <1>1. IsFold(f, {}, TheFold(f, {}))
    BY FoldExists, FS_EmptySet
  <1>2. TheFold(f, {})[{}] = 0
    BY <1>1 DEF IsFold, FoldStep
  <1> QED BY <1>2, SumIsFold

LEMMA SumChosen ==
  ASSUME NEW f, NEW S, IsFiniteSet(S), S # {}
  PROVE  SumFunctionOnSet(f, S) = f[Chosen(S)] + SumFunctionOnSet(f, S \ {Chosen(S)})
  <1> DEFINE R == S \ {Chosen(S)}
  <1>1. IsFiniteSet(R) /\ R \in SUBSET S
    BY FS_RemoveElement
  <1>2. IsFold(f, S, TheFold(f, S)) /\ IsFold(f, R, TheFold(f, R))
    BY <1>1, FoldExists
  <1>3. TheFold(f, S)[R] = TheFold(f, R)[R]
    BY <1>1, <1>2, FoldsAgree
  <1>4. TheFold(f, S)[S] = f[Chosen(S)] + TheFold(f, S)[R]
    BY <1>2 DEF IsFold, FoldStep
  <1> QED BY <1>3, <1>4, SumIsFold

LEMMA SumNat ==
  ASSUME NEW S, IsFiniteSet(S), NEW f, \A x \in S : f[x] \in Nat
  PROVE  SumFunctionOnSet(f, S) \in Nat
  <1> DEFINE T == {s \in SUBSET S : SumFunctionOnSet(f, s) \in Nat}
  <1>1. ASSUME NEW s \in SUBSET S, \A x \in s : s \ {x} \in T PROVE s \in T
    <2>1. CASE s = {}
      BY <2>1, SumEmpty
    <2>2. CASE s # {}
      <3>1. SumFunctionOnSet(f, s) = f[Chosen(s)] + SumFunctionOnSet(f, s \ {Chosen(s)})
        BY <2>2, SumChosen, FS_Subset
      <3>2. Chosen(s) \in s
        BY <2>2, ChosenIn
      <3> QED BY <1>1, <3>1, <3>2
    <2> QED BY <2>1, <2>2
  <1> HIDE DEF T
  <1>2. S \in T
    BY <1>1, FiniteInduction DEF T
  <1> QED BY <1>2 DEF T

LEMMA SumSame ==
  ASSUME NEW S, IsFiniteSet(S), NEW f, NEW g, \A x \in S : f[x] = g[x]
  PROVE  SumFunctionOnSet(f, S) = SumFunctionOnSet(g, S)
  <1> DEFINE T == {s \in SUBSET S : SumFunctionOnSet(f, s) = SumFunctionOnSet(g, s)}
  <1>1. ASSUME NEW s \in SUBSET S, \A x \in s : s \ {x} \in T PROVE s \in T
    <2>1. CASE s = {}
      BY <2>1, SumEmpty
    <2>2. CASE s # {}
      <3>1. /\ SumFunctionOnSet(f, s) = f[Chosen(s)] + SumFunctionOnSet(f, s \ {Chosen(s)})
            /\ SumFunctionOnSet(g, s) = g[Chosen(s)] + SumFunctionOnSet(g, s \ {Chosen(s)})
        BY <2>2, SumChosen, FS_Subset
      <3>2. Chosen(s) \in s
        BY <2>2, ChosenIn
      <3> QED BY <1>1, <3>1, <3>2
    <2> QED BY <2>1, <2>2
  <1> HIDE DEF T
  <1>2. S \in T
    BY <1>1, FiniteInduction DEF T
  <1> QED BY <1>2 DEF T

(* Any element can be taken out, not only the one that the fold chooses.    *)
LEMMA SumRemove ==
  ASSUME NEW S, IsFiniteSet(S), NEW f, \A x \in S : f[x] \in Nat, NEW x \in S
  PROVE  SumFunctionOnSet(f, S) = f[x] + SumFunctionOnSet(f, S \ {x})
  <1> DEFINE Sum(s) == SumFunctionOnSet(f, s)
             T == {s \in SUBSET S : \A y \in s : Sum(s) = f[y] + Sum(s \ {y})}
  <1>1. ASSUME NEW s \in SUBSET S, \A y \in s : s \ {y} \in T PROVE s \in T
    <2> SUFFICES ASSUME NEW y \in s PROVE Sum(s) = f[y] + Sum(s \ {y})
      OBVIOUS
    <2> DEFINE c == Chosen(s)
    <2>1. c \in s /\ IsFiniteSet(s)
      BY ChosenIn, FS_Subset
    <2>2. Sum(s) = f[c] + Sum(s \ {c})
      BY <2>1, SumChosen
    <2>3. CASE y = c
      BY <2>2, <2>3
    <2>4. CASE y # c
      <3>1. Sum(s \ {c}) = f[y] + Sum((s \ {c}) \ {y})
        BY <1>1, <2>1, <2>4
      <3>2. Sum(s \ {y}) = f[c] + Sum((s \ {y}) \ {c})
        BY <1>1, <2>1, <2>4
      <3>3. (s \ {c}) \ {y} = (s \ {y}) \ {c}
        OBVIOUS
      <3>4. Sum((s \ {y}) \ {c}) \in Nat /\ f[c] \in Nat /\ f[y] \in Nat
        <4> DEFINE r == (s \ {y}) \ {c}
        <4>1. IsFiniteSet(r) /\ r \subseteq S
          BY <2>1, FS_Subset
        <4> QED BY <2>1, <4>1, SumNat
      <3> HIDE DEF c
      <3> HIDE DEF Sum
      <3> QED BY <2>2, <3>1, <3>2, <3>3, <3>4
    <2> QED BY <2>3, <2>4
  <1> HIDE DEF T
  <1>2. S \in T
    BY <1>1, FiniteInduction DEF T
  <1> QED BY <1>2 DEF T

(* The empty function, and the two ways the index changes: one entry is set *)
(* or replaced, and one entry is taken away.                                *)
LEMMA SumOfNothing ==
  ASSUME NEW f, DOMAIN f = {}
  PROVE  SumFunction(f) = 0
  BY SumEmpty DEF SumFunction

LEMMA SumIsNat ==
  ASSUME NEW f, IsFiniteSet(DOMAIN f), \A x \in DOMAIN f : f[x] \in Nat
  PROVE  SumFunction(f) \in Nat
  BY SumNat DEF SumFunction

LEMMA SumDelete ==
  ASSUME NEW f, IsFiniteSet(DOMAIN f), \A x \in DOMAIN f : f[x] \in Nat, NEW h \in DOMAIN f
  PROVE  LET g == Restrict(f, DOMAIN f \ {h})
         IN  SumFunction(g) \in Nat /\ SumFunction(f) = f[h] + SumFunction(g)
  <1> DEFINE D == DOMAIN f \ {h}
             g == Restrict(f, D)
  <1>1. DOMAIN g = D /\ (\A x \in D : g[x] = f[x]) /\ IsFiniteSet(D)
    BY FS_RemoveElement DEF Restrict
  <1>2. SumFunctionOnSet(f, D) = SumFunctionOnSet(g, D)
    BY <1>1, SumSame
  <1>3. SumFunctionOnSet(g, D) \in Nat
    BY <1>1, SumNat
  <1>4. SumFunction(g) = SumFunctionOnSet(g, D)
    BY <1>1 DEF SumFunction
  <1>5. SumFunction(f) = f[h] + SumFunctionOnSet(f, D)
    BY SumRemove DEF SumFunction
  <1> QED BY <1>2, <1>3, <1>4, <1>5

LEMMA SumSet ==
  ASSUME NEW f, IsFiniteSet(DOMAIN f), \A x \in DOMAIN f : f[x] \in Nat, NEW h, NEW k \in Nat
  PROVE  LET g == [x \in DOMAIN f \cup {h} |-> IF x = h THEN k ELSE f[x]]
             n == IF h \in DOMAIN f THEN f[h] ELSE 0
         IN  /\ SumFunction(f) \in Nat /\ SumFunction(g) \in Nat /\ n <= SumFunction(f)
             /\ SumFunction(g) = SumFunction(f) - n + k
  <1> DEFINE D == DOMAIN f \ {h}
             g == [x \in DOMAIN f \cup {h} |-> IF x = h THEN k ELSE f[x]]
             n == IF h \in DOMAIN f THEN f[h] ELSE 0
  <1>1. /\ IsFiniteSet(D) /\ IsFiniteSet(DOMAIN g) /\ DOMAIN g \ {h} = D
        /\ \A x \in D : g[x] = f[x]
    <2>1. IsFiniteSet(DOMAIN f \cup {h}) /\ IsFiniteSet(D)
      BY FS_AddElement, FS_Subset
    <2> QED BY <2>1
  <1>2. SumFunctionOnSet(f, D) = SumFunctionOnSet(g, D) /\ SumFunctionOnSet(f, D) \in Nat
    BY <1>1, SumSame, SumNat
  <1>3. SumFunction(g) = k + SumFunctionOnSet(g, D)
    <2>1. h \in DOMAIN g /\ g[h] = k /\ \A x \in DOMAIN g : g[x] \in Nat
      OBVIOUS
    <2> HIDE DEF g, D
    <2> QED BY <1>1, <2>1, SumRemove DEF SumFunction
  <1>4. SumFunction(f) = n + SumFunctionOnSet(f, D) /\ n \in Nat
    <2>1. CASE h \in DOMAIN f
      BY <2>1, SumRemove DEF SumFunction
    <2>2. CASE h \notin DOMAIN f
      <3>1. D = DOMAIN f
        BY <2>2
      <3> QED BY <1>2, <2>2, <3>1 DEF SumFunction
    <2> QED BY <2>1, <2>2
  <1> HIDE DEF D, g, n
  <1>5. /\ SumFunction(f) \in Nat /\ SumFunction(g) \in Nat /\ n <= SumFunction(f)
        /\ SumFunction(g) = SumFunction(f) - n + k
    BY <1>2, <1>3, <1>4
  <1> QED BY <1>5 DEF g, n

-----------------------------------------------------------------------------
(* The ways a task moves on leave its call well-formed.                     *)

CallTypeOK == call \in [Task -> Call \cup {Idle}]

(* The labels one by one; "idle" is none of them.                           *)
LEMMA Labels ==
  /\ {"rewriteTmp", "rewriteRename", "removeFile", "unindex", "subTotal",
      "strayTmp", "strayRename", "strayFile", "readTotal", "checkBudget",
      "writeTmp", "rename", "insert", "addTotal"} = Label
  /\ "idle" \notin Label
  BY DEF Label, Rewriting, Purging, Stray, Putting

(* A task that is at a step executes a call on a hash.                      *)
LEMMA BusyType ==
  ASSUME CallTypeOK, NEW t \in Task, call[t].at \in Label
  PROVE  call[t] \in Call /\ call[t].h \in Hash /\ call[t].n \in Nat /\ call[t].body \subseteq Hash
  <1>1. call[t] # Idle
    BY Labels DEF Idle
  <1> QED BY <1>1 DEF CallTypeOK, Call

LEMMA GotoType ==
  ASSUME CallTypeOK, NEW t \in Task, NEW label \in Label, call[t].at \in Label, Goto(t, label)
  PROVE  CallTypeOK'
  <1>1. [call[t] EXCEPT !.at = label] \in Call
    BY BusyType DEF Call
  <1> QED BY <1>1 DEF CallTypeOK, Goto

LEMMA GotoWithType ==
  ASSUME CallTypeOK, NEW t \in Task, NEW label \in Label, NEW k \in Nat,
         call[t].at \in Label, GotoWith(t, label, k)
  PROVE  CallTypeOK'
  <1>1. [call[t] EXCEPT !.at = label, !.n = k] \in Call
    BY BusyType DEF Call
  <1> QED BY <1>1 DEF CallTypeOK, GotoWith

(* ... and keep its hash, and the calls of the others.                      *)
LEMMA ReturnType ==
  ASSUME CallTypeOK, NEW t \in Task, Return(t)
  PROVE  CallTypeOK'
  BY DEF CallTypeOK, Return

-----------------------------------------------------------------------------
(* Which steps change the index and the files.                             *)

LEMMA IndexSteps ==
  ASSUME [Next]_vars
  PROVE  \/ UNCHANGED index
         \/ Insert
         \/ \E a \in Admin : Unindex(a) /\ call[a].h \in DOMAIN index
         \/ Restart
  <1>1. CASE UNCHANGED vars \/ \E h \in Hash : Put(h) \/ Corrupt(h)
    BY <1>1 DEF vars, indexVars, Put, Corrupt
  <1>2. CASE IngestStep
    BY <1>2 DEF IngestStep, ReadTotal, CheckBudget, WriteTmp, Rename, PutIoError, Insert, AddTotal, indexVars
  <1>3. CASE \E a \in Admin : Cancel(a) \/ \E h \in Hash : Deny(a, h) \/ Allow(a, h)
    BY <1>3 DEF Cancel, Deny, Allow, indexVars
  <1>4. CASE \E a \in Admin : AdminStep(a)
    BY <1>4 DEF AdminStep, RewriteTmp, RewriteRename, RollBack, RemoveFile, Unindex, SubTotal,
       StrayFinishes, indexVars
  <1> QED BY <1>1, <1>2, <1>3, <1>4 DEF Next

LEMMA BlobSteps ==
  ASSUME [Next]_vars
  PROVE  \/ UNCHANGED blob
         \/ Rename
         \/ \E a \in Admin : /\ RemoveFile(a) \/ (StrayFinishes(a) /\ call[a].at = "strayFile")
                            /\ blob' = [blob EXCEPT ![call[a].h] = "none"]
         \/ \E h \in Hash : Corrupt(h)
         \/ Restart
  <1>1. CASE UNCHANGED vars \/ \E h \in Hash : Put(h)
    BY <1>1 DEF vars, diskVars, Put
  <1>2. CASE IngestStep
    BY <1>2 DEF IngestStep, ReadTotal, CheckBudget, WriteTmp, Rename, PutIoError, Insert, AddTotal, diskVars
  <1>3. CASE \E a \in Admin : Cancel(a) \/ \E h \in Hash : Deny(a, h) \/ Allow(a, h)
    BY <1>3 DEF Cancel, Deny, Allow, diskVars
  <1>4. CASE \E a \in Admin : AdminStep(a)
    BY <1>4 DEF AdminStep, RewriteTmp, RewriteRename, RollBack, RemoveFile, Unindex, SubTotal,
       StrayFinishes, diskVars
  <1> QED BY <1>1, <1>2, <1>3, <1>4 DEF Next

-----------------------------------------------------------------------------
(* Every variable holds a value of its kind.  That the total is a number    *)
(* needs that what is held is finite, whether or not there are finitely     *)
(* many hashes.                                                             *)

HoldsFinite == IsFiniteSet(DOMAIN index) /\ IsFiniteSet(OnDisk(blob))

LEMMA TypeInit == Init => TypeOK /\ HoldsFinite
  <1> SUFFICES ASSUME Init PROVE TypeOK /\ HoldsFinite
    OBVIOUS
  <1> USE DEF Init
  <1>1. DOMAIN index \subseteq Hash /\ index \in [DOMAIN index -> Nat]
    OBVIOUS
  <1>2. DOMAIN index = {} /\ OnDisk(blob) = {}
    BY DEF OnDisk
  <1> QED BY <1>1, <1>2, FS_EmptySet DEF TypeOK, FileState, HoldsFinite

LEMMA PutType == TypeOK /\ (IngestStep \/ \E h \in Hash : Put(h)) => TypeOK'
  <1> SUFFICES ASSUME TypeOK, IngestStep \/ \E h \in Hash : Put(h) PROVE TypeOK'
    OBVIOUS
  <1> USE StoreAssumption, Labels DEF listVars, indexVars, diskVars, history
  <1>0. /\ Ingest \in Task /\ CallTypeOK
        /\ call[Ingest].at \in Label => call[Ingest].h \in Hash /\ call[Ingest].n \in Nat
    BY BusyType DEF Task, TypeOK, CallTypeOK
  <1>1. CASE \E h \in Hash : Put(h)
    <2>1. PICK h \in Hash : Put(h)
      BY <1>1
    <2>2. [Idle EXCEPT !.at = IF MaxBytes > 0 THEN "readTotal" ELSE "writeTmp", !.h = h] \in Call
      BY DEF Idle, Call
    <2> QED BY <1>0, <2>1, <2>2 DEF Put, TypeOK
  <1>2. CASE ReadTotal
    BY <1>0, <1>2, GotoWithType DEF ReadTotal, TypeOK, CallTypeOK
  <1>3. CASE CheckBudget
    BY <1>0, <1>3, GotoWithType, ReturnType DEF CheckBudget, TypeOK, CallTypeOK
  <1>4. CASE WriteTmp
    BY <1>0, <1>4, GotoType DEF WriteTmp, TypeOK, CallTypeOK
  <1>5. CASE Rename
    BY <1>0, <1>5, GotoType DEF Rename, TypeOK, CallTypeOK, FileState
  <1>6. CASE PutIoError
    BY <1>0, <1>6, ReturnType DEF PutIoError, TypeOK, CallTypeOK
  <1>7. CASE Insert
    <2> DEFINE h == call[Ingest].h
    <2>1. h \in Hash /\ Size[h] \in Nat /\ Lookup(h) \in Nat
      BY <1>0, <1>7 DEF Insert, Lookup, TypeOK
    <2>2. CallTypeOK'
      BY <1>0, <1>7, <2>1, GotoWithType DEF Insert
    <2>3. DOMAIN index' \subseteq Hash /\ index' \in [DOMAIN index' -> Nat]
      BY <1>7, <2>1 DEF Insert, TypeOK
    <2> QED BY <1>0, <1>7, <2>2, <2>3 DEF Insert, TypeOK, CallTypeOK
  <1>8. CASE AddTotal
    <2>1. total' \in Nat
      BY <1>0, <1>8 DEF AddTotal, SaturatingSub, TypeOK
    <2>2. CallTypeOK'
      BY <1>0, <1>8, ReturnType DEF AddTotal
    <2> QED BY <1>8, <2>1, <2>2 DEF AddTotal, TypeOK, CallTypeOK
  <1> QED BY <1>1, <1>2, <1>3, <1>4, <1>5, <1>6, <1>7, <1>8 DEF IngestStep

LEMMA AdminType == TypeOK /\ (\E a \in Admin : AdminStep(a)) => TypeOK'
  <1> SUFFICES ASSUME TypeOK, NEW a \in Admin, AdminStep(a) PROVE TypeOK'
    OBVIOUS
  <1> USE StoreAssumption, Labels DEF listVars, indexVars, diskVars, history
  <1>0. /\ a \in Task /\ CallTypeOK
        /\ call[a].at \in Label =>
             call[a].h \in Hash /\ call[a].n \in Nat /\ call[a].body \subseteq Hash
    BY BusyType DEF Task, TypeOK, CallTypeOK
  <1>1. CASE RewriteTmp(a)
    BY <1>0, <1>1, GotoType DEF RewriteTmp, TypeOK, CallTypeOK
  <1>2. CASE RewriteRename(a)
    <2>1. [call[a] EXCEPT !.at = "removeFile", !.body = {}] \in Call
      BY <1>0, <1>2, BusyType DEF RewriteRename, Call
    <2>2. CallTypeOK'
      BY <1>0, <1>2, <2>1, ReturnType DEF RewriteRename, CallTypeOK
    <2> QED BY <1>2, <2>2 DEF RewriteRename, TypeOK, CallTypeOK
  <1>3. CASE RollBack(a)
    <2>1. CallTypeOK'
      BY <1>0, <1>3, ReturnType DEF RollBack
    <2> QED BY <1>0, <1>3, <2>1 DEF RollBack, Rewriting, TypeOK, CallTypeOK
  <1>4. CASE RemoveFile(a)
    BY <1>0, <1>4, GotoType DEF RemoveFile, TypeOK, CallTypeOK, FileState
  <1>5. CASE Unindex(a)
    <2>1. CallTypeOK'
      BY <1>0, <1>5, GotoWithType, ReturnType DEF Unindex, Acknowledge, TypeOK
    <2>2. DOMAIN index' \subseteq Hash /\ index' \in [DOMAIN index' -> Nat]
      BY <1>5 DEF Unindex, Restrict, TypeOK
    <2> QED BY <1>0, <1>5, <2>1, <2>2 DEF Unindex, Acknowledge, TypeOK, CallTypeOK
  <1>6. CASE SubTotal(a)
    <2>1. CallTypeOK'
      BY <1>0, <1>6, ReturnType DEF SubTotal, Acknowledge
    <2>2. total' \in Nat
      BY <1>0, <1>6 DEF SubTotal, SaturatingSub, TypeOK
    <2> QED BY <1>0, <1>6, <2>1, <2>2 DEF SubTotal, Acknowledge, TypeOK, CallTypeOK
  <1>7. CASE StrayFinishes(a)
    <2>1. CallTypeOK'
      BY <1>0, <1>7, ReturnType DEF StrayFinishes
    <2>2. denylist' \subseteq Hash /\ denylistTmp' \in (SUBSET Hash) \cup {NoFile}
      BY <1>0, <1>7 DEF StrayFinishes, TypeOK
    <2> QED BY <1>0, <1>7, <2>1, <2>2 DEF StrayFinishes, TypeOK, CallTypeOK, FileState
  <1> QED BY <1>1, <1>2, <1>3, <1>4, <1>5, <1>6, <1>7 DEF AdminStep

LEMMA RequestType ==
  TypeOK /\ (\E a \in Admin, h \in Hash : Deny(a, h) \/ Allow(a, h)) => TypeOK'
  <1> SUFFICES ASSUME TypeOK, NEW a \in Admin, NEW h \in Hash, Deny(a, h) \/ Allow(a, h)
               PROVE  TypeOK'
    OBVIOUS
  <1> USE StoreAssumption, Labels DEF listVars, indexVars, diskVars
  <1>1. /\ a \in Task
        /\ [Idle EXCEPT !.at = "removeFile", !.h = h] \in Call
        /\ \A S \in SUBSET Hash :
             [Idle EXCEPT !.at = "rewriteTmp", !.h = h, !.body = S] \in Call
    BY DEF Task, Idle, Call
  <1>2. CASE Deny(a, h)
    <2>1. denied' \in SUBSET Hash
      BY <1>2 DEF Deny, TypeOK
    <2>2. PICK c \in Call : call' = [call EXCEPT ![a] = c]
      BY <1>1, <1>2, <2>1 DEF Deny
    <2>3. call' \in [Task -> Call \cup {Idle}]
      BY <1>1, <2>2 DEF TypeOK
    <2> QED BY <1>2, <2>1, <2>3 DEF Deny, TypeOK
  <1>3. CASE Allow(a, h)
    BY <1>1, <1>3 DEF Allow, TypeOK
  <1> QED BY <1>2, <1>3

LEMMA RestartedIndex ==
  ASSUME TypeOK, HoldsFinite, Restart
  PROVE  /\ OnDisk(blob') \subseteq OnDisk(blob) /\ DOMAIN index' = OnDisk(blob') \ denied'
         /\ IsFiniteSet(OnDisk(blob')) /\ IsFiniteSet(DOMAIN index')
         /\ \A h \in DOMAIN index' : index'[h] \in Nat /\ index'[h] = FileLen(blob', h)
  <1>1. PICK left :
          /\ blob' = [h \in Hash |-> IF h \in denied' \ left THEN "none" ELSE blob[h]]
          /\ index' = Restrict(Scan(blob'), OnDisk(blob') \ denied')
    BY DEF Restart
  <1>2. OnDisk(blob') \subseteq OnDisk(blob)
    BY <1>1 DEF OnDisk
  <1>3. DOMAIN index' = OnDisk(blob') \ denied' /\ \A h \in DOMAIN index' : index'[h] = FileLen(blob', h)
    BY <1>1 DEF Restrict, Scan
  <1>4. \A h \in Hash : FileLen(blob', h) \in Nat
    BY StoreAssumption DEF FileLen
  <1>5. IsFiniteSet(OnDisk(blob')) /\ IsFiniteSet(DOMAIN index')
    BY <1>2, <1>3, FS_Subset DEF HoldsFinite
  <1>6. DOMAIN index' \subseteq Hash
    BY <1>3 DEF OnDisk
  <1> QED BY <1>2, <1>3, <1>4, <1>5, <1>6

LEMMA FiniteNext == TypeOK /\ HoldsFinite /\ [Next]_vars => HoldsFinite'
  <1> SUFFICES ASSUME TypeOK, HoldsFinite, [Next]_vars PROVE HoldsFinite'
    OBVIOUS
  <1>1. CASE Restart
    BY <1>1, RestartedIndex DEF HoldsFinite
  <1>2. CASE ~Restart
    <2>1. IsFiniteSet(DOMAIN index')
      <3>1. \E h : DOMAIN index' \subseteq DOMAIN index \cup {h}
        BY <1>2, IndexSteps DEF Insert, Unindex, Restrict
      <3> QED BY <3>1, FS_AddElement, FS_Subset DEF HoldsFinite
    <2>2. IsFiniteSet(OnDisk(blob'))
      <3>1. \E h : OnDisk(blob') \subseteq OnDisk(blob) \cup {h}
        BY <1>2, BlobSteps DEF Rename, Corrupt, TypeOK, OnDisk
      <3> QED BY <3>1, FS_AddElement, FS_Subset DEF HoldsFinite
    <2> QED BY <2>1, <2>2 DEF HoldsFinite
  <1> QED BY <1>1, <1>2

LEMMA FaultType ==
  ASSUME TypeOK, HoldsFinite, Restart \/ (\E a \in Admin : Cancel(a)) \/ \E h \in Hash : Corrupt(h)
  PROVE  TypeOK'
  <1> USE StoreAssumption, Labels DEF listVars, indexVars, diskVars, history
  <1>1. CASE Restart
    <2>1. denied' \subseteq Hash /\ blob' \in [Hash -> FileState] /\ call' \in [Task -> Call \cup {Idle}]
      BY <1>1 DEF Restart, Loaded, TypeOK, FileState
    <2>2. DOMAIN index' \subseteq Hash /\ index' \in [DOMAIN index' -> Nat]
      <3>1. index' = [h \in DOMAIN index' |-> index'[h]]
        BY <1>1 DEF Restart, Restrict
      <3> QED BY <1>1, <3>1, RestartedIndex DEF OnDisk
    <2>3. total' \in Nat
      BY <1>1, RestartedIndex, SumIsNat DEF Restart
    <2> QED BY <1>1, <2>1, <2>2, <2>3 DEF Restart, TypeOK
  <1>2. CASE \E a \in Admin : Cancel(a)
    <2>1. PICK a \in Admin : Cancel(a)
      BY <1>2
    <2>2. call[a].at \in Label /\ a \in Task /\ CallTypeOK
      BY <2>1 DEF Cancel, Rewriting, Purging, Task, TypeOK, CallTypeOK
    <2>3. AfterCancel(call[a].at) \subseteq Label \cup {"idle"}
      BY <2>1 DEF Cancel, AfterCancel, Rewriting, Purging
    <2>4. CallTypeOK'
      BY <2>1, <2>2, <2>3, GotoType, ReturnType DEF Cancel
    <2> QED BY <2>1, <2>4 DEF Cancel, TypeOK, CallTypeOK
  <1>3. CASE \E h \in Hash : Corrupt(h)
    BY <1>3 DEF Corrupt, TypeOK, FileState
  <1> QED BY <1>1, <1>2, <1>3

LEMMA TypeNext == TypeOK /\ HoldsFinite /\ [Next]_vars => TypeOK' /\ HoldsFinite'
  <1> SUFFICES ASSUME TypeOK, HoldsFinite, [Next]_vars PROVE TypeOK'
    BY FiniteNext
  <1>1. CASE UNCHANGED vars
    BY <1>1 DEF vars, listVars, indexVars, diskVars, history, TypeOK
  <1>2. CASE Next
    BY <1>2, PutType, AdminType, RequestType, FaultType DEF Next
  <1> QED BY <1>1, <1>2

(* Typing, for every fault the environment may inject.                      *)
THEOREM TypeCorrect == Spec => []TypeOK
  BY TypeInit, TypeNext, PTL DEF Spec

-----------------------------------------------------------------------------
(* How each step moves the call of its task; the other calls stay.          *)

Others(t) == \A u \in Task : u # t => call'[u] = call[u]

LEMMA GotoFields ==
  ASSUME CallTypeOK, NEW t \in Task, NEW label, call[t].at \in Label, Goto(t, label)
  PROVE  /\ call'[t].at = label /\ call'[t].h = call[t].h /\ call'[t].body = call[t].body
         /\ Others(t)
  <1>1. call'[t] = [call[t] EXCEPT !.at = label] /\ call[t] \in Call
    BY BusyType DEF CallTypeOK, Goto
  <1> QED BY <1>1 DEF Call, CallTypeOK, Goto, Others

LEMMA GotoWithNumber ==
  ASSUME CallTypeOK, NEW t \in Task, NEW label, NEW k, call[t].at \in Label, GotoWith(t, label, k)
  PROVE  /\ call'[t].at = label /\ call'[t].h = call[t].h /\ call'[t].n = k
         /\ Others(t)
  <1>1. call'[t] = [call[t] EXCEPT !.at = label, !.n = k] /\ call[t] \in Call
    BY BusyType DEF CallTypeOK, GotoWith
  <1> QED BY <1>1 DEF Call, CallTypeOK, GotoWith, Others

LEMMA ReturnFields ==
  ASSUME CallTypeOK, NEW t \in Task, Return(t)
  PROVE  call'[t] = Idle /\ Others(t)
  BY DEF CallTypeOK, Return, Others

LEMMA IngestMoves ==
  ASSUME TypeOK
  PROVE  LET c == call[Ingest]
             d == call'[Ingest]
         IN  /\ IngestStep \/ (\E h \in Hash : Put(h)) => Others(Ingest)
             /\ \A h \in Hash : Put(h) =>
                  c = Idle /\ d.h = h /\ d.at = IF MaxBytes > 0 THEN "readTotal" ELSE "writeTmp"
             /\ ReadTotal => c.at = "readTotal" /\ d.at = "checkBudget" /\ d.h = c.h /\ d.n = total
             /\ CheckBudget =>
                  c.at = "checkBudget" /\ (d = Idle \/ (~OverBudget /\ d.at = "writeTmp" /\ d.h = c.h))
             /\ WriteTmp => c.at = "writeTmp" /\ d.at = "rename" /\ d.h = c.h
             /\ Rename => c.at = "rename" /\ d.at = "insert" /\ d.h = c.h
             /\ PutIoError => c.at \in {"writeTmp", "rename"} /\ d = Idle
             /\ Insert => c.at = "insert" /\ d.at = "addTotal" /\ d.h = c.h /\ d.n = Lookup(c.h)
             /\ AddTotal => c.at = "addTotal" /\ d = Idle
  <1> DEFINE c == call[Ingest]
             d == call'[Ingest]
  <1>0. CallTypeOK /\ Ingest \in Task
    BY DEF TypeOK, CallTypeOK, Task
  <1>1. ASSUME NEW h \in Hash, Put(h)
        PROVE  /\ Others(Ingest) /\ c = Idle /\ d.h = h
               /\ d.at = IF MaxBytes > 0 THEN "readTotal" ELSE "writeTmp"
    <2> DEFINE label == IF MaxBytes > 0 THEN "readTotal" ELSE "writeTmp"
    <2>1. c = Idle /\ d = [Idle EXCEPT !.at = label, !.h = h] /\ Others(Ingest)
      BY <1>0, <1>1 DEF Put, CallTypeOK, Others
    <2> HIDE DEF label
    <2>2. d.h = h /\ d.at = label
      BY <2>1 DEF Idle
    <2> QED BY <2>1, <2>2 DEF label
  <1>2. ReadTotal => /\ Others(Ingest) /\ c.at = "readTotal"
                     /\ d.at = "checkBudget" /\ d.h = c.h /\ d.n = total
    BY <1>0, Labels, GotoWithNumber DEF ReadTotal
  <1>3. CheckBudget => /\ Others(Ingest) /\ c.at = "checkBudget"
                       /\ d = Idle \/ (~OverBudget /\ d.at = "writeTmp" /\ d.h = c.h)
    BY <1>0, Labels, GotoWithNumber, ReturnFields DEF CheckBudget
  <1>4. WriteTmp => Others(Ingest) /\ c.at = "writeTmp" /\ d.at = "rename" /\ d.h = c.h
    BY <1>0, Labels, GotoFields DEF WriteTmp
  <1>5. Rename => Others(Ingest) /\ c.at = "rename" /\ d.at = "insert" /\ d.h = c.h
    BY <1>0, Labels, GotoFields DEF Rename
  <1>6. PutIoError => Others(Ingest) /\ c.at \in {"writeTmp", "rename"} /\ d = Idle
    BY <1>0, ReturnFields DEF PutIoError
  <1>7. Insert => /\ Others(Ingest) /\ c.at = "insert"
                  /\ d.at = "addTotal" /\ d.h = c.h /\ d.n = Lookup(c.h)
    BY <1>0, Labels, GotoWithNumber DEF Insert
  <1>8. AddTotal => Others(Ingest) /\ c.at = "addTotal" /\ d = Idle
    BY <1>0, ReturnFields DEF AddTotal
  <1> HIDE DEF c, d
  <1>9. /\ IngestStep \/ (\E h \in Hash : Put(h)) => Others(Ingest)
        /\ \A h \in Hash : Put(h) =>
             c = Idle /\ d.h = h /\ d.at = IF MaxBytes > 0 THEN "readTotal" ELSE "writeTmp"
    BY <1>1, <1>2, <1>3, <1>4, <1>5, <1>6, <1>7, <1>8 DEF IngestStep
  <1> QED BY <1>2, <1>3, <1>4, <1>5, <1>6, <1>7, <1>8, <1>9 DEF c, d

LEMMA AdminMoves ==
  ASSUME TypeOK, NEW a \in Admin
  PROVE  LET c == call[a]
             d == call'[a]
         IN  /\ \/ AdminStep(a) \/ Cancel(a)
                \/ \E h \in Hash : Deny(a, h) \/ Allow(a, h)
                => Others(a)
             /\ \A h \in Hash : Deny(a, h) =>
                  /\ c = Idle /\ d.h = h
                  /\ \/ h \in denied /\ d.at = "removeFile" /\ denied' = denied /\ deniedLock' = deniedLock
                     \/ h \notin denied /\ d.at = "rewriteTmp" /\ d.body = denied'
             /\ \A h \in Hash : Allow(a, h) =>
                  c = Idle /\ d.h = h /\ d.at = "rewriteTmp" /\ d.body = denied'
             /\ RewriteTmp(a) =>
                  c.at = "rewriteTmp" /\ d.at = "rewriteRename" /\ d.h = c.h /\ d.body = c.body
             /\ RewriteRename(a) =>
                  /\ c.at = "rewriteRename"
                  /\ \/ Denying(a) /\ d.at = "removeFile" /\ d.h = c.h
                     \/ ~Denying(a) /\ d = Idle
             /\ RollBack(a) => c.at \in Rewriting /\ d = Idle
             /\ RemoveFile(a) => c.at = "removeFile" /\ d.at = "unindex" /\ d.h = c.h
             /\ Unindex(a) =>
                  /\ c.at = "unindex"
                  /\ \/ c.h \in DOMAIN index /\ d.at = "subTotal" /\ d.h = c.h /\ d.n = index[c.h]
                     \/ c.h \notin DOMAIN index /\ d = Idle
             /\ SubTotal(a) => c.at = "subTotal" /\ d = Idle
             /\ StrayFinishes(a) => c.at \in Stray /\ d = Idle
             /\ Cancel(a) =>
                  \/ c.at \in Rewriting \cup Purging /\ d = Idle
                  \/ c.at \in Rewriting /\ d.at \in {"strayTmp", "strayRename"} /\ d.h = c.h
                  \/ c.at = "removeFile" /\ d.at = "strayFile" /\ d.h = c.h
  <1> DEFINE c == call[a]
             d == call'[a]
  <1>0. CallTypeOK /\ a \in Task
    BY DEF TypeOK, CallTypeOK, Task
  <1>1. ASSUME NEW h \in Hash, Deny(a, h)
        PROVE  /\ Others(a) /\ c = Idle /\ d.h = h
               /\ \/ h \in denied /\ d.at = "removeFile" /\ denied' = denied /\ deniedLock' = deniedLock
                  \/ h \notin denied /\ d.at = "rewriteTmp" /\ d.body = denied'
    <2>1. CASE h \in denied
      <3>1. d = [Idle EXCEPT !.at = "removeFile", !.h = h]
        BY <1>0, <1>1, <2>1 DEF Deny, CallTypeOK
      <3> QED BY <1>0, <1>1, <2>1, <3>1 DEF Deny, CallTypeOK, Idle, Others
    <2>2. CASE h \notin denied
      <3>1. d = [Idle EXCEPT !.at = "rewriteTmp", !.h = h, !.body = denied']
        BY <1>0, <1>1, <2>2 DEF Deny, CallTypeOK
      <3> QED BY <1>0, <1>1, <2>2, <3>1 DEF Deny, CallTypeOK, Idle, Others
    <2> QED BY <2>1, <2>2
  <1>2. ASSUME NEW h \in Hash, Allow(a, h)
        PROVE  /\ Others(a) /\ c = Idle /\ d.h = h /\ d.at = "rewriteTmp" /\ d.body = denied'
    <2>1. d = [Idle EXCEPT !.at = "rewriteTmp", !.h = h, !.body = denied']
      BY <1>0, <1>2 DEF Allow, CallTypeOK
    <2> QED BY <1>0, <1>2, <2>1 DEF Allow, CallTypeOK, Idle, Others
  <1>3. RewriteTmp(a) => /\ Others(a) /\ c.at = "rewriteTmp"
                         /\ d.at = "rewriteRename" /\ d.h = c.h /\ d.body = c.body
    BY <1>0, Labels, GotoFields DEF RewriteTmp
  <1>4. RewriteRename(a) => /\ Others(a) /\ c.at = "rewriteRename"
                            /\ \/ Denying(a) /\ d.at = "removeFile" /\ d.h = c.h
                               \/ ~Denying(a) /\ d = Idle
    <2>1. CASE RewriteRename(a) /\ Denying(a)
      <3>1. d = [c EXCEPT !.at = "removeFile", !.body = {}] /\ c \in Call
        BY <1>0, <2>1, Labels, BusyType DEF RewriteRename, CallTypeOK
      <3> QED BY <1>0, <2>1, <3>1 DEF RewriteRename, CallTypeOK, Call, Others
    <2>2. CASE RewriteRename(a) /\ ~Denying(a)
      BY <1>0, <2>2, ReturnFields DEF RewriteRename
    <2> QED BY <2>1, <2>2
  <1>5. RollBack(a) => Others(a) /\ c.at \in Rewriting /\ d = Idle
    BY <1>0, ReturnFields DEF RollBack
  <1>6. RemoveFile(a) => Others(a) /\ c.at = "removeFile" /\ d.at = "unindex" /\ d.h = c.h
    BY <1>0, Labels, GotoFields DEF RemoveFile
  <1>7. Unindex(a) =>
          /\ Others(a) /\ c.at = "unindex"
          /\ \/ c.h \in DOMAIN index /\ d.at = "subTotal" /\ d.h = c.h /\ d.n = index[c.h]
             \/ c.h \notin DOMAIN index /\ d = Idle
    BY <1>0, Labels, GotoWithNumber, ReturnFields DEF Unindex, Acknowledge
  <1>8. SubTotal(a) => Others(a) /\ c.at = "subTotal" /\ d = Idle
    BY <1>0, ReturnFields DEF SubTotal, Acknowledge
  <1>9. StrayFinishes(a) => Others(a) /\ c.at \in Stray /\ d = Idle
    BY <1>0, ReturnFields DEF StrayFinishes, Stray
  <1>10. Cancel(a) => /\ Others(a)
                      /\ \/ c.at \in Rewriting \cup Purging /\ d = Idle
                         \/ c.at \in Rewriting /\ d.at \in {"strayTmp", "strayRename"} /\ d.h = c.h
                         \/ c.at = "removeFile" /\ d.at = "strayFile" /\ d.h = c.h
    <2> SUFFICES ASSUME Cancel(a)
                 PROVE  /\ Others(a)
                        /\ \/ c.at \in Rewriting \cup Purging /\ d = Idle
                           \/ c.at \in Rewriting /\ d.at \in {"strayTmp", "strayRename"} /\ d.h = c.h
                           \/ c.at = "removeFile" /\ d.at = "strayFile" /\ d.h = c.h
      OBVIOUS
    <2>1. c.at \in Rewriting \cup Purging /\ c.at \in Label
      BY DEF Cancel, Label
    <2>2. CASE Return(a)
      BY <1>0, <2>1, <2>2, ReturnFields
    <2>3. CASE \E label \in AfterCancel(c.at) \ {"idle"} : Goto(a, label)
      <3>1. PICK label \in AfterCancel(c.at) \ {"idle"} : Goto(a, label)
        BY <2>3
      <3>2. \/ c.at \in Rewriting /\ label \in {"strayTmp", "strayRename"}
            \/ c.at = "removeFile" /\ label = "strayFile"
        BY <2>1, <3>1 DEF AfterCancel, Rewriting, Purging
      <3> QED BY <1>0, <2>1, <3>1, <3>2, GotoFields
    <2> QED BY <2>2, <2>3 DEF Cancel
  <1> HIDE DEF c, d
  <1>11. \/ AdminStep(a) \/ Cancel(a)
         \/ \E h \in Hash : Deny(a, h) \/ Allow(a, h)
         => Others(a)
    BY <1>1, <1>2, <1>3, <1>4, <1>5, <1>6, <1>7, <1>8, <1>9, <1>10 DEF AdminStep
  <1>12. /\ \A h \in Hash : Deny(a, h) =>
              /\ c = Idle /\ d.h = h
              /\ \/ h \in denied /\ d.at = "removeFile" /\ denied' = denied /\ deniedLock' = deniedLock
                 \/ h \notin denied /\ d.at = "rewriteTmp" /\ d.body = denied'
         /\ \A h \in Hash : Allow(a, h) =>
              c = Idle /\ d.h = h /\ d.at = "rewriteTmp" /\ d.body = denied'
    BY <1>1, <1>2
  <1> QED BY <1>3, <1>4, <1>5, <1>6, <1>7, <1>8, <1>9, <1>10, <1>11, <1>12 DEF c, d

-----------------------------------------------------------------------------
(* Who holds which lock, and what a put and a purge of one hash know of     *)
(* each other, whatever the environment does.                               *)

LockInv ==
  /\ call[Ingest].at \in Putting \cup {"idle"}
  /\ call[Ingest].at = "addTotal" <=> indexLock = Ingest
  /\ \A a \in Admin :
       /\ call[a].at \notin Putting
       /\ call[a].at \in Rewriting => deniedLock = a /\ call[a].body = denied
       /\ call[a].at = "subTotal" <=> indexLock = a

RewriteOf(h) == \E a \in Admin : call[a].h = h /\ call[a].at \in Rewriting

(* A put is under way past its check of a hash that is denied, or about to  *)
(* be, or being purged: only when the two overlapped.                       *)
RaceInv ==
  \A h \in Hash : PutInFlight(h) /\ (h \in denied \/ RewriteOf(h) \/ PurgePending(h)) => h \in raced

StepInv == TypeOK /\ HoldsFinite /\ LockInv /\ RaceInv

LEMMA AllIdle ==
  ASSUME call = [t \in Task |-> Idle]
  PROVE  /\ \A t \in Task : call[t].at = "idle" /\ call[t].h = NoHash
         /\ \A h \in Hash : /\ ~PutInFlight(h) /\ ~InsertDue(h) /\ ~UnindexDue(h)
                            /\ ~RewriteOf(h) /\ ~PurgePending(h)
  <1>1. \A t \in Task : call[t].at = "idle" /\ call[t].h = NoHash
    BY DEF Idle
  <1> QED BY <1>1, StoreAssumption
       DEF Task, PutInFlight, InsertDue, UnindexDue, RewriteOf, PurgePending

LEMMA LockIdle ==
  ASSUME call = [t \in Task |-> Idle], indexLock = NoTask
  PROVE  LockInv /\ RaceInv
  <1>1. \A t \in Task : call[t].at = "idle"
    BY AllIdle
  <1>2. "idle" \notin Putting \cup Rewriting
    BY DEF Putting, Rewriting
  <1>3. LockInv
    BY <1>1, <1>2, StoreAssumption DEF LockInv, Task
  <1> QED BY <1>3, AllIdle DEF RaceInv

LEMMA StepInit == Init => StepInv
  BY TypeInit, LockIdle DEF Init, StepInv

LEMMA LockIngest ==
  ASSUME TypeOK, LockInv, IngestStep \/ \E h \in Hash : Put(h)
  PROVE  LockInv'
  <1> DEFINE c == call[Ingest]
             d == call'[Ingest]
  <1>1. Others(Ingest) /\ UNCHANGED listVars
    BY IngestMoves
    DEF IngestStep, Put, ReadTotal, CheckBudget, WriteTmp, Rename, PutIoError, Insert, AddTotal
  <1>2. /\ d.at \in Putting \cup {"idle"}
        /\ d.at = "addTotal" <=> indexLock' = Ingest
        /\ \A a \in Admin : indexLock' = a <=> indexLock = a
    <2>1. CASE Insert
      BY <2>1, IngestMoves, StoreAssumption DEF Insert, Putting, LockInv
    <2>2. CASE AddTotal
      BY <2>2, IngestMoves, StoreAssumption DEF AddTotal, Idle, LockInv
    <2>3. CASE \E h \in Hash : Put(h)
      <3>1. indexLock' = indexLock /\ c.at = "idle" /\ d.at \in {"readTotal", "writeTmp"}
        <4>1. PICK h \in Hash : Put(h)
          BY <2>3
        <4>2. c = Idle /\ d.at = IF MaxBytes > 0 THEN "readTotal" ELSE "writeTmp"
          BY <4>1, IngestMoves
        <4>3. indexLock' = indexLock
          BY <4>1 DEF Put, indexVars
        <4>4. c.at = "idle" /\ d.at \in {"readTotal", "writeTmp"}
          <5> HIDE DEF c, d
          <5> QED BY <4>2 DEF Idle
        <4> QED BY <4>3, <4>4
      <3>2. indexLock # Ingest
        BY <3>1 DEF LockInv
      <3> QED BY <3>1, <3>2 DEF Putting
    <2>4. CASE ReadTotal \/ CheckBudget \/ WriteTmp \/ Rename \/ PutIoError
      <3>1. indexLock' = indexLock /\ c.at # "addTotal"
        BY <2>4, IngestMoves
        DEF ReadTotal, CheckBudget, WriteTmp, Rename, PutIoError, indexVars
      <3>2. d.at \in {"idle", "checkBudget", "writeTmp", "rename", "insert"}
        BY <2>4, IngestMoves DEF Idle
      <3> QED BY <3>1, <3>2 DEF Putting, LockInv
    <2> QED BY <2>1, <2>2, <2>3, <2>4 DEF IngestStep
  <1> QED BY <1>1, <1>2, StoreAssumption DEF LockInv, listVars, Others, Task

LEMMA LockAdmin ==
  ASSUME TypeOK, LockInv, NEW a \in Admin,
         AdminStep(a) \/ Cancel(a) \/ \E h \in Hash : Deny(a, h) \/ Allow(a, h)
  PROVE  LockInv'
  <1> DEFINE c == call[a]
             d == call'[a]
  <1>1. /\ Others(a) /\ Ingest # a
        /\ call'[Ingest] = call[Ingest]
        /\ \A b \in Admin : b # a => call'[b] = call[b]
    BY AdminMoves, StoreAssumption DEF Others, Task
  <1>2. /\ UNCHANGED <<denied, deniedLock>> \/ (\A b \in Admin : b # a => call[b].at \notin Rewriting)
        /\ d.at \in Rewriting => deniedLock' = a /\ d.body = denied'
    <2>1. CASE \E h \in Hash : Deny(a, h) \/ Allow(a, h)
      <3>1. deniedLock = NoTask /\ \A b \in Admin : call[b].at \notin Rewriting
        BY <2>1, StoreAssumption DEF Deny, Allow, LockInv
      <3>2. d.at \in Rewriting => deniedLock' = a /\ d.body = denied'
        BY <2>1, AdminMoves DEF Deny, Allow, Rewriting
      <3> QED BY <3>1, <3>2
    <2>2. CASE RewriteTmp(a)
      BY <2>2, AdminMoves DEF RewriteTmp, Rewriting, LockInv
    <2>3. CASE RewriteRename(a) \/ RollBack(a) \/ (Cancel(a) /\ c.at \in Rewriting)
      <3>1. c.at \in Rewriting /\ deniedLock = a /\ \A b \in Admin : b # a => call[b].at \notin Rewriting
        BY <2>3, AdminMoves DEF LockInv, Rewriting
      <3>2. d.at \in {"idle", "removeFile", "strayTmp", "strayRename", "strayFile"}
        BY <2>3, AdminMoves DEF Idle
      <3> QED BY <3>1, <3>2 DEF Rewriting
    <2>4. CASE RemoveFile(a) \/ Unindex(a) \/ SubTotal(a) \/ StrayFinishes(a) \/ (Cancel(a) /\ c.at \notin Rewriting)
      <3>1. d.at \in {"idle", "unindex", "subTotal", "strayFile"}
        BY <2>4, AdminMoves DEF Idle
      <3>2. UNCHANGED denied /\ (deniedLock' = deniedLock \/ deniedLock = a)
        BY <2>4 DEF RemoveFile, Unindex, SubTotal, StrayFinishes, Cancel, listVars
      <3>3. deniedLock = a => \A b \in Admin : b # a => call[b].at \notin Rewriting
        BY DEF LockInv
      <3> QED BY <3>1, <3>2, <3>3 DEF Rewriting
    <2> QED BY <2>1, <2>2, <2>3, <2>4 DEF AdminStep
  <1>3. /\ d.at = "subTotal" <=> indexLock' = a
        /\ \A t \in Task : t # a => (indexLock' = t <=> indexLock = t)
    <2>1. CASE Unindex(a) /\ c.h \in DOMAIN index
      BY <2>1, AdminMoves, StoreAssumption DEF Unindex, Task
    <2>2. CASE SubTotal(a) \/ Cancel(a)
      <3>1. indexLock' = IF indexLock = a THEN NoTask ELSE indexLock
        BY <2>2, AdminMoves DEF SubTotal, Cancel, LockInv
      <3>2. d.at # "subTotal"
        BY <2>2, AdminMoves DEF Idle
      <3> QED BY <3>1, <3>2, StoreAssumption DEF Task
    <2>3. CASE /\ ~(Unindex(a) /\ c.h \in DOMAIN index) /\ ~SubTotal(a) /\ ~Cancel(a)
      <3>1. indexLock' = indexLock
        BY <2>3 DEF AdminStep, RewriteTmp, RewriteRename, RollBack, RemoveFile, Unindex, StrayFinishes,
                    Deny, Allow, indexVars
      <3>2. c.at # "subTotal" /\ d.at # "subTotal"
        BY <2>3, AdminMoves DEF AdminStep, Idle, Rewriting, Stray
      <3> QED BY <3>1, <3>2 DEF LockInv
    <2> QED BY <2>1, <2>2, <2>3
  <1>4. d.at \notin Putting
    BY AdminMoves DEF AdminStep, Idle, Putting
  <1> QED BY <1>1, <1>2, <1>3, <1>4 DEF LockInv, Task

LEMMA LockNext ==
  ASSUME TypeOK, LockInv, [Next]_vars
  PROVE  LockInv'
  <1>1. CASE UNCHANGED vars \/ \E h \in Hash : Corrupt(h)
    BY <1>1 DEF vars, listVars, indexVars, Corrupt, LockInv
  <1>2. CASE Restart
    <2>1. call' = [t \in Task |-> Idle] /\ indexLock' = NoTask
      BY <1>2 DEF Restart
    <2>2. \A t \in Task : call'[t].at = "idle"
      BY <2>1 DEF Idle
    <2>3. "idle" \notin Putting \cup Rewriting
      BY DEF Putting, Rewriting
    <2> QED BY <2>1, <2>2, <2>3, StoreAssumption DEF LockInv, Task
  <1> QED BY <1>1, <1>2, LockIngest, LockAdmin DEF Next

LEMMA RaceNext ==
  ASSUME TypeOK, LockInv, RaceInv, [Next]_vars
  PROVE  RaceInv'
  <1> SUFFICES ASSUME NEW h \in Hash, PutInFlight(h)',
                      (h \in denied)' \/ RewriteOf(h)' \/ PurgePending(h)'
               PROVE  h \in raced'
    BY DEF RaceInv
  <1>1. CASE UNCHANGED vars \/ \E k \in Hash : Corrupt(k)
    BY <1>1 DEF vars, listVars, history, Corrupt, RaceInv, PutInFlight, RewriteOf, PurgePending
  <1>2. CASE Restart
    <2>1. call'[Ingest] = Idle
      BY <1>2 DEF Restart, Task
    <2> QED BY <2>1, StoreAssumption DEF PutInFlight, Idle
  <1>3. CASE IngestStep \/ \E k \in Hash : Put(k)
    <2>1. Others(Ingest) /\ UNCHANGED <<denied, deniedLock>> /\ raced \subseteq raced'
      BY <1>3, IngestMoves
      DEF IngestStep, Put, ReadTotal, CheckBudget, WriteTmp, Rename, PutIoError, Insert, AddTotal,
          listVars, history
    <2>2. RewriteOf(h)' = RewriteOf(h) /\ PurgePending(h)' = PurgePending(h)
      BY <2>1, StoreAssumption DEF RewriteOf, PurgePending, Others, Task
    <2>3. CASE Put(h)
      <3>1. deniedLock = NoTask /\ h \notin denied /\ ~RewriteOf(h)
        BY <2>3, StoreAssumption DEF Put, LockInv, RewriteOf
      <3> QED BY <2>1, <2>2, <2>3, <3>1 DEF Put
    <2>4. CASE ~Put(h)
      <3>1. call[Ingest].h = h
        BY <1>3, <2>4, IngestMoves, StoreAssumption DEF PutInFlight, IngestStep, Idle
      <3> QED BY <2>1, <2>2, <3>1 DEF RaceInv, PutInFlight
    <2> QED BY <2>3, <2>4
  <1>4. ASSUME NEW a \in Admin, NEW k \in Hash, Deny(a, k) \/ Allow(a, k)
        PROVE  h \in raced'
    <2>1. Others(a) /\ raced \subseteq raced'
      BY <1>4, AdminMoves DEF Deny, Allow
    <2>2. PutInFlight(h)
      BY <2>1, StoreAssumption DEF PutInFlight, Others, Task
    <2>3. CASE h = k /\ Deny(a, k)
      BY <2>1, <2>2, <2>3 DEF Deny
    <2>4. CASE h = k /\ Allow(a, k)
      BY <2>1, <2>2, <2>4 DEF Allow, RaceInv
    <2>5. CASE h # k
      <3>1. (h \in denied)' <=> h \in denied
        BY <1>4, <2>5 DEF Deny, Allow
      <3>2. call'[a].h # h
        BY <1>4, <2>5, AdminMoves
      <3>3. RewriteOf(h)' => RewriteOf(h)
        BY <2>1, <3>2 DEF RewriteOf, Others, Task
      <3>4. PurgePending(h)' => PurgePending(h)
        BY <2>1, <3>2 DEF PurgePending, Others, Task
      <3> QED BY <2>1, <2>2, <3>1, <3>3, <3>4 DEF RaceInv
    <2> QED BY <1>4, <2>3, <2>4, <2>5
  <1>5. ASSUME NEW a \in Admin, AdminStep(a) \/ Cancel(a)
        PROVE  h \in raced'
    <2>1. Others(a) /\ PutInFlight(h) /\ raced' = raced
      BY <1>5, AdminMoves, StoreAssumption
      DEF AdminStep, RewriteTmp, RewriteRename, RollBack, RemoveFile, Unindex, SubTotal, StrayFinishes,
          Cancel, history, PutInFlight, Others, Task
    <2>2. CASE call'[a].h # h
      <3>1. (h \in denied)' => h \in denied \/ RewriteOf(h)
        BY <1>5 DEF AdminStep, RewriteTmp, RewriteRename, RollBack, RemoveFile, Unindex, SubTotal,
           StrayFinishes, Cancel, listVars, RewriteOf
      <3>2. RewriteOf(h)' => RewriteOf(h)
        BY <2>1, <2>2 DEF RewriteOf, Others, Task
      <3>3. PurgePending(h)' => PurgePending(h)
        BY <2>1, <2>2 DEF PurgePending, Others, Task
      <3> QED BY <2>1, <3>1, <3>2, <3>3 DEF RaceInv
    <2>3. CASE call'[a].h = h
      <3>1. h # NoHash
        BY StoreAssumption
      <3>2. call[a].h = h /\ call[a].at \in Rewriting \cup Purging \cup {"strayFile"}
        BY <1>5, <2>3, <3>1, AdminMoves DEF AdminStep, Idle, Rewriting, Purging
      <3> QED BY <2>1, <3>2 DEF RaceInv, RewriteOf, PurgePending
    <2> QED BY <2>2, <2>3
  <1> QED BY <1>1, <1>2, <1>3, <1>4, <1>5 DEF Next

LEMMA StepNext == StepInv /\ [Next]_vars => StepInv'
  BY TypeNext, LockNext, RaceNext DEF StepInv

-----------------------------------------------------------------------------
(* The faults that some of the theorems below exclude: dropped handlers and *)
(* an unreadable denylist, dropped handlers, files that cannot be removed.  *)
NoListFault == Faults \cap {"cancel", "unreadable"} = {}
NoCancel    == "cancel" \notin Faults
NoUnlink    == "unlink" \notin Faults

-----------------------------------------------------------------------------
(* The denylist in memory and on file.  While its lock is held they differ  *)
(* by the entry the holder is inserting or removing; otherwise they agree.  *)

RewriteInv ==
  \A a \in Admin : call[a].at \in Rewriting =>
    /\ deniedLock = a
    /\ call[a].body = denied
    /\ \/ call[a].h \notin denylist /\ denied = denylist \cup {call[a].h}
       \/ call[a].h \in denylist /\ denied = denylist \ {call[a].h}
    /\ call[a].at = "rewriteRename" => denylistTmp = denied

NoStray == \A a \in Admin : call[a].at \notin Stray

AckInv ==
  /\ acked \subseteq denied \cap denylist
  /\ \A a \in claim :
       \/ call[a].at \in Rewriting /\ call[a].h \in denied
       \/ call[a].at \in Purging /\ call[a].h \in denied \cap denylist

ListInv == TypeOK /\ HoldsFinite /\ DenylistDurable /\ RewriteInv /\ NoStray /\ AckInv

LEMMA ListInit == Init => ListInv
  <1> SUFFICES ASSUME Init PROVE ListInv
    OBVIOUS
  <1>1. \A a \in Admin : call[a].at = "idle"
    BY DEF Init, Idle, Task
  <1> QED BY <1>1, TypeInit, Labels DEF Init, ListInv, DenylistDurable, RewriteInv, NoStray, AckInv,
       Rewriting, Stray

(* A step that leaves the lists and the admin calls alone, as every step of *)
(* a put does.                                                              *)
LEMMA ListFrame ==
  ASSUME ListInv, UNCHANGED <<listVars, acked, claim>>, \A a \in Admin : call'[a] = call[a]
  PROVE  DenylistDurable' /\ RewriteInv' /\ NoStray' /\ AckInv'
  BY DEF ListInv, TypeOK, listVars, DenylistDurable, RewriteInv, NoStray, AckInv

LEMMA ListPut ==
  ASSUME ListInv, IngestStep \/ (\E h \in Hash : Put(h))
  PROVE  DenylistDurable' /\ RewriteInv' /\ NoStray' /\ AckInv'
  <1>1. UNCHANGED <<listVars, acked, claim>>
    BY DEF IngestStep, Put, ReadTotal, CheckBudget, WriteTmp, Rename, PutIoError, Insert, AddTotal, history
  <1>2. \A a \in Admin : a # Ingest
    BY StoreAssumption
  <1>3. \A a \in Admin : call'[a] = call[a]
    BY <1>2 DEF IngestStep, Put, ReadTotal, CheckBudget, WriteTmp, Rename, PutIoError, Insert, AddTotal,
         Goto, GotoWith, Return, ListInv, TypeOK, Task
  <1> QED BY <1>1, <1>3, ListFrame

LEMMA ListDeny ==
  ASSUME ListInv, NEW a \in Admin, NEW h \in Hash, Deny(a, h)
  PROVE  DenylistDurable' /\ RewriteInv' /\ NoStray' /\ AckInv'
  <1> USE DEF ListInv
  <1>1. /\ call[a] = Idle /\ deniedLock = NoTask /\ denied = denylist
        /\ \A b \in Admin : call[b].at \notin Rewriting
        /\ UNCHANGED denylist
    BY StoreAssumption DEF Deny, RewriteInv, DenylistDurable
  <1>2. /\ \A b \in Admin : b # a => call'[b] = call[b]
        /\ a \notin claim
    <2>1. \A b \in Admin : b # a => call'[b] = call[b]
      BY DEF Deny, TypeOK, Task
    <2>2. a \notin claim
      BY <1>1, Labels DEF AckInv, Idle, Label
    <2> QED BY <2>1, <2>2
  <1>3. CASE h \in denied
    <2>1. call'[a].at = "removeFile" /\ call'[a].h = h
      BY <1>3 DEF Deny, TypeOK, Task, Idle
    <2>2. UNCHANGED <<denied, deniedLock, denylistTmp, acked>> /\ claim' = claim \cup {a}
      BY <1>3 DEF Deny
    <2> QED BY <1>1, <1>2, <1>3, <2>1, <2>2
         DEF DenylistDurable, RewriteInv, NoStray, AckInv, TypeOK, Rewriting, Purging, Stray
  <1>4. CASE h \notin denied
    <2>1. denied' = denied \cup {h} /\ deniedLock' = a /\ claim' = claim \cup {a} /\ acked' = acked \ {h}
      BY <1>4 DEF Deny
    <2>2. call'[a] = [Idle EXCEPT !.at = "rewriteTmp", !.h = h, !.body = denied']
      BY <1>4 DEF Deny, TypeOK, Task
    <2>3. call'[a].at = "rewriteTmp" /\ call'[a].h = h /\ call'[a].body = denied'
      BY <2>2 DEF Idle
    <2> QED BY <1>1, <1>2, <1>4, <2>1, <2>3, StoreAssumption
         DEF DenylistDurable, RewriteInv, NoStray, AckInv, TypeOK, Rewriting, Purging, Stray
  <1> QED BY <1>3, <1>4

LEMMA ListAllow ==
  ASSUME ListInv, NEW a \in Admin, NEW h \in Hash, Allow(a, h)
  PROVE  DenylistDurable' /\ RewriteInv' /\ NoStray' /\ AckInv'
  <1> USE DEF ListInv
  <1>1. /\ call[a] = Idle /\ deniedLock = NoTask /\ denied = denylist /\ h \in denied
        /\ \A b \in Admin : call[b].at \notin Rewriting
        /\ UNCHANGED <<denylist, denylistTmp>>
    BY StoreAssumption DEF Allow, RewriteInv, DenylistDurable
  <1>2. /\ \A b \in Admin : b # a => call'[b] = call[b]
        /\ a \notin claim
    BY <1>1, Labels DEF Allow, AckInv, Idle, Label
  <1>3. /\ denied' = denied \ {h} /\ deniedLock' = a /\ acked' = acked \ {h}
        /\ claim' \subseteq claim /\ \A b \in claim' : call[b].h # h
    BY DEF Allow, TypeOK
  <1>4. call'[a].at = "rewriteTmp" /\ call'[a].h = h /\ call'[a].body = denied'
    BY DEF Allow, TypeOK, Task, Idle
  <1> QED BY <1>1, <1>2, <1>3, <1>4, StoreAssumption
       DEF DenylistDurable, RewriteInv, NoStray, AckInv, TypeOK, Rewriting, Purging, Stray

LEMMA ListAdmin ==
  ASSUME ListInv, NEW a \in Admin, AdminStep(a)
  PROVE  DenylistDurable' /\ RewriteInv' /\ NoStray' /\ AckInv'
  <1> USE DEF ListInv
  <1>0. a \in Task
    BY DEF Task
  <1>1. CASE RewriteTmp(a)
    <2>1. /\ call[a].at = "rewriteTmp" /\ deniedLock = a
          /\ denylistTmp' = denied /\ UNCHANGED <<denied, deniedLock, denylist, acked, claim>>
      BY <1>1 DEF RewriteTmp, RewriteInv, Rewriting, history
    <2>2. /\ call'[a].at = "rewriteRename" /\ call'[a].h = call[a].h /\ call'[a].body = call[a].body
          /\ \A b \in Admin : b # a => call'[b] = call[b]
      BY <1>0, <1>1 DEF RewriteTmp, Goto, TypeOK
    <2> QED BY <2>1, <2>2, StoreAssumption
         DEF DenylistDurable, RewriteInv, NoStray, AckInv, TypeOK, Rewriting, Purging, Stray
  <1>2. CASE RewriteRename(a)
    <2>1. /\ call[a].at = "rewriteRename" /\ deniedLock = a /\ call[a].body = denied
          /\ denylist' = denied /\ UNCHANGED <<denied, acked, claim>> /\ deniedLock' = NoTask
      BY <1>2 DEF RewriteRename, RewriteInv, Rewriting, history
    <2>2. \A b \in Admin : b # a => call'[b] = call[b] /\ call[b].at \notin Rewriting
      BY <1>0, <1>2, <2>1 DEF RewriteRename, Return, RewriteInv, TypeOK, Task
    <2>3. /\ call[a].h \in denied => call'[a].at = "removeFile" /\ call'[a].h = call[a].h
          /\ call[a].h \notin denied => call'[a] = Idle
      <3>1. call[a].h \in denied => call'[a] = [call[a] EXCEPT !.at = "removeFile", !.body = {}]
        BY <1>0, <1>2, <2>1 DEF RewriteRename, Denying, TypeOK
      <3>2. call[a] \in Call
        BY <1>0, <2>1, Labels, BusyType DEF TypeOK, CallTypeOK
      <3> QED BY <1>0, <1>2, <2>1, <3>1, <3>2 DEF RewriteRename, Denying, Return, TypeOK, Call
    <2>4. a \in claim => call[a].h \in denied
      BY <2>1 DEF AckInv, Rewriting, Purging
    <2> QED BY <2>1, <2>2, <2>3, <2>4, StoreAssumption
         DEF DenylistDurable, RewriteInv, NoStray, AckInv, TypeOK, Idle, Rewriting, Purging, Stray
  <1>3. CASE RollBack(a)
    <2>1. /\ call[a].at \in Rewriting /\ deniedLock = a /\ deniedLock' = NoTask /\ denied' = denylist
          /\ UNCHANGED <<denylist, acked>> /\ claim' = claim \ {a}
      BY <1>3 DEF RollBack, Denying, RewriteInv
    <2>2. /\ \A b \in Admin : b # a => call'[b] = call[b] /\ call[b].at \notin Rewriting
          /\ call'[a] = Idle
      BY <1>0, <1>3, <2>1 DEF RollBack, Return, RewriteInv, TypeOK
    <2> QED BY <2>1, <2>2, StoreAssumption
         DEF DenylistDurable, RewriteInv, NoStray, AckInv, TypeOK, Idle, Rewriting, Purging, Stray
  <1>4. CASE RemoveFile(a)
    <2>1. call[a].at = "removeFile" /\ UNCHANGED <<listVars, acked, claim>>
      BY <1>4 DEF RemoveFile, history
    <2>2. /\ call'[a].at = "unindex" /\ call'[a].h = call[a].h
          /\ \A b \in Admin : b # a => call'[b] = call[b]
      BY <1>0, <1>4 DEF RemoveFile, Goto, TypeOK
    <2> QED BY <2>1, <2>2
         DEF listVars, DenylistDurable, RewriteInv, NoStray, AckInv, TypeOK, Rewriting, Purging, Stray
  <1>5. CASE Unindex(a) /\ call[a].h \in DOMAIN index
    <2>1. call[a].at = "unindex" /\ UNCHANGED <<listVars, acked, claim>>
      BY <1>5 DEF Unindex
    <2>2. /\ call'[a].at = "subTotal" /\ call'[a].h = call[a].h
          /\ \A b \in Admin : b # a => call'[b] = call[b]
      BY <1>0, <1>5, <2>1, Labels, GotoWithNumber DEF Unindex, TypeOK, CallTypeOK, Task, Others
    <2> QED BY <2>1, <2>2
         DEF listVars, DenylistDurable, RewriteInv, NoStray, AckInv, TypeOK, Rewriting, Purging, Stray
  <1>6. CASE SubTotal(a) \/ (Unindex(a) /\ call[a].h \notin DOMAIN index)
    <2>1. /\ call[a].at \in {"unindex", "subTotal"} /\ UNCHANGED listVars
          /\ Acknowledge(a)
      BY <1>6 DEF Unindex, SubTotal
    <2>2. /\ call'[a] = Idle
          /\ \A b \in Admin : b # a => call'[b] = call[b]
      BY <1>0, <2>1 DEF Acknowledge, Return, TypeOK
    <2>3. claim' = claim \ {a} /\ acked' \subseteq denied \cap denylist
      BY <2>1 DEF Acknowledge, AckInv, Rewriting, Purging
    <2> QED BY <2>1, <2>2, <2>3
         DEF listVars, DenylistDurable, RewriteInv, NoStray, AckInv, TypeOK, Idle, Rewriting, Purging, Stray
  <1>7. ~StrayFinishes(a)
    BY DEF StrayFinishes, NoStray, Stray
  <1> QED BY <1>1, <1>2, <1>3, <1>4, <1>5, <1>6, <1>7 DEF AdminStep

LEMMA ListRestart ==
  ASSUME ListInv, NoListFault, Restart
  PROVE  DenylistDurable' /\ RewriteInv' /\ NoStray' /\ AckInv'
  <1>1. /\ denied' = denylist /\ denylist' = denylist /\ acked' = acked /\ claim' = {}
    BY DEF Restart, Loaded, NoListFault
  <1>2. \A a \in Admin : call'[a].at = "idle"
    BY DEF Restart, Idle, Task
  <1> QED BY <1>1, <1>2
       DEF ListInv, DenylistDurable, RewriteInv, NoStray, AckInv, Rewriting, Stray

LEMMA ListNext == ListInv /\ NoListFault /\ [Next]_vars => ListInv'
  <1> SUFFICES ASSUME ListInv, NoListFault, [Next]_vars PROVE ListInv'
    OBVIOUS
  <1>1. TypeOK' /\ HoldsFinite'
    BY TypeNext DEF ListInv
  <1>2. CASE UNCHANGED vars \/ \E h \in Hash : Corrupt(h)
    BY <1>1, <1>2, ListFrame DEF vars, history, Corrupt, ListInv
  <1>3. \A a \in Admin : ~Cancel(a)
    BY DEF Cancel, NoListFault
  <1> QED BY <1>1, <1>2, <1>3, ListPut, ListDeny, ListAllow, ListAdmin, ListRestart DEF Next, ListInv

(* Without cancelled handlers and unreadable files, the denylist in memory  *)
(* and on file agree whenever the lock is free, and every takedown the      *)
(* operator was told of is in both.                                         *)
THEOREM DenylistIsDurable == NoListFault /\ Spec => [](DenylistDurable /\ AckedDurable)
  <1>1. ListInv => DenylistDurable /\ AckedDurable
    BY DEF ListInv, AckInv, AckedDurable
  <1>2. NoListFault => NoListFault'
    BY DEF NoListFault
  <1> QED BY ListInit, ListNext, <1>1, <1>2, PTL DEF Spec

-----------------------------------------------------------------------------
(* The store implements the registry of takedowns.                         *)

LEMMA RegistryStep ==
  ASSUME ListInv, NoListFault, [Next]_vars
  PROVE  [Takedowns!Next]_<<denylist, acked>>
  <1> SUFFICES ASSUME ~UNCHANGED <<denylist, acked>>
               PROVE  \E h \in Hash : \/ Takedowns!List(h) \/ Takedowns!Withdraw(h)
                                      \/ Takedowns!Unlist(h) \/ Takedowns!Ack(h)
    BY DEF Takedowns!Next
  <1> USE DEF ListInv, Takedowns!List, Takedowns!Withdraw, Takedowns!Unlist, Takedowns!Ack
  <1>1. ASSUME NEW a \in Admin, NEW h \in Hash, Deny(a, h) \/ Allow(a, h)
        PROVE  Takedowns!Withdraw(h)
    BY <1>1 DEF Deny, Allow
  <1>2. ASSUME NEW a \in Admin, RewriteRename(a)
        PROVE  Takedowns!List(call[a].h) \/ Takedowns!Unlist(call[a].h)
    <2>1. denylist' = denied /\ UNCHANGED acked
      BY <1>2 DEF RewriteRename, RewriteInv, Rewriting, history
    <2> QED BY <1>2, <2>1 DEF RewriteRename, RewriteInv, Rewriting, AckInv
  <1>3. ASSUME NEW a \in Admin, Unindex(a) \/ SubTotal(a)
        PROVE  Takedowns!Ack(call[a].h)
    <2>1. Acknowledge(a) /\ UNCHANGED denylist /\ call[a].at \notin Rewriting
      BY <1>3 DEF Unindex, SubTotal, listVars, Rewriting
    <2> QED BY <2>1 DEF Acknowledge, AckInv
  <1>4. \A a \in Admin : ~Cancel(a) /\ ~StrayFinishes(a)
    BY DEF Cancel, NoListFault, StrayFinishes, NoStray, Stray
  <1>5. \A a \in Admin : ~RewriteTmp(a) /\ ~RollBack(a) /\ ~RemoveFile(a)
    BY DEF RewriteTmp, RollBack, RemoveFile, listVars, history
  <1>6. ~IngestStep /\ \A h \in Hash : ~Put(h) /\ ~Corrupt(h)
    BY DEF IngestStep, Put, Corrupt, ReadTotal, CheckBudget, WriteTmp, Rename, PutIoError, Insert,
       AddTotal, listVars, history
  <1>7. ~Restart /\ ~UNCHANGED vars
    BY DEF Restart, vars, listVars, history
  <1>8. \A a \in Admin : call[a].at \in Label => call[a].h \in Hash
    BY BusyType DEF TypeOK, CallTypeOK, Task
  <1>9. PICK a \in Admin :
          \/ \E h \in Hash : Deny(a, h) \/ Allow(a, h)
          \/ RewriteRename(a) \/ Unindex(a) \/ SubTotal(a)
    BY <1>4, <1>5, <1>6, <1>7 DEF Next, AdminStep
  <1>10. CASE \E h \in Hash : Deny(a, h) \/ Allow(a, h)
    BY <1>1, <1>10
  <1>11. CASE RewriteRename(a) \/ Unindex(a) \/ SubTotal(a)
    <2>1. call[a].h \in Hash
      BY <1>8, <1>11, Labels DEF RewriteRename, Unindex, SubTotal
    <2> QED BY <1>2, <1>3, <1>11, <2>1
  <1> QED BY <1>9, <1>10, <1>11

(* No interleaving of requests, no I/O error and no crash loses a takedown  *)
(* the operator was told of, or changes an entry nobody asked about.        *)
THEOREM StoreKeepsTakedowns == NoListFault /\ Spec => KeepsTakedowns
  <1>1. Init => Takedowns!Init
    BY DEF Init, Takedowns!Init
  <1>2. NoListFault => NoListFault'
    BY DEF NoListFault
  <1> QED BY ListInit, ListNext, RegistryStep, <1>1, <1>2, PTL DEF Spec, KeepsTakedowns, Takedowns!Spec

-----------------------------------------------------------------------------
(* The cached total.  While a task holds the index lock between its two     *)
(* updates, the total is what it will be once the task is done; a purge     *)
(* that is dropped there leaves it larger than that.                        *)

Settled ==
  IF indexLock = NoTask THEN total
  ELSE total - call[indexLock].n + IF indexLock = Ingest THEN Size[call[Ingest].h] ELSE 0

TotalInv ==
  /\ indexLock # NoTask => call[indexLock].n <= total
  /\ Settled >= SumFunction(index)
  /\ "cancel" \notin Faults => Settled = SumFunction(index)

LEMMA IndexType ==
  ASSUME TypeOK, HoldsFinite
  PROVE  /\ SumFunction(index) \in Nat
         /\ IsFiniteSet(DOMAIN index) /\ \A x \in DOMAIN index : index[x] \in Nat
         /\ \A t \in Task : call[t].n \in Nat
  <1>1. IsFiniteSet(DOMAIN index) /\ \A x \in DOMAIN index : index[x] \in Nat
    BY DEF TypeOK, HoldsFinite
  <1>2. \A t \in Task : call[t].n \in Nat
    BY DEF TypeOK, Call, Idle
  <1> QED BY <1>1, <1>2, SumIsNat

LEMMA TotalInit == Init => TotalInv
  <1> SUFFICES ASSUME Init PROVE TotalInv
    OBVIOUS
  <1>1. SumFunction(index) = 0
    BY SumOfNothing DEF Init
  <1> QED BY <1>1 DEF Init, TotalInv, Settled

(* A step of a task that does not hold the lock, and does not take it.      *)
LEMMA TotalFrame ==
  ASSUME TypeOK, TotalInv, UNCHANGED indexVars, NEW t \in Task, Others(t), indexLock # t
  PROVE  TotalInv'
  <1>1. indexLock # NoTask => call'[indexLock] = call[indexLock]
    BY DEF TypeOK, Others
  <1>2. Settled' = Settled
    <2>1. CASE indexLock = NoTask
      BY <2>1 DEF Settled, indexVars
    <2>2. CASE indexLock # NoTask
      BY <1>1, <2>2 DEF Settled, indexVars
    <2> QED BY <2>1, <2>2
  <1> QED BY <1>1, <1>2 DEF TotalInv, indexVars

LEMMA TotalIngest ==
  ASSUME StepInv, TotalInv, IngestStep \/ \E h \in Hash : Put(h)
  PROVE  TotalInv'
  <1> USE DEF StepInv
  <1> DEFINE c == call[Ingest]
             S == SumFunction(index)
  <1>0. /\ Ingest \in Task /\ CallTypeOK /\ total \in Nat /\ Ingest # NoTask
        /\ SumFunction(index) \in Nat /\ c.n \in Nat
    BY IndexType, StoreAssumption DEF Task, TypeOK, CallTypeOK
  <1>1. CASE Insert
    <2>1. /\ c.at = "insert" /\ c.h \in Hash /\ Size[c.h] \in Nat
          /\ call'[Ingest].h = c.h /\ call'[Ingest].n = Lookup(c.h)
      BY <1>0, <1>1, IngestMoves, Labels, BusyType, StoreAssumption
    <2>2. /\ indexLock = NoTask /\ indexLock' = Ingest /\ total' = total
          /\ index' = [k \in DOMAIN index \cup {c.h} |-> IF k = c.h THEN Size[c.h] ELSE index[k]]
      BY <1>1 DEF Insert
    <2>3. Settled = total /\ Settled' = total - Lookup(c.h) + Size[c.h]
      BY <1>0, <2>1, <2>2 DEF Settled
    <2>4. /\ Lookup(c.h) <= SumFunction(index) /\ Lookup(c.h) \in Nat
          /\ SumFunction(index') = SumFunction(index) - Lookup(c.h) + Size[c.h]
      <3>1. Lookup(c.h) \in Nat
        BY IndexType DEF Lookup
      <3> HIDE DEF c
      <3> QED BY <2>1, <2>2, <3>1, IndexType, SumSet DEF Lookup
    <2>5. Settled >= S /\ ("cancel" \notin Faults => Settled = S)
      BY DEF TotalInv
    <2> HIDE DEF c, S
    <2>6. /\ Lookup(c.h) <= total
          /\ Settled' >= SumFunction(index')
          /\ "cancel" \notin Faults => Settled' = SumFunction(index')
      BY <1>0, <2>1, <2>3, <2>4, <2>5 DEF S
    <2> QED BY <1>0, <2>1, <2>2, <2>6 DEF TotalInv
  <1>2. CASE AddTotal
    <2>1. /\ c.at = "addTotal" /\ c.h \in Hash /\ Size[c.h] \in Nat /\ indexLock = Ingest
      BY <1>0, <1>2, IngestMoves, Labels, BusyType, StoreAssumption DEF LockInv
    <2>2. c.n <= total /\ Settled = total - c.n + Size[c.h]
      BY <1>0, <2>1 DEF TotalInv, Settled
    <2>3. /\ total' = total - c.n + Size[c.h] /\ indexLock' = NoTask /\ index' = index
      BY <1>0, <1>2, <2>1, <2>2 DEF AddTotal, SaturatingSub
    <2>4. Settled' = Settled
      BY <1>0, <2>2, <2>3 DEF Settled
    <2> QED BY <2>3, <2>4 DEF TotalInv
  <1>3. CASE ~Insert /\ ~AddTotal
    <2>1. Others(Ingest) /\ UNCHANGED indexVars
      BY <1>3, IngestMoves DEF IngestStep, Put, ReadTotal, CheckBudget, WriteTmp, Rename, PutIoError
    <2>2. c.at # "addTotal"
      BY <1>3, IngestMoves DEF IngestStep, Idle
    <2>3. indexLock # Ingest
      BY <2>2 DEF LockInv
    <2> QED BY <1>0, <2>1, <2>3, TotalFrame
  <1> QED BY <1>1, <1>2, <1>3

LEMMA TotalAdmin ==
  ASSUME StepInv, TotalInv, NEW a \in Admin,
         AdminStep(a) \/ Cancel(a) \/ \E h \in Hash : Deny(a, h) \/ Allow(a, h)
  PROVE  TotalInv'
  <1> USE DEF StepInv
  <1> DEFINE c == call[a]
             S == SumFunction(index)
  <1>0. /\ a \in Task /\ total \in Nat /\ a # NoTask /\ a # Ingest
        /\ SumFunction(index) \in Nat /\ c.n \in Nat
    BY IndexType, StoreAssumption DEF Task, TypeOK, CallTypeOK
  <1>1. CASE Unindex(a) /\ c.h \in DOMAIN index
    <2>1. call'[a].n = index[c.h] /\ index[c.h] \in Nat
      BY <1>1, AdminMoves, IndexType
    <2>2. /\ indexLock = NoTask /\ indexLock' = a /\ total' = total
          /\ index' = Restrict(index, DOMAIN index \ {c.h})
      BY <1>1 DEF Unindex
    <2>3. Settled = total /\ Settled' = total - index[c.h]
      BY <1>0, <2>1, <2>2 DEF Settled
    <2>4. SumFunction(index') \in Nat /\ S = index[c.h] + SumFunction(index')
      <3> HIDE DEF c
      <3> QED BY <1>1, <2>2, IndexType, SumDelete
    <2>5. Settled >= S /\ ("cancel" \notin Faults => Settled = S)
      BY DEF TotalInv
    <2> HIDE DEF c, S
    <2>6. /\ index[c.h] <= total
          /\ Settled' >= SumFunction(index')
          /\ "cancel" \notin Faults => Settled' = SumFunction(index')
      BY <1>0, <2>1, <2>3, <2>4, <2>5
    <2> QED BY <1>0, <2>1, <2>2, <2>6 DEF TotalInv
  <1>2. CASE SubTotal(a) \/ (Cancel(a) /\ c.at = "subTotal")
    <2>1. indexLock = a /\ indexLock' = NoTask /\ index' = index
      BY <1>2, AdminMoves DEF LockInv, SubTotal, Cancel
    <2>2. c.n <= total /\ Settled = total - c.n
      BY <1>0, <2>1 DEF TotalInv, Settled
    <2>3. total' = total - c.n \/ ("cancel" \in Faults /\ total' = total)
      BY <1>0, <1>2, <2>2 DEF SubTotal, Cancel, SaturatingSub
    <2>4. Settled' = total'
      BY <2>1 DEF Settled
    <2>5. Settled >= S /\ ("cancel" \notin Faults => Settled = S)
      BY DEF TotalInv
    <2> HIDE DEF c, S
    <2>6. Settled' >= S /\ ("cancel" \notin Faults => Settled' = S)
      BY <1>0, <2>2, <2>3, <2>4, <2>5 DEF S
    <2> QED BY <2>1, <2>6 DEF TotalInv, S
  <1>3. CASE ~(Unindex(a) /\ c.h \in DOMAIN index) /\ ~(SubTotal(a) \/ (Cancel(a) /\ c.at = "subTotal"))
    <2>1. c.at # "subTotal"
      BY <1>3, AdminMoves DEF AdminStep, Idle, Rewriting, Stray
    <2>2. indexLock # a
      BY <2>1 DEF LockInv
    <2>3. UNCHANGED indexVars
      BY <1>3, <2>2 DEF AdminStep, RewriteTmp, RewriteRename, RollBack, RemoveFile, Unindex,
         StrayFinishes, Cancel, Deny, Allow, indexVars
    <2>4. Others(a)
      BY AdminMoves
    <2> QED BY <1>0, <2>2, <2>3, <2>4, TotalFrame
  <1> QED BY <1>1, <1>2, <1>3

LEMMA TotalNext == StepInv /\ TotalInv /\ [Next]_vars => TotalInv'
  <1> SUFFICES ASSUME StepInv, TotalInv, [Next]_vars PROVE TotalInv'
    OBVIOUS
  <1>1. CASE UNCHANGED vars \/ \E h \in Hash : Corrupt(h)
    <2>1. UNCHANGED <<index, indexLock, total, call>>
      BY <1>1 DEF vars, indexVars, Corrupt
    <2> QED BY <2>1 DEF TotalInv, Settled
  <1>2. CASE Restart
    <2>1. indexLock' = NoTask /\ total' = SumFunction(index')
      BY <1>2 DEF Restart
    <2>2. SumFunction(index') \in Nat
      BY <1>2, RestartedIndex, SumIsNat DEF StepInv
    <2> QED BY <2>1, <2>2 DEF TotalInv, Settled
  <1> QED BY <1>1, <1>2, TotalIngest, TotalAdmin DEF Next

(* Whoever comes to the index lock finds the total no smaller than what is  *)
(* held, whatever fails or is cut off (src/store.rs:22, 153-155, 166-169).  *)
THEOREM TotalNeverShort == Spec => []TotalCovers
  <1>1. TotalInv => TotalCovers
    BY DEF TotalInv, TotalCovers, Settled
  <1> QED BY StepInit, StepNext, TotalInit, TotalNext, <1>1, PTL DEF Spec

(* ... and, unless a handler was dropped half way, exactly that.            *)
THEOREM TotalIsTheSum == NoCancel /\ Spec => []TotalIsSum
  <1>1. NoCancel /\ TotalInv => TotalIsSum
    BY DEF NoCancel, TotalInv, TotalIsSum, Settled
  <1>2. NoCancel => NoCancel'
    BY DEF NoCancel
  <1> QED BY StepInit, StepNext, TotalInit, TotalNext, <1>1, <1>2, PTL DEF Spec

-----------------------------------------------------------------------------
(* The budget.  Nothing but ingest makes the total grow, so what a put has  *)
(* read of it stays an upper bound until the put charges it; and the copy   *)
(* that exempts a put from the check has the length of the new one, and can *)
(* only be taken away by a purge that races with the put.                   *)

LenInv == \A h \in DOMAIN index : index[h] \in {0, Size[h]}

BudgetInv ==
  LET h  == call[Ingest].h
      n  == call[Ingest].n
      at == call[Ingest].at
  IN  MaxBytes > 0 /\ h \notin raced =>
        /\ at = "checkBudget" => total <= n
        /\ at \in {"writeTmp", "rename", "insert"} => Lookup(h) = Size[h] \/ total + Size[h] <= MaxBytes
        /\ at = "addTotal" => n = Size[h] \/ total + Size[h] <= MaxBytes

LEMMA LenNext == StepInv /\ LenInv /\ [Next]_vars => LenInv'
  <1> SUFFICES ASSUME StepInv, LenInv, [Next]_vars PROVE LenInv'
    OBVIOUS
  <1>1. CASE Restart
    BY <1>1, RestartedIndex DEF StepInv, LenInv, FileLen
  <1>2. CASE Insert \/ \E a \in Admin : Unindex(a) /\ call[a].h \in DOMAIN index
    BY <1>2 DEF Insert, Unindex, Restrict, LenInv
  <1> QED BY <1>1, <1>2, IndexSteps DEF LenInv

LEMMA TotalShrinks ==
  ASSUME StepInv, [Next]_vars, ~AddTotal, ~Restart
  PROVE  total' <= total
  <1>1. total' = total \/ \E a \in Admin : SubTotal(a)
    BY DEF Next, IngestStep, AdminStep, ReadTotal, CheckBudget, WriteTmp, Rename, PutIoError, Insert,
       Put, Corrupt, Deny, Allow, Cancel, RewriteTmp, RewriteRename, RollBack, RemoveFile, Unindex,
       StrayFinishes, vars, indexVars
  <1>2. \A a \in Admin : SubTotal(a) => total' <= total
    BY IndexType DEF SubTotal, SaturatingSub, StepInv, TypeOK, Task
  <1>3. total \in Nat
    BY DEF StepInv, TypeOK
  <1> QED BY <1>1, <1>2, <1>3

LEMMA BudgetInit == Init => LenInv /\ BudgetInv
  <1> SUFFICES ASSUME Init PROVE LenInv /\ BudgetInv
    OBVIOUS
  <1>1. call[Ingest].at = "idle"
    BY DEF Init, Idle, Task
  <1> QED BY <1>1 DEF Init, LenInv, BudgetInv

LEMMA BudgetIngest ==
  ASSUME StepInv, LenInv, BudgetInv, IngestStep \/ \E h \in Hash : Put(h)
  PROVE  BudgetInv'
  <1> USE DEF StepInv
  <1> DEFINE c == call[Ingest]
             d == call'[Ingest]
  <1>0. /\ Ingest \in Task /\ CallTypeOK /\ total \in Nat /\ MaxBytes \in Nat /\ c.n \in Nat
        /\ c.at \in Label => c.h \in Hash /\ Size[c.h] \in Nat
    BY BusyType, StoreAssumption, IndexType DEF Task, TypeOK, CallTypeOK
  <1>1. CASE \E h \in Hash : Put(h)
    <2>1. PICK h \in Hash : Put(h)
      BY <1>1
    <2>2. MaxBytes > 0 => d.at = "readTotal"
      BY <2>1, IngestMoves
    <2> QED BY <2>2 DEF BudgetInv
  <1>2. CASE ReadTotal
    <2>1. d.at = "checkBudget" /\ d.n = total /\ total' = total
      BY <1>2, IngestMoves DEF ReadTotal, indexVars
    <2> QED BY <1>0, <2>1 DEF BudgetInv
  <1>3. CASE PutIoError \/ AddTotal
    <2>1. d.at = "idle"
      BY <1>3, IngestMoves DEF Idle
    <2> QED BY <2>1 DEF BudgetInv
  <1>4. CASE CheckBudget
    <2>1. /\ c.at = "checkBudget" /\ UNCHANGED <<raced, total, index>>
          /\ d = Idle \/ (~OverBudget /\ d.at = "writeTmp" /\ d.h = c.h)
      BY <1>4, IngestMoves DEF CheckBudget, history, indexVars
    <2>2. c.h \in Hash /\ Size[c.h] \in Nat
      BY <1>0, <2>1, Labels
    <2>3. CASE d = Idle
      BY <2>3 DEF Idle, BudgetInv
    <2>4. CASE ~OverBudget /\ d.at = "writeTmp" /\ d.h = c.h
      <3>1. Lookup(c.h)' = Lookup(c.h)
        BY <2>1, <2>4 DEF Lookup
      <3>2. Lookup(c.h) # 0 => Lookup(c.h) = Size[c.h]
        BY DEF Lookup, LenInv
      <3>3. SUFFICES ASSUME MaxBytes > 0, c.h \notin raced
                     PROVE  Lookup(c.h) = Size[c.h] \/ total + Size[c.h] <= MaxBytes
        BY <2>1, <2>4, <3>1 DEF BudgetInv
      <3>4. total <= c.n
        BY <2>1, <3>3 DEF BudgetInv
      <3>5. Lookup(c.h) # 0 \/ c.n + Size[c.h] <= MaxBytes
        BY <1>0, <2>2, <2>4 DEF OverBudget
      <3> HIDE DEF c, d
      <3> QED BY <1>0, <2>2, <3>2, <3>4, <3>5
    <2> QED BY <2>1, <2>3, <2>4
  <1>5. CASE WriteTmp \/ Rename
    <2>1. /\ c.at \in {"writeTmp", "rename"} /\ d.at \in {"rename", "insert"} /\ d.h = c.h
          /\ UNCHANGED <<raced, total, index>>
      BY <1>5, IngestMoves DEF WriteTmp, Rename, history, indexVars
    <2>2. Lookup(c.h)' = Lookup(c.h)
      BY <2>1 DEF Lookup
    <2> QED BY <2>1, <2>2 DEF BudgetInv
  <1>6. CASE Insert
    <2>1. /\ c.at = "insert" /\ d.at = "addTotal" /\ d.h = c.h /\ d.n = Lookup(c.h)
          /\ UNCHANGED <<raced, total>>
      BY <1>6, IngestMoves DEF Insert, history
    <2> QED BY <2>1 DEF BudgetInv
  <1> QED BY <1>1, <1>2, <1>3, <1>4, <1>5, <1>6 DEF IngestStep

LEMMA BudgetNext == StepInv /\ LenInv /\ BudgetInv /\ [Next]_vars => BudgetInv'
  <1> SUFFICES ASSUME StepInv, LenInv, BudgetInv, [Next]_vars PROVE BudgetInv'
    OBVIOUS
  <1>1. CASE IngestStep \/ \E h \in Hash : Put(h)
    BY <1>1, BudgetIngest
  <1>2. CASE Restart
    <2>1. call'[Ingest].at = "idle"
      BY <1>2 DEF Restart, Idle, Task
    <2> QED BY <2>1 DEF BudgetInv
  <1>3. CASE ~IngestStep /\ ~(\E h \in Hash : Put(h)) /\ ~Restart
    <2>1. call'[Ingest] = call[Ingest]
      <3>1. ASSUME NEW a \in Admin,
                   AdminStep(a) \/ Cancel(a) \/ \E h \in Hash : Deny(a, h) \/ Allow(a, h)
            PROVE  call'[Ingest] = call[Ingest]
        BY <3>1, AdminMoves, StoreAssumption DEF StepInv, Others, Task
      <3> QED BY <1>3, <3>1 DEF Next, Corrupt, vars
    <2>2. raced \subseteq raced'
      BY <1>3 DEF Next, AdminStep, Corrupt, Deny, Allow, Cancel, RewriteTmp, RewriteRename, RollBack,
         RemoveFile, Unindex, SubTotal, StrayFinishes, vars, history
    <2>3. total' <= total /\ total \in Nat /\ total' \in Nat
      <3>1. TypeOK /\ TypeOK'
        BY StepNext DEF StepInv
      <3> QED BY <1>3, <3>1, TotalShrinks DEF IngestStep, TypeOK
    <2> DEFINE c == call[Ingest]
    <2>4. c.at \in {"writeTmp", "rename", "insert"} /\ c.h \notin raced => Lookup(c.h)' = Lookup(c.h)
      <3> SUFFICES ASSUME c.at \in {"writeTmp", "rename", "insert"}, c.h \notin raced
                   PROVE  Lookup(c.h)' = Lookup(c.h)
        OBVIOUS
      <3>1. c.h \in Hash /\ PutInFlight(c.h)
        BY BusyType, Labels DEF StepInv, TypeOK, CallTypeOK, Task, PutInFlight
      <3>2. ASSUME NEW a \in Admin, Unindex(a), call[a].h \in DOMAIN index
            PROVE  Lookup(c.h)' = Lookup(c.h)
        <4>1. call[a].h # c.h
          BY <3>1, <3>2 DEF Unindex, PurgePending, Purging, StepInv, RaceInv
        <4>2. index' = Restrict(index, DOMAIN index \ {call[a].h})
          BY <3>2 DEF Unindex
        <4>3. c.h \in DOMAIN index' <=> c.h \in DOMAIN index
          BY <4>1, <4>2 DEF Restrict
        <4>4. c.h \in DOMAIN index => index'[c.h] = index[c.h]
          BY <4>1, <4>2 DEF Restrict
        <4> QED BY <2>1, <4>3, <4>4 DEF Lookup
      <3>3. CASE UNCHANGED index
        BY <2>1, <3>3 DEF Lookup
      <3> QED BY <1>3, <3>2, <3>3, IndexSteps DEF IngestStep
    <2>5. c.at \in {"writeTmp", "rename", "insert", "addTotal"} => Size[c.h] \in Nat
      BY BusyType, Labels, StoreAssumption DEF StepInv, TypeOK, CallTypeOK, Task
    <2>6. c.n \in Nat /\ MaxBytes \in Nat
      BY IndexType, StoreAssumption DEF StepInv, Task
    <2> SUFFICES ASSUME MaxBytes > 0, c.h \notin raced'
                 PROVE  /\ c.at = "checkBudget" => total' <= c.n
                        /\ c.at \in {"writeTmp", "rename", "insert"} =>
                             Lookup(c.h)' = Size[c.h] \/ total' + Size[c.h] <= MaxBytes
                        /\ c.at = "addTotal" => c.n = Size[c.h] \/ total' + Size[c.h] <= MaxBytes
      BY <2>1 DEF BudgetInv
    <2>7. /\ c.at = "checkBudget" => total <= c.n
          /\ c.at \in {"writeTmp", "rename", "insert"} =>
               Lookup(c.h) = Size[c.h] \/ total + Size[c.h] <= MaxBytes
          /\ c.at = "addTotal" => c.n = Size[c.h] \/ total + Size[c.h] <= MaxBytes
      BY <2>2 DEF BudgetInv
    <2>8. c.h \notin raced
      BY <2>2
    <2> HIDE DEF c
    <2> QED BY <2>3, <2>4, <2>5, <2>6, <2>7, <2>8
  <1> QED BY <1>1, <1>2, <1>3

(* No put pushes the store past its budget, though the budget is read,      *)
(* checked and charged in separate steps, unless a purge of the same hash   *)
(* overlapped it (src/store.rs:134-155).                                    *)
THEOREM BudgetIsKept == Spec => GrowsWithinBudget
  <1> DEFINE BInv == StepInv /\ TotalInv /\ LenInv /\ BudgetInv
             Within == total' > total /\ ~Restart /\ MaxBytes > 0
                         => total' <= MaxBytes \/ call[Ingest].h \in raced
  <1>1. Init => BInv
    BY StepInit, TotalInit, BudgetInit
  <1>2. BInv /\ [Next]_vars => BInv'
    BY StepNext, TotalNext, LenNext, BudgetNext
  <1>3. BInv /\ [Next]_vars => [Within]_vars
    <2> SUFFICES ASSUME BInv, [Next]_vars, total' > total, ~Restart, MaxBytes > 0,
                        call[Ingest].h \notin raced
                 PROVE  total' <= MaxBytes
      OBVIOUS
    <2> DEFINE c == call[Ingest]
    <2>1. /\ total \in Nat /\ c.n \in Nat /\ MaxBytes \in Nat /\ Ingest \in Task
          /\ Ingest # NoTask /\ CallTypeOK
      BY IndexType, StoreAssumption DEF StepInv, TypeOK, CallTypeOK, Task
    <2>2. AddTotal
      <3>1. total' <= total \/ AddTotal
        BY TotalShrinks
      <3>2. total' \in Nat
        BY StepNext DEF StepInv, TypeOK
      <3> QED BY <2>1, <3>1, <3>2
    <2>3. c.at = "addTotal" /\ total' = SaturatingSub(total, c.n) + Size[c.h]
      BY <2>2 DEF AddTotal
    <2>4. c.n <= total /\ Size[c.h] \in Nat
      <3>1. indexLock = Ingest
        BY <2>3 DEF StepInv, LockInv
      <3>2. c.h \in Hash
        BY <2>1, <2>3, BusyType, Labels
      <3> QED BY <2>1, <3>1, <3>2, StoreAssumption DEF TotalInv
    <2>5. c.n = Size[c.h] \/ total + Size[c.h] <= MaxBytes
      BY <2>3 DEF BudgetInv
    <2> HIDE DEF c
    <2> QED BY <2>1, <2>3, <2>4, <2>5 DEF SaturatingSub
  <1> QED BY <1>1, <1>2, <1>3, PTL DEF Spec, GrowsWithinBudget

-----------------------------------------------------------------------------
(* What was taken down.  These invariants hold whatever the environment     *)
(* does: an allow under way has withdrawn the takedowns it overtakes, and   *)
(* an acknowledged takedown leaves no index entry.                          *)

ClaimInv ==
  /\ \A a \in claim : call[a].at \in Purging \/ (call[a].at \in Rewriting /\ Denying(a))
  /\ \A a \in Admin : call[a].at \in Rewriting /\ ~Denying(a) =>
       call[a].h \notin acked /\ \A b \in claim : call[b].h # call[a].h

GoneInv ==
  /\ \A a \in Admin : call[a].at = "subTotal" => call[a].h \notin DOMAIN index
  /\ TakedownUnserved

(* How the history and the denylist in memory grow.                         *)
LEMMA ListSteps ==
  ASSUME [Next]_vars, ~Restart
  PROVE  /\ raced \subseteq raced'
         /\ \A h \in acked' \ acked :
              \E a \in Admin : a \in claim /\ call[a].h = h /\ (Unindex(a) \/ SubTotal(a))
         /\ \A h \in denied' \ denied :
              \E a \in Admin : \/ \E k \in Hash : k = h /\ Deny(a, k)
                               \/ RollBack(a) /\ ~Denying(a) /\ call[a].h = h
  <1>1. CASE UNCHANGED vars \/ IngestStep \/ \E k \in Hash : Put(k) \/ Corrupt(k)
    BY <1>1 DEF vars, Corrupt, IngestStep, Put, ReadTotal, CheckBudget, WriteTmp, Rename, PutIoError,
       Insert, AddTotal, listVars, history
  <1>2. ASSUME NEW a \in Admin, NEW k \in Hash, Deny(a, k) \/ Allow(a, k)
        PROVE  /\ raced \subseteq raced' /\ acked' \subseteq acked
               /\ \A h \in denied' \ denied : h = k /\ Deny(a, k)
    BY <1>2 DEF Deny, Allow
  <1>3. ASSUME NEW a \in Admin, AdminStep(a) \/ Cancel(a)
        PROVE  /\ raced' = raced
               /\ \A h \in acked' \ acked : a \in claim /\ call[a].h = h /\ (Unindex(a) \/ SubTotal(a))
               /\ \A h \in denied' \ denied : RollBack(a) /\ ~Denying(a) /\ call[a].h = h
    BY <1>3 DEF AdminStep, Cancel, RewriteTmp, RewriteRename, RollBack, RemoveFile, Unindex, SubTotal,
       StrayFinishes, Acknowledge, listVars, history
  <1> QED BY <1>1, <1>2, <1>3 DEF Next

LEMMA ClaimAdmin ==
  ASSUME StepInv, ClaimInv, NEW a \in Admin, AdminStep(a) \/ Cancel(a)
  PROVE  ClaimInv'
  <1> USE DEF StepInv
  <1> DEFINE c == call[a]
             d == call'[a]
  <1>1. Others(a) /\ \A b \in Admin : b # a => call'[b] = call[b] /\ Denying(b)' = Denying(b)
    BY AdminMoves DEF Others, Task, Denying
  <1>2. claim' \subseteq claim /\ \A h \in acked' \ acked : a \in claim /\ c.h = h
    BY DEF AdminStep, Cancel, RewriteTmp, RewriteRename, RollBack, RemoveFile, Unindex, SubTotal,
       StrayFinishes, Acknowledge, history
  <1>3. d.at \in Rewriting => /\ c.at \in Rewriting /\ d.h = c.h /\ Denying(a)' = Denying(a)
                              /\ UNCHANGED <<acked, claim>>
    BY AdminMoves DEF AdminStep, Rewriting, Idle, RewriteTmp, history, Denying
  <1>4. a \in claim' => d.at \in Purging \/ (d.at \in Rewriting /\ Denying(a)')
    <2>1. CASE RewriteTmp(a)
      BY <2>1, AdminMoves DEF RewriteTmp, history, ClaimInv, Rewriting, Purging, Denying
    <2>2. CASE RewriteRename(a)
      <3>1. a \in claim => Denying(a)
        BY <2>2 DEF RewriteRename, ClaimInv, Purging
      <3> QED BY <1>2, <2>2, <3>1, AdminMoves DEF Purging
    <2>3. CASE RemoveFile(a) \/ Unindex(a) \/ SubTotal(a)
      BY <2>3, AdminMoves DEF Unindex, SubTotal, Acknowledge, Purging
    <2>4. CASE RollBack(a) \/ Cancel(a) \/ StrayFinishes(a)
      <3>1. a \notin claim'
        BY <1>2, <2>4, AdminMoves DEF RollBack, Cancel, ClaimInv, Rewriting, Purging, Stray
      <3> QED BY <3>1
    <2> QED BY <2>1, <2>2, <2>3, <2>4 DEF AdminStep
  <1>5. ASSUME NEW b \in Admin, call'[b].at \in Rewriting, ~Denying(b)'
        PROVE  call'[b].h \notin acked' /\ \A x \in claim' : call'[x].h # call'[b].h
    <2>1. /\ call[b].at \in Rewriting /\ call'[b].h = call[b].h /\ ~Denying(b) /\ call[b].h \in Hash
      <3>1. call[b].at \in Rewriting /\ call'[b].h = call[b].h /\ ~Denying(b)
        BY <1>1, <1>3, <1>5
      <3> QED BY <3>1, BusyType, Labels DEF Rewriting, TypeOK, CallTypeOK, Task
    <2>2. call[b].h \notin acked /\ \A x \in claim : call[x].h # call[b].h
      BY <2>1 DEF ClaimInv
    <2>3. d.h \in {c.h, NoHash}
      <3>1. AdminStep(a) \/ Cancel(a) => d.h = c.h \/ d = Idle
        BY AdminMoves DEF AdminStep
      <3> QED BY <3>1 DEF Idle
    <2>4. \A x \in claim : x \in Admin
      BY DEF TypeOK
    <2> QED BY <1>1, <1>2, <2>1, <2>2, <2>3, <2>4, StoreAssumption
  <1> QED BY <1>1, <1>2, <1>4, <1>5 DEF ClaimInv, TypeOK

LEMMA ClaimNext == StepInv /\ ClaimInv /\ [Next]_vars => ClaimInv'
  <1> SUFFICES ASSUME StepInv, ClaimInv, [Next]_vars PROVE ClaimInv'
    OBVIOUS
  <1> USE DEF StepInv
  <1>1. CASE UNCHANGED vars \/ IngestStep \/ \E h \in Hash : Put(h) \/ Corrupt(h)
    <2>1. UNCHANGED <<acked, claim>> /\ \A a \in Admin : call'[a] = call[a]
      <3>1. IngestStep \/ (\E h \in Hash : Put(h)) => \A a \in Admin : call'[a] = call[a]
        BY IngestMoves, StoreAssumption DEF Others, Task
      <3> QED BY <1>1, <3>1
          DEF vars, Corrupt, IngestStep, Put, ReadTotal, CheckBudget, WriteTmp, Rename, PutIoError,
              Insert, AddTotal, history
    <2>2. claim \subseteq Admin
      BY DEF TypeOK
    <2> QED BY <2>1, <2>2 DEF ClaimInv, Denying
  <1>2. CASE Restart
    <2>1. claim' = {} /\ \A a \in Admin : call'[a].at = "idle"
      BY <1>2 DEF Restart, Idle, Task
    <2> QED BY <2>1 DEF ClaimInv, Rewriting
  <1>3. ASSUME NEW a \in Admin, NEW h \in Hash, Deny(a, h) PROVE ClaimInv'
    <2>1. \A b \in Admin : call[b].at \notin Rewriting
      BY <1>3, StoreAssumption DEF Deny, LockInv
    <2>2. /\ claim' = claim \cup {a} /\ \A b \in Admin : b # a => call'[b] = call[b]
          /\ \/ call'[a].at = "removeFile"
             \/ call'[a].at = "rewriteTmp" /\ Denying(a)'
      <3>1. Others(a) /\ claim' = claim \cup {a} /\ (h \notin denied => h \in denied')
        BY <1>3, AdminMoves DEF Deny
      <3>2. \/ call'[a].at = "removeFile"
            \/ call'[a].at = "rewriteTmp" /\ call'[a].h = h /\ call'[a].body = denied' /\ h \notin denied
        BY <1>3, AdminMoves
      <3> QED BY <3>1, <3>2 DEF Others, Task, Denying
    <2> QED BY <2>1, <2>2 DEF ClaimInv, Rewriting, Purging, TypeOK, Denying
  <1>4. ASSUME NEW a \in Admin, NEW h \in Hash, Allow(a, h) PROVE ClaimInv'
    <2>1. \A b \in Admin : call[b].at \notin Rewriting
      BY <1>4, StoreAssumption DEF Allow, LockInv
    <2>2. a \notin claim
      <3>1. call[a].at = "idle"
        BY <1>4 DEF Allow, Idle
      <3> QED BY <3>1 DEF ClaimInv, Rewriting, Purging
    <2>3. /\ \A b \in Admin : b # a => call'[b] = call[b] /\ Denying(b)' = Denying(b)
          /\ call'[a].at = "rewriteTmp" /\ call'[a].h = h
      BY <1>4, AdminMoves DEF Others, Task, Denying
    <2>4. h \notin acked' /\ claim' \subseteq claim /\ \A b \in claim' : call[b].h # h
      BY <1>4 DEF Allow, TypeOK
    <2> QED BY <2>1, <2>2, <2>3, <2>4 DEF ClaimInv, TypeOK
  <1> QED BY <1>1, <1>2, <1>3, <1>4, ClaimAdmin DEF Next

(* Only ingest adds a file or an index entry, ...                           *)
LEMMA NewEntry ==
  ASSUME [Next]_vars, ~Restart, NEW h, h \notin DOMAIN index, h \in DOMAIN index'
  PROVE  Insert /\ call[Ingest].h = h
  <1>1. \A a \in Admin : Unindex(a) /\ call[a].h \in DOMAIN index => h \notin DOMAIN index'
    BY DEF Unindex, Restrict
  <1>2. Insert => DOMAIN index' = DOMAIN index \cup {call[Ingest].h}
    BY DEF Insert
  <1> QED BY <1>1, <1>2, IndexSteps

LEMMA NewFile ==
  ASSUME TypeOK, [Next]_vars, ~Restart, NEW h \in Hash, blob[h] = "none", blob'[h] # "none"
  PROVE  Rename /\ call[Ingest].h = h
  <1>1. \A a \in Admin : blob' = [blob EXCEPT ![call[a].h] = "none"] => blob'[h] = "none"
    BY DEF TypeOK
  <1>2. (\E k \in Hash : Corrupt(k)) => blob'[h] = "none"
    BY DEF Corrupt, TypeOK
  <1>3. Rename => blob' = [blob EXCEPT ![call[Ingest].h] = "whole"]
    BY DEF Rename
  <1>4. Rename
    BY <1>1, <1>2, BlobSteps
  <1> QED BY <1>3, <1>4 DEF TypeOK

(* ... an admin call moves by its own steps, ...                            *)
LEMMA CallSteps ==
  ASSUME TypeOK, [Next]_vars, ~Restart, NEW a \in Admin
  PROVE  \/ call'[a] = call[a]
         \/ AdminStep(a) \/ Cancel(a)
         \/ \E h \in Hash : Deny(a, h) \/ Allow(a, h)
  <1>1. ASSUME NEW b \in Admin \ {a},
               AdminStep(b) \/ Cancel(b) \/ \E h \in Hash : Deny(b, h) \/ Allow(b, h)
        PROVE  call'[a] = call[a]
    BY <1>1, AdminMoves DEF Others, Task
  <1>2. IngestStep \/ (\E h \in Hash : Put(h)) => call'[a] = call[a]
    BY IngestMoves, StoreAssumption DEF Others, Task
  <1> QED BY <1>1, <1>2 DEF Next, vars, Corrupt

(* ... and a takedown that stands either stood before, and no put of its    *)
(* hash is under way, or is acknowledged now.                               *)
LEMMA GoneSteps ==
  ASSUME StepInv, ClaimInv, [Next]_vars, ~Restart, NEW h \in (acked' \cap denied') \ raced'
  PROVE  /\ h \in Hash \ raced
         /\ \/ h \in acked \cap denied /\ call[Ingest].h # h
            \/ \E a \in Admin : call[a].h = h /\ (Unindex(a) \/ SubTotal(a))
  <1> USE DEF StepInv
  <1>1. h \in Hash /\ h \notin raced
    <2>1. TypeOK' /\ raced \subseteq raced'
      BY ListSteps, TypeNext
    <2> QED BY <2>1 DEF TypeOK
  <1>2. h \in denied => call[Ingest].h # h
    BY <1>1 DEF RaceInv, PutInFlight
  <1>3. CASE h \in acked /\ h \notin denied
    <2>1. PICK a \in Admin : \/ \E k \in Hash : k = h /\ Deny(a, k)
                             \/ RollBack(a) /\ ~Denying(a) /\ call[a].h = h
      BY <1>3, ListSteps
    <2>2. ~Deny(a, h)
      BY <1>3 DEF Deny
    <2>3. ~(RollBack(a) /\ ~Denying(a) /\ call[a].h = h)
      BY <1>3 DEF RollBack, ClaimInv
    <2> QED BY <2>1, <2>2, <2>3
  <1>4. CASE h \notin acked
    BY <1>1, <1>4, ListSteps
  <1> QED BY <1>1, <1>2, <1>3, <1>4

LEMMA GoneNext == StepInv /\ ClaimInv /\ GoneInv /\ [Next]_vars => GoneInv'
  <1> SUFFICES ASSUME StepInv, ClaimInv, GoneInv, [Next]_vars PROVE GoneInv'
    OBVIOUS
  <1> USE DEF StepInv
  <1>1. CASE Restart
    <2>1. \A a \in Admin : call'[a].at = "idle"
      BY <1>1 DEF Restart, Idle, Task
    <2> QED BY <1>1, <2>1, RestartedIndex DEF GoneInv, TakedownUnserved
  <1>2. CASE ~Restart
    <2>1. ASSUME NEW a \in Admin, call'[a].at = "subTotal" PROVE call'[a].h \notin DOMAIN index'
      <3>1. call'[a] = call[a] \/ Unindex(a)
        BY <1>2, <2>1, CallSteps, AdminMoves DEF AdminStep, Idle
      <3>2. CASE Unindex(a)
        <4>1. call'[a].h = call[a].h /\ call[a].h \in DOMAIN index
          BY <2>1, <3>2, AdminMoves DEF Idle
        <4> QED BY <3>2, <4>1 DEF Unindex, Restrict
      <3>3. CASE call'[a] = call[a]
        <4>1. indexLock = a
          BY <2>1, <3>3 DEF LockInv
        <4>2. UNCHANGED index
          BY <1>2, <4>1, IndexSteps, StoreAssumption DEF Insert, Unindex
        <4> QED BY <2>1, <3>3, <4>2 DEF GoneInv
      <3> QED BY <3>1, <3>2, <3>3
    <2>2. ASSUME NEW h \in (acked' \cap denied') \ raced' PROVE h \notin DOMAIN index'
      <3>1. CASE h \in acked \cap denied /\ call[Ingest].h # h
        <4>1. h \notin DOMAIN index
          BY <1>2, <2>2, <3>1, GoneSteps DEF GoneInv, TakedownUnserved
        <4> QED BY <1>2, <3>1, <4>1, NewEntry
      <3>2. ASSUME NEW a \in Admin, call[a].h = h, Unindex(a) PROVE h \notin DOMAIN index'
        BY <3>2 DEF Unindex, Restrict
      <3>3. ASSUME NEW a \in Admin, call[a].h = h, SubTotal(a) PROVE h \notin DOMAIN index'
        BY <3>3 DEF SubTotal, GoneInv
      <3> QED BY <1>2, <2>2, <3>1, <3>2, <3>3, GoneSteps
    <2> QED BY <2>1, <2>2 DEF GoneInv, TakedownUnserved
  <1> QED BY <1>1, <1>2

LEMMA GoneInit == Init => ClaimInv /\ GoneInv
  <1> SUFFICES ASSUME Init PROVE ClaimInv /\ GoneInv
    OBVIOUS
  <1>1. \A a \in Admin : call[a].at = "idle"
    BY DEF Init, Idle, Task
  <1> QED BY <1>1 DEF Init, ClaimInv, GoneInv, TakedownUnserved, Rewriting

(* What was taken down is not found by get, whatever fails, is cut off or   *)
(* cannot be read (src/store.rs:113-122).                                   *)
THEOREM TakedownIsUnserved == Spec => []TakedownUnserved
  <1>1. GoneInv => TakedownUnserved
    BY DEF GoneInv
  <1> QED BY StepInit, StepNext, GoneInit, ClaimNext, GoneNext, <1>1, PTL DEF Spec

(* When files can be removed, a purge past its removal has removed the file *)
(* and so has an acknowledged takedown.                                     *)
FileGoneInv ==
  /\ \A a \in Admin : call[a].at \in {"unindex", "subTotal"} /\ call[a].h \notin raced
                     => blob[call[a].h] = "none"
  /\ \A h \in (acked \cap denied) \ raced : blob[h] = "none"

LEMMA FileGoneInit == Init => FileGoneInv
  <1> SUFFICES ASSUME Init PROVE FileGoneInv
    OBVIOUS
  <1>1. \A a \in Admin : call[a].at = "idle"
    BY DEF Init, Idle, Task
  <1> QED BY <1>1 DEF Init, FileGoneInv

LEMMA FileGoneNext == NoUnlink /\ StepInv /\ ClaimInv /\ FileGoneInv /\ [Next]_vars => FileGoneInv'
  <1> SUFFICES ASSUME NoUnlink, StepInv, ClaimInv, FileGoneInv, [Next]_vars PROVE FileGoneInv'
    OBVIOUS
  <1> USE DEF StepInv
  <1>1. CASE Restart
    <2>1. \A a \in Admin : call'[a].at = "idle"
      BY <1>1 DEF Restart, Idle, Task
    <2>2. \A h \in Hash : h \in denied' => blob'[h] = "none"
      BY <1>1 DEF Restart, Unpurged, NoUnlink
    <2>3. denied' \subseteq Hash
      BY TypeNext DEF TypeOK
    <2> QED BY <2>1, <2>2, <2>3 DEF FileGoneInv
  <1>2. CASE ~Restart
    <2>1. ASSUME NEW a \in Admin, call'[a].at \in {"unindex", "subTotal"}, call'[a].h \notin raced'
          PROVE  blob'[call'[a].h] = "none"
      <3>1. call'[a] = call[a] \/ RemoveFile(a) \/ Unindex(a)
        BY <1>2, <2>1, CallSteps, AdminMoves DEF AdminStep, Idle
      <3>2. raced \subseteq raced'
        BY <1>2, ListSteps
      <3>3. CASE RemoveFile(a)
        <4>1. call'[a].h = call[a].h /\ call[a].h \in Hash
          BY <3>3, AdminMoves, BusyType, Labels DEF TypeOK, CallTypeOK, Task
        <4>2. blob' = [blob EXCEPT ![call[a].h] = "none"]
          BY <3>3 DEF RemoveFile, NoUnlink
        <4> QED BY <4>1, <4>2 DEF TypeOK
      <3>4. CASE call'[a] = call[a] \/ Unindex(a)
        <4>1. /\ call[a].at \in {"unindex", "subTotal"} /\ call[a].h = call'[a].h
              /\ call[a].h \in Hash
          <5>1. call[a].at \in {"unindex", "subTotal"} /\ call[a].h = call'[a].h
            BY <2>1, <3>4, AdminMoves DEF Idle
          <5> QED BY <5>1, BusyType, Labels DEF TypeOK, CallTypeOK, Task
        <4>2. call[a].h \notin raced /\ blob[call[a].h] = "none"
          BY <2>1, <3>2, <4>1 DEF FileGoneInv
        <4>3. call[Ingest].h # call[a].h
          BY <4>1, <4>2 DEF RaceInv, PutInFlight, PurgePending, Purging
        <4> QED BY <1>2, <4>1, <4>2, <4>3, NewFile
      <3> QED BY <3>1, <3>3, <3>4
    <2>2. ASSUME NEW h \in (acked' \cap denied') \ raced' PROVE blob'[h] = "none"
      <3>1. h \in Hash \ raced
        BY <1>2, <2>2, GoneSteps
      <3>2. CASE h \in acked \cap denied /\ call[Ingest].h # h
        <4>1. blob[h] = "none"
          BY <3>1, <3>2 DEF FileGoneInv
        <4> QED BY <1>2, <3>1, <3>2, <4>1, NewFile
      <3>3. ASSUME NEW a \in Admin, call[a].h = h, Unindex(a) \/ SubTotal(a) PROVE blob'[h] = "none"
        <4>1. UNCHANGED blob /\ call[a].at \in {"unindex", "subTotal"}
          BY <3>3 DEF Unindex, SubTotal, diskVars
        <4> QED BY <3>1, <3>3, <4>1 DEF FileGoneInv
      <3> QED BY <1>2, <2>2, <3>2, <3>3, GoneSteps
    <2> QED BY <2>1, <2>2 DEF FileGoneInv
  <1> QED BY <1>1, <1>2

(* A takedown the operator was told of leaves no file and no index entry,   *)
(* through every later request, put and restart, even when other admin      *)
(* requests were cut off half way or the denylist could not be read, unless *)
(* a put of the hash overlapped a purge of it (src/store.rs:176-201,        *)
(* src/gateway.rs:99-118).                                                  *)
THEOREM TakedownsHold == NoUnlink /\ Spec => []TakedownHolds
  <1>1. GoneInv /\ FileGoneInv => TakedownHolds
    BY DEF GoneInv, TakedownUnserved, FileGoneInv, TakedownHolds, Held
  <1>2. NoUnlink => NoUnlink'
    BY DEF NoUnlink
  <1> QED BY StepInit, StepNext, GoneInit, ClaimNext, GoneNext, FileGoneInit, FileGoneNext,
             <1>1, <1>2, PTL DEF Spec

-----------------------------------------------------------------------------
(* The index, the files and the denylist.                                   *)

(* A handler that is not dropped leaves no file operation running.          *)
LEMMA StrayNext == NoCancel /\ TypeOK /\ NoStray /\ [Next]_vars => NoStray'
  <1> SUFFICES ASSUME NoCancel, TypeOK, NoStray, [Next]_vars, NEW a \in Admin PROVE call'[a].at \notin Stray
    BY DEF NoStray
  <1>1. CASE Restart
    BY <1>1 DEF Restart, Task, Idle, Stray
  <1>2. CASE ~Restart
    <2>1. ~Cancel(a)
      BY DEF Cancel, NoCancel
    <2>2. CASE AdminStep(a) \/ \E h \in Hash : Deny(a, h) \/ Allow(a, h)
      BY <2>2, AdminMoves DEF AdminStep, Idle, Stray
    <2>3. CASE call'[a] = call[a]
      BY <2>3 DEF NoStray
    <2> QED BY <1>2, <2>1, <2>2, <2>3, CallSteps
  <1> QED BY <1>1, <1>2

LEMMA LostEntry ==
  ASSUME [Next]_vars, ~Restart, NEW h \in DOMAIN index, h \notin DOMAIN index'
  PROVE  \E a \in Admin : Unindex(a) /\ call[a].h = h
  <1>1. ~Insert
    BY DEF Insert
  <1>2. PICK a \in Admin : Unindex(a) /\ call[a].h \in DOMAIN index
    BY <1>1, IndexSteps
  <1> QED BY <1>2 DEF Unindex, Restrict

LEMMA LostFile ==
  ASSUME TypeOK, NoStray, [Next]_vars, ~Restart, NEW h \in Hash, blob[h] # "none", blob'[h] = "none"
  PROVE  \E a \in Admin : RemoveFile(a) /\ call[a].h = h
  <1>1. \A k \in Hash : ~Corrupt(k)
    BY DEF Corrupt, TypeOK
  <1>2. ~Rename
    BY DEF Rename, TypeOK
  <1>3. PICK a \in Admin : /\ RemoveFile(a) \/ (StrayFinishes(a) /\ call[a].at = "strayFile")
                          /\ blob' = [blob EXCEPT ![call[a].h] = "none"]
    BY <1>1, <1>2, BlobSteps
  <1>4. call[a].h = h
    BY <1>3 DEF TypeOK
  <1>5. call[a].at # "strayFile"
    BY DEF NoStray, Stray
  <1> QED BY <1>3, <1>4, <1>5

(* What is indexed is on disk, and so is what is about to be indexed: a     *)
(* purge removes the file first, but its own removal of the entry follows.  *)
FiledInv ==
  \A h \in Hash \ raced :
    InsertDue(h) \/ (h \in DOMAIN index /\ ~UnindexDue(h)) => blob[h] # "none"

(* What is on disk is indexed, or about to be, when files can be removed.   *)
ListedInv ==
  \A h \in Hash \ raced : blob[h] # "none" /\ ~InsertDue(h) => h \in DOMAIN index

LEMMA MirrorInit == Init => NoStray /\ FiledInv /\ ListedInv
  <1> SUFFICES ASSUME Init PROVE NoStray /\ FiledInv /\ ListedInv
    OBVIOUS
  <1>1. \A t \in Task : call[t].at = "idle"
    BY DEF Init, Idle
  <1> QED BY <1>1 DEF Init, NoStray, Stray, FiledInv, ListedInv, InsertDue, Task

LEMMA InsertDueSteps ==
  ASSUME TypeOK, [Next]_vars, ~Restart, NEW h \in Hash
  PROVE  /\ InsertDue(h)' => InsertDue(h) \/ Rename
         /\ InsertDue(h) => InsertDue(h)' \/ h \in DOMAIN index'
  <1>1. CASE IngestStep
    <2>1. InsertDue(h)' => InsertDue(h) \/ Rename
      BY <1>1, IngestMoves DEF InsertDue, IngestStep, Idle
    <2>2. InsertDue(h) => Insert
      BY <1>1, IngestMoves DEF InsertDue, IngestStep
    <2>3. Insert => DOMAIN index' = DOMAIN index \cup {call[Ingest].h}
      BY DEF Insert
    <2> QED BY <2>1, <2>2, <2>3 DEF InsertDue
  <1>2. ASSUME NEW k \in Hash, Put(k) PROVE ~InsertDue(h) /\ ~InsertDue(h)'
    <2>1. call[Ingest] = Idle /\ call'[Ingest].at = IF MaxBytes > 0 THEN "readTotal" ELSE "writeTmp"
      BY <1>2, IngestMoves
    <2>2. call[Ingest].at # "insert"
      BY <2>1 DEF Idle
    <2>3. call'[Ingest].at # "insert"
      BY <2>1
    <2> QED BY <2>2, <2>3 DEF InsertDue
  <1>3. ASSUME NEW a \in Admin, AdminStep(a) \/ Cancel(a) \/ \E k \in Hash : Deny(a, k) \/ Allow(a, k)
        PROVE  call'[Ingest] = call[Ingest]
    BY <1>3, AdminMoves, StoreAssumption DEF Others, Task
  <1>4. UNCHANGED vars \/ (\E k \in Hash : Corrupt(k)) => call' = call
    BY DEF vars, Corrupt
  <1> QED BY <1>1, <1>2, <1>3, <1>4 DEF Next, InsertDue

LEMMA FiledNext == NoCancel /\ StepInv /\ NoStray /\ FiledInv /\ [Next]_vars => FiledInv'
  <1> SUFFICES ASSUME NoCancel, StepInv, NoStray, FiledInv, [Next]_vars PROVE FiledInv'
    OBVIOUS
  <1> USE DEF StepInv
  <1>1. CASE Restart
    <2>1. \A h \in Hash : ~InsertDue(h)'
      BY <1>1 DEF Restart, InsertDue, Task, Idle
    <2>2. DOMAIN index' \subseteq OnDisk(blob')
      BY <1>1, RestartedIndex
    <2> QED BY <2>1, <2>2 DEF FiledInv, OnDisk
  <1>2. CASE ~Restart
    <2> SUFFICES ASSUME NEW h \in Hash \ raced', blob'[h] = "none"
                 PROVE  ~InsertDue(h)' /\ (h \in DOMAIN index' => UnindexDue(h)')
      BY DEF FiledInv
    <2>1. h \in Hash \ raced
      BY <1>2, ListSteps
    <2>2. CASE blob[h] # "none"
      <3>1. PICK a \in Admin : RemoveFile(a) /\ call[a].h = h
        BY <1>2, <2>1, <2>2, LostFile
      <3>2. UnindexDue(h)'
        BY <3>1, AdminMoves DEF UnindexDue
      <3>3. call[Ingest].h # h
        BY <2>1, <3>1 DEF RaceInv, PutInFlight, PurgePending, Purging, RemoveFile
      <3>4. call'[Ingest] = call[Ingest]
        BY <3>1, AdminMoves, StoreAssumption DEF AdminStep, Others, Task
      <3> QED BY <3>2, <3>3, <3>4 DEF InsertDue
    <2>3. CASE blob[h] = "none"
      <3>1. ~InsertDue(h) /\ (h \in DOMAIN index => UnindexDue(h))
        BY <2>1, <2>3 DEF FiledInv
      <3>2. ~Rename \/ call[Ingest].h # h
        <4>1. Rename => blob' = [blob EXCEPT ![call[Ingest].h] = "whole"]
          BY DEF Rename
        <4> QED BY <4>1 DEF TypeOK
      <3>3. ~InsertDue(h)'
        <4>1. Rename => call'[Ingest].h = call[Ingest].h
          BY IngestMoves
        <4> QED BY <1>2, <3>1, <3>2, <4>1, InsertDueSteps DEF InsertDue
      <3>4. h \in DOMAIN index' => h \in DOMAIN index
        <4>1. Insert => call[Ingest].at = "insert"
          BY IngestMoves
        <4> QED BY <1>2, <3>1, <4>1, NewEntry DEF InsertDue
      <3>5. ASSUME NEW a \in Admin, call[a].h = h, call[a].at = "unindex"
            PROVE  UnindexDue(h)' \/ h \notin DOMAIN index'
        <4>1. call'[a] = call[a] \/ Unindex(a)
          <5>1. ~Cancel(a)
            BY DEF Cancel, NoCancel
          <5> QED BY <1>2, <3>5, <5>1, CallSteps, AdminMoves DEF AdminStep, Idle, Rewriting, Stray
        <4>2. Unindex(a) => h \notin DOMAIN index'
          BY <3>5 DEF Unindex, Restrict
        <4> QED BY <3>5, <4>1, <4>2 DEF UnindexDue
      <3> QED BY <3>1, <3>3, <3>4, <3>5 DEF UnindexDue
    <2> QED BY <2>2, <2>3
  <1> QED BY <1>1, <1>2

LEMMA ListedNext == NoUnlink /\ StepInv /\ FileGoneInv /\ ListedInv /\ [Next]_vars => ListedInv'
  <1> SUFFICES ASSUME NoUnlink, StepInv, FileGoneInv, ListedInv, [Next]_vars PROVE ListedInv'
    OBVIOUS
  <1> USE DEF StepInv
  <1>1. CASE Restart
    <2>1. DOMAIN index' = OnDisk(blob') \ denied'
      BY <1>1, RestartedIndex
    <2>2. \A h \in Hash : h \in denied' => blob'[h] = "none"
      BY <1>1 DEF Restart, Unpurged, NoUnlink
    <2> QED BY <2>1, <2>2 DEF ListedInv, OnDisk
  <1>2. CASE ~Restart
    <2> SUFFICES ASSUME NEW h \in Hash \ raced', blob'[h] # "none", h \notin DOMAIN index'
                 PROVE  InsertDue(h)'
      BY DEF ListedInv
    <2>1. h \in Hash \ raced
      BY <1>2, ListSteps
    <2>2. CASE blob[h] = "none"
      <3>1. Rename /\ call[Ingest].h = h
        BY <1>2, <2>1, <2>2, NewFile
      <3> QED BY <3>1, IngestMoves DEF InsertDue
    <2>3. CASE InsertDue(h)
      BY <1>2, <2>1, <2>3, InsertDueSteps
    <2>4. CASE blob[h] # "none" /\ h \in DOMAIN index
      <3>1. PICK a \in Admin : Unindex(a) /\ call[a].h = h
        BY <1>2, <2>4, LostEntry
      <3>2. blob[h] = "none"
        BY <2>1, <3>1 DEF Unindex, FileGoneInv
      <3> QED BY <2>4, <3>2
    <2> QED BY <2>1, <2>2, <2>3, <2>4 DEF ListedInv
  <1> QED BY <1>1, <1>2

IndexedOnDisk ==
  \A h \in Hash \ raced : h \in DOMAIN index /\ ~UnindexDue(h) => blob[h] # "none"

(* Every index entry has its file, outside a purge, unless a handler was    *)
(* dropped between the two removals (src/store.rs:113-122, 180-183).        *)
THEOREM EntriesHaveFiles == NoCancel /\ Spec => []IndexedOnDisk
  <1>1. FiledInv => IndexedOnDisk
    BY DEF FiledInv, IndexedOnDisk
  <1>2. NoCancel => NoCancel'
    BY DEF NoCancel
  <1>3. StepInv => TypeOK
    BY DEF StepInv
  <1> QED BY StepInit, StepNext, MirrorInit, StrayNext, FiledNext, <1>1, <1>2, <1>3, PTL DEF Spec

(* When besides files can be removed, the index tells what is on disk,      *)
(* outside the two windows (src/store.rs:19-26).                            *)
THEOREM IndexIsDisk == NoCancel /\ NoUnlink /\ Spec => []IndexMirrorsDisk
  <1>1. FiledInv /\ ListedInv => IndexMirrorsDisk
    BY DEF FiledInv, ListedInv, IndexMirrorsDisk
  <1>2. NoCancel /\ NoUnlink => (NoCancel /\ NoUnlink)'
    BY DEF NoCancel, NoUnlink
  <1>3. StepInv => TypeOK
    BY DEF StepInv
  <1> QED BY StepInit, StepNext, GoneInit, ClaimNext, FileGoneInit, FileGoneNext, MirrorInit, StrayNext,
             FiledNext, ListedNext, <1>1, <1>2, <1>3, PTL DEF Spec

(* A hash that is denied, or denied again should the allow under way fail,  *)
(* is not held once its purge is over.                                      *)
Allowing(h) == \E a \in Admin : call[a].h = h /\ call[a].at \in Rewriting /\ ~Denying(a)
PurgeDue(h) ==
  \E a \in Admin : /\ call[a].h = h
                   /\ call[a].at \in {"removeFile", "unindex"} \/ (call[a].at \in Rewriting /\ Denying(a))

PurgedInv ==
  \A h \in Hash \ raced : h \in denied \/ Allowing(h) => PurgeDue(h) \/ ~Held(h)

LEMMA PurgedInit == Init => PurgedInv
  <1> SUFFICES ASSUME Init PROVE PurgedInv
    OBVIOUS
  <1>1. \A a \in Admin : call[a].at = "idle"
    BY DEF Init, Idle, Task
  <1> QED BY <1>1 DEF Init, PurgedInv, Held

(* A hash comes to be denied, or to be allowed, by a deny whose purge is    *)
(* then due, or by an allow of a denied hash.                               *)
LEMMA DenyStarts ==
  ASSUME StepInv, [Next]_vars, ~Restart, NEW h \in Hash, (h \in denied)' \/ Allowing(h)'
  PROVE  h \in denied \/ Allowing(h) \/ PurgeDue(h)'
  <1> USE DEF StepInv
  <1>1. CASE h \in denied' /\ h \notin denied
    <2>1. PICK a \in Admin : \/ \E k \in Hash : k = h /\ Deny(a, k)
                             \/ RollBack(a) /\ ~Denying(a) /\ call[a].h = h
      BY <1>1, ListSteps
    <2>2. CASE Deny(a, h)
      BY <1>1, <2>2, AdminMoves DEF PurgeDue, Rewriting, Denying
    <2>3. CASE RollBack(a) /\ ~Denying(a) /\ call[a].h = h
      BY <2>3 DEF RollBack, Allowing
    <2> QED BY <2>1, <2>2, <2>3
  <1>2. ASSUME NEW a \in Admin, call'[a].h = h, call'[a].at \in Rewriting, ~Denying(a)'
        PROVE  h \in denied \/ Allowing(h)
    <2>1. CASE \E k \in Hash : Deny(a, k)
      BY <1>2, <2>1, AdminMoves DEF Deny, Denying, Rewriting
    <2>2. CASE \E k \in Hash : Allow(a, k)
      BY <1>2, <2>2, AdminMoves DEF Allow
    <2>3. CASE AdminStep(a) \/ Cancel(a)
      <3>1. RewriteTmp(a)
        BY <1>2, <2>3, AdminMoves DEF AdminStep, Rewriting, Idle
      <3> QED BY <1>2, <3>1, AdminMoves DEF Allowing, Denying, Rewriting
    <2>4. CASE call'[a] = call[a]
      BY <1>2, <2>4 DEF Allowing, Denying
    <2> QED BY <2>1, <2>2, <2>3, <2>4, CallSteps
  <1> QED BY <1>1, <1>2 DEF Allowing

(* A purge ends with the hash neither on disk nor in the index, or undone.  *)
LEMMA PurgeEnds ==
  ASSUME NoCancel, StepInv, FileGoneInv, [Next]_vars, ~Restart,
         NEW h \in Hash \ raced, PurgeDue(h), ~PurgeDue(h)', (h \in denied)' \/ Allowing(h)'
  PROVE  ~Held(h)'
  <1> USE DEF StepInv
  <1>1. PICK a \in Admin : /\ call[a].h = h
                          /\ \/ call[a].at \in {"removeFile", "unindex"}
                             \/ call[a].at \in Rewriting /\ Denying(a)
    BY DEF PurgeDue
  <1>2. call'[a] # call[a]
    BY <1>1 DEF PurgeDue, Denying
  <1>3. ~Cancel(a)
    BY DEF Cancel, NoCancel
  <1>4. \A k \in Hash : ~Deny(a, k) /\ ~Allow(a, k)
    BY <1>1, AdminMoves DEF Idle, Rewriting
  <1>5. ~RewriteTmp(a)
    BY <1>1, AdminMoves DEF PurgeDue, Denying, Rewriting
  <1>6. ~RewriteRename(a) /\ ~RemoveFile(a)
    BY <1>1, AdminMoves DEF PurgeDue, Rewriting
  <1>7. ~SubTotal(a) /\ ~StrayFinishes(a)
    BY <1>1, AdminMoves DEF Rewriting, Stray
  <1>8. ~RollBack(a)
    <2> SUFFICES ASSUME RollBack(a) PROVE FALSE
      OBVIOUS
    <2>1. call[a].at \in Rewriting /\ Denying(a) /\ h \notin denied'
      BY <1>1 DEF RollBack, Rewriting
    <2>2. \A b \in Admin : b # a => call[b].at \notin Rewriting /\ call'[b] = call[b]
      BY <2>1, AdminMoves DEF AdminStep, LockInv, Others, Task
    <2>3. call'[a].at \notin Rewriting
      BY AdminMoves DEF Idle, Rewriting
    <2> QED BY <2>1, <2>2, <2>3 DEF Allowing
  <1>9. Unindex(a)
    BY <1>2, <1>3, <1>4, <1>5, <1>6, <1>7, <1>8, CallSteps DEF AdminStep
  <1>10. blob'[h] = "none" /\ h \notin DOMAIN index'
    BY <1>1, <1>9 DEF Unindex, FileGoneInv, Restrict, diskVars
  <1> QED BY <1>10 DEF Held

LEMMA PurgedNext ==
  NoCancel /\ NoUnlink /\ StepInv /\ FileGoneInv /\ PurgedInv /\ [Next]_vars => PurgedInv'
  <1> SUFFICES ASSUME NoCancel, NoUnlink, StepInv, FileGoneInv, PurgedInv, [Next]_vars PROVE PurgedInv'
    OBVIOUS
  <1> USE DEF StepInv
  <1>1. CASE Restart
    <2>1. \A a \in Admin : call'[a].at = "idle"
      BY <1>1 DEF Restart, Idle, Task
    <2>2. \A h \in Hash : h \in denied' => blob'[h] = "none" /\ h \notin DOMAIN index'
      BY <1>1, RestartedIndex DEF Restart, Unpurged, NoUnlink
    <2> QED BY <2>1, <2>2 DEF PurgedInv, Allowing, Rewriting, Held
  <1>2. CASE ~Restart
    <2> SUFFICES ASSUME NEW h \in Hash \ raced', (h \in denied)' \/ Allowing(h)', ~PurgeDue(h)'
                 PROVE  ~Held(h)'
      BY DEF PurgedInv
    <2>1. h \in Hash \ raced
      BY <1>2, ListSteps
    <2>2. h \in denied \/ Allowing(h)
      BY <1>2, <2>1, DenyStarts
    <2>3. CASE PurgeDue(h)
      BY <1>2, <2>1, <2>3, PurgeEnds
    <2>4. CASE ~PurgeDue(h)
      <3>1. ~Held(h)
        BY <2>1, <2>2, <2>4 DEF PurgedInv
      <3>2. call[Ingest].h # h
        BY <2>1, <2>2 DEF RaceInv, PutInFlight, Allowing, RewriteOf
      <3> QED BY <1>2, <2>1, <3>1, <3>2, NewFile, NewEntry DEF Held
    <2> QED BY <2>3, <2>4
  <1> QED BY <1>1, <1>2

(* A denied hash whose deny is not under way has no file and no index       *)
(* entry, unless a put of it overlapped the deny (src/store.rs:8-9), when   *)
(* no handler is dropped and files can be removed.                          *)
THEOREM DeniedIsGone == NoCancel /\ NoUnlink /\ Spec => []DeniedNotHeld
  <1>1. StepInv /\ PurgedInv => DeniedNotHeld
    <2>1. \A h : PurgeDue(h) => DenyPending(h)
      BY DEF PurgeDue, DenyPending
    <2> QED BY <2>1 DEF StepInv, TypeOK, PurgedInv, DeniedNotHeld
  <1>2. NoCancel /\ NoUnlink => (NoCancel /\ NoUnlink)'
    BY DEF NoCancel, NoUnlink
  <1> QED BY StepInit, StepNext, GoneInit, ClaimNext, FileGoneInit, FileGoneNext, PurgedInit, PurgedNext,
             <1>1, <1>2, PTL DEF Spec
=============================================================================
