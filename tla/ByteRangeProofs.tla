--------------------------- MODULE ByteRangeProofs ---------------------------
(***************************************************************************)
(* For every object length, every u64 width that holds it and every header *)
(* a range request is answered inside the object and, when the header is   *)
(* well-formed, with exactly the bytes it asks for.                        *)
(***************************************************************************)
EXTENDS ByteRange, TLAPS

(* Every variable keeps its kind.                                           *)
THEOREM RangeTypeCorrect == Spec => []TypeOK
<1>1. Init => TypeOK
  BY ByteRangeAssumption DEF Init, TypeOK, Pending
<1>2. TypeOK /\ [Next]_vars => TypeOK'
  <2> SUFFICES ASSUME TypeOK, [Next]_vars PROVE TypeOK'
    OBVIOUS
  <2>1. CASE \E len \in 0..MaxTotal : Receive(len, <<>>)
    BY <2>1 DEF Receive, TypeOK, Pending
  <2>2. CASE \E len \in 0..MaxTotal : \E a, b \in Part : Receive(len, <<a, b>>)
    BY <2>2 DEF Receive, TypeOK, Pending
  <2>3. CASE Answer
    <3>1. total \in Nat /\ Last \in Nat
      BY ByteRangeAssumption DEF TypeOK, Last, SaturatingSub
    <3>2. CASE range = <<>>
      BY <2>3, <3>1, <3>2 DEF Answer, TypeOK
    <3>3. CASE range # <<>>
      <4>1. /\ Parsed(range[1]) \in Nat \cup {Absent}
            /\ Parsed(range[2]) \in Nat \cup {Absent}
        BY ByteRangeAssumption DEF Parsed
      <4>2. ClampStart(Parsed(range[1]), Parsed(range[2])) \in Nat
        BY <4>1, <3>1 DEF ClampStart, SaturatingSub
      <4>3. ClampEnd(Parsed(range[1]), Parsed(range[2])) \in Nat
        BY <4>1, <3>1 DEF ClampEnd
      <4>. QED BY <2>3, <3>3, <4>2, <4>3 DEF Answer, TypeOK
    <3>. QED BY <3>2, <3>3
  <2>4. CASE UNCHANGED vars
    BY <2>4 DEF TypeOK, vars
  <2>. QED BY <2>1, <2>2, <2>3, <2>4 DEF Next
<1>. QED BY <1>1, <1>2, PTL DEF Spec

(* What clamp_range and the check after it compute, part by part: the       *)
(* served slice lies in the object, for any two parts.                      *)
LEMMA ClampInside ==
  ASSUME NEW a \in Nat \cup {Absent}, NEW b \in Nat \cup {Absent}, total \in Nat,
         ~Unsatisfiable(ClampStart(a, b), ClampEnd(a, b))
  PROVE  /\ ClampStart(a, b) \in Nat /\ ClampEnd(a, b) \in Nat
         /\ ClampStart(a, b) <= ClampEnd(a, b)
         /\ ClampEnd(a, b) < total
<1>1. Last \in Nat /\ (total > 0 => Last = total - 1) /\ (total = 0 => Last = 0)
  BY DEF Last, SaturatingSub
<1>2. ClampStart(a, b) \in Nat
  BY <1>1 DEF ClampStart, SaturatingSub
<1>3. ClampEnd(a, b) \in Nat /\ ClampEnd(a, b) <= Last
  BY <1>1 DEF ClampEnd
<1>4. ClampStart(a, b) <= ClampEnd(a, b) /\ ClampStart(a, b) < total
  BY <1>2, <1>3 DEF Unsatisfiable
<1>. QED BY <1>1, <1>2, <1>3, <1>4

(* For a well-formed header a position lies in the clamped range exactly    *)
(* when the header asks for it, and none is asked for when the range cannot *)
(* be satisfied.                                                            *)
LEMMA ClampExact ==
  ASSUME NEW a \in Part, NEW b \in Part, total \in 0..MaxTotal, WellFormed(a, b),
         NEW i \in 0..(total - 1)
  PROVE  i \in Asked(a, b) <=>
           /\ ~Unsatisfiable(ClampStart(Parsed(a), Parsed(b)), ClampEnd(Parsed(a), Parsed(b)))
           /\ ClampStart(Parsed(a), Parsed(b)) <= i
           /\ i <= ClampEnd(Parsed(a), Parsed(b))
<1>. USE ByteRangeAssumption
<1>1. total \in Nat /\ total > 0 /\ total <= U64Max /\ i \in Nat /\ i < total /\ Last = total - 1
  BY DEF Last, SaturatingSub
<1>2. CASE a \in 0..U64Max /\ b \in Numeral
  <2>1. Asked(a, b) = {j \in 0..(total - 1) : a <= j /\ j <= b}
    BY <1>2 DEF Asked
  <2>2. CASE b <= U64Max
    <3>1. Parsed(a) = a /\ Parsed(b) = b /\ a \in Nat /\ b \in Nat
      BY <1>2, <2>2 DEF Parsed
    <3>2. ClampStart(a, b) = a /\ ClampEnd(a, b) = IF b < Last THEN b ELSE Last
      BY <3>1 DEF ClampStart, ClampEnd
    <3>. QED BY <1>1, <2>1, <3>1, <3>2 DEF Unsatisfiable
  <2>3. CASE b > U64Max
    <3>1. Parsed(a) = a /\ Parsed(b) = Absent /\ a \in Nat /\ b \in Nat
      BY <1>2, <2>3 DEF Parsed
    <3>2. ClampStart(a, Absent) = a /\ ClampEnd(a, Absent) = Last
      BY <3>1 DEF ClampStart, ClampEnd
    <3>. QED BY <1>1, <2>1, <2>3, <3>1, <3>2 DEF Unsatisfiable
  <2>. QED BY <1>2, <2>2, <2>3
<1>3. CASE a \in 0..U64Max /\ b = Empty
  <2>1. Asked(a, b) = {j \in 0..(total - 1) : j >= a}
    BY <1>3 DEF Asked
  <2>2. Parsed(a) = a /\ Parsed(b) = Absent /\ a \in Nat
    BY <1>3 DEF Parsed
  <2>3. ClampStart(a, Absent) = a /\ ClampEnd(a, Absent) = Last
    BY <2>2 DEF ClampStart, ClampEnd
  <2>. QED BY <1>1, <2>1, <2>2, <2>3 DEF Unsatisfiable
<1>4. CASE a = Empty /\ b \in Numeral
  <2>1. Asked(a, b) = {j \in 0..(total - 1) : j >= total - b}
    BY <1>4 DEF Asked
  <2>2. CASE b <= U64Max
    <3>1. Parsed(a) = Absent /\ Parsed(b) = b /\ b \in Nat
      BY <1>4, <2>2 DEF Parsed
    <3>2. ClampStart(Absent, b) = (IF total >= b THEN total - b ELSE 0) /\ ClampEnd(Absent, b) = Last
      BY <3>1 DEF ClampStart, ClampEnd, SaturatingSub
    <3>. QED BY <1>1, <2>1, <3>1, <3>2 DEF Unsatisfiable
  <2>3. CASE b > U64Max
    <3>1. Parsed(a) = Absent /\ Parsed(b) = Absent /\ b \in Nat
      BY <1>4, <2>3 DEF Parsed
    <3>2. ClampStart(Absent, Absent) = 0 /\ ClampEnd(Absent, Absent) = Last
      BY DEF ClampStart, ClampEnd
    <3>. QED BY <1>1, <2>1, <2>3, <3>1, <3>2 DEF Unsatisfiable
  <2>. QED BY <1>4, <2>2, <2>3
<1>. QED BY <1>2, <1>3, <1>4 DEF WellFormed

(* The handler never slices outside the object, and a well-formed range     *)
(* gets exactly the bytes it asks for.                                      *)
THEOREM RangeIsExact == Spec => [](SliceInBounds /\ ServesExactly)
<1>. DEFINE Inv == SliceInBounds /\ ServesExactly
<1>1. Init => Inv
  BY DEF Init, Pending, SliceInBounds, ServesExactly
<1>2. TypeOK /\ Inv /\ [Next]_vars => Inv'
  <2> SUFFICES ASSUME TypeOK, Inv, [Next]_vars PROVE Inv'
    OBVIOUS
  <2>1. CASE (\E len \in 0..MaxTotal : Receive(len, <<>>))
             \/ \E len \in 0..MaxTotal : \E a, b \in Part : Receive(len, <<a, b>>)
    BY <2>1 DEF Receive, Pending, SliceInBounds, ServesExactly
  <2>2. CASE Answer
    <3>1. CASE range = <<>>
      BY <2>2, <3>1 DEF Answer, SliceInBounds, ServesExactly
    <3>2. CASE range # <<>>
      <4>. DEFINE a     == range[1]
                  b     == range[2]
                  start == ClampStart(Parsed(a), Parsed(b))
                  end   == ClampEnd(Parsed(a), Parsed(b))
      <4>1. a \in Part /\ b \in Part
        BY <3>2 DEF TypeOK
      <4>2. Parsed(a) \in Nat \cup {Absent} /\ Parsed(b) \in Nat \cup {Absent}
        BY ByteRangeAssumption DEF Parsed
      <4>3. total \in Nat /\ total \in 0..MaxTotal
        BY ByteRangeAssumption DEF TypeOK
      <4>4. total' = total /\ range' = range
        BY <2>2 DEF Answer
      <4>5. CASE Unsatisfiable(start, end)
        <5>1. answer'.status = 416
          BY <2>2, <3>2, <4>5 DEF Answer
        <5>2. Served' = {}
          BY <5>1 DEF Served
        <5>3. WellFormed(a, b) => Asked(a, b) = {}
          <6>1. ASSUME WellFormed(a, b), NEW i \in 0..(total - 1) PROVE i \notin Asked(a, b)
            BY <6>1, <4>1, <4>3, <4>5, ClampExact
          <6>. QED BY <6>1 DEF Asked
        <5>. QED BY <5>1, <5>2, <5>3, <4>4 DEF SliceInBounds, ServesExactly, WellFormed, Asked
      <4>6. CASE ~Unsatisfiable(start, end)
        <5>1. answer' = [status |-> 206, start |-> start, end |-> end]
          BY <2>2, <3>2, <4>6 DEF Answer
        <5>2. start <= end /\ end < total
          BY <4>2, <4>3, <4>6, ClampInside
        <5>3. Served' = {i \in 0..(total - 1) : start <= i /\ i <= end}
          BY <5>1, <4>4 DEF Served
        <5>4. WellFormed(a, b) => Asked(a, b) = {i \in 0..(total - 1) : start <= i /\ i <= end}
          <6>1. ASSUME WellFormed(a, b), NEW i \in 0..(total - 1)
                PROVE  i \in Asked(a, b) <=> start <= i /\ i <= end
            BY <6>1, <4>1, <4>3, <4>6, ClampExact
          <6>. HIDE DEF start, end, a, b
          <6>2. \A i \in Asked(a, b) : i \in 0..(total - 1)
            BY DEF Asked
          <6>. QED BY <6>1, <6>2
        <5>5. SliceInBounds'
          BY <5>1, <5>2, <4>4 DEF SliceInBounds
        <5>6. ServesExactly'
          BY <5>3, <5>4, <4>4 DEF ServesExactly, WellFormed, Asked
        <5>. QED BY <5>5, <5>6
      <4>. QED BY <4>5, <4>6
    <3>. QED BY <3>1, <3>2
  <2>3. CASE UNCHANGED vars
    BY <2>3 DEF vars, SliceInBounds, ServesExactly, Served, Asked, WellFormed
  <2>. QED BY <2>1, <2>2, <2>3 DEF Next
<1>. QED BY <1>1, <1>2, RangeTypeCorrect, PTL DEF Spec

(* The slice of get_content (src/gateway.rs:241) never panics.              *)
THEOREM SliceIsInBounds == Spec => []SliceInBounds
BY RangeIsExact, PTL
=============================================================================
