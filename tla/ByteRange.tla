------------------------------ MODULE ByteRange ------------------------------
(***************************************************************************)
(* Range requests of the HTTP gateway (src/gateway.rs: parse_range,        *)
(* clamp_range and their use in get_content), for an object that has       *)
(* passed the self-check.  The two parts of `bytes=a-b` are a numeral, the *)
(* empty string, or other text; u64 arithmetic saturates, and a numeral    *)
(* above u64::MAX does not parse.                                          *)
(***************************************************************************)
EXTENDS Integers

CONSTANTS
  U64Max,
  Numeral,   \* the numbers that headers may hold
  MaxTotal,  \* no object is longer (CSD_MAX_OBJECT)
  Empty,     \* a part of the header that is not there
  Junk,      \* a part that is not a numeral
  Absent     \* Option::None

ASSUME ByteRangeAssumption ==
  /\ Numeral \subseteq Nat
  /\ MaxTotal \in Nat /\ U64Max \in Nat /\ MaxTotal <= U64Max
  /\ Empty \notin Nat /\ Junk \notin Nat /\ Absent \notin Nat

VARIABLES
  total,   \* the length of the object
  range,   \* the Range header: <<>> or its two parts
  answer   \* the answer, once given

vars == <<total, range, answer>>

Part == Numeral \cup {Empty, Junk}

Pending == [status |-> 0, start |-> 0, end |-> 0]

Init == total = 0 /\ range = <<>> /\ answer = Pending

Receive(len, header) ==
  /\ total' = len
  /\ range' = header
  /\ answer' = Pending

(* parse_range: `parse().ok()` of one part.                                 *)
Parsed(part) == IF part \in 0..U64Max THEN part ELSE Absent

SaturatingSub(a, b) == IF a >= b THEN a - b ELSE 0

Last == SaturatingSub(total, 1)

(* Mutant: a suffix starts one byte early.                                  *)
ClampStartEarly(a, b) ==
  IF a # Absent THEN a ELSE IF b # Absent THEN SaturatingSub(total, b + 1) ELSE 0

(* clamp_range.                                                             *)
ClampStart(a, b) ==
  IF a # Absent THEN a ELSE IF b # Absent THEN SaturatingSub(total, b) ELSE 0

ClampEnd(a, b) == IF a # Absent /\ b # Absent /\ b < Last THEN b ELSE Last

(* Mutant: the empty object is forgotten.                                   *)
UnsatisfiableEmpty(start, end) == start > end

Unsatisfiable(start, end) == start > end \/ start >= total

Answer ==
  /\ answer = Pending
  /\ IF range = <<>>
       THEN answer' = [status |-> 200, start |-> 0, end |-> Last]
       ELSE LET a     == Parsed(range[1])
                b     == Parsed(range[2])
                start == ClampStart(a, b)
                end   == ClampEnd(a, b)
            IN answer' = IF Unsatisfiable(start, end)
                           THEN [status |-> 416, start |-> 0, end |-> 0]
                           ELSE [status |-> 206, start |-> start, end |-> end]
  /\ UNCHANGED <<total, range>>

Next ==
  \/ \E len \in 0..MaxTotal : Receive(len, <<>>) \/ \E a, b \in Part : Receive(len, <<a, b>>)
  \/ Answer

Spec == Init /\ [][Next]_vars

-----------------------------------------------------------------------------
(* Properties.                                                             *)

(* The variables hold values of their kind.                                 *)
TypeOK ==
  /\ total \in 0..MaxTotal
  /\ range \in {<<>>} \cup (Part \X Part)
  /\ answer \in [status : {0, 200, 206, 416}, start : Nat, end : Nat]

(* gateway.rs:231-241: the slice `bytes[start..=end]` is taken only inside  *)
(* the object, whatever the header says; outside it the handler panics.     *)
SliceInBounds == answer.status = 206 => answer.start <= answer.end /\ answer.end < total

(* The bytes a well-formed header asks for: first-last, first-, or -suffix. *)
WellFormed(a, b) ==
  \/ a \in 0..U64Max /\ b \in Numeral \cup {Empty}
  \/ a = Empty /\ b \in Numeral
Asked(a, b) ==
  {i \in 0..(total - 1) :
     CASE a = Empty -> i >= total - b
       [] b = Empty -> i >= a
       [] OTHER     -> a <= i /\ i <= b}

Served == {i \in 0..(total - 1) : answer.status = 206 /\ answer.start <= i /\ i <= answer.end}

(* gateway.rs:224-248: a well-formed range gets exactly the bytes it asks   *)
(* for, cut at the end of the object, and 416 when there are none.  Numbers *)
(* beyond u64 as the last byte or the suffix included; as the first byte    *)
(* they do not parse, and the header is not treated as one with that part.  *)
ServesExactly ==
  answer.status \in {206, 416} /\ WellFormed(range[1], range[2])
    => Served = Asked(range[1], range[2])
=============================================================================
