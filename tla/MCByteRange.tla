----------------------------- MODULE MCByteRange -----------------------------
(***************************************************************************)
(* A finite instance of ByteRange: objects of up to MaxTotal bytes, and    *)
(* numerals up to two beyond U64Max, which is just above MaxTotal.         *)
(***************************************************************************)
EXTENDS ByteRange

MCNumeral == 0..(U64Max + 2)
=============================================================================
