SPECIFICATION Spec
CONSTANTS
  U64Max = 5
  Numeral <- MCNumeral
  MaxTotal = 4
  Empty = Empty
  Junk = Junk
  Absent = Absent
INVARIANTS SliceInBounds ServesExactly
