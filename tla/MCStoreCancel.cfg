SPECIFICATION Spec
CONSTANTS
  h1 = h1
  h2 = h2
  a1 = a1
  a2 = a2
  Hash <- MCHash
  Admin <- MCAdmin
  Size <- MCSize
  MaxBytes = 2
  Ingest = Ingest
  NoTask = NoTask
  NoHash = NoHash
  NoFile = NoFile
  MaxDrift = 3
  Faults = {"cancel"}
SYMMETRY MCSymmetry
INVARIANTS AckedDurable
