SPECIFICATION GwSpec
CONSTANTS
  h1 = h1
  a1 = a1
  r1 = r1
  r2 = r2
  Hash <- OneHash
  Admin <- OneAdmin
  Size <- OneSize
  Reader <- MCReader
  MaxConns = 1
  AdminApi = TRUE
  MaxBytes = 2
  Ingest = Ingest
  NoTask = NoTask
  NoHash = NoHash
  NoFile = NoFile
  MaxDrift = 3
  Faults = {"corrupt", "unlink"}
SYMMETRY MCSymmetry
INVARIANTS GwTypeOK GoneIsGone ServesOffered PermitsReturn TakedownUnserved HeadMirrorsGet
