SPECIFICATION FairSpec
CONSTANTS
  h1 = h1
  h2 = h2
  a1 = a1
  a2 = a2
  Hash <- OneHash
  Admin <- MCAdmin
  Size <- OneSize
  MaxBytes = 2
  Ingest = Ingest
  NoTask = NoTask
  NoHash = NoHash
  NoFile = NoFile
  MaxDrift = 1
  Faults = {"cancel", "unreadable"}
INVARIANTS TotalCovers TakedownHolds
PROPERTIES CallsReturn
