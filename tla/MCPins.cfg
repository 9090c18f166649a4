SPECIFICATION Spec
CONSTANTS
  d1 = d1
  d2 = d2
  h1 = h1
  h2 = h2
  Domain <- TwoDomains
  Hash <- TwoHashes
  PerDomain = 1
  NodeCap = 1
  MaxPages = 3
  Confirmations = 2
  MaxReorg = 2
  RpcFails = TRUE
  MaxTip = 5
SYMMETRY MCSymmetry
INVARIANTS TypeOK NothingSkipped PinsConfirmed
