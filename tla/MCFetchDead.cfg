SPECIFICATION FairSpec
CONSTANTS
  h1 = h1
  h2 = h2
  p1 = p1
  p2 = p2
  o = o
  g = g
  Hash <- OneHash
  Oversized <- Nothing
  Url <- OneUrl
  Origin = o
  Public <- Nothing
  Reliable <- Nothing
  Hint <- NoHints
  Peer <- TwoPeers
  Honest <- TwoPeers
  MaxTracked = 1
  MaxPeersPerHash = 2
  ChannelSize = 1
  MaxDials = 0
  a1 = a1
  Admin <- OneAdmin
  Disputed <- OneHash
  NoHash = NoHash
  Faults = {"offline"}
PROPERTIES Replicates
