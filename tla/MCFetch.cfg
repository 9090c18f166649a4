SPECIFICATION FairSpec
CONSTANTS
  h1 = h1
  h2 = h2
  p1 = p1
  p2 = p2
  o = o
  g = g
  Hash <- TwoHashes
  Oversized <- LongHash
  Url <- TwoUrls
  Origin = o
  Public <- JustG
  Reliable <- JustG
  Hint <- NoHints
  Peer <- TwoPeers
  Honest <- OnePeer
  MaxTracked = 1
  MaxPeersPerHash = 1
  ChannelSize = 1
  MaxDials = 1
  a1 = a1
  Admin <- OneAdmin
  Disputed <- OneHash
  NoHash = NoHash
  Faults = {"offline", "busy", "refuse", "rpc", "takedown", "crash", "p2p"}
INVARIANTS TypeOK OneWant TableBounded
PROPERTIES KeepsContract PassEnds Fetched
