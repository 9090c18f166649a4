SPECIFICATION AnnFairSpec
CONSTANTS
  p1 = p1
  p2 = p2
  a1 = a1
  a2 = a2
  h1 = h1
  h2 = h2
  Peer <- MCPeer
  Addr <- MCAddr
  Hash <- MCHash
  Listener <- MCListener
  MaxPerPeer = 2
  MaxTotal = 3
  MaxEvents = 2
  MaxLines = 1
INVARIANTS AnnTypeOK ShowsConnected
PROPERTIES LearnsHeld
