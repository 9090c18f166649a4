SPECIFICATION FairSpec
CONSTANTS
  p1 = p1
  p2 = p2
  k1 = k1
  k2 = k2
  k3 = k3
  Process <- TwoProcesses
  Key <- ThreeKeys
  NoKey = NoKey
  NoFile = NoFile
  Broken = Broken
  MaxFaults = 2
INVARIANTS TypeOK IdentityOnFile SelfExcluded
PROPERTIES IdentityStable IdentityFound
