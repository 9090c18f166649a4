SPECIFICATION FairSpec
CONSTANTS
  h1 = h1
  s1 = s1
  s2 = s2
  s3 = s3
  Hash <- OneHash
  Slot <- ThreeSlots
  MaxServes = 1
  NoHash = NoHash
INVARIANTS TypeOK TakedownStopsReplication PermitsReturn BacklogBounded
PROPERTIES GetsEnd
