SPECIFICATION FairSpec
CONSTANTS
  Threads = {1, 2, 3}
  Party <- PartyOf
  Ungated = {2}
  NumSlots = 3
  SlotNs = 4
  Owners <- IdleSlot
  Guard = 2
  Ahead <- OneSkew
  MaxLag = 1
  Oversleep = 1
  Early = 1
INVARIANTS TypeOK PinnedToSlot NoCollision SpillFree
PROPERTIES GateOpens
