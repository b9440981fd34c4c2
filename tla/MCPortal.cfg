CONSTANTS
  p1 = p1
  p2 = p2
  p3 = p3
  Portals <- mc_Portals
  MemBackPortals <- mc_MemBackPortals
  Channels = {0, 15}
  MaxLeaks = 1
SPECIFICATION Spec
INVARIANTS TypeOK SdqcrMatches NothingDangles
