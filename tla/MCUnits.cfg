SPECIFICATION MCSpec
CONSTANTS
  Rd = {r1, r2}
  NoRd = NoRd
  MaxRegionIds = 3
  Width = 6
  NULL = NULL
  MaxRegions = 3
  MaxShares = 2
  AddressSpace = 6
  AptRegion = {g1, g2, g3}
  SlaveId = {s1}
  NoId = NoId
  Request <- MCRequest
  PE = {p1, p2}
  v1 = v1 v2 = v2 v3 = v3
  REC = {v1, v2, v3}
  Nobody = Nobody
  RealmOf <- MCRealmOf
  IdxOf <- MCIdxOf
  Startable = {v1}
  Granule = 4
  RegWidth = 3
  TokenLen = 3
  SignRounds = 2
  PlatLen = 2
  PlatSize = 2
  Challenges = {c1, c2}
  Offsets = {0, 3, 4}
  Lengths = {0, 1, 2, 5}
  MaxExtends = 2
INVARIANTS
  UniqueIds
  FailsOnlyWhenFull
  TagsExact
  HeapExact
  XlatExact
  SlotAccessExact
  GranuleIndexExact
  TokenExact
  SlaveRegionsDisjoint
  SharesExact
  PackedListExact
PROPERTIES
  RegistrationStable
  PowerSpec
CHECK_DEADLOCK FALSE
