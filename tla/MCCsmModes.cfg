SPECIFICATION MCSpec
CONSTANTS
  owner = owner
  borrower = borrower
  PE = {p1, p2}
  NoPE = NoPE
  Realm = {owner, borrower}
  NoRealm = NoRealm
  AptGranule = {a1, a2}
  NoApt = NoApt
  RegionId = {1, 2}
  NoRegion = 0
  Data = {d1, d2}
  NoData = NoData
  Pages = 3
  RegionPages = 2
  MaxRegions = 2
  MaxShares = 1
  MaxTags = 2
  Owner = {owner}
  Borrower = {borrower}
  HostOps = {"data_create", "data_destroy", "realm_destroy"}
SYMMETRY MCSymmetry
INVARIANTS
  RegionIdsExact
  BorrowedRegionsDisjoint
  LocksExact
CHECK_DEADLOCK FALSE
