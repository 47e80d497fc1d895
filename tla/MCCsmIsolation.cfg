SPECIFICATION Spec
CONSTANTS
  owner = owner
  borrower = borrower
  PE = {p1, p2}
  NoPE = NoPE
  Realm = {owner, borrower}
  NoRealm = NoRealm
  AptGranule = {a1, a2}
  NoApt = NoApt
  RegionId = {1}
  NoRegion = 0
  Data = {d1}
  NoData = NoData
  Pages = 1
  RegionPages = 1
  MaxRegions = 1
  MaxShares = 1
  MaxTags = 2
  Owner = {owner}
  Borrower = {borrower}
  HostOps = {"data_create"}
SYMMETRY MCSymmetry
INVARIANTS
  SharedPagesJustified
CHECK_DEADLOCK FALSE
