SPECIFICATION MCSpec
CONSTANTS
  v1 = v1
  v2 = v2
  PE = {p1, p2}
  NoPE = NoPE
  NumGranules = 5
  Vmid = {v1, v2}
  NoVmid = NoVmid
  MaxRecAux = 1
  RefcountMax = 2
  RealmParams <- RealmRealmParams
  RecParams <- RecRecParams
  RttParams <- RealmRttParams
  MaxTables = 1
  InitiallyDelegated = {1, 2, 3, 4, 5}
INVARIANTS
  ContentMatchesState
  RefcountsExact
  RunningRecIntact
  GptAgrees
  RecIndicesUnique
  RefcountFits
  GranuleLockAsserts
  VmidsExact
  NoCircularWait
  LocksAccounted
PROPERTY
  StateChangesOwned
