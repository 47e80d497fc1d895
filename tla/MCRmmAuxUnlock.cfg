SPECIFICATION Spec
CONSTANTS
  v1 = v1
  v2 = v2
  PE = {p1, p2}
  NoPE = NoPE
  NumGranules = 4
  Vmid = {v1}
  NoVmid = NoVmid
  MaxRecAux = 2
  RefcountMax = 2
  RealmParams <- RecRealmParams
  RecParams <- TwoAuxRecParams
  RttParams <- NoParams
  MaxTables = 1
  InitiallyDelegated = {1, 2, 3, 4}
PROPERTY
  UnlockedAuxWereHeld
