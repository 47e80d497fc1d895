SPECIFICATION Spec
CONSTANTS
  S2TTES_PER_S2TT = 2
  StartLevel = 1
  RttArgs <- MCRttArgs
  DataArgs <- MCDataArgs
  NsArgs <- MCNsArgs
  RipasArgs <- MCRipasArgs
  InitArgs <- MCInitArgs
  TlbCapacity = 1
INVARIANTS
  RttRefcountsExact
  DataMappedOnce
  PageTlbFresh
  RipasDoneIsDone
  ScansExact
PROPERTIES
  ImplementsRealmIpa
CHECK_DEADLOCK FALSE
