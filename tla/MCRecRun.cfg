SPECIFICATION MCSpec
CONSTANTS
  p1 = p1
  p2 = p2
  r1 = r1
  r2 = r2
  PE = {p1, p2}
  REC = {r1, r2}
  NoRec = NoRec
  CpuSve = TRUE
  CpuSme = TRUE
  CpuVq = 2
  RealmVq = 1
  SveRec = {r1}
  PmuRec = {r2}
  Aborts = {}
  Sysregs = {}
  Simds = {"FPU", "SVE", "SME"}
  Events = {"rsi_fpu", "irq"}
  Pages = {"mapped"}
  Enters <- MCNoFlags
  NsCalls <- MCCalls
  LrLists <- MCLrs
  TimerCtls = {}
  NsFaults = {TRUE, FALSE}
INVARIANTS
  ExitsCompletedOnce
  RegistersIsolated
  RunAssertsHold
  LrsPredictable
PROPERTIES
  InterruptReturns
  TimerArrives
