SPECIFICATION SessionSpec
CONSTANTS
  c1 = c1
  c2 = c2
  c3 = c3
  g1 = g1
  m1 = m1
  m2 = m2
  m3 = m3
  m4 = m4
  m5 = m5
  m6 = m6
  NoBody = NoBody
  NotAString = NotAString
  Fds = {c1, c2}
  Names = {g1}
  Msgs = {m1, m2, m3}
  Payloads <- Copies
  NameLists <- NameListsMC
  SyncLimits <- SyncLimitsMC
  Serializations = {"pickle", "matlab", "json"}
  InitCap = 16
  UIntMax = 7
  AllocMayFail = FALSE
  Worlds <- StepWorlds
  MayCall <- Anything
  MayClose = {c2}
  VarCounts = {1}
  MaxVars = 1
  MaxCalls = 3
  Stride = 16
  CatchErrors = TRUE
SYMMETRY HeapSymmetry
INVARIANTS ClientTypeOK InStep ViewAgrees
