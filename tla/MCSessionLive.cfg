SPECIFICATION FairSpec
CONSTANTS
  c1 = c1
  c2 = c2
  c3 = c3
  g1 = g1
  m1 = m1
  m2 = m2
  m3 = m3
  m4 = m4
  m5 = m5
  m6 = m6
  NoBody = NoBody
  NotAString = NotAString
  Fds = {c1, c2}
  Names = {g1}
  Msgs = {m1, m2, m3, m4, m5, m6}
  Payloads <- Copies
  NameLists <- NameListsMC
  SyncLimits <- SyncLimitsMC
  Serializations = {"pickle", "matlab", "json"}
  InitCap = 16
  UIntMax = 7
  AllocMayFail = FALSE
  Worlds <- LiveWorlds
  MayCall <- SenderAndSleepers
  MayClose = {c2}
  VarCounts = {2}
  MaxVars = 2
  MaxCalls = 2
  Stride = 1
  CatchErrors = FALSE
INVARIANTS NothingLost
PROPERTIES CallsReturn WaitReturns
