SPECIFICATION Spec
CONSTANTS
  c1 = c1
  c2 = c2
  c3 = c3
  g1 = g1
  m1 = m1
  m2 = m2
  m3 = m3
  p1 = p1
  p2 = p2
  NoBody = NoBody
  NotAString = NotAString
  Fds = {c1, c2}
  Names = {g1}
  Msgs = {m1, m2, m3}
  Payloads = {p1}
  NameLists <- NameListsMC
  SyncLimits <- SyncLimitsMC
  Serializations = {"pickle", "matlab"}
  InitCap = 2
  UIntMax = 7
  AllocMayFail = TRUE
SYMMETRY Symmetry
INVARIANTS TypeOK MembershipOK
CONSTRAINT RefsCover
