SPECIFICATION Spec
CONSTANTS
  r1 = r1
  r2 = r2
  r3 = r3
  v = v
  d = d
  p1 = p1
  p2 = p2
  NoRun = NoRun
  NoKind = NoKind
  Run = {r1, r2}
  Kind = {v}
  Scope = {p1, p2}
  Size <- MCOneRow
  ScopeOf <- MCScopeOf
  Latest <- MCLatest
  ReadFaults = FALSE
  Patient = FALSE
  MayQuit = FALSE
  MaxPending = 2
  MaxStack = 3
  MaxHistory = 1
INVARIANTS FrameIsOneRun DetailIsSelected
CHECK_DEADLOCK FALSE
