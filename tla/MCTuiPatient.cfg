SPECIFICATION Spec
CONSTANTS
  r1 = r1
  r2 = r2
  r3 = r3
  v = v
  d = d
  p1 = p1
  p2 = p2
  NoRun = NoRun
  NoKind = NoKind
  Run = {r1, r2}
  Kind = {v, d}
  Scope = {p1, p2}
  Size <- MCSize
  ScopeOf <- MCScopeOf
  Latest <- MCLatest
  ReadFaults = TRUE
  Patient = TRUE
  MayQuit = TRUE
  MaxPending = 1
  MaxStack = 4
  MaxHistory = 1
INVARIANTS EveryLoadArrives PartsShowTheirOwn JumpLands EndsOnlyWhenAsked
CHECK_DEADLOCK FALSE
