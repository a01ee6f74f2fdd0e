SPECIFICATION FairSpec
CONSTANTS
  r1 = r1
  r2 = r2
  v = v
  d = d
  NoRun = NoRun
  NoKind = NoKind
  Run = {r1, r2}
  Kind = {v, d}
  Size <- MCSize
  ReadFaults = TRUE
  Patient = TRUE
  MaxPending = 2
INVARIANTS PanesAreOneRun CascadeSettles SvShowsItsOwn
PROPERTY CascadeEnds
CHECK_DEADLOCK FALSE
