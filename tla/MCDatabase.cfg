SPECIFICATION BundleSpec
CONSTANTS
  Proc = {p1, p2}
  NoProc = NoProc
  Script <- MCScript
  Ref = {a}
  MaxScopes = 2
  MaxStarts = 3
  MaxRuns = 2
SYMMETRY MCAlike
INVARIANTS SchemaIsWhole RunsAreWhole LockIsBrief QuietBundleIsWhole
PROPERTY ImplementsLedgers
CHECK_DEADLOCK FALSE
