SPECIFICATION Spec
CONSTANTS
  r1 = r1
  r2 = r2
  vm = vm
  p = p
  q = q
  a = a
  b = b
  Run = {r1, r2}
  Kind = {vm}
  NoRun = NoRun
  NoKind = NoKind
  Size <- MCSize
  Pattern = {p, q}
  NoText = NoText
  Score <- MCScore
  Cell <- MCCell
  Natural <- MCNatural
  Window <- MCWindow
  MaxHistory = 1
  Typed = {a, b}
  Blank = Blank
  AliasHits <- MCAliasHits
  IndexHits <- MCIndexHits
  maxFuzzyResults = 3
  visibleWindow = 2
CONSTRAINT MCBounded
INVARIANTS RowsAreCurrent HighlightOnScreen ColumnsFillPane
PROPERTIES  ImplementsPane
