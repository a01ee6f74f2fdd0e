SPECIFICATION Spec
CONSTANTS
  p1 = p1
  p2 = p2
  Scope = {p1, p2}
  Resource <- MCResource
  KindOf <- MCKindOf
  KindOrder <- MCKindOrder
  Link <- MCLink
  Instant <- MCInstant
  MaxRuns = 3
  MaxRows = 4
INVARIANTS BookIsSound LatestIsOne
CONSTRAINT MCExporting
SYMMETRY MCSymmetry
CHECK_DEADLOCK FALSE
