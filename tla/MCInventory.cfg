SPECIFICATION Spec
CONSTANTS
  Object <- MCObject
  Listed <- MCListed
  Type <- MCType
  Name <- MCName
  Location <- MCLocation
  Uses <- MCUses
  ScopePieces <- MCScope
INVARIANTS StubsAreReplaced RowsTellApart EdgesEndAtRows
CHECK_DEADLOCK FALSE
