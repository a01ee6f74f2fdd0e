SPECIFICATION Spec
CONSTANTS
  Object <- MCObject
  Listed <- MCListed
  Type <- MCType
  Name <- MCName
  Location <- MCLocation
  Uses <- MCUses
  ScopePieces <- MCScope
INVARIANT CountedOnce
CHECK_DEADLOCK FALSE
