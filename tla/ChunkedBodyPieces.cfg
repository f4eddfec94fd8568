CONSTANTS
  MaxChunks = 2
  MaxLen = 1
  MaxCount = 2
  AnyPiece = TRUE
SPECIFICATION Spec
INVARIANT BodyDecoded
CHECK_DEADLOCK FALSE
