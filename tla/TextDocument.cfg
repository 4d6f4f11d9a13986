SPECIFICATION Spec
CONSTANTS
  Alphabet = {"letter", "cjk", "astral", "lf", "cr"}
  Encodings = {"utf-8", "utf-16", "utf-32"}
  SyncKinds = {"None", "Full", "Incremental"}
  MaxLen = 4
  MaxInsert = 2
INVARIANTS
  Synchronised
  PositionsMatch
  WordAtPlace
  PastEndIsEnd
