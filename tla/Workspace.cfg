SPECIFICATION Spec
CONSTANTS
  Files = {f}
  CellUris = {c1, c2, c3}
  Notebooks = {n1, n2}
  Folders = {r1, r2}
  Data = {"code", "markup"}
  MaxVersion = 1
  MaxChanges = 1
SYMMETRY Symmetry
INVARIANTS
  Mirrored
  CellLookup
