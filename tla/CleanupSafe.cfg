SPECIFICATION Spec
CHECK_DEADLOCK FALSE
CONSTANTS
  Names = {a, b}
  Objects = {o, p}
  MaxDepth = 3
  MaxTemps = 1
  Nil = Nil
  Shapes = {}
SYMMETRY Symmetry
INVARIANTS
  Balanced
  NoLeak
  NoStaleUse
