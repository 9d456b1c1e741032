SPECIFICATION Spec
CHECK_DEADLOCK FALSE
CONSTANTS
  Owners = {x}
  Handles = {}
  Fields = {f, g}
  Refs = {m, n}
  MaxDepth = 2
  MaxArgs = 2
  Shapes = {"defer", "read"}
SYMMETRY Symmetry
INVARIANTS
  LoanExclusion
  RefsGuarded
  ArgsExclusive
