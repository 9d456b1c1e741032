SPECIFICATION Spec
CONSTANTS
  Names = {v1, v2}
  Procs = {p1, p2}
  Depth = 2
  None = None
  Blank = Blank
SYMMETRY Symmetry
INVARIANTS
  WholeOrGone
  NoHalfRun
  WhichIsShim
