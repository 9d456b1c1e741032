SPECIFICATION Spec
CONSTANTS
  debug_a = debug_a
  release_a = release_a
  debug_b = debug_b
  f1 = f1
  f2 = f2
  g1 = g1
  g2 = g2
  h1 = h1
  h2 = h2
  i1 = i1
  i2 = i2
  Procs = {p1}
  Keys = {debug_a, release_a, debug_b}
  Target <- MCTarget
  Paths = {f1, f2, g1, g2, h1, h2, i1, i2}
  Plans <- MCPlans
  Bundled = {}
  None = None
  Shapes = {}
INVARIANTS
  NoOrphans
  RecordsWhole
PROPERTIES
  Isolation
