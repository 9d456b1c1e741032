SPECIFICATION Spec
CHECK_DEADLOCK FALSE
CONSTANTS
  a = a
  b = b
  s1 = s1
  s2 = s2
  c1 = c1
  c2 = c2
  c3 = c3
  c4 = c4
  Procs = {p1, p2}
  Sources = {s1, s2}
  Contents = {c1, c2, c3, c4}
  Versions <- MCVersions
  None = None
  Aliases = {a, b}
  Requires <- MCRequires
  Identity <- MCIdentity
  Shapes = {}
SYMMETRY Symmetry
INVARIANTS
  CacheSound
  LockUsable
  LockMatches
  LockClosed
  LockSettled
CONSTRAINT Slice
