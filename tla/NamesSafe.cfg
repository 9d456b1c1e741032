SPECIFICATION WalkSpec
CONSTANTS
  This = This
  s = s
  t = t
  c = c
  f = f
  k = k
  al = al
  h = h
  u = u
  nm = nm
  Names = {This, s, c, f, k, al, h, u, t, nm}
  Kind <- MCKind
  RootKind <- MCRootKind
  MaxDepth = 2
  MaxLocals = 2
INVARIANTS
  ShadowIsScope
  MeaningKept
