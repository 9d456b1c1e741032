SPECIFICATION LoadSpec
CHECK_DEADLOCK FALSE
CONSTANTS
  main = main
  a = a
  b = b
  p = p
  q = q
  s = s
  x = x
  y = y
  Files = {main, a, b, p, q, s}
  Root = main
  Owner <- MCOwner
  Project = "app"
  Std = "std"
  Aliases = {x, y}
  Programs <- MCPrograms
  MaxDepth = 2
  MaxExpansions = 6
  MaxUnique = 3
  Shapes = {}
INVARIANTS
  VerdictRight
  PathsDelivered
  StructsThere
