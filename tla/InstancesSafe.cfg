SPECIFICATION Spec
CONSTANTS
  P = P
  G = G
  main = main
  g = g
  large = large
  ClassTypes = {P, G}
  PlainClasses = {P}
  Functions = {main}
  Generics = {g, large}
  Oversized = {large}
  Programs <- UpTo3
INVARIANTS
  AllLowered
  OnceOnly
PROPERTY
  Ends
CHECK_DEADLOCK FALSE
