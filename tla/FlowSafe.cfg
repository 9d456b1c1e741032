SPECIFICATION Spec
CHECK_DEADLOCK FALSE
CONSTANTS
  Locals = {x}
  Tasks = {t}
  MaxDepth = 4
  Shapes = {}
INVARIANTS
  ReadsFindValues
  BeliefsTrue
  TasksJoinedOnce
