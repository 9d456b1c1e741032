SPECIFICATION FairSpec
CHECK_DEADLOCK FALSE
CONSTANTS
  Threads = {t1, t2}
  Slots = {s1, s2, s3}
  Controls = {c1}
  None = None
INVARIANTS
  CountsHandles
  NoTouchAfterFree
  Clean
PROPERTIES
  AbstractSpec
  Reclaimed
