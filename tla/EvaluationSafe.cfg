SPECIFICATION Spec
CONSTANTS
    Programs <- MCPrograms
    Uses <- MCUses
INVARIANT InOrder
INVARIANT OnceEach
INVARIANT OwnedOnce
CHECK_DEADLOCK FALSE
