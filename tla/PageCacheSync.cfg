SPECIFICATION Spec
INVARIANTS WritesKept
CHECK_DEADLOCK FALSE
