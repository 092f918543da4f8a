SPECIFICATION Spec
INVARIANTS CompletedOnce
CHECK_DEADLOCK FALSE
