SPECIFICATION Spec
CONSTANT MaxCreated = 5
INVARIANT UniquePids
CHECK_DEADLOCK FALSE
