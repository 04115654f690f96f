CONSTANT Loops = 2
SPECIFICATION Spec
INVARIANTS ExactCounts WholeResults StartedInOrder
PROPERTY AllFinish
CHECK_DEADLOCK FALSE
