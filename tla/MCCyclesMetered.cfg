SPECIFICATION Spec
CONSTANT
  Objects <- Loops
INVARIANT CyclesMetered
CHECK_DEADLOCK FALSE
