SPECIFICATION Spec
CONSTANT
  Objects <- FlowsAndPairs
INVARIANTS
  BlocksCarryFlow
  BackEdgesAreLoops
  LooplessPasses
CHECK_DEADLOCK FALSE
