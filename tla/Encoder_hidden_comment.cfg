CONSTANTS
  Inputs <- LineInputs
  CycleCheckDepth = 1
SPECIFICATION Spec
INVARIANTS NothingHidden
CHECK_DEADLOCK FALSE
