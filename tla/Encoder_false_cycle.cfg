CONSTANTS
  Inputs <- FieldInputs
  CycleCheckDepth = 1
SPECIFICATION Spec
INVARIANTS RefusedOnlyIfCyclic
CHECK_DEADLOCK FALSE
