CONSTANTS
  Inputs <- MethodInputs
  Lower <- MCLower
SPECIFICATION Spec
INVARIANTS RestDecoded
CHECK_DEADLOCK FALSE
