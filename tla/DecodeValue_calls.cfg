CONSTANTS
  Inputs <- AllInputs
  Lower <- MCLower
SPECIFICATION Spec
INVARIANTS FieldsDominant ErrorsExact NamedArrive UnnamedStay
CHECK_DEADLOCK FALSE
