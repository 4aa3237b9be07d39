CONSTANTS
  Inputs <- AllInputs
  CycleCheckDepth = 1
SPECIFICATION FairSpec
INVARIANTS StackBalanced OutputIsValue CommentsBeside
PROPERTIES EncodeReturns
CHECK_DEADLOCK FALSE
