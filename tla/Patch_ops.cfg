CONSTANTS
  Heap <- MCHeap
  Docs <- MCDocs
  PatchOps <- AllOps
  MaxOps = 2
SPECIFICATION Spec
INVARIANTS TypeOK NothingShared
PROPERTIES ImplementsRFC 
CHECK_DEADLOCK FALSE
