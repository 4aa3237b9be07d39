CONSTANTS
  Heap <- MCHeap
  Root <- MCRoot
  Values <- MCValues
  Parts <- MCParts
  Paths <- MCPaths
  MaxCalls = 2
SPECIFICATION Spec
INVARIANTS TreesApart ReadFindsMatches
PROPERTIES DeleteExact 
CHECK_DEADLOCK FALSE
