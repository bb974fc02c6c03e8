SPECIFICATION Spec
CONSTANTS
  Producers = {p1, p2}
  Nodes <- MCNodes
  Null = 0
  MaxItems = 4
INVARIANT CompletedIsVisible
CHECK_DEADLOCK FALSE
