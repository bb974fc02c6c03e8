SPECIFICATION FairSpec
CONSTANTS
  Producers = {p1, p2, p3}
  Nodes <- MCNodes
  Null = 0
  MaxItems = 4
INVARIANTS NoUseAfterFree FifoNoLoss EmptyOnlyBehindLink NoLeak
PROPERTY Delivered
CHECK_DEADLOCK FALSE
