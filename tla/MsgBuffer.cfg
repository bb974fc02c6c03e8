SPECIFICATION Spec
CONSTANTS
  Bytes = {0, 1}
  Zero = 0
  Base = 2
  Widths = {1, 2, 4}
  Offset = 2
  ExtLen = 2
  InitLen = 2
  Inputs <- MCInputs
  MaxReadable = 5
VIEW ReadableView
INVARIANTS CapacityBounded IntegersTravel
PROPERTY ImplementsByteQueue
CHECK_DEADLOCK FALSE
