SPECIFICATION Spec
CONSTANTS
  thread1 = thread1  thread2 = thread2
  terminal = terminal  file = file
  Threads = {thread1, thread2}
  Destinations = {terminal, file}
  Stdout = terminal
  NoFunc = NoFunc
  MaxIndex = 1
  Seconds = {1, 2}
  MaxStatements = 3
  MaxSettings = 2
SYMMETRY ThreadSymmetry
INVARIANTS FlushesWhereItWrites TimeIsOwn
CHECK_DEADLOCK FALSE
