SPECIFICATION Spec
CONSTANTS
  Micros = 2
  Minute = 2
  Hour = 2
  DayHours = 3
  Zone = 1
  Summer = 0
  SummerBegin = 0
  SummerEnd = 0
  Days = {0, 2, 58, 364}
INVARIANT ReadsDbText
