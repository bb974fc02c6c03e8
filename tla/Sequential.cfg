SPECIFICATION TextSpec
CONSTANTS
  Chars = {0, 1}
  Size = 4
  Texts <- MCTexts
  Numbers <- MCNumbers
  MaxLength = 6
  Least <- ShortLeast
  Greatest = 32767
  Digits10 = 4
  HexDigits = 4
  Micros = 4
  Minute = 2
  Hour = 3
  DayHours = 2
  Zone = 5
  Summer = 2
  SummerBegin = 1065
  SummerEnd = 2501
  Turns = {525936, 2279136}
  Near = 512
  BlockBytes = 8
  LengthBytes = 2
  SizeBits = 16
  Rate = 5
  Blake2Bytes = 6
  CounterBits = 4
  KeyBytes = 4
  MaxBytes = 70
INVARIANTS NumbersReadBack Utf16RoundTrip DigestOfMessage AsStandardised TextsTellDates
PROPERTY ImplementsByteQueue
CHECK_DEADLOCK FALSE
