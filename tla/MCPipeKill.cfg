CONSTANTS
  PIPESIZE = 2
  Wrap = 4
  Reader = {r1}
  Writer = {w1}
  Nobody = nobody
  a = a
  b = b
  Byte <- TwoBytes
  Message <- LongAndShort
  MaxRead = 1
  Victim = {r1}
SPECIFICATION FairSpec
PROPERTY KilledReturns
CHECK_DEADLOCK FALSE
