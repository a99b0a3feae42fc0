CONSTANTS
  PIPESIZE = 2
  Wrap = 4
  Reader = {r1}
  Writer = {w1, w2}
  Nobody = nobody
  a = a
  b = b
  Byte <- TwoBytes
  Message <- LongAndShort
  MaxRead = 2
  Victim = {r1, w1}
SPECIFICATION FairSpec
INVARIANT SleepersWait
PROPERTIES ImplementsFifo CallsReturn
CHECK_DEADLOCK FALSE
