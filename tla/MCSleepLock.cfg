CONSTANTS
  Proc = {p1, p2, p3, p4}
  None = nobody
SPECIFICATION FairSpec
INVARIANT NoLostWakeup
PROPERTIES ImplementsMutex SleepersWoken
