SPECIFICATION Spec
CONSTANTS
  Proc = {p1, p2, p3}
  Block = {b1, b2, b3, b4}
  LOGSIZE = 4
  MAXOPBLOCKS = 2
  logsize = 4
  After = b4
  MaxOp = 3
  MaxCrash = 2
SYMMETRY Symmetry
INVARIANTS DurableWhenIdle SleepJustified
PROPERTY ImplementsAtomicDisk
CHECK_DEADLOCK FALSE
