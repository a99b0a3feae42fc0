CONSTANTS
  Proc = {p1, p2}
  Buf = {b1, b2}
  Block = {k1, k2, k3}
  Val = {0, 1}
  None = None
  Faulty = {k1, k2}
  Written = {k1}
  Zero = 0
SPECIFICATION Spec
CHECK_DEADLOCK FALSE
INVARIANT BuffersConsistent
PROPERTIES BlocksSpec BreadReturns
