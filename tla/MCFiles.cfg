CONSTANTS
  Proc = {p1, p2}
  Inum = {1, 2}
  NINODE = 2
  NFILE = 2
  NOFILE = 2
  None = None
SPECIFICATION Spec
SYMMETRY Symmetric
CHECK_DEADLOCK FALSE
INVARIANTS RefsExact FreedUnreached
