CONSTANTS
  Proc = {p1, p2}
  NInum = 3
  MaxLink = 2
  Name = {"a", "d"}
  Call <- Calls
  None = None
SPECIFICATION Spec
SYMMETRY Symmetric
CHECK_DEADLOCK FALSE
INVARIANTS NamesCounted DirectoriesFormTree ReferencesHeld CirclesNeedIput
