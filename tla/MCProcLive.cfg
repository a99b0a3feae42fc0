CONSTANTS
  NPROC = 3
  CPU = {c1}
  NoCPU = nobody
  Chan = {}
  Priority = {}
  KillPid = {2, 3}
  MaxPid = 3
SPECIFICATION FairSpec
PROPERTIES EligibleRuns KilledExits OrphansReaped
CHECK_DEADLOCK FALSE
