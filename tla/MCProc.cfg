CONSTANTS
  NPROC = 4
  CPU = {c1, c2}
  NoCPU = nobody
  Chan = {ch}
  Priority = {5}
  KillPid = {0, 1, 2, 3}
  MaxPid = 4
SYMMETRY Symmetry
SPECIFICATION Spec
CONSTRAINTS NiceOrKill FamilyOnOneCPU
INVARIANTS CpuExclusive ForkExclusive ParentAlive WaitJustified
