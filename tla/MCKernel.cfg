CONSTANTS
  CPU = {c1, c2}
  NoCPU = nobody
  Thread = {t1, t2}
  Lock = {lk}
  ptable = ptable
  None = None
  Inum = {i1, i2}
SYMMETRY Symmetry
SPECIFICATION KernelSpec
INVARIANTS
  SpinLocksSound
  MemoryAccounted
  FilesKeepBytes
  ConsoleSound
  FlockExclusive
  KeysAsTyped
PROPERTY ImplementsLineInput
