---------------------------- MODULE MCSleepLock ----------------------------
EXTENDS SleepLock, TLC

Symmetry == Permutations(Proc)
=============================================================================
