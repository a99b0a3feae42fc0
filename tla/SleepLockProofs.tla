--------------------------- MODULE SleepLockProofs ---------------------------
(***************************************************************************)
(* IInv is an inductive invariant of the sleep lock for any number of      *)
(* processes; with it every step of the sleep lock is a step of the mutex  *)
(* or leaves the mutex alone.                                              *)
(***************************************************************************)
EXTENDS SleepLock, TLAPS

LEMMA InitIInv == Init => IInv
BY SleepLockAssumption DEF Init, IInv, TypeOK, MutualExclusion, NoLostWakeup, LkSpinInv,
                           PtSpinInv, DozeInv

(* acquiresleep() acquires lk->lk. *)
LEMMA EnterStep == ASSUME IInv, NEW p \in Proc, Enter(p) PROVE IInv'
<1> USE SleepLockAssumption DEF IInv, TypeOK, Enter, Move
<1>1. TypeOK' OBVIOUS
<1>2. MutualExclusion' BY DEF MutualExclusion, LkSpinInv, DozeInv
<1>3. NoLostWakeup' BY DEF NoLostWakeup, LkSpinInv, DozeInv
<1>4. LkSpinInv' BY DEF LkSpinInv
<1>5. PtSpinInv' BY DEF PtSpinInv
<1>6. DozeInv' BY DEF DozeInv, MutualExclusion, LkSpinInv, PtSpinInv
<1> QED BY <1>1, <1>2, <1>3, <1>4, <1>5, <1>6 DEF IInv

(* acquiresleep() takes the lock. *)
LEMMA TakeStep == ASSUME IInv, NEW p \in Proc, Take(p) PROVE IInv'
<1> USE SleepLockAssumption DEF IInv, TypeOK, Take, Move
<1>1. TypeOK' OBVIOUS
<1>2. MutualExclusion' BY DEF MutualExclusion, LkSpinInv, DozeInv
<1>3. NoLostWakeup' BY DEF NoLostWakeup, LkSpinInv, DozeInv
<1>4. LkSpinInv' BY DEF LkSpinInv
<1>5. PtSpinInv' BY DEF PtSpinInv
<1>6. DozeInv' BY DEF DozeInv, MutualExclusion, LkSpinInv, PtSpinInv
<1> QED BY <1>1, <1>2, <1>3, <1>4, <1>5, <1>6 DEF IInv

(* sleep() acquires ptable.lock. *)
LEMMA Sleep1Step == ASSUME IInv, NEW p \in Proc, Sleep1(p) PROVE IInv'
<1> USE SleepLockAssumption DEF IInv, TypeOK, Sleep1, Move
<1>1. TypeOK' OBVIOUS
<1>2. MutualExclusion' BY DEF MutualExclusion, LkSpinInv, DozeInv
<1>3. NoLostWakeup' BY DEF NoLostWakeup, LkSpinInv, DozeInv
<1>4. LkSpinInv' BY DEF LkSpinInv
<1>5. PtSpinInv' BY DEF PtSpinInv
<1>6. DozeInv' BY DEF DozeInv, MutualExclusion, LkSpinInv, PtSpinInv
<1> QED BY <1>1, <1>2, <1>3, <1>4, <1>5, <1>6 DEF IInv

(* sleep() releases lk->lk. *)
LEMMA Sleep2Step == ASSUME IInv, NEW p \in Proc, Sleep2(p) PROVE IInv'
<1> USE SleepLockAssumption DEF IInv, TypeOK, Sleep2, Move
<1>1. TypeOK' OBVIOUS
<1>2. MutualExclusion' BY DEF MutualExclusion, LkSpinInv, DozeInv
<1>3. NoLostWakeup' BY DEF NoLostWakeup, LkSpinInv, DozeInv
<1>4. LkSpinInv' BY DEF LkSpinInv
<1>5. PtSpinInv' BY DEF PtSpinInv
<1>6. DozeInv' BY DEF DozeInv, MutualExclusion, LkSpinInv, PtSpinInv
<1> QED BY <1>1, <1>2, <1>3, <1>4, <1>5, <1>6 DEF IInv

(* The process becomes SLEEPING. *)
LEMMA Sleep3Step == ASSUME IInv, NEW p \in Proc, Sleep3(p) PROVE IInv'
<1> USE SleepLockAssumption DEF IInv, TypeOK, Sleep3, Move
<1>1. TypeOK' OBVIOUS
<1>2. MutualExclusion' BY DEF MutualExclusion, LkSpinInv, DozeInv
<1>3. NoLostWakeup' BY DEF NoLostWakeup, LkSpinInv, DozeInv
<1>4. LkSpinInv' BY DEF LkSpinInv
<1>5. PtSpinInv' BY DEF PtSpinInv
<1>6. DozeInv' BY DEF DozeInv, MutualExclusion, LkSpinInv, PtSpinInv
<1> QED BY <1>1, <1>2, <1>3, <1>4, <1>5, <1>6 DEF IInv

(* The process is switched to again. *)
LEMMA WakeStep == ASSUME IInv, NEW p \in Proc, Wake(p) PROVE IInv'
<1> USE SleepLockAssumption DEF IInv, TypeOK, Wake, Move
<1>1. TypeOK' OBVIOUS
<1>2. MutualExclusion' BY DEF MutualExclusion, LkSpinInv, DozeInv
<1>3. NoLostWakeup' BY DEF NoLostWakeup, LkSpinInv, DozeInv
<1>4. LkSpinInv' BY DEF LkSpinInv
<1>5. PtSpinInv' BY DEF PtSpinInv
<1>6. DozeInv' BY DEF DozeInv, MutualExclusion, LkSpinInv, PtSpinInv
<1> QED BY <1>1, <1>2, <1>3, <1>4, <1>5, <1>6 DEF IInv

(* sleep() reacquires lk->lk. *)
LEMMA ReenterStep == ASSUME IInv, NEW p \in Proc, Reenter(p) PROVE IInv'
<1> USE SleepLockAssumption DEF IInv, TypeOK, Reenter, Move
<1>1. TypeOK' OBVIOUS
<1>2. MutualExclusion' BY DEF MutualExclusion, LkSpinInv, DozeInv
<1>3. NoLostWakeup' BY DEF NoLostWakeup, LkSpinInv, DozeInv
<1>4. LkSpinInv' BY DEF LkSpinInv
<1>5. PtSpinInv' BY DEF PtSpinInv
<1>6. DozeInv' BY DEF DozeInv, MutualExclusion, LkSpinInv, PtSpinInv
<1> QED BY <1>1, <1>2, <1>3, <1>4, <1>5, <1>6 DEF IInv

(* releasesleep() acquires lk->lk. *)
LEMMA Leave1Step == ASSUME IInv, NEW p \in Proc, Leave1(p) PROVE IInv'
<1> USE SleepLockAssumption DEF IInv, TypeOK, Leave1, Move
<1>1. TypeOK' OBVIOUS
<1>2. MutualExclusion' BY DEF MutualExclusion, LkSpinInv, DozeInv
<1>3. NoLostWakeup' BY DEF NoLostWakeup, LkSpinInv, DozeInv
<1>4. LkSpinInv' BY DEF LkSpinInv
<1>5. PtSpinInv' BY DEF PtSpinInv
<1>6. DozeInv' BY DEF DozeInv, MutualExclusion, LkSpinInv, PtSpinInv
<1> QED BY <1>1, <1>2, <1>3, <1>4, <1>5, <1>6 DEF IInv

(* releasesleep() clears the fields. *)
LEMMA Leave2Step == ASSUME IInv, NEW p \in Proc, Leave2(p) PROVE IInv'
<1> USE SleepLockAssumption DEF IInv, TypeOK, Leave2, Move
<1>1. TypeOK' OBVIOUS
<1>2. MutualExclusion' BY DEF MutualExclusion, LkSpinInv, DozeInv
<1>3. NoLostWakeup' BY DEF NoLostWakeup, LkSpinInv, DozeInv
<1>4. LkSpinInv' BY DEF LkSpinInv
<1>5. PtSpinInv' BY DEF PtSpinInv
<1>6. DozeInv' BY DEF DozeInv, MutualExclusion, LkSpinInv, PtSpinInv
<1> QED BY <1>1, <1>2, <1>3, <1>4, <1>5, <1>6 DEF IInv

(* releasesleep() wakes the sleepers. *)
LEMMA Leave3Step == ASSUME IInv, NEW p \in Proc, Leave3(p) PROVE IInv'
<1> USE SleepLockAssumption DEF IInv, TypeOK, Leave3, Move
<1>1. TypeOK' OBVIOUS
<1>2. MutualExclusion' BY DEF MutualExclusion, LkSpinInv, DozeInv
<1>3. NoLostWakeup' BY DEF NoLostWakeup, LkSpinInv, DozeInv
<1>4. LkSpinInv' BY DEF LkSpinInv
<1>5. PtSpinInv' BY DEF PtSpinInv
<1>6. DozeInv' BY DEF DozeInv, MutualExclusion, LkSpinInv, PtSpinInv
<1> QED BY <1>1, <1>2, <1>3, <1>4, <1>5, <1>6 DEF IInv

(* releasesleep() releases lk->lk. *)
LEMMA Leave4Step == ASSUME IInv, NEW p \in Proc, Leave4(p) PROVE IInv'
<1> USE SleepLockAssumption DEF IInv, TypeOK, Leave4, Move
<1>1. TypeOK' OBVIOUS
<1>2. MutualExclusion' BY DEF MutualExclusion, LkSpinInv, DozeInv
<1>3. NoLostWakeup' BY DEF NoLostWakeup, LkSpinInv, DozeInv
<1>4. LkSpinInv' BY DEF LkSpinInv
<1>5. PtSpinInv' BY DEF PtSpinInv
<1>6. DozeInv' BY DEF DozeInv, MutualExclusion, LkSpinInv, PtSpinInv
<1> QED BY <1>1, <1>2, <1>3, <1>4, <1>5, <1>6 DEF IInv

(* kill() wakes a sleeper. *)
LEMMA KillStep == ASSUME IInv, NEW p \in Proc, Kill(p) PROVE IInv'
<1> USE SleepLockAssumption DEF IInv, TypeOK, Kill, Move
<1>1. TypeOK' OBVIOUS
<1>2. MutualExclusion' BY DEF MutualExclusion, LkSpinInv, DozeInv
<1>3. NoLostWakeup' BY DEF NoLostWakeup, LkSpinInv, DozeInv
<1>4. LkSpinInv' BY DEF LkSpinInv
<1>5. PtSpinInv' BY DEF PtSpinInv
<1>6. DozeInv' BY DEF DozeInv, MutualExclusion, LkSpinInv, PtSpinInv
<1> QED BY <1>1, <1>2, <1>3, <1>4, <1>5, <1>6 DEF IInv

LEMMA NextIInv == ASSUME IInv, [Next]_vars PROVE IInv'
<1>1. CASE UNCHANGED vars
  BY <1>1 DEF vars, IInv, TypeOK, MutualExclusion, NoLostWakeup, LkSpinInv, PtSpinInv, DozeInv
<1>2. CASE Next
  BY <1>2, EnterStep, TakeStep, Sleep1Step, Sleep2Step, Sleep3Step, WakeStep,
     ReenterStep, Leave1Step, Leave2Step, Leave3Step, Leave4Step, KillStep DEF Next, Step
<1>3. QED BY <1>1, <1>2

(* The strengthened invariant holds for any number of processes. *)
THEOREM IInvHolds == Spec => []IInv
BY InitIInv, NextIInv, PTL DEF Spec

(* The fields of the lock and the places of the processes keep their types. *)
THEOREM TypeCorrect == Spec => []TypeOK
<1>1. IInv => TypeOK BY DEF IInv
<1>2. QED BY <1>1, IInvHolds, PTL

(* acquiresleep() and releasesleep() exclude each other's callers. *)
THEOREM Exclusion == Spec => []MutualExclusion
<1>1. IInv => MutualExclusion BY DEF IInv
<1>2. QED BY <1>1, IInvHolds, PTL

(* sleep() takes ptable.lock before it releases lk->lk: no wakeup is lost. *)
THEOREM WakeupKept == Spec => []NoLostWakeup
<1>1. IInv => NoLostWakeup BY DEF IInv
<1>2. QED BY <1>1, IInvHolds, PTL

(* The sleep lock implements the mutex. *)
THEOREM Refinement == Spec => ImplementsMutex
<1>1. Init => Abstract!Init BY DEF Init, Abstract!Init
<1>2. ASSUME IInv, [Next]_vars PROVE [Abstract!Next]_owner
  <2>1. ASSUME NEW p \in Proc, Take(p) PROVE Abstract!Next
    BY <1>2, <2>1 DEF Take, IInv, DozeInv, Abstract!Next, Abstract!Acquire
  <2>2. ASSUME NEW p \in Proc, Leave2(p) PROVE Abstract!Next
    BY <1>2, <2>2 DEF Leave2, Move, IInv, TypeOK, MutualExclusion, Abstract!Next, Abstract!Release
  <2>3. ASSUME NEW p \in Proc,
               \/ Enter(p) \/ Sleep1(p) \/ Sleep2(p) \/ Sleep3(p) \/ Wake(p) \/ Reenter(p)
               \/ Leave1(p) \/ Leave3(p) \/ Leave4(p) \/ Kill(p)
        PROVE  owner' = owner
    BY <2>3 DEF Enter, Sleep1, Sleep2, Sleep3, Wake, Reenter, Leave1, Leave3, Leave4, Kill
  <2>4. CASE UNCHANGED vars BY <2>4 DEF vars
  <2>5. QED BY <1>2, <2>1, <2>2, <2>3, <2>4 DEF Next, Step
<1>3. QED BY <1>1, <1>2, IInvHolds, PTL DEF Spec, ImplementsMutex, Abstract!Spec

=============================================================================
