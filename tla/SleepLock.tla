----------------------------- MODULE SleepLock -----------------------------
(***************************************************************************)
(* A sleep lock of sleeplock.c, down to the two spin locks that sleep()    *)
(* and wakeup() of proc.c take: lk->lk, which protects the fields of the   *)
(* lock, and ptable.lock, which protects the states of the processes.      *)
(*                                                                         *)
(* Each acquire and release of a spin lock that another process can come   *)
(* between is a step.  The switch away from a process that sleeps and the  *)
(* switch back (modelled in Proc and SpinLock) are one step each.          *)
(***************************************************************************)
CONSTANTS
  Proc,  \* the processes that use the lock
  None   \* nobody

ASSUME SleepLockAssumption == None \notin Proc

VARIABLES
  lkSpin,   \* holder of lk->lk
  ptSpin,   \* holder of ptable.lock
  locked,   \* lk->locked
  owner,    \* lk->pid, as the process it belongs to
  asleep,   \* the processes SLEEPING on lk
  pc

vars == <<lkSpin, ptSpin, locked, owner, asleep, pc>>

(* initsleeplock. *)
Init ==
  /\ lkSpin = None /\ ptSpin = None
  /\ locked = FALSE /\ owner = None
  /\ asleep = {}
  /\ pc = [p \in Proc |-> "out"]

Move(p, from, to) == pc[p] = from /\ pc' = [pc EXCEPT ![p] = to]

-----------------------------------------------------------------------------
(* acquiresleep(): acquire(&lk->lk). *)
Enter(p) ==
  /\ Move(p, "out", "test")
  /\ lkSpin = None /\ lkSpin' = p
  /\ UNCHANGED <<ptSpin, locked, owner, asleep>>

(* The while loop finds the lock free and takes it. *)
Take(p) ==
  /\ Move(p, "test", "in")
  /\ ~locked
  /\ locked' = TRUE /\ owner' = p
  /\ lkSpin' = None
  /\ UNCHANGED <<ptSpin, asleep>>

(* Mutant: sleep() does not take ptable.lock before it lets go of lk->lk.  *)
Sleep1Unlocked(p) ==
  /\ Move(p, "test", "sleep")
  /\ locked
  /\ lkSpin' = None
  /\ UNCHANGED <<ptSpin, locked, owner, asleep>>

(* The while loop finds it taken and calls sleep(), which acquires         *)
(* ptable.lock...                                                          *)
Sleep1(p) ==
  /\ Move(p, "test", "sleep")
  /\ locked
  /\ ptSpin = None /\ ptSpin' = p
  /\ UNCHANGED <<lkSpin, locked, owner, asleep>>

(* ... releases lk->lk ...                                                 *)
Sleep2(p) ==
  /\ Move(p, "sleep", "doze")
  /\ lkSpin' = None
  /\ UNCHANGED <<ptSpin, locked, owner, asleep>>

(* ... and switches away in state SLEEPING.                                *)
Sleep3(p) ==
  /\ Move(p, "doze", "asleep")
  /\ asleep' = asleep \cup {p}
  /\ ptSpin' = None
  /\ UNCHANGED <<lkSpin, locked, owner>>

(* Once RUNNABLE the process is switched to and releases ptable.lock...    *)
Wake(p) ==
  /\ Move(p, "asleep", "again")
  /\ p \notin asleep
  /\ ptSpin = None
  /\ UNCHANGED <<lkSpin, ptSpin, locked, owner, asleep>>

(* ... and acquires lk->lk before it looks at the lock again.              *)
Reenter(p) ==
  /\ Move(p, "again", "test")
  /\ lkSpin = None /\ lkSpin' = p
  /\ UNCHANGED <<ptSpin, locked, owner, asleep>>

-----------------------------------------------------------------------------
(* releasesleep(): acquire(&lk->lk). *)
Leave1(p) ==
  /\ Move(p, "in", "free")
  /\ lkSpin = None /\ lkSpin' = p
  /\ UNCHANGED <<ptSpin, locked, owner, asleep>>

(* Mutant: lk->pid keeps the last owner. *)
Leave2KeepsPid(p) ==
  /\ Move(p, "free", "wakeup")
  /\ locked' = FALSE
  /\ UNCHANGED <<lkSpin, ptSpin, owner, asleep>>

(* The fields are cleared. *)
Leave2(p) ==
  /\ Move(p, "free", "wakeup")
  /\ locked' = FALSE /\ owner' = None
  /\ UNCHANGED <<lkSpin, ptSpin, asleep>>

(* Mutant: wakeup() goes by the name of the lock, not its address. *)
Leave3Misses(p) ==
  /\ Move(p, "wakeup", "unlock")
  /\ ptSpin = None
  /\ UNCHANGED <<lkSpin, ptSpin, locked, owner, asleep>>

(* wakeup(lk), under ptable.lock. *)
Leave3(p) ==
  /\ Move(p, "wakeup", "unlock")
  /\ ptSpin = None
  /\ asleep' = {}
  /\ UNCHANGED <<lkSpin, ptSpin, locked, owner>>

(* release(&lk->lk). *)
Leave4(p) ==
  /\ Move(p, "unlock", "out")
  /\ lkSpin' = None
  /\ UNCHANGED <<ptSpin, locked, owner, asleep>>

(* kill(p), by anyone, wakes p before the lock is free. *)
Kill(p) ==
  /\ p \in asleep /\ ptSpin = None
  /\ asleep' = asleep \ {p}
  /\ UNCHANGED <<lkSpin, ptSpin, locked, owner, pc>>

-----------------------------------------------------------------------------
Step(p) ==
  \/ Take(p) \/ Sleep1(p) \/ Sleep2(p) \/ Sleep3(p) \/ Wake(p) \/ Reenter(p)
  \/ Leave1(p) \/ Leave2(p) \/ Leave3(p) \/ Leave4(p)

Next == \E p \in Proc : Enter(p) \/ Step(p) \/ Kill(p)

Spec == Init /\ [][Next]_vars

(* Every process that is not asleep runs on, the owner releases the lock   *)
(* in the end, as every caller in the file system does, and a process that *)
(* spins for a spin lock gets it in the end.                               *)
FairSpec == Spec /\ \A p \in Proc : SF_vars(Step(p))

-----------------------------------------------------------------------------
(* Properties. *)

(* Every variable has its type, and only a process in sleep() is SLEEPING. *)
TypeOK ==
  /\ lkSpin \in Proc \cup {None} /\ ptSpin \in Proc \cup {None}
  /\ locked \in BOOLEAN /\ owner \in Proc \cup {None}
  /\ asleep \subseteq {p \in Proc : pc[p] = "asleep"}
  /\ pc \in [Proc -> {"out", "test", "in", "sleep", "doze", "asleep", "again",
                      "free", "wakeup", "unlock"}]

(* Between acquiresleep() and the clearing of the fields in releasesleep() *)
(* a process is alone and is the one holdingsleep() answers yes to.        *)
MutualExclusion ==
  \A p \in Proc : pc[p] \in {"in", "free"} <=> locked /\ owner = p

(* No wakeup is lost: while a process sleeps the lock is taken, or the     *)
(* process that cleared it has yet to call wakeup().                       *)
NoLostWakeup ==
  asleep # {} => locked \/ \E p \in Proc : pc[p] = "wakeup"

(* The sleep lock is a mutex: sleeping, waking and being killed in between *)
(* show in nothing but the order in which processes get it.                *)
Abstract == INSTANCE Mutex
ImplementsMutex == Abstract!Spec

(* A process that went to sleep for the lock is woken: releasesleep()      *)
(* wakes whoever waits, and nobody holds a spin lock while it waits.       *)
SleepersWoken == \A p \in Proc : p \in asleep ~> p \notin asleep

-----------------------------------------------------------------------------
(* The parts that make the conjunction of the invariants inductive. *)

(* lk->lk is held exactly between its acquire and its release. *)
LkSpinInv ==
  \A p \in Proc :
    pc[p] \in {"test", "sleep", "free", "wakeup", "unlock"} <=> lkSpin = p

(* ptable.lock is held exactly from sleep() to the switch. *)
PtSpinInv == \A p \in Proc : pc[p] \in {"sleep", "doze"} <=> ptSpin = p

(* A process that has let go of lk->lk on its way to sleep holds           *)
(* ptable.lock: the owner cannot have called wakeup() in between.          *)
DozeInv ==
  /\ \A p \in Proc : pc[p] \in {"sleep", "doze"} =>
       locked \/ \E q \in Proc : pc[q] = "wakeup"
  /\ ~locked => owner = None

IInv ==
  /\ TypeOK /\ MutualExclusion /\ NoLostWakeup
  /\ LkSpinInv /\ PtSpinInv /\ DozeInv

=============================================================================
