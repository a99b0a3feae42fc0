------------------------------ MODULE SpinLock ------------------------------
(***************************************************************************)
(* Spin locks, the nesting of cli and sti, and the switch between kernel   *)
(* contexts that carries a lock across: spinlock.c with sched() and        *)
(* scheduler() of proc.c and the interrupt entry of trap.c.                *)
(*                                                                         *)
(* A context is a process in the kernel or the scheduler of a CPU, which   *)
(* is written as that CPU.  An interrupt runs on top of the context of its *)
(* CPU.  Each access to lk->locked and lk->cpu that another CPU can see is *)
(* a step of its own.                                                      *)
(*                                                                         *)
(* The clients follow the order of the kernel: ptable.lock is taken last,  *)
(* and one other lock at most is held before it.                           *)
(***************************************************************************)
EXTENDS Naturals, FiniteSets

CONSTANTS
  CPU,     \* the processors
  NoCPU,   \* lk->cpu of a lock nobody holds
  Thread,  \* the processes
  Lock,    \* the locks other than ptable.lock
  ptable   \* ptable.lock

ASSUME SpinLockAssumption ==
  /\ NoCPU \notin CPU
  /\ CPU \cap Thread = {}
  /\ ptable \notin Lock

VARIABLES
  locked, lcpu,   \* struct spinlock: locked and cpu
  ncli, intena,   \* struct cpu
  ints,           \* the interrupt flag of each CPU
  cur,            \* the context each CPU executes
  pc, want, held, \* per context: place, the lock it is about, the locks it has
  intr,           \* the context is in an interrupt handler
  fresh,          \* the process has not yet been to user space
  saved           \* the local intena of sched()

vars == <<locked, lcpu, ncli, intena, ints, cur, pc, want, held, intr, fresh, saved>>

Locks == Lock \cup {ptable}
Context == Thread \cup CPU

Init ==
  /\ locked = [l \in Locks |-> FALSE]
  /\ lcpu = [l \in Locks |-> NoCPU]
  /\ ncli = [c \in CPU |-> 0]
  /\ intena = [c \in CPU |-> FALSE]
  /\ ints = [c \in CPU |-> FALSE]
  /\ cur = [c \in CPU |-> c]
  /\ pc = [x \in Context |-> IF x \in CPU THEN "run" ELSE "new"]
  /\ want = [x \in Context |-> ptable]
  /\ held = [x \in Context |-> {}]
  /\ intr = [x \in Context |-> FALSE]
  /\ fresh = [t \in Thread |-> TRUE]
  /\ saved = [t \in Thread |-> FALSE]

-----------------------------------------------------------------------------
At(c, p) == pc[cur[c]] = p
Goto(c, p) == pc' = [pc EXCEPT ![cur[c]] = p]

(* Locks the context of c may ask for next. *)
MayAcquire(c, l) ==
  LET x == cur[c] IN
  /\ l \notin held[x]
  /\ l # ptable => held[x] = {}
  /\ x \in CPU /\ ~intr[x] => l = ptable /\ ints[c]  \* scheduler: after its sti()

(* acquire(): pushcli(). *)
pushcli(c, l) ==
  /\ At(c, "run") /\ MayAcquire(c, l)
  /\ want' = [want EXCEPT ![cur[c]] = l]
  /\ intena' = [intena EXCEPT ![c] = IF ncli[c] = 0 THEN ints[c] ELSE @]
  /\ ints' = [ints EXCEPT ![c] = FALSE]
  /\ ncli' = [ncli EXCEPT ![c] = @ + 1]
  /\ Goto(c, "test")
  /\ UNCHANGED <<locked, lcpu, cur, held, intr, fresh, saved>>

(* acquire(): holding() reads lk->locked, then lk->cpu, of a lock that     *)
(* other CPUs are acquiring and releasing meanwhile.                       *)
HoldingLocked(c) ==
  /\ At(c, "test")
  /\ Goto(c, IF locked[want[cur[c]]] THEN "testcpu" ELSE "xchg")
  /\ UNCHANGED <<locked, lcpu, ncli, intena, ints, cur, want, held, intr, fresh, saved>>

HoldingCpu(c) ==
  /\ At(c, "testcpu")
  /\ Goto(c, IF lcpu[want[cur[c]]] = c THEN "panic" ELSE "xchg")
  /\ UNCHANGED <<locked, lcpu, ncli, intena, ints, cur, want, held, intr, fresh, saved>>

(* What the loop around xchg waits for. *)
XchgFree(l) == ~locked[l]

(* acquire(): the xchg that ends the loop. *)
Xchg(c) ==
  LET l == want[cur[c]] IN
  /\ At(c, "xchg")
  /\ XchgFree(l)
  /\ locked' = [locked EXCEPT ![l] = TRUE]
  /\ held' = [held EXCEPT ![cur[c]] = @ \cup {l}]
  /\ Goto(c, "setcpu")
  /\ UNCHANGED <<lcpu, ncli, intena, ints, cur, want, intr, fresh, saved>>

(* acquire(): lk->cpu = mycpu(). *)
SetCpu(c) ==
  /\ At(c, "setcpu")
  /\ lcpu' = [lcpu EXCEPT ![want[cur[c]]] = c]
  /\ Goto(c, "run")
  /\ UNCHANGED <<locked, ncli, intena, ints, cur, want, held, intr, fresh, saved>>

(* release(): lk->cpu = 0. *)
ClearCpu(l) == [lcpu EXCEPT ![l] = NoCPU]

(* release(): the check, then lk->cpu is cleared while the lock is still   *)
(* held.                                                                   *)
Release(c, l) ==
  /\ At(c, "run") /\ l \in held[cur[c]]
  /\ want' = [want EXCEPT ![cur[c]] = l]
  /\ IF locked[l] /\ lcpu[l] = c
     THEN lcpu' = ClearCpu(l) /\ Goto(c, "unlock")
     ELSE lcpu' = lcpu /\ Goto(c, "panic")
  /\ UNCHANGED <<locked, ncli, intena, ints, cur, held, intr, fresh, saved>>

(* release(): movl $0, lk->locked. *)
Unlock(c) ==
  LET l == want[cur[c]] IN
  /\ At(c, "unlock")
  /\ locked' = [locked EXCEPT ![l] = FALSE]
  /\ held' = [held EXCEPT ![cur[c]] = @ \ {l}]
  /\ Goto(c, "popcli")
  /\ UNCHANGED <<lcpu, ncli, intena, ints, cur, want, intr, fresh, saved>>

(* Mutant: the first popcli() of a nest turns interrupts on. *)
StiAtAnyDepth(c) == intena[c]

(* popcli() turns interrupts on. *)
StiNow(c) == ncli[c] = 1 /\ intena[c]

(* --mycpu()->ncli. *)
NestLess(c) == ncli[c] - 1

(* release(): popcli(). *)
popcli(c) ==
  /\ At(c, "popcli")
  /\ IF ints[c] \/ ncli[c] = 0
     THEN Goto(c, "panic") /\ UNCHANGED <<ncli, ints>>
     ELSE /\ ncli' = [ncli EXCEPT ![c] = NestLess(c)]
          /\ ints' = [ints EXCEPT ![c] = StiNow(c)]
          /\ Goto(c, "run")
  /\ UNCHANGED <<locked, lcpu, intena, cur, want, held, intr, fresh, saved>>

-----------------------------------------------------------------------------
(* An interrupt is taken wherever interrupts are on; the gate turns them   *)
(* off.                                                                    *)
Interrupt(c) ==
  /\ ints[c]
  /\ intr' = [intr EXCEPT ![cur[c]] = TRUE]
  /\ ints' = [ints EXCEPT ![c] = FALSE]
  /\ UNCHANGED <<locked, lcpu, ncli, intena, cur, pc, want, held, fresh, saved>>

(* The end of the handler: iret restores the flag. *)
Iret(c) ==
  /\ At(c, "run") /\ intr[cur[c]] /\ held[cur[c]] = {}
  /\ intr' = [intr EXCEPT ![cur[c]] = FALSE]
  /\ ints' = [ints EXCEPT ![c] = TRUE]
  /\ UNCHANGED <<locked, lcpu, ncli, intena, cur, pc, want, held, fresh, saved>>

(* A new process goes to user space: trapret loads FL_IF. *)
TrapRet(c) ==
  LET x == cur[c] IN
  /\ x \in Thread /\ At(c, "run") /\ fresh[x] /\ held[x] = {} /\ ~intr[x]
  /\ fresh' = [fresh EXCEPT ![x] = FALSE]
  /\ ints' = [ints EXCEPT ![c] = TRUE]
  /\ UNCHANGED <<locked, lcpu, ncli, intena, cur, pc, want, held, intr, saved>>

-----------------------------------------------------------------------------
(* sched(): the checks, intena saved, and the switch to the scheduler of   *)
(* this CPU, which now has ptable.lock.  A process that exits never comes  *)
(* back; its slot is that of a new process later.                          *)
sched(c, exits) ==
  LET x == cur[c] IN
  /\ x \in Thread /\ At(c, "run")
  /\ held[x] = {ptable}  \* sleep() has released the caller's lock
  /\ IF ~locked[ptable] \/ lcpu[ptable] # c \/ ncli[c] # 1 \/ ints[c]
     THEN Goto(c, "panic") /\ UNCHANGED <<cur, held, intr, fresh, saved>>
     ELSE /\ saved' = [saved EXCEPT ![x] = intena[c]]
          /\ cur' = [cur EXCEPT ![c] = c]
          /\ held' = [held EXCEPT ![x] = {}, ![c] = {ptable}]
          /\ pc' = [pc EXCEPT ![x] = IF exits THEN "new" ELSE "off"]
          /\ intr' = [intr EXCEPT ![x] = @ /\ ~exits]
          /\ fresh' = [fresh EXCEPT ![x] = @ \/ exits]
  /\ UNCHANGED <<locked, lcpu, ncli, intena, ints, want>>

(* scheduler(): the switch to process t, which comes out of sched() or, if *)
(* it is new, of forkret().                                                *)
swtch(c, t) ==
  /\ cur[c] = c /\ At(c, "run") /\ held[c] = {ptable} /\ ~intr[c]
  /\ pc[t] \in {"off", "new"}
  /\ cur' = [cur EXCEPT ![c] = t]
  /\ held' = [held EXCEPT ![c] = {}, ![t] = {ptable}]
  /\ pc' = [pc EXCEPT ![t] = IF pc[t] = "new" THEN "run" ELSE "back"]
  /\ UNCHANGED <<locked, lcpu, ncli, intena, ints, want, intr, fresh, saved>>

(* The intena a process finds when sched() returns. *)
RestoreIntena(c) == saved[cur[c]]

(* sched() returns, on any CPU. *)
SchedReturn(c) ==
  /\ cur[c] \in Thread /\ At(c, "back")
  /\ intena' = [intena EXCEPT ![c] = RestoreIntena(c)]
  /\ Goto(c, "run")
  /\ UNCHANGED <<locked, lcpu, ncli, ints, cur, want, held, intr, fresh, saved>>

(* scheduler(): sti() at the head of its loop. *)
Sti(c) ==
  /\ cur[c] = c /\ At(c, "run") /\ held[c] = {} /\ ~intr[c] /\ ~ints[c]
  /\ ints' = [ints EXCEPT ![c] = TRUE]
  /\ UNCHANGED <<locked, lcpu, ncli, intena, cur, pc, want, held, intr, fresh, saved>>

-----------------------------------------------------------------------------
Step(c) ==
  \/ \E l \in Locks : pushcli(c, l) \/ Release(c, l)
  \/ HoldingLocked(c) \/ HoldingCpu(c) \/ Xchg(c) \/ SetCpu(c)
  \/ Unlock(c) \/ popcli(c)
  \/ Interrupt(c) \/ Iret(c) \/ TrapRet(c)
  \/ \E e \in BOOLEAN : sched(c, e)
  \/ \E t \in Thread : swtch(c, t)
  \/ SchedReturn(c) \/ Sti(c)

Next == \E c \in CPU : Step(c)

Spec == Init /\ [][Next]_vars

-----------------------------------------------------------------------------
(* Properties. *)

(* Every variable has its type; cli is nested no deeper than locks are. *)
TypeOK ==
  /\ locked \in [Locks -> BOOLEAN] /\ lcpu \in [Locks -> CPU \cup {NoCPU}]
  /\ ncli \in [CPU -> 0 .. 2] /\ intena \in [CPU -> BOOLEAN] /\ ints \in [CPU -> BOOLEAN]
  /\ cur \in [CPU -> Context]
  /\ pc \in [Context -> {"run", "test", "testcpu", "xchg", "setcpu", "unlock",
                         "popcli", "back", "off", "new", "panic"}]
  /\ want \in [Context -> Locks] /\ held \in [Context -> SUBSET Locks]
  /\ intr \in [Context -> BOOLEAN]
  /\ fresh \in [Thread -> BOOLEAN] /\ saved \in [Thread -> BOOLEAN]

(* acquire() lets one context in at a time, also when the lock is handed   *)
(* from a process to the scheduler and on to another process by swtch().   *)
MutualExclusion ==
  \A x, y \in Context : x # y => held[x] \cap held[y] = {}

(* A CPU that holds a lock, or is about to, has interrupts off: no         *)
(* interrupt handler can run on top of a holder and spin for ever on the   *)
(* lock below it, however locks nest and whoever releases them first       *)
(* (pushcli, popcli).                                                      *)
HolderUninterrupted ==
  \A c \in CPU : held[cur[c]] # {} \/ ncli[c] > 0 => ~ints[c]

(* The panics of acquire(), release(), popcli() and sched() are never      *)
(* reached: holding() reads the two fields of a lock that others are       *)
(* changing, and still never takes another CPU's lock for its own.         *)
NoPanic == \A x \in Context : pc[x] # "panic"

(* A process that holds no lock has interrupts on exactly when it is not   *)
(* in an interrupt handler, whatever other processes, handlers and CPUs    *)
(* did with intena between its sched() and its return (the saved intena).  *)
InterruptsRestored ==
  \A c \in CPU :
    LET x == cur[c] IN
    x \in Thread /\ ~fresh[x] /\ pc[x] = "run" /\ held[x] = {} =>
      (ints[c] <=> ~intr[x])

-----------------------------------------------------------------------------
(* The inductive invariant behind these properties. *)

(* A process runs on one CPU at a time, and one that runs on none is       *)
(* outside the kernel's critical sections: in swtch() or not yet started.  *)
Running(x) == \E c \in CPU : cur[c] = x

ContextInv ==
  /\ \A c \in CPU : cur[c] \in Thread \cup {c}
  /\ \A c, d \in CPU : cur[c] = cur[d] => c = d
  /\ \A x \in Context : ~Running(x) => held[x] = {}
  /\ \A t \in Thread : Running(t) <=> pc[t] \notin {"off", "new"}
  /\ \A t \in Thread : pc[t] = "new" => fresh[t] /\ ~intr[t]
  /\ \A t \in Thread : pc[t] = "back" => held[t] = {ptable}
  /\ \A c \in CPU : pc[c] \notin {"off", "new", "back"}
  /\ \A c \in CPU : cur[c] # c => pc[c] = "run" /\ ~intr[c]

(* What the locks a context holds, and the one it is taking or has just    *)
(* released, add to the nesting of cli.                                    *)
Acquiring(x) == pc[x] \in {"test", "testcpu", "xchg"}

Depth(x) ==
  (IF ptable \in held[x] THEN 1 ELSE 0) + (IF held[x] \subseteq {ptable} THEN 0 ELSE 1)
    + (IF Acquiring(x) \/ pc[x] = "popcli" THEN 1 ELSE 0)

Nested(c) == ncli[c] = Depth(cur[c]) /\ (ncli[c] > 0 => ~ints[c])

(* A context holds at most one lock besides ptable.lock, which it took     *)
(* before ptable.lock.                                                     *)
Ordered(x) ==
  /\ \A l, m \in held[x] \ {ptable} : l = m
  /\ Acquiring(x) => want[x] \notin held[x] /\ (want[x] # ptable => held[x] = {})
  /\ pc[x] = "popcli" =>
       want[x] \notin held[x] /\ (want[x] # ptable => held[x] \subseteq {ptable})
  /\ pc[x] \in {"setcpu", "unlock"} => want[x] \in held[x]

NestInv == (\A c \in CPU : Nested(c)) /\ (\A x \in Context : Ordered(x))

(* lk->locked and lk->cpu agree with who holds the lock, except that       *)
(* lk->cpu is empty while its holder is setting or has just cleared it.    *)
Owns(c, l) ==
  /\ l \in held[cur[c]]
  /\ ~(pc[cur[c]] \in {"setcpu", "unlock"} /\ want[cur[c]] = l)

LockInv ==
  /\ \A l \in Locks : locked[l] <=> \E x \in Context : l \in held[x]
  /\ \A l \in Locks, c \in CPU : lcpu[l] = c <=> Owns(c, l)

(* The interrupt flag a process finds after its last popcli() is the one   *)
(* it had before its first pushcli(), wherever it is kept meanwhile.       *)
FlagKept(c) ==
  cur[c] \in Thread /\ ~fresh[cur[c]] /\ pc[cur[c]] # "back" =>
    ((IF ncli[c] = 0 THEN ints[c] ELSE intena[c]) <=> ~intr[cur[c]])

FlagSaved(t) == ~fresh[t] /\ pc[t] \in {"off", "back"} => (saved[t] <=> ~intr[t])

FlagInv == (\A c \in CPU : FlagKept(c)) /\ (\A t \in Thread : FlagSaved(t))

IInv == TypeOK /\ MutualExclusion /\ NoPanic /\ ContextInv /\ NestInv /\ LockInv /\ FlagInv

=============================================================================
