-------------------------------- MODULE Proc --------------------------------
(***************************************************************************)
(* The process table and the scheduler: proc.c, with the parts of trap.c   *)
(* and sysproc.c that drive it.                                            *)
(*                                                                         *)
(* A slot of ptable.proc is a number in 1..NPROC and 0 is the null         *)
(* pointer.  ptable.lock is held by a CPU, not by a process: a process     *)
(* that gives up its CPU takes the lock, changes its state and switches to *)
(* the scheduler of that CPU, which goes on holding the lock until the     *)
(* process it picks next releases it.  Everything else that runs under the *)
(* lock is one step here, since no other step can see the middle of it.    *)
(* The accesses the code makes without the lock are steps of their own:    *)
(* the failure paths of fork, proc_nice, and the reads of p->killed in     *)
(* trap.                                                                   *)
(***************************************************************************)
EXTENDS Integers

CONSTANTS
  NPROC,     \* size of the process table
  CPU,       \* the processors
  NoCPU,     \* "nobody" as the holder of ptable.lock
  Chan,      \* sleep channels of the rest of the kernel
  Priority,  \* priorities that reach proc_nice
  KillPid,   \* arguments of kill
  MaxPid     \* bound: how many processes are ever created

ASSUME ProcAssumption ==
  /\ NPROC \in Nat \ {0} /\ MaxPid \in Nat
  /\ NoCPU \notin CPU
  /\ Chan \cap (0 .. NPROC) = {}
  /\ Priority \subseteq Int /\ KillPid \subseteq Nat

VARIABLES
  state, pid, parent, killed, chan, priority,  \* struct proc
  ctx,      \* what p->context resumes into; "none" while p runs its own code
  pc,       \* how far the process is in trap() and in the call it makes
  np,       \* the slot fork() is filling, 0 outside fork
  nextpid,
  cproc,    \* c->proc
  scan,     \* where the scheduler's loop of a CPU stands in the table
  lowest,   \* lowestPriority, a local of the scheduler of each CPU
  ptlock    \* ptable.lock

vars == <<state, pid, parent, killed, chan, priority, ctx, pc, np, nextpid,
          cproc, scan, lowest, ptlock>>

Slot == 1 .. NPROC
initproc == 1              \* userinit takes the first slot of an empty table
HighPriority == 2004318071 \* 0x77777777

procstate == {"UNUSED", "EMBRYO", "SLEEPING", "RUNNABLE", "RUNNING", "ZOMBIE"}

(* userinit: one RUNNABLE process, which starts in forkret. *)
Init ==
  /\ state = [p \in Slot |-> IF p = initproc THEN "RUNNABLE" ELSE "UNUSED"]
  /\ pid = [p \in Slot |-> IF p = initproc THEN 1 ELSE 0]
  /\ parent = [p \in Slot |-> 0]
  /\ killed = [p \in Slot |-> FALSE]
  /\ chan = [p \in Slot |-> 0]
  /\ priority = [p \in Slot |-> 0]
  /\ ctx = [p \in Slot |-> IF p = initproc THEN "forkret" ELSE "none"]
  /\ pc = [p \in Slot |-> "user"]
  /\ np = [p \in Slot |-> 0]
  /\ nextpid = 2
  /\ cproc = [c \in CPU |-> 0]
  /\ scan = [c \in CPU |-> 1]
  /\ lowest = [c \in CPU |-> HighPriority]
  /\ ptlock = NoCPU

-----------------------------------------------------------------------------
(* The scheduler of CPU c. *)

(* The test of scheduler()'s loop. *)
Eligible(c, p) == state[p] = "RUNNABLE" /\ priority[p] <= lowest[c]

(* Mutant: after a process is done the loop starts over at the first slot. *)
AfterSlotRestart(p) == 1

(* p++ in the scheduler's loop. *)
AfterSlot(p) == p + 1

(* acquire(&ptable.lock) at the head of a round over the table. *)
SchedAcquire(c) ==
  /\ cproc[c] = 0 /\ ptlock = NoCPU
  /\ ptlock' = c
  /\ UNCHANGED <<state, pid, parent, killed, chan, priority, ctx, pc, np,
                 nextpid, cproc, scan, lowest>>

(* The loop passes over a slot. *)
Skip(c) ==
  /\ cproc[c] = 0 /\ ptlock = c
  /\ scan[c] <= NPROC
  /\ ~Eligible(c, scan[c])
  /\ scan' = [scan EXCEPT ![c] = scan[c] + 1]
  /\ UNCHANGED <<state, pid, parent, killed, chan, priority, ctx, pc, np,
                 nextpid, cproc, lowest, ptlock>>

(* The loop comes to a slot it may run and switches to it.  swtch returns  *)
(* into the same iteration, so the loop goes on after that slot.           *)
Pick(c) ==
  LET p == scan[c] IN
  /\ cproc[c] = 0 /\ ptlock = c
  /\ p <= NPROC
  /\ Eligible(c, p)
  /\ lowest' = [lowest EXCEPT ![c] = priority[p]]
  /\ cproc' = [cproc EXCEPT ![c] = p]
  /\ state' = [state EXCEPT ![p] = "RUNNING"]
  /\ scan' = [scan EXCEPT ![c] = AfterSlot(p)]
  /\ UNCHANGED <<pid, parent, killed, chan, priority, ctx, pc, np, nextpid,
                 ptlock>>

(* The loop reaches the end of the table and releases the lock. *)
SchedRelease(c) ==
  /\ cproc[c] = 0 /\ ptlock = c
  /\ scan[c] > NPROC
  /\ scan' = [scan EXCEPT ![c] = 1]
  /\ ptlock' = NoCPU
  /\ UNCHANGED <<state, pid, parent, killed, chan, priority, ctx, pc, np,
                 nextpid, cproc, lowest>>

(* sched(): the process of c has left RUNNING under the lock and switches  *)
(* to the scheduler, which clears c->proc.                                 *)
Swtch(c) ==
  /\ cproc[c] # 0 /\ ptlock = c
  /\ state[cproc[c]] # "RUNNING"
  /\ cproc' = [cproc EXCEPT ![c] = 0]
  /\ UNCHANGED <<state, pid, parent, killed, chan, priority, ctx, pc, np,
                 nextpid, scan, lowest, ptlock>>

(* A process that was switched to comes out of forkret, of yield or of a   *)
(* sleep on a lock of its own, and releases ptable.lock.                   *)
Resume(c) ==
  LET p == cproc[c] IN
  /\ p # 0 /\ ptlock = c
  /\ state[p] = "RUNNING" /\ ctx[p] \in {"forkret", "yield", "sleep"}
  /\ chan' = [chan EXCEPT ![p] = IF ctx[p] = "sleep" THEN 0 ELSE @]
  /\ ctx' = [ctx EXCEPT ![p] = "none"]
  /\ ptlock' = NoCPU
  /\ UNCHANGED <<state, pid, parent, killed, priority, pc, np, nextpid, cproc,
                 scan, lowest>>

-----------------------------------------------------------------------------
(* What the process on CPU c does. *)

(* p executes its own code on c and stands at one of the places in L. *)
At(c, p, L) ==
  /\ p # 0 /\ p = cproc[c]
  /\ state[p] = "RUNNING" /\ ctx[p] = "none" /\ pc[p] \in L

(* Mutant: the lock is dropped before the switch to the scheduler. *)
GiveUpUnlocked(c, p, st, s, k) ==
  /\ ptlock' = NoCPU
  /\ state' = [st EXCEPT ![p] = s]
  /\ ctx' = [ctx EXCEPT ![p] = k]

(* The running process is about to give up CPU c: it holds ptable.lock,    *)
(* its state becomes s and its context will resume in k.                   *)
GiveUp(c, p, st, s, k) ==
  /\ ptlock' = c
  /\ state' = [st EXCEPT ![p] = s]
  /\ ctx' = [ctx EXCEPT ![p] = k]

Goto(p, l) == pc' = [pc EXCEPT ![p] = l]

(* trap() on a system call: the check of p->killed on entry.  The check on *)
(* return is the one a process makes here before its next entry.           *)
TrapSyscall(c) ==
  \E p \in Slot :
    /\ At(c, p, {"user"})
    /\ Goto(p, IF killed[p] THEN "exit" ELSE "sys")
    /\ UNCHANGED <<state, pid, parent, killed, chan, priority, ctx, np, nextpid,
                   cproc, scan, lowest, ptlock>>

(* trap() on a timer interrupt in user space: the check before yield(). *)
TrapTimer(c) ==
  \E p \in Slot :
    /\ At(c, p, {"user"})
    /\ Goto(p, IF killed[p] THEN "exit" ELSE "tick")
    /\ UNCHANGED <<state, pid, parent, killed, chan, priority, ctx, np, nextpid,
                   cproc, scan, lowest, ptlock>>

(* trap() on a fault in user space. *)
TrapFault(c) ==
  \E p \in Slot :
    /\ At(c, p, {"user"})
    /\ killed' = [killed EXCEPT ![p] = TRUE]
    /\ Goto(p, "exit")
    /\ UNCHANGED <<state, pid, parent, chan, priority, ctx, np, nextpid, cproc,
                   scan, lowest, ptlock>>

(* A system call that leaves the table alone (getpid, uptime, ...). *)
SysReturn(c) ==
  \E p \in Slot :
    /\ At(c, p, {"sys"})
    /\ Goto(p, "user")
    /\ UNCHANGED <<state, pid, parent, killed, chan, priority, ctx, np, nextpid,
                   cproc, scan, lowest, ptlock>>

(* yield(), from the timer interrupt in user or in kernel mode or from     *)
(* sys_yield.                                                              *)
Yield(c) ==
  \E p \in Slot :
    /\ At(c, p, {"tick", "sys", "fork", "publish", "exit"})
    /\ ptlock = NoCPU
    /\ GiveUp(c, p, state, "RUNNABLE", "yield")
    /\ Goto(p, IF pc[p] = "tick" THEN "user" ELSE pc[p])
    /\ UNCHANGED <<pid, parent, killed, chan, priority, np, nextpid, cproc,
                   scan, lowest>>

(* Mutant: a slot somebody is filling counts as free. *)
FirstUnusedOrEmbryo ==
  {q \in Slot : /\ state[q] \in {"UNUSED", "EMBRYO"}
                /\ \A r \in 1 .. (q - 1) : state[r] \notin {"UNUSED", "EMBRYO"}}

(* The slot the scan of allocproc() stops at, if any. *)
FirstUnused ==
  {q \in Slot : state[q] = "UNUSED" /\ \A r \in 1 .. (q - 1) : state[r] # "UNUSED"}

(* fork(), allocproc() under the lock: the scan for an UNUSED slot clears  *)
(* the priority of every slot it looks at, the one it takes included.      *)
AllocProc(c) ==
  \E p \in Slot :
    /\ At(c, p, {"sys"})
    /\ ptlock = NoCPU
    /\ \/ \E q \in FirstUnused :
            /\ nextpid <= MaxPid
            /\ priority' = [r \in Slot |-> IF r <= q THEN 0 ELSE priority[r]]
            /\ state' = [state EXCEPT ![q] = "EMBRYO"]
            /\ pid' = [pid EXCEPT ![q] = nextpid]
            /\ nextpid' = nextpid + 1
            /\ np' = [np EXCEPT ![p] = q]
            /\ Goto(p, "fork")
       \/ /\ FirstUnused = {}
          /\ priority' = [r \in Slot |-> 0]
          /\ Goto(p, "user")
          /\ UNCHANGED <<state, pid, nextpid, np>>
    /\ UNCHANGED <<parent, killed, chan, ctx, cproc, scan, lowest, ptlock>>

(* kalloc() or copyuvm() fails: the slot is given back, without the lock   *)
(* and with its pid.                                                       *)
ForkFail(c) ==
  \E p \in Slot :
    /\ At(c, p, {"fork"})
    /\ state' = [state EXCEPT ![np[p]] = "UNUSED"]
    /\ np' = [np EXCEPT ![p] = 0]
    /\ Goto(p, "user")
    /\ UNCHANGED <<pid, parent, killed, chan, priority, ctx, nextpid, cproc,
                   scan, lowest, ptlock>>

(* The child gets its context, memory and parent, without the lock. *)
ForkCopy(c) ==
  \E p \in Slot :
    /\ At(c, p, {"fork"})
    /\ parent' = [parent EXCEPT ![np[p]] = p]
    /\ ctx' = [ctx EXCEPT ![np[p]] = "forkret"]
    /\ pc' = [pc EXCEPT ![p] = "publish", ![np[p]] = "user"]
    /\ UNCHANGED <<state, pid, killed, chan, priority, np, nextpid, cproc, scan,
                   lowest, ptlock>>

(* The child becomes RUNNABLE. *)
ForkPublish(c) ==
  \E p \in Slot :
    /\ At(c, p, {"publish"})
    /\ ptlock = NoCPU
    /\ state' = [state EXCEPT ![np[p]] = "RUNNABLE"]
    /\ np' = [np EXCEPT ![p] = 0]
    /\ Goto(p, "user")
    /\ UNCHANGED <<pid, parent, killed, chan, priority, ctx, nextpid, cproc,
                   scan, lowest, ptlock>>

(* wakeup1: every sleeper on ch becomes RUNNABLE. *)
wakeup1(st, ch) ==
  [q \in Slot |-> IF st[q] = "SLEEPING" /\ chan[q] = ch THEN "RUNNABLE"
                                                       ELSE st[q]]

(* sys_exit. *)
SysExit(c) ==
  \E p \in Slot :
    /\ At(c, p, {"sys"})
    /\ Goto(p, "exit")
    /\ UNCHANGED <<state, pid, parent, killed, chan, priority, ctx, np, nextpid,
                   cproc, scan, lowest, ptlock>>

(* exit() of the first process panics: its CPU stops. *)
ExitPanic(c) ==
  \E p \in Slot :
    /\ At(c, p, {"exit"})
    /\ p = initproc
    /\ Goto(p, "panic")
    /\ UNCHANGED <<state, pid, parent, killed, chan, priority, ctx, np, nextpid,
                   cproc, scan, lowest, ptlock>>

(* Mutant: the parent is not woken. *)
ExitWakeNone(p) == state

(* exit() wakes its parent from wait(). *)
ExitWake(p) == wakeup1(state, parent[p])

(* Mutant: only the children that still run are handed over. *)
AdoptLiving(p) ==
  [q \in Slot |-> IF parent[q] = p /\ state[q] # "ZOMBIE" THEN initproc
                                                         ELSE parent[q]]

(* The children of p pass to init. *)
Adopt(p) == [q \in Slot |-> IF parent[q] = p THEN initproc ELSE parent[q]]

(* Mutant: init is not told of the zombies it inherits. *)
AdoptWakeNone(st, p) == st

(* init is woken if it inherits a zombie from p. *)
AdoptWake(st, p) ==
  IF \E q \in Slot : parent[q] = p /\ state[q] = "ZOMBIE"
  THEN wakeup1(st, initproc) ELSE st

(* exit() under the lock: wake the parent, hand the children to init and   *)
(* wake init if one of them is a zombie, become a zombie.                  *)
Exit(c) ==
  \E p \in Slot :
    /\ At(c, p, {"exit"})
    /\ p # initproc
    /\ ptlock = NoCPU
    /\ parent' = Adopt(p)
    /\ GiveUp(c, p, AdoptWake(ExitWake(p), p), "ZOMBIE", "exit")
    /\ UNCHANGED <<pid, killed, chan, priority, pc, np, nextpid, cproc, scan,
                   lowest>>

(* wait(), from its call or from the sleep it was woken from, in both      *)
(* cases under the lock.                                                   *)
InWait(c, p) ==
  \/ At(c, p, {"sys"}) /\ ptlock = NoCPU
  \/ /\ p = cproc[c] /\ ptlock = c
     /\ state[p] = "RUNNING" /\ ctx[p] = "wait"

(* wait() finds a zombie child, the first one in the table, and frees it. *)
WaitReap(c) ==
  \E p \in Slot, q \in Slot :
    /\ InWait(c, p)
    /\ parent[q] = p /\ state[q] = "ZOMBIE"
    /\ \A r \in 1 .. (q - 1) : ~(parent[r] = p /\ state[r] = "ZOMBIE")
    /\ pid' = [pid EXCEPT ![q] = 0]
    /\ parent' = [parent EXCEPT ![q] = 0]
    /\ killed' = [killed EXCEPT ![q] = FALSE]
    /\ state' = [state EXCEPT ![q] = "UNUSED"]
    /\ ctx' = [ctx EXCEPT ![p] = "none", ![q] = "none"]
    /\ chan' = [chan EXCEPT ![p] = 0]
    /\ Goto(p, "user")
    /\ ptlock' = NoCPU
    /\ UNCHANGED <<priority, np, nextpid, cproc, scan, lowest>>

(* wait() finds no child, or p has been killed. *)
WaitFail(c) ==
  \E p \in Slot :
    /\ InWait(c, p)
    /\ \A q \in Slot : parent[q] = p => state[q] # "ZOMBIE"
    /\ (\A q \in Slot : parent[q] # p) \/ killed[p]
    /\ ctx' = [ctx EXCEPT ![p] = "none"]
    /\ chan' = [chan EXCEPT ![p] = 0]
    /\ Goto(p, "user")
    /\ ptlock' = NoCPU
    /\ UNCHANGED <<state, pid, parent, killed, priority, np, nextpid, cproc,
                   scan, lowest>>

(* wait() sleeps until a child exits. *)
WaitSleep(c) ==
  \E p \in Slot :
    /\ InWait(c, p)
    /\ \A q \in Slot : parent[q] = p => state[q] # "ZOMBIE"
    /\ \E q \in Slot : parent[q] = p
    /\ ~killed[p]
    /\ chan' = [chan EXCEPT ![p] = p]
    /\ GiveUp(c, p, state, "SLEEPING", "wait")
    /\ UNCHANGED <<pid, parent, killed, priority, pc, np, nextpid, cproc, scan,
                   lowest>>

(* sleep(ch, lk) in any other part of the kernel. *)
SleepOn(c, ch) ==
  \E p \in Slot :
    /\ At(c, p, {"sys", "exit"})
    /\ ptlock = NoCPU
    /\ chan' = [chan EXCEPT ![p] = ch]
    /\ GiveUp(c, p, state, "SLEEPING", "sleep")
    /\ UNCHANGED <<pid, parent, killed, priority, pc, np, nextpid, cproc, scan,
                   lowest>>

(* wakeup(ch), from another process or from an interrupt handler. *)
Wakeup(ch) ==
  /\ ptlock = NoCPU
  /\ state' = wakeup1(state, ch)
  /\ UNCHANGED <<pid, parent, killed, chan, priority, ctx, pc, np, nextpid,
                 cproc, scan, lowest, ptlock>>

(* Mutant: a sleeping victim stays asleep. *)
KillWakeNone(q) == state

(* kill() wakes its victim from sleep. *)
KillWake(q) ==
  [state EXCEPT ![q] = IF @ = "SLEEPING" THEN "RUNNABLE" ELSE @]

(* kill(v): the first slot whose pid is v, whatever its state. *)
Kill(c, v) ==
  \E p \in Slot :
    /\ At(c, p, {"sys"})
    /\ ptlock = NoCPU
    /\ \/ \E q \in Slot :
            /\ pid[q] = v
            /\ \A r \in 1 .. (q - 1) : pid[r] # v
            /\ killed' = [killed EXCEPT ![q] = TRUE]
            /\ state' = KillWake(q)
       \/ /\ \A q \in Slot : pid[q] # v
          /\ UNCHANGED <<killed, state>>
    /\ Goto(p, "user")
    /\ UNCHANGED <<pid, parent, chan, priority, ctx, np, nextpid, cproc, scan,
                   lowest, ptlock>>

(* proc_nice(v, pr), without the lock.  sys_nice reads v and pr through a  *)
(* pointer nobody set, so they may be anything.                            *)
Nice(c, v, pr) ==
  \E p \in Slot :
    /\ At(c, p, {"sys"})
    /\ priority' = [q \in Slot |-> IF pid[q] = v THEN pr ELSE priority[q]]
    /\ Goto(p, "user")
    /\ UNCHANGED <<state, pid, parent, killed, chan, ctx, np, nextpid, cproc,
                   scan, lowest, ptlock>>

-----------------------------------------------------------------------------
Scheduler(c) ==
  SchedAcquire(c) \/ Skip(c) \/ Pick(c) \/ SchedRelease(c) \/ Swtch(c)

Process(c) ==
  \/ TrapSyscall(c) \/ TrapTimer(c) \/ TrapFault(c) \/ SysReturn(c)
  \/ Yield(c) \/ Resume(c)
  \/ AllocProc(c) \/ ForkFail(c) \/ ForkCopy(c) \/ ForkPublish(c)
  \/ SysExit(c) \/ ExitPanic(c) \/ Exit(c)
  \/ WaitReap(c) \/ WaitFail(c) \/ WaitSleep(c)
  \/ \E ch \in Chan : SleepOn(c, ch)
  \/ \E v \in KillPid : Kill(c, v)
  \/ \E v \in 0 .. MaxPid, pr \in Priority : Nice(c, v, pr)

Next ==
  \/ \E c \in CPU : Scheduler(c) \/ Process(c)
  \/ \E ch \in Chan : Wakeup(ch)

Spec == Init /\ [][Next]_vars

(* Fairness.  A CPU never stops executing: its scheduler loops, and a      *)
(* process it has switched to gets on with releasing the lock or, in wait, *)
(* with looking at the table again.                                        *)
CpuRuns(c) ==
  \/ Scheduler(c) \/ Resume(c)
  \/ ptlock = c /\ (WaitReap(c) \/ WaitFail(c) \/ WaitSleep(c))

(* The timer keeps interrupting a CPU that runs with interrupts on. *)
TimerFires(c) == TrapTimer(c) \/ Yield(c)

(* A time slice is long enough for a step of the kernel code of p. *)
KernelStep(c, p) ==
  /\ cproc[c] = p
  /\ \/ SysReturn(c) \/ ForkFail(c) \/ ForkCopy(c) \/ ForkPublish(c)
     \/ ExitPanic(c) \/ Exit(c)

(* The first process, init.c, calls wait() in a loop. *)
InitCalls(c) == cproc[c] = initproc /\ TrapSyscall(c)
InitWaits(c) == cproc[c] = initproc /\ WaitReap(c)

FairSpec ==
  /\ Spec
  /\ \A c \in CPU :
       /\ WF_vars(CpuRuns(c))
       /\ SF_vars(TimerFires(c))
       /\ \A p \in Slot : SF_vars(KernelStep(c, p))
       /\ SF_vars(InitCalls(c))
       /\ SF_vars(InitWaits(c))

-----------------------------------------------------------------------------
(* Properties. *)

(* Every field has its type; the scheduler's loop stays in the table. *)
TypeOK ==
  /\ state \in [Slot -> procstate]
  /\ pid \in [Slot -> Nat] /\ nextpid \in Nat \ {0}
  /\ parent \in [Slot -> Slot \cup {0}]
  /\ killed \in [Slot -> BOOLEAN]
  /\ chan \in [Slot -> Slot \cup {0} \cup Chan]
  /\ priority \in [Slot -> Int]
  /\ ctx \in [Slot -> {"none", "forkret", "yield", "sleep", "wait", "exit"}]
  /\ pc \in [Slot -> {"user", "tick", "sys", "fork", "publish", "exit", "panic"}]
  /\ np \in [Slot -> Slot \cup {0}]
  /\ cproc \in [CPU -> Slot \cup {0}]
  /\ scan \in [CPU -> 1 .. (NPROC + 1)]
  /\ lowest \in [CPU -> Int]
  /\ ptlock \in CPU \cup {NoCPU}

(* A process is on at most one CPU, and the one that is RUNNING is on one. *)
(* A process that is on a CPU without being RUNNING is on its way out:     *)
(* that CPU holds ptable.lock, so nobody can run the process elsewhere,    *)
(* reap it or free the stack it stands on before swtch is done (scheduler, *)
(* sched, yield, exit, wait).                                              *)
CpuExclusive ==
  /\ \A c, d \in CPU : cproc[c] = cproc[d] /\ cproc[c] # 0 => c = d
  /\ \A p \in Slot : state[p] = "RUNNING" => \E c \in CPU : cproc[c] = p
  /\ \A c \in CPU : cproc[c] # 0 =>
       \/ state[cproc[c]] = "RUNNING"
       \/ state[cproc[c]] \in {"RUNNABLE", "SLEEPING", "ZOMBIE"} /\ ptlock = c

(* The slot a fork() is filling is EMBRYO, is filled by no other fork and  *)
(* is not the forking process itself, although fork writes it without the  *)
(* lock.                                                                   *)
ForkExclusive ==
  /\ \A p \in Slot : np[p] # 0 => state[np[p]] = "EMBRYO"
  /\ \A p, q \in Slot : np[p] = np[q] /\ np[p] # 0 => p = q

(* Every process but the first has a parent that has not exited: exit      *)
(* hands the children over in the same critical section that makes the     *)
(* parent a zombie, and wait only frees a zombie.                          *)
ParentAlive ==
  \A p \in Slot :
    p # initproc /\ state[p] \notin {"UNUSED", "EMBRYO"} =>
      /\ parent[p] # 0
      /\ state[parent[p]] \in {"SLEEPING", "RUNNABLE", "RUNNING"}

(* A process asleep in wait() has a child to wait for, has not been killed *)
(* and has no zombie to reap: neither an exit, nor the adoption of a       *)
(* zombie, nor a kill is ever slept through.                               *)
WaitJustified ==
  \A p \in Slot :
    state[p] = "SLEEPING" /\ ctx[p] = "wait" =>
      /\ \E q \in Slot : parent[q] = p
      /\ ~killed[p]
      /\ \A q \in Slot : parent[q] = p => state[q] # "ZOMBIE"

-----------------------------------------------------------------------------
(* The parts that make the conjunction of the invariants inductive. *)

(* A RUNNING process holds ptable.lock through its CPU exactly while it    *)
(* has not yet come out of the switch that resumed it.                     *)
LockInv ==
  \A c \in CPU : cproc[c] # 0 /\ state[cproc[c]] = "RUNNING" =>
    (ctx[cproc[c]] = "none" <=> ptlock # c)

(* Where a process resumes fits its state. *)
CtxInv ==
  \A p \in Slot :
    /\ state[p] = "UNUSED" => ctx[p] = "none"
    /\ state[p] = "EMBRYO" => ctx[p] \in {"none", "forkret"}
    /\ state[p] = "RUNNABLE" => ctx[p] \in {"forkret", "yield", "sleep", "wait"}
    /\ state[p] = "SLEEPING" => ctx[p] \in {"sleep", "wait"}
    /\ state[p] = "ZOMBIE" <=> ctx[p] = "exit"

(* How far a fork() is determines what it has filled in. *)
ForkInv ==
  \A p \in Slot :
    /\ np[p] # 0 <=> pc[p] \in {"fork", "publish"}
    /\ np[p] # 0 => state[p] \in {"RUNNABLE", "RUNNING"}
    /\ pc[p] = "fork" => parent[np[p]] = 0 /\ ctx[np[p]] = "none"
    /\ pc[p] = "publish" => parent[np[p]] = p /\ ctx[np[p]] = "forkret"

(* A parent pointer leads to a process that has not exited; init is one. *)
ParentInv ==
  /\ state[initproc] \in {"SLEEPING", "RUNNABLE", "RUNNING"}
  /\ parent[initproc] = 0
  /\ \A p \in Slot : parent[p] # 0 =>
       /\ state[p] # "UNUSED" /\ parent[p] # p
       /\ state[parent[p]] \in {"SLEEPING", "RUNNABLE", "RUNNING"}
       /\ state[p] = "EMBRYO" => np[parent[p]] = p

(* A process in wait() sleeps on its own address and has a child. *)
WaitInv ==
  \A p \in Slot : ctx[p] = "wait" =>
    pc[p] = "sys" /\ chan[p] = p /\ \E q \in Slot : parent[q] = p

IInv ==
  /\ TypeOK /\ CpuExclusive /\ ForkExclusive /\ ParentAlive /\ WaitJustified
  /\ LockInv /\ CtxInv /\ ForkInv /\ ParentInv /\ WaitInv

-----------------------------------------------------------------------------
Panicked == pc[initproc] = "panic"

(* A RUNNABLE process that passes the test of the scheduler's loop is run, *)
(* unless its priority or lowestPriority changes so that it no longer      *)
(* passes.                                                                 *)
EligibleRuns ==
  \A p \in Slot :
    (\A c \in CPU : Eligible(c, p)) ~> (Panicked \/ \E c \in CPU : ~Eligible(c, p))

(* A process that is killed exits, whether it was running, runnable or     *)
(* asleep in wait() when kill was called.                                  *)
KilledExits ==
  \A p \in Slot :
    (killed[p] /\ state[p] \in {"SLEEPING", "RUNNABLE", "RUNNING"})
      ~> (Panicked \/ state[p] \in {"ZOMBIE", "UNUSED"})

(* A zombie whose parent is init, by birth or by adoption, is reaped. *)
OrphansReaped ==
  \A p \in Slot :
    (state[p] = "ZOMBIE" /\ parent[p] = initproc) ~> (Panicked \/ state[p] = "UNUSED")

=============================================================================
