----------------------------- MODULE ProcProofs -----------------------------
(***************************************************************************)
(* IInv is an inductive invariant of the process table: one lemma per      *)
(* action of Proc, one step per conjunct of IInv.  The safety properties   *)
(* of Proc follow for every NPROC, every set of CPUs and every set of      *)
(* channels.                                                               *)
(***************************************************************************)
EXTENDS Proc, TLAPS

(* What the proofs use of the numbering of the slots. *)
LEMMA SlotFacts == initproc \in Slot /\ 0 \notin Slot /\ Slot \subseteq Nat
BY ProcAssumption DEF Slot, initproc

LEMMA InitIInv == Init => IInv
<1> SUFFICES ASSUME Init PROVE IInv OBVIOUS
<1> USE ProcAssumption DEF Init, Slot, initproc, HighPriority
<1>1. TypeOK BY DEF TypeOK, procstate
<1>2. CpuExclusive BY DEF CpuExclusive
<1>3. ForkExclusive BY DEF ForkExclusive
<1>4. ParentAlive BY DEF ParentAlive
<1>5. WaitJustified BY DEF WaitJustified
<1>6. LockInv BY DEF LockInv
<1>7. CtxInv BY DEF CtxInv
<1>8. ForkInv BY DEF ForkInv
<1>9. ParentInv BY DEF ParentInv
<1>10. WaitInv BY DEF WaitInv
<1> QED BY <1>1, <1>2, <1>3, <1>4, <1>5, <1>6, <1>7, <1>8, <1>9, <1>10 DEF IInv

(* The loop of scheduler() passes over a slot. *)
LEMMA SkipStep == ASSUME IInv, NEW c \in CPU, Skip(c) PROVE IInv'
<1>u. UNCHANGED <<state, pid, parent, killed, chan, priority, ctx, pc, np, nextpid, cproc,
                  lowest, ptlock>>
  BY DEF Skip
<1>s. scan' \in [CPU -> 1 .. (NPROC + 1)] BY ProcAssumption DEF Skip, IInv, TypeOK
<1> USE <1>u DEF IInv
<1>1. TypeOK' BY <1>s DEF TypeOK
<1>2. CpuExclusive' BY DEF CpuExclusive
<1>3. ForkExclusive' BY DEF ForkExclusive
<1>4. ParentAlive' BY DEF ParentAlive
<1>5. WaitJustified' BY DEF WaitJustified
<1>6. LockInv' BY DEF LockInv
<1>7. CtxInv' BY DEF CtxInv
<1>8. ForkInv' BY DEF ForkInv
<1>9. ParentInv' BY DEF ParentInv
<1>10. WaitInv' BY DEF WaitInv
<1> QED BY <1>1, <1>2, <1>3, <1>4, <1>5, <1>6, <1>7, <1>8, <1>9, <1>10 DEF IInv

(* The loop of scheduler() picks a process. *)
LEMMA PickStep == ASSUME IInv, NEW c \in CPU, Pick(c) PROVE IInv'
<1> USE SlotFacts
<1> DEFINE p == scan[c]
<1>s. p \in Slot BY ProcAssumption DEF Pick, IInv, TypeOK, Slot
<1>p. /\ Eligible(c, p)
      /\ lowest' = [lowest EXCEPT ![c] = priority[p]]
      /\ cproc' = [cproc EXCEPT ![c] = p]
      /\ state' = [state EXCEPT ![p] = "RUNNING"]
      /\ scan' = [scan EXCEPT ![c] = AfterSlot(p)]
  BY DEF Pick
<1>u. /\ cproc[c] = 0 /\ ptlock = c
      /\ UNCHANGED <<pid, parent, killed, chan, priority, ctx, pc, np, nextpid, ptlock>>
  BY DEF Pick
<1> HIDE DEF p
<1>r. state[p] = "RUNNABLE" BY <1>p DEF Eligible
<1> USE <1>p, <1>s, <1>u, <1>r DEF IInv, TypeOK
<1>a. AfterSlot(p) \in 1 .. (NPROC + 1) BY ProcAssumption DEF AfterSlot, Slot
<1>1. TypeOK' BY <1>a DEF procstate
<1>2. CpuExclusive' BY DEF CpuExclusive
<1>3. ForkExclusive' BY DEF ForkExclusive
<1>4. ParentAlive' BY DEF ParentAlive
<1>5. WaitJustified' BY DEF WaitJustified
<1>6. LockInv' BY DEF LockInv, CtxInv, CpuExclusive
<1>7. CtxInv' BY DEF CtxInv
<1>8. ForkInv' BY DEF ForkInv
<1>9. ParentInv' BY DEF ParentInv
<1>10. WaitInv' BY DEF WaitInv
<1> QED BY <1>1, <1>2, <1>3, <1>4, <1>5, <1>6, <1>7, <1>8, <1>9, <1>10 DEF IInv

(* scheduler() takes ptable.lock. *)
LEMMA SchedAcquireStep == ASSUME IInv, NEW c \in CPU, SchedAcquire(c) PROVE IInv'
<1> USE SlotFacts, ProcAssumption DEF IInv, TypeOK, SchedAcquire
<1>1. TypeOK' BY DEF TypeOK, procstate
<1>2. CpuExclusive' BY DEF CpuExclusive
<1>3. ForkExclusive' BY DEF ForkExclusive
<1>4. ParentAlive' BY DEF ParentAlive
<1>5. WaitJustified' BY DEF WaitJustified
<1>6. LockInv' BY DEF LockInv, CpuExclusive
<1>7. CtxInv' BY DEF CtxInv
<1>8. ForkInv' BY DEF ForkInv
<1>9. ParentInv' BY DEF ParentInv
<1>10. WaitInv' BY DEF WaitInv
<1> QED BY <1>1, <1>2, <1>3, <1>4, <1>5, <1>6, <1>7, <1>8, <1>9, <1>10 DEF IInv

(* scheduler() releases ptable.lock at the end of the table. *)
LEMMA SchedReleaseStep == ASSUME IInv, NEW c \in CPU, SchedRelease(c) PROVE IInv'
<1> USE SlotFacts, ProcAssumption DEF IInv, TypeOK, SchedRelease
<1>1. TypeOK' BY DEF TypeOK, procstate
<1>2. CpuExclusive' BY DEF CpuExclusive
<1>3. ForkExclusive' BY DEF ForkExclusive
<1>4. ParentAlive' BY DEF ParentAlive
<1>5. WaitJustified' BY DEF WaitJustified
<1>6. LockInv' BY DEF LockInv
<1>7. CtxInv' BY DEF CtxInv
<1>8. ForkInv' BY DEF ForkInv
<1>9. ParentInv' BY DEF ParentInv
<1>10. WaitInv' BY DEF WaitInv
<1> QED BY <1>1, <1>2, <1>3, <1>4, <1>5, <1>6, <1>7, <1>8, <1>9, <1>10 DEF IInv

(* sched() switches to the scheduler. *)
LEMMA SwtchStep == ASSUME IInv, NEW c \in CPU, Swtch(c) PROVE IInv'
<1> USE SlotFacts DEF IInv, TypeOK, Swtch
<1>1. TypeOK' BY DEF TypeOK, procstate
<1>2. CpuExclusive' BY DEF CpuExclusive
<1>3. ForkExclusive' BY DEF ForkExclusive
<1>4. ParentAlive' BY DEF ParentAlive
<1>5. WaitJustified' BY DEF WaitJustified
<1>6. LockInv' BY DEF LockInv
<1>7. CtxInv' BY DEF CtxInv
<1>8. ForkInv' BY DEF ForkInv
<1>9. ParentInv' BY DEF ParentInv
<1>10. WaitInv' BY DEF WaitInv
<1> QED BY <1>1, <1>2, <1>3, <1>4, <1>5, <1>6, <1>7, <1>8, <1>9, <1>10 DEF IInv

(* A process comes out of the switch and releases ptable.lock. *)
LEMMA ResumeStep == ASSUME IInv, NEW c \in CPU, Resume(c) PROVE IInv'
<1> DEFINE p == cproc[c]
<1>s. p \in Slot BY DEF IInv, TypeOK, Resume
<1> USE SlotFacts, ProcAssumption, <1>s DEF IInv, TypeOK, Resume
<1>1. TypeOK' BY DEF TypeOK, procstate
<1>2. CpuExclusive' BY DEF CpuExclusive
<1>3. ForkExclusive' BY DEF ForkExclusive
<1>4. ParentAlive' BY DEF ParentAlive
<1>5. WaitJustified' BY DEF WaitJustified
<1>6. LockInv' BY DEF LockInv, CpuExclusive
<1>7. CtxInv' BY DEF CtxInv
<1>8. ForkInv' BY DEF ForkInv, ForkExclusive
<1>9. ParentInv' BY DEF ParentInv
<1>10. WaitInv' BY DEF WaitInv
<1> QED BY <1>1, <1>2, <1>3, <1>4, <1>5, <1>6, <1>7, <1>8, <1>9, <1>10 DEF IInv

(* Steps of a running process that only move it on in trap() or in a call, *)
(* mark it killed or change priorities.                                    *)
LEMMA OwnStep ==
  ASSUME IInv, NEW p \in Slot,
         pc[p] \in {"user", "sys", "exit"}, state[p] = "RUNNING", ctx[p] = "none",
         pc'[p] \in {"user", "tick", "sys", "exit", "panic"},
         pc' = [pc EXCEPT ![p] = pc'[p]],
         killed' \in [Slot -> BOOLEAN], \A q \in Slot : q # p => killed'[q] = killed[q],
         priority' \in [Slot -> Int],
         UNCHANGED <<state, pid, parent, chan, ctx, np, nextpid, cproc, scan, lowest, ptlock>>
  PROVE  IInv'
<1> USE SlotFacts DEF IInv, TypeOK
<1>a. pc' \in [Slot -> {"user", "tick", "sys", "fork", "publish", "exit", "panic"}]
  <2>1. pc' = [q \in Slot |-> IF q = p THEN pc'[p] ELSE pc[q]] OBVIOUS
  <2>2. QED BY <2>1
<1>1. TypeOK' BY <1>a DEF procstate
<1>2. CpuExclusive' BY DEF CpuExclusive
<1>3. ForkExclusive' BY DEF ForkExclusive
<1>4. ParentAlive' BY DEF ParentAlive
<1>5. WaitJustified' BY DEF WaitJustified
<1>6. LockInv' BY DEF LockInv
<1>7. CtxInv' BY DEF CtxInv
<1>8. ForkInv' BY DEF ForkInv
<1>9. ParentInv' BY DEF ParentInv
<1>10. WaitInv' BY DEF WaitInv
<1> QED BY <1>1, <1>2, <1>3, <1>4, <1>5, <1>6, <1>7, <1>8, <1>9, <1>10 DEF IInv

(* yield() *)
LEMMA YieldStep == ASSUME IInv, NEW c \in CPU, Yield(c) PROVE IInv'
<1> PICK p \in Slot :
      /\ At(c, p, {"tick", "sys", "fork", "publish", "exit"}) /\ ptlock = NoCPU
      /\ GiveUp(c, p, state, "RUNNABLE", "yield")
      /\ Goto(p, IF pc[p] = "tick" THEN "user" ELSE pc[p])
      /\ UNCHANGED <<pid, parent, killed, chan, priority, np, nextpid, cproc, scan, lowest>>
  BY DEF Yield
<1> USE SlotFacts, ProcAssumption DEF IInv, TypeOK, At, GiveUp, Goto
<1>1. TypeOK' BY DEF TypeOK, procstate
<1>2. CpuExclusive' BY DEF CpuExclusive
<1>3. ForkExclusive' BY DEF ForkExclusive
<1>4. ParentAlive' BY DEF ParentAlive
<1>5. WaitJustified' BY DEF WaitJustified
<1>6. LockInv' BY DEF LockInv, CpuExclusive
<1>7. CtxInv' BY DEF CtxInv
<1>8. ForkInv' BY DEF ForkInv, ForkExclusive
<1>9. ParentInv' BY DEF ParentInv
<1>10. WaitInv' BY DEF WaitInv
<1> QED BY <1>1, <1>2, <1>3, <1>4, <1>5, <1>6, <1>7, <1>8, <1>9, <1>10 DEF IInv

(* allocproc() under the lock. *)
LEMMA AllocProcStep == ASSUME IInv, NEW c \in CPU, AllocProc(c) PROVE IInv'
<1> PICK p \in Slot :
      /\ At(c, p, {"sys"}) /\ ptlock = NoCPU
      /\ UNCHANGED <<parent, killed, chan, ctx, cproc, scan, lowest, ptlock>>
      /\ \/ \E q \in FirstUnused :
              /\ nextpid <= MaxPid
              /\ priority' = [r \in Slot |-> IF r <= q THEN 0 ELSE priority[r]]
              /\ state' = [state EXCEPT ![q] = "EMBRYO"]
              /\ pid' = [pid EXCEPT ![q] = nextpid]
              /\ nextpid' = nextpid + 1
              /\ np' = [np EXCEPT ![p] = q]
              /\ Goto(p, "fork")
         \/ /\ FirstUnused = {}
            /\ priority' = [r \in Slot |-> 0]
            /\ Goto(p, "user")
            /\ UNCHANGED <<state, pid, nextpid, np>>
  BY DEF AllocProc
<1>a. CASE FirstUnused = {}
  BY <1>a, OwnStep DEF At, Goto, IInv, TypeOK
<1>b. CASE FirstUnused # {}
  <2> PICK q \in FirstUnused :
        /\ priority' = [r \in Slot |-> IF r <= q THEN 0 ELSE priority[r]]
        /\ state' = [state EXCEPT ![q] = "EMBRYO"]
        /\ pid' = [pid EXCEPT ![q] = nextpid]
        /\ nextpid' = nextpid + 1
        /\ np' = [np EXCEPT ![p] = q]
        /\ Goto(p, "fork")
    BY <1>b
  <2>q. q \in Slot /\ state[q] = "UNUSED" BY DEF FirstUnused
  <2> HIDE DEF FirstUnused
  <2> USE SlotFacts, <2>q DEF IInv, TypeOK, At, Goto
  <2>1. TypeOK' BY DEF TypeOK, procstate
  <2>2. CpuExclusive' BY DEF CpuExclusive
  <2>3. ForkExclusive' BY DEF ForkExclusive
  <2>4. ParentAlive' BY DEF ParentAlive, ParentInv
  <2>5. WaitJustified' BY DEF WaitJustified
  <2>6. LockInv' BY DEF LockInv
  <2>7. CtxInv' BY DEF CtxInv
  <2>8. ForkInv' BY DEF ForkInv, ParentInv, CtxInv
  <2>9. ParentInv' BY DEF ParentInv, ForkExclusive, ForkInv
  <2>10. WaitInv' BY DEF WaitInv
  <2> QED BY <2>1, <2>2, <2>3, <2>4, <2>5, <2>6, <2>7, <2>8, <2>9, <2>10 DEF IInv
<1> QED BY <1>a, <1>b

(* fork() fails and gives its slot back. *)
LEMMA ForkFailStep == ASSUME IInv, NEW c \in CPU, ForkFail(c) PROVE IInv'
<1> PICK p \in Slot :
      /\ At(c, p, {"fork"})
      /\ state' = [state EXCEPT ![np[p]] = "UNUSED"]
      /\ np' = [np EXCEPT ![p] = 0]
      /\ Goto(p, "user")
      /\ UNCHANGED <<pid, parent, killed, chan, priority, ctx, nextpid, cproc, scan,
                     lowest, ptlock>>
  BY DEF ForkFail
<1>q. /\ np[p] \in Slot /\ np[p] # p /\ state[np[p]] = "EMBRYO" /\ parent[np[p]] = 0
  BY SlotFacts DEF IInv, TypeOK, At, ForkInv, ForkExclusive
<1> DEFINE q == np[p]
<1> USE SlotFacts, <1>q DEF IInv, TypeOK, At, Goto
<1>1. TypeOK' BY DEF TypeOK, procstate
<1>2. CpuExclusive' BY DEF CpuExclusive
<1>3. ForkExclusive' BY DEF ForkExclusive
<1>4. ParentAlive' BY DEF ParentAlive
<1>5. WaitJustified' BY DEF WaitJustified
<1>6. LockInv' BY DEF LockInv
<1>7. CtxInv' BY DEF CtxInv, ForkInv
<1>8. ForkInv' BY DEF ForkInv
<1>9. ParentInv' BY DEF ParentInv, ForkExclusive
<1>10. WaitInv' BY DEF WaitInv
<1> QED BY <1>1, <1>2, <1>3, <1>4, <1>5, <1>6, <1>7, <1>8, <1>9, <1>10 DEF IInv

(* fork() fills in the child. *)
LEMMA ForkCopyStep == ASSUME IInv, NEW c \in CPU, ForkCopy(c) PROVE IInv'
<1> PICK p \in Slot :
      /\ At(c, p, {"fork"})
      /\ parent' = [parent EXCEPT ![np[p]] = p]
      /\ ctx' = [ctx EXCEPT ![np[p]] = "forkret"]
      /\ pc' = [pc EXCEPT ![p] = "publish", ![np[p]] = "user"]
      /\ UNCHANGED <<state, pid, killed, chan, priority, np, nextpid, cproc, scan,
                     lowest, ptlock>>
  BY DEF ForkCopy
<1>q. /\ np[p] \in Slot /\ np[p] # p /\ state[np[p]] = "EMBRYO" /\ parent[np[p]] = 0
  BY SlotFacts DEF IInv, TypeOK, At, ForkInv, ForkExclusive
<1> USE SlotFacts, <1>q DEF IInv, TypeOK, At
<1>1. TypeOK' BY DEF TypeOK, procstate
<1>2. CpuExclusive' BY DEF CpuExclusive
<1>3. ForkExclusive' BY DEF ForkExclusive
<1>4. ParentAlive' BY DEF ParentAlive, ParentInv
<1>5. WaitJustified' BY DEF WaitJustified
<1>6. LockInv' BY DEF LockInv
<1>7. CtxInv' BY DEF CtxInv
<1>8. ForkInv' BY DEF ForkInv, ForkExclusive
<1>9. ParentInv' BY DEF ParentInv
<1>10. WaitInv' BY DEF WaitInv
<1> QED BY <1>1, <1>2, <1>3, <1>4, <1>5, <1>6, <1>7, <1>8, <1>9, <1>10 DEF IInv

(* fork() makes the child RUNNABLE. *)
LEMMA ForkPublishStep == ASSUME IInv, NEW c \in CPU, ForkPublish(c) PROVE IInv'
<1> PICK p \in Slot :
      /\ At(c, p, {"publish"}) /\ ptlock = NoCPU
      /\ state' = [state EXCEPT ![np[p]] = "RUNNABLE"]
      /\ np' = [np EXCEPT ![p] = 0]
      /\ Goto(p, "user")
      /\ UNCHANGED <<pid, parent, killed, chan, priority, ctx, nextpid, cproc, scan,
                     lowest, ptlock>>
  BY DEF ForkPublish
<1>q. /\ np[p] \in Slot /\ np[p] # p /\ state[np[p]] = "EMBRYO"
      /\ parent[np[p]] = p /\ ctx[np[p]] = "forkret"
  BY SlotFacts DEF IInv, TypeOK, At, ForkInv, ForkExclusive
<1> USE SlotFacts, <1>q DEF IInv, TypeOK, At, Goto
<1>1. TypeOK' BY DEF TypeOK, procstate
<1>2. CpuExclusive' BY DEF CpuExclusive
<1>3. ForkExclusive' BY DEF ForkExclusive
<1>4. ParentAlive' BY DEF ParentAlive, ParentInv
<1>5. WaitJustified' BY DEF WaitJustified
<1>6. LockInv' BY DEF LockInv
<1>7. CtxInv' BY DEF CtxInv
<1>8. ForkInv' BY DEF ForkInv, ForkExclusive
<1>9. ParentInv' BY DEF ParentInv, ForkExclusive
<1>10. WaitInv' BY DEF WaitInv
<1> QED BY <1>1, <1>2, <1>3, <1>4, <1>5, <1>6, <1>7, <1>8, <1>9, <1>10 DEF IInv

(* exit() under the lock.  st is the table after the two wakeups. *)
LEMMA ExitStep == ASSUME IInv, NEW c \in CPU, Exit(c) PROVE IInv'
<1>0. PICK p \in Slot :
      /\ At(c, p, {"exit"}) /\ p # initproc /\ ptlock = NoCPU
      /\ parent' = Adopt(p)
      /\ GiveUp(c, p, AdoptWake(ExitWake(p), p), "ZOMBIE", "exit")
      /\ UNCHANGED <<pid, killed, chan, priority, pc, np, nextpid, cproc, scan, lowest>>
  BY DEF Exit
<1> DEFINE st == AdoptWake(ExitWake(p), p)
<1>st. /\ st \in [Slot -> procstate]
       /\ \A q \in Slot : st[q] = state[q] \/ (state[q] = "SLEEPING" /\ st[q] = "RUNNABLE")
       /\ \A q \in Slot : st[q] = "SLEEPING" => chan[q] # parent[p]
       /\ \A q \in Slot : st[q] = "SLEEPING" /\ chan[q] = initproc =>
            \A r \in Slot : parent[r] = p => state[r] # "ZOMBIE"
  BY SlotFacts DEF AdoptWake, ExitWake, wakeup1, IInv, TypeOK, procstate
<1>g. state' = [st EXCEPT ![p] = "ZOMBIE"] BY <1>0 DEF GiveUp
<1> HIDE DEF st
<1>s. /\ state' \in [Slot -> procstate] /\ state'[p] = "ZOMBIE"
      /\ \A q \in Slot : q # p =>
           state'[q] = state[q] \/ (state[q] = "SLEEPING" /\ state'[q] = "RUNNABLE")
  BY <1>st, <1>g DEF procstate
<1>w. /\ \A q \in Slot : state'[q] = "SLEEPING" => chan[q] # parent[p]
      /\ \A q \in Slot : state'[q] = "SLEEPING" /\ chan[q] = initproc =>
           \A r \in Slot : parent[r] = p => state[r] # "ZOMBIE"
  BY <1>st, <1>g
<1>n. /\ ctx' = [ctx EXCEPT ![p] = "exit"] /\ ptlock' = c /\ ptlock = NoCPU
      /\ parent' = [q \in Slot |-> IF parent[q] = p THEN initproc ELSE parent[q]]
      /\ UNCHANGED <<pid, killed, chan, priority, pc, np, nextpid, cproc, scan, lowest>>
  BY <1>0 DEF GiveUp, Adopt
<1>p. /\ state[p] = "RUNNING" /\ ctx[p] = "none" /\ pc[p] = "exit" /\ cproc[c] = p
      /\ np[p] = 0 /\ p # 0 /\ p # initproc
      /\ state[initproc] \in {"SLEEPING", "RUNNABLE", "RUNNING"}
  BY <1>0, SlotFacts DEF At, IInv, ForkInv, ParentInv
<1> USE SlotFacts, <1>n, <1>p DEF IInv, TypeOK
<1>1. TypeOK' BY <1>s
<1>2. CpuExclusive'
  <2>1. \A d, e \in CPU : cproc[d] = cproc[e] /\ cproc[d] # 0 => d = e
    BY DEF CpuExclusive
  <2>2. ASSUME NEW r \in Slot, state'[r] = "RUNNING" PROVE \E d \in CPU : cproc[d] = r
    BY <2>2, <1>s DEF CpuExclusive
  <2>3. ASSUME NEW d \in CPU, cproc[d] # 0, d # c PROVE state'[cproc[d]] = "RUNNING"
    <3>1. state[cproc[d]] = "RUNNING" /\ cproc[d] # p
      BY <2>3, <2>1, ProcAssumption DEF CpuExclusive
    <3>2. QED BY <3>1, <2>3, <1>s
  <2>4. QED BY <2>1, <2>2, <2>3, <1>s DEF CpuExclusive
<1>3. ForkExclusive'
  <2>1. ASSUME NEW r \in Slot, np[r] # 0 PROVE state'[np[r]] = "EMBRYO"
    BY <2>1, <1>s DEF ForkExclusive
  <2>2. QED BY <2>1 DEF ForkExclusive
<1>a. ASSUME NEW r \in Slot, parent'[r] # 0
      PROVE  /\ parent'[r] # p /\ state[r] # "UNUSED"
             /\ state[parent'[r]] \in {"SLEEPING", "RUNNABLE", "RUNNING"}
             /\ state'[parent'[r]] \in {"SLEEPING", "RUNNABLE", "RUNNING"}
  <2>1. /\ parent'[r] \in Slot /\ parent'[r] # p /\ state[r] # "UNUSED"
        /\ state[parent'[r]] \in {"SLEEPING", "RUNNABLE", "RUNNING"}
    BY <1>a DEF ParentInv
  <2>2. QED BY <2>1, <1>s
<1>4. ParentAlive'
  <2>1. ASSUME NEW r \in Slot, r # initproc, state'[r] \notin {"UNUSED", "EMBRYO"}
        PROVE  parent'[r] # 0
    <3>1. state[r] \notin {"UNUSED", "EMBRYO"} BY <2>1, <1>s
    <3>2. QED BY <3>1, <2>1 DEF ParentAlive
  <2>2. QED BY <2>1, <1>a DEF ParentAlive
<1>5. WaitJustified'
  <2> SUFFICES ASSUME NEW r \in Slot, state'[r] = "SLEEPING", ctx'[r] = "wait"
               PROVE  /\ \E q \in Slot : parent'[q] = r
                      /\ ~killed[r]
                      /\ \A q \in Slot : parent'[q] = r => state'[q] # "ZOMBIE"
    BY DEF WaitJustified
  <2>1. r # p /\ state[r] = "SLEEPING" /\ ctx[r] = "wait" /\ chan[r] = r
    BY <1>s DEF WaitInv
  <2>2. PICK q \in Slot : parent[q] = r BY <2>1 DEF WaitJustified
  <2>3. parent'[q] = r BY <2>1, <2>2
  <2>4. ASSUME NEW k \in Slot, parent'[k] = r, state'[k] = "ZOMBIE" PROVE FALSE
    <3>1. CASE k = p
      <4>1. parent[p] # p BY DEF ParentInv
      <4>2. QED BY <4>1, <3>1, <2>4, <2>1, <1>w
    <3>2. CASE k # p
      <4>1. state[k] = "ZOMBIE" BY <3>2, <2>4, <1>s
      <4>2. CASE parent[k] = p BY <4>1, <4>2, <2>1, <2>4, <1>w
      <4>3. CASE parent[k] # p BY <4>1, <4>3, <2>1, <2>4 DEF WaitJustified
      <4>4. QED BY <4>2, <4>3
    <3>3. QED BY <3>1, <3>2
  <2>5. QED BY <2>1, <2>3, <2>4 DEF WaitJustified
<1>6. LockInv'
  <2>1. ASSUME NEW d \in CPU, cproc[d] # 0, d # c
        PROVE  state[cproc[d]] = "RUNNING" /\ cproc[d] # p
    BY <2>1, ProcAssumption DEF CpuExclusive
  <2>2. QED BY <2>1, <1>s, ProcAssumption DEF LockInv
<1>7. CtxInv' BY <1>s DEF CtxInv
<1>8. ForkInv' BY <1>s DEF ForkInv, ForkExclusive
<1>9. ParentInv'
  <2>1. ASSUME NEW r \in Slot, parent'[r] # 0
        PROVE  state'[r] # "UNUSED" /\ (state'[r] = "EMBRYO" => np[parent'[r]] = r)
    <3>1. state'[r] # "UNUSED" BY <2>1, <1>a, <1>s
    <3>2. ASSUME state'[r] = "EMBRYO" PROVE np[parent'[r]] = r
      <4>1. state[r] = "EMBRYO" /\ parent[r] # 0 BY <3>2, <2>1, <1>s
      <4>2. np[parent[r]] = r BY <4>1 DEF ParentInv
      <4>3. QED BY <4>1, <4>2
    <3>3. QED BY <3>1, <3>2
  <2>2. QED BY <2>1, <1>a, <1>s DEF ParentInv
<1>10. WaitInv' BY DEF WaitInv, CtxInv
<1> QED BY <1>1, <1>2, <1>3, <1>4, <1>5, <1>6, <1>7, <1>8, <1>9, <1>10 DEF IInv

(* What wait() knows of its caller, fresh or resumed. *)
LEMMA InWaitFacts ==
  ASSUME IInv, NEW c \in CPU, NEW p \in Slot, InWait(c, p)
  PROVE  /\ cproc[c] = p /\ state[p] = "RUNNING" /\ ptlock \in {c, NoCPU}
         /\ pc[p] = "sys" /\ np[p] = 0 /\ ctx[p] \in {"none", "wait"}
BY SlotFacts DEF InWait, At, IInv, ForkInv, WaitInv

(* wait() frees a zombie child. *)
LEMMA WaitReapStep == ASSUME IInv, NEW c \in CPU, WaitReap(c) PROVE IInv'
<1> PICK p \in Slot, q \in Slot :
      /\ InWait(c, p)
      /\ parent[q] = p /\ state[q] = "ZOMBIE"
      /\ pid' = [pid EXCEPT ![q] = 0]
      /\ parent' = [parent EXCEPT ![q] = 0]
      /\ killed' = [killed EXCEPT ![q] = FALSE]
      /\ state' = [state EXCEPT ![q] = "UNUSED"]
      /\ ctx' = [ctx EXCEPT ![p] = "none", ![q] = "none"]
      /\ chan' = [chan EXCEPT ![p] = 0]
      /\ Goto(p, "user")
      /\ ptlock' = NoCPU
      /\ UNCHANGED <<priority, np, nextpid, cproc, scan, lowest>>
  BY DEF WaitReap
<1>p. /\ cproc[c] = p /\ state[p] = "RUNNING" /\ ptlock \in {c, NoCPU} /\ p # q
      /\ pc[p] = "sys" /\ np[p] = 0 /\ np[q] = 0 /\ ctx[p] \in {"none", "wait"}
  BY SlotFacts, InWaitFacts DEF IInv, ForkInv
<1> USE SlotFacts, ProcAssumption, <1>p DEF IInv, TypeOK, Goto
<1>1. TypeOK' BY DEF TypeOK, procstate
<1>2. CpuExclusive' BY DEF CpuExclusive
<1>3. ForkExclusive' BY DEF ForkExclusive
<1>4. ParentAlive' BY DEF ParentAlive, ParentInv
<1>5. WaitJustified' BY DEF WaitJustified
<1>6. LockInv'
  <2>1. ASSUME NEW d \in CPU, cproc[d] # 0, d # c PROVE cproc[d] # p
    BY <2>1 DEF CpuExclusive
  <2>2. ASSUME NEW d \in CPU, cproc[d] # 0, state'[cproc[d]] = "RUNNING"
        PROVE  cproc[d] # q /\ state[cproc[d]] = "RUNNING"
    BY <2>2
  <2>3. ASSUME NEW d \in CPU, cproc[d] # 0, state'[cproc[d]] = "RUNNING"
        PROVE  ctx'[cproc[d]] = "none"
    <3>1. CASE d = c BY <3>1
    <3>2. CASE d # c
      <4>1. ctx[cproc[d]] = "none" BY <3>2, <2>3, <2>2 DEF LockInv
      <4>2. QED BY <4>1, <3>2, <2>3, <2>2, <2>1
    <3>3. QED BY <3>1, <3>2
  <2>4. ptlock' = NoCPU /\ cproc' = cproc OBVIOUS
  <2>5. QED BY ONLY <2>3, <2>4, ProcAssumption DEF LockInv
<1>7. CtxInv' BY DEF CtxInv
<1>8. ForkInv'
  <2>1. ASSUME NEW r \in Slot, np[r] # 0
        PROVE  np[r] # q /\ np[r] # p /\ r # p /\ r # q
    BY <2>1 DEF ForkExclusive
  <2>2. ASSUME NEW r \in Slot
        PROVE  /\ np[r] # 0 <=> pc'[r] \in {"fork", "publish"}
               /\ np[r] # 0 => state'[r] \in {"RUNNABLE", "RUNNING"}
    BY <2>1 DEF ForkInv
  <2>3. ASSUME NEW r \in Slot, pc'[r] \in {"fork", "publish"}
        PROVE  /\ pc'[r] = pc[r] /\ np[r] \in Slot
               /\ parent'[np[r]] = parent[np[r]] /\ ctx'[np[r]] = ctx[np[r]]
    <3>1. np[r] # 0 BY <2>2, <2>3
    <3>2. np[r] \in Slot /\ np[r] # q /\ np[r] # p /\ r # p BY <3>1, <2>1
    <3>3. QED BY <3>2
  <2>4. np' = np OBVIOUS
  <2>5. QED BY ONLY <2>2, <2>3, <2>4, ForkInv DEF ForkInv
<1>9. ParentInv' BY DEF ParentInv, ForkInv
<1>10. WaitInv' BY DEF WaitInv
<1> QED BY <1>1, <1>2, <1>3, <1>4, <1>5, <1>6, <1>7, <1>8, <1>9, <1>10 DEF IInv

(* wait() returns -1. *)
LEMMA WaitFailStep == ASSUME IInv, NEW c \in CPU, WaitFail(c) PROVE IInv'
<1> PICK p \in Slot :
      /\ InWait(c, p)
      /\ ctx' = [ctx EXCEPT ![p] = "none"]
      /\ chan' = [chan EXCEPT ![p] = 0]
      /\ Goto(p, "user")
      /\ ptlock' = NoCPU
      /\ UNCHANGED <<state, pid, parent, killed, priority, np, nextpid, cproc, scan, lowest>>
  BY DEF WaitFail
<1>p. /\ cproc[c] = p /\ state[p] = "RUNNING" /\ ptlock \in {c, NoCPU}
      /\ pc[p] = "sys" /\ np[p] = 0 /\ ctx[p] \in {"none", "wait"}
  BY InWaitFacts
<1> USE SlotFacts, ProcAssumption, <1>p DEF IInv, TypeOK, Goto
<1>1. TypeOK' BY DEF TypeOK, procstate
<1>2. CpuExclusive' BY DEF CpuExclusive
<1>3. ForkExclusive' BY DEF ForkExclusive
<1>4. ParentAlive' BY DEF ParentAlive
<1>5. WaitJustified' BY DEF WaitJustified
<1>6. LockInv' BY DEF LockInv, CpuExclusive
<1>7. CtxInv' BY DEF CtxInv
<1>8. ForkInv' BY DEF ForkInv, ForkExclusive
<1>9. ParentInv' BY DEF ParentInv
<1>10. WaitInv' BY DEF WaitInv
<1> QED BY <1>1, <1>2, <1>3, <1>4, <1>5, <1>6, <1>7, <1>8, <1>9, <1>10 DEF IInv

(* wait() goes to sleep. *)
LEMMA WaitSleepStep == ASSUME IInv, NEW c \in CPU, WaitSleep(c) PROVE IInv'
<1> PICK p \in Slot :
      /\ InWait(c, p)
      /\ \A q \in Slot : parent[q] = p => state[q] # "ZOMBIE"
      /\ \E q \in Slot : parent[q] = p
      /\ ~killed[p]
      /\ chan' = [chan EXCEPT ![p] = p]
      /\ GiveUp(c, p, state, "SLEEPING", "wait")
      /\ UNCHANGED <<pid, parent, killed, priority, pc, np, nextpid, cproc, scan, lowest>>
  BY DEF WaitSleep
<1>p. /\ cproc[c] = p /\ state[p] = "RUNNING" /\ ptlock \in {c, NoCPU}
      /\ pc[p] = "sys" /\ np[p] = 0 /\ ctx[p] \in {"none", "wait"}
  BY InWaitFacts
<1> USE SlotFacts, ProcAssumption, <1>p DEF IInv, TypeOK, GiveUp
<1>1. TypeOK' BY DEF TypeOK, procstate
<1>2. CpuExclusive' BY DEF CpuExclusive
<1>3. ForkExclusive' BY DEF ForkExclusive
<1>4. ParentAlive' BY DEF ParentAlive
<1>5. WaitJustified' BY DEF WaitJustified
<1>6. LockInv' BY DEF LockInv, CpuExclusive
<1>7. CtxInv' BY DEF CtxInv
<1>8. ForkInv' BY DEF ForkInv, ForkExclusive
<1>9. ParentInv' BY DEF ParentInv
<1>10. WaitInv' BY DEF WaitInv
<1> QED BY <1>1, <1>2, <1>3, <1>4, <1>5, <1>6, <1>7, <1>8, <1>9, <1>10 DEF IInv

(* sleep() elsewhere in the kernel. *)
LEMMA SleepOnStep == ASSUME IInv, NEW c \in CPU, NEW ch \in Chan, SleepOn(c, ch) PROVE IInv'
<1> PICK p \in Slot :
      /\ At(c, p, {"sys", "exit"}) /\ ptlock = NoCPU
      /\ chan' = [chan EXCEPT ![p] = ch]
      /\ GiveUp(c, p, state, "SLEEPING", "sleep")
      /\ UNCHANGED <<pid, parent, killed, priority, pc, np, nextpid, cproc, scan, lowest>>
  BY DEF SleepOn
<1> USE SlotFacts, ProcAssumption DEF IInv, TypeOK, GiveUp, At
<1>1. TypeOK' BY DEF TypeOK, procstate
<1>2. CpuExclusive' BY DEF CpuExclusive
<1>3. ForkExclusive' BY DEF ForkExclusive
<1>4. ParentAlive' BY DEF ParentAlive
<1>5. WaitJustified' BY DEF WaitJustified
<1>6. LockInv' BY DEF LockInv, CpuExclusive
<1>7. CtxInv' BY DEF CtxInv
<1>8. ForkInv' BY DEF ForkInv, ForkExclusive
<1>9. ParentInv' BY DEF ParentInv
<1>10. WaitInv' BY DEF WaitInv
<1> QED BY <1>1, <1>2, <1>3, <1>4, <1>5, <1>6, <1>7, <1>8, <1>9, <1>10 DEF IInv

(* wakeup() *)
LEMMA WakeupStep == ASSUME IInv, NEW ch \in Chan, Wakeup(ch) PROVE IInv'
<1> USE SlotFacts DEF IInv, TypeOK, Wakeup, wakeup1
<1>1. TypeOK' BY DEF TypeOK, procstate
<1>2. CpuExclusive' BY DEF CpuExclusive
<1>3. ForkExclusive' BY DEF ForkExclusive
<1>4. ParentAlive' BY DEF ParentAlive
<1>5. WaitJustified' BY DEF WaitJustified
<1>6. LockInv' BY DEF LockInv
<1>7. CtxInv' BY DEF CtxInv
<1>8. ForkInv' BY DEF ForkInv, ForkExclusive
<1>9. ParentInv' BY DEF ParentInv
<1>10. WaitInv' BY DEF WaitInv
<1> QED BY <1>1, <1>2, <1>3, <1>4, <1>5, <1>6, <1>7, <1>8, <1>9, <1>10 DEF IInv

(* kill() *)
LEMMA KillStep == ASSUME IInv, NEW c \in CPU, NEW v \in KillPid, Kill(c, v) PROVE IInv'
<1> PICK p \in Slot :
      /\ At(c, p, {"sys"}) /\ ptlock = NoCPU
      /\ \/ \E q \in Slot :
              /\ killed' = [killed EXCEPT ![q] = TRUE]
              /\ state' = KillWake(q)
         \/ UNCHANGED <<killed, state>>
      /\ Goto(p, "user")
      /\ UNCHANGED <<pid, parent, chan, priority, ctx, np, nextpid, cproc, scan, lowest, ptlock>>
  BY DEF Kill
<1>a. CASE UNCHANGED <<killed, state>>
  BY <1>a, OwnStep DEF At, Goto, IInv, TypeOK
<1>b. ASSUME NEW q \in Slot, killed' = [killed EXCEPT ![q] = TRUE], state' = KillWake(q)
      PROVE  IInv'
  <2> USE SlotFacts, <1>b DEF IInv, TypeOK, At, Goto, KillWake
  <2>1. TypeOK' BY DEF TypeOK, procstate
  <2>2. CpuExclusive' BY DEF CpuExclusive
  <2>3. ForkExclusive' BY DEF ForkExclusive
  <2>4. ParentAlive' BY DEF ParentAlive
  <2>5. WaitJustified' BY DEF WaitJustified
  <2>6. LockInv' BY DEF LockInv
  <2>7. CtxInv' BY DEF CtxInv
  <2>8. ForkInv' BY DEF ForkInv
  <2>9. ParentInv' BY DEF ParentInv
  <2>10. WaitInv' BY DEF WaitInv
  <2> QED BY <2>1, <2>2, <2>3, <2>4, <2>5, <2>6, <2>7, <2>8, <2>9, <2>10 DEF IInv
<1> QED BY <1>a, <1>b

(* The steps that only move the running process, change its own killed     *)
(* flag or write priorities.                                               *)
LEMMA OwnSteps ==
  ASSUME IInv, NEW c \in CPU,
         \/ TrapSyscall(c) \/ TrapTimer(c) \/ TrapFault(c) \/ SysReturn(c)
         \/ SysExit(c) \/ ExitPanic(c)
         \/ \E v \in 0 .. MaxPid, pr \in Priority : Nice(c, v, pr)
  PROVE  IInv'
<1>t. /\ killed \in [Slot -> BOOLEAN] /\ priority \in [Slot -> Int]
      /\ \A q \in Slot : q \in DOMAIN pc
  BY DEF IInv, TypeOK
<1>1. CASE TrapSyscall(c)
  <2>1. PICK p \in Slot : /\ At(c, p, {"user"}) /\ Goto(p, IF killed[p] THEN "exit" ELSE "sys")
                          /\ UNCHANGED <<killed, priority>>
                          /\ UNCHANGED <<state, pid, parent, chan, ctx, np, nextpid, cproc, scan, lowest, ptlock>>
    BY <1>1 DEF TrapSyscall
  <2>2. pc[p] \in {"user", "sys", "exit"} /\ state[p] = "RUNNING" /\ ctx[p] = "none"
    BY <2>1 DEF At
  <2>3. QED BY <2>1, <2>2, <1>t, OwnStep DEF Goto
<1>2. CASE TrapTimer(c)
  <2>1. PICK p \in Slot : /\ At(c, p, {"user"}) /\ Goto(p, IF killed[p] THEN "exit" ELSE "tick")
                          /\ UNCHANGED <<killed, priority>>
                          /\ UNCHANGED <<state, pid, parent, chan, ctx, np, nextpid, cproc, scan, lowest, ptlock>>
    BY <1>2 DEF TrapTimer
  <2>2. pc[p] \in {"user", "sys", "exit"} /\ state[p] = "RUNNING" /\ ctx[p] = "none"
    BY <2>1 DEF At
  <2>3. QED BY <2>1, <2>2, <1>t, OwnStep DEF Goto
<1>3. CASE TrapFault(c)
  <2>1. PICK p \in Slot : /\ At(c, p, {"user"}) /\ Goto(p, "exit")
                          /\ killed' = [killed EXCEPT ![p] = TRUE] /\ priority' = priority
                          /\ UNCHANGED <<state, pid, parent, chan, ctx, np, nextpid, cproc, scan, lowest, ptlock>>
    BY <1>3 DEF TrapFault
  <2>2. pc[p] \in {"user", "sys", "exit"} /\ state[p] = "RUNNING" /\ ctx[p] = "none"
    BY <2>1 DEF At
  <2>3. QED BY <2>1, <2>2, <1>t, OwnStep DEF Goto
<1>4. CASE SysReturn(c)
  <2>1. PICK p \in Slot : /\ At(c, p, {"sys"}) /\ Goto(p, "user")
                          /\ UNCHANGED <<killed, priority>>
                          /\ UNCHANGED <<state, pid, parent, chan, ctx, np, nextpid, cproc, scan, lowest, ptlock>>
    BY <1>4 DEF SysReturn
  <2>2. pc[p] \in {"user", "sys", "exit"} /\ state[p] = "RUNNING" /\ ctx[p] = "none"
    BY <2>1 DEF At
  <2>3. QED BY <2>1, <2>2, <1>t, OwnStep DEF Goto
<1>5. CASE SysExit(c)
  <2>1. PICK p \in Slot : /\ At(c, p, {"sys"}) /\ Goto(p, "exit")
                          /\ UNCHANGED <<killed, priority>>
                          /\ UNCHANGED <<state, pid, parent, chan, ctx, np, nextpid, cproc, scan, lowest, ptlock>>
    BY <1>5 DEF SysExit
  <2>2. pc[p] \in {"user", "sys", "exit"} /\ state[p] = "RUNNING" /\ ctx[p] = "none"
    BY <2>1 DEF At
  <2>3. QED BY <2>1, <2>2, <1>t, OwnStep DEF Goto
<1>6. CASE ExitPanic(c)
  <2>1. PICK p \in Slot : /\ At(c, p, {"exit"}) /\ Goto(p, "panic")
                          /\ UNCHANGED <<killed, priority>>
                          /\ UNCHANGED <<state, pid, parent, chan, ctx, np, nextpid, cproc, scan, lowest, ptlock>>
    BY <1>6 DEF ExitPanic
  <2>2. pc[p] \in {"user", "sys", "exit"} /\ state[p] = "RUNNING" /\ ctx[p] = "none"
    BY <2>1 DEF At
  <2>3. QED BY <2>1, <2>2, <1>t, OwnStep DEF Goto
<1>7. ASSUME NEW v \in 0 .. MaxPid, NEW pr \in Priority, Nice(c, v, pr) PROVE IInv'
  <2>1. priority' \in [Slot -> Int] BY <1>7, <1>t, ProcAssumption DEF Nice
  <2>2. PICK p \in Slot : /\ At(c, p, {"sys"}) /\ Goto(p, "user") /\ killed' = killed
                          /\ UNCHANGED <<state, pid, parent, chan, ctx, np, nextpid, cproc, scan, lowest, ptlock>>
    BY <1>7 DEF Nice
  <2>3. pc[p] \in {"user", "sys", "exit"} /\ state[p] = "RUNNING" /\ ctx[p] = "none"
    BY <2>2 DEF At
  <2>4. QED BY <2>1, <2>2, <2>3, <1>t, OwnStep DEF Goto
<1>8. QED BY <1>1, <1>2, <1>3, <1>4, <1>5, <1>6, <1>7

LEMMA StutterStep == ASSUME IInv, UNCHANGED vars PROVE IInv'
<1> USE DEF vars, IInv
<1>1. TypeOK' BY DEF TypeOK
<1>2. CpuExclusive' BY DEF CpuExclusive
<1>3. ForkExclusive' BY DEF ForkExclusive
<1>4. ParentAlive' BY DEF ParentAlive
<1>5. WaitJustified' BY DEF WaitJustified
<1>6. LockInv' BY DEF LockInv
<1>7. CtxInv' BY DEF CtxInv
<1>8. ForkInv' BY DEF ForkInv
<1>9. ParentInv' BY DEF ParentInv
<1>10. WaitInv' BY DEF WaitInv
<1> QED BY <1>1, <1>2, <1>3, <1>4, <1>5, <1>6, <1>7, <1>8, <1>9, <1>10 DEF IInv

LEMMA NextIInv == ASSUME IInv, [Next]_vars PROVE IInv'
<1>1. ASSUME NEW c \in CPU, Scheduler(c) PROVE IInv'
  BY <1>1, SchedAcquireStep, SkipStep, PickStep, SchedReleaseStep, SwtchStep DEF Scheduler
<1>2. ASSUME NEW c \in CPU, Process(c) PROVE IInv'
  <2>1. CASE \/ Yield(c) \/ Resume(c) \/ AllocProc(c) \/ ForkFail(c) \/ ForkCopy(c)
             \/ ForkPublish(c) \/ Exit(c) \/ WaitReap(c) \/ WaitFail(c) \/ WaitSleep(c)
    BY <2>1, YieldStep, ResumeStep, AllocProcStep, ForkFailStep, ForkCopyStep,
       ForkPublishStep, ExitStep, WaitReapStep, WaitFailStep, WaitSleepStep
  <2>2. CASE \E ch \in Chan : SleepOn(c, ch) BY <2>2, SleepOnStep
  <2>3. CASE \E v \in KillPid : Kill(c, v) BY <2>3, KillStep
  <2>4. QED BY <1>2, <2>1, <2>2, <2>3, OwnSteps DEF Process
<1>3. ASSUME NEW ch \in Chan, Wakeup(ch) PROVE IInv' BY <1>3, WakeupStep
<1>4. QED BY <1>1, <1>2, <1>3, StutterStep DEF Next

(* The strengthened invariant holds of every behaviour of the process      *)
(* table, for any size of the table, any number of CPUs and any channels.  *)
THEOREM IInvHolds == Spec => []IInv
BY InitIInv, NextIInv, PTL DEF Spec

(* The fields of the process table and of the CPUs keep their types, and   *)
(* the loop of scheduler() stays in the table.                             *)
THEOREM TypeCorrect == Spec => []TypeOK
<1>1. IInv => TypeOK BY DEF IInv
<1>2. QED BY <1>1, IInvHolds, PTL

(* scheduler(), sched() and the hand-over of ptable.lock across swtch()    *)
(* never let two CPUs run one process or its stack.                        *)
THEOREM NoSharedProcess == Spec => []CpuExclusive
<1>1. IInv => CpuExclusive BY DEF IInv
<1>2. QED BY <1>1, IInvHolds, PTL

(* A slot that allocproc() handed to one fork() is nobody else's until     *)
(* fork() publishes or frees it.                                           *)
THEOREM NoSharedEmbryo == Spec => []ForkExclusive
<1>1. IInv => ForkExclusive BY DEF IInv
<1>2. QED BY <1>1, IInvHolds, PTL

(* exit() and wait() never leave a process without a living parent. *)
THEOREM NoOrphans == Spec => []ParentAlive
<1>1. IInv => ParentAlive BY DEF IInv
<1>2. QED BY <1>1, IInvHolds, PTL

(* A process asleep in wait() has missed no wakeup: exit() and kill()      *)
(* leave none asleep that has something to return for.                     *)
THEOREM NoLostChild == Spec => []WaitJustified
<1>1. IInv => WaitJustified BY DEF IInv
<1>2. QED BY <1>1, IInvHolds, PTL

=============================================================================
