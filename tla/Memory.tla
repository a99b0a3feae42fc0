------------------------------- MODULE Memory -------------------------------
(***************************************************************************)
(* Physical pages and address spaces: kalloc.c, vm.c, exec.c, sbrk, and    *)
(* what fork, exit and wait of proc.c do to memory.  Every page a process  *)
(* asks for is a step, so that processes run out of memory half way and    *)
(* while others allocate and free.  Addresses are bytes modulo 2^w; a page *)
(* table maps NPT pages.                                                   *)
(***************************************************************************)
EXTENDS Integers, Sequences, FiniteSets, FiniteSetsExt, Functions

CONSTANTS Proc, Init1,     \* the processes, the first of them
          NFrame,          \* number of physical pages
          PGSIZE, NPT, KERNBASE, WORD,  \* WORD = 2^w bytes
          Delta,           \* arguments of sbrk
          Program,         \* what exec may find: sequences of loadable program headers
          ArgBytes         \* bytes exec pushes on the new stack

Frame == 1..NFrame   \* 0 is the null pointer
Page == 0..(KERNBASE \div PGSIZE) - 1
Table == {i \div NPT : i \in Page}

VARIABLES free,      \* kmem.freelist
          kstack,    \* p->kstack
          vm,        \* address space: page directory, kernel table, user tables, pages, PTE_U
          cur,       \* p->pgdir: which of the two address spaces of a process it runs in
          sz,        \* p->sz
          state,     \* UNUSED, EMBRYO (fork is filling it), RUNNING, ZOMBIE
          job,       \* what a process is doing in the kernel
          panicked

vars == <<free, kstack, vm, cur, sz, state, job, panicked>>

\* A process builds a new address space in exec, next to the one it runs in.
Space == Proc \X {0, 1}
NoSpace == [dir |-> 0, ktab |-> 0, tabs |-> [t \in Table |-> 0],
            pages |-> [i \in Page |-> 0], user |-> {}]
Idle == [op |-> "none", as |-> <<Init1, 0>>, old |-> 0, new |-> 0, a |-> 0, child |-> Init1, ph |-> <<>>]

PGROUNDUP(n) == ((n + PGSIZE - 1) \div PGSIZE) * PGSIZE
kalloc(taken) == Min(free \ taken)
kfree(frames) == free \cup frames
FramesOf(v) == ({v.dir, v.ktab} \cup Range(v.tabs) \cup Range(v.pages)) \ {0}
Mapped(v) == {i \in Page : v.pages[i] # 0}
Running(p) == <<p, cur[p]>>

TypeOK == /\ free \subseteq Frame
          /\ kstack \in [Proc -> Frame \cup {0}]
          /\ \A s \in Space : FramesOf(vm[s]) \subseteq Frame /\ vm[s].user \subseteq Mapped(vm[s])
          /\ cur \in [Proc -> {0, 1}]
          /\ sz \in [Proc -> 0..KERNBASE - 1]
          /\ state \in [Proc -> {"UNUSED", "EMBRYO", "RUNNING", "ZOMBIE"}]
          /\ panicked \in BOOLEAN

\* inituvm and setupkvm of the first process: one page, of initcode.
inituvm == [NoSpace EXCEPT !.dir = 2, !.ktab = 3, !.tabs[0] = 4, !.pages[0] = 5, !.user = {0}]

\* kinit and userinit.  Frames are handed out lowest first: the order of the free
\* list is left out.
Init == /\ free = Frame \ 1..5
        /\ kstack = [p \in Proc |-> IF p = Init1 THEN 1 ELSE 0]
        /\ vm = [s \in Space |-> IF s = <<Init1, 0>> THEN inituvm ELSE NoSpace]
        /\ cur = [p \in Proc |-> 0]
        /\ sz = [p \in Proc |-> IF p = Init1 THEN PGSIZE ELSE 0]
        /\ state = [p \in Proc |-> IF p = Init1 THEN "RUNNING" ELSE "UNUSED"]
        /\ job = [p \in Proc |-> Idle]
        /\ panicked = FALSE

\* A process makes calls while it has memory to run in: one that has given it
\* all back faults on its next instruction and exits.
User(p) == ~panicked /\ state[p] = "RUNNING" /\ job[p] = Idle /\ Mapped(vm[Running(p)]) # {}
Busy(p, ops) == ~panicked /\ job[p].op \in ops
Return(p) == job' = [job EXCEPT ![p] = Idle]
-----------------------------------------------------------------------------

\* deallocuvm: the address space without the pages from new up to old.
deallocuvm(v, old, new) ==
  LET gone == {i \in Page : PGROUNDUP(new) <= i * PGSIZE /\ i * PGSIZE < old}
  IN IF new >= old THEN v
     ELSE [v EXCEPT !.pages = [i \in Page |-> IF i \in gone THEN 0 ELSE v.pages[i]], !.user = @ \ gone]

\* kalloc for page a, mappages with a page table if there is none yet.  None
\* left at either point: the page is given back.
CanMap(v, a) == Cardinality(free) >= IF v.tabs[(a \div PGSIZE) \div NPT] = 0 THEN 2 ELSE 1

mappages(v, a, user) ==
  LET i == a \div PGSIZE
      t == i \div NPT
      mem == kalloc({})
  IN [v EXCEPT !.pages[i] = mem,
               !.tabs[t] = IF @ = 0 THEN kalloc({mem}) ELSE @,
               !.user = IF user THEN @ \cup {i} ELSE @]

\* The address space s becomes v, frames move between it and the free list.
Becomes(s, v) == /\ vm' = [vm EXCEPT ![s] = v]
                 /\ free' = kfree(FramesOf(vm[s])) \ FramesOf(v)

freevm(s) == Becomes(s, NoSpace)

\* setupkvm: a directory and the kernel's tables, or nothing.
setupkvm(v) == LET f == kalloc({}) IN [v EXCEPT !.dir = f, !.ktab = kalloc({f})]
-----------------------------------------------------------------------------

\* sbrk.  growproc takes 0 from allocuvm and from deallocuvm for a failure.
Grow(p, s, op, old, new) ==
  job' = [job EXCEPT ![p] = [@ EXCEPT !.op = op, !.as = s, !.old = old, !.new = new, !.a = PGROUNDUP(old)]]

growproc(p, n) == LET new == (sz[p] + n) % WORD IN
  /\ User(p)
  /\ \/ /\ n > 0 /\ new < KERNBASE /\ new >= sz[p]
        /\ Grow(p, Running(p), "sbrk", sz[p], new)
        /\ UNCHANGED <<free, vm, sz>>
     \/ /\ n < 0 /\ new < sz[p]
        /\ Becomes(Running(p), deallocuvm(vm[Running(p)], sz[p], new))
        /\ sz' = IF new = 0 THEN sz ELSE [sz EXCEPT ![p] = new]
        /\ UNCHANGED job
  /\ UNCHANGED <<kstack, cur, state, panicked>>

\* A round of allocuvm's loop.  Without memory the pages added so far go.
allocuvm(p) == LET j == job[p]
                   v == vm[j.as] IN
  /\ Busy(p, {"sbrk", "load", "stack"}) /\ j.a < j.new
  /\ IF v.pages[j.a \div PGSIZE] # 0
     THEN panicked' = TRUE /\ UNCHANGED <<free, vm, job>>
     ELSE /\ IF CanMap(v, j.a)
             THEN /\ Becomes(j.as, mappages(v, j.a, TRUE))
                  /\ job' = [job EXCEPT ![p].a = @ + PGSIZE]
             ELSE /\ Becomes(j.as, deallocuvm(v, j.new, j.old))
                  /\ job' = [job EXCEPT ![p] = IF j.op = "sbrk" THEN Idle ELSE [@ EXCEPT !.op = "bad"]]
          /\ UNCHANGED panicked
  /\ UNCHANGED <<kstack, cur, sz, state>>

sbrkDone(p) == /\ Busy(p, {"sbrk"}) /\ job[p].a >= job[p].new
               /\ sz' = [sz EXCEPT ![p] = job[p].new]
               /\ Return(p)
               /\ UNCHANGED <<free, kstack, vm, cur, state, panicked>>
-----------------------------------------------------------------------------
\* exec builds the new address space in the other one of the process.  Nothing
\* changes if there is no such file or no memory to begin with.
Other(p) == <<p, 1 - cur[p]>>

execBegin(p, ph) ==
  /\ User(p)
  /\ Cardinality(free) >= 2
  /\ Becomes(Other(p), setupkvm(NoSpace))
  /\ job' = [job EXCEPT ![p] = [Idle EXCEPT !.op = "header", !.as = Other(p), !.ph = ph]]
  /\ UNCHANGED <<kstack, cur, sz, state, panicked>>

\* The next program header.  job.new is the size so far.
BadHeader(h) == ~h.readable \/ h.memsz < h.filesz \/ (h.vaddr + h.memsz) % WORD < h.vaddr
execHeader(p) == LET j == job[p]
                     h == Head(j.ph)
                     end == (h.vaddr + h.memsz) % WORD IN
  /\ Busy(p, {"header"}) /\ j.ph # <<>>
  /\ IF BadHeader(h) \/ end >= KERNBASE \/ (end = 0 /\ j.new = 0)
     THEN job' = [job EXCEPT ![p].op = "bad"]
     ELSE Grow(p, j.as, "load", j.new, IF end < j.new THEN j.new ELSE end)
  /\ UNCHANGED <<free, kstack, vm, cur, sz, state, panicked>>

\* loaduvm: every page of the segment's file part has to be there, and the file
\* long enough.
execLoaded(p) == LET j == job[p]
                     h == Head(j.ph) IN
  /\ Busy(p, {"load"}) /\ j.a >= j.new
  /\ IF h.vaddr % PGSIZE # 0 \/ ~h.complete
     THEN job' = [job EXCEPT ![p].op = "bad"] /\ UNCHANGED panicked
     ELSE /\ panicked' = ~(\A i \in Page : h.vaddr <= i * PGSIZE /\ i * PGSIZE < h.vaddr + h.filesz
                                             => i \in Mapped(vm[j.as]))
          /\ job' = [job EXCEPT ![p].op = "header", ![p].ph = Tail(@)]
  /\ UNCHANGED <<free, kstack, vm, cur, sz, state>>

execStack(p) == LET base == PGROUNDUP(job[p].new) IN
  /\ Busy(p, {"header"}) /\ job[p].ph = <<>>
  /\ IF base + 2 * PGSIZE >= KERNBASE
     THEN job' = [job EXCEPT ![p].op = "bad"]
     ELSE Grow(p, job[p].as, "stack", base, base + 2 * PGSIZE)
  /\ UNCHANGED <<free, kstack, vm, cur, sz, state, panicked>>

\* clearpteu under the stack; copyout writes the arguments from the top down
\* and fails at a page without PTE_U.
Copyable(v, va, len) == \A i \in Page : i * PGSIZE < va + len /\ va < (i + 1) * PGSIZE => i \in v.user

execCommit(p, len) == LET j == job[p]
                          guard == (j.new \div PGSIZE) - 2
                          v == [vm[j.as] EXCEPT !.user = @ \ {guard}] IN
  /\ Busy(p, {"stack"}) /\ j.a >= j.new
  /\ IF Copyable(v, j.new - len, len)
     THEN /\ cur' = [cur EXCEPT ![p] = 1 - @]
          /\ sz' = [sz EXCEPT ![p] = j.new]
          /\ vm' = [vm EXCEPT ![j.as] = v, ![Running(p)] = NoSpace]
          /\ free' = kfree(FramesOf(vm[Running(p)]))
          /\ Return(p)
     ELSE /\ job' = [job EXCEPT ![p].op = "bad"]
          /\ vm' = [vm EXCEPT ![j.as] = v]
          /\ UNCHANGED <<cur, sz, free>>
  /\ UNCHANGED <<kstack, state, panicked>>

\* Mutant: the half-built address space is forgotten.
ExecBadForgets(p) == /\ Busy(p, {"bad"})
                     /\ Return(p)
                     /\ UNCHANGED <<free, vm, kstack, cur, sz, state, panicked>>

execBad(p) == /\ Busy(p, {"bad"})
              /\ freevm(job[p].as)
              /\ Return(p)
              /\ UNCHANGED <<kstack, cur, sz, state, panicked>>
-----------------------------------------------------------------------------
\* fork: a slot and a kernel stack (allocproc), then copyuvm page by page.
forkBegin(p, q) ==
  /\ User(p) /\ state[q] = "UNUSED" /\ free # {}
  /\ state' = [state EXCEPT ![q] = "EMBRYO"]
  /\ kstack' = [kstack EXCEPT ![q] = kalloc({})]
  /\ free' = free \ {kalloc({})}
  /\ job' = [job EXCEPT ![p] = [Idle EXCEPT !.op = "setup", !.as = <<q, cur[q]>>, !.child = q]]
  /\ UNCHANGED <<vm, cur, sz, panicked>>

forkFails(p) == LET q == job[p].child IN
  /\ vm' = [vm EXCEPT ![job[p].as] = NoSpace]
  /\ free' = kfree(FramesOf(vm[job[p].as]) \cup {kstack[q]})
  /\ kstack' = [kstack EXCEPT ![q] = 0]
  /\ state' = [state EXCEPT ![q] = "UNUSED"]
  /\ Return(p)

forkSetup(p) ==
  /\ Busy(p, {"setup"})
  /\ \/ /\ Cardinality(free) >= 2
        /\ Becomes(job[p].as, setupkvm(NoSpace))
        /\ job' = [job EXCEPT ![p].op = "copy"]
        /\ UNCHANGED <<kstack, state>>
     \/ Cardinality(free) < 2 /\ forkFails(p)
  /\ UNCHANGED <<cur, sz, panicked>>

copyuvm(p) == LET j == job[p]
                  v == vm[Running(p)]
                  i == j.a \div PGSIZE IN
  /\ Busy(p, {"copy"}) /\ j.a < sz[p]
  /\ IF i \notin Mapped(v) \/ vm[j.as].pages[i] # 0
     THEN panicked' = TRUE /\ UNCHANGED <<free, vm, job, kstack, state>>
     ELSE /\ \/ /\ CanMap(vm[j.as], j.a)
                /\ Becomes(j.as, mappages(vm[j.as], j.a, i \in v.user))
                /\ job' = [job EXCEPT ![p].a = @ + PGSIZE]
                /\ UNCHANGED <<kstack, state>>
             \/ ~CanMap(vm[j.as], j.a) /\ forkFails(p)
          /\ UNCHANGED panicked
  /\ UNCHANGED <<cur, sz>>

forkDone(p) == LET q == job[p].child IN
  /\ Busy(p, {"copy"}) /\ job[p].a >= sz[p]
  /\ sz' = [sz EXCEPT ![q] = sz[p]]
  /\ state' = [state EXCEPT ![q] = "RUNNING"]
  /\ Return(p)
  /\ UNCHANGED <<free, kstack, vm, cur, panicked>>

exit(p) == /\ ~panicked /\ state[p] = "RUNNING" /\ job[p] = Idle /\ p # Init1
           /\ state' = [state EXCEPT ![p] = "ZOMBIE"]
           /\ UNCHANGED <<free, kstack, vm, cur, sz, job, panicked>>

\* wait, by whoever is the parent.
wait(q) == /\ ~panicked /\ state[q] = "ZOMBIE"
           /\ vm' = [vm EXCEPT ![Running(q)] = NoSpace]
           /\ free' = kfree(FramesOf(vm[Running(q)]) \cup {kstack[q]})
           /\ kstack' = [kstack EXCEPT ![q] = 0]
           /\ state' = [state EXCEPT ![q] = "UNUSED"]
           /\ UNCHANGED <<cur, sz, job, panicked>>

Next == \E p \in Proc :
  \/ \E n \in Delta : growproc(p, n)
  \/ allocuvm(p) \/ sbrkDone(p)
  \/ \E ph \in Program : execBegin(p, ph)
  \/ execHeader(p) \/ execLoaded(p) \/ execStack(p) \/ execBad(p)
  \/ \E len \in ArgBytes : execCommit(p, len)
  \/ \E q \in Proc : forkBegin(p, q)
  \/ forkSetup(p) \/ copyuvm(p) \/ forkDone(p) \/ exit(p) \/ wait(p)

Spec == Init /\ [][Next]_vars
-----------------------------------------------------------------------------
\* Every physical page is in exactly one place: on the free list, a kernel
\* stack, or one entry of one address space.  Nothing is lost or used twice
\* however an allocation fails half way.
Places(f) == (IF f \in free THEN 1 ELSE 0) + Cardinality({p \in Proc : kstack[p] = f})
  + Cardinality({s \in Space : vm[s].dir = f}) + Cardinality({s \in Space : vm[s].ktab = f})
  + Cardinality({<<s, t>> \in Space \X Table : vm[s].tabs[t] = f})
  + Cardinality({<<s, i>> \in Space \X Page : vm[s].pages[i] = f})
FramesInOnePlace == \A f \in Frame : Places(f) = 1

\* Between calls the pages of a process are exactly those below p->sz, so a
\* failed sbrk, exec or fork has left it as it was, and copyuvm finds every
\* page.  The exception is a process that has given all its memory back:
\* growproc takes the new size 0 for a failure and leaves p->sz.
MemoryMatchesSize == \A p \in Proc : state[p] = "RUNNING" /\ job[p] = Idle =>
  \/ Mapped(vm[Running(p)]) = {i \in Page : i * PGSIZE < sz[p]}
  \/ Mapped(vm[Running(p)]) = {}

\* Nothing is left of an address space that is not in use.
NoLeftovers == \A s \in Space : vm[s] # NoSpace =>
  \/ state[s[1]] \in {"RUNNING", "ZOMBIE"} /\ s = Running(s[1])
  \/ \E p \in Proc : job[p].op # "none" /\ job[p].as = s

\* The panics of mappages, copyuvm and loaduvm are unreachable.
NoMemoryPanic == ~panicked
=============================================================================
