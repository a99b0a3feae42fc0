-------------------------------- MODULE Calls -------------------------------
(***************************************************************************)
(* How the kernel takes the arguments of a system call from user memory    *)
(* (syscall.c, argfd, sys_exec) and what ps hands back (proc_ps).  An int  *)
(* takes INT bytes of memory; memory maps an address to what is stored     *)
(* there, an int or the first byte of one, and a byte is nul when it is 0. *)
(***************************************************************************)
EXTENDS Integers, Sequences, SequencesExt

CONSTANTS WORD,      \* 2^w: addresses are 0..WORD-1
          KERNBASE,  \* no process is larger; WORD / 2 as in memlayout.h
          INT,       \* sizeof(int)
          MAXARG,
          NOFILE,
          NSYSCALL,  \* NELEM(syscalls)
          INTMAX,    \* the largest int in what ps computes
          Memory,    \* the memories tried
          Table      \* the process tables tried

Fail == [ok |-> FALSE, v |-> 0]
Ok(v) == [ok |-> TRUE, v |-> v]
Unsigned(i) == i % WORD
Size == 0..KERNBASE
Addr == 0..WORD - 1
IntValue == -(WORD \div 2)..(WORD \div 2) - 1

fetchint(m, sz, addr) == IF addr >= sz \/ Unsigned(addr + INT) > sz THEN Fail ELSE Ok(m[addr])

fetchstr(m, sz, addr) ==
  LET nul == {s \in addr..sz - 1 : m[s] = 0}
  IN IF addr >= sz \/ nul = {} THEN Fail
     ELSE Ok(CHOOSE k \in 0..sz : addr + k \in nul /\ \A s \in nul : addr + k <= s)

argint(m, sz, esp, n) == fetchint(m, sz, Unsigned(esp + INT + INT * n))

argptr(m, sz, esp, n, size) ==
  LET i == argint(m, sz, esp, n)
  IN IF ~i.ok \/ size < 0 \/ i.v >= sz \/ Unsigned(i.v + size) > sz THEN Fail ELSE i

argstr(m, sz, esp, n) == LET addr == argint(m, sz, esp, n) IN IF addr.ok THEN fetchstr(m, sz, addr.v) ELSE Fail

argfd(fd, ofile) ==
  IF fd < 0 \/ fd >= NOFILE THEN Fail ELSE IF ofile[fd] = 0 THEN Fail ELSE Ok(fd)

\* The entry syscall calls; implemented is the set of numbers with one.
syscall(num, implemented) == IF num > 0 /\ num < NSYSCALL /\ num \in implemented THEN Ok(num) ELSE Fail

RECURSIVE ExecArgs(_, _, _, _)
\* The loop of sys_exec from argument i on: the addresses of the strings.
ExecArgs(m, sz, uargv, i) ==
  LET word == fetchint(m, sz, Unsigned(uargv + INT * i))
      rest == ExecArgs(m, sz, uargv, i + 1)
  IN IF i >= MAXARG \/ ~word.ok THEN [ok |-> FALSE, v |-> <<>>]
     ELSE IF word.v = 0 THEN [ok |-> TRUE, v |-> <<>>]
     ELSE IF ~fetchstr(m, sz, word.v).ok THEN [ok |-> FALSE, v |-> <<>>]
     ELSE [rest EXCEPT !.v = <<word.v>> \o @]

sys_exec(m, sz, esp) ==
  LET uargv == argint(m, sz, esp, 1)
  IN IF argstr(m, sz, esp, 0).ok /\ uargv.ok THEN ExecArgs(m, sz, uargv.v, 0) ELSE [ok |-> FALSE, v |-> <<>>]

\* Every byte the kernel then reads or writes for the argument belongs to the
\* process, whatever the value: a pointer near the end of the address space, a
\* length that is negative or makes the end wrap, an argument list that runs
\* into the end of the memory.
ArgumentsInMemory == \A sz \in Size, m \in Memory, esp \in Addr :
  /\ fetchint(m, sz, esp).ok => esp + INT <= sz
  /\ \A size \in IntValue : LET r == argptr(m, sz, esp, 1, size) IN r.ok => r.v + size <= sz
  /\ LET r == sys_exec(m, sz, esp)
         uargv == argint(m, sz, esp, 1).v
     IN r.ok => /\ Len(r.v) < MAXARG
                /\ \A k \in 1..Len(r.v) : \E s \in r.v[k]..sz - 1 : m[s] = 0
                /\ \E k \in 0..MAXARG - 1 : uargv + INT * k + INT <= sz /\ m[uargv + INT * k] = 0

\* A descriptor or a call number that is accepted indexes its table inside the
\* bounds, at an entry in use.
IndicesInTable ==
  /\ \A fd \in IntValue, used \in SUBSET (0..NOFILE - 1) :
       LET ofile == [k \in 0..NOFILE - 1 |-> IF k \in used THEN 1 ELSE 0]
       IN argfd(fd, ofile).ok => fd \in used
  /\ \A num \in IntValue, implemented \in SUBSET (1..NSYSCALL - 1) :
       syscall(num, implemented).ok <=> num \in implemented
-----------------------------------------------------------------------------
\* Arithmetic on ints: the build's wraps around, and its division truncates
\* towards 0.
Wrapped(x) == ((x + INTMAX + 1) % (2 * (INTMAX + 1))) - (INTMAX + 1)
Quotient(a, b) == IF a >= 0 THEN a \div b ELSE -(-a \div b)

cpuPercent(p, ticks) ==
  LET elapsed == Wrapped(ticks - p.ticksAtStart)
      share == Quotient(Wrapped(p.ticksScheduled * 100), elapsed)
  IN IF elapsed > 0 /\ 1 < p.ticksScheduled THEN (IF 100 < share THEN 100 ELSE share) ELSE 0

\* What ps stores: every entry of the table in use, in order, however many
\* elements the caller said its array has.
proc_ps(numberOfProcs, ptable, ticks) ==
  LET used == SelectSeq(ptable, LAMBDA p : p.state # "UNUSED")
  IN [k \in DOMAIN used |-> [pid |-> used[k].pid, state |-> used[k].state, cpuPercent |-> cpuPercent(used[k], ticks)]]

\* ps of an array that is large enough reports each process in use once and
\* none that is not, and stores no more elements than the array has.  The share
\* of the CPU is at most 100, also for a process created in this tick or
\* scheduled more often than ticks have passed, and not negative as long as 100
\* times the number of schedulings is an int.
InUse(ptable) == {j \in DOMAIN ptable : ptable[j].state # "UNUSED"}
PsReports == \A ptable \in Table, ticks \in 0..3 : \A numberOfProcs \in 0..Len(ptable) :
  LET r == proc_ps(numberOfProcs, ptable, ticks)
  IN Cardinality(InUse(ptable)) <= numberOfProcs =>
       /\ Len(r) <= numberOfProcs
       /\ \A k \in DOMAIN r : r[k].cpuPercent <= 100 /\ r[k].state # "UNUSED"
       /\ \A j \in InUse(ptable) : \E k \in DOMAIN r :
            /\ r[k].pid = ptable[j].pid /\ \A l \in DOMAIN r \ {k} : r[l].pid # r[k].pid
            /\ ptable[j].ticksScheduled * 100 <= INTMAX => r[k].cpuPercent >= 0
=============================================================================
