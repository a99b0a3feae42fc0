# A TLA+ model of the kernel

The repository is a small Unix-like kernel for x86 multiprocessors with some
additions of its own: process priorities (`nice`), `ps`, file locks (`flock`),
and the null, zero, hello and ticks devices. This directory models the kernel
and the user-level code it comes with, checks the models with TLC and proves
the most important results with TLAPS. Line numbers are in `PROJECT.json`
("map").

## The system and its parts

| Part | Code | Module | State of the model |
|---|---|---|---|
| Process table, scheduler, fork/exit/wait, sleep/wakeup, kill, nice | `proc.c`, `sysproc.c`, `trap.c` | `Proc`, `ProcProofs` | modelled, proved |
| Spin locks, interrupt masking, switch of contexts | `spinlock.c`, `proc.c`, `trapasm.S` | `SpinLock` | modelled |
| Sleep locks | `sleeplock.c`, `sleep`/`wakeup` of `proc.c` | `SleepLock`, `Mutex`, `SleepLockProofs` | modelled, proved |
| Pipes | `pipe.c` | `Pipe`, `Fifo` | modelled |
| Log | `log.c` | `Log`, `AtomicDisk` | modelled |
| Buffer cache, disk drivers | `bio.c`, `ide.c`, `memide.c` | `BufferCache`, `Blocks` | modelled |
| File table, descriptors, inode cache | `file.c`, `sysfile.c`, `fs.c` | `Files` | modelled |
| Directories, path walks, link counts | `sysfile.c`, `fs.c` | `Names` | modelled |
| Path elements, directory entries | `fs.c` | `Paths` | operators |
| Inode contents, block allocation, file offsets | `fs.c`, `file.c` | `Contents` | modelled |
| File locks | `fs.c`, `file.c`, `sysfile.c` | `FileLock` | modelled |
| Physical pages, address spaces, `exec`, `sbrk` | `kalloc.c`, `vm.c`, `exec.c`, `proc.c` | `Memory` | modelled |
| Console, screen cursor | `console.c` | `Console`, `LineInput` | modelled |
| Keyboard | `kbd.c`, `kbd.h` | `Keyboard` | modelled |
| Clock, `sys_sleep` | `trap.c`, `sysproc.c` | `Clock` | modelled |
| System call arguments, `ps` | `syscall.c`, `sysfile.c`, `proc.c` | `Calls` | operators |
| Printing, device reads | `console.c`, `printf.c`, `ticks.c`, `dhello.c`, `zero.c`, `null.c` | `Format` | operators |
| String and memory routines | `string.c`, `ulib.c` | `Strings` | operators |
| init, running commands | `init.c`, `sh.c` | `ShellRun` | modelled |
| Shell parser | `sh.c` | `ShellParse` | operators |
| User level allocator | `umalloc.c` | `Umalloc` | modelled |
| `grep`, `wc`, `gets` | `grep.c`, `wc.c`, `ulib.c` | `Filters` | operators |
| Boot, APICs, serial line, `mkfs`, shutdown, other user programs | many | | not modelled |

How they rest on each other: every shared structure is protected by a spin
lock; `sleep` gives up such a lock and the CPU together; sleep locks, pipes,
the console and the log are built on `sleep` and `wakeup`; buffers and inodes
have sleep locks; the file system changes blocks only between `begin_op` and
`end_op`. Each module takes what lies below it as atomic where the module below
shows that it is:

- `SpinLock` justifies that the other modules take a critical section as one
  step, `Proc` that they take `wakeup` as moving every sleeper at once.
- `SleepLock` implements `Mutex`: a lock of a buffer or an inode is a variable
  that holds its owner, and a wait for it is a guard.
- `BufferCache` implements `Blocks`, one register per block: `Contents`, `Names`
  and `Log` read and write blocks directly. `Log` implements `AtomicDisk`.
- `Files` shows one copy of an inode in the cache and exact counts: `Names` and
  `Contents` have inodes and no cache.
- `Paths` shows that a directory's entries are a map: `Names` has maps.

## The modules

**Proc.** A slot of the table is a number, 0 is the null pointer. The variables
are the fields of `struct proc`, the per-CPU `c->proc`, the position of the
scheduler's loop, its local `lowestPriority`, and the holder of `ptable.lock`.
The lock belongs to a CPU, because it is taken by one context and released by
the one that is switched to. `ctx` says where a process comes out of `swtch`
(`forkret`, `yield`, `sleep`, `wait`), `pc` how far it is in `trap` and in a
call. `Skip`, `Pick`, `SchedAcquire` and `SchedRelease` are the loop of
`scheduler`. `fork` is four actions, because between `allocproc` and the final
`RUNNABLE` it works without the lock: allocation, the failing and the
succeeding copy, publication. `nice` as a system call reads an argument that
nobody passes (`sys_nice` declares a parameter); the model lets it set any
priority in `Priority` for any pid, and leaves out the page fault that the wild
pointer may cause. All of `proc_nice` is one step; it runs without the lock, and
`Nice` is therefore enabled while another CPU holds it.

**SpinLock.** Single memory accesses of `acquire`, `release`, `holding`,
`pushcli` and `popcli`, on CPUs that take interrupts whenever these are on, and
the switch that moves `ptable.lock` and `intena` between contexts.

**SleepLock** has both spin locks of `acquiresleep` (the lock's own and
`ptable.lock`), in the order in which `sleep` takes and drops them, and
processes that `kill` wakes early. It implements **Mutex**.

**Pipe** has the buffer, the two free-running counters modulo `Wrap`, the
pipe's lock where it is held from one step to the next (between a look at the
buffer and the moment the process is asleep), and processes that are killed or
close their end. It implements **Fifo**, a bounded queue of bytes with two
ends. The copying loop of a read or of a write runs under the lock and is one
step up to the next sleep or return. A killed writer that finds the pipe full
returns without waking the readers, so `SleepersWait` and `CallsReturn` let a
reader sleep beside bytes once a writer is killed, until the next write or the
last close.

**Log** has the disk (home blocks, log header, log blocks), the buffers
(contents, and which are pinned by `B_DIRTY`) and the in-memory log. Every disk
write is a step and a crash may come between any two, also during recovery. A
block holds the number of the operation that wrote it last. It implements
**AtomicDisk**: after a crash the disk is as it was at some moment when no
operation was active. `log_write` is two steps: it compares the size of the log
with its bounds before it takes `log.lock` (`LogTest`), and records the block
with the lock (`LogAppend`). Two operations can pass the comparison together, so
the log can get one block longer than its place on the disk; `write_log` then
writes over the block that follows (`WriteBeyond`, block `After`), which `spilt`
records. `DurableWhenIdle` and `ImplementsAtomicDisk` are about what happens up
to that write, `SleepJustified` about all behaviours. One block write is atomic and synchronous (a block is one
sector; `iderw` returns when the interrupt has come). A panic leaves the machine
waiting for a reset, that is, for `Crash`.

**BufferCache** has the buffers with their flags, counts and sleep locks, the
LRU list, the driver's queue and the disk. `brelse` is two steps, since it gives
up the sleep lock before `bcache.lock` is taken; a transfer is a request and an
interrupt, in which a read may fail. With `memdisk` the driver is `memide.c`. It
implements **Blocks**: a block is a register that one process at a time has, and
only a failing read makes its content other than what was stored last.

**Files** has descriptor tables, the file table and the inode cache. `iput` is
three steps (the look at the link count, the look at the reference count with
the truncation, the decrement), because `icache.lock` is dropped between them;
`ilock` reads the inode. `pipealloc` takes the first file, the second and the
page in one step each, and on a failure closes what it has file by file. One directory with one lock stands for the name space.

**Names** has inodes with type, links, references, lock and entries, and
processes in `namex`, `link`, `unlink`, `create` and `chdir`. Every wait for an
inode's lock is a step, also the one in `iput`; `puts` are the inodes a call has
still to put.

**Contents** has the bitmap, the data blocks, inodes with `NDIRECT` direct
blocks and an indirect one, and open files with offsets. A write is split into
rounds as in `filewrite`, with the inode's lock given up between them.
`written` is what a reader should see.

**FileLock** has the sleep lock that `flock` puts into a slot of the inode
cache, the slots, the file table and descriptors that are opened, inherited and
closed. The two looks at the slot's references in `filelock` and
`fsemaphore_lock` and the wait in `acquiresleep` are three steps. `held` says which files a process has locked and not closed.

**Memory** has the free pages, the page directory and tables of each process as
the pages in use, `p->sz` and, in `job`, how far an `sbrk`, `exec` or `fork` is:
each page it asks for is a step and may be refused.

**Console** has the ring with its three indices modulo `WORD`, readers that
sleep, and the cursor. It implements **LineInput**: a line being edited and the
bytes handed over, in order. **Keyboard** has the keys that are down, the scan
codes that wait, and `shift`. **Clock** has `ticks` modulo `WORD` and sleepers.

**ShellRun** has a process table with descriptors and pipes of one item, `init`,
the shell and the processes of a command line. **Umalloc** has the list of free
blocks and the break. **ShellParse**, **Strings**, **Format**, **Calls**,
**Paths** and **Filters** have no state: they give each routine as an operator,
loop by loop where the loop is what may go wrong, beside a reference definition,
and their properties quantify over all small inputs.

The definitions that begin with "Mutant:" in their comment are wrong variants of
the definition that follows, used to see that a property can fail.

## What the runs check

Run a check with `tlc -config <cfg> <module>`. Each takes at most about
two and a half minutes on two cores.

| Run | Properties | Bounds |
|---|---|---|
| `proc_safety` (MCProc) | `CpuExclusive`, `ForkExclusive`, `ParentAlive`, `WaitJustified` | 2 CPUs, 4 slots, kill of pids 0 to 3, nice to 5, one channel; with three processes one at a time is killed or the second niced, with a fourth neither, and one CPU works |
| `proc_live` (MCProc) | `EligibleRuns`, `KilledExits`, `OrphansReaped` | 1 CPU, 3 slots, kill |
| `sleeplock` (MCSleepLock) | `NoLostWakeup`, `ImplementsMutex`, `SleepersWoken` | 4 processes |
| `pipe` (MCPipe) | `SleepersWait`, `ImplementsFifo`, `CallsReturn` | 1 reader and 2 writers, of which the reader and one writer may be killed, 2 bytes of buffer, counters modulo 4, writes of 1 and of 3 bytes |
| `log_crash` (MCLog) | `DurableWhenIdle`, `SleepJustified`, `ImplementsAtomicDisk` | 3 processes, 4 blocks, 3 operations of up to 2 blocks, log of 4 with its header, one of the blocks behind it, 2 crashes |
| `bcache` (MCBufferCache) | `BuffersConsistent` (`OneBufferPerBlock`, `QueueIsWaiters`), `BlocksSpec`, `BreadReturns` | 2 processes, 2 buffers, 3 blocks, of which one is written and two may fail to be read, both drivers |
| `files` (MCFiles) | `RefsExact` (`FileRefsExact`, `InodeRefsExact`, `OneCopy`), `FreedUnreached` | 2 processes, 2 inodes, 2 cache slots, 2 files, 2 descriptors each |
| `names` (MCNames) | `NamesCounted`, `DirectoriesFormTree`, `ReferencesHeld`, `CirclesNeedIput` | 2 processes, 3 inodes, 2 names, 13 calls with paths of up to two elements, link counts up to 2 |
| `kernel` (MCKernel) | `SpinLocksSound`, `MemoryAccounted`, `FilesKeepBytes`, `ImplementsLineInput`, `ConsoleSound`, `FlockExclusive`, `KeysAsTyped` | below |
| `user` (MCUser) | `SleepsLongEnough`, `SleepReturns`, `ForegroundDone`, `PromptReturns`, `HeapSound`, `KernelCodeCorrect`, `FiltersCorrect`, `ParserCorrect` | below |

A module's `TypeOK` is a conjunct of one of its properties, except in `Proc` and
`SleepLock`, where it is proved.

`kernel` and `user` put components that share no state side by side: `part` says
which one a behaviour is about. A property of `MCKernel` or `MCUser` is the
conjunction of what the part's own module states (in parentheses). The instances:

- *Spin locks*: 2 CPUs, 2 threads, one lock besides `ptable.lock`
  (`MutualExclusion`, `HolderUninterrupted`, `NoPanic`, `InterruptsRestored`).
- *Memory*: 2 processes, 12 pages of 2 bytes, page tables of 2 entries, so that
  each allocation of `exec`, `fork` and `sbrk` fails in some behaviour; addresses
  modulo 16, so that the end of a segment can wrap (`FramesInOnePlace`,
  `MemoryMatchesSize`, `NoLeftovers`, `NoMemoryPanic`).
- *Contents*: 2 files of up to 6 bytes in blocks of 2, one direct and two
  indirect blocks; a disk of 3 blocks that one file fills, opened twice, and one
  of 4 on which two files compete (`ReadsWhatWasWritten`, `BlocksAccounted`,
  `OffsetWithinFile`).
- *Console*: a ring of 3, indices modulo 6, a screen of 2 by 2, 2 readers
  (`ImplementsLineInput`, `SleepsWithoutInput`, `CursorOnScreen`).
- *File locks*: 2 processes, 2 files, one cache slot that serves both and
  three open files, a pipe's among them, or two slots (`FlockExclusive`,
  `FlockOnFile`).
- *Keyboard*: five keys (an ordinary and an extended control key, shift, caps
  lock, a letter) and 3 codes in the controller (`NoStuckModifier`,
  `LetterAsTyped`).
- *Clock*: 2 processes, `ticks` modulo 4, a negative request among three
  (`SleepsLongEnough`, `SleepReturns`).
- *Shell*: two lines from five with lists, background commands and pipe lines of
  two or three programs, 7 process table entries, so that some forks fail
  (`ForegroundDone`, `NoStrayEnds`, `PromptReturns`).
- *Allocator*: 12 units from `sbrk` in pieces of at least 4
  (`BlocksDisjoint`, `FreeListInOrder`).
- *Pure code*: 4-bit integers in bases 2 and 4 for 10 and 16, with letters for
  the digits from the smaller base on, and a buffer that holds all their
  digits; memories of 5 bytes for the string routines and of 16 for arguments;
  paths of up to 6 characters with names of 2, directories after up to 3 calls;
  patterns of up to 4 characters; shell lines of up to 4 characters of all kinds,
  and the command trees of those that are accepted written out and read back.

Why these bounds. A third process asleep in `begin_op` needs two operations that
fill the log. Two crashes let one hit the recovery from the other. Writes longer
than the buffer make a writer sleep in the middle of a write, and counters
modulo 4 wrap several times; as in the code, the modulus is a multiple of the
size of the buffer. With fewer buffers than blocks every buffer is recycled. The
tables of `files` can each run full. Two directories and a file, or a directory
and two names for a file, are what the circles of `names` need; the calls are
those whose paths lead to one another's inodes. Four slots are what it takes for
two forks to be under way at once and for a process that is not a child of init
to leave a child behind; the timer interleaves them on one CPU. `proc_safety`
follows behaviours only up to a state outside `NiceOrKill` and `FamilyOnOneCPU`;
the proofs cover every number of slots and CPUs without these bounds. A ring of
3 is the smallest in which a line can be edited behind bytes that were handed
over. Symmetry is used for safety only.

Deadlock is checked in `proc_safety`, `sleeplock`, and for the spin locks, the
console, the keyboard and the clock. Elsewhere the model may stop: the kernel has
panicked, every process has closed its end, a table is full, processes wait for
each other in `iput` (below), or the number of operations is used up.

Two runs are expected to end in a violation. Each checks one sentence of a
comment against the code:

- `files_leak`: two processes that put the last two references of an unlinked
  file at the same time each see the other's reference, and neither frees the
  inode. This is the window that `iput` leaves between its look at `ref` and its
  decrement.
- `pipe_kill`: a kill between the look at `killed` and the sleep in `piperead`
  is lost.

## Where the code and its comments part, without a run

The models have these behaviours; the properties above are stated so as to hold
with them.

- `scheduler` never raises `lowestPriority` again, so a process whose priority is
  above the lowest its CPU has run never gets the CPU back, although `yield` gives
  it up "for one scheduling round". `EligibleRuns` is for equal priorities.
- `kill(0)` marks a free slot, and the next process in it is born killed.
- `allocproc` resets the priority of every slot it looks at, so a fork undoes a
  `nice`.
- A killed writer that fills a pipe returns without waking the readers, which
  sleep beside its bytes until somebody else writes or the last writer closes.
- `begin_op` reserves up to `LOGSIZE` blocks, `log_write` panics at
  `log.size - 1`, and `mkfs` makes the two sizes equal, so operations that write
  as many blocks as `MAXOPBLOCKS` allows reach the panic in `Log`. They can also
  miss it, since the comparison is made without `log.lock`, and have the last
  block written over the one behind the log. The largest operations of the file
  system write fewer.
- `iput` takes the lock of what it puts. A caller that holds another lock can so
  close a circle: `create` puts a removed directory while it holds the new inode,
  two unlinks of two names of one file, `link` to `.` or `..` of a directory that
  is locked by the caller. `CirclesNeedIput` says that there are no others.
- `create` and `link` work in a directory that was removed after the walk to it;
  what they enter is never freed. The `..` of a removed current directory may name
  an inode that has been freed, and a walk there panics in `ilock`.
- The lock of `flock` stays in the cache slot when its file is closed, and bars
  whatever file uses the slot next. A pipe's file keeps the inode pointer of an
  earlier user of the entry, and `flock` of a pipe follows it.
- `snprintf` with `n` 0 has no bound, as `n - 1` is compared as unsigned.
- `proc_ps` does not look at `numberOfProcs`; `PsReports` is for callers that pass
  room for every process in use. `ticksScheduled * 100` overflows after
  some 21 million schedulings, and the percentage is then anything up to 100,
  also negative.
- `cprintf` prints hexadecimal digits in lower case, `printf` in upper case.
- `hellowrite` returns 0, and `filewrite` panics ("short filewrite") for a write
  of at least one byte.
- A read of the ticks device returns one more than it stored; its digits have
  zeros in front up to the size of the local buffer.
- `grep` forgets the text of a read that holds no newline.

## Fairness

`Proc`: a CPU keeps executing (weak fairness of its scheduler and of a process
that comes out of a switch), the timer keeps interrupting, and a time slice is
long enough for a step of kernel code, so a step that is possible again and
again is taken (strong fairness, because the timer may take the CPU away in
between). init calls `wait` in a loop (`init.c`). No user program is assumed to
do anything. `SleepLock` and `Pipe`: a process that is not asleep is scheduled,
and a spin lock that is free again and again is obtained in the end; the code
has no queue on a spin lock, so this is an assumption on the hardware. An owner
of a sleep lock releases it, and a killed process exits and so closes its ends.
Nobody is assumed to read, to write or to close. `BufferCache`: the disk answers
every request, and whoever holds a buffer releases it, as every caller of
`bread` does; a sleep lock that is free again and again is obtained. `Clock`: the
timer interrupts and a runnable process gets `tickslock`. `ShellRun`: runnable
processes run, and programs end at the end of their input; nobody is assumed to
type. The other modules are checked for safety only.

## What is proved

`ProcProofs` proves, for every `NPROC`, every set of CPUs, of channels and of
priorities, that `TypeOK`, `CpuExclusive`, `ForkExclusive`, `ParentAlive` and
`WaitJustified` always hold (theorems `TypeCorrect`, `NoSharedProcess`,
`NoSharedEmbryo`, `NoOrphans`, `NoLostChild`). The only assumption is
`ProcAssumption`: the table has a slot, "nobody" is no CPU, a channel is not the
address of a process. None of these is inductive alone. The invariant `IInv`
adds:

- `LockInv`: a RUNNING process has `ptable.lock` through its CPU exactly while
  it has not come out of the switch. Without it a second CPU might be in the
  critical section with it.
- `CtxInv`: where a process resumes fits its state; a zombie never resumes.
- `ForkInv`: how far `fork` is decides what the new slot looks like. `wait` and
  `exit` of other processes pass over it for that reason.
- `ParentInv`: a parent pointer leads to a process that has not exited, also
  from a slot that is still EMBRYO, and never to itself.
- `WaitInv`: a process in `wait` sleeps on its own address, which is the one
  `exit` wakes.

There is one lemma per action, and in it one step per conjunct.

`SleepLockProofs` proves for every set of processes `TypeOK`, `MutualExclusion`
and `NoLostWakeup`, and that `SleepLock` implements `Mutex` (`Refinement`). Its
invariant says who holds which of the two spin locks at each place, and that
while somebody sleeps either the lock is taken or its last owner is still on the
way to `wakeup`.

Only model-checked: all other modules, and all liveness, which the prover cannot
do. What the recursive operators of `Format`, `Filters`, `ShellParse` and
`Strings` compute for every input would need induction over data and stays with
TLC too.

## Not modelled

- Boot, the multiprocessor tables, APICs and the serial port: set-up of hardware
  in a straight line on one CPU, and port accesses.
- `mkfs`, which runs on the host; the shutdown call, which does not return.
- Registers, stacks, segment and page table formats, the contents of user memory
  except where a call reads its arguments from it. `getcallerpcs` and `procdump`,
  which only report.
- Device files with a write, and two readers that share the static buffer of the
  ticks device.
- The blocks each call of the file system writes in a transaction, which would
  tell whether the panic of `log_write` can be reached by a system call.
- Requests to `malloc` so large that their size in units or in bytes wraps.
- A failure of a disk write, which `ide.c` does not look at either.
- Weak memory: the loads and stores of `SpinLock` are in program order, which x86
  and the barriers in `spinlock.c` give.
- The other user programs and tests, which are clients without state of their
  own.

## What could be proved next

The invariants of `SpinLock`; `BuffersConsistent` of `BufferCache`; the
reference counts of `Files`; `FramesInOnePlace` of `Memory`; the sleepers of
`Pipe`; `SleepJustified` of `Log`; `FlockExclusive`.
