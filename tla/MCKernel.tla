------------------------------ MODULE MCKernel ------------------------------
(***************************************************************************)
(* Small instances of the kernel's components that share no state with     *)
(* each other, checked side by side: "part" says which component a         *)
(* behaviour is about, and the variables of the others stay 0 in it.       *)
(* Variables of the same name in two components are one variable here.     *)
(***************************************************************************)
EXTENDS SpinLock, TLC, Integers, Sequences

CONSTANTS None,
          Inum   \* the files of the file locks

VARIABLES part,
          free, kstack, vm, sz, state, job,        \* Memory, and cur, panicked
          bitmap, data, lock, file, written,       \* Contents, and inode, pc, panicked
          buf, r, w, e, pos, killed,               \* Console, and pc
          inode, ftable, ofile, panicked,          \* FileLock, and pc, held
          down, doubled, queue, shift, char        \* Keyboard, and locked

spinOwn == <<lcpu, ncli, intena, ints, want, intr, fresh, saved>>
memOwn  == <<free, kstack, vm, sz, state, job>>
dataOwn == <<bitmap, data, lock, file, written>>
ttyOwn  == <<buf, r, w, e, pos, killed>>
lockOwn == <<ftable, ofile>>
kbdOwn  == <<down, doubled, queue, shift, char>>
all == <<part, spinOwn, memOwn, dataOwn, ttyOwn, lockOwn, kbdOwn,
         locked, cur, pc, held, inode, panicked>>

-----------------------------------------------------------------------------
(* Two processes on 12 pages of 2 bytes: exec needs 7 of them while the old *)
(* image is there, so that every allocation fails in some behaviour; the   *)
(* third program's end wraps, the file of the fourth is cut short.         *)
Header(vaddr, memsz, filesz) == [vaddr |-> vaddr, memsz |-> memsz, filesz |-> filesz,
                                 readable |-> TRUE, complete |-> TRUE]
Programs == {<<Header(0, 1, 1)>>, <<Header(0, 1, 1), Header(1, 1, 1)>>,
             <<Header(14, 3, 0)>>, <<[Header(0, 2, 2) EXCEPT !.complete = FALSE]>>}

Mem == INSTANCE Memory WITH
  Proc <- {1, 2}, Init1 <- 1, NFrame <- 12, PGSIZE <- 2, NPT <- 2, KERNBASE <- 8,
  WORD <- 16, Delta <- {-3, -2, 3, 7}, Program <- Programs, ArgBytes <- {1, 3}

(* Two files of up to 6 bytes: on a disk one file fills, opened by two     *)
(* descriptors, and on one where two files compete for the last block.     *)
Full == INSTANCE Contents WITH
  Proc <- {1, 2}, Ino <- {1, 2}, File <- {1, 2}, Opens <- <<{1}, {1, 2}>>, NBlock <- 3,
  BSIZE <- 2, NDIRECT <- 1, Chunk <- 2, WORD <- 8, ReadLength <- {3}, WriteLength <- {3}
Wide == INSTANCE Contents WITH
  Proc <- {1, 2}, Ino <- {1, 2}, File <- {1, 2}, Opens <- <<{1}, {2}>>, NBlock <- 4,
  BSIZE <- 2, NDIRECT <- 1, Chunk <- 2, WORD <- 8, ReadLength <- {3}, WriteLength <- {3}

(* A ring of 3 with indices that wrap at 6, a screen of 2 by 2.            *)
Tty == INSTANCE Console WITH
  Proc <- {1, 2}, Char <- {"a", "nl", "eof"}, Newline <- "nl", Eof <- "eof",
  INPUT_BUF <- 3, WORD <- 6, ROWS <- 2, COLS <- 2, ReadLength <- {0, 2}

(* Three open files of two processes: with one cache slot, which serves    *)
(* the two files in turn while a pipe's file still points to it, and with  *)
(* two slots.                                                              *)
Flk1 == INSTANCE FileLock WITH
  Proc <- {1, 2}, First <- 1, Slot <- {1}, File <- {1, 2, 3}, Fd <- {0, 1}
Flk2 == INSTANCE FileLock WITH
  Proc <- {1, 2}, First <- 1, Slot <- {1, 2}, File <- {1, 2}, Fd <- {0, 1}

Kbd == INSTANCE Keyboard WITH Key <- {"lshift", "rctl", "lctl", "caps", "a"}, QUEUE <- 3

-----------------------------------------------------------------------------
NoSpin == /\ lcpu = 0 /\ ncli = 0 /\ intena = 0 /\ ints = 0 /\ want = 0 /\ intr = 0
          /\ fresh = 0 /\ saved = 0
NoMem  == free = 0 /\ kstack = 0 /\ vm = 0 /\ sz = 0 /\ state = 0 /\ job = 0
NoData == bitmap = 0 /\ data = 0 /\ lock = 0 /\ file = 0 /\ written = 0
NoTty  == buf = 0 /\ r = 0 /\ w = 0 /\ e = 0 /\ pos = 0 /\ killed = 0
NoLock == ftable = 0 /\ ofile = 0
NoKbd  == down = 0 /\ doubled = 0 /\ queue = 0 /\ shift = 0 /\ char = 0

KernelInit ==
  \/ /\ part = "spin" /\ Init
     /\ NoMem /\ NoData /\ NoTty /\ NoLock /\ NoKbd /\ inode = 0 /\ panicked = 0
  \/ /\ part = "memory" /\ Mem!Init
     /\ NoSpin /\ NoData /\ NoTty /\ NoLock /\ NoKbd
     /\ locked = 0 /\ pc = 0 /\ held = 0 /\ inode = 0
  \/ /\ \/ part = "full" /\ Full!Init
        \/ part = "wide" /\ Wide!Init
     /\ NoSpin /\ NoMem /\ NoTty /\ NoLock /\ NoKbd
     /\ locked = 0 /\ cur = 0 /\ held = 0
  \/ /\ part = "console" /\ Tty!Init
     /\ NoSpin /\ NoMem /\ NoData /\ NoLock /\ NoKbd
     /\ locked = 0 /\ cur = 0 /\ held = 0 /\ inode = 0 /\ panicked = 0
  \/ /\ \/ part = "flock1" /\ Flk1!Init
        \/ part = "flock2" /\ Flk2!Init
     /\ NoSpin /\ NoMem /\ NoData /\ NoTty /\ NoKbd /\ locked = 0 /\ cur = 0
  \/ /\ part = "keyboard" /\ Kbd!Init
     /\ NoSpin /\ NoMem /\ NoData /\ NoTty /\ NoLock
     /\ cur = 0 /\ pc = 0 /\ held = 0 /\ inode = 0 /\ panicked = 0

SpinStep == /\ part = "spin" /\ Next
            /\ UNCHANGED <<memOwn, dataOwn, ttyOwn, lockOwn, kbdOwn, inode, panicked>>
MemoryStep == /\ part = "memory" /\ Mem!Next
              /\ UNCHANGED <<spinOwn, dataOwn, ttyOwn, lockOwn, kbdOwn, locked, pc, held, inode>>
ContentsStep == /\ (part = "full" /\ Full!Next) \/ (part = "wide" /\ Wide!Next)
                /\ UNCHANGED <<spinOwn, memOwn, ttyOwn, lockOwn, kbdOwn, locked, cur, held>>
ConsoleStep == /\ part = "console" /\ Tty!Next
               /\ UNCHANGED <<spinOwn, memOwn, dataOwn, lockOwn, kbdOwn,
                              locked, cur, held, inode, panicked>>
FlockStep == /\ (part = "flock1" /\ Flk1!Next) \/ (part = "flock2" /\ Flk2!Next)
             /\ UNCHANGED <<spinOwn, memOwn, dataOwn, ttyOwn, kbdOwn, locked, cur>>
KeyboardStep == /\ part = "keyboard" /\ Kbd!Next
                /\ UNCHANGED <<spinOwn, memOwn, dataOwn, ttyOwn, lockOwn,
                               cur, pc, held, inode, panicked>>

(* What may stop: a panic, every page taken, a process waiting for a file  *)
(* lock whose holder has gone.  The spin locks, the console and the        *)
(* keyboard may not.                                                       *)
Stopped == part \in {"memory", "full", "wide", "flock1", "flock2"} /\ UNCHANGED all

KernelNext ==
  \/ /\ UNCHANGED part
     /\ SpinStep \/ MemoryStep \/ ContentsStep \/ ConsoleStep \/ FlockStep \/ KeyboardStep
  \/ Stopped

KernelSpec == KernelInit /\ [][KernelNext]_all

(* The names of CPUs and of the processes on them make no difference.      *)
Symmetry == Permutations(CPU) \cup Permutations(Thread)

-----------------------------------------------------------------------------
(* The properties, each stated where its component is modelled.            *)

(* acquire, release, pushcli, popcli, sched: one context at a time has a   *)
(* lock, across swtch too; no interrupt is taken on top of a holder; a      *)
(* process gets its interrupt flag back as it left it; no panic is reached. *)
SpinLocksSound ==
  part = "spin" => /\ TypeOK /\ MutualExclusion /\ HolderUninterrupted
                   /\ NoPanic /\ InterruptsRestored

(* kalloc and kfree: every physical page is in exactly one place, and none  *)
(* in an address space that is not in use.  growproc, exec, fork: a call    *)
(* that fails on the way leaves exactly the pages below p->sz, and no panic *)
(* of mappages, copyuvm and loaduvm is reached.                             *)
MemoryAccounted ==
  part = "memory" => /\ Mem!TypeOK /\ Mem!FramesInOnePlace /\ Mem!NoLeftovers
                     /\ Mem!MemoryMatchesSize /\ Mem!NoMemoryPanic

(* readi, writei: a file reads back, byte for byte, as it was written, also *)
(* when two processes write it or the disk fills up.  balloc, bmap, itrunc: *)
(* the bitmap marks what files name, each block once.  fileread, filewrite: *)
(* f->off never passes the end of the file.                                 *)
FilesKeepBytes ==
  /\ part = "full" => /\ Full!TypeOK /\ Full!ReadsWhatWasWritten
                      /\ Full!BlocksAccounted /\ Full!OffsetWithinFile
  /\ part = "wide" => /\ Wide!TypeOK /\ Wide!ReadsWhatWasWritten
                      /\ Wide!BlocksAccounted /\ Wide!OffsetWithinFile

(* consoleintr and consoleread implement line input, indices that wrap and  *)
(* editing included.                                                        *)
ImplementsLineInput == Tty!ImplementsLineInput

(* consoleread: no reader sleeps while there is input for it.  cgaputc: the *)
(* cursor never leaves the screen.                                          *)
ConsoleSound ==
  part = "console" => Tty!TypeOK /\ Tty!SleepsWithoutInput /\ Tty!CursorOnScreen

(* filelock, fileunlock: no two processes have a file locked together.      *)
(* fsemaphore_lock: the inode a flock waits for keeps its reference.        *)
FlockExclusive ==
  /\ part = "flock1" => Flk1!TypeOK /\ Flk1!FlockExclusive /\ Flk1!FlockOnFile
  /\ part = "flock2" => Flk2!TypeOK /\ Flk2!FlockExclusive /\ Flk2!FlockOnFile

(* kbdgetc: no modifier is left on when all keys are up, whatever order they *)
(* came up in, and a letter comes back in the case that was typed.          *)
KeysAsTyped == part = "keyboard" => Kbd!NoStuckModifier /\ Kbd!LetterAsTyped
=============================================================================
