------------------------------- MODULE MCUser -------------------------------
(***************************************************************************)
(* Small instances of what user programs meet: sleep, the shell,           *)
(* malloc, and the pure code on either side of a system call.  "part" says *)
(* which component a behaviour is about; the others stay in their initial  *)
(* state.  The pure code has no state: its properties quantify over the    *)
(* inputs.                                                                 *)
(***************************************************************************)
EXTENDS Integers, SequencesExt

CONSTANT None

VARIABLES part,
          ticks, tickslock, pc, killed, elapsed, short,  \* Clock
          proc, full, typed, failed,                     \* ShellRun
          ptr, size, freep, brk                          \* Umalloc

(* A counter of two bits, and a request that is negative.                  *)
Clk == INSTANCE Clock WITH
  Proc <- {1, 2}, WORD <- 4, Request <- {0, 2, -1}

(* First a line with a background command or a side that fails, then one   *)
(* with two or three programs in a pipe line; W writes, R reads, C copies, *)
(* F exits at once.  With 7 entries some forks fail, with 2 pipes none.    *)
X(p) == [type |-> "EXEC", prog |-> p]
P(l, q) == [type |-> "PIPE", left |-> l, right |-> q]
L(l, q) == [type |-> "LIST", left |-> l, right |-> q]
B(c) == [type |-> "BACK", cmd |-> c]
D(c, fd) == [type |-> "REDIR", cmd |-> c, fd |-> fd]
Typed == <<{B(X("W")), P(X("W"), D(X("F"), 0)), L(X("W"), B(X("R")))},
           {P(X("W"), X("R")), P(X("W"), P(X("C"), X("R")))}>>
Sh == INSTANCE ShellRun WITH Pid <- 1..7, PipeId <- {1, 2}, Cmd <- Typed

Heap == INSTANCE Umalloc WITH HEAP <- 5, LIMIT <- 17, MINUNITS <- 4, Request <- {2, 3, 5}

(* Pure code.                                                              *)
Str == INSTANCE Strings WITH Addr <- 0..4, Byte <- 0..2
Fmt == INSTANCE Format WITH
  WORD <- 16, Base <- [d |-> 2, x |-> 4], LOWER <- 10, LocalLength <- 6, Text <- {<<>>, <<7>>, <<7, 8, 9>>, <<0>>},
  Fmt <- SeqOf({"c", "%d", "%x", "%s", "%c", "%%", "%?"}, 2) \cup {<<"c", "%d", "%s">>}
Memories == {[k \in 0..15 |-> IF k \in S THEN 0 ELSE v] : S \in SUBSET (0..7), v \in {1, 5, 9}}
Entries == [pid : {1, 2}, state : {"UNUSED", "ZOMBIE"}, ticksAtStart : 0..2, ticksScheduled : 0..3]
Args == INSTANCE Calls WITH
  WORD <- 16, KERNBASE <- 8, INT <- 2, MAXARG <- 3, NOFILE <- 2, NSYSCALL <- 4, INTMAX <- 255,
  Memory <- Memories, Table <- {t \in Entries \X Entries : t[1].pid = 1 /\ t[2].pid = 2}
Dir == INSTANCE Paths WITH DIRSIZ <- 2, Char <- {"a", "b"}, MaxPath <- 6, MaxOps <- 3
Flt == INSTANCE Filters WITH Letter <- {"a", "b"}, MaxRe <- 4, MaxText <- 3, BUFSIZE <- 4, MaxRead <- 2
Prs == INSTANCE ShellParse WITH
  MAXARGS <- 3, Char <- {"w", " ", "|", "&", ";", "(", ")", "<", ">"}, MaxLine <- 4
-----------------------------------------------------------------------------
clockVars == <<ticks, tickslock, pc, killed, elapsed, short>>
shellVars == <<proc, full, typed, failed>>
heapVars == <<ptr, size, freep, brk>>
all == <<part, clockVars, shellVars, heapVars>>

UserInit ==
  /\ part \in {"clock", "shell", "heap", "pure"}
  /\ Clk!Init /\ Sh!Init /\ Heap!Init
  /\ part # "clock" => ticks = 0

(* A step of the component a behaviour is about.                           *)
InClock(A) == part = "clock" /\ A /\ UNCHANGED <<part, shellVars, heapVars>>
InShell(A) == part = "shell" /\ A /\ UNCHANGED <<part, clockVars, heapVars>>
InHeap(A) == part = "heap" /\ A /\ UNCHANGED <<part, clockVars, shellVars>>

(* Only the clock may not stop.                                            *)
Stopped == part # "clock" /\ UNCHANGED all

UserNext == InClock(Clk!Next) \/ InShell(Sh!Next) \/ InHeap(Heap!Next) \/ Stopped

(* The fairness of each component, as stated there.                        *)
UserFair ==
  /\ WF_all(InClock(Clk!timer))
  /\ \A q \in {1, 2} : SF_all(InClock(Clk!check(q))) /\ WF_all(InClock(Clk!sleep(q)))
  /\ WF_all(InShell(Sh!init_fork)) /\ WF_all(InShell(Sh!init_wait))
  /\ \A q \in 1..7 : WF_all(InShell(Sh!Shell(q)))

UserSpec == UserInit /\ [][UserNext]_all /\ UserFair

-----------------------------------------------------------------------------
(* The properties, each stated where its component is modelled.            *)

(* sys_sleep returns 0 only after the ticks asked for, the wrap included.   *)
SleepsLongEnough == Clk!TypeOK /\ Clk!SleepsLongEnough
(* trap's wakeup(&ticks): every sys_sleep ends.                             *)
SleepReturns == Clk!SleepReturns

(* sh.c's waits: the prompt comes only when what was typed before is done.  *)
(* runcmd's dup and close: a program starts with no stray end of a pipe.    *)
ForegroundDone == Sh!TypeOK /\ Sh!ForegroundDone /\ Sh!NoStrayEnds
(* A line that was started ends, and the shell comes back to its prompt.    *)
PromptReturns == Sh!PromptReturns

(* malloc and free: no two blocks share a unit, the free list is in order   *)
(* and neighbours are joined, whatever the order of the calls.              *)
HeapSound == Heap!TypeOK /\ Heap!BlocksDisjoint /\ Heap!FreeListInOrder

(* memmove, strncmp, strncpy and safestrcpy compute what they are to; the   *)
(* text printint and its copies make of a number reads back as the number;  *)
(* snprintf cuts to n - 1 characters and a 0, s_cnputs to the bytes asked   *)
(* for; what argint, argptr, argstr, sys_exec, argfd and syscall accept     *)
(* lies in the process and in its tables; proc_ps reports each process      *)
(* once to a caller with room for all, with a share of the CPU up to 100,   *)
(* negative only after an overflow; a walk looks up the elements of a path, *)
(* cut to DIRSIZ; and dirlookup and dirlink make a directory a map that     *)
(* uses erased entries again.                                               *)
KernelCodeCorrect ==
  part = "pure" => /\ Str!StringsCorrect
                   /\ Fmt!NumbersReadBack /\ Fmt!SnprintfCorrect /\ Fmt!DeviceReadsBounded
                   /\ Args!ArgumentsInMemory /\ Args!IndicesInTable /\ Args!PsReports
                   /\ Dir!PathsTakenApart /\ Dir!DirectoryIsMap
(* grep.c's match accepts what the pattern describes; grep prints the       *)
(* matching lines, and wc and gets lose nothing, however the input is cut   *)
(* into reads.                                                              *)
FiltersCorrect ==
  part = "pure" => Flt!MatchCorrect /\ Flt!GrepPrintsMatches /\ Flt!StreamsReadWhole
(* parsecmd keeps every word and operator, nulterminate ends every word, and *)
(* a tree that was written out is read back as the same tree.               *)
ParserCorrect == part = "pure" => Prs!ParseKeepsAll /\ Prs!ParseReadsBack
=============================================================================
