-------------------------------- MODULE Pipe --------------------------------
(***************************************************************************)
(* One pipe of pipe.c between processes that read it, processes that write *)
(* it, and kill().                                                         *)
(*                                                                         *)
(* p->lock is held from the call to the return or to the sleep, so what a  *)
(* call does in between is one step.  kill() does not take p->lock: it may *)
(* come between the look at killed and the sleep, which is therefore a     *)
(* step of its own.                                                        *)
(*                                                                         *)
(* nread and nwrite are unsigned and wrap at 2^32; here they wrap at Wrap. *)
(***************************************************************************)
EXTENDS Naturals, Sequences

CONSTANTS
  PIPESIZE,
  Wrap,            \* the counters are kept modulo Wrap
  Reader, Writer,  \* the processes that hold the read end, the write end
  Nobody,          \* p->lock is free
  Byte,
  Message,         \* bound: what processes write
  MaxRead,         \* bound: the longest read
  Victim           \* the processes that may be killed

ASSUME PipeAssumption ==
  /\ PIPESIZE \in Nat \ {0} /\ MaxRead \in Nat
  /\ Message \subseteq Seq(Byte) \ {<<>>}
  /\ Wrap \in Nat /\ Wrap > PIPESIZE /\ Wrap % PIPESIZE = 0
  /\ Reader \cap Writer = {} /\ Nobody \notin Reader \cup Writer
  /\ Victim \subseteq Reader \cup Writer

VARIABLES
  data, nread, nwrite, readopen, writeopen,  \* struct pipe
  lock,    \* the process that holds p->lock between steps
  open,    \* the processes that have their end open
  pc,      \* "out", "call" (in piperead or pipewrite) or "sleep"
  asleep,  \* the processes SLEEPING on &p->nread or &p->nwrite
  killed,
  todo,    \* what a writer has yet to copy
  rbuf     \* what a reader's last call delivered

vars == <<data, nread, nwrite, readopen, writeopen, lock, open, pc, asleep,
          killed, todo, rbuf>>

Process == Reader \cup Writer

(* pipealloc. *)
Init ==
  /\ data \in [0 .. (PIPESIZE - 1) -> Byte]  \* kalloc'ed memory
  /\ nread = 0 /\ nwrite = 0
  /\ readopen = TRUE /\ writeopen = TRUE
  /\ lock = Nobody
  /\ open = Process
  /\ pc = [p \in Process |-> "out"]
  /\ asleep = {} /\ killed = {}
  /\ todo = [w \in Writer |-> <<>>]
  /\ rbuf = [r \in Reader |-> <<>>]

-----------------------------------------------------------------------------
Empty == nread = nwrite

(* How often the loop of piperead turns before it finds nread == nwrite. *)
Used == (nwrite + Wrap - nread) % Wrap

(* How often the loop of pipewrite turns before it finds nwrite equal to   *)
(* nread + PIPESIZE.                                                       *)
Room == (nread + PIPESIZE + Wrap - nwrite) % Wrap

LeastOf(a, b) == IF a <= b THEN a ELSE b

(* The copying loop of pipewrite puts n bytes of todo into the buffer. *)
CopyIn(w, n) ==
  [i \in DOMAIN data |->
     IF \E k \in 1 .. n : (nwrite + k - 1) % PIPESIZE = i
     THEN todo[w][CHOOSE k \in 1 .. n : (nwrite + k - 1) % PIPESIZE = i]
     ELSE data[i]]

(* Mutant: the buffer is indexed without the counter's history. *)
CopyOutFromZero(n) == [k \in 1 .. n |-> data[k - 1]]

(* The copying loop of piperead takes n bytes out of it. *)
CopyOut(n) == [k \in 1 .. n |-> data[(nread + k - 1) % PIPESIZE]]

(* wakeup(&p->nread), before the writer sleeps and before it returns. *)
WakeReaders(full) == asleep \ Reader

(* Mutant: a read wakes one writer. *)
WakeOneWriter == IF asleep \cap Writer = {} THEN asleep
                 ELSE asleep \ {CHOOSE w \in Writer : w \in asleep}

(* wakeup(&p->nwrite). *)
WakeWriters == asleep \ Writer

-----------------------------------------------------------------------------
(* A process calls write() or read() unless it has been killed. *)
Call(p) ==
  /\ pc[p] = "out" /\ p \in open /\ p \notin killed
  /\ \/ /\ p \in Writer
        /\ \E bs \in Message : todo' = [todo EXCEPT ![p] = bs]
     \/ p \in Reader /\ todo' = todo
  /\ pc' = [pc EXCEPT ![p] = "call"]
  /\ UNCHANGED <<data, nread, nwrite, readopen, writeopen, lock, open, asleep,
                 killed, rbuf>>

(* p has p->lock: it has just called, or it has been woken. *)
InCall(p) == pc[p] = "call" /\ p \notin asleep /\ lock = Nobody

(* pipewrite copies until it is done or the pipe is full. *)
Copies(w) == LeastOf(Len(todo[w]), Room)
Copy(w) ==
  /\ data' = CopyIn(w, Copies(w))
  /\ nwrite' = (nwrite + Copies(w)) % Wrap

(* pipewrite copies the last byte, wakes the readers and returns. *)
WriteDone(w) ==
  /\ InCall(w) /\ Copies(w) = Len(todo[w])
  /\ Copy(w)
  /\ asleep' = WakeReaders(FALSE)
  /\ todo' = [todo EXCEPT ![w] = <<>>]
  /\ pc' = [pc EXCEPT ![w] = "out"]
  /\ UNCHANGED <<nread, readopen, writeopen, lock, open, killed, rbuf>>

(* pipewrite finds the pipe full and nobody to read it, or the writer      *)
(* killed: it returns -1.                                                  *)
WriteFail(w) ==
  /\ InCall(w) /\ Copies(w) < Len(todo[w])
  /\ ~readopen \/ w \in killed
  /\ Copy(w)
  /\ todo' = [todo EXCEPT ![w] = <<>>]
  /\ pc' = [pc EXCEPT ![w] = "out"]
  /\ UNCHANGED <<nread, readopen, writeopen, lock, open, asleep, killed, rbuf>>

(* pipewrite finds the pipe full, wakes the readers and goes to sleep. *)
WriteFull(w) ==
  /\ InCall(w) /\ Copies(w) < Len(todo[w])
  /\ readopen /\ w \notin killed
  /\ Copy(w)
  /\ asleep' = WakeReaders(TRUE)
  /\ todo' = [todo EXCEPT ![w] = SubSeq(@, Copies(w) + 1, Len(@))]
  /\ pc' = [pc EXCEPT ![w] = "sleep"]
  /\ lock' = w
  /\ UNCHANGED <<nread, readopen, writeopen, open, killed, rbuf>>

(* piperead takes up to n bytes and wakes the writers; it takes none only  *)
(* if the pipe is empty and the write end closed.                          *)
ReadData(r, n) ==
  /\ InCall(r) /\ ~(Empty /\ writeopen)
  /\ rbuf' = [rbuf EXCEPT ![r] = CopyOut(LeastOf(n, Used))]
  /\ nread' = (nread + LeastOf(n, Used)) % Wrap
  /\ asleep' = WakeWriters
  /\ pc' = [pc EXCEPT ![r] = "out"]
  /\ UNCHANGED <<data, nwrite, readopen, writeopen, lock, open, killed, todo>>

(* piperead finds the pipe empty and the reader killed. *)
ReadFail(r) ==
  /\ InCall(r) /\ Empty /\ writeopen /\ r \in killed
  /\ pc' = [pc EXCEPT ![r] = "out"]
  /\ UNCHANGED <<data, nread, nwrite, readopen, writeopen, lock, open, asleep,
                 killed, todo, rbuf>>

(* piperead finds the pipe empty and goes to sleep. *)
ReadEmpty(r) ==
  /\ InCall(r) /\ Empty /\ writeopen /\ r \notin killed
  /\ pc' = [pc EXCEPT ![r] = "sleep"]
  /\ lock' = r
  /\ UNCHANGED <<data, nread, nwrite, readopen, writeopen, open, asleep, killed,
                 todo, rbuf>>

(* sleep() makes the process SLEEPING and releases p->lock, atomically for *)
(* everyone who takes p->lock or ptable.lock.                              *)
Sleep(p) ==
  /\ pc[p] = "sleep"
  /\ pc' = [pc EXCEPT ![p] = "call"]
  /\ asleep' = asleep \cup {p}
  /\ lock' = Nobody
  /\ UNCHANGED <<data, nread, nwrite, readopen, writeopen, open, killed, todo, rbuf>>

(* Mutant: the last writer goes without a word. *)
CloseWakesNobody(p) == asleep

(* pipeclose wakes the other side. *)
CloseWakes(p) == IF p \in Writer THEN asleep \ Reader ELSE asleep \ Writer

(* fileclose by p; the last process of its side closes the end. *)
Close(p) ==
  LET side == IF p \in Reader THEN Reader ELSE Writer IN
  /\ p \in open /\ pc[p] = "out" /\ lock = Nobody
  /\ open' = open \ {p}
  /\ IF open \cap side = {p}
     THEN /\ readopen' = (readopen /\ p \notin Reader)
          /\ writeopen' = (writeopen /\ p \notin Writer)
          /\ asleep' = CloseWakes(p)
     ELSE UNCHANGED <<readopen, writeopen, asleep>>
  /\ UNCHANGED <<data, nread, nwrite, lock, pc, killed, todo, rbuf>>

(* kill(p), under ptable.lock only. *)
Kill(p) ==
  /\ p \in Victim /\ p \notin killed
  /\ killed' = killed \cup {p}
  /\ asleep' = asleep \ {p}
  /\ UNCHANGED <<data, nread, nwrite, readopen, writeopen, lock, open, pc, todo, rbuf>>

-----------------------------------------------------------------------------
Write(w) == WriteDone(w) \/ WriteFail(w) \/ WriteFull(w)
Read(r) == (\E n \in 1 .. MaxRead : ReadData(r, n)) \/ ReadFail(r) \/ ReadEmpty(r)

Next ==
  \/ \E p \in Process : Call(p) \/ Sleep(p) \/ Close(p) \/ Kill(p)
  \/ \E w \in Writer : Write(w)
  \/ \E r \in Reader : Read(r)

Spec == Init /\ [][Next]_vars

(* A process in a call gets p->lock and runs on; a killed one exits and    *)
(* thereby closes its end.  Nobody is forced to call read or write.        *)
FairSpec ==
  /\ Spec
  /\ \A w \in Writer : SF_vars(Write(w))
  /\ \A r \in Reader : SF_vars(Read(r))
  /\ \A p \in Process : WF_vars(Sleep(p)) /\ SF_vars(p \in killed /\ Close(p))

-----------------------------------------------------------------------------
(* Properties. *)

(* Every variable has its type; the buffer never holds more than it can. *)
TypeOK ==
  /\ data \in [0 .. (PIPESIZE - 1) -> Byte]
  /\ nread \in 0 .. (Wrap - 1) /\ nwrite \in 0 .. (Wrap - 1) /\ Used <= PIPESIZE
  /\ readopen \in BOOLEAN /\ writeopen \in BOOLEAN
  /\ lock \in Process \cup {Nobody}
  /\ open \subseteq Process /\ asleep \subseteq Process /\ killed \subseteq Process
  /\ pc \in [Process -> {"out", "call", "sleep"}]
  /\ todo \in [Writer -> Seq(Byte)]
  /\ rbuf \in [Reader -> Seq(Byte)] /\ \A r \in Reader : Len(rbuf[r]) <= MaxRead

(* The pipe is a bounded queue of bytes: reads return the bytes of the     *)
(* writes in order, each once, with the counters wrapped or not, and end   *)
(* of file only after the last byte of the last writer (pipewrite,         *)
(* piperead, pipeclose).                                                   *)
queue == [k \in 1 .. Used |-> data[(nread + k - 1) % PIPESIZE]]
Abstract ==
  INSTANCE Fifo WITH Size <- PIPESIZE, q <- queue, ropen <- readopen, wopen <- writeopen
ImplementsFifo == Abstract!Spec

(* The two counters stay within PIPESIZE of each other and nobody sleeps   *)
(* through a wakeup: a writer sleeps only while the pipe is full and       *)
(* somebody can read it, a reader only while somebody can write it and it  *)
(* is empty ("pipe-empty" in piperead), unless a writer has been killed,   *)
(* for a killed writer copies what fits and returns -1 without a wakeup.   *)
SleepersWait ==
  /\ TypeOK
  /\ \A w \in Writer \cap asleep : Used = PIPESIZE /\ readopen
  /\ \A r \in Reader \cap asleep : (Empty \/ killed \cap Writer # {}) /\ writeopen

(* A read of a pipe that has data returns, unless other readers empty the  *)
(* pipe first or a writer is killed, whose last bytes nobody is woken for  *)
(* (WriteFail); a read returns when every writer has closed its end or has *)
(* been killed; a write to a pipe that nobody can read any more returns.   *)
WritersKilled == killed \cap Writer # {}
CallsReturn ==
  /\ \A r \in Reader : /\ pc[r] = "call" /\ ~Empty ~> pc[r] = "out" \/ Empty \/ WritersKilled
                      /\ pc[r] = "call" /\ open \cap Writer \subseteq killed ~> pc[r] = "out"
  /\ \A w \in Writer : pc[w] # "out" /\ ~readopen ~> pc[w] = "out"

(* kill(): "Wake process from sleep if necessary."  A killed process does  *)
(* not stay in piperead or pipewrite.                                      *)
KilledReturns == \A p \in Process : p \in killed ~> pc[p] = "out"

-----------------------------------------------------------------------------
(* The inductive invariant behind SleepersWait and ImplementsFifo. *)

(* A process about to sleep has p->lock, so what it saw still holds when   *)
(* it is SLEEPING, and only a process that has its end open is in a call.  *)
CallInv ==
  /\ \A p \in Process : lock = p <=> pc[p] = "sleep"
  /\ \A w \in Writer : pc[w] = "sleep" => Used = PIPESIZE /\ readopen
  /\ \A r \in Reader : pc[r] = "sleep" => Empty /\ writeopen
  /\ \A p \in asleep : pc[p] = "call"
  /\ \A p \in Process : pc[p] # "out" => p \in open
  /\ \A w \in Writer \cap open : writeopen
  /\ \A r \in Reader \cap open : readopen

IInv == SleepersWait /\ CallInv
=============================================================================
