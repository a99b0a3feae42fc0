-------------------------------- MODULE Log --------------------------------
(***************************************************************************)
(* The write-ahead log of log.c, with the buffers and the disk below it,   *)
(* crashes at every point, and recovery, which may crash as well.          *)
(*                                                                         *)
(* A disk block is a model value and holds the number of the operation     *)
(* that wrote it last.  Writing one block is atomic (a block is a sector); *)
(* everything that takes several disk writes is several steps.  What runs  *)
(* under log.lock is one step; log_write makes its tests before it takes   *)
(* the lock, so it is two.                                                 *)
(*                                                                         *)
(* The log on disk has its header and logsize - 1 blocks.  What write_log  *)
(* puts beyond them falls on the home location that follows the log.       *)
(***************************************************************************)
EXTENDS Naturals, Sequences, FiniteSets

CONSTANTS
  Proc,         \* the processes that make file system calls
  Block,        \* home locations
  LOGSIZE, MAXOPBLOCKS,
  logsize,      \* sb.nlog, the size of the log on disk with its header
  After,        \* the home location that follows the log on the disk
  MaxOp,        \* bound: how many operations are started
  MaxCrash      \* bound: how many crashes there are

ASSUME LogAssumption ==
  /\ LOGSIZE \in Nat /\ MAXOPBLOCKS \in Nat \ {0} /\ logsize \in Nat \ {0}
  /\ MAXOPBLOCKS <= LOGSIZE /\ LOGSIZE <= logsize /\ After \in Block
  /\ MaxOp \in Nat /\ MaxCrash \in Nat

VARIABLES
  home, hdr, logblk,     \* disk: home locations, log header, log blocks
  cache, dirty,          \* buffers: contents, and those pinned by B_DIRTY
  lh,                    \* log.lh, as the sequence of its block numbers
  outstanding, committing,
  asleep,                \* processes SLEEPING on &log
  mode,                  \* "boot", "recover", "up" or "panic"
  tail,                  \* loop counter of write_log and install_trans
  pc, op, wrote,         \* per process: place, operation, blocks written
  logging,               \* per process: the block it is in log_write with
  spilt,                 \* history: a block was written beyond the log
  nextop, crashes

disk == <<home, hdr, logblk>>
buf == <<cache, dirty>>
call == <<op, wrote, logging>>
count == <<nextop, crashes>>
vars == <<disk, buf, lh, outstanding, committing, asleep, mode, tail, pc, call, spilt, count>>

Op == 0 .. MaxOp

(* A disk as mkfs makes it, and the memory of a machine that has just      *)
(* started: nothing is cached, so what a read finds is what the disk has.  *)
Init ==
  /\ home = [b \in Block |-> 0]
  /\ hdr = <<>>
  /\ logblk = [i \in 1 .. logsize - 1 |-> 0]
  /\ cache = home /\ dirty = {}
  /\ lh = <<>> /\ outstanding = 0 /\ committing = FALSE
  /\ asleep = {} /\ tail = 1
  /\ pc = [p \in Proc |-> "out"]
  /\ op = [p \in Proc |-> 0] /\ wrote = [p \in Proc |-> {}]
  /\ logging = [p \in Proc |-> {}] /\ spilt = FALSE
  /\ mode = "boot"
  /\ nextop = 1 /\ crashes = 0

-----------------------------------------------------------------------------
(* The test of begin_op for room in the log. *)
Fits == Len(lh) + (outstanding + 1) * MAXOPBLOCKS <= LOGSIZE

(* The tests of begin_op. *)
Admits == ~committing /\ Fits

(* begin_op lets the operation start. *)
Begin(p) ==
  /\ mode = "up" /\ pc[p] = "out" /\ p \notin asleep /\ nextop <= MaxOp
  /\ Admits
  /\ outstanding' = outstanding + 1
  /\ pc' = [pc EXCEPT ![p] = "op"]
  /\ op' = [op EXCEPT ![p] = nextop]
  /\ wrote' = [wrote EXCEPT ![p] = {}]
  /\ nextop' = nextop + 1
  /\ UNCHANGED <<disk, buf, lh, committing, asleep, tail, mode, logging, spilt, crashes>>

(* begin_op sleeps on &log. *)
BeginSleep(p) ==
  /\ mode = "up" /\ pc[p] = "out" /\ p \notin asleep /\ nextop <= MaxOp
  /\ ~Admits
  /\ asleep' = asleep \cup {p}
  /\ UNCHANGED <<disk, buf, lh, outstanding, committing, tail, mode, pc, call, spilt, count>>

(* The block is recorded once (log absorption). *)
Absorb(b) == IF \E i \in 1 .. Len(lh) : lh[i] = b THEN lh ELSE Append(lh, b)

(* The first test of log_write; the second, for an operation that is       *)
(* active, never fails in one.                                             *)
TooBig == Len(lh) >= LOGSIZE \/ Len(lh) >= logsize - 1

(* An operation changes block b in its buffer, which it has locked, and    *)
(* calls log_write, which looks at the size of the log without log.lock.   *)
(* No operation writes more than MAXOPBLOCKS blocks.                       *)
LogTest(p, b) ==
  /\ mode = "up" /\ pc[p] = "op" /\ logging[p] = {}
  /\ \A q \in Proc : b \notin logging[q]
  /\ Cardinality(wrote[p] \cup {b}) <= MAXOPBLOCKS
  /\ cache' = [cache EXCEPT ![b] = op[p]]
  /\ IF TooBig
     THEN mode' = "panic" /\ UNCHANGED logging
     ELSE mode' = mode /\ logging' = [logging EXCEPT ![p] = {b}]
  /\ UNCHANGED <<disk, dirty, lh, outstanding, committing, asleep, tail, pc, op, wrote,
                 spilt, count>>

(* log_write goes on with log.lock: it records and pins the block. *)
LogAppend(p) ==
  \E b \in logging[p] :
    /\ mode = "up"
    /\ lh' = Absorb(b) /\ dirty' = dirty \cup {b}
    /\ wrote' = [wrote EXCEPT ![p] = @ \cup {b}]
    /\ logging' = [logging EXCEPT ![p] = {}]
    /\ UNCHANGED <<disk, cache, outstanding, committing, asleep, tail, mode, pc, op,
                   spilt, count>>

(* bget recycles the buffer of a block that is neither pinned nor in use;  *)
(* the next read takes the block from the disk.                            *)
Evict(b) ==
  /\ mode = "up" /\ b \notin dirty /\ \A p \in Proc : b \notin logging[p]
  /\ cache' = [cache EXCEPT ![b] = home[b]]
  /\ UNCHANGED <<disk, dirty, lh, outstanding, committing, asleep, tail, mode, pc,
                 call, spilt, count>>

(* end_op of an operation that is not the last. *)
End(p) ==
  /\ mode = "up" /\ pc[p] = "op" /\ logging[p] = {} /\ outstanding > 1
  /\ outstanding' = outstanding - 1
  /\ asleep' = {}
  /\ pc' = [pc EXCEPT ![p] = "out"]
  /\ UNCHANGED <<disk, buf, lh, committing, tail, mode, call, spilt, count>>

(* Mutant: one block is not worth a commit. *)
LittleLogged == Len(lh) <= 1

(* The test of commit. *)
NothingLogged == lh = <<>>

(* end_op of the last operation starts a commit. *)
EndLast(p) ==
  /\ mode = "up" /\ pc[p] = "op" /\ logging[p] = {} /\ outstanding = 1
  /\ outstanding' = 0 /\ committing' = TRUE
  /\ tail' = 1
  /\ pc' = [pc EXCEPT ![p] = IF NothingLogged THEN "done" ELSE "log"]
  /\ UNCHANGED <<disk, buf, lh, asleep, mode, call, spilt, count>>

(* The loops of write_log and install_trans are over. *)
Copied == tail > Len(lh)

(* write_log: one block goes from its buffer to the log. *)
WriteLog(p) ==
  /\ mode = "up" /\ pc[p] = "log" /\ ~Copied /\ tail < logsize
  /\ logblk' = [logblk EXCEPT ![tail] = cache[lh[tail]]]
  /\ tail' = tail + 1
  /\ UNCHANGED <<home, hdr, buf, lh, outstanding, committing, asleep, mode, pc, call,
                 spilt, count>>

(* A bread of a buffer that the process has already got never returns. *)
HasBoth == tail = logsize /\ lh[tail] = After

(* The log is longer than the place for it on the disk: write_log puts the *)
(* last block over the block that follows, buffer and home.                *)
WriteBeyond(p) ==
  /\ mode = "up" /\ pc[p] = "log" /\ ~Copied /\ tail = logsize /\ ~HasBoth
  /\ cache' = [cache EXCEPT ![After] = cache[lh[tail]]]
  /\ home' = [home EXCEPT ![After] = cache[lh[tail]]]
  /\ dirty' = dirty \ {After}
  /\ tail' = tail + 1
  /\ spilt' = TRUE
  /\ UNCHANGED <<hdr, logblk, lh, outstanding, committing, asleep, mode, pc, call, count>>

(* write_head: the commit point. *)
WriteHead(p) ==
  /\ mode = "up" /\ pc[p] = "log" /\ Copied
  /\ hdr' = lh
  /\ tail' = 1
  /\ pc' = [pc EXCEPT ![p] = "install"]
  /\ UNCHANGED <<home, logblk, buf, lh, outstanding, committing, asleep, mode, call,
                 spilt, count>>

(* What install_trans reads as block i of the log. *)
LogBlock(i) == IF i < logsize THEN logblk[i] ELSE cache[After]

(* The body of install_trans: a block goes from the log to its buffer and  *)
(* with bwrite to its home, which leaves the buffer clean.                 *)
InstallBlock ==
  /\ ~HasBoth
  /\ home' = [home EXCEPT ![lh[tail]] = LogBlock(tail)]
  /\ cache' = [cache EXCEPT ![lh[tail]] = LogBlock(tail)]
  /\ dirty' = dirty \ {lh[tail]}
  /\ tail' = tail + 1

Install(p) ==
  /\ mode = "up" /\ pc[p] = "install" /\ ~Copied
  /\ InstallBlock
  /\ UNCHANGED <<hdr, logblk, lh, outstanding, committing, asleep, mode, pc, call,
                 spilt, count>>

(* log.lh.n = 0; write_head(). *)
Erase(p) ==
  /\ mode = "up" /\ pc[p] = "install" /\ Copied
  /\ lh' = <<>> /\ hdr' = <<>>
  /\ pc' = [pc EXCEPT ![p] = "done"]
  /\ UNCHANGED <<home, logblk, buf, outstanding, committing, asleep, tail, mode,
                 call, spilt, count>>

(* Mutant: nobody is woken after the commit. *)
WakeNobody == asleep

(* wakeup(&log). *)
WakeAll == {}

(* The end of end_op after a commit. *)
EndCommit(p) ==
  /\ mode = "up" /\ pc[p] = "done"
  /\ committing' = FALSE
  /\ asleep' = WakeAll
  /\ pc' = [pc EXCEPT ![p] = "out"]
  /\ UNCHANGED <<disk, buf, lh, outstanding, tail, mode, call, spilt, count>>

-----------------------------------------------------------------------------
(* Power fails, or the machine is reset after a panic; memory is as in     *)
(* Init.                                                                   *)
Crash ==
  /\ crashes < MaxCrash
  /\ crashes' = crashes + 1
  /\ UNCHANGED <<disk, spilt, nextop>>
  /\ cache' = home /\ dirty' = {}
  /\ lh' = <<>> /\ outstanding' = 0 /\ committing' = FALSE
  /\ asleep' = {} /\ tail' = 1
  /\ pc' = [p \in Proc |-> "out"]
  /\ op' = [p \in Proc |-> 0] /\ wrote' = [p \in Proc |-> {}]
  /\ logging' = [p \in Proc |-> {}]
  /\ mode' = "boot"

(* initlog: recover_from_log reads the header. *)
ReadHead ==
  /\ mode = "boot"
  /\ lh' = hdr /\ tail' = 1
  /\ mode' = "recover"
  /\ UNCHANGED <<disk, buf, outstanding, committing, asleep, pc, call, spilt, count>>

(* install_trans of the recovery. *)
RecoverBlock ==
  /\ mode = "recover" /\ ~Copied
  /\ InstallBlock
  /\ UNCHANGED <<hdr, logblk, lh, outstanding, committing, asleep, mode, pc, call,
                 spilt, count>>

(* Mutant: the log is cleared in memory only. *)
RecoverForget ==
  /\ mode = "recover" /\ Copied
  /\ lh' = <<>>
  /\ mode' = "up"
  /\ UNCHANGED <<disk, buf, outstanding, committing, asleep, tail, pc, call, spilt, count>>

(* The log is cleared, in memory and on disk, and the system runs. *)
RecoverDone ==
  /\ mode = "recover" /\ Copied
  /\ lh' = <<>> /\ hdr' = <<>>
  /\ mode' = "up"
  /\ UNCHANGED <<home, logblk, buf, outstanding, committing, asleep, tail, pc, call,
                 spilt, count>>

Next ==
  \/ \E p \in Proc :
       \/ Begin(p) \/ BeginSleep(p) \/ End(p) \/ EndLast(p)
       \/ LogAppend(p) \/ \E b \in Block : LogTest(p, b)
       \/ WriteLog(p) \/ WriteBeyond(p) \/ WriteHead(p) \/ Install(p) \/ Erase(p) \/ EndCommit(p)
  \/ \E b \in Block : Evict(b)
  \/ Crash \/ ReadHead \/ RecoverBlock \/ RecoverDone

Spec == Init /\ [][Next]_vars

-----------------------------------------------------------------------------
TypeOK ==
  /\ home \in [Block -> Op] /\ logblk \in [1 .. logsize - 1 -> Op]
  /\ hdr \in Seq(Block) /\ lh \in Seq(Block)
  /\ Len(hdr) <= LOGSIZE /\ Len(lh) <= LOGSIZE
  /\ cache \in [Block -> Op] /\ dirty \subseteq Block
  /\ outstanding \in Nat /\ committing \in BOOLEAN
  /\ asleep \subseteq Proc /\ tail \in 1 .. LOGSIZE + 1
  /\ mode \in {"boot", "recover", "up", "panic"}
  /\ pc \in [Proc -> {"out", "op", "log", "install", "done"}]
  /\ op \in [Proc -> Op] /\ wrote \in [Proc -> SUBSET Block]
  /\ logging \in [Proc -> SUBSET Block] /\ spilt \in BOOLEAN
  /\ nextop \in 1 .. MaxOp + 1 /\ crashes \in 0 .. MaxCrash

(* What recovery would make of the disk as it is now: the blocks that the  *)
(* header names come from the log, the last copy of each, the others from  *)
(* home.  While nothing has been written beyond the log, the header names  *)
(* no block beyond it.                                                     *)
recovered ==
  [b \in Block |->
    LET at == {i \in 1 .. Len(hdr) : i < logsize /\ hdr[i] = b}
    IN  IF at = {} THEN home[b]
        ELSE logblk[CHOOSE i \in at : \A j \in at : j <= i]]

(* The log is an atomic disk until a block is written beyond it: a crash   *)
(* at any point, in a commit, in the middle of several operations that     *)
(* share a commit or in the recovery from an earlier crash, leaves the     *)
(* contents of a moment when no operation was active.                      *)
Disk == INSTANCE AtomicDisk WITH
  Value <- Op,
  mem <- IF mode \in {"up", "panic"} THEN cache ELSE recovered,
  stable <- recovered,
  active <- outstanding

ImplementsAtomicDisk == Disk!Spec

(* An operation's writes are on the disk once no operation is active and   *)
(* no commit runs: end_op of the last operation returns only after that,   *)
(* and no recycled buffer has lost them.  Only a block written beyond the  *)
(* log can undo this.                                                      *)
DurableWhenIdle ==
  mode = "up" /\ outstanding = 0 /\ ~committing /\ ~spilt => recovered = cache

(* A commit has the log to itself: end_op of no operation finds            *)
(* log.committing set, so it does not panic, and no block changes while    *)
(* write_log copies it.  No wakeup is lost: a process that sleeps in       *)
(* begin_op waits for a commit that runs, or for operations that hold the  *)
(* room it needs and whose end_op will wake it.  The room begin_op         *)
(* reserves keeps the log within lh.block, of LOGSIZE entries, although    *)
(* log_write looks at its size before it takes log.lock.                   *)
SleepJustified ==
  /\ TypeOK
  /\ committing => outstanding = 0
  /\ asleep # {} => committing \/ (~Fits /\ outstanding > 0)

-----------------------------------------------------------------------------
(* The inductive invariant behind the properties above.                    *)

(* The process is in commit. *)
InCommit(p) == pc[p] \in {"log", "install", "done"}

(* log.outstanding counts the operations, and at most one process commits, *)
(* with log.committing set and no operation left.                          *)
Ops == {p \in Proc : pc[p] = "op"}
CountInv ==
  /\ IsFiniteSet(Ops) /\ outstanding = Cardinality(Ops)
  /\ committing => outstanding = 0 /\ \E p \in Proc : InCommit(p)
  /\ \A p \in Proc : InCommit(p) => committing /\ mode = "up"
  /\ \A p, q \in Proc : InCommit(p) /\ InCommit(q) => p = q
  /\ mode \in {"boot", "recover"} => outstanding = 0 /\ ~committing /\ asleep = {}

(* The log's blocks are distinct.  An operation is in log_write with one   *)
(* block at most, and what it has written is in the log.                   *)
Logged == {lh[i] : i \in 1 .. Len(lh)}
BlockInv ==
  /\ \A i, j \in 1 .. Len(lh) : lh[i] = lh[j] => i = j
  /\ \A i, j \in 1 .. Len(hdr) : hdr[i] = hdr[j] => i = j
  /\ \A p \in Proc :
       /\ logging[p] # {} => pc[p] = "op" /\ \E b \in Block : logging[p] = {b}
       /\ pc[p] = "op" => /\ wrote[p] \subseteq Logged /\ IsFiniteSet(wrote[p])
                          /\ Cardinality(wrote[p] \cup logging[p]) <= MAXOPBLOCKS

(* The room that begin_op has reserved and the operations have not used,   *)
(* one element per block: with it the log stays within LOGSIZE.            *)
Reserved == {r \in Ops \X (1 .. MAXOPBLOCKS) : r[2] > Cardinality(wrote[r[1]])}
RoomInv == Len(hdr) <= LOGSIZE /\ Len(lh) + Cardinality(Reserved) <= LOGSIZE

(* A block whose buffer may be recycled is on the disk as it is in memory. *)
CleanInv ==
  mode # "panic" =>
    \A b \in Block \ dirty : (\A p \in Proc : b \notin logging[p]) => cache[b] = home[b]

(* Before the commit point the header names no block; the log's blocks are *)
(* the pinned ones.                                                        *)
Collecting == hdr = <<>> /\ dirty = Logged

(* write_log has copied the blocks before tail. *)
Logging ==
  /\ Collecting
  /\ tail <= Len(lh) + 1 /\ tail <= logsize
  /\ \A i \in 1 .. Len(lh) : i < tail => logblk[i] = cache[lh[i]]

(* After the commit point the log holds what the buffers hold, and         *)
(* install_trans has brought home the blocks before tail.                  *)
Installing ==
  /\ hdr = lh /\ tail <= Len(lh) + 1
  /\ dirty = {lh[i] : i \in tail .. Len(lh)}
  /\ \A i \in 1 .. Len(lh) :
       logblk[i] = cache[lh[i]] /\ (i < tail => home[lh[i]] = logblk[i])

(* The same for the recovery, which has nothing in its buffers. *)
Recovering ==
  /\ hdr = lh /\ tail <= Len(lh) + 1
  /\ dirty = {}
  /\ \A i \in 1 .. Len(lh) : i < tail => home[lh[i]] = logblk[i]

PhaseInv ==
  /\ Len(hdr) < logsize
  /\ mode = "boot" => lh = <<>> /\ dirty = {}
  /\ mode = "recover" => Recovering
  /\ mode = "up" /\ ~committing => Collecting /\ (outstanding = 0 => lh = <<>>)
  /\ \A p \in Proc :
       /\ pc[p] = "log" => Logging
       /\ pc[p] = "install" => Installing
       /\ pc[p] = "done" => Collecting /\ lh = <<>>

(* What holds of the disk holds until a block is written beyond the log. *)
IInv == SleepJustified /\ CountInv /\ BlockInv /\ RoomInv /\ (~spilt => CleanInv /\ PhaseInv)
=============================================================================
