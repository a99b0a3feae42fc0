---------------------------- MODULE BufferCache -----------------------------
(***************************************************************************)
(* The buffer cache (bio.c) over the interrupt-driven disk driver (ide.c)  *)
(* or the memory disk (memide.c).                                          *)
(* bcache.lock and idelock make each critical section one step.  A         *)
(* buffer's sleep lock is its owner; a process waits for it in bget and,   *)
(* holding it, waits in iderw for the interrupt.                           *)
(*                                                                         *)
(* A process is                                                            *)
(*   "out"   not using the cache                                           *)
(*   "wait"  in bget, about to acquire the buffer's sleep lock             *)
(*   "rw"    about to enter iderw, from bread or from bwrite               *)
(*   "io"    in iderw, its request queued                                  *)
(*   "hold"  between bread and brelse                                      *)
(*   "put"   in brelse, the sleep lock released, the reference still held  *)
(***************************************************************************)
EXTENDS Naturals, Sequences, FiniteSets, Functions

CONSTANTS Proc, Buf, Block, Val, Zero, None,
          Written,     \* the blocks the file system writes (never the boot block)
          Faulty       \* the blocks the disk may fail to read

ASSUME BcacheAssumption == /\ Buf # {} /\ IsFiniteSet(Buf) /\ IsFiniteSet(Proc)
                           /\ None \notin Proc \cup Buf \cup Block
                           /\ Zero \in Val /\ Faulty \cup Written \subseteq Block

VARIABLES lru,       \* bcache.head's list, most recently released first
          blockno,   \* struct buf
          refcnt, valid, dirty, data,
          owner,     \* b->lock: its holder, or None
          idequeue,  \* idequeue: the head is the request the disk works on
          disk,      \* what the platters hold
          failed,    \* the blocks a read of which failed (history)
          pc, buf,   \* a process, and the buffer it has from bget
          panicked,  \* "bget: no buffers"
          memdisk    \* the kernel is linked with memide.c in place of ide.c

vars == <<lru, blockno, refcnt, valid, dirty, data, owner, idequeue, disk,
          failed, pc, buf, panicked, memdisk>>

TypeOK == /\ lru \in [1..Cardinality(Buf) -> Buf]
          /\ blockno \in [Buf -> Block \cup {None}]
          /\ refcnt \in [Buf -> 0..Cardinality(Proc)]
          /\ valid \subseteq Buf /\ dirty \subseteq Buf
          /\ data \in [Buf -> Val] /\ disk \in [Block -> Val]
          /\ owner \in [Buf -> Proc \cup {None}]
          /\ idequeue \in Seq(Buf)
          /\ failed \subseteq Block
          /\ pc \in [Proc -> {"out", "wait", "rw", "io", "hold", "put"}]
          /\ buf \in [Proc -> Buf \cup {None}]
          /\ panicked \in BOOLEAN /\ memdisk \in BOOLEAN

\* binit: the list threads every buffer, none of them holds a block.
binit == /\ lru = CHOOSE list \in Bijection(1..Cardinality(Buf), Buf) : TRUE
         /\ blockno = [b \in Buf |-> None]
         /\ refcnt = [b \in Buf |-> 0]
         /\ valid = {} /\ dirty = {}
         /\ data = [b \in Buf |-> Zero]
         /\ owner = [b \in Buf |-> None]

Init == /\ binit
        /\ idequeue = <<>> /\ failed = {} /\ panicked = FALSE
        /\ memdisk \in BOOLEAN
        /\ disk = [k \in Block |-> Zero]
        /\ pc = [p \in Proc |-> "out"]
        /\ buf = [p \in Proc |-> None]

Goto(p, l) == pc' = [pc EXCEPT ![p] = l]
-----------------------------------------------------------------------------
Cached(k) == {b \in Buf : blockno[b] = k}

\* Mutant: a buffer that log_write pinned is recycled.
RecyclePinned(b) == refcnt[b] = 0
\* Nobody refers to it and log_write does not pin it.
Recyclable(b) == refcnt[b] = 0 /\ b \notin dirty

\* Mutant: a hit does not count the reference.
HitUncounted(p, k) == \E b \in Cached(k) :
  /\ buf' = [buf EXCEPT ![p] = b]
  /\ Goto(p, "wait")
  /\ UNCHANGED <<lru, blockno, refcnt, valid, dirty, data, owner>>

\* The block is cached: count the reference before the buffer can be recycled.
bgetHit(p, k) == \E b \in Cached(k) :
  /\ refcnt' = [refcnt EXCEPT ![b] = @ + 1]
  /\ buf' = [buf EXCEPT ![p] = b]
  /\ Goto(p, "wait")
  /\ UNCHANGED <<lru, blockno, valid, dirty, data, owner>>

\* Not cached: the recyclable buffer released longest ago.
bgetRecycle(p, k) ==
  /\ Cached(k) = {}
  /\ \E i \in DOMAIN lru :
       /\ Recyclable(lru[i])
       /\ \A j \in DOMAIN lru : j > i => ~Recyclable(lru[j])
       /\ blockno' = [blockno EXCEPT ![lru[i]] = k]
       /\ valid' = valid \ {lru[i]} /\ dirty' = dirty \ {lru[i]}
       /\ refcnt' = [refcnt EXCEPT ![lru[i]] = 1]
       /\ buf' = [buf EXCEPT ![p] = lru[i]]
  /\ Goto(p, "wait")
  /\ UNCHANGED <<lru, data, owner>>

bget(p, k) == /\ pc[p] = "out"
              /\ bgetHit(p, k) \/ bgetRecycle(p, k)
              /\ UNCHANGED <<idequeue, disk, failed, panicked>>

bgetPanic(p, k) == /\ pc[p] = "out"
                   /\ Cached(k) = {}
                   /\ \A b \in Buf : ~Recyclable(b)
                   /\ panicked' = TRUE
                   /\ UNCHANGED <<lru, blockno, refcnt, valid, dirty, data, owner,
                                  idequeue, disk, failed, pc, buf>>

\* bget's acquiresleep, and bread's test of what it got.
bread(p) == /\ pc[p] = "wait"
            /\ owner[buf[p]] = None
            /\ owner' = [owner EXCEPT ![buf[p]] = p]
            /\ Goto(p, IF buf[p] \in valid THEN "hold" ELSE "rw")
            /\ UNCHANGED <<lru, blockno, refcnt, valid, dirty, data, idequeue,
                           disk, failed, buf, panicked>>

\* A holder changes the block: log_write pins it until install_trans writes it.
log_write(p, v) == /\ pc[p] = "hold" /\ blockno[buf[p]] \in Written
                   /\ data' = [data EXCEPT ![buf[p]] = v]
                   /\ dirty' = dirty \cup {buf[p]}
                   /\ UNCHANGED <<lru, blockno, refcnt, valid, owner, idequeue, disk,
                                  failed, pc, buf, panicked>>

bwrite(p) == /\ pc[p] = "hold" /\ blockno[buf[p]] \in Written
             /\ dirty' = dirty \cup {buf[p]}
             /\ Goto(p, "rw")
             /\ UNCHANGED <<lru, blockno, refcnt, valid, data, owner, idequeue, disk,
                            failed, buf, panicked>>

\* brelse gives the sleep lock back first and the reference second.
brelseLock(p) == /\ pc[p] = "hold"
                 /\ owner' = [owner EXCEPT ![buf[p]] = None]
                 /\ Goto(p, "put")
                 /\ UNCHANGED <<lru, blockno, refcnt, valid, dirty, data, idequeue,
                                disk, failed, buf, panicked>>

\* The buffer goes to the head of the list, and those before it one place back.
MoveToFront(b) == LET at == CHOOSE i \in DOMAIN lru : lru[i] = b IN
  [i \in DOMAIN lru |-> IF i = 1 THEN b ELSE IF i <= at THEN lru[i - 1] ELSE lru[i]]

brelseRef(p) == LET b == buf[p] IN
  /\ pc[p] = "put"
  /\ refcnt' = [refcnt EXCEPT ![b] = @ - 1]
  /\ lru' = IF refcnt[b] = 1 THEN MoveToFront(b) ELSE lru
  /\ buf' = [buf EXCEPT ![p] = None]
  /\ Goto(p, "out")
  /\ UNCHANGED <<blockno, valid, dirty, data, owner, idequeue, disk, failed, panicked>>
-----------------------------------------------------------------------------
\* idestart: a write hands the buffer's content to the disk, a read only asks.
idestart(queue) ==
  disk' = IF queue # <<>> /\ Head(queue) \in dirty
          THEN [disk EXCEPT ![blockno[Head(queue)]] = data[Head(queue)]]
          ELSE disk

iderw(p) == /\ pc[p] = "rw" /\ ~memdisk
            /\ idequeue' = Append(idequeue, buf[p])
            /\ IF idequeue = <<>> THEN idestart(idequeue') ELSE UNCHANGED disk
            /\ Goto(p, "io")
            /\ UNCHANGED <<lru, blockno, refcnt, valid, dirty, data, owner, failed,
                           buf, panicked>>

\* memide.c: the copy is made on the spot, there is no queue and no interrupt.
iderwMem(p) == LET b == buf[p] IN
  /\ pc[p] = "rw" /\ memdisk
  /\ IF b \in dirty THEN disk' = [disk EXCEPT ![blockno[b]] = data[b]] /\ UNCHANGED data
                    ELSE data' = [data EXCEPT ![b] = disk[blockno[b]]] /\ UNCHANGED disk
  /\ dirty' = dirty \ {b}
  /\ valid' = valid \cup {b}
  /\ Goto(p, "hold")
  /\ UNCHANGED <<lru, blockno, refcnt, owner, idequeue, failed, buf, panicked>>

\* Mutant: the interrupt drops the requests behind the first.
ForgetNext == /\ idequeue # <<>>
              /\ LET b == Head(idequeue) IN
                   /\ data' = IF b \in dirty THEN data ELSE [data EXCEPT ![b] = disk[blockno[b]]]
                   /\ valid' = valid \cup {b}
                   /\ dirty' = dirty \ {b}
              /\ idequeue' = <<>>
              /\ UNCHANGED <<lru, blockno, refcnt, owner, pc, buf, panicked, disk, failed>>

\* The interrupt: a read takes the data, or on a disk error leaves what the
\* buffer held before it was recycled; both mark it valid and start the next.
ideintr == /\ idequeue # <<>>
           /\ LET b == Head(idequeue) IN
                /\ \/ /\ data' = IF b \in dirty THEN data
                                 ELSE [data EXCEPT ![b] = disk[blockno[b]]]
                      /\ UNCHANGED failed
                   \/ /\ b \notin dirty /\ blockno[b] \in Faulty
                      /\ failed' = failed \cup {blockno[b]}
                      /\ UNCHANGED data
                /\ valid' = valid \cup {b}
                /\ dirty' = dirty \ {b}
           /\ idequeue' = Tail(idequeue)
           /\ idestart(idequeue')
           /\ UNCHANGED <<lru, blockno, refcnt, owner, pc, buf, panicked>>

\* iderw's loop ends: the buffer is valid and not dirty.
iderwReturns(p) == /\ pc[p] = "io"
                   /\ buf[p] \in valid \ dirty
                   /\ Goto(p, "hold")
                   /\ UNCHANGED <<lru, blockno, refcnt, valid, dirty, data, owner,
                                  idequeue, disk, failed, buf, panicked>>

Running == ~panicked /\ UNCHANGED memdisk

Next == /\ Running
        /\ \/ ideintr
           \/ \E p \in Proc :
                \/ \E k \in Block : bget(p, k) \/ bgetPanic(p, k)
                \/ bread(p) \/ iderw(p) \/ iderwMem(p) \/ iderwReturns(p) \/ bwrite(p)
                \/ brelseLock(p) \/ brelseRef(p)
                \/ \E v \in Val : log_write(p, v)

\* The disk answers, a process in the cache keeps going and does not hold a
\* buffer for ever, and acquiresleep lets a waiter in that is woken for ever
\* again.
Inside(p) == iderw(p) \/ iderwMem(p) \/ iderwReturns(p) \/ brelseRef(p)
Fairness == /\ WF_vars(ideintr /\ Running)
            /\ \A p \in Proc : /\ WF_vars(Inside(p) /\ Running)
                               /\ SF_vars(brelseLock(p) /\ Running)
                               /\ SF_vars(bread(p) /\ Running)

Spec == Init /\ [][Next]_vars /\ Fairness
-----------------------------------------------------------------------------
\* A block is in at most one buffer, and a buffer some process got from bget
\* still holds the block it asked for: bget's look-up and recycling under
\* bcache.lock, with the reference counted before the sleep lock is taken.
OneBufferPerBlock ==
  /\ \A b, c \in Buf : blockno[b] = blockno[c] /\ blockno[b] # None => b = c
  /\ \A b \in Buf : refcnt[b] = Cardinality({p \in Proc : buf[p] = b})

\* The disk queue holds exactly the buffers whose processes are inside iderw
\* waiting for it, each once and each locked by that process: the interrupt
\* never touches a buffer that somebody else may recycle, modify or queue.
\* The two panics at the top of iderw are not reached.
QueueIsWaiters ==
  /\ \A i, j \in DOMAIN idequeue : idequeue[i] = idequeue[j] => i = j
  /\ \A b \in Buf : (\E i \in DOMAIN idequeue : idequeue[i] = b)
                      <=> \E p \in Proc : /\ pc[p] = "io" /\ buf[p] = b /\ owner[b] = p
                                          /\ b \notin valid \ dirty
  /\ \A p \in Proc : pc[p] = "rw" => owner[buf[p]] = p /\ buf[p] \notin valid \ dirty

\* The counts, the list and the disk queue say the same of every buffer, and
\* brelse leaves the list a permutation of the buffers.
BuffersConsistent ==
  /\ TypeOK /\ OneBufferPerBlock /\ QueueIsWaiters
  /\ \A b \in Buf : \E i \in DOMAIN lru : lru[i] = b

\* A block's content is what its valid buffer holds, or else the disk's copy;
\* with the owner of that buffer's lock as its holder the cache, the
\* driver and the disk together implement one register per block.
Current(k) == Cached(k) \cap valid
Content == [k \in Block |-> IF Current(k) = {} THEN disk[k] ELSE data[CHOOSE b \in Current(k) : TRUE]]
Holder == [k \in Block |-> IF Current(k) = {} THEN None ELSE owner[CHOOSE b \in Current(k) : TRUE]]
ImplementsBlocks == INSTANCE Blocks WITH content <- Content, holder <- Holder
BlocksSpec == ImplementsBlocks!Spec

\* A process that asks for a block gets it, unless the kernel panics: the
\* interrupt wakes iderw, and brelse the next in bget.
BreadReturns == \A p \in Proc : pc[p] = "wait" ~> pc[p] = "hold" \/ panicked

-----------------------------------------------------------------------------
\* The inductive invariant behind the safety properties above.

\* A process has a buffer from bget to the end of brelse, the buffer's lock
\* from bread to the beginning of brelse, and valid data when bread returns.
HoldersInv ==
  /\ \A p \in Proc : pc[p] = "out" <=> buf[p] = None
  /\ \A p \in Proc : buf[p] # None => blockno[buf[p]] # None
  /\ \A b \in Buf : owner[b] # None => /\ pc[owner[b]] \in {"rw", "io", "hold"}
                                       /\ buf[owner[b]] = b
  /\ \A p \in Proc : pc[p] \in {"rw", "io", "hold"} => owner[buf[p]] = p
  /\ \A p \in Proc : pc[p] = "hold" => buf[p] \in valid

\* A buffer that may be recycled is on the disk as it is in memory, unless the
\* disk failed to read it, and so is the request of a write in progress.
DiskInv ==
  /\ dirty \subseteq valid
  /\ \A b \in valid : blockno[b] # None
  /\ \A b \in valid \ dirty : blockno[b] \notin failed => data[b] = disk[blockno[b]]
  /\ idequeue # <<>> /\ Head(idequeue) \in dirty =>
       disk[blockno[Head(idequeue)]] = data[Head(idequeue)]
  /\ memdisk => idequeue = <<>>

IInv == BuffersConsistent /\ HoldersInv /\ DiskInv
=============================================================================
