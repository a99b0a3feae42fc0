------------------------------ MODULE FileLock ------------------------------
(***************************************************************************)
(* flock and funlock: a sleep lock in each slot of the inode cache, taken  *)
(* through a descriptor.  Descriptors are opened on files and on pipes,    *)
(* inherited by fork and closed by close and exit; slots of the cache are  *)
(* used again for other files, with the lock as it is.                     *)
(***************************************************************************)
EXTENDS Integers, FiniteSets

CONSTANTS Proc,    \* process ids
          First,   \* the process there is at the beginning
          Inum, Slot, File, Fd,
          None

VARIABLES inode,   \* the slots of icache: inum (None without references, when
                   \* nothing reads it), ref and the holder of flock
          ftable,  \* type, ref and ip of each file
          ofile,   \* each process's descriptors
          pc,      \* "user", "absent", or where a process is in flock
          held,    \* the files a process has locked and not closed since
          panicked

flockvars == <<inode, ftable, ofile, pc, held, panicked>>
User == [at |-> "user", ip |-> None]
At(p, a) == pc[p].at = a /\ ~panicked
Open(p) == {fd \in Fd : ofile[p][fd] # None}
FreeFd(p) == Fd \ Open(p)
FreeFiles == {f \in File : ftable[f].ref = 0}
Cached(i) == {s \in Slot : inode[s].ref > 0 /\ inode[s].inum = i}
FilesOf(p, fds) == {inode[ftable[ofile[p][fd]].ip].inum : fd \in {fd \in fds : ftable[ofile[p][fd]].type = "inode"}}

\* What a scan of a table finds.
Least(S) == CHOOSE x \in S : \A y \in S : x <= y

Init ==
  /\ inode = [s \in Slot |-> [inum |-> None, ref |-> 0, holder |-> None]]
  /\ ftable = [f \in File |-> [type |-> "none", ref |-> 0, ip |-> None]]
  /\ ofile = [p \in Proc |-> [fd \in Fd |-> None]]
  /\ pc = [p \in Proc |-> IF p = First THEN User ELSE [at |-> "absent", ip |-> None]]
  /\ held = [p \in Proc |-> {}] /\ panicked = FALSE

\* The slot iget returns: the file's own, or the first without references.
iget(i) == IF Cached(i) # {} THEN Cached(i)
           ELSE {s \in Slot : inode[s].ref = 0 /\ \A t \in Slot : t < s => inode[t].ref > 0}

\* open takes the first free file and the first free descriptor.
sys_open(p, i) == \E s \in iget(i) :
  /\ At(p, "user") /\ FreeFiles # {} /\ FreeFd(p) # {}
  /\ inode' = [inode EXCEPT ![s].inum = i, ![s].ref = IF s \in Cached(i) THEN @ + 1 ELSE 1]
  /\ ftable' = [ftable EXCEPT ![Least(FreeFiles)] = [type |-> "inode", ref |-> 1, ip |-> s]]
  /\ ofile' = [ofile EXCEPT ![p][Least(FreeFd(p))] = Least(FreeFiles)]
  /\ UNCHANGED <<pc, held, panicked>>

\* pipe takes two of each, and leaves ip of the files as it was.
sys_pipe(p) ==
  LET f0 == Least(FreeFiles)
      f1 == Least(FreeFiles \ {f0})
      fd0 == Least(FreeFd(p))
      fd1 == Least(FreeFd(p) \ {fd0})
  IN /\ At(p, "user") /\ Cardinality(FreeFiles) >= 2 /\ Cardinality(FreeFd(p)) >= 2
     /\ ftable' = [ftable EXCEPT ![f0].type = "pipe", ![f0].ref = 1, ![f1].type = "pipe", ![f1].ref = 1]
     /\ ofile' = [ofile EXCEPT ![p][fd0] = f0, ![p][fd1] = f1]
     /\ UNCHANGED <<inode, pc, held, panicked>>

fork(p, q) ==
  /\ At(p, "user") /\ pc[q].at = "absent" /\ \A fd \in Fd : ofile[q][fd] = None
  /\ pc' = [pc EXCEPT ![q] = User]
  /\ ofile' = [ofile EXCEPT ![q] = ofile[p]]
  /\ ftable' = [f \in File |-> [ftable[f] EXCEPT !.ref = @ + Cardinality({fd \in Fd : ofile[p][fd] = f})]]
  /\ UNCHANGED <<inode, held, panicked>>

\* fileclose: the last reference to a file gives up the inode's; the lock of the
\* slot is not looked at.
fileclose(p, fd) == LET f == ofile[p][fd] IN
  /\ ftable' = [ftable EXCEPT ![f].ref = @ - 1, ![f].type = IF ftable[f].ref = 1 THEN "none" ELSE @]
  /\ inode' = IF ftable[f].ref = 1 /\ ftable[f].type = "inode"
              THEN [inode EXCEPT ![ftable[f].ip].ref = @ - 1, ![ftable[f].ip].inum = IF inode[ftable[f].ip].ref = 1 THEN None ELSE @]
              ELSE inode
  /\ ofile' = [ofile EXCEPT ![p][fd] = None]
  /\ held' = [held EXCEPT ![p] = @ \cap FilesOf(p, Open(p) \ {fd})]

close(p, fd) == At(p, "user") /\ fd \in Open(p) /\ fileclose(p, fd) /\ UNCHANGED <<pc, panicked>>

\* exit closes the descriptors one by one; the id is not used again.
exit(p) ==
  /\ At(p, "user") \/ At(p, "exit")
  /\ IF Open(p) = {} THEN /\ pc' = [pc EXCEPT ![p] = [at |-> "gone", ip |-> None]]
                          /\ UNCHANGED <<inode, ftable, ofile, held>>
     ELSE /\ pc' = [pc EXCEPT ![p] = [at |-> "exit", ip |-> None]]
          /\ \E fd \in Open(p) : (\A o \in Open(p) : fd <= o) /\ fileclose(p, fd)
  /\ UNCHANGED panicked
-----------------------------------------------------------------------------
\* filelock looks at f->ip only, which a pipe's file may have from before; when
\* it has none, or the slot has no reference, flock returns -1.
filelock(p, fd) == LET f == ftable[ofile[p][fd]] IN
  /\ At(p, "user") /\ fd \in Open(p) /\ f.ip # None /\ inode[f.ip].ref >= 1
  /\ pc' = [pc EXCEPT ![p] = [at |-> IF f.type = "inode" THEN "flock" ELSE "flockpipe", ip |-> f.ip]]
  /\ UNCHANGED <<inode, ftable, ofile, held, panicked>>

\* fsemaphore_lock checks the slot again before it waits, and not after.
fsemaphore_lock(p) == LET s == pc[p].ip IN
  /\ At(p, "flock") \/ At(p, "flockpipe")
  /\ \/ inode[s].ref < 1 /\ panicked' = TRUE /\ UNCHANGED pc
     \/ /\ inode[s].ref >= 1 /\ UNCHANGED panicked
        /\ pc' = [pc EXCEPT ![p] = [at |-> IF At(p, "flock") THEN "wait" ELSE "waitpipe", ip |-> s]]
  /\ UNCHANGED <<inode, ftable, ofile, held>>

\* Mutant: the lock is taken without waiting.
SemaphoreTaken(p) == LET s == pc[p].ip IN
  /\ At(p, "wait") \/ At(p, "waitpipe")
  /\ inode' = [inode EXCEPT ![s].holder = p]
  /\ held' = [held EXCEPT ![p] = IF At(p, "wait") THEN @ \cup {inode[s].inum} ELSE @]
  /\ pc' = [pc EXCEPT ![p] = User] /\ UNCHANGED <<ftable, ofile, panicked>>

\* acquiresleep returns with the lock once it is free; whoever came through a
\* pipe's file may find the slot unused by then, or serving another file.
acquiresleep(p) == LET s == pc[p].ip IN
  /\ At(p, "wait") \/ At(p, "waitpipe")
  /\ inode[s].holder = None
  /\ inode' = [inode EXCEPT ![s].holder = p]
  /\ held' = [held EXCEPT ![p] = IF At(p, "wait") THEN @ \cup {inode[s].inum} ELSE @]
  /\ pc' = [pc EXCEPT ![p] = User] /\ UNCHANGED <<ftable, ofile, panicked>>

fileunlock(p, fd) == LET f == ftable[ofile[p][fd]] IN
  /\ At(p, "user") /\ fd \in Open(p) /\ f.ip # None
  /\ inode[f.ip].holder = p /\ inode[f.ip].ref >= 1
  /\ inode' = [inode EXCEPT ![f.ip].holder = None]
  /\ held' = [held EXCEPT ![p] = @ \ {inode[f.ip].inum}]
  /\ UNCHANGED <<ftable, ofile, pc, panicked>>

Next == \E p \in Proc :
  \/ \E fd \in Fd : close(p, fd) \/ filelock(p, fd) \/ fileunlock(p, fd)
  \/ \E i \in Inum : sys_open(p, i)
  \/ \E q \in Proc : fork(p, q)
  \/ sys_pipe(p) \/ exit(p) \/ fsemaphore_lock(p) \/ acquiresleep(p)

Spec == Init /\ [][Next]_flockvars
-----------------------------------------------------------------------------
TypeOK ==
  /\ inode \in [Slot -> [inum : Inum \cup {None}, ref : 0..Cardinality(File), holder : Proc \cup {None}]]
  /\ ftable \in [File -> [type : {"none", "inode", "pipe"}, ref : 0..Cardinality(Proc) * Cardinality(Fd), ip : Slot \cup {None}]]
  /\ ofile \in [Proc -> [Fd -> File \cup {None}]] /\ held \in [Proc -> SUBSET Inum]

\* While a process has a file locked and has not closed it, the lock of the slot
\* its descriptors lead to is the process's, so no two processes have a file
\* locked together: not when others close their descriptors, when the slot a
\* lock was left in serves another file, or when a lock is taken through a
\* pipe's file.
FlockExclusive == \A p \in Proc : \A i \in held[p] :
  /\ \E s \in Slot : inode[s].inum = i /\ inode[s].ref > 0 /\ inode[s].holder = p
  /\ \A q \in Proc \ {p} : i \notin held[q]

\* flock of a file never reaches the panic of fsemaphore_lock, however others
\* close the file in between: the descriptor in use keeps the reference.
FlockOnFile == \A p \in Proc : pc[p].at = "flock" => inode[pc[p].ip].ref >= 1
-----------------------------------------------------------------------------
\* What makes FlockExclusive and FlockOnFile inductive.
Holders(f) == {x \in Proc \X Fd : ofile[x[1]][x[2]] = f}
Users(s) == {f \in File : ftable[f].type = "inode" /\ ftable[f].ip = s}
Leads(p, s) == \E fd \in Fd : ofile[p][fd] \in File /\ ofile[p][fd] \in Users(s)

Inode == [inum : Inum \cup {None}, ref : Nat, holder : Proc \cup {None}]
OpenFile == [type : {"none", "inode", "pipe"}, ref : Nat, ip : Slot \cup {None}]
Place == [at : {"user", "absent", "exit", "gone", "flock", "flockpipe", "wait", "waitpipe"}, ip : Slot \cup {None}]
Types == /\ inode \in [Slot -> Inode] /\ ftable \in [File -> OpenFile]
         /\ ofile \in [Proc -> [Fd -> File \cup {None}]] /\ held \in [Proc -> SUBSET Inum]
         /\ pc \in [Proc -> Place] /\ panicked \in BOOLEAN

\* The counts of files and of slots are exact; a file in use as an inode's has
\* a slot and a descriptor.
CountInv == /\ \A f \in File : /\ ftable[f].ref = Cardinality(Holders(f))
                               /\ ftable[f].type = "inode" => ftable[f].ref > 0 /\ ftable[f].ip \in Slot
            /\ \A s \in Slot : inode[s].ref = Cardinality(Users(s))

\* A file is in one slot at most.
CacheInv == /\ \A s \in Slot : inode[s].ref > 0 => inode[s].inum # None
            /\ \A s, t \in Slot : inode[s].ref > 0 /\ inode[t].ref > 0 /\ inode[s].inum = inode[t].inum => s = t

\* A process that has a file locked, or is about to lock it, has a descriptor of
\* the file, and the lock of the file's slot is the one it has.
HeldInv == \A p \in Proc :
  /\ \A i \in held[p] : \E s \in Slot : Leads(p, s) /\ inode[s].inum = i /\ inode[s].holder = p
  /\ pc[p].at \in {"flock", "flockpipe", "wait", "waitpipe"} => pc[p].ip \in Slot
  /\ pc[p].at \in {"flock", "wait"} => Leads(p, pc[p].ip)

IInv == Types /\ CountInv /\ CacheInv /\ HeldInv
=============================================================================
