------------------------------- MODULE Files --------------------------------
(***************************************************************************)
(* Open files and the inodes behind them: descriptor tables (sysfile.c,    *)
(* fork and exit of proc.c), the file table (file.c) and the inode cache   *)
(* (fs.c).  One directory, whose lock is held over a look-up, stands for   *)
(* the name space; Names has the directories.                              *)
(*                                                                         *)
(* icache.lock and ftable.lock make a critical section one step.  pc[p].at *)
(* is where process p waits or may be overtaken inside a call:             *)
(*   "user"   in user mode               "iget"    ialloc, before its iget *)
(*   "ilock"  about to lock pc.ip        "ready"   call .op, pc.ip locked  *)
(*   "fd", "pipe"  a file or two allocated, descriptors not yet            *)
(*   "iput", "free", "deref"  the three parts of iput                      *)
(*   "exit"   in exit's loop over the descriptors                          *)
(***************************************************************************)
EXTENDS Naturals, FiniteSets, FiniteSetsExt

CONSTANTS Proc, Inum,
          NINODE, NFILE, NOFILE,    \* param.h
          None

Slot == 1..NINODE
File == 1..NFILE
FD == 1..NOFILE

ASSUME FilesAssumption == /\ NINODE \in Nat /\ NFILE \in Nat /\ NOFILE \in Nat
                          /\ IsFiniteSet(Proc) /\ Inum \subseteq Nat \ {0} /\ IsFiniteSet(Inum)
                          /\ None \notin Proc \cup Nat \cup {"iget", "ialloc", "ilock"}

VARIABLES dinode,   \* inodes on disk: allocated (type # 0), nlink
          named,    \* the inodes that have a directory entry
          dirlock,  \* the lock of the directory: its holder, or None
          icache,   \* slot: inum, ref, valid and the copy of nlink
          lock,     \* slot: ip->lock
          ftable,   \* struct file: type, ref, ip
          ofile,    \* process: descriptor -> file, or None
          alive,    \* the processes that exist
          pc,       \* where a process is in a call
          panicked  \* what the kernel panicked about, or None

vars == <<dinode, named, dirlock, icache, lock, ftable, ofile, alive, pc, panicked>>
disk == <<dinode, named>>

\* An entry nobody refers to: iget writes its other fields before they are read.
Unused == [inum |-> None, ref |-> 0, valid |-> FALSE, nlink |-> 0]
Closed == [type |-> "NONE", ref |-> 0, ip |-> None]
User == [at |-> "user", op |-> "none", ip |-> None, f |-> {}]

Inode == [inum : Inum \cup {None}, ref : Nat, valid : BOOLEAN, nlink : 0..1]
OpenFile == [type : {"NONE", "PIPE", "INODE"}, ref : Nat, ip : Slot \cup {None}]
Call == [at : {"user", "iget", "ilock", "ready", "fd", "second", "page", "pipe", "bad", "iput", "free", "deref", "exit"},
         op : {"none", "open", "unlink", "create", "use", "close", "exit"},
         ip : Slot \cup Inum \cup {None}, f : SUBSET File]

TypeOK ==
  /\ dinode \in [Inum -> [used : BOOLEAN, nlink : 0..1]]
  /\ named \subseteq Inum
  /\ dirlock \in Proc \cup {None}
  /\ icache \in [Slot -> Inode]
  /\ lock \in [Slot -> Proc \cup {None}]
  /\ ftable \in [File -> OpenFile]
  /\ ofile \in [Proc -> [FD -> File \cup {None}]]
  /\ alive \subseteq Proc
  /\ pc \in [Proc -> Call]
  /\ panicked \in {None, "iget", "ialloc", "ilock"}

Init == /\ dinode = [i \in Inum |-> [used |-> FALSE, nlink |-> 0]]
        /\ named = {} /\ dirlock = None /\ panicked = None
        /\ icache = [s \in Slot |-> Unused]
        /\ lock = [s \in Slot |-> None]
        /\ ftable = [f \in File |-> Closed]
        /\ ofile = [p \in Proc |-> [fd \in FD |-> None]]
        /\ \E p \in Proc : alive = {p}
        /\ pc = [p \in Proc |-> User]

At(p, l) == p \in alive /\ panicked = None /\ pc[p].at = l
Goto(p, l) == pc' = [pc EXCEPT ![p].at = l]
Return(p) == pc' = [pc EXCEPT ![p] = User]
-----------------------------------------------------------------------------
\* The inode cache.

Entry(i) == {s \in Slot : icache[s].ref > 0 /\ icache[s].inum = i}
Empty == {s \in Slot : icache[s].ref = 0}

\* iget: the entry of inode i, or the first empty slot; then the call op goes
\* on to lock it.
iget(p, i, op) ==
  IF Entry(i) \cup Empty = {}
  THEN panicked' = "iget" /\ UNCHANGED <<icache, pc>>
  ELSE LET s == IF Entry(i) # {} THEN Min(Entry(i)) ELSE Min(Empty)
       IN /\ icache' = [icache EXCEPT ![s] =
                 IF Entry(i) # {} THEN [@ EXCEPT !.ref = icache[s].ref + 1]
                 ELSE [Unused EXCEPT !.inum = i, !.ref = 1]]
          /\ pc' = [pc EXCEPT ![p] = [User EXCEPT !.at = "ilock", !.op = op, !.ip = s]]
          /\ UNCHANGED panicked

\* ilock: take the lock, read the inode if the slot does not have it yet.
ilock(p) == LET s == pc[p].ip
                d == dinode[icache[s].inum] IN
  /\ At(p, "ilock")
  /\ lock[s] = None
  /\ lock' = [lock EXCEPT ![s] = p]
  /\ icache' = [icache EXCEPT ![s] = IF @.valid THEN @
                                     ELSE [@ EXCEPT !.valid = TRUE, !.nlink = d.nlink]]
  /\ panicked' = IF ~icache[s].valid /\ ~d.used THEN "ilock" ELSE None
  /\ Goto(p, "ready")
  /\ UNCHANGED <<dinode, named, dirlock, ftable, ofile, alive>>

\* Store n as nlink in the locked inode of p and write it through (iupdate).
SetNlink(p, n) == LET s == pc[p].ip IN
  /\ icache' = [icache EXCEPT ![s].nlink = n]
  /\ dinode' = [dinode EXCEPT ![icache[s].inum].nlink = n]

\* Mutant: the other references are not looked at.
IputAnyway(p) == LET s == pc[p].ip IN
  /\ At(p, "iput")
  /\ lock[s] = None
  /\ IF icache[s].valid /\ icache[s].nlink = 0
     THEN lock' = [lock EXCEPT ![s] = p] /\ Goto(p, "free")
     ELSE Goto(p, "deref") /\ UNCHANGED lock
  /\ UNCHANGED <<dinode, named, dirlock, icache, ftable, ofile, alive, panicked>>

\* iput up to its look at the reference count.  With no name and no other
\* reference the inode is freed while the lock is still held.
iputLock(p) == LET s == pc[p].ip IN
  /\ At(p, "iput")
  /\ lock[s] = None
  /\ IF icache[s].valid /\ icache[s].nlink = 0 /\ icache[s].ref = 1
     THEN lock' = [lock EXCEPT ![s] = p] /\ Goto(p, "free")
     ELSE Goto(p, "deref") /\ UNCHANGED lock
  /\ UNCHANGED <<dinode, named, dirlock, icache, ftable, ofile, alive, panicked>>

iputFree(p) == LET s == pc[p].ip IN
  /\ At(p, "free")
  /\ dinode' = [dinode EXCEPT ![icache[s].inum].used = FALSE]
  /\ icache' = [icache EXCEPT ![s].valid = FALSE]
  /\ lock' = [lock EXCEPT ![s] = None]
  /\ Goto(p, "deref")
  /\ UNCHANGED <<named, dirlock, ftable, ofile, alive, panicked>>

\* An exiting process goes on with its next descriptor, any other returns.
iputDeref(p) == LET s == pc[p].ip IN
  /\ At(p, "deref")
  /\ icache' = [icache EXCEPT ![s] = IF @.ref = 1 THEN Unused
                                     ELSE [@ EXCEPT !.ref = icache[s].ref - 1]]
  /\ IF pc[p].op = "exit" THEN Goto(p, "exit") ELSE Return(p)
  /\ UNCHANGED <<dinode, named, dirlock, lock, ftable, ofile, alive, panicked>>

iunlock(p) == lock' = [lock EXCEPT ![pc[p].ip] = None]
-----------------------------------------------------------------------------
\* The file table and the descriptors.

FreeFile == {f \in File : ftable[f].ref = 0}
\* fdalloc takes the lowest free descriptor; argfd accepts the others.
FreeFD(p) == {fd \in FD : ofile[p][fd] = None}
Open(p) == FD \ FreeFD(p)

\* sys_open of an existing name, sys_unlink: look the name up, lock the inode.
\* unlink keeps the directory locked until it has cleared the entry.
sys_openLookup(p, i) ==
  /\ At(p, "user") /\ dirlock = None /\ i \in named
  /\ iget(p, i, "open")
  /\ UNCHANGED <<dinode, named, dirlock, lock, ftable, ofile, alive>>

sys_unlinkLookup(p, i) ==
  /\ At(p, "user") /\ dirlock = None /\ i \in named
  /\ dirlock' = p
  /\ iget(p, i, "unlink")
  /\ UNCHANGED <<dinode, named, lock, ftable, ofile, alive>>

sys_unlink(p) ==
  /\ At(p, "ready") /\ pc[p].op = "unlink"
  /\ named' = named \ {icache[pc[p].ip].inum}
  /\ dirlock' = None
  /\ SetNlink(p, icache[pc[p].ip].nlink - 1)
  /\ iunlock(p)
  /\ Goto(p, "iput")
  /\ UNCHANGED <<ftable, ofile, alive, panicked>>

\* create: the directory is locked, ialloc marks the first free inode and
\* gets a cache entry for it in a second step.
ialloc(p) == LET free == {i \in Inum : ~dinode[i].used} IN
  /\ At(p, "user") /\ dirlock = None
  /\ dirlock' = p
  /\ IF free = {} THEN panicked' = "ialloc" /\ UNCHANGED <<dinode, pc>>
     ELSE /\ dinode' = [dinode EXCEPT ![Min(free)] = [used |-> TRUE, nlink |-> 0]]
          /\ pc' = [pc EXCEPT ![p].at = "iget", ![p].ip = Min(free)]
          /\ UNCHANGED panicked
  /\ UNCHANGED <<named, icache, lock, ftable, ofile, alive>>

iallocIget(p) == /\ At(p, "iget")
                 /\ iget(p, pc[p].ip, "create")
                 /\ UNCHANGED <<dinode, named, dirlock, lock, ftable, ofile, alive>>

create(p) == /\ At(p, "ready") /\ pc[p].op = "create"
             /\ SetNlink(p, 1)
             /\ named' = named \cup {icache[pc[p].ip].inum}
             /\ dirlock' = None
             /\ pc' = [pc EXCEPT ![p].op = "open"]
             /\ UNCHANGED <<lock, ftable, ofile, alive, panicked>>

\* sys_open, the inode locked: filealloc, and in a second step fdalloc.
filealloc(p) ==
  /\ At(p, "ready") /\ pc[p].op = "open"
  /\ IF FreeFile = {}
     THEN iunlock(p) /\ Goto(p, "iput") /\ UNCHANGED ftable
     ELSE /\ ftable' = [ftable EXCEPT ![Min(FreeFile)].ref = 1]
          /\ pc' = [pc EXCEPT ![p].at = "fd", ![p].f = {Min(FreeFile)}]
          /\ UNCHANGED lock
  /\ UNCHANGED <<dinode, named, dirlock, icache, ofile, alive, panicked>>

sys_openFd(p) ==
  /\ At(p, "fd")
  /\ iunlock(p)
  /\ IF FreeFD(p) = {}
     THEN /\ ftable' = [f \in File |-> IF f \in pc[p].f THEN Closed ELSE ftable[f]]
          /\ pc' = [pc EXCEPT ![p].at = "iput", ![p].f = {}]
          /\ UNCHANGED ofile
     ELSE /\ ofile' = [ofile EXCEPT ![p][Min(FreeFD(p))] = Min(pc[p].f)]
          /\ ftable' = [ftable EXCEPT ![Min(pc[p].f)] = [type |-> "INODE", ref |-> @.ref, ip |-> pc[p].ip]]
          /\ Return(p)
  /\ UNCHANGED <<dinode, named, dirlock, icache, alive, panicked>>

\* sys_pipe: pipealloc takes a file (without one the call fails and has changed
\* nothing), then a second one and a page, and goes to bad without them.
pipealloc(p) ==
  /\ At(p, "user") /\ FreeFile # {}
  /\ ftable' = [ftable EXCEPT ![Min(FreeFile)].ref = 1]
  /\ pc' = [pc EXCEPT ![p].at = "second", ![p].f = {Min(FreeFile)}]
  /\ UNCHANGED <<dinode, named, dirlock, icache, lock, ofile, alive, panicked>>

pipeallocSecond(p) ==
  /\ At(p, "second")
  /\ IF FreeFile = {} THEN Goto(p, "bad") /\ UNCHANGED ftable
     ELSE /\ ftable' = [ftable EXCEPT ![Min(FreeFile)].ref = 1]
          /\ pc' = [pc EXCEPT ![p].at = "page", ![p].f = @ \cup {Min(FreeFile)}]
  /\ UNCHANGED <<dinode, named, dirlock, icache, lock, ofile, alive, panicked>>

pipeallocPage(p) ==
  /\ At(p, "page")
  /\ \/ /\ ftable' = [f \in File |-> IF f \in pc[p].f THEN [ftable[f] EXCEPT !.type = "PIPE"]
                                     ELSE ftable[f]]
        /\ Goto(p, "pipe")
     \/ Goto(p, "bad") /\ UNCHANGED ftable
  /\ UNCHANGED <<dinode, named, dirlock, icache, lock, ofile, alive, panicked>>

\* Then two descriptors, or both files are closed.  Which file is the read end
\* makes no difference here.
sys_pipe(p) ==
  /\ At(p, "pipe")
  /\ IF Cardinality(FreeFD(p)) < 2 THEN Goto(p, "bad") /\ UNCHANGED ofile
     ELSE LET d == Min(FreeFD(p)) IN
          /\ \E f, g \in pc[p].f :
               /\ f # g
               /\ ofile' = [ofile EXCEPT ![p] = [@ EXCEPT ![d] = f, ![Min(FreeFD(p) \ {d})] = g]]
          /\ Return(p)
  /\ UNCHANGED <<dinode, named, dirlock, icache, lock, ftable, alive, panicked>>

\* Mutant: after a failed fdalloc the second file is not closed.
BadClosesOne(p) ==
  /\ At(p, "bad")
  /\ ftable' = [ftable EXCEPT ![Min(pc[p].f)] = Closed]
  /\ Return(p)
  /\ UNCHANGED <<dinode, named, dirlock, icache, lock, ofile, alive, panicked>>

\* bad of pipealloc and the failure of sys_pipe: fileclose, file by file.
pipeBad(p) ==
  /\ At(p, "bad")
  /\ \E f \in pc[p].f :
       /\ ftable' = [ftable EXCEPT ![f] = Closed]
       /\ IF pc[p].f = {f} THEN Return(p) ELSE pc' = [pc EXCEPT ![p].f = @ \ {f}]
  /\ UNCHANGED <<dinode, named, dirlock, icache, lock, ofile, alive, panicked>>

filedup(f) == ftable' = [ftable EXCEPT ![f].ref = @ + 1]

sys_dup(p, fd) ==
  /\ At(p, "user") /\ fd \in Open(p) /\ FreeFD(p) # {}
  /\ ofile' = [ofile EXCEPT ![p][Min(FreeFD(p))] = ofile[p][fd]]
  /\ filedup(ofile[p][fd])
  /\ UNCHANGED <<dinode, named, dirlock, icache, lock, alive, pc, panicked>>

\* sys_close and exit's loop: the last close of an inode's file puts the inode.
fileclose(p, fd, op) == LET f == ofile[p][fd] IN
  /\ ofile' = [ofile EXCEPT ![p][fd] = None]
  /\ IF ftable[f].ref > 1
     THEN ftable' = [ftable EXCEPT ![f].ref = @ - 1] /\ UNCHANGED pc
     ELSE /\ ftable' = [ftable EXCEPT ![f] = Closed]
          /\ IF ftable[f].type = "INODE"
             THEN pc' = [pc EXCEPT ![p] = [User EXCEPT !.at = "iput", !.op = op, !.ip = ftable[f].ip]]
             ELSE UNCHANGED pc
  /\ UNCHANGED <<dinode, named, dirlock, icache, lock, alive, panicked>>

sys_close(p, fd) == At(p, "user") /\ fd \in Open(p) /\ fileclose(p, fd, "close")

exitBegin(p) == /\ At(p, "user") /\ alive # {p}
                /\ Goto(p, "exit")
                /\ UNCHANGED <<dinode, named, dirlock, icache, lock, ftable, ofile, alive, panicked>>

exitClose(p) == At(p, "exit") /\ Open(p) # {} /\ fileclose(p, Min(Open(p)), "exit")

exitEnd(p) == /\ At(p, "exit") /\ Open(p) = {}
              /\ alive' = alive \ {p}
              /\ Return(p)
              /\ UNCHANGED <<dinode, named, dirlock, icache, lock, ftable, ofile, panicked>>

\* fork: the child q shares every open file.
fork(p, q) ==
  /\ At(p, "user") /\ q \notin alive
  /\ alive' = alive \cup {q}
  /\ ofile' = [ofile EXCEPT ![q] = ofile[p]]
  /\ ftable' = [f \in File |-> [ftable[f] EXCEPT !.ref = @ + Cardinality({fd \in FD : ofile[p][fd] = f})]]
  /\ UNCHANGED <<dinode, named, dirlock, icache, lock, pc, panicked>>

\* fileread, filewrite, filestat: lock the inode, use it, unlock it.
fileuse(p, fd) == LET f == ftable[ofile[p][fd]] IN
  /\ At(p, "user") /\ fd \in Open(p) /\ f.type = "INODE"
  /\ pc' = [pc EXCEPT ![p] = [User EXCEPT !.at = "ilock", !.op = "use", !.ip = f.ip]]
  /\ UNCHANGED <<dinode, named, dirlock, icache, lock, ftable, ofile, alive, panicked>>

fileused(p) == /\ At(p, "ready") /\ pc[p].op = "use"
               /\ iunlock(p)
               /\ Return(p)
               /\ UNCHANGED <<dinode, named, dirlock, icache, ftable, ofile, alive, panicked>>
Next == \E p \in Proc :
  \/ \E i \in Inum : sys_openLookup(p, i) \/ sys_unlinkLookup(p, i)
  \/ \E fd \in FD : \/ sys_dup(p, fd) \/ sys_close(p, fd) \/ fileuse(p, fd)
  \/ \E q \in Proc : fork(p, q)
  \/ pipealloc(p) \/ pipeallocSecond(p) \/ pipeallocPage(p) \/ sys_pipe(p) \/ pipeBad(p)
  \/ ialloc(p) \/ iallocIget(p) \/ create(p) \/ sys_unlink(p)
  \/ ilock(p) \/ iputLock(p) \/ iputFree(p) \/ iputDeref(p)
  \/ filealloc(p) \/ sys_openFd(p) \/ fileused(p)
  \/ exitBegin(p) \/ exitClose(p) \/ exitEnd(p)

Spec == Init /\ [][Next]_vars
-----------------------------------------------------------------------------
\* A file's count is the number of descriptors of all processes that name it,
\* and of sys_open and sys_pipe calls that have it in hand: dup, fork, close, exit and the
\* failures of open and pipe neither lose nor invent a reference.
Descriptors(f) == {d \in Proc \X FD : ofile[d[1]][d[2]] = f}
InHand(f) == {p \in Proc : f \in pc[p].f}
FileRefsExact == \A f \in File :
  ftable[f].ref = Cardinality(Descriptors(f)) + Cardinality(InHand(f))

\* A cache entry's count is the number of open files and of calls in progress
\* that point to it: iget, idup and iput balance on every path.
Borrowing(p, s) == pc[p].ip = s /\ \/ pc[p].at \in {"iput", "free", "deref", "fd"}
                                   \/ pc[p].at \in {"ilock", "ready"} /\ pc[p].op # "use"
Pointing(s) == {f \in File : ftable[f].type = "INODE" /\ ftable[f].ip = s}
Borrowers(s) == {p \in Proc : Borrowing(p, s)}
InodeRefsExact == \A s \in Slot :
  icache[s].ref = Cardinality(Pointing(s)) + Cardinality(Borrowers(s))

\* No two entries in use are copies of one inode, and a valid copy agrees with
\* the disk: what makes a lock in the entry a lock on the inode.
OneCopy == /\ \A s, t \in Slot \ Empty : icache[s].inum = icache[t].inum => s = t
           /\ \A s \in Slot \ Empty : icache[s].valid =>
                LET d == dinode[icache[s].inum] IN d.used /\ icache[s].nlink = d.nlink

\* Every count is exact, in the file table, in the inode cache and of the
\* copies of an inode, whatever dup, fork, close, exit and the failures of open
\* and pipe do to them at the same time.
RefsExact == TypeOK /\ FileRefsExact /\ InodeRefsExact /\ OneCopy

\* What leads to inode i: a name, an entry in use, a create about to get one.
\* The entry of an iput that has already freed the inode does not count.
Reached(i) == \/ i \in named
              \/ \E p \in Proc : pc[p].at = "iget" /\ pc[p].ip = i
              \/ \E s \in Entry(i) : icache[s].valid

\* No inode is freed while something leads to it: iput decides with the lock
\* of the entry held and frees after icache.lock is dropped, and neither an
\* open, a create nor another iput comes in between; ilock never finds an
\* inode that is free on disk ("ilock: no type").
FreedUnreached == /\ \A i \in Inum : Reached(i) => dinode[i].used
                  /\ panicked # "ilock"

\* "If that was the last reference and the inode has no links to it, free the
\* inode (and its content) on disk" (iput): an inode that is still allocated
\* has something that leads to it.
LastIputFrees == \A i \in Inum : dinode[i].used => Reached(i) \/ Entry(i) # {}

-----------------------------------------------------------------------------
\* The inductive invariant behind RefsExact and FreedUnreached.

\* What a process has in hand fits the place in its call; a process that does
\* not exist has nothing.
Piping == {"second", "page", "pipe", "bad"}
Placed(p) ==
  /\ pc[p].at \in {"ilock", "ready", "fd", "iput", "free", "deref"} => pc[p].ip \in Slot
  /\ pc[p].at \notin {"fd"} \cup Piping => pc[p].f = {}
  /\ pc[p].at = "fd" => \E f \in File : pc[p].f = {f} /\ ftable[f].type = "NONE"
  /\ pc[p].at \in {"page", "pipe"} => \E f, g \in File : f # g /\ pc[p].f = {f, g}
  /\ pc[p].at \in {"second", "bad"} => pc[p].f # {}
  /\ pc[p].at \in Piping => \A f \in pc[p].f : ftable[f].type # "INODE"
  /\ \A f \in pc[p].f : ftable[f].ref = 1
  /\ p \notin alive => pc[p].at = "user" /\ \A fd \in FD : ofile[p][fd] = None
PlaceInv == \A p \in Proc : Placed(p)

\* A free entry of the file table is clean, and an inode's file has the inode.
FileInv == \A f \in File : /\ ftable[f].ref = 0 => ftable[f].type = "NONE"
                           /\ ftable[f].type = "INODE" => ftable[f].ip \in Slot

\* A call that uses an inode through a descriptor has that descriptor open.
UseInv == \A p \in Proc :
  pc[p].at \in {"ilock", "ready"} /\ pc[p].op = "use" =>
    \E fd \in FD : /\ ofile[p][fd] \in File /\ ftable[ofile[p][fd]].type = "INODE"
                   /\ ftable[ofile[p][fd]].ip = pc[p].ip

\* Who has which lock, and what the lock protects: the copy of the inode is
\* valid, and one about to be freed has no name and no second reference.
HasLock(p) == pc[p].at \in {"ready", "fd", "free"}
HasDir(p) == \/ pc[p].at = "iget"
             \/ pc[p].at \in {"ilock", "ready"} /\ pc[p].op \in {"unlink", "create"}
LocksInv == /\ \A s \in Slot, p \in Proc : lock[s] = p <=> HasLock(p) /\ pc[p].ip = s
            /\ \A p \in Proc : HasDir(p) => dirlock = p
            /\ \A p \in Proc : HasLock(p) => icache[pc[p].ip].valid
            /\ \A p \in Proc : pc[p].at = "free" => /\ icache[pc[p].ip].nlink = 0
                                                   /\ icache[pc[p].ip].ref = 1

\* An inode has one link if it has a name, and none otherwise; the inode an
\* unlink is about has one, the inode a create is about has none yet.
NameInv == /\ \A i \in Inum : /\ dinode[i].nlink = IF i \in named THEN 1 ELSE 0
                              /\ i \in named => dinode[i].used
           /\ \A p \in Proc : pc[p].at \in {"ilock", "ready"} =>
                /\ pc[p].op = "unlink" => icache[pc[p].ip].inum \in named
                /\ pc[p].op = "create" => icache[pc[p].ip].inum \notin named

\* An entry that somebody may still lock is that of an allocated inode.  What
\* ialloc finds free may still have an entry, which is only waiting to be put.
Live(s) == Pointing(s) # {} \/ \E p \in Borrowers(s) : pc[p].at # "deref"
LiveInv == /\ \A s \in Slot : icache[s].ref > 0 => icache[s].inum \in Inum
           /\ \A s \in Slot : Live(s) => dinode[icache[s].inum].used
           /\ \A p \in Proc : pc[p].at = "iget" =>
                /\ pc[p].ip \in Inum /\ dinode[pc[p].ip].used /\ pc[p].ip \notin named
                /\ \A s \in Entry(pc[p].ip) : ~icache[s].valid /\ ~Live(s)

IInv == /\ RefsExact /\ PlaceInv /\ FileInv /\ UseInv /\ LocksInv /\ NameInv /\ LiveInv
        /\ panicked # "ilock"

=============================================================================
