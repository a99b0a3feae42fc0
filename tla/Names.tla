------------------------------- MODULE Names --------------------------------
(***************************************************************************)
(* Directories and path names: namex and dirlink of fs.c, and the calls    *)
(* link, unlink, open with O_CREATE, mkdir, mknod and chdir of sysfile.c.  *)
(* Every wait for an inode's lock is a step; what a process does to inodes *)
(* it has locked is part of the step that locked the last of them.  An     *)
(* inode stands for its cache entry, as Files justifies, and iput is one   *)
(* step once it has the lock.                                              *)
(*                                                                         *)
(* A process in a call has puts, the inodes it has yet to iput before it   *)
(* goes on at pc.at.                                                       *)
(***************************************************************************)
EXTENDS Naturals, Sequences, FiniteSets

CONSTANTS Proc,
          NInum,      \* sb.ninodes: inodes are 1..NInum
          Name,       \* names other than . and ..
          Call,       \* the calls processes make: [op, path, new], see below
          MaxLink,    \* bound on nlink, which leaked links can raise for ever
          None

Inum == 1..NInum
ROOTINO == 1
Entry == Name \cup {".", ".."}
Path == [abs : BOOLEAN, elems : Seq(Entry)]
Ops == {"link", "unlink", "chdir", "FILE", "DIR", "DEV"}

ASSUME NamesAssumption == /\ NInum \in Nat \ {0} /\ MaxLink \in Nat
                          /\ IsFiniteSet(Proc) /\ None \notin Proc
                          /\ None \notin {"ilock", "unlink", "ialloc"}
                          /\ IsFiniteSet(Name) /\ Name \cap {".", ".."} = {}
                          /\ Call \subseteq [op : Ops, path : Path, new : Path]

\* A path is whether it starts at the root and its elements.  Call.op is
\* "link" (path and new), "unlink", "chdir", or for create the type: "FILE"
\* (open with O_CREATE), "DIR" (mkdir), "DEV" (mknod).
VARIABLES type, nlink,  \* inodes
          dir,          \* the entries of a directory: name -> inode, 0 if none
          ref,          \* ip->ref: calls in progress and current directories
          lock,         \* ip->lock: its holder, or None
          cwd,          \* the current directory of a process
          pc,           \* a process in a call
          panicked

vars == <<type, nlink, dir, ref, lock, cwd, pc, panicked>>

NoEntries == [n \in Entry |-> 0]
User == [at |-> "user", call |-> None, cur |-> 0, path |-> <<>>, ip |-> 0, puts |-> <<>>]

TypeOK == /\ type \in [Inum -> {"free", "FILE", "DIR", "DEV"}]
          /\ nlink \in [Inum -> Nat] /\ ref \in [Inum -> Nat]
          /\ dir \in [Inum -> [Entry -> Inum \cup {0}]]
          /\ lock \in [Inum -> Proc \cup {None}]
          /\ cwd \in [Proc -> Inum]
          /\ panicked \in {None, "ilock", "unlink", "ialloc"}

\* mkfs makes the root directory, its own parent; every process starts there.
Init == /\ type = [i \in Inum |-> IF i = ROOTINO THEN "DIR" ELSE "free"]
        /\ nlink = [i \in Inum |-> IF i = ROOTINO THEN 1 ELSE 0]
        /\ dir = [i \in Inum |-> IF i = ROOTINO THEN [NoEntries EXCEPT !["."] = i, ![".."] = i]
                                 ELSE NoEntries]
        /\ ref = [i \in Inum |-> IF i = ROOTINO THEN Cardinality(Proc) ELSE 0]
        /\ lock = [i \in Inum |-> None]
        /\ cwd = [p \in Proc |-> ROOTINO]
        /\ pc = [p \in Proc |-> User]
        /\ panicked = None

At(p, l) == panicked = None /\ pc[p].at = l /\ pc[p].puts = <<>>
Goto(p, l, puts) == pc' = [pc EXCEPT ![p] = [pc[p] EXCEPT !.at = l, !.puts = puts]]
Return(p, puts) == pc' = [pc EXCEPT ![p] = [User EXCEPT !.puts = puts]]
Unlocked(i) == lock[i] = None
\* ilock of an inode that the disk says is free.
NoType(i) == type[i] = "free"
Panic(what) == /\ panicked' = what
               /\ UNCHANGED <<type, nlink, dir, ref, lock, cwd, pc>>
-----------------------------------------------------------------------------
\* iput: an inode without links goes with its last reference, entries and all.
iput(p) == LET i == Head(pc[p].puts)
               last == ref[i] = 1 /\ nlink[i] = 0 IN
  /\ panicked = None /\ pc[p].puts # <<>>
  /\ Unlocked(i)
  /\ ref' = [ref EXCEPT ![i] = @ - 1]
  /\ type' = IF last THEN [type EXCEPT ![i] = "free"] ELSE type
  /\ dir' = IF last THEN [dir EXCEPT ![i] = NoEntries] ELSE dir
  /\ pc' = [pc EXCEPT ![p] = [pc[p] EXCEPT !.puts = Tail(pc[p].puts)]]
  /\ UNCHANGED <<nlink, lock, cwd, panicked>>

\* namex starts at the root or at the current directory (idup).
Walk(p, call, path, at, ip) == LET start == IF path.abs THEN ROOTINO ELSE cwd[p] IN
  /\ ref' = [ref EXCEPT ![start] = @ + 1]
  /\ pc' = [pc EXCEPT ![p] = [at |-> at, call |-> call, cur |-> start, path |-> path.elems,
                              ip |-> ip, puts |-> <<>>]]

\* nameiparent stops one element early.
Parent(p) == pc[p].at = "walkParent"
Arrived(p) == Len(pc[p].path) = IF Parent(p) THEN 1 ELSE 0

Failed(p, puts) == IF pc[p].call.op = "link" /\ Parent(p) THEN Goto(p, "linkBad", puts)
                                                         ELSE Return(p, puts)

\* One round of namex's loop: lock the directory, look the element up.  The
\* reference to the next inode is taken before the lock is given up.
namex(p) == LET i == pc[p].cur IN
  /\ At(p, "walk") \/ At(p, "walkParent")
  /\ pc[p].path # <<>>
  /\ Unlocked(i)
  /\ IF NoType(i) THEN Panic("ilock")
     ELSE /\ IF type[i] # "DIR" THEN Failed(p, <<i>>) /\ UNCHANGED ref
             ELSE IF Arrived(p) THEN Goto(p, "arrived", <<>>) /\ UNCHANGED ref
             ELSE LET next == dir[i][Head(pc[p].path)] IN
                  IF next = 0 THEN Failed(p, <<i>>) /\ UNCHANGED ref
                  ELSE /\ ref' = [ref EXCEPT ![next] = @ + 1]
                       /\ pc' = [pc EXCEPT ![p] = [pc[p] EXCEPT !.cur = next, !.path = Tail(pc[p].path),
                                                             !.puts = <<i>>]]
          /\ UNCHANGED <<type, nlink, dir, lock, cwd, panicked>>

\* The path is used up: namei has its inode, nameiparent of / fails.
namexEnd(p) == /\ At(p, "walk") \/ At(p, "walkParent")
               /\ pc[p].path = <<>>
               /\ IF Parent(p) THEN Failed(p, <<pc[p].cur>>) ELSE Goto(p, "arrived", <<>>)
               /\ UNCHANGED <<type, nlink, dir, ref, lock, cwd, panicked>>

Begin(p, c) == /\ At(p, "user")
               /\ Walk(p, c, c.path, IF c.op \in {"link", "chdir"} THEN "walk" ELSE "walkParent", 0)
               /\ UNCHANGED <<type, nlink, dir, lock, cwd, panicked>>

\* The call has what namei or nameiparent returned in cur; elem is the name.
Op(p, S) == At(p, "arrived") /\ pc[p].call.op \in S
elem(p) == Head(pc[p].path)
-----------------------------------------------------------------------------
sys_chdir(p) == LET i == pc[p].cur IN
  /\ Op(p, {"chdir"}) /\ Unlocked(i)
  /\ IF NoType(i) THEN Panic("ilock")
     ELSE /\ IF type[i] # "DIR" THEN Return(p, <<i>>) /\ UNCHANGED cwd
             ELSE Return(p, <<cwd[p]>>) /\ cwd' = [cwd EXCEPT ![p] = i]
          /\ UNCHANGED <<type, nlink, dir, ref, lock, panicked>>

\* link counts the new name first, then looks for the directory to put it in.
\* Mutant: the name is stored without being counted.
LinkUncounted(p) == LET i == pc[p].cur IN
  /\ Op(p, {"link"}) /\ pc[p].ip = 0 /\ Unlocked(i) /\ ~NoType(i) /\ type[i] # "DIR"
  /\ Walk(p, pc[p].call, pc[p].call.new, "walkParent", i)
  /\ UNCHANGED <<type, nlink, dir, lock, cwd, panicked>>

\* Mutant: a directory may be linked.
LinkAnything(p) == LET i == pc[p].cur IN
  /\ Op(p, {"link"}) /\ pc[p].ip = 0 /\ Unlocked(i) /\ ~NoType(i) /\ nlink[i] < MaxLink
  /\ nlink' = [nlink EXCEPT ![i] = @ + 1]
  /\ Walk(p, pc[p].call, pc[p].call.new, "walkParent", i)
  /\ UNCHANGED <<type, dir, lock, cwd, panicked>>

sys_link(p) == LET i == pc[p].cur IN
  /\ Op(p, {"link"}) /\ pc[p].ip = 0 /\ Unlocked(i) /\ nlink[i] < MaxLink
  /\ IF NoType(i) THEN Panic("ilock")
     ELSE /\ IF type[i] = "DIR" THEN Return(p, <<i>>) /\ UNCHANGED <<nlink, ref>>
             ELSE /\ nlink' = [nlink EXCEPT ![i] = @ + 1]
                  /\ Walk(p, pc[p].call, pc[p].call.new, "walkParent", i)
          /\ UNCHANGED <<type, dir, lock, cwd, panicked>>

\* dirlink: a name that is taken is looked up and put while the directory is
\* locked, so the lock of what it names is waited for.
dirlink(p) == LET d == pc[p].cur
                  found == dir[d][elem(p)] IN
  /\ Op(p, {"link"}) /\ pc[p].ip # 0 /\ Unlocked(d)
  /\ IF NoType(d) THEN Panic("ilock")
     ELSE /\ IF found # 0
             THEN /\ ref' = [ref EXCEPT ![found] = @ + 1]
                  /\ lock' = [lock EXCEPT ![d] = p]
                  /\ Goto(p, "linkTaken", <<found>>)
                  /\ UNCHANGED dir
             ELSE /\ dir' = [dir EXCEPT ![d][elem(p)] = pc[p].ip]
                  /\ Return(p, <<d, pc[p].ip>>)
                  /\ UNCHANGED <<ref, lock>>
          /\ UNCHANGED <<type, nlink, cwd, panicked>>

linkTaken(p) == /\ At(p, "linkTaken")
                /\ lock' = [lock EXCEPT ![pc[p].cur] = None]
                /\ Goto(p, "linkBad", <<pc[p].cur>>)
                /\ UNCHANGED <<type, nlink, dir, ref, cwd, panicked>>

\* Mutant: the inode is unlocked and not put.
LinkBadKeeps(p) == /\ At(p, "linkBad") /\ Unlocked(pc[p].ip)
                   /\ nlink' = [nlink EXCEPT ![pc[p].ip] = @ - 1]
                   /\ Return(p, <<>>)
                   /\ UNCHANGED <<type, dir, ref, lock, cwd, panicked>>

linkBad(p) == /\ At(p, "linkBad") /\ Unlocked(pc[p].ip)
              /\ nlink' = [nlink EXCEPT ![pc[p].ip] = @ - 1]
              /\ Return(p, <<pc[p].ip>>)
              /\ UNCHANGED <<type, dir, ref, lock, cwd, panicked>>
-----------------------------------------------------------------------------

\* Mutant: . and .. may be unlinked.
UnlinkDots(p) == LET d == pc[p].cur
                     i == dir[d][elem(p)] IN
  /\ Op(p, {"unlink"}) /\ Unlocked(d) /\ ~NoType(d) /\ i # 0
  /\ ref' = [ref EXCEPT ![i] = @ + 1]
  /\ lock' = [lock EXCEPT ![d] = p]
  /\ pc' = [pc EXCEPT ![p] = [pc[p] EXCEPT !.at = "unlink", !.ip = i]]
  /\ UNCHANGED <<type, nlink, dir, cwd, panicked>>

\* unlink: lock the directory, find the entry, keep the lock.
sys_unlink(p) == LET d == pc[p].cur
                     i == dir[d][elem(p)] IN
  /\ Op(p, {"unlink"}) /\ Unlocked(d)
  /\ IF NoType(d) THEN Panic("ilock")
     ELSE /\ IF elem(p) \in {".", ".."} \/ i = 0
             THEN Return(p, <<d>>) /\ UNCHANGED <<ref, lock>>
             ELSE /\ ref' = [ref EXCEPT ![i] = @ + 1]
                  /\ lock' = [lock EXCEPT ![d] = p]
                  /\ pc' = [pc EXCEPT ![p] = [pc[p] EXCEPT !.at = "unlink", !.ip = i]]
          /\ UNCHANGED <<type, nlink, dir, cwd, panicked>>

isdirempty(i) == \A n \in Name : dir[i][n] = 0

\* Lock the inode as well.  The directory is put with the inode still locked.
unlinkEntry(p) == LET d == pc[p].cur
                      i == pc[p].ip IN
  /\ At(p, "unlink") /\ Unlocked(i)
  /\ IF NoType(i) THEN Panic("ilock")
     ELSE IF nlink[i] < 1 THEN Panic("unlink")
     ELSE /\ IF type[i] = "DIR" /\ ~isdirempty(i)
             THEN /\ Goto(p, "unlinkBad", <<i>>)
                  /\ UNCHANGED <<dir, nlink, lock>>
             ELSE /\ dir' = [dir EXCEPT ![d][elem(p)] = 0]
                  /\ nlink' = IF type[i] = "DIR" THEN [nlink EXCEPT ![d] = @ - 1] ELSE nlink
                  /\ lock' = [lock EXCEPT ![d] = None, ![i] = p]
                  /\ Goto(p, "unlinked", <<d>>)
          /\ UNCHANGED <<type, ref, cwd, panicked>>

unlinkBad(p) == /\ At(p, "unlinkBad")
                /\ lock' = [lock EXCEPT ![pc[p].cur] = None]
                /\ Return(p, <<pc[p].cur>>)
                /\ UNCHANGED <<type, nlink, dir, ref, cwd, panicked>>

unlinked(p) == /\ At(p, "unlinked")
               /\ nlink' = [nlink EXCEPT ![pc[p].ip] = @ - 1]
               /\ lock' = [lock EXCEPT ![pc[p].ip] = None]
               /\ Return(p, <<pc[p].ip>>)
               /\ UNCHANGED <<type, dir, ref, cwd, panicked>>
-----------------------------------------------------------------------------
\* create: an existing file is opened, a new inode is linked into the
\* directory; the directory is put with the new inode locked.
Free == {i \in Inum : type[i] = "free"}

create(p) == LET d == pc[p].cur
                 t == pc[p].call.op
                 found == dir[d][elem(p)]
                 new == CHOOSE i \in Free : \A j \in Free : i <= j IN
  /\ Op(p, {"FILE", "DIR", "DEV"}) /\ Unlocked(d)
  /\ IF NoType(d) THEN Panic("ilock")
     ELSE IF found = 0 /\ Free = {} THEN Panic("ialloc")
     ELSE /\ IF found # 0
             THEN /\ ref' = [ref EXCEPT ![found] = @ + 1]
                  /\ pc' = [pc EXCEPT ![p] = [pc[p] EXCEPT !.at = "exists", !.ip = found, !.puts = <<d>>]]
                  /\ UNCHANGED <<type, nlink, dir, lock>>
             ELSE /\ Unlocked(new)
                  /\ type' = [type EXCEPT ![new] = t]
                  /\ ref' = [ref EXCEPT ![new] = @ + 1]
                  /\ nlink' = [i \in Inum |-> IF i = new THEN 1
                                              ELSE nlink[i] + IF i = d /\ t = "DIR" THEN 1 ELSE 0]
                  /\ dir' = [dir EXCEPT ![d][elem(p)] = new,
                                        ![new] = IF t = "DIR" THEN [NoEntries EXCEPT !["."] = new, ![".."] = d]
                                                 ELSE NoEntries]
                  /\ lock' = [lock EXCEPT ![new] = p]
                  /\ pc' = [pc EXCEPT ![p] = [pc[p] EXCEPT !.at = "created", !.ip = new, !.puts = <<d>>]]
          /\ UNCHANGED <<cwd, panicked>>

created(p) == /\ At(p, "created")
              /\ lock' = [lock EXCEPT ![pc[p].ip] = None]
              /\ Return(p, <<pc[p].ip>>)
              /\ UNCHANGED <<type, nlink, dir, ref, cwd, panicked>>

exists(p) == /\ At(p, "exists") /\ Unlocked(pc[p].ip)
             /\ IF NoType(pc[p].ip) THEN Panic("ilock")
                ELSE /\ Return(p, <<pc[p].ip>>)
                     /\ UNCHANGED <<type, nlink, dir, ref, lock, cwd, panicked>>

Next == \E p \in Proc :
  \/ \E c \in Call : Begin(p, c)
  \/ iput(p) \/ namex(p) \/ namexEnd(p) \/ sys_chdir(p)
  \/ sys_link(p) \/ dirlink(p) \/ linkTaken(p) \/ linkBad(p)
  \/ sys_unlink(p) \/ unlinkEntry(p) \/ unlinkBad(p) \/ unlinked(p)
  \/ create(p) \/ created(p) \/ exists(p)

Spec == Init /\ [][Next]_vars
-----------------------------------------------------------------------------
\* The directories that the root leads to: the least set that has the root and
\* the directories with a name in a directory of it.  A directory that is
\* removed while it is somebody's current directory is not among them.
Closed(S) == /\ ROOTINO \in S
             /\ \A d \in S, e \in Name : dir[d][e] # 0 /\ type[dir[d][e]] = "DIR" => dir[d][e] \in S
Tree == {i \in Inum : \A S \in SUBSET Inum : Closed(S) => i \in S}

Naming(i) == {x \in Tree \X (Entry \ {"."}) : dir[x[1]][x[2]] = i}

\* No entry of the tree leads to an inode that is free, and no inode has fewer
\* links than the tree has names for it, so that iput can not free it early:
\* link counts before it stores, unlink clears before it counts.  unlink never
\* finds a name with no link behind it (its panic).
NamesCounted ==
  /\ TypeOK /\ panicked # "unlink"
  /\ \A i \in Inum : /\ Naming(i) # {} => type[i] # "free"
                     /\ nlink[i] >= Cardinality(Naming(i))

\* The directories form a tree: each one but the root has one name, in the
\* directory that its .. says, whatever links, unlinks and mkdirs overlap.
DirectoriesFormTree == \A i \in Tree \ {ROOTINO} :
  \E d \in Tree : /\ dir[i][".."] = d
                  /\ Cardinality({x \in Tree \X Name : dir[x[1]][x[2]] = i}) = 1
                  /\ \E n \in Name : dir[d][n] = i

\* What a process holds a reference to: its current directory, what its call
\* is at, and what it has yet to put.
Place == {"cwd", "cur", "ip", "put1", "put2"}
Ref(p, x) ==
  CASE x = "cwd" -> cwd[p]
    [] x = "cur" -> IF pc[p].at \in {"linkBad", "unlinked", "created", "exists"} THEN 0 ELSE pc[p].cur
    [] x = "ip" -> IF pc[p].at = "unlinkBad" THEN 0 ELSE pc[p].ip
    [] x = "put1" -> IF Len(pc[p].puts) >= 1 THEN pc[p].puts[1] ELSE 0
    [] x = "put2" -> IF Len(pc[p].puts) >= 2 THEN pc[p].puts[2] ELSE 0
Holders(i) == {x \in Proc \X Place : Ref(x[1], x[2]) = i}

\* Every reference to an inode is held by a current directory or by a call in
\* progress: namex, dirlink and the calls put what they get, on every path.
ReferencesHeld == /\ \A i \in Inum : ref[i] = Cardinality(Holders(i))
                  /\ \A p \in Proc : Len(pc[p].puts) <= 2

\* The lock a process waits for next.
Wants(p) == IF pc[p].puts # <<>> THEN Head(pc[p].puts)
            ELSE IF pc[p].at \in {"walk", "walkParent", "arrived"} THEN pc[p].cur
            ELSE IF pc[p].at \in {"linkBad", "unlink", "exists"} THEN pc[p].ip ELSE 0

\* Walks never wait for each other in a circle (the separation of iget from
\* ilock, the order parent before child, unlink's refusal of . and ..): where a
\* set of processes waits for itself, one of them is in iput, which takes the
\* lock of what it puts while the caller may hold another.
CirclesNeedIput == \A S \in (SUBSET Proc) \ {{}} :
  (\A p \in S : Wants(p) # 0 /\ lock[Wants(p)] \in S) => \E p \in S : pc[p].puts # <<>>
=============================================================================
