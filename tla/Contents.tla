------------------------------ MODULE Contents ------------------------------
(***************************************************************************)
(* What files hold: fs.c's block allocator, bmap, itrunc, readi, writei,   *)
(* and file.c's read and write on top of them.  Writers of several files   *)
(* share the bitmap; writers of one file take turns at its inode lock,     *)
(* once per chunk of a write.  What a transaction adds is in Log.          *)
(***************************************************************************)
EXTENDS Integers, Sequences, FiniteSets, FiniteSetsExt

CONSTANTS Proc, Ino, None,
          File, Opens,     \* open files, the inodes they may be opened on
          NBlock,          \* data blocks of the disk
          BSIZE,           \* bytes, and block numbers, in a block
          NDIRECT, Chunk,  \* direct blocks; bytes of one round of filewrite
          WORD,            \* 2^w of an unsigned int
          ReadLength, WriteLength  \* lengths asked for

Block == 1..NBlock
NINDIRECT == BSIZE
MAXFILE == NDIRECT + NINDIRECT
Zero == [k \in 0..BSIZE - 1 |-> 0]
Stale == [k \in 0..BSIZE - 1 |-> 1]   \* what a free block holds, its old content or other

VARIABLES bitmap,    \* blocks marked in use
          data,      \* content of each block: bytes, or block numbers
          inode,     \* size and addrs[NDIRECT+1]
          lock,      \* holder of each inode's lock
          file,      \* open files: inode and offset
          pc,        \* what a process is doing
          written,   \* history: what has been written to each file, as bytes
          panicked

vars == <<bitmap, data, inode, lock, file, pc, written, panicked>>

Idle == [at |-> "user", f |-> None, src |-> <<>>, done |-> 0, n1 |-> 0, tot |-> 0]
Empty == [size |-> 0, addrs |-> [n \in 0..NDIRECT |-> 0]]
Closed == [ip |-> None, off |-> 0]
Min2(a, b) == IF a < b THEN a ELSE b

TypeOK == /\ bitmap \subseteq Block
          /\ \A i \in Ino : inode[i].size \in 0..MAXFILE * BSIZE /\ inode[i].addrs \in [0..NDIRECT -> {0} \cup Block]
          /\ lock \in [Ino -> Proc \cup {None}]
          /\ file \in [File -> [ip : Ino \cup {None}, off : 0..MAXFILE * BSIZE]]

Init == /\ bitmap = {}
        /\ data = [b \in Block |-> Stale]
        /\ inode = [i \in Ino |-> Empty]
        /\ lock = [i \in Ino |-> None]
        /\ file = [f \in File |-> Closed]
        /\ pc = [p \in Proc |-> Idle]
        /\ written = [i \in Ino |-> <<>>]
        /\ panicked = FALSE

User(p) == ~panicked /\ pc[p] = Idle
-----------------------------------------------------------------------------
\* The disk as balloc, bzero, bmap and bfree see it.
Disk == [bitmap |-> bitmap, data |-> data]
Full(d) == d.bitmap = Block

\* balloc takes the first free bit and zeroes the block.
balloc(d) == LET b == Min(Block \ d.bitmap)
             IN [b |-> b, d |-> [bitmap |-> d.bitmap \cup {b}, data |-> [d.data EXCEPT ![b] = Zero]]]

\* bmap: block bn of the file, allocated if there is none; full when balloc
\* finds no block, and panics.
Entry(b, ip, d, full) == [b |-> b, d |-> d, ip |-> ip, full |-> full]
BmapDirect(d, ip, n) ==
  CASE ip.addrs[n] # 0 -> Entry(ip.addrs[n], ip, d, FALSE)
    [] ip.addrs[n] = 0 /\ Full(d) -> Entry(0, ip, d, TRUE)
    [] OTHER -> LET r == balloc(d) IN Entry(r.b, [ip EXCEPT !.addrs[n] = r.b], r.d, FALSE)
bmap(d, ip, bn) ==
  IF bn < NDIRECT THEN BmapDirect(d, ip, bn)
  ELSE LET ind == BmapDirect(d, ip, NDIRECT)
           k == bn - NDIRECT
           r == balloc(ind.d)
       IN CASE ind.full -> ind
            [] ~ind.full /\ ind.d.data[ind.b][k] # 0 -> Entry(ind.d.data[ind.b][k], ind.ip, ind.d, FALSE)
            [] ~ind.full /\ ind.d.data[ind.b][k] = 0 /\ Full(ind.d) -> Entry(0, ind.ip, ind.d, TRUE)
            [] OTHER -> Entry(r.b, ind.ip, [r.d EXCEPT !.data[ind.b][k] = r.b], FALSE)

\* The blocks an inode names.
Indirect(ip) == IF ip.addrs[NDIRECT] = 0 THEN {}
                ELSE {data[ip.addrs[NDIRECT]][k] : k \in 0..NINDIRECT - 1} \ {0}
BlocksOf(ip) == ({ip.addrs[n] : n \in 0..NDIRECT} \ {0}) \cup Indirect(ip)

\* Mutant: the indirect block is freed, those it names are not.
ItruncShallow(ip) == [freed |-> {ip.addrs[n] : n \in 0..NDIRECT} \ {0}, ip |-> Empty]

itrunc(ip) == [freed |-> BlocksOf(ip), ip |-> Empty]
-----------------------------------------------------------------------------
\* readi: -1, or the bytes from off on.
Failed == [n |-> -1, bytes |-> <<>>]
Result(bytes) == [n |-> Len(bytes), bytes |-> bytes]
readi(i, off, n) ==
  LET end == Min2((off + n) % WORD, inode[i].size)
      byte(k) == data[bmap(Disk, inode[i], k \div BSIZE).b][k % BSIZE]
  IN IF off > inode[i].size \/ (off + n) % WORD < off THEN Failed
     ELSE Result([k \in 1..end - off |-> byte(off + k - 1)])

\* open and close: the last close of a file without a name discards its contents.
open(f, i) == /\ ~panicked /\ file[f] = Closed
              /\ file' = [file EXCEPT ![f].ip = i]
              /\ UNCHANGED <<bitmap, data, inode, lock, pc, written, panicked>>

Closable(f) == ~panicked /\ file[f].ip # None /\ \A p \in Proc : pc[p].f # f
close(f, unlinked) == LET i == file[f].ip IN
  /\ Closable(f)
  /\ file' = [file EXCEPT ![f] = Closed]
  /\ IF unlinked /\ \A g \in File \ {f} : file[g].ip # i
     THEN /\ inode' = [inode EXCEPT ![i] = itrunc(inode[i]).ip]
          /\ bitmap' = bitmap \ itrunc(inode[i]).freed
          /\ data' = [b \in Block |-> IF b \in itrunc(inode[i]).freed THEN Stale ELSE data[b]]
          /\ panicked' = ~(itrunc(inode[i]).freed \subseteq bitmap)
          /\ written' = [written EXCEPT ![i] = <<>>]
     ELSE UNCHANGED <<inode, bitmap, data, panicked, written>>
  /\ UNCHANGED <<lock, pc>>

fileread(p, f, n) == LET i == file[f].ip
                         r == readi(i, file[f].off, n) IN
  /\ User(p) /\ i # None /\ lock[i] = None
  /\ file' = [file EXCEPT ![f].off = IF r.n > 0 THEN @ + r.n ELSE @]
  /\ UNCHANGED <<bitmap, data, inode, lock, pc, written, panicked>>
-----------------------------------------------------------------------------
\* filewrite: round by round, each under the inode's lock.
Source(p, n) == [k \in 1..n |-> p]

filewrite(p, f, n) ==
  /\ User(p) /\ file[f].ip # None
  /\ pc' = [pc EXCEPT ![p] = [Idle EXCEPT !.at = "round", !.f = f, !.src = Source(p, n)]]
  /\ UNCHANGED <<bitmap, data, inode, lock, file, written, panicked>>

\* A round: ilock and the checks of writei, which end the call when they fail.
round(p) == LET me == pc[p]
                i == file[me.f].ip
                n1 == Min2(Len(me.src) - me.done, Chunk)
                off == file[me.f].off IN
  /\ ~panicked /\ me.at = "round" /\ lock[i] = None
  /\ IF off > inode[i].size \/ off + n1 > MAXFILE * BSIZE \/ n1 = 0
     THEN pc' = [pc EXCEPT ![p] = Idle] /\ UNCHANGED lock
     ELSE /\ lock' = [lock EXCEPT ![i] = p]
          /\ pc' = [pc EXCEPT ![p].at = "writei", ![p].n1 = n1, ![p].tot = 0]
  /\ UNCHANGED <<bitmap, data, inode, file, written, panicked>>

\* One turn of writei's loop: the bytes that go to one block.
writei(p) == LET me == pc[p]
                 i == file[me.f].ip
                 off == file[me.f].off + me.tot
                 m == Min2(me.n1 - me.tot, BSIZE - (off % BSIZE))
                 r == bmap(Disk, inode[i], off \div BSIZE)
                 new == [k \in 0..BSIZE - 1 |->
                           IF k \in (off % BSIZE)..(off % BSIZE) + m - 1
                           THEN me.src[me.done + me.tot + k - (off % BSIZE) + 1]
                           ELSE r.d.data[r.b][k]] IN
  /\ ~panicked /\ me.at = "writei" /\ me.tot < me.n1
  /\ bitmap' = r.d.bitmap
  /\ inode' = [inode EXCEPT ![i] = r.ip]
  /\ panicked' = r.full
  /\ data' = IF r.full THEN r.d.data ELSE [r.d.data EXCEPT ![r.b] = new]
  /\ pc' = [pc EXCEPT ![p].tot = @ + m]
  /\ UNCHANGED <<lock, file, written>>

\* The file as bytes once src has been put at off.
Overwrite(bytes, off, src) ==
  SubSeq(bytes, 1, off) \o src \o SubSeq(bytes, off + Len(src) + 1, Len(bytes))

writeiDone(p) == LET me == pc[p]
                     i == file[me.f].ip
                     off == file[me.f].off IN
  /\ ~panicked /\ me.at = "writei" /\ me.tot = me.n1
  /\ inode' = [inode EXCEPT ![i].size = IF off + me.n1 > @ THEN off + me.n1 ELSE @]
  /\ file' = [file EXCEPT ![me.f].off = off + me.n1]
  /\ lock' = [lock EXCEPT ![i] = None]
  /\ written' = [written EXCEPT ![i] = Overwrite(@, off, SubSeq(me.src, me.done + 1, me.done + me.n1))]
  /\ pc' = [pc EXCEPT ![p].at = "round", ![p].done = @ + me.n1]
  /\ UNCHANGED <<bitmap, data, panicked>>

Next == \/ \E f \in File : \E i \in Opens[f] : open(f, i)
        \/ \E f \in File, u \in BOOLEAN : close(f, u)
        \/ \E p \in Proc, f \in File, n \in ReadLength : fileread(p, f, n)
        \/ \E p \in Proc, f \in File, n \in WriteLength : filewrite(p, f, n)
        \/ \E p \in Proc : round(p) \/ writei(p) \/ writeiDone(p)

Spec == Init /\ [][Next]_vars
-----------------------------------------------------------------------------
\* A file reads back as what was written to it, byte for byte, at every offset
\* and length, a length that wraps the addition included: another writer never
\* gets a block of it, and a reused block shows nothing of its earlier file.
ReadsWhatWasWritten == ~panicked => \A i \in Ino : lock[i] = None =>
  \A off \in 0..MAXFILE * BSIZE + 1, n \in 0..WORD - 1 :
    readi(i, off, n) = IF off > Len(written[i]) \/ off + n >= WORD THEN Failed
                       ELSE Result(SubSeq(written[i], off + 1, Min2(off + n, Len(written[i]))))

\* The bitmap marks exactly the blocks files name, and no block is named twice.
\* So itrunc never frees a free block.  A panic for want of a block may leave a
\* fresh indirect block.
BlocksAccounted == /\ UNION {BlocksOf(inode[i]) : i \in Ino} = bitmap
                   /\ \A i, j \in Ino : i # j => BlocksOf(inode[i]) \cap BlocksOf(inode[j]) = {}
                   /\ \A i \in Ino : Cardinality(BlocksOf(inode[i])) =
                        Cardinality({n \in 0..NDIRECT : inode[i].addrs[n] # 0})
                          + IF inode[i].addrs[NDIRECT] = 0 THEN 0
                            ELSE Cardinality({k \in 0..NINDIRECT - 1 : data[inode[i].addrs[NDIRECT]][k] # 0})

\* An open file's offset never passes the end of the file, whoever shares the
\* file and whatever order their rounds take, so that the first check of readi
\* and of writei never fails.
OffsetWithinFile == \A f \in File : file[f].ip # None => file[f].off <= inode[file[f].ip].size
=============================================================================
