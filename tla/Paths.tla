-------------------------------- MODULE Paths -------------------------------
(***************************************************************************)
(* Path names taken apart (skipelem) and looked up in the entries of one   *)
(* directory (namecmp, dirlookup, dirlink, the erasure in sys_unlink).  A  *)
(* path is a sequence of characters, "/" among them; a name field has      *)
(* DIRSIZ characters and ends at its first "0", if it has one.             *)
(***************************************************************************)
EXTENDS Integers, FiniteSets, Sequences, SequencesExt

CONSTANTS DIRSIZ,
          Char,    \* the characters of names
          MaxPath, \* paths tried have at most so many characters
          MaxOps   \* calls tried on a directory

NotFound == [found |-> FALSE]
RECURSIVE skipslash(_)
skipslash(path) == IF path # <<>> /\ Head(path) = "/" THEN skipslash(Tail(path)) ELSE path

\* Where the first slash or the end is.
ElementLen(path) == CHOOSE k \in 0..Len(path) :
  (k = Len(path) \/ path[k + 1] = "/") /\ \A j \in 1..k : path[j] # "/"

\* name is the buffer of the caller, whose old contents stay behind the "0".
skipelem(path, name) ==
  LET p == skipslash(path)
      len == ElementLen(p)
      field == IF len >= DIRSIZ THEN SubSeq(p, 1, DIRSIZ)
               ELSE SubSeq(p, 1, len) \o <<"0">> \o SubSeq(name, len + 2, DIRSIZ)
  IN IF p = <<>> THEN NotFound
     ELSE [found |-> TRUE, name |-> field, path |-> skipslash(SubSeq(p, len + 1, Len(p)))]

\* The string in a name field, and what strncpy makes of it in an entry.
Str(field) == SubSeq(field, 1, CHOOSE k \in 0..Len(field) :
                (k = Len(field) \/ field[k + 1] = "0") /\ \A j \in 1..k : field[j] # "0")
Padded(field) == Str(field) \o [k \in 1..DIRSIZ - Len(Str(field)) |-> "0"]
namecmp(s, t) == Str(s) = Str(t)

\* The entries that match; dirlookup returns the first.
Matches(de, name) == {k \in DOMAIN de : de[k].inum # 0 /\ namecmp(name, de[k].name)}
dirlookup(de, name) ==
  IF Matches(de, name) = {} THEN 0
  ELSE CHOOSE k \in Matches(de, name) : \A j \in Matches(de, name) : k <= j

\* Mutant: an erased entry is never used again.
DirlinkAppends(de, name, inum) ==
  IF dirlookup(de, name) # 0 THEN de ELSE Append(de, [inum |-> inum, name |-> Padded(name)])

dirlink(de, name, inum) ==
  LET free == {k \in DOMAIN de : de[k].inum = 0}
      off == IF free = {} THEN Len(de) + 1 ELSE CHOOSE k \in free : \A j \in free : k <= j
      entry == [inum |-> inum, name |-> Padded(name)]
  IN IF dirlookup(de, name) # 0 THEN de
     ELSE IF off > Len(de) THEN Append(de, entry) ELSE [de EXCEPT ![off] = entry]

\* The memset and writei of sys_unlink at the entry dirlookup found.
erase(de, name) == LET off == dirlookup(de, name)
                   IN IF off = 0 THEN de ELSE [de EXCEPT ![off] = [inum |-> 0, name |-> Padded(<<>>)]]
-----------------------------------------------------------------------------
RECURSIVE Walked(_, _), Elements(_)
\* The names namex looks up along a path.
Walked(path, name) == LET r == skipelem(path, name)
                      IN IF r.found THEN <<Str(r.name)>> \o Walked(r.path, r.name) ELSE <<>>

Cut(s) == SubSeq(s, 1, IF Len(s) < DIRSIZ THEN Len(s) ELSE DIRSIZ)
Elements(path) == IF path = <<>> THEN <<>>
                  ELSE IF Head(path) = "/" THEN Elements(Tail(path))
                  ELSE <<Cut(SubSeq(path, 1, ElementLen(path)))>> \o Elements(SubSeq(path, ElementLen(path) + 1, Len(path)))

\* A walk looks up the elements between the slashes, each cut to DIRSIZ
\* characters, whatever the name buffer held before; a full name has no 0.
PathsTakenApart == \A path \in SeqOf(Char \cup {"/"}, MaxPath) :
  Walked(path, [k \in 1..DIRSIZ |-> "x"]) = Elements(path)

Name == {SubSeq(s \o <<"0", "x", "x">>, 1, DIRSIZ) : s \in SeqOf(Char, DIRSIZ)} \ {SubSeq(<<"0", "x", "x">>, 1, DIRSIZ)}

RECURSIVE Apply(_, _, _, _)
\* The directory after the calls, the names it then should hold, and the most
\* it held at any time.
Apply(ops, de, model, peak) ==
  LET n == Str(Head(ops).name)
      linked == IF n \in DOMAIN model THEN model
                ELSE [s \in DOMAIN model \cup {n} |-> IF s = n THEN Len(ops) ELSE model[s]]
  IN IF ops = <<>> THEN [de |-> de, model |-> model, peak |-> peak]
     ELSE IF Head(ops).op = "link"
     THEN Apply(Tail(ops), dirlink(de, Head(ops).name, Len(ops)), linked, IF Cardinality(DOMAIN linked) > peak THEN peak + 1 ELSE peak)
     ELSE Apply(Tail(ops), erase(de, Head(ops).name), [s \in DOMAIN model \ {n} |-> model[s]], peak)

\* After any calls, a directory is a map: each name is in one entry, with the
\* inode it was last linked to.  Erased entries are used again, so that it has
\* no more entries than names it held at one time.
DirectoryIsMap == \A ops \in SeqOf([op : {"link", "unlink"}, name : Name], MaxOps) :
  LET r == Apply(ops, <<>>, [s \in {} |-> 0], 0)
  IN /\ \A n \in Name : LET off == dirlookup(r.de, n)
                        IN IF Str(n) \in DOMAIN r.model THEN off # 0 /\ r.de[off].inum = r.model[Str(n)] ELSE off = 0
     /\ \A n \in Name : Cardinality(Matches(r.de, n)) <= 1
     /\ Len(r.de) = r.peak
=============================================================================
