------------------------------- MODULE Umalloc ------------------------------
(***************************************************************************)
(* The allocator of user programs (umalloc.c): a circular list of free     *)
(* blocks in address order, of which freep is some member and base, below  *)
(* the heap, is one.  Addresses count units of sizeof(Header).  A program  *)
(* that also calls sbrk itself leaves gaps between the allocator's pieces. *)
(***************************************************************************)
EXTENDS Integers, FiniteSets, TLC

CONSTANTS HEAP,     \* the program's end before the first sbrk
          LIMIT,    \* sbrk fails past this address
          MINUNITS, \* 4096 in morecore
          Request   \* numbers of units asked for, the header included

VARIABLES ptr,    \* s.ptr of base and of the free blocks
          size,   \* s.size of these and of the blocks in use
          freep,  \* 0 before the first malloc
          brk

heapvars == <<ptr, size, freep, brk>>
base == 1
Free == DOMAIN ptr \ {base}
InUse == DOMAIN size \ DOMAIN ptr
Drop(f, S) == [a \in DOMAIN f \ S |-> f[a]]
Put(f, a, v) == [x \in DOMAIN f \cup {a} |-> IF x = a THEN v ELSE f[x]]

RECURSIVE Place(_, _, _), Find(_, _, _, _, _)
\* The loop of free: the member of the list that bp goes behind.
Place(nxt, p, bp) ==
  IF (bp > p /\ bp < nxt[p]) \/ (p >= nxt[p] /\ (bp > p \/ bp < nxt[p])) THEN p ELSE Place(nxt, nxt[p], bp)

\* Mutant: a block joined with the one above keeps pointing to it.
FreeJoinsShort(h, bp) ==
  LET p == Place(h.ptr, h.freep, bp)
      next == h.ptr[p]
      up == bp + h.size[bp] = next
      ptr1 == IF up THEN Drop(h.ptr, {next}) ELSE h.ptr
      size1 == IF up THEN Put(Drop(h.size, {next}), bp, h.size[bp] + h.size[next]) ELSE h.size
  IN IF p + h.size[p] = bp
     THEN [ptr |-> Put(ptr1, p, next), size |-> Put(Drop(size1, {bp}), p, h.size[p] + size1[bp]), freep |-> p]
     ELSE [ptr |-> Put(Put(ptr1, bp, next), p, bp), size |-> size1, freep |-> p]

\* The list and sizes h after free of the block at bp.
free(h, bp) ==
  LET p == Place(h.ptr, h.freep, bp)
      next == h.ptr[p]
      up == bp + h.size[bp] = next
      grown == IF up THEN h.size[bp] + h.size[next] ELSE h.size[bp]
      after == IF up THEN h.ptr[next] ELSE next
      down == p + h.size[p] = bp
      ptr1 == IF up THEN Drop(h.ptr, {next}) ELSE h.ptr
      size1 == IF up THEN Drop(h.size, {next}) ELSE h.size
  IN [ptr |-> IF down THEN Put(ptr1, p, after) ELSE Put(Put(ptr1, bp, after), p, bp),
      size |-> IF down THEN Put(Drop(size1, {bp}), p, h.size[p] + grown) ELSE Put(size1, bp, grown),
      freep |-> p]

\* The first block from p on that is large enough, and the one before it.
Find(h, prevp, p, start, nunits) ==
  IF h.size[p] >= nunits THEN [found |-> TRUE, prevp |-> prevp, p |-> p]
  ELSE IF p = start THEN [found |-> FALSE] ELSE Find(h, p, h.ptr[p], start, nunits)

Here == [ptr |-> ptr, size |-> size, freep |-> freep]

\* The list when malloc starts its search: the first call makes it.
Start == IF freep = 0 THEN [ptr |-> base :> base, size |-> base :> 0, freep |-> base] ELSE Here

\* Take nunits of the block that was found, from its end unless it fits.
Take(h, at, nunits) ==
  LET rest == h.size[at.p] - nunits
  IN IF rest = 0
     THEN [ptr |-> Put(Drop(h.ptr, {at.p}), at.prevp, h.ptr[at.p]), size |-> h.size, freep |-> at.prevp]
     ELSE [ptr |-> h.ptr, size |-> Put(Put(h.size, at.p, rest), at.p + rest, nunits), freep |-> at.prevp]

Become(h) == ptr' = h.ptr /\ size' = h.size /\ freep' = h.freep

Init == ptr = <<>> /\ size = <<>> /\ freep = 0 /\ brk = HEAP

malloc(nunits) ==
  LET h == Start
      at == Find(h, h.freep, h.ptr[h.freep], h.freep, nunits)
  IN at.found /\ Become(Take(h, at, nunits)) /\ UNCHANGED brk

\* No block is large enough: morecore asks for more, frees it and the search
\* goes on from there.
morecore(nunits, gap) ==
  LET h == Start
      nu == IF nunits < MINUNITS THEN MINUNITS ELSE nunits
      p == brk + gap
      more == free([h EXCEPT !.size = Put(@, p, nu)], p)
      at == Find(more, more.freep, more.ptr[more.freep], more.freep, nunits)
  IN /\ ~Find(h, h.freep, h.ptr[h.freep], h.freep, nunits).found
     /\ IF p + nu <= LIMIT
        THEN brk' = p + nu /\ Become(Take(more, at, nunits))
        ELSE Become(h) /\ UNCHANGED brk

\* free of a block malloc returned.
Release(bp) == bp \in InUse /\ Become(free(Here, bp)) /\ UNCHANGED brk

Next == \/ \E n \in Request : malloc(n) \/ \E gap \in {0, 1} : morecore(n, gap)
        \/ \E bp \in InUse : Release(bp)
-----------------------------------------------------------------------------
TypeOK == /\ freep \in DOMAIN ptr \cup {0} /\ brk \in HEAP..LIMIT
          /\ \A a \in DOMAIN size : size[a] \in 0..LIMIT
          /\ \A a \in DOMAIN ptr : ptr[a] \in DOMAIN ptr

Units(a) == a..a + size[a] - 1

\* Blocks never overlap, in use or free, and lie within what sbrk gave; so no
\* two callers of malloc share a unit.
BlocksDisjoint == \A a \in DOMAIN size \ {base} :
  /\ size[a] >= 1 /\ Units(a) \subseteq HEAP..brk - 1
  /\ \A b \in DOMAIN size \ {base, a} : Units(a) \cap Units(b) = {}

\* The list is one cycle through base and every free block, upwards but for one
\* step, and no free block touches the next: free has joined them.
FreeListInOrder == \A a \in DOMAIN ptr :
  LET above == {b \in Free : b > a}
  IN /\ ptr[a] = IF above = {} THEN base ELSE CHOOSE b \in above : \A c \in above : b <= c
     /\ a # base => a + size[a] # ptr[a]
=============================================================================
