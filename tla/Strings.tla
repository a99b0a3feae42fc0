------------------------------- MODULE Strings ------------------------------
(***************************************************************************)
(* The string and memory routines of the kernel (string.c) and of user     *)
(* programs (ulib.c), loop by loop, beside what they are to compute.       *)
(* Memory is a function from addresses to bytes; a string in it ends at    *)
(* its first 0.                                                            *)
(***************************************************************************)
EXTENDS Integers, FiniteSets

CONSTANTS Addr,   \* addresses 0..N
          Byte    \* bytes, 0 among them

RECURSIVE Up(_, _, _, _), Down(_, _, _, _)
\* The two loops of memmove: from the first byte up, from the last byte down.
Up(m, d, s, n) == IF n = 0 THEN m ELSE Up([m EXCEPT ![d] = m[s]], d + 1, s + 1, n - 1)
Down(m, d, s, n) == IF n = 0 THEN m ELSE Down([m EXCEPT ![d + n - 1] = m[s + n - 1]], d, s, n - 1)

memmove(m, d, s, n) == IF s < d /\ s + n > d THEN Down(m, d, s, n) ELSE Up(m, d, s, n)

\* ulib.c's memmove knows no overlap.
UserMemmove(m, d, s, n) == Up(m, d, s, n)

RECURSIVE strlen(_, _), strncmp(_, _, _, _), strncpy(_, _, _, _), Fill(_, _, _)
strlen(m, s) == IF m[s] = 0 THEN 0 ELSE 1 + strlen(m, s + 1)

strncmp(m, p, q, n) ==
  CASE n = 0 -> 0
    [] n > 0 /\ m[p] # 0 /\ m[p] = m[q] -> strncmp(m, p + 1, q + 1, n - 1)
    [] OTHER -> m[p] - m[q]

\* strncpy: copy up to and with the 0, then fill what is left of the n bytes.
Fill(m, s, n) == IF n <= 0 THEN m ELSE Fill([m EXCEPT ![s] = 0], s + 1, n - 1)
strncpy(m, s, t, n) ==
  IF n <= 0 THEN m
  ELSE LET c == [m EXCEPT ![s] = m[t]]
       IN IF m[t] = 0 THEN Fill(c, s + 1, n - 1) ELSE strncpy(c, s + 1, t + 1, n - 1)

RECURSIVE SafeLoop(_, _, _, _)
\* safestrcpy's loop: the memory, and where it left s.
SafeLoop(m, s, t, n) ==
  IF n <= 0 THEN [m |-> m, s |-> s]
  ELSE LET c == [m EXCEPT ![s] = m[t]]
       IN IF m[t] = 0 THEN [m |-> c, s |-> s + 1] ELSE SafeLoop(c, s + 1, t + 1, n - 1)

\* The 0 goes where the loop stopped: after a string that fits, a second one.
safestrcpy(m, s, t, n) ==
  IF n <= 0 THEN m ELSE LET r == SafeLoop(m, s, t, n - 1) IN [r.m EXCEPT ![r.s] = 0]
-----------------------------------------------------------------------------
Memory == [Addr -> Byte]
Top == Cardinality(Addr)
StringAt(m, s) == \E k \in Addr : k >= s /\ m[k] = 0
Chars(m, s) == [k \in 0..strlen(m, s) |-> m[s + k]]

\* memmove moves the n bytes as they were before, however the two ranges
\* overlap, and touches nothing else; the user library's does so when the
\* destination is not inside the source (grep moves the rest of its buffer down).
MemmoveCorrect == \A m \in Memory : \A d, s \in Addr : \A n \in 0..Top - (IF d > s THEN d ELSE s) :
  LET moved == [a \in Addr |-> IF a \in d..d + n - 1 THEN m[s + a - d] ELSE m[a]]
  IN memmove(m, d, s, n) = moved /\ (d <= s \/ s + n <= d => UserMemmove(m, d, s, n) = moved)

\* strncmp is 0 exactly when the strings agree up to a common end or for n
\* characters, and otherwise has the sign of their first difference.
StrncmpCorrect == \A m \in Memory : \A p, q \in Addr : \A n \in 0..Top :
  StringAt(m, p) /\ StringAt(m, q) =>
    LET differ == {k \in 0..n - 1 : /\ k <= strlen(m, p) /\ k <= strlen(m, q) /\ m[p + k] # m[q + k]}
        first == CHOOSE k \in differ : \A j \in differ : k <= j
    IN strncmp(m, p, q, n) = IF differ = {} THEN 0 ELSE m[p + first] - m[q + first]

\* strncpy and safestrcpy write inside the n bytes at s and nowhere else, and
\* leave the characters of t there, cut at n (safestrcpy: at n - 1, with a 0).
CopiesCorrect == \A m \in Memory : \A s, t \in Addr : \A n \in 0..(IF t > s THEN t - s ELSE 0) :
  StringAt(m, t) =>
    LET cut(size) == IF strlen(m, t) < size THEN strlen(m, t) ELSE size
        a == strncpy(m, s, t, n)
        b == safestrcpy(m, s, t, n)
    IN /\ \A k \in Addr \ (s..s + n - 1) : a[k] = m[k] /\ b[k] = m[k]
       /\ \A k \in 0..n - 1 : a[s + k] = IF k < strlen(m, t) THEN m[t + k] ELSE 0
       /\ n > 0 => Chars(b, s) = [k \in 0..cut(n - 1) |-> IF k < cut(n - 1) THEN m[t + k] ELSE 0]

StringsCorrect == MemmoveCorrect /\ StrncmpCorrect /\ CopiesCorrect
=============================================================================
