------------------------------ MODULE LineInput -----------------------------
(***************************************************************************)
(* What the console promises of its input: a line being edited, and the    *)
(* lines that readers take from, byte by byte and in order.                *)
(***************************************************************************)
EXTENDS Integers, Sequences

CONSTANTS Char, Newline, Eof, Size

VARIABLES line, ready

Init == line = <<>> /\ ready = <<>>

\* A character joins the line; one that ends it, or fills the buffer, hands
\* the line over.
Type(c) == /\ Len(ready) + Len(line) < Size
           /\ IF c \in {Newline, Eof} \/ Len(ready) + Len(line) + 1 = Size
              THEN ready' = ready \o line \o <<c>> /\ line' = <<>>
              ELSE line' = Append(line, c) /\ UNCHANGED ready

Erase == line # <<>> /\ line' = SubSeq(line, 1, Len(line) - 1) /\ UNCHANGED ready
Kill == line # <<>> /\ line' = <<>> /\ UNCHANGED ready

Take == ready # <<>> /\ ready' = Tail(ready) /\ UNCHANGED line

Next == (\E c \in Char : Type(c)) \/ Erase \/ Kill \/ Take

Spec == Init /\ [][Next]_<<line, ready>>
=============================================================================
