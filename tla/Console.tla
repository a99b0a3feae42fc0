------------------------------- MODULE Console ------------------------------
(***************************************************************************)
(* The console: consoleintr edits lines in a ring of INPUT_BUF bytes whose *)
(* three indices run modulo 2^w, consoleread takes from it and sleeps,     *)
(* kill may come between its look at killed and its sleep, and cgaputc     *)
(* moves the cursor of the screen.  What a key interrupt or a reader does  *)
(* under cons.lock is one step.                                            *)
(***************************************************************************)
EXTENDS Integers, Sequences

CONSTANTS Proc, Char, Newline, Eof,
          INPUT_BUF, WORD,   \* WORD = 2^w, a multiple of INPUT_BUF
          ROWS, COLS,        \* 25 and 80
          ReadLength

VARIABLES buf, r, w, e,      \* input
          pos,               \* the cursor
          pc, killed

vars == <<buf, r, w, e, pos, pc, killed>>

Idle == [at |-> "user", n |-> 0, target |-> 0]
Minus(a, b) == (a - b) % WORD
At(i) == buf[i % INPUT_BUF]

TypeOK == /\ buf \in [0..INPUT_BUF - 1 -> Char] /\ {r, w, e} \subseteq 0..WORD - 1
          /\ pos \in Nat
          /\ \A p \in Proc : pc[p].at \in {"user", "read", "look", "sleep"} /\ pc[p].n \in 0..pc[p].target
          /\ killed \subseteq Proc

Init == /\ buf = [i \in 0..INPUT_BUF - 1 |-> Newline]
        /\ r \in {0, WORD - 1} /\ w = r /\ e = r   \* just booted, or 2^w - 1 bytes later
        /\ pos = 0
        /\ pc = [p \in Proc |-> Idle]
        /\ killed = {}

\* wakeup(&input.r)
Woken == [p \in Proc |-> IF pc[p].at = "sleep" THEN [pc[p] EXCEPT !.at = "read"] ELSE pc[p]]
-----------------------------------------------------------------------------

\* cgaputc: where the cursor goes, the screen scrolled if it reaches the last row.
cgaputc(at, c) == LET new == CASE c = Newline -> at + COLS - (at % COLS)
                               [] c = "backspace" -> IF at > 0 THEN at - 1 ELSE at
                               [] OTHER -> at + 1
                  IN IF new \div COLS >= ROWS - 1 THEN new - COLS ELSE new

\* The cursor after n backspaces, one position each.
Backspaces(n) == IF n > pos THEN 0 ELSE pos - n

\* Mutant: a full ring is handed over without waking its readers.
ConsoleintrSilent(c) ==
  LET end == (e + 1) % WORD IN
  /\ Minus(e, r) < INPUT_BUF
  /\ buf' = [buf EXCEPT ![e % INPUT_BUF] = c]
  /\ e' = end
  /\ pos' = cgaputc(pos, c)
  /\ IF c \in {Newline, Eof} \/ end = (r + INPUT_BUF) % WORD
     THEN w' = end /\ pc' = IF c = Newline THEN Woken ELSE pc
     ELSE UNCHANGED <<w, pc>>
  /\ UNCHANGED <<r, killed>>

\* consoleintr, an ordinary character: kept if there is room.
consoleintr(c) ==
  LET end == (e + 1) % WORD IN
  /\ Minus(e, r) < INPUT_BUF
  /\ buf' = [buf EXCEPT ![e % INPUT_BUF] = c]
  /\ e' = end
  /\ pos' = cgaputc(pos, c)
  /\ IF c \in {Newline, Eof} \/ end = (r + INPUT_BUF) % WORD
     THEN w' = end /\ pc' = Woken
     ELSE UNCHANGED <<w, pc>>
  /\ UNCHANGED <<r, killed>>

\* ^H
backspace == /\ e # w
             /\ e' = Minus(e, 1)
             /\ pos' = cgaputc(pos, "backspace")
             /\ UNCHANGED <<buf, r, w, pc, killed>>

\* Mutant: ^U goes back as far as there are bytes, handed over or not.
KillLineFar == /\ e # w
               /\ e' = r
               /\ pos' = Backspaces(Minus(e, r))
               /\ UNCHANGED <<buf, r, w, pc, killed>>

\* ^U: back to w, or to a newline after w.
killLine == LET stops == {k \in 1..Minus(e, w) : At(Minus(e, k)) = Newline}
                n == IF stops = {} THEN Minus(e, w) ELSE (CHOOSE k \in stops : \A j \in stops : k <= j) - 1 IN
  /\ e # w
  /\ e' = Minus(e, n)
  /\ pos' = Backspaces(n)
  /\ UNCHANGED <<buf, r, w, pc, killed>>
-----------------------------------------------------------------------------
consoleread(p, n) ==
  /\ pc[p] = Idle /\ p \notin killed
  /\ pc' = [pc EXCEPT ![p] = [at |-> "read", n |-> n, target |-> n]]
  /\ UNCHANGED <<buf, r, w, e, pos, killed>>

Return(p) == pc' = [pc EXCEPT ![p] = Idle]

\* Bytes left, input there: take one.  ^D ends the read; after other bytes it
\* is left for the next one.
take(p) ==
  LET c == At(r) IN
  /\ pc[p].at = "read" /\ pc[p].n > 0 /\ r # w
  /\ r' = IF c = Eof /\ pc[p].n < pc[p].target THEN r ELSE (r + 1) % WORD
  /\ IF c \in {Newline, Eof} \/ pc[p].n = 1
     THEN Return(p)
     ELSE pc' = [pc EXCEPT ![p].n = @ - 1]
  /\ UNCHANGED <<buf, w, e, pos, killed>>

\* No input: a look at killed, then sleep.  kill does not take cons.lock, and
\* may come between the two; everything else waits for the lock.
look(p) == /\ pc[p].at = "read" /\ pc[p].n > 0 /\ r = w
           /\ IF p \in killed THEN Return(p) ELSE pc' = [pc EXCEPT ![p].at = "look"]
           /\ UNCHANGED <<buf, r, w, e, pos, killed>>

sleep(p) == /\ pc[p].at = "look"
            /\ pc' = [pc EXCEPT ![p].at = "sleep"]
            /\ UNCHANGED <<buf, r, w, e, pos, killed>>

none(p) == pc[p].at = "read" /\ pc[p].n = 0 /\ Return(p) /\ UNCHANGED <<buf, r, w, e, pos, killed>>

\* proc.c's kill
kill(p) == /\ p \notin killed
           /\ killed' = killed \cup {p}
           /\ pc' = IF pc[p].at = "sleep" THEN [pc EXCEPT ![p].at = "read"] ELSE pc
           /\ UNCHANGED <<buf, r, w, e, pos>>

\* consolewrite: one byte.
consolewrite(c) == pos' = cgaputc(pos, c) /\ UNCHANGED <<buf, r, w, e, pc, killed>>

LockFree == \A p \in Proc : pc[p].at # "look"
Next == \/ LockFree /\ ((\E c \in Char : consoleintr(c) \/ consolewrite(c)) \/ backspace \/ killLine)
        \/ \E p \in Proc : kill(p) \/ sleep(p) \/ (LockFree /\ (take(p) \/ look(p) \/ none(p)))
        \/ \E p \in Proc, n \in ReadLength : consoleread(p, n)

Spec == Init /\ [][Next]_vars
-----------------------------------------------------------------------------
Between(a, b) == [k \in 1..Minus(b, a) |-> At((a + k - 1) % WORD)]

\* The ring implements line input: between r and w are the bytes handed over,
\* between w and e the line being edited; editing never reaches what was handed
\* over, and readers get every byte once, in order.
Lines == INSTANCE LineInput WITH line <- Between(w, e), ready <- Between(r, w), Size <- INPUT_BUF
ImplementsLineInput == Lines!Spec

\* No reader sleeps while there is input: every way of handing over wakes the
\* readers, and a ^D put back finds none asleep.
SleepsWithoutInput == (\E p \in Proc : pc[p].at = "sleep") => r = w

\* The cursor stays above the last row, so that cgaputc never panics and never
\* writes outside the screen.
CursorOnScreen == pos < (ROWS - 1) * COLS
=============================================================================
