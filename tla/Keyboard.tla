------------------------------ MODULE Keyboard ------------------------------
(***************************************************************************)
(* The keyboard driver (kbd.c, kbd.h): the scan codes of keys that go down *)
(* and up wait in the controller, and kbdgetc takes them one at a time and *)
(* keeps which modifiers are on.  An extended key sends 0xE0 first.  The   *)
(* controller and the hands on the keys are external.                      *)
(***************************************************************************)
EXTENDS Integers, FiniteSets, Sequences

CONSTANTS Key,      \* keys of the keyboard, of KeyCode's domain
          QUEUE     \* bytes the controller holds

VARIABLES down,     \* keys held down
          locked,   \* TRUE after an odd number of presses of caps lock
          doubled,  \* both keys of a modifier have been down together
          queue,    \* bytes not yet read
          shift,    \* the modifiers kbdgetc has on
          char      \* what it returned last, and what was typed

kbdvars == <<down, locked, doubled, queue, shift, char>>

\* Scan codes; high is bit 0x80 of the index into the tables.
KeyCode == [lshift |-> [ext |-> FALSE, code |-> "2A"], rshift |-> [ext |-> FALSE, code |-> "36"],
            lctl |-> [ext |-> FALSE, code |-> "1D"], rctl |-> [ext |-> TRUE, code |-> "1D"],
            caps |-> [ext |-> FALSE, code |-> "3A"], a |-> [ext |-> FALSE, code |-> "1E"],
            up |-> [ext |-> TRUE, code |-> "48"]]
shiftcode(code, high) == CASE code = "1D" -> {"CTL"}
                           [] code \in {"2A", "36"} /\ ~high -> {"SHIFT"}
                           [] OTHER -> {}
togglecode(code, high) == IF code = "3A" /\ ~high THEN {"CAPSLOCK"} ELSE {}

\* What the maps hold for the letter, and for a key that is none.
charcode(mods, code, high) ==
  IF code # "1E" \/ high THEN "other"
  ELSE IF "CTL" \in mods THEN "^A" ELSE IF "SHIFT" \in mods THEN "A" ELSE "a"

SwapCase(c) == CASE c = "a" -> "A" [] c = "A" -> "a" [] OTHER -> c

\* What a press of the letter means to the typist.
Typed == IF down \cap {"lctl", "rctl"} # {} THEN "^A"
         ELSE IF (down \cap {"lshift", "rshift"} # {}) # locked THEN "A" ELSE "a"

Bytes(k, up, want) == (IF KeyCode[k].ext THEN <<[code |-> "E0", up |-> FALSE, want |-> "none"]>> ELSE <<>>)
                        \o <<[code |-> KeyCode[k].code, up |-> up, want |-> want]>>

Init == down = {} /\ locked = FALSE /\ doubled = FALSE /\ queue = <<>> /\ shift = {} /\ char = [c |-> "none", want |-> "none"]

\* A key goes down, or repeats while it is down.
Press(k) ==
  /\ Len(queue) + 2 <= QUEUE /\ (k = "caps" => k \notin down)
  /\ down' = down \cup {k}
  /\ locked' = IF k = "caps" THEN ~locked ELSE locked
  /\ doubled' = (doubled \/ {"lshift", "rshift"} \subseteq down' \/ {"lctl", "rctl"} \subseteq down')
  /\ queue' = queue \o Bytes(k, FALSE, IF k = "a" /\ ~doubled THEN Typed ELSE "none")
  /\ UNCHANGED <<shift, char>>

\* A key goes up.
Lift(k) ==
  /\ k \in down /\ Len(queue) + 2 <= QUEUE
  /\ down' = down \ {k} /\ doubled' = (doubled /\ down' # {})
  /\ queue' = queue \o Bytes(k, TRUE, "none")
  /\ UNCHANGED <<locked, shift, char>>

\* Mutant: the escape stays on.
OffKeepsEscape(code, high) == shiftcode(code, high)

\* What the release of a key turns off.
Off(code, high) == shiftcode(code, high) \cup {"E0ESC"}

kbdgetc ==
  LET d == Head(queue)
      high == "E0ESC" \in shift
      before == (shift \ {"E0ESC"}) \cup shiftcode(d.code, high)
      t == togglecode(d.code, high)
      on == (before \cup t) \ (before \cap t)
      c == charcode(on, d.code, high)
  IN /\ queue # <<>> /\ queue' = Tail(queue)
     /\ CASE d.code = "E0" -> shift' = shift \cup {"E0ESC"} /\ UNCHANGED char
          [] d.code # "E0" /\ d.up -> shift' = shift \ Off(d.code, high) /\ UNCHANGED char
          [] OTHER -> /\ shift' = on
                      /\ char' = [c |-> IF "CAPSLOCK" \in on THEN SwapCase(c) ELSE c, want |-> d.want]
     /\ UNCHANGED <<down, locked, doubled>>

Next == (\E k \in Key : Press(k) \/ Lift(k)) \/ kbdgetc
-----------------------------------------------------------------------------
\* When the controller has been read empty and no key is down, no modifier is
\* left on, whichever of the two keys of a modifier was used in which order,
\* and no escape is pending.
NoStuckModifier == queue = <<>> /\ down = {} => shift \subseteq {"CAPSLOCK"}

\* The letter the driver returns is the one that was typed, however long its
\* code waited behind others.  (Not after both keys of a modifier were down
\* together: the first to go up turns the modifier off.)
LetterAsTyped == char.want \in {"none", char.c}
=============================================================================
