-------------------------------- MODULE Format ------------------------------
(***************************************************************************)
(* Numbers and formats turned into text: printint and cprintf of           *)
(* console.c, s_printf and snprintf of printf.c and of ticks.c, and the    *)
(* copies devices make of their text.  A character is a digit, LOWER plus  *)
(* a digit for a letter of console.c, which prints lower case where        *)
(* printf.c and ticks.c print upper case, -1 for '-', -2 for '%', or       *)
(* another number for any other; a format is a sequence of characters and  *)
(* conversions.                                                            *)
(***************************************************************************)
EXTENDS Integers, Sequences, SequencesExt

CONSTANTS WORD,        \* 2^w; an int is in -WORD/2 .. WORD/2 - 1
          Base,        \* for %x and %d, 16 and 10 in the code
          LOWER,       \* above every other character
          LocalLength, \* localBufferLength
          Text,        \* string arguments
          Fmt          \* formats

Int32 == -(WORD \div 2)..(WORD \div 2) - 1
Unsigned(x) == x % WORD
Magnitude(xx, sgn) == IF sgn /\ xx < 0 THEN Unsigned(-xx) ELSE Unsigned(xx)

RECURSIVE Digits(_, _, _), ZeroPadded(_, _, _), AllDigits(_, _)
\* The loop of printf.c: least digit first, while there is room and a digit.
Digits(x, base, room) == IF room = 0 \/ x = 0 THEN <<>> ELSE <<x % base>> \o Digits(x \div base, base, room - 1)

\* The loop of ticks.c tests a variable it does not change: it fills the buffer.
ZeroPadded(a, base, room) == IF room = 0 THEN <<>> ELSE <<a % base>> \o ZeroPadded(a \div base, base, room - 1)

\* The digits of console.c: those from Base.d on are letters.
LowerCase(d) == IF d >= Base.d THEN LOWER + d ELSE d

\* The loop of console.c.
AllDigits(x, base) == <<LowerCase(x % base)>> \o IF x < base THEN <<>> ELSE AllDigits(x \div base, base)

Sign(s, xx, sgn, room) == IF sgn /\ xx < 0 /\ Len(s) < room THEN Append(s, -1) ELSE s

s_getReverseDigits(xx, base, sgn) ==
  LET d == Digits(Magnitude(xx, sgn), base, LocalLength - 1)
  IN Sign(IF xx = 0 THEN Append(d, 0) ELSE d, xx, sgn, LocalLength)

s_getReverse(xx, base, sgn) ==
  LET d == IF xx = 0 THEN <<0>> ELSE ZeroPadded(Magnitude(xx, sgn), base, LocalLength - 1)
  IN Sign(d, xx, sgn, LocalLength)

printint(xx, base, sgn) == LET d == AllDigits(Magnitude(xx, sgn), base)
                           IN IF sgn /\ xx < 0 THEN Append(d, -1) ELSE d
-----------------------------------------------------------------------------
s_printint(file, xx, base, sgn) == Reverse(IF file = "printf.c" THEN s_getReverseDigits(xx, base, sgn)
                                           ELSE s_getReverse(xx, base, sgn))

\* What s_printf prints for a character or a conversion, all of it.  0 for the
\* string stands for the null pointer.
Converted(file, item, arg) ==
  CASE item = "c" -> <<5>>
    [] item = "%d" -> s_printint(file, arg.i, Base.d, TRUE)
    [] item = "%x" -> s_printint(file, arg.i, Base.x, FALSE)
    [] item = "%s" -> IF arg.s = <<0>> THEN <<7, 7, 7>> ELSE arg.s
    [] item = "%c" -> <<arg.i>>
    [] item = "%%" -> <<-2>>
    [] item = "%?" -> <<-2, 6>>

\* cprintf has a printint of its own and no %c.
ConvertedConsole(item, arg) ==
  CASE item = "%d" -> Reverse(printint(arg.i, Base.d, TRUE))
    [] item = "%x" -> Reverse(printint(arg.i, Base.x, FALSE))
    [] item = "%c" -> <<-2, 8>>
    [] OTHER -> Converted("printf.c", item, arg)

cprintf(fmt, args) == FlattenSeq([k \in DOMAIN fmt |-> ConvertedConsole(fmt[k], args)])

\* s_sputc through an index: a character past the length is dropped.  length is
\* n - 1 as an unsigned number.
Put(out, index, chars, length) ==
  [k \in DOMAIN out \cup {j \in index..index + Len(chars) - 1 : j < length} |->
     IF k \in index..index + Len(chars) - 1 THEN chars[k - index + 1] ELSE out[k]]

RECURSIVE s_printf(_, _, _, _, _, _)
\* out is what has been stored at each index of the buffer.
s_printf(file, fmt, args, length, out, outindex) ==
  IF fmt = <<>> \/ outindex >= length THEN [out |-> out, count |-> IF length < outindex THEN length ELSE outindex]
  ELSE LET chars == Converted(file, Head(fmt), args)
       IN s_printf(file, Tail(fmt), args, length, Put(out, outindex, chars, length), outindex + Len(chars))

Nothing == [k \in {} |-> 0]

snprintf(file, n, fmt, args) ==
  LET r == s_printf(file, fmt, args, Unsigned(n - 1), Nothing, 0)
  IN [r EXCEPT !.out = IF r.count < Unsigned(n) THEN Put(@, r.count, <<0>>, WORD) ELSE @]

\* s_cnputs of dhello.c and zero.c: at most n characters, and a 0 if one fits.
s_cnputs(n, text) == LET k == IF Len(text) < n THEN Len(text) ELSE n
                     IN [count |-> k, out |-> SubSeq(text, 1, k) \o IF k < n THEN <<0>> ELSE <<>>]

\* ticks.c's own counts one more: the 0, stored or not.
s_cnputs_ticks(n, text) == [s_cnputs(n, text) EXCEPT !.count = @ + 1]

\* nullread leaves the buffer as it is.
nullread(n) == [count |-> n, out |-> <<>>]
-----------------------------------------------------------------------------
RECURSIVE Value(_, _)
DigitOf(c) == IF c >= LOWER THEN c - LOWER ELSE c
Value(s, base) == IF s = <<>> THEN 0 ELSE DigitOf(Last(s)) + base * Value(Front(s), base)
LowerText(s) == [k \in DOMAIN s |-> LowerCase(s[k])]
Read(s, base) == IF s # <<>> /\ Head(s) = -1 THEN -Value(Tail(s), base) ELSE Value(s, base)

\* The text of a number reads back as the number: as an int with %d, the most
\* negative one included, as an unsigned with %x.  Only ticks.c prints zeros
\* before it; console.c prints what printf.c does, with lower case letters.
NumbersReadBack == \A xx \in Int32 : \A sgn \in BOOLEAN :
  LET base == IF sgn THEN Base.d ELSE Base.x
      x == IF sgn THEN xx ELSE Unsigned(xx)
  IN /\ Read(Reverse(s_getReverse(xx, base, sgn)), base) = x
     /\ Read(Reverse(printint(xx, base, sgn)), base) = x
     /\ printint(xx, base, sgn) = LowerText(s_getReverseDigits(xx, base, sgn))

\* snprintf stores the expanded format, cut to n - 1 characters, and a 0 after
\* it; nothing is stored outside the n bytes.  n is at least 1 (for n = 0 the
\* length wraps to the largest unsigned number).  cprintf prints the same text
\* as printf.c for every format without %c, but for the case of the letters of %x.
SnprintfCorrect == \A fmt \in Fmt, xx \in Int32, s \in Text :
  LET args == [i |-> xx, s |-> s]
      Full(file) == FlattenSeq([k \in DOMAIN fmt |-> Converted(file, fmt[k], args)])
  IN /\ \A file \in {"printf.c", "ticks.c"}, n \in 1..7 :
          LET full == Full(file)
              k == IF Len(full) < n THEN Len(full) ELSE n - 1
              r == snprintf(file, n, fmt, args)
          IN /\ r.count = k
             /\ r.out = [j \in 0..k |-> IF j = k THEN 0 ELSE full[j + 1]]
     /\ (\A k \in DOMAIN fmt : fmt[k] # "%c") =>
          cprintf(fmt, args) = FlattenSeq([k \in DOMAIN fmt |->
            LET text == Converted("printf.c", fmt[k], args)
            IN  IF fmt[k] = "%x" THEN LowerText(text) ELSE text])

\* A device read stores at most the n bytes asked for and returns how many it
\* stored of its text; the count of the ticks device is one more, so that a read
\* too short for its text returns n + 1.
DeviceReadsBounded == \A text \in Text, n \in 0..8 :
  /\ Len(s_cnputs(n, text).out) <= n /\ s_cnputs(n, text).count <= n
  /\ s_cnputs_ticks(n, text).count <= n + 1 /\ Len(s_cnputs_ticks(n, text).out) <= n
  /\ SubSeq(text, 1, s_cnputs(n, text).count) = SubSeq(s_cnputs(n, text).out, 1, s_cnputs(n, text).count)
=============================================================================
