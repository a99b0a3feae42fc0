------------------------------- MODULE Filters ------------------------------
(***************************************************************************)
(* User programs that read a stream: the matcher and the line loop of      *)
(* grep.c, wc.c, and gets of ulib.c.  A text is a sequence of characters;  *)
(* a stream is the sequence of what successive reads return.               *)
(***************************************************************************)
EXTENDS Integers, FiniteSets, Sequences, SequencesExt

CONSTANTS Letter,   \* characters of lines and patterns
          MaxRe, MaxText,
          BUFSIZE,  \* sizeof(buf) of grep
          MaxRead   \* reads tried

Rest(s, k) == SubSeq(s, k + 1, Len(s))
At(s, k) == IF Len(s) > k THEN s[k + 1] ELSE "nul"   \* s[k] in C

RECURSIVE matchhere(_, _), matchstar(_, _, _), matchFrom(_, _)

matchstar(c, re, text) ==
  \/ matchhere(re, text)
  \/ text # <<>> /\ (Head(text) = c \/ c = ".") /\ matchstar(c, re, Tail(text))

matchhere(re, text) ==
  CASE re = <<>> -> TRUE
    [] At(re, 1) = "*" -> matchstar(At(re, 0), Rest(re, 2), text)
    [] re = <<"$">> -> text = <<>>
    [] OTHER -> /\ text # <<>> /\ (At(re, 0) = "." \/ At(re, 0) = Head(text))
                /\ matchhere(Tail(re), Tail(text))

matchFrom(re, text) == matchhere(re, text) \/ (text # <<>> /\ matchFrom(re, Tail(text)))
match(re, text) == IF At(re, 0) = "^" THEN matchhere(Tail(re), text) ELSE matchFrom(re, text)
-----------------------------------------------------------------------------
RECURSIVE Scan(_, _), Lines(_, _, _), grep(_, _, _, _)
NewlineAt(s) == CHOOSE k \in DOMAIN s : s[k] = "nl" /\ \A j \in 1..k - 1 : s[j] # "nl"

\* The inner loop: the lines printed, and what is left behind the last newline.
Scan(re, buf) ==
  IF ~Contains(buf, "nl") THEN [out |-> <<>>, p |-> buf]
  ELSE LET k == NewlineAt(buf)
           r == Scan(re, Rest(buf, k))
       IN IF match(re, SubSeq(buf, 1, k - 1)) THEN [r EXCEPT !.out = SubSeq(buf, 1, k) \o @] ELSE r

\* Mutant: what is left of a line is dropped.
GrepForgets(re, reads, kept, out) ==
  IF reads = <<>> \/ Len(kept) + 1 = BUFSIZE THEN out
  ELSE LET r == Scan(re, kept \o Head(reads)) IN grep(re, Tail(reads), <<>>, out \o r.out)

\* The outer loop.  kept is what it moved to the front of buf; without a newline
\* in the buffer, m is set to 0 and the text is dropped.
grep(re, reads, kept, out) ==
  IF reads = <<>> \/ Len(kept) + 1 = BUFSIZE THEN out
  ELSE LET buf == kept \o Head(reads)
           r == Scan(re, buf)
       IN grep(re, Tail(reads), IF Contains(buf, "nl") THEN r.p ELSE <<>>, out \o r.out)

RECURSIVE wcRead(_, _), wc(_, _)
\* The loop of wc over the characters of one read; st carries inword across reads.
wcRead(s, st) ==
  IF s = <<>> THEN st
  ELSE LET blank == Head(s) \in {"nl", "sp"}
       IN wcRead(Tail(s), [c |-> st.c + 1, l |-> IF Head(s) = "nl" THEN st.l + 1 ELSE st.l,
                           w |-> IF ~blank /\ ~st.inword THEN st.w + 1 ELSE st.w, inword |-> ~blank])

wc(reads, st) == IF reads = <<>> THEN st ELSE wc(Tail(reads), wcRead(Head(reads), st))

RECURSIVE gets(_, _, _)
\* gets reads one character at a time.
gets(input, line, max) ==
  IF Len(line) + 1 >= max \/ input = <<>> \/ (line # <<>> /\ Last(line) \in {"nl", "cr"})
  THEN [line |-> line, input |-> input]
  ELSE gets(Tail(input), Append(line, Head(input)), max)
-----------------------------------------------------------------------------
RECURSIVE Items(_), After(_, _, _)
\* A pattern as a sequence of items.
Items(re) == CASE re = <<>> -> <<>>
               [] At(re, 1) = "*" -> <<[kind |-> "star", c |-> re[1]]>> \o Items(Rest(re, 2))
               [] re = <<"$">> -> <<[kind |-> "end", c |-> "$"]>>
               [] OTHER -> <<[kind |-> "one", c |-> re[1]]>> \o Items(Tail(re))

Fits(c, x) == c = "." \/ c = x

\* The places a match of the items that starts at a place of `from` may end.
After(items, text, from) ==
  IF items = <<>> THEN from
  ELSE LET i == Head(items)
           to == CASE i.kind = "one" -> {p + 1 : p \in {p \in from : p < Len(text) /\ Fits(i.c, At(text, p))}}
                   [] i.kind = "star" -> {q \in 0..Len(text) : \E p \in from : p <= q /\ \A k \in p..q - 1 : Fits(i.c, At(text, k))}
                   [] i.kind = "end" -> from \cap {Len(text)}
       IN After(Tail(items), text, to)

\* match accepts exactly the lines that the pattern, read as a sequence of
\* characters, starred characters and anchors, describes.
MatchCorrect == \A re \in SeqOf(Letter \cup {"^", "$", ".", "*"}, MaxRe), text \in SeqOf(Letter, MaxText) :
  match(re, text) <=> IF At(re, 0) = "^" THEN After(Items(Tail(re)), text, {0}) # {}
                      ELSE After(Items(re), text, 0..Len(text)) # {}

\* The lines of a text that match, in order.
Lines(re, s, out) == IF ~Contains(s, "nl") THEN out
  ELSE LET k == NewlineAt(s)
       IN Lines(re, Rest(s, k), IF match(re, SubSeq(s, 1, k - 1)) THEN out \o SubSeq(s, 1, k) ELSE out)

Reads == UNION {[1..n -> SeqOf(Letter \cup {"nl"}, BUFSIZE - 1) \ {<<>>}] : n \in 0..MaxRead}
LastNewline(s) == CHOOSE k \in 0..Len(s) : (k = 0 \/ s[k] = "nl") /\ \A j \in k + 1..Len(s) : s[j] # "nl"
FitBuffer(reads) == \A k \in DOMAIN reads :
  LET before == FlattenSeq(SubSeq(reads, 1, k - 1))
  IN Contains(reads[k], "nl") /\ Len(before) - LastNewline(before) + Len(reads[k]) < BUFSIZE

\* However the input is cut into reads, as long as each holds the end of a line
\* and fits the buffer, grep prints the matching lines of the whole input, lines
\* that begin in one read and end in the next included.
GrepPrintsMatches == \A reads \in Reads : FitBuffer(reads) =>
  \A re \in SeqOf(Letter, 1) : grep(re, reads, <<>>, <<>>) = Lines(re, FlattenSeq(reads), <<>>)

RECURSIVE AllGets(_, _)
AllGets(input, max) == LET r == gets(input, <<>>, max)
                       IN IF input = <<>> THEN <<>> ELSE <<r.line>> \o AllGets(r.input, max)

\* How the input is cut into reads does not change the counts of wc, and gets
\* loses none of it: its lines are the input, each ends at the first newline
\* or when the buffer is full.
Zero == [c |-> 0, l |-> 0, w |-> 0, inword |-> FALSE]
StreamsReadWhole == \A s \in SeqOf({"a", "sp", "nl"}, 5) :
  /\ \A i, j \in 0..Len(s) : i <= j => wc(<<SubSeq(s, 1, i), SubSeq(s, i + 1, j), Rest(s, j)>>, Zero) = wc(<<s>>, Zero)
  /\ \A max \in 2..4 : LET lines == AllGets(s, max)
                       IN /\ FlattenSeq(lines) = s
                          /\ \A k \in DOMAIN lines : /\ Len(lines[k]) < max /\ ~Contains(Front(lines[k]), "nl")
                                                    /\ k < Len(lines) => Last(lines[k]) = "nl" \/ Len(lines[k]) = max - 1
=============================================================================
