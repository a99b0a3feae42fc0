----------------------------- MODULE ShellParse -----------------------------
(***************************************************************************)
(* The parser of sh.c over a buffer of characters.  A place is an index    *)
(* from 0; the character at the end of the buffer is its 0.  A parse is a  *)
(* record of what was found, the place after it and whether it succeeded;  *)
(* panic ends the child shell, and is a parse that failed.  A word is kept *)
(* as the places of its first character and of its end, as in argv and     *)
(* eargv.                                                                  *)
(***************************************************************************)
EXTENDS Integers, Sequences, SequencesExt

CONSTANTS MAXARGS, Char, MaxLine

Whitespace == {" "}
Symbols == {"<", "|", ">", "&", ";", "(", ")"}
At(b, s) == IF s < Len(b) THEN b[s + 1] ELSE "0"

RECURSIVE Skip(_, _), WordEnd(_, _)
Skip(b, s) == IF At(b, s) \in Whitespace THEN Skip(b, s + 1) ELSE s
WordEnd(b, s) == IF At(b, s) \in Whitespace \cup Symbols \cup {"0"} THEN s ELSE WordEnd(b, s + 1)

gettoken(b, ps) ==
  LET q == Skip(b, ps)
      c == At(b, q)
      append == c = ">" /\ At(b, q + 1) = ">"
      eq == CASE c = "0" -> q
              [] c \in Symbols -> IF append THEN q + 2 ELSE q + 1
              [] OTHER -> WordEnd(b, q)
  IN [tok |-> IF append THEN "+" ELSE IF c \in Symbols \cup {"0"} THEN c ELSE "a", q |-> q, eq |-> eq, s |-> Skip(b, eq)]

peek(b, s, toks) == At(b, Skip(b, s)) \in toks
-----------------------------------------------------------------------------
Exec(argv) == [type |-> "EXEC", argv |-> argv]
redircmd(c, q, eq, fd) == [type |-> "REDIR", cmd |-> c, file |-> [q |-> q, eq |-> eq], fd |-> fd]
Pair(type, l, r) == [type |-> type, left |-> l, right |-> r]
backcmd(c) == [type |-> "BACK", cmd |-> c]
Parsed(c, s) == [ok |-> TRUE, cmd |-> c, s |-> s]
panic == [ok |-> FALSE]

RECURSIVE parseline(_, _), parsepipe(_, _), Redirs(_, _), Args(_, _, _, _), Backs(_, _, _), Wrap(_, _)
\* The redirections at s, in order.
Redirection(tok, file) == [q |-> file.q, eq |-> file.eq, fd |-> IF tok = "<" THEN 0 ELSE 1]
Prepend(redir, rest) == IF rest.ok THEN [rest EXCEPT !.redirs = <<redir>> \o @] ELSE rest
RedirTo(b, tok, file) == IF file.tok # "a" THEN panic ELSE Prepend(Redirection(tok, file), Redirs(b, file.s))
Redirs(b, s) == LET t == gettoken(b, s) IN
  IF peek(b, s, {"<", ">"}) THEN RedirTo(b, t.tok, gettoken(b, t.s))
  ELSE [ok |-> TRUE, redirs |-> <<>>, s |-> Skip(b, s)]

\* Mutant: a redirection is put inside those parsed before it.
WrapInside(c, redirs) == IF redirs = <<>> THEN c
                         ELSE Wrap(redircmd(c, Last(redirs).q, Last(redirs).eq, Last(redirs).fd), Front(redirs))

\* Each redirection is put around what was parsed before it.
Wrap(c, redirs) == IF redirs = <<>> THEN c
                   ELSE Wrap(redircmd(c, Head(redirs).q, Head(redirs).eq, Head(redirs).fd), Tail(redirs))

Around(c, r) == IF r.ok THEN Parsed(Wrap(c, r.redirs), r.s) ELSE panic
parseredirs(c, b, s) == Around(c, Redirs(b, s))

\* The loop of parseexec: words go to the EXEC node, redirections around it.
NextArg(b, t, argv, redirs, r) ==
  IF t.tok # "a" \/ Len(argv) + 1 >= MAXARGS \/ ~r.ok THEN panic
  ELSE Args(b, r.s, Append(argv, [q |-> t.q, eq |-> t.eq]), redirs \o r.redirs)
Args(b, s, argv, redirs) == LET t == gettoken(b, s) IN
  IF peek(b, s, {"|", ")", "&", ";"}) \/ t.tok = "0" THEN Parsed(Wrap(Exec(argv), redirs), Skip(b, s))
  ELSE NextArg(b, t, argv, redirs, Redirs(b, t.s))

Closed(b, line) == IF ~line.ok THEN panic
                   ELSE IF ~peek(b, line.s, {")"}) THEN panic
                   ELSE parseredirs(line.cmd, b, gettoken(b, line.s).s)
parseblock(b, s) == Closed(b, parseline(b, gettoken(b, s).s))

FirstArg(b, r) == IF r.ok THEN Args(b, r.s, <<>>, r.redirs) ELSE panic
parseexec(b, s) == IF peek(b, s, {"("}) THEN parseblock(b, s) ELSE FirstArg(b, Redirs(b, s))

\* What was parsed, and what follows it after an operator.
Join(type, l, r) == IF r.ok THEN Parsed(Pair(type, l.cmd, r.cmd), r.s) ELSE panic

PipeRest(b, l) == IF ~l.ok THEN panic
                  ELSE IF ~peek(b, l.s, {"|"}) THEN l
                  ELSE Join("PIPE", l, parsepipe(b, gettoken(b, l.s).s))
parsepipe(b, s) == PipeRest(b, parseexec(b, s))

Backs(b, c, s) == IF peek(b, s, {"&"}) THEN Backs(b, backcmd(c), gettoken(b, s).s) ELSE Parsed(c, Skip(b, s))

ListRest(b, l) == IF peek(b, l.s, {";"}) THEN Join("LIST", l, parseline(b, gettoken(b, l.s).s)) ELSE l
AfterPipe(b, p) == IF p.ok THEN ListRest(b, Backs(b, p.cmd, p.s)) ELSE panic
parseline(b, s) == AfterPipe(b, parsepipe(b, s))

RECURSIVE Words(_)
\* The words of a tree: the places where nulterminate stores a 0 are their ends.
Words(c) == CASE c.type = "EXEC" -> {c.argv[k] : k \in DOMAIN c.argv}
              [] c.type = "REDIR" -> Words(c.cmd) \cup {c.file}
              [] c.type = "BACK" -> Words(c.cmd)
              [] OTHER -> Words(c.left) \cup Words(c.right)

nulterminate(b, c) == [k \in 1..Len(b) |-> IF \E w \in Words(c) : w.eq + 1 = k THEN "0" ELSE b[k]]

NoLeftovers(b, l) == IF ~l.ok THEN panic ELSE IF Skip(b, l.s) # Len(b) THEN panic ELSE l
parsecmd(b) == NoLeftovers(b, parseline(b, Skip(b, 0)))
-----------------------------------------------------------------------------
RECURSIVE Tokens(_, _)
Tokens(b, s) == LET t == gettoken(b, s) IN IF t.tok = "0" THEN <<>> ELSE <<t>> \o Tokens(b, t.s)

RECURSIVE Count(_, _), Text(_, _), Shape(_, _)
Count(c, type) == (IF c.type = type THEN 1 ELSE 0) + CASE c.type = "EXEC" -> 0
                    [] c.type \in {"REDIR", "BACK"} -> Count(c.cmd, type)
                    [] OTHER -> Count(c.left, type) + Count(c.right, type)

Line == SeqOf(Char, MaxLine)
NumberOf(toks, set) == Len(SelectSeq(toks, LAMBDA t : t.tok \in set))

KeepsAll(b, cmd, toks, z) ==
  /\ Words(cmd) = {[q |-> toks[k].q, eq |-> toks[k].eq] : k \in {k \in DOMAIN toks : toks[k].tok = "a"}}
  /\ Count(cmd, "PIPE") = NumberOf(toks, {"|"}) /\ Count(cmd, "LIST") = NumberOf(toks, {";"})
  /\ Count(cmd, "BACK") = NumberOf(toks, {"&"}) /\ Count(cmd, "REDIR") = NumberOf(toks, {"<", ">", "+"})
  /\ \A w \in Words(cmd) : At(z, w.eq) = "0" /\ \A k \in w.q..w.eq - 1 : At(z, k) = At(b, k) /\ At(z, k) # "0"
Keeps(b, p) == p.ok => KeepsAll(b, p.cmd, Tokens(b, 0), nulterminate(b, p.cmd))

\* A line that is accepted loses nothing: each of its words is in the tree, and
\* each operator is a node; and once nulterminate has stored its zeros, the
\* string that starts at a word's first character is that word.
ParseKeepsAll == \A b \in Line : Keeps(b, parsecmd(b))

\* A tree written out again, with parentheses where a command is not of the
\* kind that may stand there.
Group(b, c, types) == IF c.type \in types THEN Text(b, c) ELSE <<"(">> \o Text(b, c) \o <<")">>
Spelled(b, w) == SubSeq(b, w.q + 1, w.eq)
Text(b, c) ==
  CASE c.type = "EXEC" -> FlattenSeq([k \in DOMAIN c.argv |-> Spelled(b, c.argv[k]) \o <<" ">>])
    [] c.type = "REDIR" -> Group(b, c.cmd, {"EXEC", "REDIR"}) \o <<IF c.fd = 0 THEN "<" ELSE ">">> \o Spelled(b, c.file) \o <<" ">>
    [] c.type = "PIPE" -> Group(b, c.left, {"EXEC", "REDIR"}) \o <<"|">> \o Group(b, c.right, {"EXEC", "REDIR", "PIPE"})
    [] c.type = "BACK" -> Group(b, c.cmd, {"EXEC", "REDIR", "PIPE", "BACK"}) \o <<"&">>
    [] c.type = "LIST" -> Group(b, c.left, {"EXEC", "REDIR", "PIPE", "BACK"}) \o <<";">> \o Text(b, c.right)

Shape(b, c) ==
  CASE c.type = "EXEC" -> <<"EXEC", [k \in DOMAIN c.argv |-> Spelled(b, c.argv[k])]>>
    [] c.type = "REDIR" -> <<"REDIR", Shape(b, c.cmd), Spelled(b, c.file), c.fd>>
    [] c.type = "BACK" -> <<"BACK", Shape(b, c.cmd)>>
    [] OTHER -> <<c.type, Shape(b, c.left), Shape(b, c.right)>>

SameShape(t, again, b, c) == IF again.ok THEN Shape(t, again.cmd) = Shape(b, c) ELSE FALSE
ReadsBackAs(t, b, c) == SameShape(t, parsecmd(t), b, c)
ReadsBack(b, p) == p.ok => ReadsBackAs(Text(b, p.cmd), b, p.cmd)

\* The parser reads back its own trees: | binds tighter than &, & tighter than
\* ;, a redirection belongs to the command or group it follows.
ParseReadsBack == \A b \in Line : ReadsBack(b, parsecmd(b))
=============================================================================
