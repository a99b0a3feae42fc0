------------------------------ MODULE MCNames -------------------------------
(***************************************************************************)
(* Two processes on a root and two more inodes, with relative paths from   *)
(* wherever chdir has taken them.                                          *)
(***************************************************************************)
EXTENDS Names, TLC

Rel(elems) == [abs |-> FALSE, elems |-> elems]
To(op, elems) == [op |-> op, path |-> Rel(elems), new |-> Rel(<<>>)]

Calls == {To("DIR", <<"d">>), To("FILE", <<"a">>), To("DEV", <<"d", "a">>),
          To("unlink", <<"a">>), To("unlink", <<"d">>), To("unlink", <<"d", "a">>), To("unlink", <<"d", "..">>),
          To("chdir", <<"d">>), To("chdir", <<"..">>),
          [op |-> "chdir", path |-> [abs |-> TRUE, elems |-> <<>>], new |-> Rel(<<>>)],
          [op |-> "link", path |-> Rel(<<"a">>), new |-> Rel(<<"d", "a">>)],
          [op |-> "link", path |-> Rel(<<"a">>), new |-> Rel(<<"..">>)],
          [op |-> "link", path |-> Rel(<<"d">>), new |-> Rel(<<"a">>)]}
Symmetric == Permutations(Proc)
=============================================================================
