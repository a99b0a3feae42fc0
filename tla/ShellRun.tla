------------------------------ MODULE ShellRun ------------------------------
(***************************************************************************)
(* init.c and the part of sh.c that runs a parsed line: the processes it   *)
(* forks, the descriptors they close and duplicate, and the children they  *)
(* wait for.  Programs are external: "W" writes, "R" reads to the end of   *)
(* its input, "C" copies, "F" is not found.  Of the kernel there is the    *)
(* process table, the descriptors and pipes of one item.                   *)
(***************************************************************************)
EXTENDS Integers, Sequences, FiniteSets, FiniteSetsExt

CONSTANTS Pid,     \* entries of the process table; 1 is init
          PipeId,  \* pipes there can be
          Cmd      \* for each line in turn, the commands that may be typed

VARIABLES proc,    \* per entry: where it is, its command, descriptors, parent
          full,    \* the pipes that hold an item
          typed,   \* lines typed so far
          failed   \* a fork or a pipe has failed

shvars == <<proc, full, typed, failed>>
FD == 0..5
Tty == [k |-> "tty", id |-> 0]
File == [k |-> "file", id |-> 0]
Closed == [k |-> "none", id |-> 0]
R(i) == [k |-> "r", id |-> i]
W(i) == [k |-> "w", id |-> i]
NoCmd == [type |-> "none"]
Unused == [at |-> "unused", cmd |-> NoCmd, fd |-> [d \in FD |-> Closed], parent |-> 0, bg |-> FALSE, n |-> 0, p |-> <<0, 0>>]

At(p, a) == proc[p].at = a
Live == {p \in Pid : proc[p].at \notin {"unused", "zombie"}}
FreeFds(fd) == {d \in FD : fd[d] = Closed}
HasEnd(e) == \E p \in Live : \E d \in FD : proc[p].fd[d] = e
FreePipes == {i \in PipeId : ~HasEnd(R(i)) /\ ~HasEnd(W(i))}
Children(p) == {q \in Pid : proc[q].parent = p /\ ~At(q, "unused")}

Step(p, r) == proc' = [proc EXCEPT ![p] = r]

\* exit closes the descriptors and gives the children to init.
exit(p) == proc' = [q \in Pid |->
  IF q = p THEN [Unused EXCEPT !.at = "zombie", !.parent = proc[p].parent]
  ELSE IF proc[q].parent = p THEN [proc[q] EXCEPT !.parent = 1] ELSE proc[q]]

\* fork1: panic, that is exit, when fork fails.
fork1(p, after, child) ==
  LET unused == {q \in Pid : At(q, "unused")}
  IN IF unused = {} THEN exit(p) /\ failed' = TRUE
     ELSE /\ proc' = [proc EXCEPT ![p] = [after EXCEPT !.n = Min(unused)], ![Min(unused)] = [child EXCEPT !.parent = p]]
          /\ UNCHANGED failed

\* wait takes a child that has exited; with no child it returns at once.
wait(p, after) ==
  \/ \E q \in Children(p) : At(q, "zombie") /\ proc' = [proc EXCEPT ![p] = after, ![q] = Unused]
  \/ Children(p) = {} /\ Step(p, after)

\* init has the console as 0, 1 and 2, and leaves the devices it opened to make
\* sure of them open; one stands for them.
Init ==
  /\ proc = [p \in Pid |-> IF p = 1 THEN [Unused EXCEPT !.at = "initfork", !.fd = [d \in FD |-> IF d <= 2 THEN Tty ELSE IF d = 3 THEN File ELSE Closed]] ELSE Unused]
  /\ full = {} /\ typed = 0 /\ failed = FALSE
-----------------------------------------------------------------------------
\* init starts a shell and reaps until that shell has exited.
init_fork == /\ At(1, "initfork")
             /\ fork1(1, [proc[1] EXCEPT !.at = "initwait"], [proc[1] EXCEPT !.at = "prompt"])
             /\ UNCHANGED <<full, typed>>

init_wait == /\ At(1, "initwait")
             /\ \E q \in Children(1) : /\ At(q, "zombie")
                                       /\ proc' = [proc EXCEPT ![q] = Unused, ![1].at = IF q = proc[1].n THEN "initfork" ELSE @]
             /\ UNCHANGED <<full, typed, failed>>

\* The shell reads a line and forks a child for it, or finds the end of input.
main(p) ==
  /\ At(p, "prompt")
  /\ \/ typed < Len(Cmd) /\ \E c \in Cmd[typed + 1] :
                       /\ typed' = typed + 1
                       /\ fork1(p, [proc[p] EXCEPT !.at = "shwait"], [proc[p] EXCEPT !.at = "run", !.cmd = c])
     \/ typed = Len(Cmd) /\ exit(p) /\ UNCHANGED <<typed, failed>>
  /\ UNCHANGED full

main_wait(p) == At(p, "shwait") /\ wait(p, [proc[p] EXCEPT !.at = "prompt"]) /\ UNCHANGED <<full, typed, failed>>

\* runcmd, by the kind of command.
Running(p, type) == At(p, "run") /\ proc[p].cmd.type = type

run_exec(p) ==
  /\ Running(p, "EXEC")
  /\ IF proc[p].cmd.prog \in {"", "F"} THEN exit(p) ELSE Step(p, [proc[p] EXCEPT !.at = "prog", !.n = 2])
  /\ UNCHANGED <<full, typed, failed>>

run_redir(p) == LET c == proc[p].cmd IN
  /\ Running(p, "REDIR")
  /\ Step(p, [proc[p] EXCEPT !.fd[c.fd] = File, !.cmd = c.cmd]) \/ exit(p)
  /\ UNCHANGED <<full, typed, failed>>

run_list(p) ==
  /\ Running(p, "LIST")
  /\ fork1(p, [proc[p] EXCEPT !.at = "listwait"], [proc[p] EXCEPT !.cmd = @.left])
  /\ UNCHANGED <<full, typed>>

list_wait(p) == /\ At(p, "listwait") /\ wait(p, [proc[p] EXCEPT !.at = "run", !.cmd = @.right])
                /\ UNCHANGED <<full, typed, failed>>

run_back(p) ==
  /\ Running(p, "BACK") \/ At(p, "back")
  /\ IF At(p, "back") THEN exit(p) /\ UNCHANGED failed
     ELSE fork1(p, [proc[p] EXCEPT !.at = "back"], [proc[p] EXCEPT !.cmd = @.cmd, !.bg = TRUE])
  /\ UNCHANGED <<full, typed>>

\* pipe takes the two lowest descriptors that are free.
run_pipe(p) == LET d0 == Min(FreeFds(proc[p].fd))
                   d1 == Min(FreeFds(proc[p].fd) \ {d0})
                   i == Min(FreePipes) IN
  /\ Running(p, "PIPE")
  /\ IF FreePipes = {} THEN exit(p) /\ failed' = TRUE /\ UNCHANGED full
     ELSE /\ Step(p, [proc[p] EXCEPT !.at = "fork left", !.fd[d0] = R(i), !.fd[d1] = W(i), !.p = <<d0, d1>>])
          /\ full' = full \ {i} /\ UNCHANGED failed
  /\ UNCHANGED typed

pipe_fork(p) ==
  /\ \/ At(p, "fork left") /\ fork1(p, [proc[p] EXCEPT !.at = "fork right"], [proc[p] EXCEPT !.at = "left"])
     \/ At(p, "fork right") /\ fork1(p, [proc[p] EXCEPT !.at = "close"], [proc[p] EXCEPT !.at = "right"])
  /\ UNCHANGED <<full, typed>>

\* close(d); dup(p[d]); close(p[0]); close(p[1]): the end of the pipe becomes the
\* lowest free descriptor.
Moved(fd, pp, d) ==
  LET shut == [fd EXCEPT ![d] = Closed]
      dup == [shut EXCEPT ![Min(FreeFds(shut))] = fd[pp[d + 1]]]
  IN [dup EXCEPT ![pp[1]] = Closed, ![pp[2]] = Closed]

pipe_child(p) ==
  /\ \/ At(p, "left") /\ Step(p, [proc[p] EXCEPT !.at = "run", !.fd = Moved(proc[p].fd, proc[p].p, 1), !.cmd = @.left])
     \/ At(p, "right") /\ Step(p, [proc[p] EXCEPT !.at = "run", !.fd = Moved(proc[p].fd, proc[p].p, 0), !.cmd = @.right])
  /\ UNCHANGED <<full, typed, failed>>

\* Mutant: the shell that set up the pipe keeps its ends while it waits.
PipeKeeps(p) ==
  /\ \/ At(p, "close") /\ Step(p, [proc[p] EXCEPT !.at = "wait1"])
     \/ At(p, "wait1") /\ wait(p, [proc[p] EXCEPT !.at = "wait2"])
     \/ At(p, "wait2") /\ wait(p, [proc[p] EXCEPT !.at = "done"])
     \/ At(p, "done") /\ exit(p)
  /\ UNCHANGED <<full, typed, failed>>

\* Mutant: one wait for the two sides of a pipe.
PipeWaitsOnce(p) ==
  /\ \/ At(p, "close") /\ Step(p, [proc[p] EXCEPT !.at = "wait2", !.fd[proc[p].p[1]] = Closed, !.fd[proc[p].p[2]] = Closed])
     \/ At(p, "wait2") /\ wait(p, [proc[p] EXCEPT !.at = "done"])
     \/ At(p, "done") /\ exit(p)
  /\ UNCHANGED <<full, typed, failed>>

pipe_wait(p) ==
  /\ \/ At(p, "close") /\ Step(p, [proc[p] EXCEPT !.at = "wait1", !.fd[proc[p].p[1]] = Closed, !.fd[proc[p].p[2]] = Closed])
     \/ At(p, "wait1") /\ wait(p, [proc[p] EXCEPT !.at = "wait2"])
     \/ At(p, "wait2") /\ wait(p, [proc[p] EXCEPT !.at = "done"])
     \/ At(p, "done") /\ exit(p)
  /\ UNCHANGED <<full, typed, failed>>
-----------------------------------------------------------------------------
\* Programs.  A write waits while the pipe is full and someone may read it; a
\* read waits while it is empty and someone may write it.
write(p, left) == LET e == proc[p].fd[1] IN
  \/ e.k # "w" /\ Step(p, left) /\ UNCHANGED full
  \/ e.k = "w" /\ HasEnd(R(e.id)) /\ e.id \notin full /\ Step(p, left) /\ full' = full \cup {e.id}
  \/ e.k = "w" /\ ~HasEnd(R(e.id)) /\ Step(p, [left EXCEPT !.n = 0]) /\ UNCHANGED full

read(p, got) == LET e == proc[p].fd[0] IN
  \/ e.k # "r" /\ Step(p, [proc[p] EXCEPT !.n = 0]) /\ UNCHANGED full
  \/ e.k = "r" /\ e.id \in full /\ Step(p, got) /\ full' = full \ {e.id}
  \/ e.k = "r" /\ e.id \notin full /\ ~HasEnd(W(e.id)) /\ Step(p, [proc[p] EXCEPT !.n = 0]) /\ UNCHANGED full

program(p) == LET prog == proc[p].cmd.prog
                  me == proc[p] IN
  /\ At(p, "prog")
  /\ \/ me.n = 0 /\ exit(p) /\ UNCHANGED full
     \/ me.n > 0 /\ prog = "W" /\ write(p, [me EXCEPT !.n = @ - 1])
     \/ me.n > 0 /\ prog = "R" /\ read(p, me)
     \/ me.n = 2 /\ prog = "C" /\ read(p, [me EXCEPT !.n = 1])
     \/ me.n = 1 /\ prog = "C" /\ write(p, [me EXCEPT !.n = 2])
  /\ UNCHANGED <<typed, failed>>

Shell(p) == main_wait(p) \/ run_exec(p) \/ run_redir(p) \/ run_list(p) \/ list_wait(p) \/ run_back(p)
              \/ run_pipe(p) \/ pipe_fork(p) \/ pipe_child(p) \/ pipe_wait(p) \/ program(p)

Next == init_fork \/ init_wait \/ \E p \in Pid : main(p) \/ Shell(p)

\* The scheduler runs every process that can run; nothing is said of the typist.
Fairness == WF_shvars(init_fork) /\ WF_shvars(init_wait) /\ \A p \in Pid : WF_shvars(Shell(p))
-----------------------------------------------------------------------------
TypeOK == /\ \A p \in Pid : proc[p].parent \in Pid \cup {0} /\ \A d \in FD : proc[p].fd[d].k \in {"none", "tty", "file", "r", "w"}
          /\ full \subseteq PipeId /\ typed \in 0..Len(Cmd)

\* The prompt appears only when the line before is done: every process left was
\* started in the background.  (When a fork or pipe fails, the shell that was to
\* wait exits instead.)
ForegroundDone == ~failed /\ (\E p \in Pid : At(p, "prompt")) =>
  \A p \in Live : p = 1 \/ At(p, "prompt") \/ proc[p].bg

\* A program starts with its three standard descriptors, and with no end of a
\* pipe but in them: none is left that would keep a reader from the end of its
\* input.
NoStrayEnds == \A p \in Pid : At(p, "prog") =>
  \A d \in FD : IF d <= 2 THEN proc[p].fd[d] # Closed ELSE proc[p].fd[d].k \notin {"r", "w"}

\* A line that was started ends and the shell comes back to its prompt, if
\* programs end at the end of their input: no pipe line waits for itself, also
\* when a side fails or a fork does not succeed.
PromptReturns == (\E p \in Pid : At(p, "shwait")) ~> ~(\E p \in Pid : At(p, "shwait"))
=============================================================================
