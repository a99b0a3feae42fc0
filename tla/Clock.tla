-------------------------------- MODULE Clock -------------------------------
(***************************************************************************)
(* Time: the timer interrupt counts ticks modulo 2^w and sys_sleep waits   *)
(* for the count.  tickslock is a variable: kill comes between sys_sleep's *)
(* look at killed and its sleep.                                           *)
(***************************************************************************)
EXTENDS Integers, FiniteSets

CONSTANTS Proc, None,
          WORD,        \* 2^w: ticks and ticks0 are unsigned
          Request      \* arguments of sys_sleep

VARIABLES ticks, tickslock,
          pc, killed,
          elapsed,     \* history: ticks since the call, up to WORD
          short        \* history: processes whose sleep has ended too early

vars == <<ticks, tickslock, pc, killed, elapsed, short>>

Idle == [at |-> "user", n |-> 0, ticks0 |-> 0]

TypeOK == /\ ticks \in 0..WORD - 1
          /\ tickslock \in Proc \cup {None}
          /\ \A p \in Proc : pc[p].at \in {"user", "check", "look", "sleep"}
          /\ killed \subseteq Proc

Init == /\ ticks \in 0..WORD - 1
        /\ tickslock = None
        /\ pc = [p \in Proc |-> Idle]
        /\ killed = {}
        /\ elapsed = [p \in Proc |-> 0]
        /\ short = {}

Wakeup == [p \in Proc |-> IF pc[p].at = "sleep" THEN [pc[p] EXCEPT !.at = "check"] ELSE pc[p]]

\* Mutant: only the sleepers whose count has come are woken.
TimerExact ==
  /\ tickslock = None
  /\ \A p \in Proc : pc[p].at = "check" => elapsed[p] < WORD - 1
  /\ ticks' = (ticks + 1) % WORD
  /\ elapsed' = [p \in Proc |-> IF pc[p].at = "user" \/ elapsed[p] = WORD THEN elapsed[p] ELSE elapsed[p] + 1]
  /\ pc' = [p \in Proc |-> IF ticks' = pc[p].ticks0 + pc[p].n THEN Wakeup[p] ELSE pc[p]]
  /\ UNCHANGED <<tickslock, killed, short>>

\* The timer interrupt.  A woken process is assumed to run again before the
\* count has gone all the way round.
timer ==
  /\ tickslock = None
  /\ \A p \in Proc : pc[p].at = "check" => elapsed[p] < WORD - 1
  /\ ticks' = (ticks + 1) % WORD
  /\ elapsed' = [p \in Proc |-> IF pc[p].at = "user" \/ elapsed[p] = WORD THEN elapsed[p] ELSE elapsed[p] + 1]
  /\ pc' = Wakeup
  /\ UNCHANGED <<tickslock, killed, short>>

\* sys_sleep: from acquire to its sleep or return a process holds tickslock.
sys_sleep(p, n) ==
  /\ pc[p].at = "user" /\ p \notin killed
  /\ tickslock = None
  /\ pc' = [pc EXCEPT ![p] = [at |-> "check", n |-> n, ticks0 |-> ticks]]
  /\ elapsed' = [elapsed EXCEPT ![p] = 0]
  /\ UNCHANGED <<ticks, tickslock, killed, short>>

\* 0 when the time is over, -1 when killed.
Return(p, over) == /\ pc' = [pc EXCEPT ![p] = Idle]
                   /\ elapsed' = [elapsed EXCEPT ![p] = 0]
                   /\ short' = IF over /\ elapsed[p] < pc[p].n % WORD THEN short \cup {p} ELSE short
                   /\ UNCHANGED tickslock

\* Mutant: the counts are compared as they stand.
CheckUnwrapped(p) ==
  /\ pc[p].at = "check" /\ tickslock = None
  /\ IF ticks < pc[p].ticks0 + pc[p].n
     THEN IF p \in killed THEN Return(p, FALSE)
          ELSE /\ pc' = [pc EXCEPT ![p].at = "look"]
               /\ tickslock' = p
               /\ UNCHANGED <<elapsed, short>>
     ELSE Return(p, TRUE)
  /\ UNCHANGED <<ticks, killed>>

\* The loop's test and the look at killed.  The request is compared as an
\* unsigned number.
check(p) ==
  /\ pc[p].at = "check" /\ tickslock = None
  /\ IF (ticks - pc[p].ticks0) % WORD < pc[p].n % WORD
     THEN IF p \in killed THEN Return(p, FALSE)
          ELSE /\ pc' = [pc EXCEPT ![p].at = "look"]
               /\ tickslock' = p
               /\ UNCHANGED <<elapsed, short>>
     ELSE Return(p, TRUE)
  /\ UNCHANGED <<ticks, killed>>

sleep(p) == /\ pc[p].at = "look"
            /\ pc' = [pc EXCEPT ![p].at = "sleep"]
            /\ tickslock' = None
            /\ UNCHANGED <<ticks, killed, elapsed, short>>

kill(p) == /\ p \notin killed
           /\ killed' = killed \cup {p}
           /\ pc' = IF pc[p].at = "sleep" THEN [pc EXCEPT ![p].at = "check"] ELSE pc
           /\ UNCHANGED <<ticks, tickslock, elapsed, short>>

Next == timer \/ \E p \in Proc : check(p) \/ sleep(p) \/ kill(p) \/ \E n \in Request : sys_sleep(p, n)

\* The timer keeps interrupting, and a process that can run is scheduled.
Fairness == WF_vars(timer) /\ \A p \in Proc : SF_vars(check(p)) /\ WF_vars(sleep(p))
Spec == Init /\ [][Next]_vars /\ Fairness
-----------------------------------------------------------------------------
\* sys_sleep returns 0 only after as many ticks as were asked for, the wrap of
\* the counter included; a negative request counts as a large one.
SleepsLongEnough == short = {}

\* Every sys_sleep returns, a killed process's too: the kill that finds the
\* process not yet asleep is made good by the next tick.
SleepReturns == \A p \in Proc : pc[p].at # "user" ~> pc[p].at = "user"
=============================================================================
