----------------------------- MODULE AtomicDisk -----------------------------
(***************************************************************************)
(* What the log promises to the file system: a disk whose contents survive *)
(* a crash only as they were at some moment when no operation was active,  *)
(* so that an operation is on the disk as a whole or not at all.  Once a   *)
(* block has been written beyond the log, nothing is promised.             *)
(***************************************************************************)
EXTENDS Naturals

CONSTANTS Block, Value

VARIABLES
  mem,     \* what the file system reads
  stable,  \* what a crash leaves
  active,  \* the number of operations in progress
  spilt    \* a block has been written beyond the log

vars == <<mem, stable, active, spilt>>

Init ==
  /\ mem \in [Block -> Value]
  /\ stable = mem
  /\ active = 0 /\ spilt = FALSE

Begin == active' = active + 1 /\ UNCHANGED <<mem, stable>>
End == active > 0 /\ active' = active - 1 /\ UNCHANGED <<mem, stable>>

Write ==
  /\ active > 0
  /\ \E b \in Block, v \in Value : mem' = [mem EXCEPT ![b] = v]
  /\ UNCHANGED <<stable, active>>

Commit ==
  /\ active = 0
  /\ stable' = mem
  /\ UNCHANGED <<mem, active>>

Crash ==
  /\ mem' = stable /\ active' = 0
  /\ UNCHANGED stable

Spill == spilt' = TRUE

Next ==
  \/ ~spilt /\ ~spilt' /\ (Begin \/ End \/ Write \/ Commit \/ Crash)
  \/ Spill

Spec == Init /\ [][Next]_vars
=============================================================================
