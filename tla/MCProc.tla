------------------------------- MODULE MCProc -------------------------------
(* Proc on small tables. *)
EXTENDS Proc, TLC

Symmetry == Permutations(CPU)

(* Bounds of the safety run: behaviours are followed up to a state that is *)
(* outside one of them.  The invariants still hold there.                  *)

(* Up to three processes: one is killed at a time, or the second niced.    *)
NiceOrKill ==
  /\ \A p, q \in Slot : killed[p] /\ killed[q] => p = q
  /\ \A p, q \in Slot : priority[p] # 0 => p = 2 /\ ~killed[q]

(* A fourth process: neither nice nor kill, and one CPU at work.           *)
FamilyOnOneCPU ==
  nextpid > 4 =>
    /\ \A p \in Slot : priority[p] = 0 /\ ~killed[p] /\ chan[p] \notin Chan
    /\ \E c \in CPU : \A d \in CPU \ {c} : cproc[d] = 0 /\ scan[d] = 1 /\ ptlock # d

=============================================================================
