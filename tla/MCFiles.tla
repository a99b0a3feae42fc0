------------------------------ MODULE MCFiles -------------------------------
(***************************************************************************)
(* Two processes, two inodes, two cache entries, two files and two         *)
(* descriptors: every table can run full.                                  *)
(***************************************************************************)
EXTENDS Files, TLC

Symmetric == Permutations(Proc)
=============================================================================
