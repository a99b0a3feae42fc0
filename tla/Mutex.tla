------------------------------- MODULE Mutex -------------------------------
(***************************************************************************)
(* What a sleep lock promises to the file system: one owner at a time, who *)
(* releases it before anybody else can have it.                            *)
(***************************************************************************)
CONSTANTS Proc, None

VARIABLE owner

Init == owner = None

Acquire(p) == owner = None /\ owner' = p
Release(p) == owner = p /\ owner' = None

Next == \E p \in Proc : Acquire(p) \/ Release(p)

Spec == Init /\ [][Next]_owner
=============================================================================
