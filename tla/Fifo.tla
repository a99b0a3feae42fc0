-------------------------------- MODULE Fifo --------------------------------
(***************************************************************************)
(* What a pipe promises: a bounded queue of bytes.  A write appends, in    *)
(* one or several pieces; a read takes what is there, oldest byte first;   *)
(* end of file is seen only by a reader of an empty queue whose writers    *)
(* have all closed.                                                        *)
(***************************************************************************)
EXTENDS Naturals, Sequences

CONSTANTS Reader, Byte, Size

VARIABLES q, rbuf, ropen, wopen

vars == <<q, rbuf, ropen, wopen>>

Init ==
  /\ q = <<>> /\ rbuf = [r \in Reader |-> <<>>]
  /\ ropen = TRUE /\ wopen = TRUE

Put ==
  /\ wopen
  /\ \E n \in 1 .. (Size - Len(q)) : \E bs \in [1 .. n -> Byte] : q' = q \o bs
  /\ UNCHANGED <<rbuf, ropen, wopen>>

Get(r) ==
  /\ ropen
  /\ \E n \in 1 .. Len(q) :
       /\ rbuf' = [rbuf EXCEPT ![r] = SubSeq(q, 1, n)]
       /\ q' = SubSeq(q, n + 1, Len(q))
  /\ UNCHANGED <<ropen, wopen>>

EndOfFile(r) ==
  /\ ropen /\ ~wopen /\ q = <<>>
  /\ rbuf' = [rbuf EXCEPT ![r] = <<>>]
  /\ UNCHANGED <<q, ropen, wopen>>

Close ==
  /\ ropen' \in {ropen, FALSE} /\ wopen' \in {wopen, FALSE}
  /\ UNCHANGED <<q, rbuf>>

Next == Put \/ Close \/ \E r \in Reader : Get(r) \/ EndOfFile(r)

Spec == Init /\ [][Next]_vars
=============================================================================
