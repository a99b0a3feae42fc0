------------------------------- MODULE MCPipe -------------------------------
(* Small instances of Pipe for TLC.  The longer message does not fit into  *)
(* the buffer, and its bytes differ.                                       *)
EXTENDS Pipe

CONSTANTS a, b

TwoBytes == {a, b}
LongAndShort == {<<a, b, b>>, <<b>>}
=============================================================================
